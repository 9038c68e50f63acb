----------------------------- MODULE Relations ------------------------------
(***************************************************************************)
(* resolvePendingRelations (internal/parse/relation.go): the fixed point   *)
(* that gives every belongsTo column the type of its target's primary key. *)
(* A key may itself be a belongsTo column, so a relation can have to wait  *)
(* for another one, and a cycle of such keys can never be resolved.        *)
(*                                                                         *)
(* A relation stands for its foreign-key field as well (they are built in  *)
(* pairs), and an entity for the enum type generated for its key, if its   *)
(* key is an enum.  Fields are compared by pointer, hence by identity here.*)
(***************************************************************************)
EXTENDS Naturals, Sequences, FiniteSets

CONSTANTS
    Entity,
    Rel,            \* the belongsTo fields of the schema
    Owner,          \* the entity each of them is declared in
    Scalar,         \* types a field can declare by itself
    UUID, Enum,     \* two of them
    NoPK,           \* the entity has no key, or several (resolvePK reported it)
    Unnamed,        \* `target` absent, empty or not a string (reported before)
    Unknown,        \* a name no entity of the schema has
    NoName          \* the empty EnumGoType of a field that declared no enum

ASSUME RelAssumption == Owner \in [Rel -> Entity] /\ IsFiniteSet(Rel)
ASSUME ScalarAssumption == UUID \in Scalar /\ Enum \in Scalar /\ NoPK \notin Scalar
ASSUME KeysApart == Rel \cap (Scalar \cup {NoPK}) = {}
ASSUME TargetsApart == Unnamed \notin Entity /\ Unknown \notin Entity /\ Unnamed # Unknown

VARIABLES
    pk, target, all,          \* the schema: keys, targets, the pending relations
    remaining, at, deferred,  \* the pass: its input, the next index, its output
    resolved, ftype, goType,  \* per relation: done; Field.Type; Relation.GoType
    said,                     \* the diagnostic about it
    pc

schema == <<pk, target, all>>
vars == <<pk, target, all, remaining, at, deferred, resolved, ftype, goType, said, pc>>

Perms == {s \in [1..Cardinality(Rel) -> Rel] : {s[i] : i \in DOMAIN s} = Rel}

\* Relations are collected entity by entity, in document order.
ByEntity(s) ==
    \A i, j, k \in DOMAIN s :
        i < j /\ j < k /\ Owner[s[i]] = Owner[s[k]] => Owner[s[j]] = Owner[s[i]]

\* An entity's key is one of its own fields: a plain one of some type, or the
\* column of one of its own relations.
Keys(e) == Scalar \cup {NoPK} \cup {r \in Rel : Owner[r] = e}

Schemas ==
    /\ pk \in [Entity -> Scalar \cup {NoPK} \cup Rel]
    /\ \A e \in Entity : pk[e] \in Keys(e)
    /\ target \in [Rel -> Entity \cup {Unnamed, Unknown}]
    /\ all \in {s \in Perms : ByEntity(s)}

Init ==
    /\ Schemas
    /\ remaining = all /\ at = 1 /\ deferred = << >>
    /\ resolved = {}
    /\ ftype = [r \in Rel |-> UUID]             \* buildRelationField's placeholder
    /\ goType = [r \in Rel |-> NoName]
    /\ said = [r \in Rel |-> "nothing"]
    /\ pc = "pass"

-----------------------------------------------------------------------------
HasTarget(r) == target[r] \in Entity

\* Mutant: relations are resolved in declaration order, waiting for nothing.
NeverWaits(r) == FALSE

\* Mutant: a relation does not wait for itself.
WaitsForOthers(r) == HasTarget(r) /\ pk[target[r]] \in Rel \ (resolved \cup {r})

\* The target's own key has not finished resolving.
Waits(r) == HasTarget(r) /\ pk[target[r]] \in Rel \ resolved

\* Field.Type and Field.GoType of e's key.
KeyType(e) == IF pk[e] \in Rel THEN ftype[pk[e]] ELSE pk[e]

KeyGoType(e) ==
    IF pk[e] \in Rel
    THEN IF ftype[pk[e]] = Enum THEN NoName ELSE ftype[pk[e]]
    ELSE IF pk[e] = Enum THEN e ELSE pk[e]

Visit(r) ==
    /\ pc = "pass" /\ at <= Len(remaining) /\ r = remaining[at]
    /\ at' = at + 1
    /\ UNCHANGED <<schema, remaining, pc>>

Defer(r) ==
    /\ Visit(r) /\ Waits(r)
    /\ deferred' = Append(deferred, r)
    /\ UNCHANGED <<resolved, ftype, goType, said>>

\* `target` was missing or bad and already reported: nothing left to do.
ResolveUnnamed(r) ==
    /\ Visit(r) /\ target[r] = Unnamed
    /\ resolved' = resolved \cup {r}
    /\ UNCHANGED <<deferred, ftype, goType, said>>

ResolveUnknown(r) ==
    /\ Visit(r) /\ target[r] = Unknown
    /\ resolved' = resolved \cup {r}
    /\ said' = [said EXCEPT ![r] = "does not exist"]
    /\ UNCHANGED <<deferred, ftype, goType>>

\* Mutant: an entity without a key is not told apart.
ResolveAnyTarget(r) ==
    /\ Visit(r) /\ HasTarget(r) /\ ~Waits(r)
    /\ resolved' = resolved \cup {r}
    /\ ftype' = [ftype EXCEPT ![r] = KeyType(target[r])]
    /\ goType' = [goType EXCEPT ![r] = KeyGoType(target[r])]
    /\ UNCHANGED <<deferred, said>>

ResolveTarget(r) ==
    /\ Visit(r) /\ HasTarget(r) /\ ~Waits(r)
    /\ resolved' = resolved \cup {r}
    /\ IF pk[target[r]] = NoPK
       THEN /\ goType' = [goType EXCEPT ![r] = UUID] /\ UNCHANGED ftype
       ELSE /\ ftype' = [ftype EXCEPT ![r] = KeyType(target[r])]
            /\ goType' = [goType EXCEPT ![r] = KeyGoType(target[r])]
    /\ UNCHANGED <<deferred, said>>

PassEnded == pc = "pass" /\ at > Len(remaining)

\* Mutant: a pass that deferred anything at all is taken for a stuck one.
StuckTooSoon == remaining # << >> /\ Len(deferred) > 0

Stuck == remaining # << >> /\ Len(deferred) = Len(remaining)

\* Mutant: a stuck pass is run again.
PassAgain ==
    /\ PassEnded /\ remaining # << >>
    /\ remaining' = deferred /\ deferred' = << >> /\ at' = 1
    /\ UNCHANGED <<schema, resolved, ftype, goType, said, pc>>

NextPass ==
    /\ PassEnded /\ remaining # << >> /\ ~Stuck
    /\ remaining' = deferred /\ deferred' = << >> /\ at' = 1
    /\ UNCHANGED <<schema, resolved, ftype, goType, said, pc>>

ReportCycle ==
    /\ PassEnded /\ Stuck
    /\ said' = [r \in Rel |->
                  IF \E i \in DOMAIN deferred : deferred[i] = r THEN "cycle" ELSE said[r]]
    /\ pc' = "done"
    /\ UNCHANGED <<schema, remaining, at, deferred, resolved, ftype, goType>>

Finish ==
    /\ PassEnded /\ remaining = << >>
    /\ pc' = "done"
    /\ UNCHANGED <<schema, remaining, at, deferred, resolved, ftype, goType, said>>

Next ==
    \/ \E r \in Rel :
           Defer(r) \/ ResolveUnnamed(r) \/ ResolveUnknown(r) \/ ResolveTarget(r)
    \/ NextPass \/ ReportCycle \/ Finish

Spec == Init /\ [][Next]_vars

\* One goroutine runs the loop; nothing else can hold it up.
FairSpec == Spec /\ WF_vars(Next)

-----------------------------------------------------------------------------
(* Properties *)

TypeOK ==
    /\ pk \in [Entity -> Scalar \cup {NoPK} \cup Rel]
    /\ target \in [Rel -> Entity \cup {Unnamed, Unknown}]
    /\ all \in Seq(Rel)
    /\ remaining \in Seq(Rel) /\ deferred \in Seq(Rel)
    /\ at \in Nat \ {0} /\ at <= Len(remaining) + 1
    /\ resolved \subseteq Rel
    /\ ftype \in [Rel -> Scalar]
    /\ goType \in [Rel -> Scalar \cup Entity \cup {NoName}]
    /\ said \in [Rel -> {"nothing", "does not exist", "cycle"}]
    /\ pc \in {"pass", "done"}

\* No belongsTo column ever keeps the placeholder type of a key that was
\* resolved after it: once resolved, its type is the type of its target's key,
\* for good, however the entities and their fields are ordered (defect 6).
NoPlaceholderCopied ==
    \A r \in resolved :
        HasTarget(r) /\ pk[target[r]] # NoPK =>
            /\ pk[target[r]] \in Rel => pk[target[r]] \in resolved
            /\ ftype[r] = KeyType(target[r])

\* When it stops, everything not resolved was reported, and could not be
\* resolved: the key it waits for was reported as well.
OnlyStuckReported ==
    pc = "done" =>
        \A r \in Rel :
            IF r \in resolved THEN said[r] # "cycle"
            ELSE said[r] = "cycle" /\ Waits(r)

\* The reference: a relation is grounded when its chain of keys ends, within
\* as many hops as there are relations.
Next1(r) == IF HasTarget(r) /\ pk[target[r]] \in Rel THEN {pk[target[r]]} ELSE {}

Ends[n \in Nat] ==
    IF n = 0 THEN {r \in Rel : Next1(r) = {}}
    ELSE {r \in Rel : Next1(r) \subseteq Ends[n - 1]}

Grounded == Ends[Cardinality(Rel)]

\* The outcome is a function of the schema alone, not of any order: exactly the
\* grounded relations are resolved.
GroundedResolved == pc = "done" => resolved = Grounded

\* The fixed point is reached: the loop always ends.
Terminates == <>(pc = "done")

-----------------------------------------------------------------------------
(* The inductive invariant of RelationsProofs *)

\* Whatever is not resolved is still queued in this pass or for the next.
UnresolvedQueued ==
    \A r \in Rel \ resolved :
        \/ \E i \in at..Len(remaining) : remaining[i] = r
        \/ \E i \in 1..Len(deferred) : deferred[i] = r

\* As long as everything visited in this pass was deferred, nothing has been
\* resolved since, and all of it still waits.
AllDeferredWait ==
    /\ Len(deferred) < at
    /\ Len(deferred) + 1 = at => \A i \in 1..Len(deferred) : Waits(deferred[i])

\* No cycle is reported before the end, and then of unresolved relations only.
CycleSaidLast ==
    /\ pc = "pass" => \A r \in Rel : said[r] # "cycle"
    /\ \A r \in resolved : said[r] # "cycle"

\* The resolved relations were resolved one after the other, each after the key
\* it needs.
ResolvedInOrder ==
    \E rank \in [Rel -> 0..Cardinality(Rel)] : \A r \in resolved :
        /\ rank[r] < Cardinality(resolved)
        /\ \A q \in Next1(r) : q \in resolved /\ rank[q] < rank[r]

IInv ==
    /\ TypeOK /\ NoPlaceholderCopied /\ ResolvedInOrder
    /\ UnresolvedQueued /\ AllDeferredWait /\ CycleSaidLast /\ OnlyStuckReported

=============================================================================
