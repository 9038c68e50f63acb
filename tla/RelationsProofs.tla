-------------------------- MODULE RelationsProofs ---------------------------
(* Theorems about Relations, for every schema: any number of entities and   *)
(* relations, any keys and targets, any order of declaration.               *)
EXTENDS Relations, DataLemmas

(* What Visit fixes, in the form the proofs below use it. *)
LEMMA VisitFacts ==
    ASSUME TypeOK, NEW r \in Rel, Visit(r)
    PROVE  /\ at \in 1..Len(remaining) /\ remaining[at] = r
           /\ at' = at + 1 /\ at' \in Nat \ {0} /\ at' <= Len(remaining) + 1
           /\ pc = "pass" /\ pc' = "pass"
           /\ pk' = pk /\ target' = target /\ all' = all /\ remaining' = remaining
<1>1. pc = "pass" /\ at <= Len(remaining) /\ remaining[at] = r /\ at' = at + 1
  BY DEF Visit
<1>2. pk' = pk /\ target' = target /\ all' = all /\ remaining' = remaining /\ pc' = pc
  BY DEF Visit, schema
<1>3. at \in Nat \ {0} /\ Len(remaining) \in Nat
  <2>1. at \in Nat \ {0} /\ remaining \in Seq(Rel)
    BY DEF TypeOK
  <2> QED
    BY <2>1
<1>4. at \in 1..Len(remaining) /\ at' \in Nat \ {0} /\ at' <= Len(remaining) + 1
  BY <1>1, <1>3
<1> QED
  BY <1>1, <1>2, <1>4

(* The type of an existing, finished key is one of the declared types. *)
LEMMA KeyTypeIsScalar ==
    ASSUME TypeOK, NEW e \in Entity, pk[e] # NoPK
    PROVE  KeyType(e) \in Scalar
BY DEF TypeOK, KeyType

LEMMA KeyGoTypeTyped ==
    ASSUME TypeOK, NEW e \in Entity, pk[e] # NoPK
    PROVE  KeyGoType(e) \in Scalar \cup Entity \cup {NoName}
BY DEF TypeOK, KeyGoType

-----------------------------------------------------------------------------
LEMMA TypeInit == Init => TypeOK
<1> SUFFICES ASSUME Init PROVE TypeOK
  OBVIOUS
<1>1. all \in Seq(Rel)
  <2>1. Cardinality(Rel) \in Nat
    BY RelAssumption, FS_CardinalityType
  <2> QED
    BY SMTT(20), <2>1 DEF Init, Schemas, Perms
<1> QED
  BY <1>1, ScalarAssumption DEF Init, Schemas, TypeOK

LEMMA TypeStep == TypeOK /\ [Next]_vars => TypeOK'
<1> SUFFICES ASSUME TypeOK, [Next]_vars PROVE TypeOK'
  OBVIOUS
<1>1. ASSUME NEW r \in Rel, Defer(r) PROVE TypeOK'
  <2>1. deferred' \in Seq(Rel)
    <3>1. deferred \in Seq(Rel)
      BY DEF TypeOK
    <3>2. deferred' = Append(deferred, r)
      BY <1>1 DEF Defer
    <3> QED
      BY <3>1, <3>2
  <2> QED
    BY <1>1, <2>1, VisitFacts DEF Defer, TypeOK
<1>2. ASSUME NEW r \in Rel, ResolveUnnamed(r) PROVE TypeOK'
  BY <1>2, VisitFacts DEF ResolveUnnamed, TypeOK
<1>3. ASSUME NEW r \in Rel, ResolveUnknown(r) PROVE TypeOK'
  <2>1. said' \in [Rel -> {"nothing", "does not exist", "cycle"}]
    BY <1>3 DEF ResolveUnknown, TypeOK
  <2> QED
    BY <1>3, <2>1, VisitFacts DEF ResolveUnknown, TypeOK
<1>4. ASSUME NEW r \in Rel, ResolveTarget(r) PROVE TypeOK'
  <2>1. CASE pk[target[r]] = NoPK
    <3>1. goType' \in [Rel -> Scalar \cup Entity \cup {NoName}]
      BY <1>4, <2>1, ScalarAssumption DEF ResolveTarget, TypeOK
    <3> QED
      BY <1>4, <2>1, <3>1, VisitFacts DEF ResolveTarget, TypeOK
  <2>2. CASE pk[target[r]] # NoPK
    <3>1. KeyType(target[r]) \in Scalar
      BY <1>4, <2>2, KeyTypeIsScalar DEF ResolveTarget, HasTarget
    <3>2. KeyGoType(target[r]) \in Scalar \cup Entity \cup {NoName}
      BY <1>4, <2>2, KeyGoTypeTyped DEF ResolveTarget, HasTarget
    <3>3. ftype' \in [Rel -> Scalar]
      BY <1>4, <2>2, <3>1 DEF ResolveTarget, TypeOK
    <3>4. goType' \in [Rel -> Scalar \cup Entity \cup {NoName}]
      BY <1>4, <2>2, <3>2 DEF ResolveTarget, TypeOK
    <3> QED
      BY <1>4, <3>3, <3>4, VisitFacts DEF ResolveTarget, TypeOK
  <2> QED
    BY <2>1, <2>2
<1>5. CASE NextPass
  <2>1. remaining' = deferred /\ deferred' = << >> /\ at' = 1
        /\ UNCHANGED <<pk, target, all, resolved, ftype, goType, said, pc>>
    BY <1>5 DEF NextPass, schema
  <2>2. deferred \in Seq(Rel) /\ Len(deferred) \in Nat /\ << >> \in Seq(Rel)
    <3>1. deferred \in Seq(Rel)
      BY DEF TypeOK
    <3> QED
      BY <3>1
  <2>3. remaining' \in Seq(Rel) /\ deferred' \in Seq(Rel)
        /\ at' \in Nat \ {0} /\ at' <= Len(remaining') + 1
    BY <2>1, <2>2
  <2> QED
    BY <2>1, <2>3 DEF TypeOK
<1>6. CASE ReportCycle
  <2>1. said' \in [Rel -> {"nothing", "does not exist", "cycle"}]
    BY <1>6 DEF ReportCycle, TypeOK
  <2> QED
    BY <1>6, <2>1 DEF ReportCycle, schema, TypeOK
<1>7. CASE Finish
  BY <1>7 DEF Finish, schema, TypeOK
<1>8. CASE UNCHANGED vars
  BY <1>8 DEF vars, TypeOK
<1> QED
  BY <1>1, <1>2, <1>3, <1>4, <1>5, <1>6, <1>7, <1>8 DEF Next

-----------------------------------------------------------------------------
(* Resolving r changes the type of no field but r's own, and r's own only   *)
(* from one its dependents have not read yet.                               *)
LEMMA PlaceholderStep ==
    TypeOK /\ NoPlaceholderCopied /\ [Next]_vars => NoPlaceholderCopied'
<1> SUFFICES ASSUME TypeOK, NoPlaceholderCopied, [Next]_vars PROVE NoPlaceholderCopied'
  OBVIOUS
<1>1. ASSUME NEW r \in Rel, Defer(r) PROVE NoPlaceholderCopied'
  BY <1>1, VisitFacts DEF Defer, NoPlaceholderCopied, HasTarget, KeyType
<1>2. ASSUME NEW r \in Rel, ResolveUnnamed(r) PROVE NoPlaceholderCopied'
  <2>1. ~HasTarget(r)
    BY <1>2, TargetsApart DEF ResolveUnnamed, HasTarget
  <2> QED
    BY <1>2, <2>1, VisitFacts
    DEF ResolveUnnamed, NoPlaceholderCopied, HasTarget, KeyType
<1>3. ASSUME NEW r \in Rel, ResolveUnknown(r) PROVE NoPlaceholderCopied'
  <2>1. ~HasTarget(r)
    BY <1>3, TargetsApart DEF ResolveUnknown, HasTarget
  <2> QED
    BY <1>3, <2>1, VisitFacts
    DEF ResolveUnknown, NoPlaceholderCopied, HasTarget, KeyType
<1>4. ASSUME NEW r \in Rel, ResolveTarget(r) PROVE NoPlaceholderCopied'
  <2>1. CASE pk[target[r]] = NoPK
    BY <1>4, <2>1, VisitFacts
    DEF ResolveTarget, NoPlaceholderCopied, HasTarget, KeyType, TypeOK
  <2>2. CASE pk[target[r]] # NoPK
    <3> DEFINE e == target[r]
    <3>1. e \in Entity /\ (pk[e] \in Rel => pk[e] \in resolved)
      BY <1>4, <2>2 DEF ResolveTarget, HasTarget, Waits, TypeOK
    <3>2. ftype' = [ftype EXCEPT ![r] = KeyType(e)] /\ resolved' = resolved \cup {r}
      BY <1>4, <2>2 DEF ResolveTarget
    <3>3. \A q \in Rel : ftype'[q] = IF q = r THEN KeyType(e) ELSE ftype[q]
      BY <3>2 DEF TypeOK
    <3>4. r \in resolved => ftype[r] = KeyType(e)
      BY <2>2, <3>1 DEF NoPlaceholderCopied, HasTarget
    <3>5. \A q \in Rel : q \in resolved => ftype'[q] = ftype[q]
      BY <3>3, <3>4
    <3>6. pk' = pk /\ target' = target
      BY <1>4, VisitFacts DEF ResolveTarget
    <3>7. \A q \in resolved :
            HasTarget(q) /\ pk[target[q]] # NoPK =>
                (pk[target[q]] \in Rel => pk[target[q]] \in resolved)
      BY DEF NoPlaceholderCopied
    <3>8. ASSUME NEW q \in resolved', target[q] \in Entity, pk[target[q]] # NoPK
          PROVE  /\ pk[target[q]] \in Rel => pk[target[q]] \in resolved
                 /\ KeyType(target[q])' = KeyType(target[q])
                 /\ ftype'[q] = KeyType(target[q])
      <4>1. q \in Rel /\ (q = r \/ q \in resolved)
        BY <3>2, <3>8 DEF TypeOK
      <4>2. pk[target[q]] \in Rel => pk[target[q]] \in resolved
        BY <3>1, <3>7, <3>8, <4>1 DEF HasTarget
      <4>3. KeyType(target[q])' = KeyType(target[q])
        BY <3>5, <3>6, <4>2 DEF KeyType
      <4>4. CASE q = r
        BY <3>3, <4>1, <4>2, <4>3, <4>4
      <4>5. CASE q # r
        <5>1. q \in resolved
          BY <4>1, <4>5
        <5>2. ftype[q] = KeyType(target[q])
          BY <3>8, <5>1 DEF NoPlaceholderCopied, HasTarget
        <5> QED
          BY <3>3, <4>1, <4>2, <4>3, <4>5, <5>2
      <4> QED
        BY <4>4, <4>5
    <3> QED
      BY <3>2, <3>6, <3>8 DEF NoPlaceholderCopied, HasTarget, KeyType
  <2> QED
    BY <2>1, <2>2
<1>5. CASE NextPass
  BY <1>5 DEF NextPass, schema, NoPlaceholderCopied, HasTarget, KeyType
<1>6. CASE ReportCycle
  BY <1>6 DEF ReportCycle, schema, NoPlaceholderCopied, HasTarget, KeyType
<1>7. CASE Finish
  BY <1>7 DEF Finish, schema, NoPlaceholderCopied, HasTarget, KeyType
<1>8. CASE UNCHANGED vars
  BY <1>8 DEF vars, NoPlaceholderCopied, HasTarget, KeyType
<1> QED
  BY <1>1, <1>2, <1>3, <1>4, <1>5, <1>6, <1>7, <1>8 DEF Next
-----------------------------------------------------------------------------
(* Nothing unresolved is ever lost between the queue of a pass and the next.*)
LEMMA QueueStep == TypeOK /\ UnresolvedQueued /\ [Next]_vars => UnresolvedQueued'
<1> SUFFICES ASSUME TypeOK, UnresolvedQueued, [Next]_vars PROVE UnresolvedQueued'
  OBVIOUS
<1>s. remaining \in Seq(Rel) /\ deferred \in Seq(Rel) /\ at \in Nat \ {0}
  BY DEF TypeOK
<1>1. ASSUME NEW r \in Rel, Defer(r) PROVE UnresolvedQueued'
  <2>1. deferred' = Append(deferred, r) /\ resolved' = resolved
    BY <1>1 DEF Defer
  <2>2. at' = at + 1 /\ remaining' = remaining /\ remaining[at] = r
    BY <1>1, VisitFacts DEF Defer
  <2>3. Len(deferred') = Len(deferred) + 1 /\ deferred'[Len(deferred')] = r
        /\ \A i \in 1..Len(deferred) : deferred'[i] = deferred[i]
    BY <1>s, <2>1
  <2>4. ASSUME NEW q \in Rel \ resolved
        PROVE  \/ \E i \in (at + 1)..Len(remaining) : remaining[i] = q
               \/ \E i \in 1..Len(deferred') : deferred'[i] = q
    <3>1. CASE \E i \in at..Len(remaining) : remaining[i] = q
      BY <1>s, <2>2, <2>3, <3>1
    <3>2. CASE \E i \in 1..Len(deferred) : deferred[i] = q
      BY <1>s, <2>3, <3>2
    <3> QED
      BY <3>1, <3>2 DEF UnresolvedQueued
  <2> QED
    BY <2>1, <2>2, <2>4 DEF UnresolvedQueued
<1>2. ASSUME NEW r \in Rel, Visit(r), resolved' = resolved \cup {r}, deferred' = deferred
      PROVE  UnresolvedQueued'
  <2>1. at' = at + 1 /\ remaining' = remaining /\ remaining[at] = r
    BY <1>2, VisitFacts
  <2>2. ASSUME NEW q \in Rel \ resolved, q # r
        PROVE  \/ \E i \in (at + 1)..Len(remaining) : remaining[i] = q
               \/ \E i \in 1..Len(deferred) : deferred[i] = q
    <3>1. CASE \E i \in at..Len(remaining) : remaining[i] = q
      BY <1>s, <2>1, <2>2, <3>1
    <3> QED
      BY <3>1 DEF UnresolvedQueued
  <2> QED
    BY <1>2, <2>1, <2>2 DEF UnresolvedQueued
<1>3. CASE NextPass
  <2>1. remaining' = deferred /\ at' = 1 /\ resolved' = resolved
    BY <1>3 DEF NextPass
  <2>2. at > Len(remaining)
    BY <1>3 DEF NextPass, PassEnded
  <2>3. \A q \in Rel \ resolved : \E i \in 1..Len(deferred) : deferred[i] = q
    BY <1>s, <2>2 DEF UnresolvedQueued
  <2> QED
    BY <2>1, <2>3 DEF UnresolvedQueued
<1>4. CASE ReportCycle \/ Finish \/ UNCHANGED vars
  BY <1>4 DEF ReportCycle, Finish, vars, UnresolvedQueued
<1> QED
  BY <1>1, <1>2, <1>3, <1>4
  DEF Next, ResolveUnnamed, ResolveUnknown, ResolveTarget

(* While a pass has deferred everything it visited, the deferred relations  *)
(* still wait for what they waited for.                                     *)
LEMMA WaitStep == TypeOK /\ AllDeferredWait /\ [Next]_vars => AllDeferredWait'
<1> SUFFICES ASSUME TypeOK, AllDeferredWait, [Next]_vars PROVE AllDeferredWait'
  OBVIOUS
<1>s. deferred \in Seq(Rel) /\ at \in Nat \ {0} /\ Len(deferred) \in Nat
  <2>1. deferred \in Seq(Rel) /\ at \in Nat \ {0}
    BY DEF TypeOK
  <2> QED
    BY <2>1
<1>1. ASSUME NEW r \in Rel, Defer(r) PROVE AllDeferredWait'
  <2>1. deferred' = Append(deferred, r) /\ resolved' = resolved /\ Waits(r)
    BY <1>1 DEF Defer
  <2>2. at' = at + 1 /\ pk' = pk /\ target' = target
    BY <1>1, VisitFacts DEF Defer
  <2>3. Len(deferred') = Len(deferred) + 1 /\ deferred'[Len(deferred')] = r
        /\ \A i \in 1..Len(deferred) : deferred'[i] = deferred[i]
    BY <1>s, <2>1
  <2>4. \A q : Waits(q)' = Waits(q)
    BY <2>1, <2>2 DEF Waits, HasTarget
  <2>5. Len(deferred') < at'
    BY <1>s, <2>2, <2>3 DEF AllDeferredWait
  <2>6. ASSUME Len(deferred') + 1 = at', NEW i \in 1..Len(deferred')
        PROVE  Waits(deferred'[i])
    <3>1. CASE i = Len(deferred')
      BY <2>1, <2>3, <3>1
    <3>2. CASE i # Len(deferred')
      <4>1. i \in 1..Len(deferred) /\ Len(deferred) + 1 = at
        BY <1>s, <2>2, <2>3, <2>6, <3>2
      <4> QED
        BY <2>3, <4>1 DEF AllDeferredWait
    <3> QED
      BY <3>1, <3>2
  <2> QED
    BY <2>4, <2>5, <2>6 DEF AllDeferredWait
<1>2. ASSUME NEW r \in Rel, Visit(r), deferred' = deferred PROVE AllDeferredWait'
  <2>1. at' = at + 1
    BY <1>2, VisitFacts
  <2> QED
    BY <1>2, <1>s, <2>1 DEF AllDeferredWait
<1>3. CASE NextPass
  <2>1. deferred' = << >> /\ at' = 1
    BY <1>3 DEF NextPass
  <2>2. Len(deferred') = 0
    BY <2>1
  <2> QED
    BY <2>1, <2>2 DEF AllDeferredWait
<1>4. CASE ReportCycle \/ Finish \/ UNCHANGED vars
  BY <1>4 DEF ReportCycle, Finish, vars, schema, AllDeferredWait, Waits, HasTarget
<1> QED
  BY <1>1, <1>2, <1>3, <1>4
  DEF Next, ResolveUnnamed, ResolveUnknown, ResolveTarget

(* A relation that waits has not been resolved.                             *)
LEMMA WaitingUnresolved ==
    ASSUME NoPlaceholderCopied, KeysApart, NEW r \in Rel, Waits(r)
    PROVE  r \notin resolved
BY DEF NoPlaceholderCopied, Waits, KeysApart

(* In a stuck pass everything waits.                                        *)
LEMMA StuckWaits ==
    ASSUME TypeOK, AllDeferredWait, PassEnded, Stuck
    PROVE  \A i \in 1..Len(deferred) : deferred[i] \in Rel /\ Waits(deferred[i])
<1>1. at \in Nat /\ at <= Len(remaining) + 1 /\ at > Len(remaining)
  BY DEF TypeOK, PassEnded
<1>2. deferred \in Seq(Rel) /\ remaining \in Seq(Rel)
  BY DEF TypeOK
<1>3. Len(deferred) = Len(remaining) /\ Len(remaining) \in Nat
  BY <1>2 DEF Stuck
<1>4. Len(deferred) + 1 = at
  BY <1>1, <1>3
<1>5. \A i \in 1..Len(deferred) : deferred[i] \in Rel
  BY <1>2
<1> QED
  BY <1>4, <1>5 DEF AllDeferredWait

(* ReportCycle blames the deferred relations and no other.                  *)
LEMMA ReportFacts ==
    ASSUME TypeOK, ReportCycle
    PROVE  /\ \A r \in Rel :
                 said'[r] = IF \E i \in 1..Len(deferred) : deferred[i] = r
                            THEN "cycle" ELSE said[r]
           /\ PassEnded /\ Stuck /\ pc' = "done"
           /\ pk' = pk /\ target' = target /\ resolved' = resolved
<1>1. DOMAIN deferred = 1..Len(deferred)
  <2>1. deferred \in Seq(Rel)
    BY DEF TypeOK
  <2> QED
    BY <2>1
<1>2. said' = [r \in Rel |->
                  IF \E i \in DOMAIN deferred : deferred[i] = r THEN "cycle" ELSE said[r]]
  BY DEF ReportCycle
<1>3. PassEnded /\ Stuck /\ pc' = "done"
      /\ pk' = pk /\ target' = target /\ resolved' = resolved
  BY DEF ReportCycle, schema
<1> QED
  BY <1>1, <1>2, <1>3

LEMMA CycleSaidStep ==
    TypeOK /\ NoPlaceholderCopied /\ AllDeferredWait /\ CycleSaidLast /\ [Next]_vars
    => CycleSaidLast'
<1> SUFFICES ASSUME TypeOK, NoPlaceholderCopied, AllDeferredWait, CycleSaidLast, [Next]_vars
             PROVE  CycleSaidLast'
  OBVIOUS
<1>1. ASSUME NEW r \in Rel, Defer(r) PROVE CycleSaidLast'
  BY <1>1, VisitFacts DEF Defer, CycleSaidLast, TypeOK
<1>2. ASSUME NEW r \in Rel, ResolveUnnamed(r) \/ ResolveTarget(r) PROVE CycleSaidLast'
  <2>1. said' = said /\ pc = "pass" /\ pc' = "pass" /\ resolved' = resolved \cup {r}
    BY <1>2, VisitFacts DEF ResolveUnnamed, ResolveTarget
  <2> QED
    BY <2>1 DEF CycleSaidLast, TypeOK
<1>3. ASSUME NEW r \in Rel, ResolveUnknown(r) PROVE CycleSaidLast'
  <2>1. /\ said' = [said EXCEPT ![r] = "does not exist"]
        /\ pc = "pass" /\ pc' = "pass" /\ resolved' = resolved \cup {r}
    BY <1>3, VisitFacts DEF ResolveUnknown
  <2>2. \A q \in Rel : said'[q] # "cycle"
    BY <2>1 DEF CycleSaidLast, TypeOK
  <2> QED
    BY <2>1, <2>2 DEF CycleSaidLast, TypeOK
<1>4. CASE NextPass
  BY <1>4 DEF NextPass, PassEnded, CycleSaidLast
<1>5. CASE ReportCycle
  <2>1. ASSUME NEW r \in resolved PROVE said'[r] # "cycle"
    <3>1. r \in Rel
      BY DEF TypeOK
    <3>2. \A i \in 1..Len(deferred) : deferred[i] # r
      BY <1>5, <2>1, ReportFacts, StuckWaits, WaitingUnresolved, KeysApart
    <3>3. said[r] # "cycle"
      BY DEF CycleSaidLast
    <3> QED
      BY <1>5, <3>1, <3>2, <3>3, ReportFacts
  <2> QED
    BY <1>5, <2>1, ReportFacts DEF CycleSaidLast
<1>6. CASE Finish
  BY <1>6 DEF Finish, PassEnded, CycleSaidLast
<1>7. CASE UNCHANGED vars
  BY <1>7 DEF vars, CycleSaidLast
<1> QED
  BY <1>1, <1>2, <1>3, <1>4, <1>5, <1>6, <1>7 DEF Next

LEMMA StuckReportedStep == IInv /\ [Next]_vars => OnlyStuckReported'
<1> SUFFICES ASSUME TypeOK, NoPlaceholderCopied, UnresolvedQueued, AllDeferredWait,
                    CycleSaidLast, OnlyStuckReported, [Next]_vars
             PROVE  OnlyStuckReported'
  BY DEF IInv
<1>1. ASSUME NEW r \in Rel, Visit(r) PROVE OnlyStuckReported'
  BY <1>1, VisitFacts DEF OnlyStuckReported
<1>2. CASE NextPass
  BY <1>2 DEF NextPass, PassEnded, OnlyStuckReported
<1>3. CASE ReportCycle
  <2>1. ASSUME NEW r \in Rel
        PROVE  IF r \in resolved THEN said'[r] # "cycle"
               ELSE said'[r] = "cycle" /\ Waits(r)
    <3>1. CASE r \in resolved
      <4>1. \A i \in 1..Len(deferred) : deferred[i] # r
        BY <1>3, <3>1, ReportFacts, StuckWaits, WaitingUnresolved, KeysApart
      <4> QED
        BY <1>3, <3>1, <4>1, ReportFacts DEF CycleSaidLast
    <3>2. CASE r \notin resolved
      <4>1. \E i \in 1..Len(deferred) : deferred[i] = r
        <5>1. at \in Nat /\ remaining \in Seq(Rel)
          BY DEF TypeOK
        <5>2. at > Len(remaining)
          BY <1>3, ReportFacts DEF PassEnded
        <5>3. ~ \E i \in at..Len(remaining) : remaining[i] = r
          BY <5>1, <5>2
        <5> QED
          BY <3>2, <5>3 DEF UnresolvedQueued
      <4> QED
        BY <1>3, <3>2, <4>1, ReportFacts, StuckWaits
    <3> QED
      BY <3>1, <3>2
  <2>2. \A r : Waits(r)' = Waits(r)
    BY <1>3, ReportFacts DEF Waits, HasTarget
  <2> QED
    BY <1>3, <2>1, <2>2, ReportFacts DEF OnlyStuckReported
<1>4. CASE Finish
  <2>1. said' = said /\ resolved' = resolved /\ pc = "pass" /\ remaining = << >>
    BY <1>4 DEF Finish, PassEnded
  <2>2. Rel \ resolved = {}
    <3>1. at \in Nat /\ at <= Len(remaining) + 1 /\ at > Len(remaining)
      BY <1>4 DEF TypeOK, Finish, PassEnded
    <3>2. Len(remaining) = 0
      BY <2>1
    <3>3. deferred \in Seq(Rel)
      BY DEF TypeOK
    <3>4. Len(deferred) = 0
      BY <3>1, <3>2, <3>3 DEF AllDeferredWait
    <3> QED
      BY <3>1, <3>2, <3>4 DEF UnresolvedQueued
  <2> QED
    BY <2>1, <2>2 DEF OnlyStuckReported, CycleSaidLast
<1>5. CASE UNCHANGED vars
  BY <1>5 DEF vars, OnlyStuckReported, Waits, HasTarget
<1> QED
  BY <1>1, <1>2, <1>3, <1>4, <1>5
  DEF Next, Defer, ResolveUnnamed, ResolveUnknown, ResolveTarget

-----------------------------------------------------------------------------
(* The order of resolution *)

(* A relation that need not wait has the key it needs resolved. *)
LEMMA Ready ==
    ASSUME NEW r \in Rel, ~Waits(r)
    PROVE  Next1(r) \subseteq resolved
BY DEF Waits, Next1

LEMMA UntargetedReady ==
    ASSUME NEW r \in Rel, target[r] \in {Unnamed, Unknown}
    PROVE  Next1(r) \subseteq resolved
BY TargetsApart DEF Next1, HasTarget

LEMMA ResolvedNext ==
    ASSUME TypeOK, ResolvedInOrder, NEW r \in Rel, Next1(r) \subseteq resolved,
           resolved' = resolved \cup {r}, pk' = pk, target' = target
    PROVE  ResolvedInOrder'
<1> DEFINE c == Cardinality(resolved)
           C == Cardinality(Rel)
<1>1. PICK rank \in [Rel -> 0..C] : \A q \in resolved :
          rank[q] < c /\ \A p \in Next1(q) : p \in resolved /\ rank[p] < rank[q]
  BY DEF ResolvedInOrder
<1>2. resolved \subseteq Rel
  BY DEF TypeOK
<1>3. IsFiniteSet(resolved) /\ c \in Nat /\ C \in Nat /\ c <= C
  BY <1>2, RelAssumption, FS_Subset, FS_CardinalityType
<1>4. \A q : Next1(q)' = Next1(q)
  BY DEF Next1, HasTarget
<1>5. CASE r \in resolved
  <2>1. resolved' = resolved
    BY <1>5
  <2> QED
    BY <1>1, <1>4, <2>1 DEF ResolvedInOrder
<1>6. CASE r \notin resolved
  <2> DEFINE new == [rank EXCEPT ![r] = c]
             D == Cardinality(resolved')
  <2>1. D = c + 1
    BY <1>3, <1>6, FS_AddElement
  <2>2. new \in [Rel -> 0..C] /\ new[r] = c /\ \A q \in resolved : new[q] = rank[q]
    BY <1>2, <1>3, <1>6
  <2>3. \A q \in resolved : rank[q] \in Nat
    BY <1>1, <1>2, <1>3
  <2> HIDE DEF new, c, D
  <2>4. ASSUME NEW q \in resolved' PROVE new[q] < D /\ \A p \in Next1(q) : p \in resolved' /\ new[p] < new[q]
    <3>1. CASE q = r
      BY <1>1, <1>3, <2>1, <2>2, <3>1
    <3>2. CASE q \in resolved
      BY <1>1, <1>3, <2>1, <2>2, <2>3, <3>2
    <3> QED
      BY <3>1, <3>2
  <2>5. \E f \in [Rel -> 0..C] : \A q \in resolved' :
            f[q] < D /\ \A p \in Next1(q) : p \in resolved' /\ f[p] < f[q]
    BY <2>2, <2>4
  <2> QED
    BY <1>4, <2>5 DEF ResolvedInOrder, D
<1> QED
  BY <1>5, <1>6

LEMMA OrderStep == TypeOK /\ ResolvedInOrder /\ [Next]_vars => ResolvedInOrder'
<1> SUFFICES ASSUME TypeOK, ResolvedInOrder, [Next]_vars PROVE ResolvedInOrder'
  OBVIOUS
<1>1. ASSUME resolved' = resolved, pk' = pk, target' = target PROVE ResolvedInOrder'
  BY <1>1 DEF ResolvedInOrder, Next1, HasTarget
<1>2. ASSUME NEW r \in Rel, Defer(r) PROVE ResolvedInOrder'
  BY <1>1, <1>2 DEF Defer, Visit, schema
<1>3. ASSUME NEW r \in Rel, ResolveUnnamed(r) PROVE ResolvedInOrder'
  BY <1>3, UntargetedReady, ResolvedNext DEF ResolveUnnamed, Visit, schema
<1>4. ASSUME NEW r \in Rel, ResolveUnknown(r) PROVE ResolvedInOrder'
  BY <1>4, UntargetedReady, ResolvedNext DEF ResolveUnknown, Visit, schema
<1>5. ASSUME NEW r \in Rel, ResolveTarget(r) PROVE ResolvedInOrder'
  BY <1>5, Ready, ResolvedNext DEF ResolveTarget, Visit, schema
<1>6. ASSUME NextPass \/ ReportCycle \/ Finish \/ UNCHANGED vars PROVE ResolvedInOrder'
  BY <1>1, <1>6 DEF NextPass, ReportCycle, Finish, vars, schema
<1> QED
  BY <1>2, <1>3, <1>4, <1>5, <1>6 DEF Next

LEMMA InvInit == Init => IInv
<1> SUFFICES ASSUME Init PROVE IInv
  OBVIOUS
<1>1. TypeOK
  BY TypeInit
<1>2. NoPlaceholderCopied
  BY DEF Init, NoPlaceholderCopied
<1>3. UnresolvedQueued
  <2>1. all \in Perms /\ remaining = all /\ at = 1
    BY DEF Init, Schemas
  <2>2. Cardinality(Rel) \in Nat
    BY RelAssumption, FS_CardinalityType
  <2>3. remaining \in Seq(Rel) /\ Len(remaining) = Cardinality(Rel)
        /\ \A r \in Rel : \E i \in 1..Cardinality(Rel) : remaining[i] = r
    BY <2>1, <2>2 DEF Perms
  <2> QED
    BY <2>1, <2>3 DEF UnresolvedQueued
<1>4. AllDeferredWait
  <2>1. deferred = << >> /\ at = 1
    BY DEF Init
  <2>2. Len(deferred) = 0
    BY <2>1
  <2> QED
    BY <2>1, <2>2 DEF AllDeferredWait
<1>5. CycleSaidLast /\ OnlyStuckReported
  BY DEF Init, CycleSaidLast, OnlyStuckReported
<1>6. ResolvedInOrder
  <2>1. Cardinality(Rel) \in Nat /\ resolved = {}
    BY RelAssumption, FS_CardinalityType DEF Init
  <2>2. [r \in Rel |-> 0] \in [Rel -> 0..Cardinality(Rel)]
    BY <2>1
  <2> QED
    BY <2>1, <2>2 DEF ResolvedInOrder
<1> QED
  BY <1>1, <1>2, <1>3, <1>4, <1>5, <1>6 DEF IInv

(* IInv is inductive.                                                       *)
THEOREM Invariance == Spec => []IInv
<1>1. Init => IInv
  BY InvInit
<1>2. IInv /\ [Next]_vars => IInv'
  BY TypeStep, PlaceholderStep, OrderStep, QueueStep, WaitStep, CycleSaidStep, StuckReportedStep
  DEF IInv
<1> QED
  BY <1>1, <1>2, PTL DEF Spec

(* Every variable keeps its type: no field is ever given the type of a key  *)
(* that does not exist.                                                     *)
THEOREM TypeCorrect == Spec => []TypeOK
<1>1. IInv => TypeOK
  BY DEF IInv
<1> QED
  BY <1>1, Invariance, PTL

(* Defect 6 cannot come back, in any schema and any declaration order: what *)
(* a resolved column was given is the final type of its target's key.       *)
THEOREM PlaceholderNeverCopied == Spec => []NoPlaceholderCopied
<1>1. IInv => NoPlaceholderCopied
  BY DEF IInv
<1> QED
  BY <1>1, Invariance, PTL

(* When the loop stops, each relation is either resolved or reported, and   *)
(* every reported one waits for the key of another reported one.            *)
THEOREM ReportIsExact == Spec => []OnlyStuckReported
<1>1. IInv => OnlyStuckReported
  BY DEF IInv
<1> QED
  BY <1>1, Invariance, PTL

-----------------------------------------------------------------------------
(* The reference *)

(* Recursion on the natural numbers: the values up to n, for every n.       *)
EndsStep(n, f) ==
    IF n = 0 THEN {r \in Rel : Next1(r) = {}} ELSE {r \in Rel : Next1(r) \subseteq f[n - 1]}

EndsUpTo(n, f) == f = [k \in 0..n |-> EndsStep(k, f)]

LEMMA SomeEnds == \A n \in Nat : \E f : EndsUpTo(n, f)
<1> DEFINE T == {n \in Nat : \E f : EndsUpTo(n, f)}
<1>1. 0 \in T
  <2> DEFINE f == [k \in 0..0 |-> EndsStep(0, 0)]
  <2>1. f = [k \in 0..0 |-> EndsStep(k, f)]
    BY DEF EndsStep
  <2> QED
    BY <2>1, Zenon DEF EndsUpTo
<1>2. ASSUME NEW n \in Nat, n \in T PROVE n + 1 \in T
  <2>1. PICK f : f = [k \in 0..n |-> EndsStep(k, f)]
    BY <1>2 DEF EndsUpTo
  <2> DEFINE g == [k \in 0..(n + 1) |-> IF k <= n THEN f[k] ELSE EndsStep(n + 1, f)]
  <2>2. ASSUME NEW k \in 0..(n + 1) PROVE g[k] = EndsStep(k, g)
    <3>1. CASE k <= n
      <4>1. g[k] = f[k] /\ f[k] = EndsStep(k, f)
        BY <2>1, <3>1
      <4>2. k # 0 => g[k - 1] = f[k - 1]
        BY <3>1
      <4> HIDE DEF g
      <4> QED
        BY <4>1, <4>2 DEF EndsStep
    <3>2. CASE k = n + 1
      <4>1. g[k] = EndsStep(k, f)
        BY <3>2
      <4>2. k # 0 /\ g[k - 1] = f[k - 1]
        BY <3>2
      <4> HIDE DEF g
      <4> QED
        BY <4>1, <4>2 DEF EndsStep
    <3> QED
      BY <3>1, <3>2
  <2>3. g = [k \in 0..(n + 1) |-> g[k]]
    OBVIOUS
  <2> HIDE DEF g
  <2>4. EndsUpTo(n + 1, g)
    BY <2>2, <2>3 DEF EndsUpTo
  <2> QED
    BY <2>4
<1> HIDE DEF T
<1>3. Nat \subseteq T
  BY <1>1, <1>2, NatByInduction
<1> QED
  BY <1>3 DEF T

LEMMA OneEnds ==
    ASSUME NEW n \in Nat, NEW m \in Nat, NEW f, NEW g, EndsUpTo(n, f), EndsUpTo(m, g),
           NEW k \in Nat, k <= n, k <= m
    PROVE  f[k] = g[k]
<1> DEFINE T == {l \in Nat : l <= n /\ l <= m => f[l] = g[l]}
<1>1. f = [l \in 0..n |-> EndsStep(l, f)] /\ g = [l \in 0..m |-> EndsStep(l, g)]
  BY DEF EndsUpTo
<1>2. (\A l \in 0..n : f[l] = EndsStep(l, f)) /\ \A l \in 0..m : g[l] = EndsStep(l, g)
  BY <1>1
<1>3. 0 \in T
  <2>1. f[0] = EndsStep(0, f) /\ g[0] = EndsStep(0, g)
    BY <1>2
  <2> QED
    BY <2>1 DEF EndsStep
<1>4. ASSUME NEW l \in Nat, l \in T PROVE l + 1 \in T
  <2> SUFFICES ASSUME l + 1 <= n, l + 1 <= m PROVE f[l + 1] = g[l + 1]
    OBVIOUS
  <2>1. f[l] = g[l]
    BY <1>4
  <2>2. f[l + 1] = EndsStep(l + 1, f) /\ g[l + 1] = EndsStep(l + 1, g)
    BY <1>2
  <2>3. l + 1 # 0 /\ (l + 1) - 1 = l
    OBVIOUS
  <2> QED
    BY <2>1, <2>2, <2>3 DEF EndsStep
<1> HIDE DEF T
<1>5. Nat \subseteq T
  BY <1>3, <1>4, NatByInduction
<1> QED
  BY <1>5 DEF T

LEMMA EndsFacts ==
    /\ Ends[0] = {r \in Rel : Next1(r) = {}}
    /\ \A n \in Nat : Ends[n + 1] = {r \in Rel : Next1(r) \subseteq Ends[n]}
<1> DEFINE P(n) == CHOOSE f : EndsUpTo(n, f)
           F == [n \in Nat |-> P(n)[n]]
<1>1. \A n \in Nat : EndsUpTo(n, P(n))
  BY SomeEnds
<1> HIDE DEF P
<1>2. ASSUME NEW n \in Nat PROVE F[n] = EndsStep(n, F)
  <2>1. P(n) = [k \in 0..n |-> EndsStep(k, P(n))]
    BY <1>1 DEF EndsUpTo
  <2>2. P(n)[n] = EndsStep(n, P(n))
    BY <2>1
  <2>3. n # 0 => P(n)[n - 1] = P(n - 1)[n - 1]
    <3> SUFFICES ASSUME n # 0 PROVE P(n)[n - 1] = P(n - 1)[n - 1]
      OBVIOUS
    <3>1. n - 1 \in Nat /\ n - 1 <= n /\ n - 1 <= n - 1
      OBVIOUS
    <3>2. EndsUpTo(n, P(n)) /\ EndsUpTo(n - 1, P(n - 1))
      BY <1>1, <3>1
    <3> QED
      BY <3>1, <3>2, OneEnds
  <2>4. F[n] = P(n)[n] /\ (n # 0 => F[n - 1] = P(n - 1)[n - 1])
    OBVIOUS
  <2> HIDE DEF F
  <2> QED
    BY <2>2, <2>3, <2>4 DEF EndsStep
<1>3. F = [n \in Nat |-> F[n]]
  OBVIOUS
<1> HIDE DEF F
<1>4. F = [n \in Nat |-> EndsStep(n, F)]
  BY <1>2, <1>3
<1>5. \E f : f = [n \in Nat |-> EndsStep(n, f)]
  BY <1>4
<1> DEFINE C == CHOOSE f : f = [n \in Nat |-> EndsStep(n, f)]
<1>6. C = [n \in Nat |-> EndsStep(n, C)]
  BY <1>5
<1>7. Ends = C
  BY DEF Ends, EndsStep
<1> HIDE DEF C
<1>8. C[0] = EndsStep(0, C) /\ \A n \in Nat : C[n + 1] = EndsStep(n + 1, C)
  BY <1>6
<1>9. \A n \in Nat : n + 1 # 0 /\ (n + 1) - 1 = n
  OBVIOUS
<1> QED
  BY <1>7, <1>8, <1>9 DEF EndsStep

(* What is resolved was resolved in order, so its chain of keys ends.       *)
LEMMA ResolvedEnds ==
    ASSUME IInv
    PROVE  resolved \subseteq Grounded
<1> DEFINE C == Cardinality(Rel)
           c == Cardinality(resolved)
<1>1. PICK rank \in [Rel -> 0..C] : \A r \in resolved :
          rank[r] < c /\ \A q \in Next1(r) : q \in resolved /\ rank[q] < rank[r]
  BY DEF IInv, ResolvedInOrder
<1>2. resolved \subseteq Rel
  BY DEF IInv, TypeOK
<1>3. c \in Nat /\ C \in Nat /\ c <= C
  BY <1>2, RelAssumption, FS_Subset, FS_CardinalityType
<1>4. \A r \in resolved : rank[r] \in Nat
  BY <1>1, <1>2, <1>3
<1> HIDE DEF c, C
<1> DEFINE T == {n \in Nat : \A r \in resolved : rank[r] <= n => r \in Ends[n]}
<1>5. 0 \in T
  <2> SUFFICES ASSUME NEW r \in resolved, rank[r] <= 0 PROVE r \in Ends[0]
    OBVIOUS
  <2>1. \A q \in Next1(r) : FALSE
    BY <1>1, <1>4
  <2> QED
    BY <1>2, <2>1, EndsFacts
<1>6. ASSUME NEW n \in Nat, n \in T PROVE n + 1 \in T
  <2> SUFFICES ASSUME NEW r \in resolved, rank[r] <= n + 1 PROVE r \in Ends[n + 1]
    OBVIOUS
  <2>1. \A q \in Next1(r) : q \in resolved /\ rank[q] <= n
    BY <1>1, <1>4
  <2>2. Next1(r) \subseteq Ends[n]
    BY <1>6, <2>1
  <2> QED
    BY <1>2, <2>2, EndsFacts
<1> HIDE DEF T
<1>7. Nat \subseteq T
  BY <1>5, <1>6, NatByInduction
<1>8. \A r \in resolved : r \in Ends[C]
  <2>1. C \in T
    BY <1>3, <1>7
  <2>2. \A r \in resolved : rank[r] <= C
    BY <1>1, <1>3, <1>4
  <2> QED
    BY <2>1, <2>2 DEF T
<1> QED
  BY <1>8 DEF Grounded, C

(* What waits for something that waits has no end of its chain.             *)
LEMMA EndsResolved ==
    ASSUME IInv, pc = "done"
    PROVE  Grounded \subseteq resolved
<1>1. \A r \in Rel \ resolved : \E q \in Rel \ resolved : q \in Next1(r)
  BY DEF IInv, OnlyStuckReported, Waits, Next1
<1> DEFINE T == {n \in Nat : Ends[n] \subseteq resolved}
<1>2. 0 \in T
  BY <1>1, EndsFacts
<1>3. ASSUME NEW n \in Nat, n \in T PROVE n + 1 \in T
  <2>1. Ends[n] \subseteq resolved /\ Ends[n + 1] = {r \in Rel : Next1(r) \subseteq Ends[n]}
    BY <1>3, EndsFacts
  <2> QED
    BY <1>1, <2>1
<1> HIDE DEF T
<1>4. Nat \subseteq T
  BY <1>2, <1>3, NatByInduction
<1>5. Cardinality(Rel) \in Nat
  BY RelAssumption, FS_CardinalityType
<1>6. Cardinality(Rel) \in T
  BY <1>4, <1>5
<1> QED
  BY <1>6 DEF T, Grounded

(* What is resolved depends on the schema alone, and on no order of its     *)
(* entities, of their fields or of the passes: exactly the relations whose  *)
(* chain of keys ends.                                                      *)
THEOREM OutcomeIsGrounded == Spec => []GroundedResolved
<1>1. IInv => GroundedResolved
  BY ResolvedEnds, EndsResolved DEF GroundedResolved
<1> QED
  BY <1>1, Invariance, PTL
=============================================================================
