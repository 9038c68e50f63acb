--------------------------------- MODULE Lock ---------------------------------
(***************************************************************************)
(* .lapigo.lock (internal/gen/lock.go) over many runs of the generator: a  *)
(* run loads the lock, Write replaces its generated entries and saves it,  *)
(* DecideEmittedOnce compares the migration's entry with what the schema    *)
(* would emit today, and the caller creates the migration, records it and  *)
(* saves again when told to.  A run may be cut off anywhere; between runs  *)
(* the user changes the schema, the migration and, merging, the lock.      *)
(*                                                                         *)
(* The file is the sequence of its entry lines <<kind, digest, path>>; a   *)
(* line parseLock refuses by itself is Junk, and a file whose first two    *)
(* lines are wrong is Garbled.                                             *)
(***************************************************************************)
EXTENDS Naturals, Sequences

CONSTANTS
    Generated,      \* paths under internal/gen
    Migration,      \* migrations/0001_init.sql
    Sums,           \* digests
    Version,        \* generator versions
    Spaced,         \* those marshal refuses, for the white space in them
    InOrder(_),     \* the lines of a set, sorted by path
    UserTexts,      \* what a merge may make of the lock
    None, Junk, Garbled,
    MaxCrash,       \* bound: runs cut off
    MaxEdit         \* bound: things the user does

VARIABLES
    text, tmp,      \* .lapigo.lock and .lapigo.lock.tmp: lines, None, Garbled
    migration,      \* is the migration on disk
    schema,         \* the digest of ddl.Emit today
    pc,
    lock,           \* the run's lock: version and entries
    run,            \* the run: --force, the digest it would emit, where Save returns to
    verdict,        \* how DecideEmittedOnce answered, or that the run was refused
    recorded,       \* history: what was emitted for the migration, as far as saved
    emitted,        \* history: the digest this run emitted, not saved yet
    ours,           \* history: lapigo, not the user, wrote the lock last
    crashes, edits

vars == <<text, tmp, migration, schema, pc, lock, run, verdict, recorded, emitted, ours, crashes, edits>>

Paths == Generated \cup {Migration}
Kinds == {"generated", "emitted-once"}
Lines == Kinds \X Sums \X Paths
Entries == UNION {[D -> Kinds \X Sums] : D \in SUBSET Paths}

ASSUME LockAssumption ==
    /\ Migration \notin Generated /\ None \notin Sums
    /\ Junk \notin Lines
    /\ None \notin Seq(Lines \cup {Junk}) /\ Garbled \notin Seq(Lines \cup {Junk}) /\ None # Garbled
    /\ UserTexts \subseteq Seq(Lines \cup {Junk}) \cup {Garbled}
    /\ \A t \in UserTexts \ {Garbled} : \A i \in DOMAIN t :
           t[i] # Junk /\ t[i][3] = Migration => t[i][1] = "emitted-once"
    /\ Version \ Spaced # {}
    /\ MaxCrash \in Nat /\ MaxEdit \in Nat

LinesOf(e) == {<<e[p][1], e[p][2], p>> : p \in DOMAIN e}

\* sort.Slice returns each line once.
ASSUME InOrderAssumption ==
    \A e \in Entries :
        /\ InOrder(LinesOf(e)) \in Seq(LinesOf(e))
        /\ \A l \in LinesOf(e) : \E i \in DOMAIN InOrder(LinesOf(e)) : InOrder(LinesOf(e))[i] = l
        /\ \A i, j \in DOMAIN InOrder(LinesOf(e)) :
               InOrder(LinesOf(e))[i] = InOrder(LinesOf(e))[j] => i = j

NoEntries == [p \in {} |-> None]
NoRun == [force |-> FALSE, today |-> None, next |-> "idle"]

Init ==
    /\ text = None /\ tmp = None /\ migration = FALSE
    /\ schema \in Sums
    /\ pc = "idle" /\ lock = NoEntries /\ run = NoRun /\ verdict = "none"
    /\ recorded = None /\ emitted = None /\ ours = TRUE
    /\ crashes = 0 /\ edits = 0

-----------------------------------------------------------------------------
(* The codec *)

Marshal(e) == InOrder(LinesOf(e))

\* Mutant: a second line for a path replaces the first.
ReadableTwice(t) == t # Garbled /\ \A i \in DOMAIN t : t[i] # Junk

Readable(t) ==
    /\ t # Garbled
    /\ \A i \in DOMAIN t : t[i] # Junk
    /\ \A i, j \in DOMAIN t : t[i][3] = t[j][3] => i = j

\* Mutant: the fields of a line are taken in the wrong order.
ParseSwapped(t) ==
    [p \in {t[i][3] : i \in DOMAIN t} |->
        LET i == CHOOSE i \in DOMAIN t : t[i][3] = p IN <<t[i][2], t[i][1]>>]

Parse(t) ==
    [p \in {t[i][3] : i \in DOMAIN t} |->
        LET i == CHOOSE i \in DOMAIN t : t[i][3] = p IN <<t[i][1], t[i][2]>>]

-----------------------------------------------------------------------------
(* A run *)

Busy(step) == pc' = step /\ UNCHANGED <<crashes, edits>>

Load(force) ==
    /\ pc = "idle"
    /\ IF text = None THEN lock' = NoEntries /\ Busy("refresh") /\ verdict' = "none"
       ELSE IF Readable(text) THEN lock' = Parse(text) /\ Busy("refresh") /\ verdict' = "none"
       ELSE lock' = NoEntries /\ Busy("idle") /\ verdict' = "refused"
    /\ run' = IF pc' = "idle" THEN NoRun ELSE [force |-> force, today |-> schema, next |-> "decide"]
    /\ emitted' = None
    /\ UNCHANGED <<text, tmp, migration, schema, recorded, ours>>

\* Mutant: Write clears the whole lock.
RefreshAll(sums) ==
    /\ pc = "refresh"
    /\ lock' = [p \in DOMAIN sums |-> <<"generated", sums[p]>>]
    /\ Busy("marshal")
    /\ UNCHANGED <<text, tmp, migration, schema, run, verdict, recorded, emitted, ours>>

\* Write: the generated entries give way to those of the files written.
Refresh(sums) ==
    LET kept == {p \in DOMAIN lock : lock[p][1] # "generated"} IN
    /\ pc = "refresh"
    /\ lock' = [p \in kept \cup DOMAIN sums |->
                   IF p \in DOMAIN sums THEN <<"generated", sums[p]>> ELSE lock[p]]
    /\ Busy("marshal")
    /\ UNCHANGED <<text, tmp, migration, schema, run, verdict, recorded, emitted, ours>>

\* A version the run's first save took is one its second takes.
MarshalRefuses(v) ==
    /\ pc = "marshal" /\ v \in Spaced /\ run.next = "decide"
    /\ Busy("idle") /\ verdict' = "refused" /\ run' = NoRun /\ lock' = NoEntries
    /\ UNCHANGED <<text, tmp, migration, schema, recorded, emitted, ours>>

\* Mutant: the lock is written where it stands.
OpenLock(v) ==
    /\ pc = "marshal" /\ v \notin Spaced
    /\ text' = Garbled /\ Busy("fill")
    /\ UNCHANGED <<tmp, migration, schema, lock, run, verdict, recorded, emitted, ours>>

OpenTmp(v) ==
    /\ pc = "marshal" /\ v \notin Spaced
    /\ tmp' = Garbled /\ Busy("fill")
    /\ UNCHANGED <<text, migration, schema, lock, run, verdict, recorded, emitted, ours>>

Fill ==
    /\ pc = "fill"
    /\ tmp' = Marshal(lock) /\ Busy("rename")
    /\ UNCHANGED <<text, migration, schema, lock, run, verdict, recorded, emitted, ours>>

Rename ==
    /\ pc = "rename"
    /\ text' = tmp /\ tmp' = None /\ ours' = TRUE
    /\ recorded' = IF emitted # None THEN emitted ELSE recorded
    /\ emitted' = None
    /\ Busy(run.next)
    /\ run' = IF run.next = "idle" THEN NoRun ELSE run
    /\ lock' = IF run.next = "idle" THEN NoEntries ELSE lock
    /\ UNCHANGED <<migration, schema, verdict>>

DecideEmittedOnce(exists) ==
    LET present == Migration \in DOMAIN lock IN
    CASE ~present /\ ~exists -> "write"
      [] ~present /\ exists -> "error"
      [] present /\ ~exists -> IF run.force THEN "write" ELSE "error"
      [] present /\ exists -> IF lock[Migration][2] = run.today THEN "keep" ELSE "warn"

Decide ==
    /\ pc = "decide"
    /\ verdict' = DecideEmittedOnce(migration)
    /\ Busy(IF verdict' = "write" THEN "emit" ELSE "idle")
    /\ run' = IF verdict' = "write" THEN run ELSE NoRun
    /\ lock' = IF verdict' = "write" THEN lock ELSE NoEntries
    /\ UNCHANGED <<text, tmp, migration, schema, recorded, emitted, ours>>

\* The caller's part: the file first, then its entry.
Emit ==
    /\ pc = "emit"
    /\ migration' = TRUE
    /\ lock' = [p \in DOMAIN lock \cup {Migration} |->
                   IF p = Migration THEN <<"emitted-once", run.today>> ELSE lock[p]]
    /\ emitted' = run.today
    /\ run' = [run EXCEPT !.next = "idle"]
    /\ Busy("marshal")
    /\ UNCHANGED <<text, tmp, schema, verdict, recorded, ours>>

\* The process dies or a file-system call fails; a write may have got through
\* in part.
CutOff ==
    /\ pc # "idle" /\ crashes < MaxCrash /\ crashes' = crashes + 1
    /\ IF pc = "fill"
       THEN \E n \in 0..Len(Marshal(lock)) :
                LET begun == SubSeq(Marshal(lock), 1, n) IN tmp' \in {Garbled, begun, Append(begun, Junk)}
       ELSE UNCHANGED tmp
    /\ pc' = "idle" /\ lock' = NoEntries /\ run' = NoRun /\ emitted' = None
    /\ UNCHANGED <<text, migration, schema, verdict, recorded, ours, edits>>

-----------------------------------------------------------------------------
(* The user *)

UserDoes ==
    /\ edits < MaxEdit /\ edits' = edits + 1
    /\ UNCHANGED <<tmp, pc, lock, run, verdict, emitted, crashes>>

EditSchema(s) ==
    /\ schema' = s /\ UserDoes
    /\ UNCHANGED <<text, migration, recorded, ours>>

\* Removed, restored or written by hand, at any time.
TouchMigration ==
    /\ migration' = ~migration /\ UserDoes
    /\ UNCHANGED <<text, schema, recorded, ours>>

\* Between runs: removed, or merged with another branch's.
EditLock(t) ==
    /\ pc = "idle"
    /\ text' = t /\ ours' = FALSE /\ UserDoes
    /\ recorded' = IF t = None \/ ~Readable(t) THEN None
                   ELSE IF Migration \in DOMAIN Parse(t) THEN Parse(t)[Migration][2] ELSE None
    /\ UNCHANGED <<migration, schema>>

Next ==
    \/ \E force \in BOOLEAN : Load(force)
    \/ \E D \in SUBSET Generated : \E sums \in [D -> Sums] : Refresh(sums)
    \/ \E v \in Version : MarshalRefuses(v)
    \/ \E v \in Version : OpenTmp(v)
    \/ Fill \/ Rename \/ Decide \/ Emit \/ CutOff
    \/ \E s \in Sums : EditSchema(s)
    \/ TouchMigration
    \/ \E t \in UserTexts \cup {None} : EditLock(t)

Spec == Init /\ [][Next]_vars

-----------------------------------------------------------------------------
(* Properties *)

Steps == {"idle", "refresh", "marshal", "fill", "rename", "decide", "emit"}
Texts == Seq(Lines \cup {Junk}) \cup {None, Garbled}

TypeOK ==
    /\ text \in Texts /\ tmp \in Texts
    /\ migration \in BOOLEAN /\ schema \in Sums
    /\ pc \in Steps /\ lock \in Entries
    /\ run \in [force : BOOLEAN, today : Sums \cup {None}, next : {"idle", "decide"}]
    /\ verdict \in {"none", "refused", "write", "keep", "warn", "error"}
    /\ recorded \in Sums \cup {None} /\ emitted \in Sums \cup {None}
    /\ ours \in BOOLEAN /\ crashes \in 0..MaxCrash /\ edits \in 0..MaxEdit

\* Save: whatever was cut off, the lock lapigo wrote last is one it can read.
SavedIsReadable == ours /\ text # None => Readable(text)

LinesIn(t) == IF t \in {None, Garbled} THEN {} ELSE {t[i] : i \in DOMAIN t}
MigrationLines(t) == {l \in LinesIn(t) \ {Junk} : l[3] = Migration}

\* parseLock and Save, across a whole run: the runs rewrite the lock around
\* what it says of the migration and never touch that, except to record their
\* own emission of it; and they replace no lock they could not read whole.  A
\* merge that kept both branches' lines for the migration is so never decided.
LinesSurvive ==
    [][edits' = edits /\ text' # text =>
        /\ text # Garbled /\ Junk \notin LinesIn(text)
        /\ MigrationLines(text') =
               IF emitted = None THEN MigrationLines(text)
               ELSE {<<"emitted-once", emitted, Migration>>}]_vars

\* The answers the design spec lists, asked of history and not of the lock.
Answer(emission, exists, force, today) ==
    CASE emission = None /\ ~exists -> "write"
      [] emission = None /\ exists -> "error"
      [] emission # None /\ ~exists -> IF force THEN "write" ELSE "error"
      [] emission # None /\ exists -> IF emission = today THEN "keep" ELSE "warn"

\* DecideEmittedOnce answers from what was emitted when the migration was last
\* recorded: nothing Write does to the lock in between, no cut-off run and no
\* edit of the migration moves that digest.
VerdictFromHistory ==
    [][pc = "decide" /\ verdict' # verdict => verdict' = Answer(recorded, migration, run.force, run.today)]_vars
===============================================================================
