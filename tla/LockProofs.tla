------------------------------ MODULE LockProofs ------------------------------
(* Theorems about Lock, for all paths, digests and merges, and any number   *)
(* of runs, cut-offs and edits.                                             *)
EXTENDS Lock, TLAPS

(* An entry map is a map from some paths to a kind and a digest. *)
LEMMA EntryMaps ==
    /\ \A e \in Entries : DOMAIN e \in SUBSET Paths /\ e \in [DOMAIN e -> Kinds \X Sums]
    /\ \A D \in SUBSET Paths : \A e \in [D -> Kinds \X Sums] : e \in Entries
BY DEF Entries

(* What marshal writes for a lock: its entries, a line each, every path once. *)
LEMMA MarshalLines ==
    ASSUME NEW e \in Entries
    PROVE  /\ Marshal(e) \in Seq(Lines)
           /\ \A p \in DOMAIN e : \E i \in DOMAIN Marshal(e) : Marshal(e)[i] = <<e[p][1], e[p][2], p>>
           /\ \A i \in DOMAIN Marshal(e) :
                  \E p \in DOMAIN e : Marshal(e)[i] = <<e[p][1], e[p][2], p>>
           /\ \A i, j \in DOMAIN Marshal(e) : Marshal(e)[i][3] = Marshal(e)[j][3] => i = j
<1> DEFINE S == LinesOf(e)
           M == InOrder(LinesOf(e))
<1>1. DOMAIN e \in SUBSET Paths /\ e \in [DOMAIN e -> Kinds \X Sums]
  BY EntryMaps
<1>2. /\ M \in Seq(S)
      /\ \A l \in S : \E i \in DOMAIN M : M[i] = l
      /\ \A i, j \in DOMAIN M : M[i] = M[j] => i = j
  BY InOrderAssumption
<1>3. Marshal(e) = M
  BY DEF Marshal
<1>4. S \subseteq Lines
  <2>1. \A p \in DOMAIN e : e[p][1] \in Kinds /\ e[p][2] \in Sums /\ p \in Paths
    BY <1>1
  <2> QED
    BY <2>1 DEF Lines, LinesOf
<1>5. M \in Seq(Lines)
  BY <1>2, <1>4
<1>6. \A p \in DOMAIN e : \E i \in DOMAIN M : M[i] = <<e[p][1], e[p][2], p>>
  <2>1. \A p \in DOMAIN e : <<e[p][1], e[p][2], p>> \in S
    BY DEF LinesOf
  <2> QED
    BY <1>2, <2>1
<1>7. \A i \in DOMAIN M : M[i] \in S
  <2> HIDE DEF S
  <2> QED
    BY <1>2
<1>8. \A i \in DOMAIN M : \E p \in DOMAIN e : M[i] = <<e[p][1], e[p][2], p>>
  BY <1>7 DEF LinesOf
<1>9. \A i, j \in DOMAIN M : M[i][3] = M[j][3] => i = j
  <2> SUFFICES ASSUME NEW i \in DOMAIN M, NEW j \in DOMAIN M, M[i][3] = M[j][3] PROVE i = j
    OBVIOUS
  <2>1. PICK p \in DOMAIN e : M[i] = <<e[p][1], e[p][2], p>>
    BY <1>8
  <2>2. PICK q \in DOMAIN e : M[j] = <<e[q][1], e[q][2], q>>
    BY <1>8
  <2>3. p = q
    BY <2>1, <2>2
  <2> QED
    BY <2>1, <2>2, <2>3, <1>2
<1> QED
  BY <1>3, <1>5, <1>6, <1>8, <1>9

(* Parse returns a map. *)
LEMMA ParseIsMap ==
    ASSUME NEW t, NEW T, \A p \in DOMAIN Parse(t) : Parse(t)[p] \in T
    PROVE  Parse(t) \in [DOMAIN Parse(t) -> T]
<1> DEFINE D == {t[i][3] : i \in DOMAIN t}
           V(p) == LET i == CHOOSE i \in DOMAIN t : t[i][3] = p IN <<t[i][1], t[i][2]>>
<1>1. Parse(t) = [p \in D |-> V(p)]
  BY DEF Parse
<1> HIDE DEF D, V
<1>2. DOMAIN Parse(t) = D /\ \A p \in D : Parse(t)[p] = V(p)
  BY <1>1
<1> QED
  BY <1>1, <1>2

(* What parseLock makes of lines that name every path once. *)
LEMMA ParseLines ==
    ASSUME NEW t \in Seq(Lines \cup {Junk}), Readable(t)
    PROVE  /\ Parse(t) \in Entries
           /\ DOMAIN Parse(t) = {t[i][3] : i \in DOMAIN t}
           /\ \A i \in DOMAIN t : Parse(t)[t[i][3]] = <<t[i][1], t[i][2]>>
<1>1. \A i \in DOMAIN t : t[i] \in Lines
  BY DEF Readable
<1>2. \A i \in DOMAIN t : t[i][1] \in Kinds /\ t[i][2] \in Sums /\ t[i][3] \in Paths
  BY <1>1 DEF Lines
<1>3. DOMAIN Parse(t) = {t[i][3] : i \in DOMAIN t}
  BY DEF Parse
<1>4. ASSUME NEW i \in DOMAIN t PROVE Parse(t)[t[i][3]] = <<t[i][1], t[i][2]>>
  <2> DEFINE k == CHOOSE k \in DOMAIN t : t[k][3] = t[i][3]
  <2>1. k \in DOMAIN t /\ t[k][3] = t[i][3]
    OBVIOUS
  <2>2. k = i
    BY <2>1 DEF Readable
  <2>3. Parse(t)[t[i][3]] = <<t[k][1], t[k][2]>>
    BY DEF Parse
  <2> QED
    BY <2>2, <2>3
<1>5. Parse(t) \in [DOMAIN Parse(t) -> Kinds \X Sums]
  <2>1. \A p \in DOMAIN Parse(t) : Parse(t)[p] \in Kinds \X Sums
    <3> SUFFICES ASSUME NEW p \in DOMAIN Parse(t) PROVE Parse(t)[p] \in Kinds \X Sums
      OBVIOUS
    <3>1. PICK i \in DOMAIN t : p = t[i][3]
      BY <1>3
    <3>2. Parse(t)[p] = <<t[i][1], t[i][2]>>
      BY <3>1, <1>4
    <3>3. t[i][1] \in Kinds /\ t[i][2] \in Sums
      BY <1>2
    <3> QED
      BY <3>2, <3>3
  <2> QED
    BY <2>1, ParseIsMap
<1>6. DOMAIN Parse(t) \subseteq Paths
  BY <1>2, <1>3
<1> QED
  BY <1>3, <1>4, <1>5, <1>6, EntryMaps

(* lock.go: "parseLock is marshal's inverse", for every lock. *)
THEOREM RoundTrip ==
    ASSUME NEW e \in Entries
    PROVE  Readable(Marshal(e)) /\ Parse(Marshal(e)) = e
<1> DEFINE M == Marshal(e)
<1>1. /\ M \in Seq(Lines)
      /\ \A p \in DOMAIN e : \E i \in DOMAIN M : M[i] = <<e[p][1], e[p][2], p>>
      /\ \A i \in DOMAIN M : \E p \in DOMAIN e : M[i] = <<e[p][1], e[p][2], p>>
      /\ \A i, j \in DOMAIN M : M[i][3] = M[j][3] => i = j
  BY MarshalLines
<1> HIDE DEF M
<1>2. Readable(M)
  <2>1. M \in Seq(Lines \cup {Junk})
    BY <1>1
  <2>2. \A i \in DOMAIN M : M[i] \in Lines
    BY <1>1
  <2> QED
    BY <1>1, <2>1, <2>2, LockAssumption DEF Readable
<1>3. M \in Seq(Lines \cup {Junk})
  BY <1>1
<1>4. /\ DOMAIN Parse(M) = {M[i][3] : i \in DOMAIN M}
      /\ \A i \in DOMAIN M : Parse(M)[M[i][3]] = <<M[i][1], M[i][2]>>
  BY <1>2, <1>3, ParseLines
<1>5. DOMAIN Parse(M) = DOMAIN e
  BY SMTT(20), <1>1, <1>4
<1>6. e \in [DOMAIN e -> Kinds \X Sums]
  BY EntryMaps
<1>7. ASSUME NEW p \in DOMAIN e PROVE Parse(M)[p] = e[p]
  <2>1. PICK i \in DOMAIN M : M[i] = <<e[p][1], e[p][2], p>>
    BY <1>1
  <2>2. Parse(M)[p] = <<e[p][1], e[p][2]>>
    BY <2>1, <1>4
  <2> QED
    BY <2>2, <1>6
<1>8. Parse(M) \in [DOMAIN Parse(M) -> Kinds \X Sums]
  BY <1>5, <1>6, <1>7, ParseIsMap
<1>9. Parse(M) = e
  BY <1>5, <1>6, <1>7, <1>8
<1> QED
  BY <1>2, <1>9 DEF M
-----------------------------------------------------------------------------
(* What the entry of the migration says, and the invariant: the lock in a  *)
(* run's hands agrees with history, and so does a lock on disk that can be *)
(* read.                                                                   *)

MigrationSum(e) == IF Migration \in DOMAIN e THEN e[Migration][2] ELSE None

KindKept(e) == Migration \in DOMAIN e => e[Migration][1] = "emitted-once"

DiskInv ==
    /\ pc = "rename" => tmp = Marshal(lock)
    /\ ours /\ text # None => Readable(text)
    /\ text # None /\ Readable(text) => recorded = MigrationSum(Parse(text)) /\ KindKept(Parse(text))
    /\ text = None \/ ~Readable(text) => recorded = None

RunInv ==
    /\ KindKept(lock)
    /\ pc # "idle" => /\ MigrationSum(lock) = IF emitted # None THEN emitted ELSE recorded
                      /\ run.today \in Sums
    /\ pc \in {"refresh", "decide", "emit"} => emitted = None
    /\ pc # "idle" => text = None \/ Readable(text)

IInv == TypeOK /\ DiskInv /\ RunInv

(* A text that is no file of lines is none of the lines' business. *)
LEMMA TextKinds ==
    /\ \A t \in Texts : t # None /\ Readable(t) => t \in Seq(Lines \cup {Junk})
    /\ UserTexts \subseteq Texts
    /\ Seq(Lines) \subseteq Seq(Lines \cup {Junk})
    /\ ~Readable(Garbled)
<1>1. ~Readable(Garbled)
  BY DEF Readable
<1>2. UserTexts \subseteq Texts
  BY LockAssumption DEF Texts
<1>3. \A t \in Texts : t # None /\ Readable(t) => t \in Seq(Lines \cup {Junk})
  BY <1>1 DEF Texts
<1> QED
  BY <1>1, <1>2, <1>3

(* The empty lock. *)
LEMMA EmptyLock == NoEntries \in Entries /\ DOMAIN NoEntries = {}
<1>1. NoEntries \in [{} -> Kinds \X Sums] /\ DOMAIN NoEntries = {}
  BY DEF NoEntries
<1> QED
  BY <1>1, EntryMaps

(* Of a text a user leaves, the migration's entry is an emitted-once one. *)
LEMMA UserKind ==
    ASSUME NEW t \in UserTexts, Readable(t)
    PROVE  KindKept(Parse(t)) /\ MigrationSum(Parse(t)) \in Sums \cup {None}
<1>1. t \in Seq(Lines \cup {Junk}) /\ t # Garbled
  BY LockAssumption DEF Readable
<1>2. /\ Parse(t) \in Entries
      /\ DOMAIN Parse(t) = {t[i][3] : i \in DOMAIN t}
      /\ \A i \in DOMAIN t : Parse(t)[t[i][3]] = <<t[i][1], t[i][2]>>
  BY <1>1, ParseLines
<1>3. \A i \in DOMAIN t : t[i] # Junk /\ t[i] \in Lines
  BY <1>1 DEF Readable
<1>4. CASE Migration \in DOMAIN Parse(t)
  <2>1. PICK i \in DOMAIN t : t[i][3] = Migration
    BY <1>2, <1>4
  <2>2. Parse(t)[Migration] = <<t[i][1], t[i][2]>>
    BY <2>1, <1>2
  <2>3. t[i][1] = "emitted-once"
    BY <2>1, <1>1, <1>3, LockAssumption
  <2>4. t[i][2] \in Sums
    BY <1>3 DEF Lines
  <2> QED
    BY <2>2, <2>3, <2>4, <1>4 DEF KindKept, MigrationSum
<1>5. CASE Migration \notin DOMAIN Parse(t)
  BY <1>5 DEF KindKept, MigrationSum
<1> QED
  BY <1>4, <1>5

(* A map built path by path is an entry map when every value is. *)
LEMMA EntriesBuilt ==
    ASSUME NEW D \in SUBSET Paths, NEW f, f \in [D -> Kinds \X Sums]
    PROVE  f \in Entries /\ DOMAIN f = D
BY EntryMaps

LEMMA InitIInv == Init => IInv
<1> SUFFICES ASSUME Init PROVE IInv
  OBVIOUS
<1>1. TypeOK
  <2>1. text \in Texts /\ tmp \in Texts
    BY DEF Init, Texts
  <2>2. run \in [force : BOOLEAN, today : Sums \cup {None}, next : {"idle", "decide"}]
    BY DEF Init, NoRun
  <2>3. lock \in Entries
    BY EmptyLock DEF Init
  <2>4. crashes \in 0..MaxCrash /\ edits \in 0..MaxEdit
    BY LockAssumption DEF Init
  <2> QED
    BY <2>1, <2>2, <2>3, <2>4 DEF Init, TypeOK, Steps
<1>2. DiskInv
  BY DEF Init, DiskInv
<1>3. RunInv
  BY EmptyLock DEF Init, RunInv, KindKept
<1> QED
  BY <1>1, <1>2, <1>3 DEF IInv

LEMMA LoadStep == ASSUME IInv, NEW force \in BOOLEAN, Load(force) PROVE IInv'
<1> USE DEF IInv
<1>1. text \in Texts /\ pc = "idle"
  BY DEF TypeOK, Load
<1>2. CASE text = None
  <2>1. lock' = NoEntries /\ pc' = "refresh" /\ verdict' = "none" /\ UNCHANGED <<crashes, edits>>
    BY <1>2 DEF Load, Busy
  <2>2. run' = [force |-> force, today |-> schema, next |-> "decide"] /\ emitted' = None
        /\ UNCHANGED <<text, tmp, migration, schema, recorded, ours>>
    BY <2>1 DEF Load
  <2>3. TypeOK'
    BY <2>1, <2>2, EmptyLock DEF TypeOK, Steps
  <2>4. DiskInv'
    BY <2>1, <2>2 DEF DiskInv
  <2>5. RunInv'
    BY <2>1, <2>2, <1>2, EmptyLock DEF RunInv, KindKept, MigrationSum, TypeOK, DiskInv
  <2> QED
    BY <2>3, <2>4, <2>5
<1>3. CASE text # None /\ Readable(text)
  <2>1. lock' = Parse(text) /\ pc' = "refresh" /\ verdict' = "none" /\ UNCHANGED <<crashes, edits>>
    BY <1>3 DEF Load, Busy
  <2>2. run' = [force |-> force, today |-> schema, next |-> "decide"] /\ emitted' = None
        /\ UNCHANGED <<text, tmp, migration, schema, recorded, ours>>
    BY <2>1 DEF Load
  <2>3. Parse(text) \in Entries
    BY <1>1, <1>3, TextKinds, ParseLines
  <2>4. TypeOK'
    BY <2>1, <2>2, <2>3 DEF TypeOK, Steps
  <2>5. DiskInv'
    BY <2>1, <2>2 DEF DiskInv
  <2>6. RunInv'
    BY <2>1, <2>2, <1>3 DEF RunInv, TypeOK, DiskInv, KindKept, MigrationSum
  <2> QED
    BY <2>4, <2>5, <2>6
<1>4. CASE text # None /\ ~Readable(text)
  <2>1. lock' = NoEntries /\ pc' = "idle" /\ verdict' = "refused" /\ UNCHANGED <<crashes, edits>>
    BY <1>4 DEF Load, Busy
  <2>2. run' = NoRun /\ emitted' = None /\ UNCHANGED <<text, tmp, migration, schema, recorded, ours>>
    BY <2>1 DEF Load
  <2>3. TypeOK'
    BY <2>1, <2>2, EmptyLock DEF TypeOK, Steps, NoRun
  <2>4. DiskInv'
    BY <2>1, <2>2 DEF DiskInv
  <2>5. RunInv'
    BY <2>1, <2>2, EmptyLock DEF RunInv, KindKept
  <2> QED
    BY <2>3, <2>4, <2>5
<1> QED
  BY <1>2, <1>3, <1>4

LEMMA RefreshStep ==
    ASSUME IInv, NEW D \in SUBSET Generated, NEW sums \in [D -> Sums], Refresh(sums)
    PROVE  IInv'
<1> USE DEF IInv
<1> DEFINE kept == {p \in DOMAIN lock : lock[p][1] # "generated"}
           entry(p) == IF p \in DOMAIN sums THEN <<"generated", sums[p]>> ELSE lock[p]
<1>1. /\ pc = "refresh" /\ lock' = [p \in kept \cup D |-> entry(p)]
      /\ pc' = "marshal" /\ UNCHANGED <<crashes, edits>>
      /\ UNCHANGED <<text, tmp, migration, schema, run, verdict, recorded, emitted, ours>>
  BY DEF Refresh, Busy
<1>2. lock \in Entries
  BY DEF TypeOK
<1>3. DOMAIN lock \in SUBSET Paths /\ lock \in [DOMAIN lock -> Kinds \X Sums]
  BY <1>2, EntryMaps
<1>4. \A p \in kept \cup D : entry(p) \in Kinds \X Sums
  BY <1>3 DEF Kinds
<1>5. kept \cup D \in SUBSET Paths
  BY <1>3 DEF Paths
<1>6. lock' \in Entries /\ DOMAIN lock' = kept \cup D
  <2>1. lock' \in [kept \cup D -> Kinds \X Sums]
    BY <1>1, <1>4
  <2> QED
    BY <2>1, <1>5, EntriesBuilt
<1>7. Migration \notin D
  BY LockAssumption
<1>8. KindKept(lock)
  BY DEF RunInv
<1>9. Migration \in DOMAIN lock' <=> Migration \in DOMAIN lock
  BY <1>6, <1>7, <1>8 DEF KindKept
<1>10. Migration \in DOMAIN lock' => lock'[Migration] = lock[Migration]
  BY <1>1, <1>6, <1>7
<1>11. TypeOK'
  BY <1>1, <1>6 DEF TypeOK, Steps
<1>12. DiskInv'
  BY <1>1 DEF DiskInv
<1>13. KindKept(lock') /\ MigrationSum(lock') = MigrationSum(lock)
  BY <1>8, <1>9, <1>10 DEF KindKept, MigrationSum
<1>14. RunInv'
  BY <1>1, <1>13 DEF RunInv, KindKept, MigrationSum
<1> QED
  BY <1>11, <1>12, <1>14

LEMMA SaveSteps ==
    ASSUME IInv, (\E v \in Version : MarshalRefuses(v)) \/ (\E v \in Version : OpenTmp(v)) \/ Fill
    PROVE  IInv'
<1> USE DEF IInv
<1>1. ASSUME NEW v \in Version, MarshalRefuses(v) PROVE IInv'
  <2>1. TypeOK'
    BY <1>1, EmptyLock DEF TypeOK, MarshalRefuses, Busy, Steps, NoRun
  <2>2. DiskInv'
    BY <1>1 DEF DiskInv, MarshalRefuses, Busy
  <2>3. RunInv'
    BY <1>1, EmptyLock DEF RunInv, KindKept, MarshalRefuses, Busy
  <2> QED
    BY <2>1, <2>2, <2>3
<1>2. ASSUME NEW v \in Version, OpenTmp(v) PROVE IInv'
  <2>1. TypeOK'
    BY <1>2 DEF TypeOK, OpenTmp, Busy, Steps, Texts
  <2>2. DiskInv'
    BY <1>2 DEF DiskInv, OpenTmp, Busy
  <2>3. RunInv'
    BY <1>2 DEF RunInv, KindKept, MigrationSum, OpenTmp, Busy
  <2> QED
    BY <2>1, <2>2, <2>3
<1>3. CASE Fill
  <2>1. Marshal(lock) \in Texts
    BY MarshalLines, TextKinds DEF TypeOK, Texts
  <2>2. TypeOK'
    BY <1>3, <2>1 DEF TypeOK, Fill, Busy, Steps
  <2>3. DiskInv'
    BY <1>3 DEF DiskInv, Fill, Busy
  <2>4. RunInv'
    BY <1>3 DEF RunInv, KindKept, MigrationSum, Fill, Busy
  <2> QED
    BY <2>2, <2>3, <2>4
<1> QED
  BY <1>1, <1>2, <1>3

LEMMA RenameStep == ASSUME IInv, Rename PROVE IInv'
<1> USE DEF IInv
<1>1. lock \in Entries /\ tmp = Marshal(lock)
  BY DEF TypeOK, DiskInv, Rename
<1>2. Readable(tmp) /\ Parse(tmp) = lock /\ tmp \in Seq(Lines)
  BY <1>1, RoundTrip, MarshalLines
<1>3. tmp # None /\ tmp \in Texts
  BY <1>2, TextKinds, LockAssumption DEF Texts
<1>4. run.next \in {"idle", "decide"}
  BY DEF TypeOK
<1>5. recorded' = MigrationSum(lock)
  BY DEF Rename, RunInv
<1>6. TypeOK'
  <2>1. recorded' \in Sums \cup {None} /\ emitted' = None
    BY DEF TypeOK, Rename
  <2>2. run' \in [force : BOOLEAN, today : Sums \cup {None}, next : {"idle", "decide"}]
    BY DEF TypeOK, Rename, NoRun
  <2>3. lock' \in Entries
    BY <1>1, EmptyLock DEF Rename
  <2> QED
    BY <1>3, <1>4, <2>1, <2>2, <2>3, LockAssumption DEF TypeOK, Rename, Busy, Steps, Texts
<1>7. DiskInv'
  BY <1>2, <1>3, <1>4, <1>5 DEF DiskInv, Rename, Busy, RunInv
<1>8. RunInv'
  <2>1. Readable(text') /\ emitted' = None
    BY <1>2 DEF Rename
  <2>2. MigrationSum(lock) = recorded' /\ KindKept(lock)
    BY <1>5 DEF RunInv
  <2>3. KindKept(lock')
    BY <2>2, EmptyLock DEF KindKept, Rename
  <2>4. pc' # "idle" => MigrationSum(lock') = recorded' /\ run'.today \in Sums
    BY <2>2 DEF Rename, RunInv, Busy
  <2>5. pc' \in {"idle", "decide"}
    BY <1>4 DEF Rename, Busy
  <2> HIDE DEF IInv
  <2> QED
    BY <2>1, <2>3, <2>4, <2>5 DEF RunInv
<1> QED
  BY <1>6, <1>7, <1>8

LEMMA DecideStep == ASSUME IInv, Decide PROVE IInv'
<1> USE DEF IInv
<1>1. verdict' \in {"write", "keep", "warn", "error"}
  BY DEF Decide, DecideEmittedOnce, TypeOK
<1>2. TypeOK'
  BY <1>1, EmptyLock DEF TypeOK, Decide, Busy, Steps, NoRun
<1>3. DiskInv'
  BY DEF DiskInv, Decide, Busy
<1>4. RunInv'
  BY EmptyLock DEF RunInv, Decide, Busy, KindKept, MigrationSum
<1> QED
  BY <1>2, <1>3, <1>4

LEMMA EmitStep == ASSUME IInv, Emit PROVE IInv'
<1> USE DEF IInv
<1> DEFINE D == DOMAIN lock \cup {Migration}
           entry(p) == IF p = Migration THEN <<"emitted-once", run.today>> ELSE lock[p]
<1>1. lock' = [p \in D |-> entry(p)] /\ run.today \in Sums /\ lock \in Entries
  BY DEF Emit, RunInv, TypeOK
<1>2. DOMAIN lock \in SUBSET Paths /\ lock \in [DOMAIN lock -> Kinds \X Sums]
  BY <1>1, EntryMaps
<1>3. D \in SUBSET Paths
  BY <1>2 DEF Paths
<1>4. \A p \in D : entry(p) \in Kinds \X Sums
  BY <1>1, <1>2 DEF Kinds
<1>5. lock' \in Entries /\ DOMAIN lock' = D
  <2>1. lock' \in [D -> Kinds \X Sums]
    BY <1>1, <1>4
  <2> QED
    BY <2>1, <1>3, EntriesBuilt
<1>6. lock'[Migration] = <<"emitted-once", run.today>>
  BY <1>1
<1>7. KindKept(lock') /\ MigrationSum(lock') = run.today
  BY <1>5, <1>6 DEF KindKept, MigrationSum
<1>8. TypeOK'
  BY <1>1, <1>5 DEF TypeOK, Emit, Busy, Steps
<1>9. DiskInv'
  BY DEF DiskInv, Emit, Busy
<1>10. RunInv'
  BY <1>1, <1>7, LockAssumption DEF RunInv, Emit, Busy, KindKept, MigrationSum, TypeOK
<1> QED
  BY <1>8, <1>9, <1>10

LEMMA CutOffStep == ASSUME IInv, CutOff PROVE IInv'
<1> USE DEF IInv
<1>1. tmp' \in Texts
  <2>1. CASE pc = "fill"
    <3>1. Marshal(lock) \in Seq(Lines)
      BY MarshalLines DEF TypeOK
    <3>2. ASSUME NEW n \in 0..Len(Marshal(lock))
          PROVE  /\ SubSeq(Marshal(lock), 1, n) \in Seq(Lines \cup {Junk})
                 /\ Append(SubSeq(Marshal(lock), 1, n), Junk) \in Seq(Lines \cup {Junk})
      <4>1. SubSeq(Marshal(lock), 1, n) \in Seq(Lines \cup {Junk})
        BY <3>1
      <4> QED
        BY <4>1
    <3> QED
      BY <2>1, <3>2 DEF CutOff, Texts
  <2>2. CASE pc # "fill"
    BY <2>2 DEF CutOff, TypeOK
  <2> QED
    BY <2>1, <2>2
<1>2. crashes' \in 0..MaxCrash
  BY LockAssumption DEF CutOff, TypeOK
<1>3. TypeOK'
  BY <1>1, <1>2, EmptyLock DEF TypeOK, CutOff, Steps, NoRun
<1>4. DiskInv'
  BY DEF DiskInv, CutOff
<1>5. RunInv'
  BY EmptyLock DEF RunInv, CutOff, KindKept
<1> QED
  BY <1>3, <1>4, <1>5

LEMMA UserSteps ==
    ASSUME IInv, \/ \E s \in Sums : EditSchema(s)
                 \/ TouchMigration
                 \/ \E t \in UserTexts \cup {None} : EditLock(t)
    PROVE  IInv'
<1> USE DEF IInv
<1>1. ASSUME UserDoes PROVE edits' \in 0..MaxEdit
  BY <1>1, LockAssumption DEF UserDoes, TypeOK
<1>2. ASSUME NEW s \in Sums, EditSchema(s) PROVE IInv'
  <2>1. TypeOK'
    BY <1>1, <1>2 DEF TypeOK, EditSchema, UserDoes
  <2>2. DiskInv' /\ RunInv'
    BY <1>2 DEF DiskInv, RunInv, KindKept, MigrationSum, EditSchema, UserDoes
  <2> QED
    BY <2>1, <2>2
<1>3. CASE TouchMigration
  <2>1. TypeOK'
    BY <1>1, <1>3 DEF TypeOK, TouchMigration, UserDoes
  <2>2. DiskInv' /\ RunInv'
    BY <1>3 DEF DiskInv, RunInv, KindKept, MigrationSum, TouchMigration, UserDoes
  <2> QED
    BY <2>1, <2>2
<1>4. ASSUME NEW t \in UserTexts \cup {None}, EditLock(t) PROVE IInv'
  <2>1. t \in Texts /\ text' = t /\ ours' = FALSE /\ pc = "idle" /\ UserDoes
    BY <1>4, TextKinds DEF EditLock, Texts
  <2>2. CASE t = None \/ ~Readable(t)
    <3>1. recorded' = None /\ UNCHANGED <<migration, schema>>
      BY <1>4, <2>2 DEF EditLock
    <3>2. TypeOK'
      BY <1>1, <2>1, <3>1 DEF TypeOK, UserDoes
    <3>3. DiskInv' /\ RunInv'
      BY <2>1, <2>2, <3>1 DEF DiskInv, RunInv, KindKept, UserDoes
    <3> QED
      BY <3>2, <3>3
  <2>3. CASE t # None /\ Readable(t)
    <3>1. recorded' = MigrationSum(Parse(t)) /\ UNCHANGED <<migration, schema>>
      BY <1>4, <2>3 DEF EditLock, MigrationSum
    <3>2. KindKept(Parse(t)) /\ MigrationSum(Parse(t)) \in Sums \cup {None}
      BY <2>3, UserKind
    <3>3. TypeOK'
      BY <1>1, <2>1, <3>1, <3>2 DEF TypeOK, UserDoes
    <3>4. DiskInv' /\ RunInv'
      BY <2>1, <2>3, <3>1, <3>2 DEF DiskInv, RunInv, KindKept, MigrationSum, UserDoes
    <3> QED
      BY <3>3, <3>4
  <2> QED
    BY <2>2, <2>3
<1> QED
  BY <1>2, <1>3, <1>4

LEMMA NextIInv == IInv /\ [Next]_vars => IInv'
<1> SUFFICES ASSUME IInv, [Next]_vars PROVE IInv'
  OBVIOUS
<1>1. CASE Next
  BY <1>1, LoadStep, RefreshStep, SaveSteps, RenameStep, DecideStep, EmitStep, CutOffStep, UserSteps DEF Next
<1>2. CASE UNCHANGED vars
  BY <1>2 DEF vars, IInv, TypeOK, DiskInv, RunInv, KindKept, MigrationSum
<1> QED
  BY <1>1, <1>2

THEOREM Invariance == Spec => []IInv
<1> QED
  BY InitIInv, NextIInv, PTL DEF Spec

(* The types of the lock's state. *)
THEOREM TypeCorrect == Spec => []TypeOK
<1>1. IInv => TypeOK
  BY DEF IInv
<1> QED
  BY <1>1, Invariance, PTL

(* Save, lock.go 146-167: whatever run is cut off, and wherever, the lock   *)
(* lapigo wrote last is one LoadLock accepts.                               *)
THEOREM SavesAreReadable == Spec => []SavedIsReadable
<1>1. IInv => SavedIsReadable
  BY DEF IInv, DiskInv, SavedIsReadable
<1> QED
  BY <1>1, Invariance, PTL

(* The lines of the migration in a lock that can be read are what its entry *)
(* says.                                                                    *)
LEMMA LinesOfSum ==
    ASSUME NEW t \in Seq(Lines \cup {Junk}), Readable(t), KindKept(Parse(t))
    PROVE  /\ Junk \notin LinesIn(t) /\ t # Garbled
           /\ MigrationLines(t) =
                  IF MigrationSum(Parse(t)) = None THEN {}
                  ELSE {<<"emitted-once", MigrationSum(Parse(t)), Migration>>}
<1>1. t \notin {None, Garbled}
  BY LockAssumption
<1>2. LinesIn(t) = {t[i] : i \in DOMAIN t}
  BY <1>1 DEF LinesIn
<1>3. \A i \in DOMAIN t : t[i] \in Lines /\ t[i] # Junk
  BY DEF Readable
<1>4. Junk \notin LinesIn(t)
  BY <1>2, <1>3
<1>5. /\ Parse(t) \in Entries
      /\ DOMAIN Parse(t) = {t[i][3] : i \in DOMAIN t}
      /\ \A i \in DOMAIN t : Parse(t)[t[i][3]] = <<t[i][1], t[i][2]>>
  BY ParseLines
<1>6. MigrationLines(t) = {l \in {t[i] : i \in DOMAIN t} : l[3] = Migration}
  BY <1>2, <1>4 DEF MigrationLines
<1>7. CASE Migration \in DOMAIN Parse(t)
  <2>1. PICK i \in DOMAIN t : t[i][3] = Migration
    BY <1>5, <1>7
  <2>2. Parse(t)[Migration] = <<t[i][1], t[i][2]>>
    BY <2>1, <1>5
  <2>3. t[i][1] = "emitted-once" /\ MigrationSum(Parse(t)) = t[i][2]
    BY <2>2, <1>7 DEF KindKept, MigrationSum
  <2>4. t[i] = <<"emitted-once", MigrationSum(Parse(t)), Migration>> /\ t[i][2] \in Sums
    BY <2>1, <2>3, <1>3 DEF Lines
  <2>5. MigrationSum(Parse(t)) # None
    BY <2>3, <2>4, LockAssumption
  <2>6. \A j \in DOMAIN t : t[j][3] = Migration => j = i
    BY <2>1 DEF Readable
  <2>7. MigrationLines(t) = {t[i]}
    BY <1>6, <2>1, <2>6
  <2> QED
    BY <1>1, <1>4, <2>4, <2>5, <2>7
<1>8. CASE Migration \notin DOMAIN Parse(t)
  <2>1. MigrationLines(t) = {}
    BY <1>5, <1>6, <1>8
  <2> QED
    BY <1>1, <1>4, <1>8, <2>1 DEF MigrationSum
<1> QED
  BY <1>7, <1>8

(* parseLock and Save, lock.go 146-167 and 205-246: whatever a merge left,  *)
(* and however many runs were cut off, what the lock says of the migration  *)
(* changes only with an emission of it, and nothing unreadable is replaced. *)
THEOREM LinesAlwaysSurvive == Spec => LinesSurvive
<1> DEFINE Said(s) == IF s = None THEN {} ELSE {<<"emitted-once", s, Migration>>}
<1>1. ASSUME IInv, [Next]_vars, edits' = edits, text' # text
      PROVE  /\ text # Garbled /\ Junk \notin LinesIn(text)
             /\ MigrationLines(text') =
                    IF emitted = None THEN MigrationLines(text)
                    ELSE {<<"emitted-once", emitted, Migration>>}
  <2>1. edits \in Nat
    BY <1>1, LockAssumption DEF IInv, TypeOK
  <2>2. Rename
    <3>1. UserDoes => edits' = edits + 1
      BY DEF UserDoes
    <3>2. ~UserDoes
      BY <1>1, <2>1, <3>1
    <3>3. Next
      BY <1>1 DEF vars
    <3>4. /\ ~\E s \in Sums : EditSchema(s)
          /\ ~TouchMigration
          /\ ~\E t \in UserTexts \cup {None} : EditLock(t)
      BY <3>2 DEF EditSchema, TouchMigration, EditLock
    <3>5. /\ ~\E force \in BOOLEAN : Load(force)
          /\ ~\E D \in SUBSET Generated : \E sums \in [D -> Sums] : Refresh(sums)
          /\ ~\E v \in Version : MarshalRefuses(v)
          /\ ~\E v \in Version : OpenTmp(v)
      BY <1>1 DEF Load, Refresh, MarshalRefuses, OpenTmp
    <3>6. ~Fill /\ ~Decide /\ ~Emit /\ ~CutOff
      BY <1>1 DEF Fill, Decide, Emit, CutOff
    <3> QED
      BY <3>3, <3>4, <3>5, <3>6 DEF Next
  <2>3. lock \in Entries /\ KindKept(lock) /\ text' = Marshal(lock)
        /\ MigrationSum(lock) = (IF emitted # None THEN emitted ELSE recorded)
        /\ (text = None \/ Readable(text)) /\ text \in Texts
    BY <1>1, <2>2 DEF IInv, TypeOK, DiskInv, RunInv, Rename
  <2>4. MigrationLines(text') = Said(MigrationSum(lock))
    <3>1. Readable(Marshal(lock)) /\ Parse(Marshal(lock)) = lock /\ Marshal(lock) \in Seq(Lines \cup {Junk})
      BY <2>3, RoundTrip, MarshalLines, TextKinds
    <3>2. MigrationLines(Marshal(lock)) = Said(MigrationSum(lock))
      <4> HIDE DEF Said
      <4> DEFINE t == Marshal(lock)
      <4>1. t \in Seq(Lines \cup {Junk}) /\ Readable(t) /\ KindKept(Parse(t)) /\ Parse(t) = lock
        BY <2>3, <3>1
      <4> HIDE DEF t
      <4>2. MigrationLines(t) = Said(MigrationSum(Parse(t)))
        BY <4>1, LinesOfSum DEF Said
      <4> QED
        BY <4>1, <4>2 DEF t
    <3> HIDE DEF Said
    <3> QED
      BY <2>3, <3>2
  <2>5. /\ text # Garbled /\ Junk \notin LinesIn(text)
        /\ MigrationLines(text) = Said(recorded)
    <3>1. CASE text = None
      <4>1. recorded = None
        BY <1>1, <3>1 DEF IInv, DiskInv
      <4>2. LinesIn(text) = {} /\ text # Garbled
        BY <3>1, LockAssumption DEF LinesIn
      <4>3. MigrationLines(text) = {}
        BY <4>2 DEF MigrationLines
      <4> QED
        BY <4>1, <4>2, <4>3
    <3>2. CASE text # None
      <4>1. text \in Seq(Lines \cup {Junk}) /\ Readable(text)
        BY <2>3, <3>2, TextKinds
      <4>2. recorded = MigrationSum(Parse(text)) /\ KindKept(Parse(text))
        BY <1>1, <3>2, <4>1 DEF IInv, DiskInv
      <4>3. /\ Junk \notin LinesIn(text) /\ text # Garbled
            /\ MigrationLines(text) = Said(MigrationSum(Parse(text)))
        BY <4>1, <4>2, LinesOfSum
      <4> HIDE DEF Said
      <4> QED
        BY <4>2, <4>3
    <3> QED
      BY <3>1, <3>2
  <2>6. MigrationSum(lock) = IF emitted # None THEN emitted ELSE recorded
    BY <2>3
  <2>7. CASE emitted = None
    <3> HIDE DEF Said
    <3> QED
      BY <2>4, <2>5, <2>6, <2>7
  <2>8. CASE emitted # None
    <3>1. MigrationSum(lock) = emitted
      BY <2>6, <2>8
    <3> QED
      BY <2>4, <2>5, <2>8, <3>1
  <2> QED
    BY <2>7, <2>8
<1>2. IInv /\ [Next]_vars =>
         [edits' = edits /\ text' # text =>
             /\ text # Garbled /\ Junk \notin LinesIn(text)
             /\ MigrationLines(text') =
                    IF emitted = None THEN MigrationLines(text)
                    ELSE {<<"emitted-once", emitted, Migration>>}]_vars
  BY <1>1
<1> QED
  BY <1>2, Invariance, PTL DEF Spec, LinesSurvive

(* DecideEmittedOnce, lock.go 320-338: the answer for the migration follows *)
(* what was emitted when it was last recorded, over any number of runs,     *)
(* cut-offs and merges.                                                     *)
THEOREM VerdictsFromHistory == Spec => VerdictFromHistory
<1>1. ASSUME IInv, [Next]_vars, pc = "decide", verdict' # verdict
      PROVE  verdict' = Answer(recorded, migration, run.force, run.today)
  <2>1. Decide
    BY <1>1 DEF Next, vars, Load, Refresh, MarshalRefuses, OpenTmp, Fill, Rename, Emit, CutOff,
                EditSchema, TouchMigration, EditLock, UserDoes, Busy
  <2>2. MigrationSum(lock) = recorded /\ lock \in Entries
    BY <1>1 DEF IInv, RunInv, TypeOK
  <2>3. Migration \in DOMAIN lock => lock[Migration][2] \in Sums
    BY <2>2, EntryMaps
  <2>4. Migration \in DOMAIN lock <=> recorded # None
    BY <2>2, <2>3, LockAssumption DEF MigrationSum
  <2>5. Migration \in DOMAIN lock => lock[Migration][2] = recorded
    BY <2>2 DEF MigrationSum
  <2>6. verdict' = DecideEmittedOnce(migration)
    BY <2>1 DEF Decide
  <2>7. migration \in BOOLEAN /\ run.force \in BOOLEAN
    BY <1>1 DEF IInv, TypeOK
  <2>8. CASE recorded = None
    BY <2>4, <2>6, <2>7, <2>8 DEF DecideEmittedOnce, Answer
  <2>9. CASE recorded # None
    BY <2>4, <2>5, <2>6, <2>7, <2>9 DEF DecideEmittedOnce, Answer
  <2> QED
    BY <2>8, <2>9
<1>2. IInv /\ [Next]_vars =>
         [pc = "decide" /\ verdict' # verdict => verdict' = Answer(recorded, migration, run.force, run.today)]_vars
  BY <1>1
<1> QED
  BY <1>2, Invariance, PTL DEF Spec, VerdictFromHistory
===============================================================================
