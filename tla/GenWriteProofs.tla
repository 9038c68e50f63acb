--------------------------- MODULE GenWriteProofs ---------------------------
(***************************************************************************)
(* What TLC checks of GenWrite on two paths and two generations, for every *)
(* set of paths, contents and generations and every bound.                 *)
(***************************************************************************)
EXTENDS GenWrite, TLAPS

USE DEF disk, process, history, budget, GoTo, Return, NoFault

LEMMA EmptyTreeIsATree == EmptyTree \in Tree /\ EmptyTree # NoDir
  BY SentinelAssumption DEF EmptyTree, Tree, RawTree

LEMMA TreesAreNotSentinels ==
    /\ Generations \subseteq Tree
    /\ Tree \subseteq RawTree
    /\ NoDir \notin Tree /\ NoLock \notin Tree /\ Torn \notin Tree
  BY GenerationsAssumption, SentinelAssumption DEF Tree, RawTree

\* Changing one file of a tree leaves a tree.
LEMMA WritingKeepsTree ==
    ASSUME NEW d \in Tree, NEW p \in Path, NEW c \in Content \cup {NoFile}
    PROVE  [d EXCEPT ![p] = c] \in Tree /\ [d EXCEPT ![p] = c] # NoDir
<1>1. [d EXCEPT ![p] = c] \in Tree
  BY DEF Tree
<1> QED BY <1>1, TreesAreNotSentinels

\* A failing call and a user action stay within their bounds.
LEMMA FaultBudget == ASSUME TypeOK, Fault PROVE BudgetOK'
  BY BoundAssumption DEF Fault, TypeOK, BudgetOK

LEMMA UserBudget == ASSUME TypeOK, UserActs PROVE BudgetOK' /\ edits' > 0
  BY BoundAssumption DEF UserActs, TypeOK, BudgetOK

LEMMA RemainsType ==
    ASSUME NEW d \in RawTree, NEW r \in Remains(d) PROVE r \in RawTree \cup {NoDir}
  BY DEF Remains, RawTree

-----------------------------------------------------------------------------
(* Types *)

LEMMA TypeStep == IInv /\ [Next]_vars => TypeOK'
<1> SUFFICES ASSUME IInv, [Next]_vars PROVE TypeOK'
  OBVIOUS
<1>a. TypeOK /\ RunShape
  BY DEF IInv
<1> USE DEF TypeOK, BudgetOK, Steps
<1>1. CASE Call
  <2> SUFFICES ASSUME NEW files \in Generations,
                      NEW force \in BOOLEAN, NEW spaced \in BOOLEAN,
                      Start(files, force, spaced)
               PROVE  TypeOK'
    BY <1>1 DEF Call
  <2>1. call' \in Calls
    BY DEF Start, Calls
  <2>2. dirty' \subseteq Path
    BY DEF Start, HandPaths
  <2> QED BY <1>a, <2>1, <2>2 DEF Start
<1>2. CASE Recover
  <2>1. CASE RecoverRestores
    BY <1>a, <2>1 DEF RecoverRestores, Revive
  <2>2. CASE RecoverFindsStaleOld \/ RecoverFindsNoOld
    BY <1>a, <2>2 DEF RecoverFindsStaleOld, RecoverFindsNoOld
  <2>3. CASE RecoverFails
    BY <1>a, <2>3, FaultBudget DEF RecoverFails
  <2>4. CASE SweepDone
    BY <1>a, <2>4 DEF SweepDone
  <2>5. ASSUME NEW p \in Path, SweepFile(p) PROVE TypeOK'
    BY <1>a, <2>5 DEF SweepFile, RawTree
  <2> QED BY <1>2, <2>1, <2>2, <2>3, <2>4, <2>5 DEF Recover
<1>3. CASE RemoveOld
  <2>1. CASE RemoveOldDir
    BY <1>a, <2>1 DEF RemoveOldDir
  <2>2. CASE DropOldFails
    BY <1>a, <2>2, FaultBudget DEF DropOldFails
  <2>3. ASSUME NEW p \in Path, RemoveOldFile(p) PROVE TypeOK'
    BY <1>a, <2>3 DEF RemoveOldFile, Tree
  <2> QED BY <1>3, <2>1, <2>2, <2>3 DEF RemoveOld
<1>4. CASE Check
  <2>1. CASE CheckStops
    BY <1>a, <2>1 DEF CheckStops
  <2>2. CASE CheckPasses
    BY <1>a, <2>2 DEF CheckPasses, StillProtected
  <2>3. CASE CheckFails
    BY <1>a, <2>3, FaultBudget DEF CheckFails
  <2> QED BY <1>4, <2>1, <2>2, <2>3 DEF Check
<1>5. CASE Stage
  <2>1. CASE MakeStaging
    BY <1>a, <2>1, EmptyTreeIsATree, TreesAreNotSentinels DEF MakeStaging
  <2>2. CASE MakeStagingFails
    BY <1>a, <2>2, FaultBudget DEF MakeStagingFails
  <2>3. CASE StageDone
    BY <1>a, <2>3 DEF StageDone
  <2>4. CASE StageFails
    <3>1. staging' \in RawTree \cup {NoDir}
      BY <1>a, <2>4, RemainsType DEF StageFails, RunShape
    <3> QED BY <1>a, <2>4, <3>1, FaultBudget DEF StageFails
  <2>5. ASSUME NEW p \in Path, StageOpen(p) PROVE TypeOK'
    <3>1. staging \in RawTree
      BY <1>a, <2>5 DEF StageOpen, RunShape
    <3>2. staging' \in RawTree
      BY <2>5, <3>1 DEF StageOpen, RawTree
    <3>3. UNCHANGED <<gen, old, lock, tmp, process, history, budget>>
      BY <2>5 DEF StageOpen
    <3> QED BY <1>a, <3>2, <3>3
  <2>6. ASSUME NEW p \in Path, StageFill(p) PROVE TypeOK'
    <3>1. call.files[p] \in Content \cup {NoFile}
      BY <1>a, <2>6, TreesAreNotSentinels DEF StageFill, RunShape, Calls, Tree
    <3>2. staging \in RawTree
      BY <1>a, <2>6 DEF StageFill, RunShape
    <3>3. staging' \in RawTree
      BY <2>6, <3>1, <3>2 DEF StageFill, RawTree
    <3>4. UNCHANGED <<gen, old, lock, tmp, process, history, budget>>
      BY <2>6 DEF StageFill
    <3> QED BY <1>a, <3>3, <3>4
  <2> QED BY <1>5, <2>1, <2>2, <2>3, <2>4, <2>5, <2>6 DEF Stage
<1>6. CASE Swap
  <2>1. CASE AsideRenames
    BY <1>a, <2>1 DEF AsideRenames
  <2>2. CASE AsideSkipped
    BY <1>a, <2>2 DEF AsideSkipped
  <2>3. CASE AsideFails
    <3>1. staging \in RawTree
      BY <1>a, <2>3, TreesAreNotSentinels DEF AsideFails, RunShape, Calls
    <3>2. staging' \in RawTree \cup {NoDir}
      BY <2>3, <3>1, RemainsType DEF AsideFails
    <3> QED BY <1>a, <2>3, <3>2, FaultBudget DEF AsideFails
  <2>4. CASE IntoPlace
    <3>1. staging = call.files /\ call.files \in Generations
      BY <1>a, <2>4 DEF IntoPlace, RunShape, Calls
    <3> QED BY <1>a, <2>4, <3>1, TreesAreNotSentinels DEF IntoPlace
  <2>5. CASE IntoFailsFirstRun \/ IntoStrandsOld
    BY <1>a, <2>5, FaultBudget DEF IntoFailsFirstRun, IntoStrandsOld, IntoRefused
  <2>6. CASE IntoRollsBack
    BY <1>a, <2>6, FaultBudget DEF IntoRollsBack, Revive
  <2> QED BY <1>6, <2>1, <2>2, <2>3, <2>4, <2>5, <2>6 DEF Swap
<1>7. CASE Save
  <2>1. CASE MarshalRefuses
    BY <1>a, <2>1 DEF MarshalRefuses
  <2>2. CASE OpenTmp
    BY <1>a, <2>2 DEF OpenTmp
  <2>3. CASE FillTmp
    <3>1. call.files \in Tree
      BY <1>a, <2>3, TreesAreNotSentinels DEF FillTmp, RunShape, Calls
    <3> QED BY <1>a, <2>3, <3>1 DEF FillTmp
  <2>4. CASE SaveFails
    BY <1>a, <2>4, FaultBudget DEF SaveFails
  <2>5. CASE Commit
    BY <1>a, <2>5 DEF Commit
  <2> QED BY <1>7, <2>1, <2>2, <2>3, <2>4, <2>5 DEF Save
<1>8. CASE Crash
  <2>1. BudgetOK'
    BY <1>a, <1>8, BoundAssumption DEF Crash
  <2> QED BY <1>a, <1>8, <2>1 DEF Crash
<1>9. CASE User
  <2>1. ASSUME NEW p \in Path, NEW h \in Hand, UserWrites(p, h) PROVE TypeOK'
    <3>1. gen' \in Tree
      BY <1>a, <2>1, EmptyTreeIsATree, ContentAssumption DEF UserWrites, Tree
    <3> QED BY <1>a, <2>1, <3>1, UserBudget DEF UserWrites, UserActs
  <2>2. ASSUME NEW p \in Path, UserDeletes(p) PROVE TypeOK'
    <3>1. gen' \in Tree
      BY <1>a, <2>2 DEF UserDeletes, Tree
    <3> QED BY <1>a, <2>2, <3>1, UserBudget DEF UserDeletes, UserActs
  <2>3. CASE UserCleans
    BY <1>a, <2>3, UserBudget DEF UserCleans, UserActs
  <2>4. CASE UserDropsLock
    BY <1>a, <2>4, UserBudget DEF UserDropsLock, UserActs
  <2> QED BY <1>9, <2>1, <2>2, <2>3, <2>4 DEF User
<1>10. CASE UNCHANGED vars
  BY <1>a, <1>10 DEF vars
<1> QED BY <1>1, <1>2, <1>3, <1>4, <1>5, <1>6, <1>7, <1>8, <1>9, <1>10
    DEF Next, Run

-----------------------------------------------------------------------------
(* The check *)

\* When checkGenerated lets a run through, no protected file is left for the
\* swap to move: the check would have reported it in row 1, 5 or 7, or --force
\* consented to its loss.
LEMMA ConsentSuffices ==
    ASSUME TypeOK, EditsSurvive, LockWhole, lock # Torn, ~Conflict
    PROVE  StillProtected = {}
<1>1. SUFFICES ASSUME NEW p \in StillProtected PROVE FALSE
  OBVIOUS
<1>2. p \in dirty
  BY <1>1 DEF StillProtected
<1>3. p \in Path /\ gen # NoDir /\ gen[p] \in Hand /\ gen[p] # NoFile
  BY <1>2, ContentAssumption DEF EditsSurvive, TypeOK
<1>4. CASE lock = NoLock
  BY <1>1, <1>3, <1>4 DEF Conflict, StillProtected
<1>5. CASE lock # NoLock
  <2>1. lock[p] \in (Content \ Hand) \cup {NoFile}
    BY <1>3, <1>5, GenerationsAssumption DEF LockWhole
  <2>2. CASE call.force
    BY <1>1, <1>5, <2>2 DEF Conflict, StillProtected
  <2>3. CASE ~call.force /\ lock[p] = NoFile
    BY <1>3, <1>5, <2>3 DEF Conflict, Unmanaged
  <2>4. CASE ~call.force /\ lock[p] # NoFile
    BY <1>3, <1>5, <2>1, <2>4 DEF Conflict, Modified
  <2> QED BY <2>2, <2>3, <2>4
<1> QED BY <1>4, <1>5

-----------------------------------------------------------------------------
(* What a run holds at each of its steps *)

LEMMA ShapeStep == IInv /\ [Next]_vars => (RunShape /\ AfterSwap /\ CleanedShape)'
<1> SUFFICES ASSUME IInv, [Next]_vars PROVE (RunShape /\ AfterSwap /\ CleanedShape)'
  OBVIOUS
<1>a. TypeOK /\ RunShape /\ AfterSwap /\ CleanedShape /\ EditsSurvive /\ LockWhole
  BY DEF IInv
<1> USE DEF RunShape, AfterSwap, CleanedShape, Unwatched
<1>1. CASE Call
  <2> SUFFICES ASSUME NEW files \in Generations,
                      NEW force \in BOOLEAN, NEW spaced \in BOOLEAN,
                      Start(files, force, spaced)
               PROVE  (RunShape /\ AfterSwap /\ CleanedShape)'
    BY <1>1 DEF Call
  <2>1. call' \in Calls
    BY DEF Start, Calls
  <2> QED BY <1>a, <2>1 DEF Start
<1>2. CASE Recover
  BY <1>a, <1>2 DEF Recover, RecoverRestores, RecoverFindsStaleOld,
       RecoverFindsNoOld, RecoverFails, SweepDone, SweepFile, Revive, Fault
<1>3. CASE RemoveOld
  BY <1>a, <1>3 DEF RemoveOld, RemoveOldDir, DropOldFails, RemoveOldFile, Fault
<1>4. CASE Check
  <2>1. CASE CheckStops \/ CheckFails
    BY <1>a, <2>1 DEF CheckStops, CheckFails, Fault
  <2>2. CASE CheckPasses
    <3>1. StillProtected = {}
      BY <1>a, <2>2, ContentAssumption, GenerationsAssumption, ConsentSuffices
      DEF CheckPasses
    <3> QED BY <1>a, <2>2, <3>1 DEF CheckPasses
  <2> QED BY <1>4, <2>1, <2>2 DEF Check
<1>5. CASE Stage
  <2>1. CASE MakeStaging \/ MakeStagingFails
    BY <1>a, <2>1, EmptyTreeIsATree DEF MakeStaging, MakeStagingFails, Fault
  <2>2. CASE StageDone \/ StageFails
    BY <1>a, <2>2 DEF StageDone, StageFails, Fault
  <2>3. ASSUME NEW p \in Path, StageOpen(p) \/ StageFill(p)
        PROVE  (RunShape /\ AfterSwap /\ CleanedShape)'
    <3>1. staging \in RawTree
      BY <1>a, <2>3 DEF TypeOK, StageOpen, StageFill
    <3>2. staging' # NoDir
      <4>1. call.files[p] \in Content \cup {NoFile}
        BY <1>a, <2>3, TreesAreNotSentinels DEF StageOpen, StageFill, Calls, Tree
      <4>2. staging' \in RawTree
        BY <2>3, <3>1, <4>1 DEF StageOpen, StageFill, RawTree
      <4> QED BY <4>2, SentinelAssumption
    <3>3. UNCHANGED <<gen, old, lock, tmp, process, history, budget>>
      BY <2>3 DEF StageOpen, StageFill
    <3>4. pc = "stage"
      BY <2>3 DEF StageOpen, StageFill
    <3> QED BY <1>a, <3>2, <3>3, <3>4
  <2> QED BY <1>5, <2>1, <2>2, <2>3 DEF Stage
<1>6. CASE Swap
  <2>1. CASE AsideRenames \/ AsideSkipped \/ AsideFails
    BY <1>a, <2>1 DEF AsideRenames, AsideSkipped, AsideFails, Fault
  <2>2. CASE IntoPlace
    <3>1. staging = call.files /\ staging # NoDir
      BY <1>a, <2>2, TreesAreNotSentinels DEF IntoPlace, Calls
    <3> QED BY <1>a, <2>2, <3>1 DEF IntoPlace
  <2>3. CASE IntoFailsFirstRun \/ IntoStrandsOld
    BY <1>a, <2>3 DEF IntoFailsFirstRun, IntoStrandsOld, IntoRefused, Fault
  <2>4. CASE IntoRollsBack
    BY <1>a, <2>4 DEF IntoRollsBack, Revive, Fault
  <2> QED BY <1>6, <2>1, <2>2, <2>3, <2>4 DEF Swap
<1>7. CASE Save
  BY <1>a, <1>7 DEF Save, MarshalRefuses, OpenTmp, FillTmp, SaveFails, Commit, Fault
<1>8. CASE Crash
  BY <1>a, <1>8 DEF Crash
<1>9. CASE User
  <2>1. ASSUME NEW p \in Path, NEW h \in Hand, UserWrites(p, h)
        PROVE  (RunShape /\ AfterSwap /\ CleanedShape)'
    <3>1. gen' # NoDir
      BY <1>a, <2>1, EmptyTreeIsATree, WritingKeepsTree, ContentAssumption DEF UserWrites, TypeOK
    <3> QED BY <1>a, <2>1, <3>1 DEF UserWrites, UserActs
  <2>2. ASSUME NEW p \in Path, UserDeletes(p)
        PROVE  (RunShape /\ AfterSwap /\ CleanedShape)'
    <3>1. gen' # NoDir
      BY <1>a, <2>2, WritingKeepsTree DEF UserDeletes, TypeOK
    <3> QED BY <1>a, <2>2, <3>1 DEF UserDeletes, UserActs
  <2>3. CASE UserCleans \/ UserDropsLock
    BY <1>a, <2>3, UserBudget DEF UserCleans, UserDropsLock, UserActs, TypeOK, BudgetOK
  <2> QED BY <1>9, <2>1, <2>2, <2>3 DEF User
<1>10. CASE UNCHANGED vars
  BY <1>a, <1>10 DEF vars
<1> QED BY <1>1, <1>2, <1>3, <1>4, <1>5, <1>6, <1>7, <1>8, <1>9, <1>10
    DEF Next, Run

-----------------------------------------------------------------------------
(* The properties *)

\* Only Save's rename and the user replace the lock file.
LEMMA LockChanges ==
    [Next]_vars => Commit \/ UserDropsLock \/ UNCHANGED lock
<1> SUFFICES ASSUME [Next]_vars PROVE Commit \/ UserDropsLock \/ UNCHANGED lock
  OBVIOUS
<1>1. CASE Call
  BY <1>1 DEF Call, Start
<1>2. CASE Recover
  BY <1>2 DEF Recover, RecoverRestores, RecoverFindsStaleOld,
       RecoverFindsNoOld, RecoverFails, SweepDone, SweepFile
<1>3. CASE RemoveOld
  BY <1>3 DEF RemoveOld, RemoveOldDir, DropOldFails, RemoveOldFile
<1>4. CASE Check
  BY <1>4 DEF Check, CheckStops, CheckPasses, CheckFails
<1>5. CASE Stage
  BY <1>5 DEF Stage, MakeStaging, MakeStagingFails,
       StageDone, StageFails, StageOpen, StageFill
<1>6. CASE Swap
  BY <1>6 DEF Swap, AsideRenames, AsideSkipped,
        AsideFails, IntoPlace, IntoFailsFirstRun, IntoRollsBack, IntoStrandsOld
<1>7. CASE Save
  BY <1>7 DEF Save, MarshalRefuses, OpenTmp, FillTmp, SaveFails
<1>8. CASE Crash \/ User
  BY <1>8 DEF Crash, User, UserWrites, UserDeletes, UserCleans
<1>9. CASE UNCHANGED vars
  BY <1>9 DEF vars
<1> QED BY <1>1, <1>2, <1>3, <1>4, <1>5, <1>6, <1>7, <1>8, <1>9 DEF Next, Run

LEMMA WholeGenerationStep == IInv /\ [Next]_vars => WholeGeneration'
<1> SUFFICES ASSUME IInv, [Next]_vars PROVE WholeGeneration'
  OBVIOUS
<1>a. TypeOK /\ RunShape /\ AfterSwap /\ CleanedShape /\ WholeGeneration
  BY DEF IInv
<1> USE DEF WholeGeneration, Visible
<1>1. CASE Call
  BY <1>a, <1>1 DEF Call, Start
<1>2. CASE Recover
  BY <1>a, <1>2 DEF Recover, RecoverRestores, RecoverFindsStaleOld,
       RecoverFindsNoOld, RecoverFails, SweepDone, SweepFile, Revive, Fault
<1>3. CASE RemoveOld
  \* The only step that shrinks .lapigo-old: internal/gen must be there.
  <2>1. touched = "no" /\ pc \in {"dropStale", "dropOld"} => gen # NoDir
    BY <1>a DEF AfterSwap
  <2> QED BY <1>a, <1>3, <2>1 DEF RemoveOld, RemoveOldDir, DropOldFails, RemoveOldFile, Fault
<1>4. CASE Check
  BY <1>a, <1>4 DEF Check, CheckStops, CheckPasses, CheckFails, Fault
<1>5. CASE Stage
  BY <1>a, <1>5 DEF Stage, MakeStaging, MakeStagingFails,
       StageDone, StageFails, StageOpen, StageFill, Fault
<1>6. CASE Swap
  <2>1. CASE AsideRenames \/ AsideSkipped \/ AsideFails
    BY <1>a, <2>1 DEF AsideRenames, AsideSkipped, AsideFails, Fault
  <2>2. CASE IntoPlace
    <3>1. staging = call.files /\ staging # NoDir
      BY <1>a, <2>2, TreesAreNotSentinels DEF IntoPlace, RunShape, Calls
    <3> QED BY <2>2, <3>1 DEF IntoPlace
  <2>3. CASE IntoFailsFirstRun \/ IntoStrandsOld
    BY <1>a, <2>3 DEF IntoFailsFirstRun, IntoStrandsOld, IntoRefused, Fault
  <2>4. CASE IntoRollsBack
    BY <1>a, <2>4 DEF IntoRollsBack, Revive, Fault
  <2> QED BY <1>6, <2>1, <2>2, <2>3, <2>4 DEF Swap
<1>7. CASE Save
  BY <1>a, <1>7 DEF Save, MarshalRefuses, OpenTmp, FillTmp, SaveFails, Commit, Fault
<1>8. CASE Crash
  BY <1>a, <1>8 DEF Crash
<1>9. CASE User
  BY <1>a, <1>9 DEF User, UserWrites, UserDeletes, UserCleans, UserDropsLock, UserActs
<1>10. CASE UNCHANGED vars
  BY <1>a, <1>10 DEF vars
<1> QED BY <1>1, <1>2, <1>3, <1>4, <1>5, <1>6, <1>7, <1>8, <1>9, <1>10
    DEF Next, Run

LEMMA EditsSurviveStep == IInv /\ [Next]_vars => EditsSurvive'
<1> SUFFICES ASSUME IInv, [Next]_vars PROVE EditsSurvive'
  OBVIOUS
<1>a. TypeOK /\ RunShape /\ EditsSurvive
  BY DEF IInv
<1> USE DEF EditsSurvive
<1>1. CASE Call
  BY <1>a, <1>1 DEF Call, Start, HandPaths
<1>2. CASE Recover
  BY <1>a, <1>2 DEF Recover, RecoverRestores, RecoverFindsStaleOld,
       RecoverFindsNoOld, RecoverFails, SweepDone, SweepFile
<1>3. CASE RemoveOld
  BY <1>a, <1>3 DEF RemoveOld, RemoveOldDir, DropOldFails, RemoveOldFile
<1>4. CASE Check
  <2>1. StillProtected \subseteq dirty
    BY DEF StillProtected
  <2> QED BY <1>a, <1>4, <2>1 DEF Check, CheckStops, CheckPasses, CheckFails
<1>5. CASE Stage
  BY <1>a, <1>5 DEF Stage, MakeStaging, MakeStagingFails,
       StageDone, StageFails, StageOpen, StageFill
<1>6. CASE Swap
  \* The tree is put aside only when no protected file is left in it, and the
  \* other renames only fill an absent internal/gen, which holds none.
  <2>1. pc = "aside" => dirty = {}
    BY <1>a DEF RunShape, Unwatched
  <2>2. gen = NoDir => dirty = {}
    BY <1>a
  <2> QED BY <1>a, <1>6, <2>1, <2>2 DEF Swap, AsideRenames, AsideSkipped,
        AsideFails, IntoPlace, IntoFailsFirstRun, IntoRollsBack, IntoStrandsOld
<1>7. CASE Save
  BY <1>a, <1>7 DEF Save, MarshalRefuses, OpenTmp, FillTmp, SaveFails, Commit
<1>8. CASE Crash
  BY <1>a, <1>8 DEF Crash
<1>9. CASE User
  <2>1. ASSUME NEW p \in Path, NEW h \in Hand, UserWrites(p, h) PROVE EditsSurvive'
    <3>1. gen' # NoDir /\ gen'[p] = h /\ gen' \in Tree
      BY <1>a, <2>1, EmptyTreeIsATree, WritingKeepsTree, ContentAssumption
      DEF UserWrites, TypeOK, Tree
    <3>2. ASSUME NEW q \in dirty', q # p PROVE gen'[q] \in Hand
      <4>1. q \in dirty /\ q \in Path
        BY <1>a, <2>1, <3>2 DEF UserWrites, TypeOK
      <4>2. gen \in Tree /\ gen' = [gen EXCEPT ![p] = h] /\ gen[q] \in Hand
        BY <1>a, <2>1, <4>1 DEF UserWrites, TypeOK
      <4> QED BY <3>2, <4>1, <4>2 DEF Tree
    <3> QED BY <2>1, <3>1, <3>2 DEF UserWrites
  <2>2. ASSUME NEW p \in Path, UserDeletes(p) PROVE EditsSurvive'
    <3>1. gen \in Tree /\ gen' = [gen EXCEPT ![p] = NoFile] /\ dirty' = dirty \ {p}
      BY <1>a, <2>2 DEF UserDeletes, TypeOK
    <3>2. gen' # NoDir
      BY <3>1, WritingKeepsTree
    <3>3. \A q \in dirty \ {p} : q \in Path /\ gen'[q] = gen[q]
      BY <1>a, <3>1 DEF Tree, TypeOK
    <3> QED BY <1>a, <3>1, <3>2, <3>3
  <2>3. CASE UserCleans \/ UserDropsLock
    BY <1>a, <2>3 DEF UserCleans, UserDropsLock, UserActs
  <2> QED BY <1>9, <2>1, <2>2, <2>3 DEF User
<1>10. CASE UNCHANGED vars
  BY <1>a, <1>10 DEF vars
<1> QED BY <1>1, <1>2, <1>3, <1>4, <1>5, <1>6, <1>7, <1>8, <1>9, <1>10
    DEF Next, Run

LEMMA LockWholeStep == IInv /\ [Next]_vars => LockWhole'
<1> SUFFICES ASSUME IInv, [Next]_vars PROVE LockWhole'
  OBVIOUS
<1>a. RunShape /\ LockWhole
  BY DEF IInv
<1>1. CASE Commit
  BY <1>a, <1>1 DEF LockWhole, Commit, RunShape, Calls
<1>2. CASE UserDropsLock
  BY <1>2 DEF LockWhole, UserDropsLock
<1>3. CASE UNCHANGED lock
  BY <1>a, <1>3 DEF LockWhole
<1> QED BY <1>1, <1>2, <1>3, LockChanges

LEMMA SuccessRecordedStep == IInv /\ [Next]_vars => SuccessRecorded'
<1> SUFFICES ASSUME IInv, [Next]_vars PROVE SuccessRecorded'
  OBVIOUS
<1>a. RunShape /\ AfterSwap /\ WholeGeneration /\ SuccessRecorded
  BY DEF IInv
<1> USE DEF SuccessRecorded
<1>1. CASE Call
  BY <1>1 DEF Call, Start
<1>2. CASE Recover
  BY <1>2 DEF Recover, RecoverRestores, RecoverFindsStaleOld,
       RecoverFindsNoOld, RecoverFails, SweepDone, SweepFile
<1>3. CASE RemoveOld
  BY <1>3 DEF RemoveOld, RemoveOldDir, DropOldFails, RemoveOldFile
<1>4. CASE Check
  BY <1>4 DEF Check, CheckStops, CheckPasses, CheckFails
<1>5. CASE Stage
  BY <1>5 DEF Stage, MakeStaging, MakeStagingFails,
       StageDone, StageFails, StageOpen, StageFill
<1>6. CASE Swap
  BY <1>6 DEF Swap, AsideRenames, AsideSkipped,
        AsideFails, IntoPlace, IntoFailsFirstRun, IntoRollsBack, IntoStrandsOld
<1>7. CASE Save
  <2>1. CASE Commit
    \* What the lock now lists is what the swap put in place.
    BY <1>a, <2>1 DEF Commit, RunShape, AfterSwap, WholeGeneration, Visible
  <2> QED BY <1>7, <2>1 DEF Save, MarshalRefuses, OpenTmp, FillTmp, SaveFails
<1>8. CASE Crash
  BY <1>8 DEF Crash
<1>9. CASE User
  BY <1>a, <1>9 DEF User, UserWrites, UserDeletes, UserCleans, UserDropsLock, UserActs
<1>10. CASE UNCHANGED vars
  BY <1>a, <1>10 DEF vars
<1> QED BY <1>1, <1>2, <1>3, <1>4, <1>5, <1>6, <1>7, <1>8, <1>9, <1>10
    DEF Next, Run

-----------------------------------------------------------------------------
(* Theorems *)

\* In every behaviour of Write, crashed, failed, edited and repeated in any
\* order, the inductive invariant holds.
THEOREM Invariance == Spec => []IInv
<1>1. Init => IInv
  <2> SUFFICES ASSUME Init PROVE IInv
    OBVIOUS
  <2>1. BudgetOK
    BY BoundAssumption DEF Init, BudgetOK
  <2>2. TypeOK
    BY <2>1 DEF Init, TypeOK, Steps
  <2>3. RunShape /\ AfterSwap /\ CleanedShape
    BY DEF Init, RunShape, AfterSwap, CleanedShape, Unwatched
  <2>4. WholeGeneration /\ EditsSurvive /\ LockWhole /\ SuccessRecorded
    BY DEF Init, WholeGeneration, Visible, EditsSurvive, LockWhole, SuccessRecorded
  <2> QED BY <2>2, <2>3, <2>4 DEF IInv
<1>2. IInv /\ [Next]_vars => IInv'
  BY TypeStep, ShapeStep, WholeGenerationStep, EditsSurviveStep, LockWholeStep,
     SuccessRecordedStep DEF IInv
<1> QED BY <1>1, <1>2, PTL DEF Spec

\* Types; in particular no half-written file is ever in internal/gen or in
\* .lapigo-old (stageFiles and swap).
THEOREM TypeCorrect == Spec => []TypeOK
<1>1. IInv => TypeOK
  BY DEF IInv
<1> QED BY <1>1, Invariance, PTL

\* Without the user's interference, the tree Recover would leave is always
\* exactly the generation last swapped in, at every step of every run.
THEOREM GenerationNeverLost == Spec => []WholeGeneration
<1>1. IInv => WholeGeneration
  BY DEF IInv
<1> QED BY <1>1, Invariance, PTL

\* No run destroys a hand-written file that was there when it checked, unless
\* --force consented to the loss of that file (checkGenerated, rows 1, 5, 7).
THEOREM HandEditsNeverLost == Spec => []EditsSurvive
<1>1. IInv => EditsSurvive
  BY DEF IInv
<1> QED BY <1>1, Invariance, PTL

\* The lock file always parses and lists exactly one generation (Lock.Save).
THEOREM LockAlwaysWhole == Spec => []LockWhole
<1>1. IInv => LockWhole
  BY DEF IInv
<1> QED BY <1>1, Invariance, PTL

\* After a run that returned nil the lock and internal/gen agree.
THEOREM SuccessIsRecorded == Spec => []SuccessRecorded
<1>1. IInv => SuccessRecorded
  BY DEF IInv
<1> QED BY <1>1, Invariance, PTL

-----------------------------------------------------------------------------
(* Write implements GenPublish *)

LEMMA PublisherInit == Init => Publisher!Init
  BY DEF Init, Publisher!Init, Visible

LEMMA PublisherStep ==
    IInv /\ [Next]_vars => [Publisher!Next]_(Publisher!vars)
<1> SUFFICES ASSUME IInv, [Next]_vars
             PROVE  Publisher!Next \/ UNCHANGED <<Visible, pub, lock, edits>>
  BY DEF Publisher!vars
<1>a. TypeOK /\ RunShape /\ AfterSwap /\ CleanedShape
  BY DEF IInv
<1>b. Publisher!EmptyTree = EmptyTree /\ Publisher!Tree = Tree
  BY DEF Publisher!EmptyTree, EmptyTree, Publisher!Tree, Tree
\* A tree coming back from .lapigo-old changes what is visible only if the
\* user had removed internal/gen.
<1>c. ASSUME gen = NoDir, old # NoDir, gen' = old, touched' = Revive,
             UNCHANGED <<pub, lock, edits>>
      PROVE  Publisher!Next \/ UNCHANGED <<Visible, pub, lock, edits>>
  <2>1. CASE touched = "cleaned"
    <3>1. Visible = NoDir /\ edits > 0 /\ Visible' \in Publisher!Tree
      BY <1>a, <1>b, <1>c, <2>1 DEF Visible, CleanedShape, TypeOK
    <3> QED BY <1>c, <3>1 DEF Publisher!Next, Publisher!Resurface
  <2>2. CASE touched # "cleaned"
    BY <1>c, <2>2 DEF Visible
  <2> QED BY <2>1, <2>2
<1>1. CASE Call
  BY <1>1 DEF Call, Start, Visible
<1>2. CASE Recover
  <2>1. CASE RecoverRestores
    BY <1>c, <2>1 DEF RecoverRestores
  <2> QED BY <1>2, <2>1 DEF Recover, RecoverFindsStaleOld, RecoverFindsNoOld,
        RecoverFails, SweepDone, SweepFile, Visible, Fault
<1>3. CASE RemoveOld
  <2>1. pc \in {"dropStale", "dropOld"} => gen # NoDir \/ touched = "cleaned"
    BY <1>a DEF AfterSwap
  <2> QED BY <1>3, <2>1 DEF RemoveOld, RemoveOldDir, DropOldFails, RemoveOldFile,
        Visible, Fault
<1>4. CASE Check
  BY <1>4 DEF Check, CheckStops, CheckPasses, CheckFails, Visible, Fault
<1>5. CASE Stage
  BY <1>5 DEF Stage, MakeStaging, MakeStagingFails, StageDone, StageFails,
     StageOpen, StageFill, Visible, Fault
<1>6. CASE Swap
  <2>1. CASE AsideRenames
    BY <1>a, <2>1 DEF AsideRenames, Visible, CleanedShape
  <2>2. CASE IntoPlace
    <3>1. staging = call.files /\ call.files \in Generations /\ staging # NoDir
      BY <1>a, <2>2, TreesAreNotSentinels DEF IntoPlace, RunShape, Calls
    <3>2. Publisher!Publish(call.files)
      BY <2>2, <3>1 DEF IntoPlace, Publisher!Publish, Visible
    <3> QED BY <3>1, <3>2 DEF Publisher!Next
  <2>3. CASE IntoRollsBack
    <3>1. CASE old # NoDir
      BY <1>c, <2>3, <3>1 DEF IntoRollsBack, Fault
    <3>2. CASE old = NoDir
      BY <2>3, <3>2 DEF IntoRollsBack, Fault, Visible, Revive
    <3> QED BY <3>1, <3>2
  <2> QED BY <1>6, <2>1, <2>2, <2>3 DEF Swap, AsideSkipped, AsideFails,
        IntoFailsFirstRun, IntoStrandsOld, IntoRefused, Visible, Fault
<1>7. CASE Save
  <2>1. CASE Commit
    <3>1. pub = call.files /\ tmp = call.files /\ call.files \in Generations
      BY <1>a, <2>1 DEF Commit, AfterSwap, RunShape, Calls
    <3>2. Publisher!Record
      BY <2>1, <3>1, TreesAreNotSentinels DEF Commit, Publisher!Record, Visible
    <3> QED BY <3>2 DEF Publisher!Next
  <2> QED BY <1>7, <2>1 DEF Save, MarshalRefuses, OpenTmp, FillTmp, SaveFails,
        Visible, Fault
<1>8. CASE Crash
  BY <1>8 DEF Crash, Visible
<1>9. CASE User
  <2>0. ASSUME UserActs PROVE edits' = edits + 1 /\ pub' = pub
    BY <2>0 DEF UserActs
  <2>1. ASSUME NEW p \in Path, NEW h \in Hand, UserWrites(p, h)
        PROVE  Publisher!Next
    <3> DEFINE base == IF gen = NoDir THEN EmptyTree ELSE gen
    <3>1. base \in Tree /\ base # NoDir /\ gen' = [base EXCEPT ![p] = h]
      BY <1>a, <2>1, EmptyTreeIsATree DEF UserWrites, TypeOK
    <3>2. gen' # NoDir /\ h \in Content \cup {NoFile}
      BY <3>1, WritingKeepsTree, ContentAssumption
    <3>3. base \in {Visible, Publisher!EmptyTree} \ {NoDir} /\ Visible' = gen'
      BY <1>b, <3>1, <3>2 DEF Visible
    <3>4. Publisher!EditFile(p, h)
      BY <2>0, <2>1, <3>1, <3>3 DEF Publisher!EditFile, UserWrites
    <3> QED BY <3>2, <3>4 DEF Publisher!Next
  <2>2. ASSUME NEW p \in Path, UserDeletes(p) PROVE Publisher!Next
    <3>1. gen \in Tree /\ gen # NoDir /\ gen' = [gen EXCEPT ![p] = NoFile]
      BY <1>a, <2>2 DEF UserDeletes, TypeOK
    <3>2. gen' # NoDir
      BY <3>1, WritingKeepsTree
    <3>3. Visible = gen /\ Visible' = gen'
      BY <3>1, <3>2 DEF Visible
    <3>4. Publisher!EditFile(p, NoFile)
      BY <2>0, <2>2, <3>1, <3>3 DEF Publisher!EditFile, UserDeletes
    <3> QED BY <3>4 DEF Publisher!Next
  <2>3. CASE UserCleans
    BY <2>0, <2>3 DEF UserCleans, Visible, Publisher!Next, Publisher!Clean
  <2>4. CASE UserDropsLock
    <3>1. UNCHANGED <<Visible, pub>>
      BY <2>4 DEF UserDropsLock, UserActs, Visible
    <3>2. Publisher!Forget
      BY <2>0, <2>4, <3>1 DEF UserDropsLock, Publisher!Forget
    <3> QED BY <3>2 DEF Publisher!Next
  <2> QED BY <1>9, <2>1, <2>2, <2>3, <2>4 DEF User
<1>10. CASE UNCHANGED vars
  BY <1>10 DEF vars, Visible
<1> QED BY <1>1, <1>2, <1>3, <1>4, <1>5, <1>6, <1>7, <1>8, <1>9, <1>10
    DEF Next, Run

\* Whatever interrupts it, Write changes the visible tree only by publishing a
\* complete generation in one step and the lock only by recording it.
THEOREM Refinement == Spec => PublishesAtomically
<1>1. Init => Publisher!Init
  BY PublisherInit
<1>2. IInv /\ [Next]_vars => [Publisher!Next]_(Publisher!vars)
  BY PublisherStep
<1> QED BY <1>1, <1>2, Invariance, PTL DEF Spec, PublishesAtomically, Publisher!Spec
=============================================================================
