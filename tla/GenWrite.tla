------------------------------ MODULE GenWrite ------------------------------
(***************************************************************************)
(* The write half of internal/gen (write.go, lock.go): one caller runs     *)
(* Write again and again, each run taking the file-system steps the code   *)
(* takes, in its order.  Between any two of them the process may die, the  *)
(* next one may fail, and the user may edit the tree.                      *)
(*                                                                         *)
(* Directories are total functions from Path; NoFile marks a path with no  *)
(* file and NoDir an absent directory.  A file is its content and a        *)
(* checksum is the content it was computed from (SHA-256 taken as          *)
(* injective).  Paths are relative to internal/gen.                        *)
(***************************************************************************)
EXTENDS Naturals

CONSTANTS
    Path,          \* paths under internal/gen
    Content,       \* contents of a completely written file
    Hand,          \* the contents only a human writes
    Generations,   \* the file maps Generate can hand to Write
    NoFile, NoDir, NoLock, Torn,
    MaxCrash,      \* bound: processes that die in the middle of a run
    MaxFault,      \* bound: file-system calls that return an error
    MaxEdit        \* bound: things the user does to the tree or the lock

Tree    == [Path -> Content \cup {NoFile}]
RawTree == [Path -> Content \cup {NoFile, Torn}]
EmptyTree == [p \in Path |-> NoFile]

ASSUME ContentAssumption ==
    /\ Hand \subseteq Content
    /\ NoFile \notin Content
    /\ Torn \notin Content
    /\ NoFile # Torn
ASSUME GenerationsAssumption ==
    Generations \subseteq [Path -> (Content \ Hand) \cup {NoFile}]
ASSUME SentinelAssumption ==
    /\ NoDir \notin RawTree
    /\ NoLock \notin RawTree
    /\ Torn \notin RawTree
    /\ NoLock # Torn
ASSUME BoundAssumption == MaxCrash \in Nat /\ MaxFault \in Nat /\ MaxEdit \in Nat

VARIABLES
    gen, old, staging,    \* internal/gen, .lapigo-old, .lapigo-staging
    lock, tmp,            \* generated entries of .lapigo.lock and of its .tmp
    pc, call, genExisted, \* the running Write: next step, arguments, swap's local
    res,                  \* how the last finished run ended
    touched, pub, dirty,  \* history: see below
    crashes, faults, edits

disk    == <<gen, old, staging, lock, tmp>>
process == <<pc, call, genExisted, res>>
(***************************************************************************)
(* History variables, read by properties only.                             *)
(*   touched  what the user last did to internal/gen since a run renamed a *)
(*            generation into place; "revived": a tree the user removed    *)
(*            was brought back from .lapigo-old                            *)
(*   pub      the generation last renamed into place                       *)
(*   dirty    paths whose hand-written content this run has to respect     *)
(***************************************************************************)
history == <<touched, pub, dirty>>
budget  == <<crashes, faults, edits>>
vars    == <<gen, old, staging, lock, tmp, pc, call, genExisted, res,
             touched, pub, dirty, crashes, faults, edits>>

Steps == {"idle", "recover", "dropStale", "sweep", "check", "mkStaging",
          "stage", "aside", "into", "dropOld", "marshal", "fillTmp", "commit"}
Calls == [files : Generations, force : BOOLEAN, spacedVersion : BOOLEAN]
NoCall == [files |-> EmptyTree, force |-> FALSE, spacedVersion |-> FALSE]

\* Paths that hold hand-written content in directory d.
HandPaths(d) == {p \in Path : d # NoDir /\ d[p] \in Hand}

\* What os.RemoveAll can leave of d: nothing, or, when it fails, some part.
Remains(d) ==
    {NoDir} \cup {[p \in Path |-> IF p \in kept THEN d[p] ELSE NoFile] :
                    kept \in SUBSET Path}

Init ==
    /\ gen = NoDir /\ old = NoDir /\ staging = NoDir
    /\ lock = NoLock /\ tmp = NoLock
    /\ pc = "idle" /\ call = NoCall /\ genExisted = FALSE /\ res = "none"
    /\ touched = "no" /\ pub = NoDir /\ dirty = {}
    /\ crashes = 0 /\ faults = 0 /\ edits = 0

-----------------------------------------------------------------------------
(* Control *)

GoTo(step) == pc' = step /\ UNCHANGED <<call, genExisted, res>>

Return(result) ==
    /\ pc' = "idle" /\ res' = result
    /\ call' = NoCall /\ genExisted' = FALSE

NoFault == UNCHANGED budget
Fault ==
    /\ faults < MaxFault /\ faults' = faults + 1
    /\ UNCHANGED <<crashes, edits>>

\* Write(root, files, opts) with a non-empty version and clean output paths.
Start(files, force, spaced) ==
    /\ pc = "idle" /\ pc' = "recover"
    /\ call' = [files |-> files, force |-> force, spacedVersion |-> spaced]
    /\ dirty' = HandPaths(gen)
    /\ UNCHANGED <<disk, genExisted, res, touched, pub, budget>>

-----------------------------------------------------------------------------
(* Recover *)

\* A tree the user had removed comes back when .lapigo-old is renamed to gen.
Revive == IF touched = "cleaned" THEN "revived" ELSE touched

\* Mutant: Recover reports a missing internal/gen and does not restore it.
RecoverOnlyReports ==
    /\ pc = "recover" /\ gen = NoDir /\ old # NoDir
    /\ Return("error")
    /\ UNCHANGED <<disk, history>> /\ NoFault

RecoverRestores ==
    /\ pc = "recover" /\ gen = NoDir /\ old # NoDir
    /\ gen' = old /\ old' = NoDir
    /\ touched' = Revive
    /\ GoTo("sweep")
    /\ UNCHANGED <<staging, lock, tmp, pub, dirty>> /\ NoFault

\* Mutant: Recover takes every .lapigo-old for a stale one.
RecoverDropsAnyOld ==
    /\ pc = "recover" /\ old # NoDir
    /\ GoTo("dropStale")
    /\ UNCHANGED <<disk, history>> /\ NoFault

RecoverFindsStaleOld ==
    /\ pc = "recover" /\ gen # NoDir /\ old # NoDir
    /\ GoTo("dropStale")
    /\ UNCHANGED <<disk, history>> /\ NoFault

RecoverFindsNoOld ==
    /\ pc = "recover" /\ old = NoDir
    /\ GoTo("sweep")
    /\ UNCHANGED <<disk, history>> /\ NoFault

RecoverFails ==
    /\ \/ pc = "recover" /\ gen = NoDir /\ old # NoDir
       \/ pc = "dropStale"
       \/ pc = "sweep" /\ staging # NoDir
    /\ Return("error")
    /\ UNCHANGED <<disk, history>> /\ Fault

\* os.RemoveAll(.lapigo-old), in Recover and at the end of swap: one file at
\* a time, then the directory.
RemoveOldFile(p) ==
    /\ pc \in {"dropStale", "dropOld"}
    /\ old # NoDir /\ old[p] # NoFile
    /\ old' = [old EXCEPT ![p] = NoFile]
    /\ UNCHANGED <<gen, staging, lock, tmp, process, history>> /\ NoFault

RemoveOldDir ==
    /\ pc \in {"dropStale", "dropOld"}
    /\ old = EmptyTree /\ old' = NoDir
    /\ GoTo(IF pc = "dropStale" THEN "sweep" ELSE "marshal")
    /\ UNCHANGED <<gen, staging, lock, tmp, history>> /\ NoFault

\* swap ignores an error of its RemoveAll; Recover does not (RecoverFails).
DropOldFails ==
    /\ pc = "dropOld"
    /\ GoTo("marshal")
    /\ UNCHANGED <<disk, history>> /\ Fault

SweepFile(p) ==
    /\ pc = "sweep" /\ staging # NoDir /\ staging[p] # NoFile
    /\ staging' = [staging EXCEPT ![p] = NoFile]
    /\ UNCHANGED <<gen, old, lock, tmp, process, history>> /\ NoFault

SweepDone ==
    /\ pc = "sweep" /\ staging \in {NoDir, EmptyTree}
    /\ staging' = NoDir
    /\ GoTo("check")
    /\ UNCHANGED <<gen, old, lock, tmp, history>> /\ NoFault

-----------------------------------------------------------------------------
(* LoadLock and checkGenerated, read in one step: what the user does to the *)
(* tree while they run is what he does just after them.                     *)

\* Row 1: present, recorded, and not what was recorded.
Modified(l) ==
    {p \in Path : gen # NoDir /\ l[p] # NoFile /\ gen[p] \notin {NoFile, l[p]}}

\* Row 5: present in internal/gen and unknown to the lock.
Unmanaged(l) == {p \in Path : gen # NoDir /\ gen[p] # NoFile /\ l[p] = NoFile}

\* Mutant: --force overrides row 5 as well.
ConflictUnlessForced ==
    /\ ~call.force
    /\ IF lock = NoLock
       THEN gen # NoDir
       ELSE Modified(lock) # {} \/ Unmanaged(lock) # {}

Conflict ==
    IF lock = NoLock
    THEN gen # NoDir /\ ~call.force          \* row 7
    ELSE \/ Modified(lock) # {} /\ ~call.force
         \/ Unmanaged(lock) # {}

\* --force consents to losing the recorded files, never an unmanaged one.
StillProtected ==
    IF ~call.force THEN dirty
    ELSE IF lock = NoLock THEN {} ELSE dirty \cap Unmanaged(lock)

CheckStops ==
    /\ pc = "check" /\ lock # Torn /\ Conflict
    /\ Return("conflict")
    /\ UNCHANGED <<disk, history>> /\ NoFault

CheckPasses ==
    /\ pc = "check" /\ lock # Torn /\ ~Conflict
    /\ dirty' = StillProtected
    /\ GoTo("mkStaging")
    /\ UNCHANGED <<disk, touched, pub>> /\ NoFault

\* The lock or a recorded file is there and cannot be read, or the walk fails.
CheckFails ==
    /\ pc = "check"
    /\ Return("error")
    /\ UNCHANGED <<disk, history>> /\ Fault

-----------------------------------------------------------------------------
(* stageFiles.  The code goes through the keys in sorted order; the model   *)
(* through any order, since nothing but the final content is read.          *)

MakeStaging ==
    /\ pc = "mkStaging" /\ staging' = EmptyTree
    /\ GoTo("stage")
    /\ UNCHANGED <<gen, old, lock, tmp, history>> /\ NoFault

MakeStagingFails ==
    /\ pc = "mkStaging"
    /\ Return("error")
    /\ UNCHANGED <<disk, history>> /\ Fault

StageOpen(p) ==
    /\ pc = "stage" /\ \A q \in Path : staging[q] # Torn
    /\ staging[p] = NoFile /\ call.files[p] # NoFile
    /\ staging' = [staging EXCEPT ![p] = Torn]
    /\ UNCHANGED <<gen, old, lock, tmp, process, history>> /\ NoFault

StageFill(p) ==
    /\ pc = "stage" /\ staging[p] = Torn
    /\ staging' = [staging EXCEPT ![p] = call.files[p]]
    /\ UNCHANGED <<gen, old, lock, tmp, process, history>> /\ NoFault

\* Mutant: the swap does not wait for the last file to be written.
StageDoneEarly ==
    /\ pc = "stage"
    /\ GoTo("aside")
    /\ UNCHANGED <<disk, history>> /\ NoFault

StageDone ==
    /\ pc = "stage" /\ staging = call.files
    /\ GoTo("aside")
    /\ UNCHANGED <<disk, history>> /\ NoFault

\* A failed mkdir or write clears staging, ignoring what that returns.
StageFails ==
    /\ pc = "stage" /\ staging # call.files
    /\ staging' \in Remains(staging)
    /\ Return("error")
    /\ UNCHANGED <<gen, old, lock, tmp, history>> /\ Fault

-----------------------------------------------------------------------------
(* swap.  os.Rename refuses a target that is an existing directory.         *)

AsideRenames ==
    /\ pc = "aside" /\ gen # NoDir /\ old = NoDir
    /\ old' = gen /\ gen' = NoDir
    /\ pc' = "into" /\ genExisted' = TRUE /\ UNCHANGED <<call, res>>
    /\ UNCHANGED <<staging, lock, tmp, history>> /\ NoFault

AsideSkipped ==
    /\ pc = "aside" /\ gen = NoDir
    /\ GoTo("into")
    /\ UNCHANGED <<disk, history>> /\ NoFault

AsideFails ==
    /\ pc = "aside"
    /\ staging' \in Remains(staging)
    /\ Return("error")
    /\ UNCHANGED <<gen, old, lock, tmp, history>> /\ Fault

IntoPlace ==
    /\ pc = "into" /\ gen = NoDir
    /\ gen' = staging /\ staging' = NoDir
    /\ touched' = "no" /\ pub' = call.files
    /\ GoTo(IF genExisted THEN "dropOld" ELSE "marshal")
    /\ UNCHANGED <<old, lock, tmp, dirty>> /\ NoFault

\* The second rename fails, by itself or because internal/gen is back.
IntoRefused == IF gen = NoDir THEN Fault ELSE NoFault

\* Mutant: a first run retries the rename for as long as it is refused.
IntoRetriesFirstRun ==
    /\ pc = "into" /\ ~genExisted /\ gen # NoDir
    /\ UNCHANGED vars

IntoFailsFirstRun ==
    /\ pc = "into" /\ ~genExisted
    /\ Return("error")
    /\ UNCHANGED <<disk, history>> /\ IntoRefused

IntoRollsBack ==
    /\ pc = "into" /\ genExisted /\ gen = NoDir
    /\ gen' = old /\ old' = NoDir
    /\ touched' = Revive
    /\ Return("error")
    /\ UNCHANGED <<staging, lock, tmp, pub, dirty>> /\ Fault

\* Mutant: a failed swap cleans up .lapigo-old behind it.
IntoDropsOld ==
    /\ pc = "into" /\ genExisted
    /\ old' = NoDir
    /\ Return("error")
    /\ UNCHANGED <<gen, staging, lock, tmp, history>> /\ IntoRefused

\* "automatic rollback also failed"
IntoStrandsOld ==
    /\ pc = "into" /\ genExisted
    /\ Return("error")
    /\ UNCHANGED <<disk, history>> /\ IntoRefused

-----------------------------------------------------------------------------
(* Rewriting the generated entries and Lock.Save *)

MarshalRefuses ==
    /\ pc = "marshal" /\ call.spacedVersion
    /\ Return("error")
    /\ UNCHANGED <<disk, history>> /\ NoFault

\* Mutant: Save writes the lock file in place.
OpenLock ==
    /\ pc = "marshal" /\ ~call.spacedVersion
    /\ lock' = Torn /\ tmp' = Torn
    /\ GoTo("fillTmp")
    /\ UNCHANGED <<gen, old, staging, history>> /\ NoFault

OpenTmp ==
    /\ pc = "marshal" /\ ~call.spacedVersion
    /\ tmp' = Torn
    /\ GoTo("fillTmp")
    /\ UNCHANGED <<gen, old, staging, lock, history>> /\ NoFault

\* Mutant: the entries of the previous generation are not removed first.
FillTmpKeepingEntries ==
    /\ pc = "fillTmp"
    /\ tmp' = [p \in Path |->
                 IF call.files[p] = NoFile /\ lock # NoLock
                 THEN lock[p] ELSE call.files[p]]
    /\ GoTo("commit")
    /\ UNCHANGED <<gen, old, staging, lock, history>> /\ NoFault

FillTmp ==
    /\ pc = "fillTmp" /\ tmp' = call.files
    /\ GoTo("commit")
    /\ UNCHANGED <<gen, old, staging, lock, history>> /\ NoFault

\* The temporary file cannot be opened, filled or renamed.
SaveFails ==
    /\ \/ pc \in {"fillTmp", "commit"}
       \/ pc = "marshal" /\ ~call.spacedVersion
    /\ Return("error")
    /\ UNCHANGED <<disk, history>> /\ Fault

Commit ==
    /\ pc = "commit"
    /\ lock' = tmp /\ tmp' = NoLock
    /\ Return("ok")
    /\ UNCHANGED <<gen, old, staging, history>> /\ NoFault

-----------------------------------------------------------------------------
(* The environment *)

Crash ==
    /\ pc # "idle" /\ crashes < MaxCrash /\ crashes' = crashes + 1
    /\ Return("crash")
    /\ UNCHANGED <<disk, history, faults, edits>>

UserActs ==
    /\ edits < MaxEdit /\ edits' = edits + 1
    /\ UNCHANGED <<crashes, faults, old, staging, tmp, process, pub>>

\* Between checkGenerated and the first rename nothing protects a new edit.
Unwatched == {"mkStaging", "stage", "aside"}

\* Save content h at p, creating internal/gen if need be.
UserWrites(p, h) ==
    /\ gen' = [(IF gen = NoDir THEN EmptyTree ELSE gen) EXCEPT ![p] = h]
    /\ touched' = "edited"
    /\ dirty' = IF pc \in Unwatched THEN dirty ELSE dirty \cup {p}
    /\ UNCHANGED lock /\ UserActs

UserDeletes(p) ==
    /\ gen # NoDir /\ gen[p] # NoFile
    /\ gen' = [gen EXCEPT ![p] = NoFile]
    /\ touched' = "edited" /\ dirty' = dirty \ {p}
    /\ UNCHANGED lock /\ UserActs

\* rm -rf internal/gen
UserCleans ==
    /\ gen # NoDir /\ gen' = NoDir
    /\ touched' = "cleaned" /\ dirty' = {}
    /\ UNCHANGED lock /\ UserActs

UserDropsLock ==
    /\ lock # NoLock /\ lock' = NoLock
    /\ UNCHANGED <<gen, touched, dirty>> /\ UserActs

-----------------------------------------------------------------------------
Recover ==
    \/ RecoverRestores \/ RecoverFindsStaleOld \/ RecoverFindsNoOld
    \/ RecoverFails \/ SweepDone
    \/ \E p \in Path : SweepFile(p)

RemoveOld ==
    \/ RemoveOldDir \/ DropOldFails
    \/ \E p \in Path : RemoveOldFile(p)

Check == CheckStops \/ CheckPasses \/ CheckFails

Stage ==
    \/ MakeStaging \/ MakeStagingFails \/ StageDone \/ StageFails
    \/ \E p \in Path : StageOpen(p) \/ StageFill(p)

Swap ==
    \/ AsideRenames \/ AsideSkipped \/ AsideFails
    \/ IntoPlace \/ IntoFailsFirstRun \/ IntoRollsBack \/ IntoStrandsOld

Save == MarshalRefuses \/ OpenTmp \/ FillTmp \/ SaveFails \/ Commit

Call ==
    \E files \in Generations, force, spaced \in BOOLEAN :
        Start(files, force, spaced)

Run == Recover \/ RemoveOld \/ Check \/ Stage \/ Swap \/ Save

User ==
    \/ \E p \in Path, h \in Hand : UserWrites(p, h)
    \/ \E p \in Path : UserDeletes(p)
    \/ UserCleans \/ UserDropsLock

Next == Call \/ Run \/ Crash \/ User

Spec == Init /\ [][Next]_vars

\* A started run is scheduled until it returns or dies, and the user calls the
\* tool again after it; nothing is assumed of what the user edits.
FairSpec == Spec /\ WF_vars(Run) /\ WF_vars(Call)

-----------------------------------------------------------------------------
(* Properties *)

BudgetOK ==
    /\ crashes \in 0..MaxCrash
    /\ faults \in 0..MaxFault
    /\ edits \in 0..MaxEdit

\* Every variable has its type; in particular the visible tree and the tree
\* put aside never hold a half-written file, whatever interrupts stageFiles.
TypeOK ==
    /\ gen \in Tree \cup {NoDir}
    /\ old \in Tree \cup {NoDir}
    /\ staging \in RawTree \cup {NoDir}
    /\ lock \in Tree \cup {NoLock, Torn}
    /\ tmp \in Tree \cup {NoLock, Torn}
    /\ pc \in Steps
    /\ call \in Calls \cup {NoCall}
    /\ genExisted \in BOOLEAN
    /\ res \in {"none", "ok", "conflict", "error", "crash"}
    /\ touched \in {"no", "edited", "cleaned", "revived"}
    /\ pub \in Generations \cup {NoDir}
    /\ dirty \subseteq Path
    /\ BudgetOK

\* The tree Recover would leave: internal/gen, or .lapigo-old standing in for
\* it between the two renames of swap, but not after the user removed gen.
Visible ==
    IF gen # NoDir THEN gen
    ELSE IF touched = "cleaned" THEN NoDir ELSE old

\* Unless the user changed it, what can be seen or recovered is exactly the
\* generation last swapped in: crashes and failed calls at any step of Write
\* never lose it, mix it with another or leave part of it (spec 5.4).
WholeGeneration == touched = "no" => Visible = pub

\* A hand-written file that was there when the check ran is never moved or
\* removed by a run without --force, and an unmanaged one not even with it
\* (checkGenerated, rows 1, 5 and 7).
EditsSurvive == \A p \in dirty : gen # NoDir /\ gen[p] \in Hand

\* The lock on disk can always be parsed and lists exactly one generation:
\* Save's temporary file is never seen half-written under the real name.
LockWhole == lock # NoLock => lock \in Generations

\* A run that reported success left the lock describing internal/gen, until
\* the user or the next run changes one of them.
SuccessRecorded ==
    /\ pc = "idle" /\ res = "ok" /\ touched = "no" /\ lock # NoLock
    => gen = lock /\ staging = NoDir

\* Write implements GenPublish: Recover, a refused or failed run, staging and
\* the clean-up show nothing; the visible tree changes only when a complete
\* generation takes its place, and the lock only to record that generation.
Publisher == INSTANCE GenPublish WITH tree <- Visible, rec <- lock, acts <- edits
PublishesAtomically == Publisher!Spec

\* Every run returns (or dies): no step of Write waits for anything.
RunEnds == pc # "idle" ~> pc = "idle"

\* A tree left in .lapigo-old, by a crash or a failed rollback, comes back as
\* internal/gen, or is replaced by a new one, once runs stop being hit.
TreeReturns == (gen = NoDir /\ old # NoDir) ~> gen # NoDir

-----------------------------------------------------------------------------
(* The inductive invariant of GenWriteProofs *)

\* From the swap on, the run's generation is the published one, and only the
\* user can have taken it away.
AfterSwap ==
    /\ pc \in {"dropOld", "marshal", "fillTmp", "commit"} =>
           pub = call.files /\ staging = NoDir
    /\ pc \in {"dropStale", "dropOld", "marshal", "fillTmp", "commit"} =>
           gen # NoDir \/ touched = "cleaned"

\* What a run holds at each of its steps.
RunShape ==
    /\ pc # "idle" => call \in Calls
    /\ pc \in {"stage"} => staging # NoDir
    /\ pc \in {"aside", "into"} => staging = call.files
    /\ pc = "commit" => tmp = call.files
    /\ pc \in Unwatched => dirty = {}

\* "cleaned" means that internal/gen is gone, by the user's hand.
CleanedShape == touched = "cleaned" => gen = NoDir /\ edits > 0

IInv ==
    /\ TypeOK /\ RunShape /\ AfterSwap /\ CleanedShape
    /\ WholeGeneration /\ EditsSurvive /\ LockWhole /\ SuccessRecorded

-----------------------------------------------------------------------------
(* What the repository says and the code does not do *)

\* KindGenerated's comment: the checksum is the file as written, and a mismatch
\* means a hand edit.  So a file that the check of a run without --force is
\* about to call modified is not the one lapigo last put there.
ModifiedMeansEdited ==
    pc = "check" /\ ~call.force /\ lock \notin {NoLock, Torn} /\ pub # NoDir =>
        \A p \in Modified(lock) : gen[p] # pub[p]

\* Spec 5.5: removing internal/gen is the way to force a clean regeneration,
\* and swap's comment: a leftover .lapigo-old is cosmetic.  So a conflict is
\* never about a tree the user had removed.
CleanRegenerationProceeds == res = "conflict" => touched # "revived"

\* Spec 5.5: never delete the user's work.  An unforced run renames aside
\* (and then removes) no tree with a hand-written file in it.
UnforcedKeepsEdits ==
    pc = "into" /\ genExisted /\ ~call.force => HandPaths(old) = {}
=============================================================================
