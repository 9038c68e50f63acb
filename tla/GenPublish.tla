----------------------------- MODULE GenPublish -----------------------------
(***************************************************************************)
(* What Write promises of internal/gen, without staging, renames, recovery *)
(* or temporary files: a visible tree that a run replaces in one step by a *)
(* complete generation, and a lock that, later and in one step, records    *)
(* the generation last published.  Everything else that ever happens to    *)
(* the tree is counted in acts, the things the user did.                   *)
(***************************************************************************)
EXTENDS Naturals

CONSTANTS Path, Content, Generations, NoFile, NoDir, NoLock

VARIABLES tree, pub, rec, acts

vars == <<tree, pub, rec, acts>>

Tree == [Path -> Content \cup {NoFile}]
EmptyTree == [p \in Path |-> NoFile]

Init == tree = NoDir /\ pub = NoDir /\ rec = NoLock /\ acts = 0

Publish(g) ==
    /\ tree' = g /\ pub' = g
    /\ UNCHANGED <<rec, acts>>

Record ==
    /\ pub # NoDir /\ rec' = pub
    /\ UNCHANGED <<tree, pub, acts>>

\* The one exception: a tree that Write had put aside and could not remove
\* takes the place of a tree the user removed.
Resurface ==
    /\ tree = NoDir /\ acts > 0
    /\ tree' \in Tree
    /\ UNCHANGED <<pub, rec, acts>>

\* The user saves or deletes a file; saved while a run is between its two
\* renames, it is the only file of a new tree.
EditFile(p, c) ==
    /\ acts' = acts + 1
    /\ \E base \in {tree, EmptyTree} \ {NoDir} : tree' = [base EXCEPT ![p] = c]
    /\ UNCHANGED <<pub, rec>>

Clean ==
    /\ acts' = acts + 1
    /\ tree' = NoDir
    /\ UNCHANGED <<pub, rec>>

Forget ==
    /\ acts' = acts + 1
    /\ rec' = NoLock
    /\ UNCHANGED <<tree, pub>>

Next ==
    \/ \E g \in Generations : Publish(g)
    \/ Record \/ Resurface
    \/ \E p \in Path, c \in Content \cup {NoFile} : EditFile(p, c)
    \/ Clean \/ Forget

Spec == Init /\ [][Next]_vars
=============================================================================
