-------------------------------- MODULE MCLock --------------------------------
(* One generated path, two digests, one version that cannot be written.    *)
EXTENDS Lock, SequencesExt

CONSTANTS model, migration1, d1, d2, v1, v2

MCGenerated == {model}
MCSums == {d1, d2}
MCVersion == {v1, v2}
MCSpaced == {v2}

MCInOrder(S) == SetToSeq(S)

\* Entries lapigo writes, in every combination of up to two lines, and what a
\* merge leaves beside them.
MCUserTexts ==
    LET entry == {<<"generated", s, model>> : s \in MCSums} \cup {<<"emitted-once", s, migration1>> : s \in MCSums}
    IN  UNION {[1..n -> entry \cup {Junk}] : n \in 0..2} \cup {Garbled}
===============================================================================
