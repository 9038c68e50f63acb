------------------------------ MODULE SeqFilter ------------------------------
(* Filtering of a sequence as the loops of the code do it, one element after *)
(* the other.  SelectSeq would say the same to TLC, and nothing to a prover. *)
EXTENDS Naturals, Sequences

\* The elements of s outside the set X, in their order.
Outside(s, X) ==
    LET upTo[n \in 0..Len(s)] ==
            IF n = 0 THEN << >>
            ELSE IF s[n] \in X THEN upTo[n - 1] ELSE Append(upTo[n - 1], s[n])
    IN  upTo[Len(s)]
=============================================================================
