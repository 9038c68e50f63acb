----------------------------- MODULE MCGenWrite -----------------------------
(* Two paths and two generations: going from one to the other changes the   *)
(* content of p1 and makes p2 appear or disappear.                          *)
EXTENDS GenWrite

CONSTANTS p1, p2, c1, c2, hand

MCPath == {p1, p2}
MCContent == {c1, c2, hand}
MCHand == {hand}

One == [p \in MCPath |-> IF p = p1 THEN c1 ELSE NoFile]
Two == [p \in MCPath |-> c2]
MCGenerations == {One, Two}
=============================================================================
