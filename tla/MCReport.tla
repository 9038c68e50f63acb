------------------------------- MODULE MCReport -------------------------------
(* Two runes for keys, one of them not printed as it is; a third only      *)
(* known keys have.                                                         *)
EXTENDS Report

CONSTANTS a, b, odd, space

MCRunes == {a, b, odd}
MCLetters == {a, odd}
MCOdd == {odd, BOM}

MCVocabulary == {<<a>>, <<b>>, <<a, b>>}
MCOrders == {<<<<a>>, <<b>>, <<a, b>>>>, <<<<a, b>>, <<b>>, <<a>>>>, <<<<a, b>>>>}

UpTo(S, n) == UNION {[1..x -> S] : x \in 0..n}

MCWords == MCVocabulary \cup (UpTo(MCLetters, 4) \ {<<>>})

\* Short files of everything, longer ones of tabs and line breaks, both with
\* and without a byte-order mark.
MCTexts ==
    LET plain == UpTo({a, odd, space, Tab, LF, CR}, 4) \cup UpTo({Tab, LF, CR}, 6)
    IN  plain \cup {<<BOM>> \o t : t \in plain}

\* The cheapest way to keep or substitute some runes of one word, in order, for
\* as many of the other, to delete the rest and to insert the rest.
MCDistance(u, m, v, n) ==
    LET below(S, x) == Cardinality({y \in S : y < x})
        partner(X, Y, x) == CHOOSE y \in Y : below(Y, y) = below(X, x)
        cost(X, Y) == (m - Cardinality(X)) + (n - Cardinality(Y))
                          + Cardinality({x \in X : u[x] # v[partner(X, Y, x)]})
    IN  Min(UNION {{cost(X, Y) : Y \in kSubset(Cardinality(X), 1..n)} : X \in SUBSET (1..m)})

\* Byte order, a before b before the odd rune, a prefix before what it begins.
MCLess(u, v) ==
    LET rank(r) == CASE r = a -> 1 [] r = b -> 2 [] r = odd -> 3
        same(n) == \A x \in 1..n : u[x] = v[x]
    IN  \E n \in 0..Len(u) :
            /\ n < Len(v) /\ same(n)
            /\ n < Len(u) => rank(u[n + 1]) < rank(v[n + 1])
===============================================================================
