-------------------------------- MODULE Suggest --------------------------------
(***************************************************************************)
(* suggest (internal/parse/suggest.go): the known key closest to an unknown *)
(* one, the distance to each computed a cell at a time in two rows that     *)
(* change places.                                                           *)
(***************************************************************************)
EXTENDS Naturals, Sequences

CONSTANTS
    Runes,              \* a word is a sequence of them
    Words,              \* what may be asked for or suggested
    Distance(_,_,_,_),  \* Distance(a, m, b, n): edits from a's first m runes to b's first n
    Less(_,_),          \* Go's < on strings
    Threshold,          \* suggestThreshold
    None

Least(a, b, c) == IF a <= b /\ a <= c THEN a ELSE IF b <= c THEN b ELSE c

ASSUME WordAssumption ==
    /\ Words \subseteq Seq(Runes)
    /\ Threshold \in Nat /\ None \notin Words
    /\ \A a, b \in Words : Less(a, b) \in BOOLEAN
    /\ \A a \in Words : ~Less(a, a)
    /\ \A a, b \in Words : a = b \/ Less(a, b) \/ Less(b, a)
    /\ \A a, b, c \in Words : Less(a, b) /\ Less(b, c) => Less(a, c)

\* What insertions, deletions and substitutions of one rune cost.
ASSUME DistanceAssumption ==
    \A a, b \in Words :
        /\ \A m \in 0..Len(a), n \in 0..Len(b) : Distance(a, m, b, n) \in Nat
        /\ \A m \in 0..Len(a) : Distance(a, m, b, 0) = m
        /\ \A n \in 0..Len(b) : Distance(a, 0, b, n) = n
        /\ \A m \in 1..Len(a), n \in 1..Len(b) :
               Distance(a, m, b, n) =
                   Least(Distance(a, m - 1, b, n) + 1, Distance(a, m, b, n - 1) + 1,
                         Distance(a, m - 1, b, n - 1) + (IF a[m] = b[n] THEN 0 ELSE 1))

VARIABLES
    pc,                 \* "asked" while suggest runs, "answered" when it has returned
    got, known, nth,    \* the word, the vocabulary in the order it came, the candidate
    prev, curr, i, j,   \* levenshtein's two rows and where it is in them
    best, bestDist

vars == <<pc, got, known, nth, prev, curr, i, j, best, bestDist>>
asked == <<got, known>>
table == <<prev, curr, i, j>>

Init ==
    /\ pc = "idle" /\ got = None /\ known = <<>> /\ nth = 1
    /\ prev = <<>> /\ curr = <<>> /\ i = 0 /\ j = 0 /\ best = None /\ bestDist = 0

\* The caller has set got' and known'.
Ask ==
    /\ pc = "idle" /\ pc' = "next"
    /\ got' \in Words /\ known' \in Seq(Words) /\ nth' = 1
    /\ best' = None /\ bestDist' = 0
    /\ prev' = <<>> /\ curr' = <<>> /\ i' = 0 /\ j' = 0

Candidate == known[nth]
Columns == 0..Len(Candidate)

Rows ==
    /\ pc = "next" /\ nth <= Len(known)
    /\ pc' = "cell" /\ i' = 1 /\ j' = 0
    /\ prev' = [n \in Columns |-> n] /\ curr' = [n \in Columns |-> 0]
    /\ UNCHANGED <<asked, nth, best, bestDist>>

\* Mutant: the row above is read where the row at hand should be.
CellFromAbove ==
    /\ pc = "cell" /\ i <= Len(got) /\ j <= Len(Candidate)
    /\ curr' = [curr EXCEPT ![j] =
                   IF j = 0 THEN i
                   ELSE Least(prev[j] + 1, prev[j - 1] + 1,
                              prev[j - 1] + (IF got[i] = Candidate[j] THEN 0 ELSE 1))]
    /\ j' = j + 1
    /\ UNCHANGED <<pc, asked, nth, prev, i, best, bestDist>>

Cell ==
    /\ pc = "cell" /\ i <= Len(got) /\ j <= Len(Candidate)
    /\ curr' = [curr EXCEPT ![j] =
                   IF j = 0 THEN i
                   ELSE Least(prev[j] + 1, curr[j - 1] + 1,
                              prev[j - 1] + (IF got[i] = Candidate[j] THEN 0 ELSE 1))]
    /\ j' = j + 1
    /\ UNCHANGED <<pc, asked, nth, prev, i, best, bestDist>>

Swap ==
    /\ pc = "cell" /\ i <= Len(got) /\ j > Len(Candidate)
    /\ prev' = curr /\ curr' = prev
    /\ i' = i + 1 /\ j' = 0
    /\ UNCHANGED <<pc, asked, nth, best, bestDist>>

\* Mutant: of two candidates as close, the one that came first.
CompareFirst ==
    /\ pc = "cell" /\ i > Len(got)
    /\ LET d == prev[Len(Candidate)] IN
       IF best = None \/ d < bestDist
       THEN best' = Candidate /\ bestDist' = d
       ELSE UNCHANGED <<best, bestDist>>
    /\ pc' = "next" /\ nth' = nth + 1
    /\ UNCHANGED <<asked, table>>

Compare ==
    /\ pc = "cell" /\ i > Len(got)
    /\ LET d == prev[Len(Candidate)] IN
       IF best = None \/ d < bestDist \/ (d = bestDist /\ Less(Candidate, best))
       THEN best' = Candidate /\ bestDist' = d
       ELSE UNCHANGED <<best, bestDist>>
    /\ pc' = "next" /\ nth' = nth + 1
    /\ UNCHANGED <<asked, table>>

Return ==
    /\ pc = "next" /\ nth > Len(known)
    /\ pc' = "answered"
    /\ best' = IF best = None \/ bestDist > Threshold THEN None ELSE best
    /\ UNCHANGED <<asked, nth, table, bestDist>>

Search == Rows \/ Cell \/ Swap \/ Compare \/ Return

\* The caller has used the answer.
Forget ==
    /\ pc = "answered" /\ pc' = "idle"
    /\ UNCHANGED <<asked, nth, table, best, bestDist>>

Next == Ask \/ Search \/ Forget
Spec == Init /\ [][Next]_vars

-----------------------------------------------------------------------------
(* Properties *)

EditDistance(a, b) == Distance(a, Len(a), b, Len(b))

SuggestTypeOK ==
    /\ pc \in {"idle", "next", "cell", "answered"}
    /\ got \in Words \cup {None} /\ known \in Seq(Words) /\ nth \in 1..(Len(known) + 1)
    /\ i \in Nat /\ j \in Nat /\ best \in Words \cup {None} /\ bestDist \in Nat
    /\ pc = "cell" => nth <= Len(known) /\ prev \in [Columns -> Nat] /\ curr \in [Columns -> Nat]

\* levenshtein: for all the reuse of its rows, what it returns is the number of
\* edits between the two words.
DistanceIsLeast ==
    pc = "cell" /\ i > Len(got) => prev[Len(Candidate)] = EditDistance(got, Candidate)

\* suggest: the answer depends on which words are known and not on their order:
\* it is the first, as Go orders strings, of the closest ones, and there is none
\* only if every known word is beyond the threshold.
Closer(a, b) ==
    \/ EditDistance(got, a) < EditDistance(got, b)
    \/ EditDistance(got, a) = EditDistance(got, b) /\ Less(a, b)

ClosestNamed ==
    pc = "answered" =>
        IF best = None
        THEN \A n \in DOMAIN known : EditDistance(got, known[n]) > Threshold
        ELSE /\ \E n \in DOMAIN known : known[n] = best
             /\ EditDistance(got, best) <= Threshold
             /\ \A n \in DOMAIN known : known[n] = best \/ Closer(best, known[n])
===============================================================================
