----------------------------- MODULE ReportProofs -----------------------------
(* Theorems about Suggest and Report: for every word and vocabulary, and for   *)
(* every text, every order of the walk and every set of complaints.            *)
EXTENDS Report, DataLemmas

-----------------------------------------------------------------------------
(* suggest *)

(* The invariant: the rows hold distances of prefixes, the row at hand as   *)
(* far as it is filled, and best is the closest of the candidates seen.     *)

RowsInv ==
    pc = "cell" =>
        /\ i \in 1..(Len(got) + 1) /\ j \in 0..(Len(Candidate) + 1)
        /\ \A n \in Columns : prev[n] = Distance(got, i - 1, Candidate, n)
        /\ i <= Len(got) => \A n \in Columns : n < j => curr[n] = Distance(got, i, Candidate, n)

BestInv ==
    pc \in {"next", "cell"} =>
        IF best = None THEN nth = 1
        ELSE /\ \E n \in 1..(nth - 1) : known[n] = best
             /\ bestDist = EditDistance(got, best)
             /\ \A n \in 1..(nth - 1) : known[n] = best \/ Closer(best, known[n])

SuggestInv ==
    /\ SuggestTypeOK /\ RowsInv /\ BestInv /\ ClosestNamed
    /\ pc # "idle" => got \in Words

LEMMA LengthIsNat == \A a \in Words : Len(a) \in Nat
BY WordAssumption

LEMMA DistanceIsNat == \A a, b \in Words : EditDistance(a, b) \in Nat
BY DistanceAssumption, LengthIsNat DEF EditDistance

(* Closer is a strict order on the words. *)
LEMMA CloserOrder ==
    ASSUME NEW a \in Words, NEW b \in Words, NEW c \in Words, got \in Words
    PROVE  /\ Closer(a, b) /\ Closer(b, c) => Closer(a, c)
           /\ a = b \/ Closer(a, b) \/ Closer(b, a)
<1>1. EditDistance(got, a) \in Nat /\ EditDistance(got, b) \in Nat /\ EditDistance(got, c) \in Nat
  BY DistanceIsNat
<1>2. Less(a, b) /\ Less(b, c) => Less(a, c)
  BY WordAssumption
<1>3. a = b \/ Less(a, b) \/ Less(b, a)
  BY WordAssumption
<1> HIDE DEF EditDistance
<1> QED
  BY <1>1, <1>2, <1>3 DEF Closer

LEMMA CandidateIsWord ==
    ASSUME SuggestInv, nth <= Len(known)
    PROVE  nth \in DOMAIN known /\ Candidate \in Words /\ Len(Candidate) \in Nat
<1>1. known \in Seq(Words) /\ nth \in 1..(Len(known) + 1)
  BY DEF SuggestInv, SuggestTypeOK
<1>2. nth \in DOMAIN known /\ known[nth] \in Words
  BY <1>1
<1> QED
  BY <1>2, LengthIsNat DEF Candidate

LEMMA InitSuggestInv == Init => SuggestInv
<1> SUFFICES ASSUME Init PROVE SuggestInv
  OBVIOUS
<1>1. SuggestTypeOK
  BY DEF Init, SuggestTypeOK
<1> QED
  BY <1>1 DEF Init, SuggestInv, RowsInv, BestInv, ClosestNamed

LEMMA AskStep == ASSUME SuggestInv, Ask PROVE SuggestInv'
<1>1. SuggestTypeOK'
  <2>1. nth' = 1 /\ known' \in Seq(Words) /\ 1 \in 1..(Len(known') + 1)
    BY DEF Ask
  <2> QED
    BY <2>1 DEF Ask, SuggestTypeOK
<1>2. RowsInv' /\ BestInv' /\ ClosestNamed' /\ got' \in Words
  BY DEF Ask, RowsInv, BestInv, ClosestNamed
<1> QED
  BY <1>1, <1>2 DEF SuggestInv

LEMMA RowsStep == ASSUME SuggestInv, Rows PROVE SuggestInv'
<1>1. nth \in DOMAIN known /\ Candidate \in Words /\ Len(Candidate) \in Nat
  BY CandidateIsWord DEF Rows
<1>2. got \in Words /\ Len(got) \in Nat
  BY LengthIsNat DEF SuggestInv, Rows
<1>3. Candidate' = Candidate /\ Columns' = Columns
  BY DEF Rows, Candidate, Columns, asked
<1>4. prev' \in [Columns -> Nat] /\ curr' \in [Columns -> Nat]
  BY <1>1 DEF Rows, Columns
<1>5. SuggestTypeOK'
  BY <1>3, <1>4 DEF SuggestInv, SuggestTypeOK, Rows, asked
<1>6. \A n \in Columns : Distance(got, 0, Candidate, n) = n
  BY <1>1, <1>2, DistanceAssumption DEF Columns
<1>7. RowsInv'
  <2>1. i' = 1 /\ j' = 0 /\ got' = got /\ \A n \in Columns : prev'[n] = n
    BY DEF Rows, asked
  <2>2. i' \in 1..(Len(got') + 1) /\ j' \in 0..(Len(Candidate') + 1)
    BY <1>1, <1>2, <1>3, <2>1
  <2>3. i' - 1 = 0
    BY <2>1
  <2>4. \A n \in Columns' : prev'[n] = Distance(got', i' - 1, Candidate', n)
    BY <1>3, <1>6, <2>1, <2>3
  <2>5. \A n \in Columns' : ~(n < j')
    BY <1>1, <1>3, <2>1 DEF Columns
  <2> QED
    BY <2>2, <2>4, <2>5 DEF RowsInv
<1>8. BestInv' /\ ClosestNamed'
  BY DEF SuggestInv, BestInv, ClosestNamed, Rows, asked, Closer, EditDistance
<1> QED
  BY <1>2, <1>5, <1>7, <1>8 DEF SuggestInv, Rows, asked

LEMMA CellStep == ASSUME SuggestInv, Cell PROVE SuggestInv'
<1> DEFINE value == IF j = 0 THEN i
                    ELSE Least(prev[j] + 1, curr[j - 1] + 1,
                               prev[j - 1] + (IF got[i] = Candidate[j] THEN 0 ELSE 1))
<1>1. pc = "cell" /\ i <= Len(got) /\ j <= Len(Candidate) /\ nth <= Len(known)
      /\ curr' = [curr EXCEPT ![j] = value] /\ j' = j + 1
      /\ UNCHANGED <<pc, got, known, nth, prev, i, best, bestDist>>
  BY DEF Cell, SuggestInv, SuggestTypeOK, asked
<1>2. nth \in DOMAIN known /\ Candidate \in Words /\ Len(Candidate) \in Nat
  BY <1>1, CandidateIsWord
<1>3. got \in Words /\ Len(got) \in Nat
  BY <1>1, LengthIsNat DEF SuggestInv
<1>4. Candidate' = Candidate /\ Columns' = Columns
  BY <1>1 DEF Candidate, Columns
<1>5. i \in 1..Len(got) /\ j \in Columns /\ prev \in [Columns -> Nat] /\ curr \in [Columns -> Nat]
  BY <1>1, <1>2, <1>3 DEF SuggestInv, SuggestTypeOK, RowsInv, Columns
<1>6. value = Distance(got, i, Candidate, j)
  <2>1. CASE j = 0
    BY <1>2, <1>3, <1>5, <2>1, DistanceAssumption
  <2>2. CASE j # 0
    <3>1. j \in 1..Len(Candidate) /\ j - 1 \in Columns /\ j - 1 < j
      BY <1>2, <1>5, <2>2 DEF Columns
    <3>2. /\ prev[j] = Distance(got, i - 1, Candidate, j)
          /\ prev[j - 1] = Distance(got, i - 1, Candidate, j - 1)
          /\ curr[j - 1] = Distance(got, i, Candidate, j - 1)
      BY <1>1, <1>5, <3>1 DEF SuggestInv, RowsInv
    <3>3. Distance(got, i, Candidate, j) =
              Least(Distance(got, i - 1, Candidate, j) + 1, Distance(got, i, Candidate, j - 1) + 1,
                    Distance(got, i - 1, Candidate, j - 1) + (IF got[i] = Candidate[j] THEN 0 ELSE 1))
      BY <1>2, <1>3, <1>5, <3>1, DistanceAssumption
    <3> QED
      BY <2>2, <3>2, <3>3
  <2> QED
    BY <2>1, <2>2
<1>7. value \in Nat
  BY <1>2, <1>3, <1>5, <1>6, DistanceAssumption DEF Columns
<1> HIDE DEF value
<1>8. curr' \in [Columns -> Nat]
  BY <1>1, <1>5, <1>7
<1>9. SuggestTypeOK'
  BY <1>1, <1>2, <1>4, <1>5, <1>8 DEF SuggestInv, SuggestTypeOK, Columns
<1>10. \A n \in Columns : n < j + 1 => curr'[n] = Distance(got, i, Candidate, n)
  <2> SUFFICES ASSUME NEW n \in Columns, n < j + 1 PROVE curr'[n] = Distance(got, i, Candidate, n)
    OBVIOUS
  <2>1. CASE n = j
    BY <1>1, <1>5, <1>6, <2>1
  <2>2. CASE n # j
    <3>1. n < j
      BY <1>2, <1>5, <2>2 DEF Columns
    <3> QED
      BY <1>1, <1>5, <2>2, <3>1 DEF SuggestInv, RowsInv
  <2> QED
    BY <2>1, <2>2
<1>11. RowsInv'
  <2>1. j' \in 0..(Len(Candidate) + 1)
    BY <1>1, <1>2, <1>5 DEF Columns
  <2> QED
    BY <1>1, <1>4, <1>10, <2>1 DEF SuggestInv, RowsInv
<1>12. BestInv' /\ ClosestNamed'
  BY <1>1 DEF SuggestInv, BestInv, ClosestNamed, Closer, EditDistance
<1> QED
  BY <1>1, <1>3, <1>9, <1>11, <1>12 DEF SuggestInv

LEMMA SwapStep == ASSUME SuggestInv, Swap PROVE SuggestInv'
<1>1. pc = "cell" /\ i <= Len(got) /\ j > Len(Candidate) /\ nth <= Len(known)
      /\ prev' = curr /\ curr' = prev /\ i' = i + 1 /\ j' = 0
      /\ UNCHANGED <<pc, got, known, nth, best, bestDist>>
  BY DEF Swap, SuggestInv, SuggestTypeOK, asked
<1>2. nth \in DOMAIN known /\ Candidate \in Words /\ Len(Candidate) \in Nat
  BY <1>1, CandidateIsWord
<1>3. got \in Words /\ Len(got) \in Nat
  BY <1>1, LengthIsNat DEF SuggestInv
<1>4. Candidate' = Candidate /\ Columns' = Columns
  BY <1>1 DEF Candidate, Columns
<1>5. i \in 1..Len(got)
  BY <1>1, <1>3 DEF SuggestInv, RowsInv
<1>6. SuggestTypeOK'
  BY <1>1, <1>4, <1>5 DEF SuggestInv, SuggestTypeOK
<1>7. \A n \in Columns : curr[n] = Distance(got, i, Candidate, n)
  <2>1. \A n \in Columns : n < j
    BY <1>1, <1>2 DEF Columns, SuggestInv, SuggestTypeOK
  <2> QED
    BY <1>1, <2>1 DEF SuggestInv, RowsInv
<1>8. RowsInv'
  <2>1. i' \in 1..(Len(got) + 1) /\ j' \in 0..(Len(Candidate) + 1) /\ i' - 1 = i
    BY <1>1, <1>2, <1>3, <1>5
  <2>2. \A n \in Columns : ~(n < j')
    BY <1>1, <1>2 DEF Columns
  <2> QED
    BY <1>1, <1>4, <1>7, <2>1, <2>2 DEF RowsInv
<1>9. BestInv' /\ ClosestNamed'
  BY <1>1 DEF SuggestInv, BestInv, ClosestNamed, Closer, EditDistance
<1> QED
  BY <1>1, <1>3, <1>6, <1>8, <1>9 DEF SuggestInv

LEMMA CompareStep == ASSUME SuggestInv, Compare PROVE SuggestInv'
<1> DEFINE d == prev[Len(Candidate)]
           better == best = None \/ d < bestDist \/ (d = bestDist /\ Less(Candidate, best))
<1>1. pc = "cell" /\ i > Len(got) /\ nth <= Len(known) /\ pc' = "next" /\ nth' = nth + 1
      /\ UNCHANGED <<got, known, prev, curr, i, j>>
  BY DEF Compare, SuggestInv, SuggestTypeOK, asked, table
<1>1a. better => best' = Candidate /\ bestDist' = d
  BY DEF Compare
<1>1b. ~better => best' = best /\ bestDist' = bestDist
  BY DEF Compare
<1>2. nth \in DOMAIN known /\ Candidate \in Words /\ Len(Candidate) \in Nat /\ Candidate = known[nth]
  BY <1>1, CandidateIsWord DEF Candidate
<1>3. got \in Words /\ Len(got) \in Nat
  BY <1>1, LengthIsNat DEF SuggestInv
<1>4. known \in Seq(Words) /\ nth \in 1..Len(known) /\ best \in Words \cup {None} /\ bestDist \in Nat
  BY <1>1 DEF SuggestInv, SuggestTypeOK
<1>5. d = EditDistance(got, Candidate) /\ d \in Nat
  <2>1. i - 1 = Len(got) /\ Len(Candidate) \in Columns
    BY <1>1, <1>2, <1>3 DEF SuggestInv, RowsInv, Columns
  <2>2. d = Distance(got, i - 1, Candidate, Len(Candidate))
    BY <1>1, <2>1 DEF SuggestInv, RowsInv
  <2> QED
    BY <1>2, <1>3, <2>1, <2>2, DistanceIsNat DEF EditDistance
<1> HIDE DEF d
<1>6. SuggestTypeOK'
  <2>1. nth' \in 1..(Len(known') + 1)
    BY <1>1, <1>4
  <2>2. best' \in Words \cup {None} /\ bestDist' \in Nat
    <3>1. \/ best' = Candidate /\ bestDist' = d
          \/ best' = best /\ bestDist' = bestDist
      BY <1>1a, <1>1b
    <3> QED
      BY <1>2, <1>4, <1>5, <3>1
  <2>3. pc' = "next" /\ got' = got /\ known' = known /\ i' = i /\ j' = j
    BY <1>1
  <2>4. got \in Words /\ i \in Nat /\ j \in Nat
    BY <1>3 DEF SuggestInv, SuggestTypeOK
  <2> QED
    BY <1>4, <2>1, <2>2, <2>3, <2>4 DEF SuggestTypeOK
<1>7. RowsInv' /\ ClosestNamed'
  BY <1>1 DEF RowsInv, ClosestNamed
<1>8. \A n \in 1..(nth - 1) : known[n] \in Words
  BY <1>4
<1>9. nth' - 1 = nth /\ \A n \in 1..nth : n \in 1..(nth - 1) \/ n = nth
  BY <1>1, <1>4
<1>10. None \notin Words
  BY WordAssumption
<1>11. CASE better
  <2>1. best' = Candidate /\ bestDist' = EditDistance(got, Candidate)
    BY <1>1a, <1>5, <1>11
  <2>2. ASSUME NEW n \in 1..(nth - 1) PROVE known[n] = Candidate \/ Closer(Candidate, known[n])
    <3>1. best # None /\ bestDist = EditDistance(got, best) /\ best \in Words
          /\ (known[n] = best \/ Closer(best, known[n]))
      BY <1>1, <1>4, <2>2 DEF SuggestInv, BestInv
    <3>2. Closer(Candidate, best)
      BY <1>5, <1>11, <3>1 DEF Closer
    <3> QED
      BY <1>2, <1>3, <1>8, <3>1, <3>2, CloserOrder
  <2>3. \A n \in 1..nth : known[n] = best' \/ Closer(best', known[n])
    BY <1>2, <1>9, <2>1, <2>2
  <2>4. \E n \in 1..nth : known[n] = best'
    BY <1>2, <1>4, <2>1
  <2>5. best' # None
    BY <1>2, <1>10, <2>1
  <2>6. BestInv'
    BY <1>1, <1>9, <2>1, <2>3, <2>4, <2>5 DEF BestInv, Closer, EditDistance
  <2> QED
    BY <1>1, <1>3, <1>6, <1>7, <2>6 DEF SuggestInv
<1>12. CASE ~better
  <2>1. best # None /\ best \in Words /\ best' = best /\ bestDist' = bestDist
    BY <1>1, <1>1b, <1>4, <1>12
  <2>2. /\ \E n \in 1..(nth - 1) : known[n] = best
        /\ bestDist = EditDistance(got, best)
        /\ \A n \in 1..(nth - 1) : known[n] = best \/ Closer(best, known[n])
    BY <1>1, <2>1 DEF SuggestInv, BestInv
  <2>3. Candidate = best \/ Closer(best, Candidate)
    <3>1. ~(d < bestDist) /\ ~(d = bestDist /\ Less(Candidate, best))
      BY <1>12
    <3>2. Candidate = best \/ Less(Candidate, best) \/ Less(best, Candidate)
      BY <1>2, <2>1, WordAssumption
    <3> QED
      BY <1>4, <1>5, <2>2, <3>1, <3>2 DEF Closer
  <2>4. \A n \in 1..nth : known[n] = best \/ Closer(best, known[n])
    BY <1>2, <1>9, <2>2, <2>3
  <2>5. \E n \in 1..nth : known[n] = best
    BY <1>4, <2>2
  <2>6. BestInv'
    BY <1>1, <1>9, <2>1, <2>2, <2>4, <2>5 DEF BestInv, Closer, EditDistance
  <2> QED
    BY <1>1, <1>3, <1>6, <1>7, <2>6 DEF SuggestInv
<1> QED
  BY <1>11, <1>12

LEMMA ReturnStep == ASSUME SuggestInv, Return PROVE SuggestInv'
<1>1. pc = "next" /\ nth > Len(known) /\ pc' = "answered"
      /\ best' = (IF best = None \/ bestDist > Threshold THEN None ELSE best)
      /\ UNCHANGED <<got, known, nth, prev, curr, i, j, bestDist>>
  BY DEF Return, asked, table
<1>2. known \in Seq(Words) /\ nth = Len(known) + 1 /\ got \in Words /\ Len(known) \in Nat
      /\ best \in Words \cup {None} /\ bestDist \in Nat
  BY <1>1 DEF SuggestInv, SuggestTypeOK
<1>3. 1..(nth - 1) = DOMAIN known
  BY <1>2
<1>4. SuggestTypeOK'
  BY <1>1, <1>2 DEF SuggestInv, SuggestTypeOK
<1>5. RowsInv' /\ BestInv'
  BY <1>1 DEF RowsInv, BestInv
<1>6. ClosestNamed'
  <2>1. CASE best = None
    <3>1. DOMAIN known = {}
      BY <1>1, <1>2, <2>1 DEF SuggestInv, BestInv
    <3> QED
      BY <1>1, <2>1, <3>1 DEF ClosestNamed
  <2>2. CASE best # None
    <3>1. /\ \E n \in DOMAIN known : known[n] = best
          /\ bestDist = EditDistance(got, best)
          /\ \A n \in DOMAIN known : known[n] = best \/ Closer(best, known[n])
      BY <1>1, <1>3, <2>2 DEF SuggestInv, BestInv
    <3>2. \A n \in DOMAIN known : EditDistance(got, known[n]) \in Nat
      BY <1>2, DistanceIsNat
    <3>3. \A n \in DOMAIN known : EditDistance(got, known[n]) >= bestDist
      <4> SUFFICES ASSUME NEW n \in DOMAIN known PROVE EditDistance(got, known[n]) >= bestDist
        OBVIOUS
      <4>1. CASE known[n] = best
        BY <1>2, <3>1, <4>1
      <4>2. CASE Closer(best, known[n])
        BY <1>2, <3>1, <3>2, <4>2 DEF Closer
      <4> QED
        BY <3>1, <4>1, <4>2
    <3>4. CASE bestDist > Threshold
      <4>1. best' = None
        BY <1>1, <3>4
      <4>2. \A n \in DOMAIN known : EditDistance(got, known[n]) > Threshold
        BY <1>2, <3>2, <3>3, <3>4, WordAssumption
      <4> QED
        BY <1>1, <4>1, <4>2 DEF ClosestNamed, EditDistance
    <3>5. CASE ~(bestDist > Threshold)
      <4>1. best' = best /\ EditDistance(got, best) <= Threshold
        BY <1>1, <1>2, <2>2, <3>1, <3>5, WordAssumption
      <4> QED
        BY <1>1, <2>2, <3>1, <4>1 DEF ClosestNamed, Closer, EditDistance
    <3> QED
      BY <3>4, <3>5
  <2> QED
    BY <2>1, <2>2
<1> QED
  BY <1>1, <1>2, <1>4, <1>5, <1>6 DEF SuggestInv

LEMMA NextSuggestInv == SuggestInv /\ [Next]_vars => SuggestInv'
<1> SUFFICES ASSUME SuggestInv, [Next]_vars PROVE SuggestInv'
  OBVIOUS
<1>1. CASE Search
  BY <1>1, RowsStep, CellStep, SwapStep, CompareStep, ReturnStep DEF Search
<1>2. CASE Forget
  <2>1. pc = "answered" /\ pc' = "idle" /\ UNCHANGED <<got, known, nth, prev, curr, i, j, best, bestDist>>
    BY <1>2 DEF Forget, asked, table
  <2>2. SuggestTypeOK'
    BY <2>1 DEF SuggestInv, SuggestTypeOK
  <2> QED
    BY <2>1, <2>2 DEF SuggestInv, RowsInv, BestInv, ClosestNamed
<1>3. CASE UNCHANGED vars
  <2>1. UNCHANGED <<pc, got, known, nth, prev, curr, i, j, best, bestDist>>
    BY <1>3 DEF vars
  <2>2. SuggestTypeOK'
    BY <2>1 DEF SuggestInv, SuggestTypeOK, Columns, Candidate
  <2>3. RowsInv' /\ BestInv' /\ ClosestNamed'
    BY <2>1 DEF SuggestInv, RowsInv, BestInv, ClosestNamed, Closer, EditDistance, Columns, Candidate
  <2> QED
    BY <2>1, <2>2, <2>3 DEF SuggestInv
<1> QED
  BY <1>1, <1>2, <1>3, AskStep DEF Next

(* The invariant of suggest, asked again and again. *)
THEOREM SuggestInvariance == Spec => []SuggestInv
<1> QED
  BY InitSuggestInv, NextSuggestInv, PTL DEF Spec

(* The types of suggest's state. *)
THEOREM SuggestTypeCorrect == Spec => []SuggestTypeOK
<1>1. SuggestInv => SuggestTypeOK
  BY DEF SuggestInv
<1> QED
  BY <1>1, SuggestInvariance, PTL

(* levenshtein, suggest.go 62-91: the two rows, swapped and filled again,   *)
(* come out as the distance between the words.                              *)
THEOREM LoopComputesDistance == Spec => []DistanceIsLeast
<1>1. SuggestInv => DistanceIsLeast
  <2> SUFFICES ASSUME SuggestInv, pc = "cell", i > Len(got)
      PROVE  prev[Len(Candidate)] = EditDistance(got, Candidate)
    BY DEF DistanceIsLeast
  <2>1. nth <= Len(known) /\ got \in Words
    BY DEF SuggestInv, SuggestTypeOK
  <2>2. Len(Candidate) \in Nat /\ Len(got) \in Nat
    BY <2>1, CandidateIsWord, LengthIsNat
  <2>3. i - 1 = Len(got) /\ Len(Candidate) \in Columns
    BY <2>2 DEF SuggestInv, RowsInv, Columns
  <2> QED
    BY <2>3 DEF SuggestInv, RowsInv, EditDistance
<1> QED
  BY <1>1, SuggestInvariance, PTL

(* suggest, suggest.go 39-55: the answer is the first of the closest known  *)
(* words, or none when all are too far, in whatever order they come.        *)
THEOREM SuggestsClosest == Spec => []ClosestNamed
<1>1. SuggestInv => ClosestNamed
  BY DEF SuggestInv
<1> QED
  BY <1>1, SuggestInvariance, PTL

-----------------------------------------------------------------------------
(* The lines of a text *)

LEMMA LineEndFacts ==
    ASSUME NEW S, NEW s \in Seq(S), NEW p \in 1..(Len(s) + 1)
    PROVE  /\ LineEnd(s, p) \in p..(Len(s) + 1)
           /\ \A q \in p..(LineEnd(s, p) - 1) : s[q] \notin {LF, CR}
           /\ LineEnd(s, p) <= Len(s) => s[LineEnd(s, p)] \in {LF, CR}
<1> DEFINE n == Len(s)
           T == {q \in p..n : s[q] \in {LF, CR}} \cup {n + 1}
           e == LineEnd(s, p)
<1>1. n \in Nat /\ T \in SUBSET Nat /\ T # {} /\ e = Min(T)
  BY DEF LineEnd
<1>2. /\ \A x \in T : x \in p..(n + 1) /\ (x <= n => s[x] \in {LF, CR})
      /\ \A q \in p..n : q \notin T => s[q] \notin {LF, CR}
  OBVIOUS
<1> HIDE DEF T, e, n
<1>3. e \in T /\ \A x \in T : e <= x
  BY <1>1, MinIsLeast
<1>4. e \in p..(n + 1) /\ (e <= n => s[e] \in {LF, CR})
  BY <1>2, <1>3
<1>5. \A q \in p..(e - 1) : q \in p..n /\ q \notin T
  BY <1>1, <1>3, <1>4
<1> QED
  BY <1>2, <1>4, <1>5 DEF n, e

LEMMA AfterBreakFacts ==
    ASSUME NEW S, NEW s \in Seq(S), NEW q \in 1..Len(s)
    PROVE  AfterBreak(s, q) \in (q + 1)..(Len(s) + 1)
BY DEF AfterBreak

StartsStep(s, p, f) ==
    IF LineEnd(s, p) > Len(s) THEN <<p>> ELSE <<p>> \o f[AfterBreak(s, LineEnd(s, p))]

(* The break that ends a line, and what comes after it, lie behind its start. *)
LEMMA Onwards ==
    ASSUME NEW S, NEW s \in Seq(S), NEW p \in 1..(Len(s) + 1), ~(LineEnd(s, p) > Len(s))
    PROVE  /\ LineEnd(s, p) \in 1..Len(s)
           /\ AfterBreak(s, LineEnd(s, p)) \in (p + 1)..(Len(s) + 1)
<1> DEFINE e == LineEnd(s, p)
<1>1. e \in p..(Len(s) + 1) /\ Len(s) \in Nat
  BY LineEndFacts
<1> HIDE DEF e
<1>2. e \in 1..Len(s)
  BY <1>1 DEF e
<1>3. AfterBreak(s, e) \in (e + 1)..(Len(s) + 1)
  BY <1>2, AfterBreakFacts
<1> QED
  BY <1>1, <1>2, <1>3 DEF e

LEMMA StartsExist ==
    ASSUME NEW S, NEW s \in Seq(S)
    PROVE  \E f : f = [p \in 1..(Len(s) + 1) |-> StartsStep(s, p, f)]
<1> DEFINE n == Len(s)
           Good(m) == \E f : f = [p \in (n + 1 - m)..(n + 1) |-> StartsStep(s, p, f)]
           T == {m \in 0..n : Good(m)}
<1>0. n \in Nat
  OBVIOUS
<1>1. 0 \in T
  <2> DEFINE f == [p \in (n + 1 - 0)..(n + 1) |-> <<p>>]
  <2>1. \A p \in (n + 1 - 0)..(n + 1) : StartsStep(s, p, f) = <<p>>
    <3> SUFFICES ASSUME NEW p \in (n + 1 - 0)..(n + 1) PROVE StartsStep(s, p, f) = <<p>>
      OBVIOUS
    <3>1. p = n + 1 /\ p \in 1..(n + 1)
      BY <1>0
    <3>2. LineEnd(s, p) > n
      <4>1. LineEnd(s, p) \in p..(n + 1)
        BY <3>1, LineEndFacts
      <4> QED
        BY <3>1, <4>1
    <3> HIDE DEF f
    <3> QED
      BY <3>2 DEF StartsStep
  <2>2. f = [p \in (n + 1 - 0)..(n + 1) |-> StartsStep(s, p, f)]
    <3> HIDE DEF n
    <3> QED
      BY <2>1
  <2>3. Good(0)
    BY <2>2
  <2> QED
    BY <2>3, <1>0
<1>2. ASSUME NEW m \in 0..n, m < n, m \in T PROVE m + 1 \in T
  <2> DEFINE a == n + 1 - m
             b == n + 1 - (m + 1)
  <2>0. a \in 2..(n + 1) /\ b = a - 1 /\ b \in 1..n
    BY <1>0, <1>2
  <2>1. PICK f : f = [p \in a..(n + 1) |-> StartsStep(s, p, f)]
    BY <1>2
  <2> HIDE DEF n, a, b
  <2> DEFINE g == [p \in b..(n + 1) |-> IF p >= a THEN f[p] ELSE StartsStep(s, b, f)]
  <2>2. ASSUME NEW p \in b..(n + 1) PROVE g[p] = StartsStep(s, p, g)
    <3>0. p \in 1..(n + 1)
      BY <2>0, <1>0
    <3>1. g[p] = StartsStep(s, p, f)
      <4>1. CASE p >= a
        <5>1. g[p] = f[p] /\ p \in a..(n + 1)
          BY <4>1, <2>0, <1>0
        <5> QED
          BY <5>1, <2>1
      <4>2. CASE ~(p >= a)
        <5>1. p = b
          BY <4>2, <2>0, <1>0
        <5> QED
          BY <4>2, <5>1
      <4> QED
        BY <4>1, <4>2
    <3>2. ASSUME ~(LineEnd(s, p) > n)
          PROVE  g[AfterBreak(s, LineEnd(s, p))] = f[AfterBreak(s, LineEnd(s, p))]
      <4> DEFINE q == AfterBreak(s, LineEnd(s, p))
      <4>1. q \in (p + 1)..(n + 1)
        BY <3>0, <3>2, Onwards DEF n
      <4> HIDE DEF q
      <4>2. q \in b..(n + 1) /\ q >= a
        BY <4>1, <3>0, <2>0, <1>0
      <4>3. g[q] = f[q]
        BY <4>2
      <4> QED
        BY <4>3 DEF q
    <3> HIDE DEF g
    <3> QED
      BY <3>1, <3>2 DEF StartsStep, n
  <2>3. g = [p \in b..(n + 1) |-> g[p]]
    OBVIOUS
  <2> HIDE DEF g
  <2>4. g = [p \in b..(n + 1) |-> StartsStep(s, p, g)]
    BY <2>2, <2>3
  <2>5. Good(m + 1)
    BY <2>4 DEF b
  <2> QED
    BY <2>5, <1>0, <1>2
<1> HIDE DEF T, Good
<1>3. 0..n \subseteq T
  <2> HIDE DEF n
  <2> QED
    BY <1>0, <1>1, <1>2, UpToByInduction
<1>4. Good(n) /\ n + 1 - n = 1
  BY <1>0, <1>3 DEF T
<1> QED
  BY <1>4 DEF Good

(* Line k of a text runs from its start to just before its end, which is a   *)
(* break or the end of the text; the next line begins after that break.      *)
StartOf(s, k) == LineStarts(s)[k]
EndOf(s, k) == LineEnd(s, StartOf(s, k))
Count(s) == Len(LineStarts(s))

Chained(s, p, c) ==
    /\ c \in Seq(1..(Len(s) + 1)) /\ Len(c) >= 1 /\ c[1] = p
    /\ \A k \in 1..(Len(c) - 1) : LineEnd(s, c[k]) <= Len(s) /\ c[k + 1] = AfterBreak(s, LineEnd(s, c[k]))
    /\ LineEnd(s, c[Len(c)]) > Len(s)

LEMMA StartsChained ==
    ASSUME NEW S, NEW s \in Seq(S)
    PROVE  Chained(s, 1, LineStarts(s))
<1> DEFINE n == Len(s)
           f == CHOOSE f : f = [p \in 1..(n + 1) |-> StartsStep(s, p, f)]
<1>0. n \in Nat
  OBVIOUS
<1>1. f = [p \in 1..(n + 1) |-> StartsStep(s, p, f)]
  BY StartsExist
<1>2. LineStarts(s) = f[1]
  BY DEF LineStarts, StartsStep
<1> HIDE DEF f
<1>3. \A p \in 1..(n + 1) : f[p] = StartsStep(s, p, f)
  <2> HIDE DEF n
  <2> QED
    BY <1>1
<1> DEFINE T == {m \in 0..n : \A p \in (n + 1 - m)..(n + 1) : Chained(s, p, f[p])}
<1>4. ASSUME NEW p \in 1..(n + 1), \A q \in (p + 1)..(n + 1) : Chained(s, q, f[q])
      PROVE  Chained(s, p, f[p])
  <2> DEFINE e == LineEnd(s, p)
  <2>1. CASE e > n
    <3>1. f[p] = <<p>>
      BY <2>1, <1>3 DEF StartsStep
    <3> DEFINE c == <<p>>
    <3>2. c \in Seq(1..(n + 1)) /\ Len(c) = 1 /\ c[1] = p
      OBVIOUS
    <3> HIDE DEF c, e, n
    <3>3. Chained(s, p, c)
      BY <3>2, <2>1 DEF Chained, e, n
    <3> QED
      BY <3>1, <3>3 DEF c
  <2>2. CASE ~(e > n)
    <3> DEFINE q == AfterBreak(s, e)
               c == f[q]
               d == <<p>> \o c
    <3>1. f[p] = d
      BY <2>2, <1>3 DEF StartsStep
    <3>2. q \in (p + 1)..(n + 1) /\ e \in Nat
      BY <2>2, Onwards
    <3>3. Chained(s, q, c)
      BY <1>4, <3>2
    <3> HIDE DEF c, q, e, n
    <3>4. c \in Seq(1..(n + 1)) /\ Len(c) \in Nat /\ Len(c) >= 1 /\ c[1] = q
      BY <3>3 DEF Chained, n
    <3>5. /\ d \in Seq(1..(n + 1)) /\ Len(d) = Len(c) + 1 /\ d[1] = p
          /\ \A k \in 1..Len(c) : d[k + 1] = c[k]
      BY <3>4, Prepending
    <3> HIDE DEF d
    <3>6. ASSUME NEW k \in 1..(Len(d) - 1)
          PROVE  LineEnd(s, d[k]) <= n /\ d[k + 1] = AfterBreak(s, LineEnd(s, d[k]))
      <4>1. CASE k = 1
        <5>1. d[k] = p /\ d[k + 1] = q
          BY <4>1, <3>4, <3>5
        <5>2. e <= n
          BY <2>2, <3>2, <1>0
        <5> QED
          BY <5>1, <5>2 DEF q, e
      <4>2. CASE k # 1
        <5> DEFINE h == k - 1
        <5>1. h \in 1..(Len(c) - 1) /\ h + 1 = k
          BY <4>2, <3>4, <3>5
        <5>2. h \in 1..Len(c) /\ k \in 1..Len(c)
          BY <5>1, <3>4, <3>5
        <5>3. d[k] = c[h] /\ d[k + 1] = c[k]
          BY <5>1, <5>2, <3>5
        <5> HIDE DEF h
        <5>4. LineEnd(s, c[h]) <= n /\ c[h + 1] = AfterBreak(s, LineEnd(s, c[h]))
          BY <5>1, <3>3 DEF Chained, n
        <5> QED
          BY <5>1, <5>3, <5>4
      <4> QED
        BY <4>1, <4>2
    <3>7. LineEnd(s, d[Len(d)]) > n
      <4>1. d[Len(d)] = c[Len(c)]
        BY <3>4, <3>5
      <4> QED
        BY <4>1, <3>3 DEF Chained, n
    <3>8. Chained(s, p, d)
      BY <3>4, <3>5, <3>6, <3>7 DEF Chained, n
    <3> QED
      BY <3>1, <3>8
  <2> QED
    BY <2>1, <2>2
<1>5. 0 \in T
  <2>1. \A p \in (n + 1 - 0)..(n + 1) : p \in 1..(n + 1) /\ (p + 1)..(n + 1) = {}
    <3> HIDE DEF n
    <3> QED
      BY <1>0
  <2> HIDE DEF n
  <2> QED
    BY <1>0, <1>4, <2>1
<1>6. ASSUME NEW m \in 0..n, m < n, m \in T PROVE m + 1 \in T
  <2> HIDE DEF n
  <2>1. ASSUME NEW p \in (n + 1 - (m + 1))..(n + 1) PROVE Chained(s, p, f[p])
    <3>1. p \in 1..(n + 1) /\ (p + 1)..(n + 1) \subseteq (n + 1 - m)..(n + 1)
      BY <1>0, <1>6
    <3>2. \A q \in (p + 1)..(n + 1) : Chained(s, q, f[q])
      BY <1>6, <3>1
    <3> QED
      BY <1>4, <3>1, <3>2
  <2>2. m + 1 \in 0..n
    BY <1>0, <1>6
  <2> QED
    BY <2>1, <2>2
<1> HIDE DEF T, n
<1>7. 0..n \subseteq T
  BY <1>0, <1>5, <1>6, UpToByInduction
<1>8. n \in T /\ n + 1 - n = 1 /\ 1 \in 1..(n + 1)
  BY <1>0, <1>7
<1>9. Chained(s, 1, f[1])
  BY <1>8 DEF T
<1> QED
  BY <1>2, <1>9

LEMMA LineFacts ==
    ASSUME NEW S, NEW s \in Seq(S)
    PROVE  /\ Count(s) \in Nat /\ Count(s) >= 1 /\ DOMAIN LineStarts(s) = 1..Count(s)
           /\ StartOf(s, 1) = 1
           /\ \A k \in 1..Count(s) :
                  /\ StartOf(s, k) \in 1..(Len(s) + 1) /\ EndOf(s, k) \in StartOf(s, k)..(Len(s) + 1)
                  /\ \A q \in StartOf(s, k)..(EndOf(s, k) - 1) : s[q] \notin {LF, CR}
                  /\ EndOf(s, k) <= Len(s) => /\ s[EndOf(s, k)] \in {LF, CR}
                                              /\ k < Count(s) /\ k + 1 \in 1..Count(s)
                                              /\ StartOf(s, k + 1) = AfterBreak(s, EndOf(s, k))
                  /\ k < Count(s) => EndOf(s, k) <= Len(s)
<1> DEFINE c == LineStarts(s)
           n == Len(s)
           m == Count(s)
<1>1. Chained(s, 1, c)
  BY StartsChained
<1>2. c \in Seq(1..(n + 1)) /\ Len(c) = m /\ m \in Nat /\ m >= 1 /\ DOMAIN c = 1..m /\ c[1] = 1
  BY <1>1 DEF Chained, Count
<1>3. /\ \A k \in 1..(m - 1) : LineEnd(s, c[k]) <= n /\ c[k + 1] = AfterBreak(s, LineEnd(s, c[k]))
      /\ LineEnd(s, c[m]) > n
  BY <1>1 DEF Chained, Count
<1> HIDE DEF c, m, n
<1>4. ASSUME NEW k \in 1..m
      PROVE  /\ c[k] \in 1..(n + 1) /\ LineEnd(s, c[k]) \in c[k]..(n + 1)
             /\ \A q \in c[k]..(LineEnd(s, c[k]) - 1) : s[q] \notin {LF, CR}
             /\ LineEnd(s, c[k]) <= n => /\ s[LineEnd(s, c[k])] \in {LF, CR}
                                         /\ k < m /\ k + 1 \in 1..m
                                         /\ c[k + 1] = AfterBreak(s, LineEnd(s, c[k]))
             /\ k < m => LineEnd(s, c[k]) <= n
  <2>1. c[k] \in 1..(n + 1)
    <3> DEFINE X == 1..(n + 1)
    <3>1. c \in Seq(X) /\ k \in 1..Len(c)
      BY <1>2
    <3> HIDE DEF X
    <3>2. c[k] \in X
      BY <3>1
    <3> QED
      BY <3>2 DEF X
  <2>2. /\ LineEnd(s, c[k]) \in c[k]..(n + 1)
        /\ \A q \in c[k]..(LineEnd(s, c[k]) - 1) : s[q] \notin {LF, CR}
        /\ LineEnd(s, c[k]) <= n => s[LineEnd(s, c[k])] \in {LF, CR}
    BY <2>1, LineEndFacts DEF n
  <2>3. n \in Nat
    BY DEF n
  <2>4. CASE k = m
    BY <2>1, <2>2, <2>3, <2>4, <1>3
  <2>5. CASE k # m
    <3>1. k \in 1..(m - 1) /\ k < m /\ k + 1 \in 1..m
      BY <2>5, <1>2
    <3> QED
      BY <3>1, <2>1, <2>2, <1>3
  <2> QED
    BY <2>4, <2>5
<1> QED
  BY <1>2, <1>4 DEF c, m, n, StartOf, EndOf

(* The lines that are rendered are all but an empty last one. *)
LEMMA RawFacts ==
    ASSUME NEW S, NEW s \in Seq(S)
    PROVE  /\ RawLines(s) \in Seq(Seq(S)) /\ Len(RawLines(s)) \in Nat
           /\ \A k \in 1..Len(RawLines(s)) :
                  /\ k \in 1..Count(s) /\ RawLines(s)[k] \in Seq(S)
                  /\ Len(RawLines(s)[k]) = EndOf(s, k) - StartOf(s, k)
                  /\ \A x \in 1..(EndOf(s, k) - StartOf(s, k)) : RawLines(s)[k][x] = s[StartOf(s, k) + x - 1]
           /\ \A k \in 1..Count(s) : StartOf(s, k) < EndOf(s, k) => k \in 1..Len(RawLines(s))
<1> DEFINE c == LineStarts(s)
           m == Count(s)
           lines == [k \in DOMAIN c |-> SubSeq(s, c[k], LineEnd(s, c[k]) - 1)]
           n == Len(s)
<1>1. /\ m \in Nat /\ m >= 1 /\ DOMAIN c = 1..m /\ n \in Nat
      /\ \A k \in 1..m : c[k] \in 1..(n + 1) /\ LineEnd(s, c[k]) \in c[k]..(n + 1)
  BY LineFacts DEF StartOf, EndOf
<1>2. ASSUME NEW k \in 1..m
      PROVE  /\ lines[k] \in Seq(S)
             /\ Len(lines[k]) = LineEnd(s, c[k]) - c[k]
             /\ \A x \in 1..(LineEnd(s, c[k]) - c[k]) : lines[k][x] = s[c[k] + x - 1]
  <2> DEFINE p == c[k]
             e == LineEnd(s, c[k])
  <2>1. p \in 1..(n + 1) /\ e \in p..(n + 1)
    BY <1>1
  <2>2. lines[k] = SubSeq(s, p, e - 1)
    BY <1>1
  <2> HIDE DEF p, e, lines
  <2>3. /\ SubSeq(s, p, e - 1) \in Seq(S) /\ Len(SubSeq(s, p, e - 1)) = e - p
        /\ \A x \in 1..(e - p) : SubSeq(s, p, e - 1)[x] = s[p + x - 1]
    <3>1. p \in Int /\ e - 1 \in Int
      BY <1>1, <2>1
    <3>2. \A x \in p..(e - 1) : x \in 1..n /\ s[x] \in S
      BY <1>1, <2>1
    <3>3. SubSeq(s, p, e - 1) = [x \in 1..(e - p) |-> s[p + x - 1]]
      BY <1>1, <2>1
    <3> DEFINE w == [x \in 1..(e - p) |-> s[p + x - 1]]
    <3>4. e - p \in Nat /\ \A x \in 1..(e - p) : p + x - 1 \in p..(e - 1)
      BY <1>1, <2>1
    <3>5. w \in [1..(e - p) -> S]
      BY <3>2, <3>4
    <3>6. w \in Seq(S) /\ Len(w) = e - p
      BY SMTT(20), <3>4, <3>5
    <3>7. \A x \in 1..(e - p) : w[x] = s[p + x - 1]
      OBVIOUS
    <3> QED
      BY <3>3, <3>6, <3>7
  <2> QED
    BY <2>2, <2>3 DEF p, e
<1>3. lines \in [1..m -> Seq(S)]
  BY <1>1, <1>2
<1>4. lines \in Seq(Seq(S)) /\ Len(lines) = m
  <2> HIDE DEF lines, m
  <2> QED
    BY <1>1, <1>3
<1>5. RawLines(s) = IF Len(lines) > 1 /\ Last(lines) = <<>> THEN Front(lines) ELSE lines
  BY DEF RawLines
<1> DEFINE r == RawLines(s)
<1> HIDE DEF lines, m, n, c
<1>6. /\ r \in Seq(Seq(S)) /\ Len(r) \in Nat
      /\ \A k \in 1..Len(r) : k \in 1..m /\ r[k] = lines[k]
      /\ \A k \in 1..m : k \in 1..Len(r) \/ (k = m /\ Len(lines[k]) = 0)
  <2>1. CASE Len(lines) > 1 /\ Last(lines) = <<>>
    <3>1. r = SubSeq(lines, 1, m - 1) /\ lines[m] = <<>>
      BY <2>1, <1>4, <1>5 DEF Front, Last
    <3>2. r \in Seq(Seq(S)) /\ Len(r) = m - 1 /\ \A k \in 1..(m - 1) : r[k] = lines[k]
      BY <3>1, <1>1, <1>4
    <3>3. Len(lines[m]) = 0
      BY <3>1
    <3> HIDE DEF r
    <3> QED
      BY <1>1, <3>2, <3>3
  <2>2. CASE ~(Len(lines) > 1 /\ Last(lines) = <<>>)
    <3>1. r = lines
      BY <2>2, <1>5
    <3> HIDE DEF r
    <3> QED
      BY <1>1, <1>4, <3>1
  <2> QED
    BY <2>1, <2>2
<1> HIDE DEF r
<1>7. ASSUME NEW k \in 1..m, c[k] < LineEnd(s, c[k]) PROVE k \in 1..Len(r)
  <2>1. Len(lines[k]) # 0
    BY <1>1, <1>2, <1>7
  <2> QED
    BY <1>6, <2>1
<1> QED
  BY <1>2, <1>6, <1>7 DEF r, m, c, StartOf, EndOf

-----------------------------------------------------------------------------
(* The places of keys *)

(* The ends of lines that come before a place. *)
EndsBefore(s, p) == {q \in DOMAIN s : q <= p - 1 /\ s[q] \in {LF, CR} /\ ~(s[q] = CR /\ s[q + 1] = LF)}

(* Where line k begins, k - 1 lines have ended, the last of them just before. *)
LEMMA EndsAtStart ==
    ASSUME NEW S, NEW s \in Seq(S), LF # CR, NEW k \in 1..Count(s), StartOf(s, k) <= Len(s)
    PROVE  /\ IsFiniteSet(EndsBefore(s, StartOf(s, k)))
           /\ Cardinality(EndsBefore(s, StartOf(s, k))) = k - 1
           /\ StartOf(s, k) - 1 \in EndsBefore(s, StartOf(s, k)) \cup {0}
<1> DEFINE n == Len(s)
           m == Count(s)
           B(p) == EndsBefore(s, p)
           st(h) == StartOf(s, h + 1)
           Good(h) == st(h) <= n => /\ IsFiniteSet(B(st(h))) /\ Cardinality(B(st(h))) = h
                                    /\ st(h) - 1 \in B(st(h)) \cup {0}
           T == {h \in 0..(m - 1) : Good(h)}
<1>1. m \in Nat /\ m >= 1 /\ n \in Nat /\ DOMAIN s = 1..n
  BY LineFacts
<1>2. 0 \in T
  <2>1. st(0) = 1
    BY LineFacts
  <2>2. B(1) = {}
    BY <1>1 DEF EndsBefore
  <2> HIDE DEF st
  <2>4. B(st(0)) = {} /\ st(0) - 1 = 0
    BY <2>1, <2>2
  <2> HIDE DEF B
  <2>3. Good(0)
    BY <2>4, FS_EmptySet
  <2> QED
    BY <1>1, <2>3
<1>3. ASSUME NEW h \in 0..(m - 1), h < m - 1, h \in T PROVE h + 1 \in T
  <2> DEFINE p == st(h)
             e == EndOf(s, h + 1)
             r == st(h + 1)
  <2>1. h + 1 \in 1..m /\ h + 1 < m
    BY <1>1, <1>3
  <2>2. /\ p \in 1..(n + 1) /\ e \in p..(n + 1) /\ e <= n
        /\ \A q \in p..(e - 1) : s[q] \notin {LF, CR}
        /\ s[e] \in {LF, CR} /\ r = AfterBreak(s, e)
    BY <2>1, LineFacts
  <2> HIDE DEF p, e, r, st
  <2>3. ASSUME r <= n
        PROVE  IsFiniteSet(B(r)) /\ Cardinality(B(r)) = h + 1 /\ r - 1 \in B(r)
    <3>1. p <= n /\ p < r /\ r \in Nat
      BY <2>2, <2>3, <1>1 DEF AfterBreak
    <3>2. IsFiniteSet(B(p)) /\ Cardinality(B(p)) = h
      BY <1>3, <3>1 DEF p
    <3>3. ASSUME NEW q \in 1..n PROVE q \in B(r) <=> q \in B(p) \/ q = r - 1
      <4>1. CASE q < p
        <5>1. q <= p - 1 /\ q <= r - 1 /\ q # r - 1
          BY <4>1, <3>1, <2>2
        <5> QED
          BY <5>1, <1>1 DEF EndsBefore
      <4>2. CASE q \in p..(e - 1)
        <5>1. s[q] \notin {LF, CR} /\ q # r - 1
          BY <4>2, <2>2, <1>1, <2>3 DEF AfterBreak
        <5> QED
          BY <5>1 DEF EndsBefore
      <4>3. CASE q = e
        <5>1. ~(q <= p - 1) /\ q <= r - 1
          BY <4>3, <2>2, <1>1, <2>3 DEF AfterBreak
        <5>2. q = r - 1 <=> ~(s[q] = CR /\ s[q + 1] = LF)
          BY <4>3, <2>2, <1>1, <2>3 DEF AfterBreak
        <5> QED
          BY <5>1, <5>2, <1>1, <2>2, <4>3 DEF EndsBefore
      <4>4. CASE q > e
        <5>1. ~(q <= p - 1) /\ (q <= r - 1 <=> q = r - 1)
          BY <4>4, <2>2, <1>1, <2>3 DEF AfterBreak
        <5>2. q = r - 1 => s[q] = LF
          BY <4>4, <2>2, <1>1, <2>3 DEF AfterBreak
        <5> QED
          BY <5>1, <5>2, <1>1 DEF EndsBefore
      <4> QED
        BY <4>1, <4>2, <4>3, <4>4, <2>2
    <3>4. r - 1 \in 1..n
      BY <2>2, <2>3, <3>1, <1>1
    <3>5. B(r) = B(p) \cup {r - 1} /\ r - 1 \notin B(p)
      <4>1. B(r) \subseteq 1..n /\ B(p) \subseteq 1..n
        BY <1>1 DEF EndsBefore
      <4>2. r - 1 \notin B(p)
        BY <2>2, <3>1, <1>1 DEF EndsBefore
      <4> HIDE DEF B
      <4> QED
        BY <4>1, <4>2, <3>3, <3>4
    <3> HIDE DEF B
    <3> QED
      BY <3>2, <3>5, FS_AddElement
  <2> HIDE DEF B
  <2>4. Good(h + 1)
    BY <2>3 DEF r
  <2> QED
    BY <1>1, <1>3, <2>4
<1> HIDE DEF T, Good, st, B
<1>4. 0..(m - 1) \subseteq T
  <2>1. m - 1 \in Nat
    BY <1>1
  <2> HIDE DEF m
  <2> QED
    BY <1>2, <1>3, <2>1, UpToByInduction
<1>5. k - 1 \in T /\ (k - 1) + 1 = k
  BY <1>1, <1>4
<1> QED
  BY <1>5 DEF T, Good, st, B

(* Every rune that is no break is on a line. *)
LEMMA Covered ==
    ASSUME NEW S, NEW s \in Seq(S), LF # CR, NEW p \in 1..Len(s), s[p] \notin {LF, CR}
    PROVE  \E k \in 1..Count(s) : StartOf(s, k) <= p /\ p < EndOf(s, k)
<1> DEFINE n == Len(s)
           m == Count(s)
           T == {h \in 0..(m - 1) : StartOf(s, h + 1) <= p}
<1> SUFFICES ASSUME \A k \in 1..m : ~(StartOf(s, k) <= p /\ p < EndOf(s, k)) PROVE FALSE
  OBVIOUS
<1>1. m \in Nat /\ m >= 1 /\ n \in Nat /\ StartOf(s, 1) = 1
  BY LineFacts
<1>2. ASSUME NEW k \in 1..m, StartOf(s, k) <= p
      PROVE  k < m /\ k + 1 \in 1..m /\ StartOf(s, k + 1) <= p
  <2> DEFINE e == EndOf(s, k)
  <2>1. /\ StartOf(s, k) \in 1..(n + 1) /\ e \in StartOf(s, k)..(n + 1)
        /\ e <= n => /\ s[e] \in {LF, CR} /\ k < m /\ k + 1 \in 1..m
                     /\ StartOf(s, k + 1) = AfterBreak(s, e)
    BY LineFacts
  <2>2. e <= p /\ e <= n /\ e \in Nat
    BY <2>1, <1>2, <1>1
  <2> HIDE DEF e, m
  <2>3. p # e /\ (AfterBreak(s, e) # e + 1 => s[e + 1] = LF /\ AfterBreak(s, e) = e + 2)
    BY <2>1, <2>2 DEF AfterBreak
  <2>4. AfterBreak(s, e) <= p
    BY <2>2, <2>3
  <2> QED
    BY <2>1, <2>2, <2>4
<1>3. 0 \in T
  BY <1>1
<1>4. ASSUME NEW h \in 0..(m - 1), h < m - 1, h \in T PROVE h + 1 \in T
  <2>1. h + 1 \in 1..m /\ h + 1 \in 0..(m - 1) /\ StartOf(s, h + 1) <= p
    BY <1>1, <1>4
  <2> QED
    BY <1>2, <2>1
<1> HIDE DEF T
<1>5. 0..(m - 1) \subseteq T
  <2>1. m - 1 \in Nat
    BY <1>1
  <2> HIDE DEF m
  <2> QED
    BY <1>3, <1>4, <2>1, UpToByInduction
<1>6. m - 1 \in T /\ (m - 1) + 1 = m /\ m \in 1..m
  BY <1>1, <1>5
<1> QED
  BY <1>2, <1>6, <1>1 DEF T

(* The number of the line and the column of a rune, as the YAML library      *)
(* counts them.                                                              *)
LEMMA PlaceFacts ==
    ASSUME NEW S, NEW s \in Seq(S), LF # CR, NEW k \in 1..Count(s),
           NEW p \in StartOf(s, k)..(EndOf(s, k) - 1)
    PROVE  /\ 1 + Cardinality(EndsBefore(s, p)) = k
           /\ p - Max(EndsBefore(s, p) \cup {0}) = p - StartOf(s, k) + 1
<1> DEFINE n == Len(s)
           a == StartOf(s, k)
           e == EndOf(s, k)
           B == EndsBefore(s, a)
<1>1. /\ a \in 1..(n + 1) /\ e \in a..(n + 1) /\ n \in Nat /\ DOMAIN s = 1..n
      /\ \A q \in a..(e - 1) : s[q] \notin {LF, CR}
  BY LineFacts
<1> HIDE DEF a, e
<1>2. p \in a..(e - 1)
  BY DEF a, e
<1>3. a <= n /\ a \in Nat /\ p \in Nat /\ a <= p
  BY <1>1, <1>2
<1>4. IsFiniteSet(B) /\ Cardinality(B) = k - 1 /\ a - 1 \in B \cup {0}
  BY <1>3, EndsAtStart DEF a
<1>5. EndsBefore(s, p) = B
  <2>1. ASSUME NEW q \in 1..n PROVE q \in EndsBefore(s, p) <=> q \in B
    <3>1. CASE q < a
      <4>1. q <= a - 1 /\ q <= p - 1
        BY <3>1, <1>1, <1>2
      <4> QED
        BY <4>1 DEF EndsBefore
    <3>2. CASE q \in a..(p - 1)
      <4>1. s[q] \notin {LF, CR}
        BY <3>2, <1>1, <1>2
      <4> QED
        BY <4>1 DEF EndsBefore
    <3>3. CASE q >= p
      <4>1. ~(q <= a - 1) /\ ~(q <= p - 1)
        BY <3>3, <1>1, <1>2
      <4> QED
        BY <4>1 DEF EndsBefore
    <3> QED
      BY <3>1, <3>2, <3>3, <1>3
  <2> QED
    BY <2>1, <1>1 DEF EndsBefore
<1>6. Max(B \cup {0}) = a - 1
  <2>1. B \cup {0} \in SUBSET Nat /\ \A x \in B \cup {0} : x <= a - 1
    BY <1>1, <1>3 DEF EndsBefore
  <2> HIDE DEF B
  <2> QED
    BY <2>1, <1>4, MaxIs
<1> HIDE DEF B
<1>7. 1 + Cardinality(EndsBefore(s, p)) = k
  <2>1. k \in Nat
    BY LineFacts
  <2> QED
    BY <2>1, <1>4, <1>5
<1>8. p - Max(EndsBefore(s, p) \cup {0}) = p - a + 1
  BY <1>3, <1>5, <1>6
<1> QED
  BY <1>7, <1>8 DEF a

(* The length of the run of letters that begins at p, and the key there. *)
RunAt(s, p) ==
    CHOOSE n \in 1..(Len(s) - p + 1) :
        /\ \A q \in p..(p + n - 1) : s[q] \in Letters
        /\ p + n <= Len(s) => s[p + n] \notin Letters

KeyAt(s, p) ==
    [line |-> 1 + Cardinality(EndsBefore(s, p)), col |-> p - Max(EndsBefore(s, p) \cup {0}),
     end |-> p - Max(EndsBefore(s, p) \cup {0}) + RunAt(s, p), word |-> SubSeq(s, p, p + RunAt(s, p) - 1)]

LEMMA KeysAre ==
    ASSUME NEW s
    PROVE  Keys(s) = {KeyAt(s, p) : p \in {p \in DOMAIN s : s[p] \in Letters /\ (p > 1 => s[p - 1] \notin Letters)}}
BY DEF Keys, KeyAt, RunAt, EndsBefore

LEMMA RunFacts ==
    ASSUME NEW S, NEW s \in Seq(S), NEW p \in 1..Len(s), s[p] \in Letters
    PROVE  RunAt(s, p) \in 1..(Len(s) - p + 1) /\ \A q \in p..(p + RunAt(s, p) - 1) : s[q] \in Letters
<1> DEFINE n == Len(s)
           T == {m \in 1..(n - p + 1) : p + m <= n => s[p + m] \notin Letters}
<1>1. n \in Nat /\ p \in 1..n
  OBVIOUS
<1> HIDE DEF n
<1>2. T \in SUBSET Nat /\ n - p + 1 \in T
  BY <1>1
<1>3. PICK m \in T : \A x \in T : m <= x
  <2> HIDE DEF T
  <2> QED
    BY <1>2, NatLeast
<1>4. \A q \in p..(p + m - 1) : s[q] \in Letters
  <2> SUFFICES ASSUME NEW q \in p..(p + m - 1), s[q] \notin Letters PROVE FALSE
    OBVIOUS
  <2>1. q # p /\ q - p \in 1..(n - p + 1) /\ q - p < m /\ p + (q - p) = q
    BY <1>1, <1>3
  <2>2. q - p \in T
    BY <2>1
  <2> QED
    BY <1>3, <2>1, <2>2
<1>5. \E x \in 1..(n - p + 1) : /\ \A q \in p..(p + x - 1) : s[q] \in Letters
                                /\ p + x <= n => s[p + x] \notin Letters
  BY <1>3, <1>4
<1> QED
  BY <1>5 DEF RunAt, n

(* The library and the renderer mean the same by a line and a column: a key  *)
(* is within one line, between its columns.                                  *)
LEMMA KeyFacts ==
    ASSUME NEW S, NEW s \in Seq(S), LF # CR, Letters \cap {LF, CR} = {}, NEW key \in Keys(s)
    PROVE  \E p \in 1..Len(s) :
               /\ key = KeyAt(s, p) /\ key.line \in 1..Count(s)
               /\ StartOf(s, key.line) <= p /\ key.col = p - StartOf(s, key.line) + 1
               /\ key.col \in Nat /\ key.col >= 1
               /\ RunAt(s, p) \in Nat /\ RunAt(s, p) >= 1 /\ key.end = key.col + RunAt(s, p)
               /\ p + RunAt(s, p) <= EndOf(s, key.line) /\ EndOf(s, key.line) <= Len(s) + 1
               /\ key.word = SubSeq(s, p, p + RunAt(s, p) - 1)
<1>1. PICK p \in DOMAIN s : s[p] \in Letters /\ key = KeyAt(s, p)
  BY KeysAre
<1> DEFINE n == Len(s)
           m == RunAt(s, p)
<1>2. p \in 1..n /\ n \in Nat /\ s[p] \notin {LF, CR}
  BY <1>1
<1>3. m \in 1..(n - p + 1) /\ \A q \in p..(p + m - 1) : s[q] \in Letters
  BY <1>1, <1>2, RunFacts
<1>4. PICK k \in 1..Count(s) : StartOf(s, k) <= p /\ p < EndOf(s, k)
  BY <1>2, Covered
<1>5. /\ StartOf(s, k) \in 1..(n + 1) /\ EndOf(s, k) \in StartOf(s, k)..(n + 1)
      /\ EndOf(s, k) <= n => s[EndOf(s, k)] \in {LF, CR}
  BY LineFacts
<1> DEFINE a == StartOf(s, k)
           e == EndOf(s, k)
<1> HIDE DEF n, m, a, e
<1>6. p \in a..(e - 1)
  BY <1>2, <1>4, <1>5 DEF a, e
<1>7. 1 + Cardinality(EndsBefore(s, p)) = k /\ p - Max(EndsBefore(s, p) \cup {0}) = p - a + 1
  BY <1>6, PlaceFacts DEF a, e
<1>8. key.line = k /\ key.col = p - a + 1 /\ key.end = key.col + m /\ key.word = SubSeq(s, p, p + m - 1)
  BY <1>1, <1>7 DEF KeyAt, m
<1>9. p + m <= e
  <2> SUFFICES ASSUME ~(p + m <= e) PROVE FALSE
    OBVIOUS
  <2>1. e \in p..(p + m - 1) /\ e <= n
    BY <1>2, <1>3, <1>5, <1>6 DEF a, e
  <2> QED
    BY <2>1, <1>3, <1>5 DEF e
<1>10. a <= p /\ p - a + 1 \in Nat /\ p - a + 1 >= 1 /\ m \in Nat /\ m >= 1 /\ e <= n + 1
  BY <1>2, <1>3, <1>5, <1>6 DEF a, e
<1> QED
  BY <1>1, <1>2, <1>4, <1>8, <1>9, <1>10 DEF n, m, a, e

LEMMA KeysByPlace ==
    ASSUME NEW S, NEW s \in Seq(S), LF # CR, Letters \cap {LF, CR} = {},
           NEW key \in Keys(s), NEW other \in Keys(s), key.line = other.line, key.col = other.col
    PROVE  key = other
<1>1. PICK p \in 1..Len(s) : /\ key = KeyAt(s, p) /\ key.line \in 1..Count(s)
                             /\ key.col = p - StartOf(s, key.line) + 1
  BY KeyFacts
<1>2. PICK q \in 1..Len(s) : /\ other = KeyAt(s, q)
                             /\ other.col = q - StartOf(s, other.line) + 1
  BY KeyFacts
<1>3. StartOf(s, key.line) \in Nat
  BY <1>1, LineFacts
<1>4. p = q
  BY <1>1, <1>2, <1>3
<1> QED
  BY <1>1, <1>2, <1>4

-----------------------------------------------------------------------------
(* Sorting *)

Numbered(d) == d.line \in Nat /\ d.col \in Nat /\ d.end \in Nat /\ d.severity \in Nat /\ d.message \in Nat

Tied(a, b) == /\ a.line = b.line /\ a.col = b.col /\ a.end = b.end
              /\ a.severity = b.severity /\ a.message = b.message

(* The comparison is a weak order, and its ties agree in all it compares. *)
LEMMA BeforeFacts ==
    ASSUME NEW a, NEW b, NEW c, Numbered(a), Numbered(b), Numbered(c)
    PROVE  /\ Before(a, b) \in BOOLEAN
           /\ ~Before(a, a)
           /\ Before(a, b) => ~Before(b, a)
           /\ Before(a, b) \/ Before(b, a) \/ Tied(a, b)
           /\ ~Before(b, a) /\ ~Before(c, b) => ~Before(c, a)
           /\ Before(a, b) /\ ~Before(c, b) => Before(a, c)
           /\ ~Before(b, a) /\ Before(b, c) => Before(a, c)
BY DEF Numbered, Before, Tied

(* What sorted returns: the diagnostics in another order, where those before *)
(* an element and those not after it are fewer than its place and at least   *)
(* as many.                                                                  *)
LEMMA SortedFacts ==
    ASSUME NEW D, NEW seq \in Seq(D), \A d \in D : Numbered(d), NEW n \in Nat, n = Len(seq)
    PROVE  \E g \in Bijection(1..n, 1..n) :
               /\ Sorted(seq) = [k \in 1..n |-> seq[g[k]]]
               /\ \A k \in 1..n :
                      /\ Cardinality({x \in 1..n : Before(seq[x], seq[g[k]])}) < k
                      /\ k <= Cardinality({x \in 1..n : ~Before(seq[g[k]], seq[x])})
<1> DEFINE less(d) == {x \in 1..n : Before(seq[x], d)}
           upTo(d) == {x \in 1..n : ~Before(d, seq[x])}
           first(x, y) == Before(seq[x], seq[y]) \/ (x <= y /\ ~Before(seq[y], seq[x]))
           R == {z \in (1..n) \X (1..n) : first(z[1], z[2])}
           P(y) == {x \in 1..n : first(x, y)}
           place == [y \in 1..n |-> Cardinality(P(y))]
<1>1. n \in Nat /\ DOMAIN seq = 1..n /\ \A x \in 1..n : seq[x] \in D /\ Numbered(seq[x])
  OBVIOUS
<1>2. ASSUME NEW x \in 1..n, NEW y \in 1..n PROVE <<x, y>> \in R <=> first(x, y)
  <2>1. <<x, y>> \in (1..n) \X (1..n) /\ <<x, y>>[1] = x /\ <<x, y>>[2] = y
    OBVIOUS
  <2> HIDE DEF first
  <2> QED
    BY <2>1
<1> HIDE DEF R
<1>3. \A x, y \in 1..n : first(x, y) \/ first(y, x)
  BY <1>1, BeforeFacts
<1>4. \A x, y \in 1..n : first(x, y) /\ first(y, x) => x = y
  <2> SUFFICES ASSUME NEW x \in 1..n, NEW y \in 1..n, first(x, y), first(y, x) PROVE x = y
    OBVIOUS
  <2>1. Numbered(seq[x]) /\ Numbered(seq[y])
    BY <1>1
  <2>2. x <= y /\ y <= x
    BY <2>1, BeforeFacts
  <2> QED
    BY <2>2, <1>1
<1>5. \A x, y, z \in 1..n : first(x, y) /\ first(y, z) => first(x, z)
  <2> SUFFICES ASSUME NEW x \in 1..n, NEW y \in 1..n, NEW z \in 1..n, first(x, y), first(y, z)
               PROVE  first(x, z)
    OBVIOUS
  <2>1. Numbered(seq[x]) /\ Numbered(seq[y]) /\ Numbered(seq[z])
    BY <1>1
  <2> DEFINE a == seq[x]
             b == seq[y]
             c == seq[z]
  <2>2. CASE Before(a, b) /\ Before(b, c)
    BY <2>1, <2>2, BeforeFacts
  <2>3. CASE Before(a, b) /\ y <= z /\ ~Before(c, b)
    BY <2>1, <2>3, BeforeFacts
  <2>4. CASE x <= y /\ ~Before(b, a) /\ Before(b, c)
    BY <2>1, <2>4, BeforeFacts
  <2>5. CASE x <= y /\ ~Before(b, a) /\ y <= z /\ ~Before(c, b)
    <3>1. x <= z
      BY <2>5, <1>1
    <3>2. ~Before(c, a)
      BY <2>1, <2>5, BeforeFacts
    <3> QED
      BY <3>1, <3>2
  <2> QED
    BY <2>2, <2>3, <2>4, <2>5
<1> HIDE DEF first
<1>6. place \in Bijection(1..n, 1..n)
  <2>1. /\ \A x, y \in 1..n : <<x, y>> \in R \/ <<y, x>> \in R
        /\ \A x, y \in 1..n : <<x, y>> \in R /\ <<y, x>> \in R => x = y
        /\ \A x, y, z \in 1..n : <<x, y>> \in R /\ <<y, z>> \in R => <<x, z>> \in R
    BY <1>2, <1>3, <1>4, <1>5
  <2> DEFINE up == [y \in 1..n |-> P(y)]
  <2>2. /\ \A y \in 1..n : up[y] = P(y) /\ up[y] \subseteq 1..n
        /\ \A x, y \in 1..n : x \in up[y] <=> <<x, y>> \in R
    BY <1>2
  <2>3. \A y \in 1..n : place[y] = Cardinality(up[y])
    <3> HIDE DEF P
    <3> QED
      OBVIOUS
  <2>4. place \in [1..n -> Nat]
    <3>1. IsFiniteSet(1..n)
      BY <1>1, FS_Interval
    <3> HIDE DEF up
    <3>2. \A y \in 1..n : Cardinality(up[y]) \in Nat
      BY <2>2, <3>1, FS_Subset, FS_CardinalityType
    <3>3. place = [y \in 1..n |-> place[y]]
      OBVIOUS
    <3> HIDE DEF place
    <3> QED
      BY <2>3, <3>2, <3>3
  <2> HIDE DEF place, P, up
  <2>5. /\ \A y \in 1..n : up[y] \subseteq 1..n
        /\ \A x, y \in 1..n : x \in up[y] <=> <<x, y>> \in R
    BY <2>2
  <2> QED
    BY <2>1, <2>3, <2>4, <2>5, OrderPlaces, Zenon
<1>7. /\ \A y \in 1..n : place[y] = Cardinality(P(y))
      /\ place \in [1..n -> 1..n] /\ \A k \in 1..n : \E y \in 1..n : place[y] = k
      /\ \A x, y \in 1..n : place[x] = place[y] => x = y
  <2>1. \A y \in 1..n : place[y] = Cardinality(P(y))
    <3> HIDE DEF P
    <3> QED
      OBVIOUS
  <2> HIDE DEF place, P
  <2> QED
    BY <1>6, <2>1 DEF Bijection, Injection, Surjection, IsInjective
<1> DEFINE g == [k \in 1..n |-> CHOOSE y \in 1..n : place[y] = k]
<1>8. g \in [1..n -> 1..n] /\ \A k \in 1..n : place[g[k]] = k
  <2> HIDE DEF place
  <2> QED
    BY <1>7
<1>9. Sorted(seq) = [k \in 1..n |-> seq[g[k]]]
  <2> DEFINE places == {<<y, Cardinality(P(y))>> : y \in 1..n}
  <2>1. \A y \in 1..n, k \in 1..n : <<y, k>> \in places <=> place[y] = k
    <3> HIDE DEF P
    <3> QED
      OBVIOUS
  <2>2. \A k \in 1..n : (CHOOSE y \in 1..n : <<y, k>> \in places) = g[k]
    <3> SUFFICES ASSUME NEW k \in 1..n PROVE (CHOOSE y \in 1..n : <<y, k>> \in places) = g[k]
      OBVIOUS
    <3>1. \A y \in 1..n : <<y, k>> \in places <=> place[y] = k
      BY <2>1
    <3> HIDE DEF place, places
    <3>2. (CHOOSE y \in 1..n : <<y, k>> \in places) = (CHOOSE y \in 1..n : place[y] = k)
      BY <3>1
    <3> QED
      BY <3>2
  <2>3. Sorted(seq) = [k \in 1..n |-> seq[CHOOSE y \in 1..n : <<y, k>> \in places]]
    BY <1>1 DEF Sorted, first
  <2> HIDE DEF places, g, place
  <2> QED
    BY <2>2, <2>3
<1> HIDE DEF g, place
<1>10. g \in Bijection(1..n, 1..n)
  <2>1. \A x, y \in 1..n : g[x] = g[y] => x = y
    BY <1>8
  <2>2. \A y \in 1..n : \E k \in 1..n : g[k] = y
    BY <1>7, <1>8
  <2> QED
    BY <1>8, <2>1, <2>2, Fun_IsBij
<1>11. ASSUME NEW k \in 1..n
       PROVE  Cardinality(less(seq[g[k]])) < k /\ k <= Cardinality(upTo(seq[g[k]]))
  <2> DEFINE y == g[k]
             d == seq[y]
  <2>1. y \in 1..n /\ Cardinality(P(y)) = k
    <3> HIDE DEF P
    <3> QED
      BY <1>7, <1>8
  <2> HIDE DEF y
  <2>2. /\ less(d) \in SUBSET P(y) /\ y \in P(y) /\ y \notin less(d) /\ P(y) \in SUBSET upTo(d)
        /\ P(y) \in SUBSET (1..n) /\ upTo(d) \in SUBSET (1..n)
    <3>1. ASSUME NEW x \in 1..n
          PROVE  /\ Before(seq[x], d) => first(x, y)
                 /\ first(x, y) => ~Before(d, seq[x])
      <4>1. Numbered(seq[x]) /\ Numbered(d)
        BY <1>1, <2>1
      <4> HIDE DEF d
      <4> QED
        BY <4>1, BeforeFacts DEF first, d
    <3>2. first(y, y) /\ ~Before(d, d)
      BY <2>1, <1>1, BeforeFacts DEF first
    <3> HIDE DEF d
    <3> QED
      BY <2>1, <3>1, <3>2 DEF d
  <2>3. IsFiniteSet(1..n)
    BY <1>1, FS_Interval
  <2> DEFINE A == less(d)
             B == P(y)
             C == upTo(d)
  <2> HIDE DEF A, B, C, P, less, upTo, d
  <2>4. /\ A \in SUBSET B /\ y \in B /\ y \notin A /\ B \in SUBSET C
        /\ B \in SUBSET (1..n) /\ C \in SUBSET (1..n) /\ Cardinality(B) = k
    BY <2>1, <2>2 DEF A, B, C
  <2>5. IsFiniteSet(B) /\ IsFiniteSet(C) /\ IsFiniteSet(A)
    BY <2>3, <2>4, FS_Subset
  <2>6. Cardinality(A) <= Cardinality(B) /\ Cardinality(A) # Cardinality(B)
    BY <2>4, <2>5, FS_Subset
  <2>7. Cardinality(B) <= Cardinality(C)
    BY <2>4, <2>5, FS_Subset
  <2>8. Cardinality(A) \in Nat /\ Cardinality(B) \in Nat /\ Cardinality(C) \in Nat
    BY <2>5, FS_CardinalityType
  <2> QED
    BY <2>4, <2>6, <2>7, <2>8 DEF A, C, d, y
<1> QED
  BY <1>9, <1>10, <1>11

(* If diagnostics that tie are equal, sorting forgets the order they were in. *)
LEMMA SortForgets ==
    ASSUME NEW D, \A d \in D : Numbered(d),
           NEW seq \in Seq(D), NEW t \in Seq(D), NEW n \in Nat, n = Len(seq), n = Len(t),
           \A x, y \in 1..n : Tied(seq[x], seq[y]) => seq[x] = seq[y],
           NEW p \in Bijection(1..n, 1..n), \A x \in 1..n : t[x] = seq[p[x]]
    PROVE  Sorted(t) = Sorted(seq)
<1> DEFINE less(d) == {x \in 1..n : Before(seq[x], d)}
           upTo(d) == {x \in 1..n : ~Before(d, seq[x])}
           lessT(d) == {x \in 1..n : Before(t[x], d)}
           upToT(d) == {x \in 1..n : ~Before(d, t[x])}
<1>1. n \in Nat /\ \A x \in 1..n : seq[x] \in D
  <2>1. \A x \in 1..Len(seq) : seq[x] \in D
    BY ONLY seq \in Seq(D)
  <2> QED
    BY <2>1
<1>2. p \in [1..n -> 1..n]
  BY DEF Bijection, Injection
<1>4. PICK g \in Bijection(1..n, 1..n) :
          /\ Sorted(seq) = [k \in 1..n |-> seq[g[k]]]
          /\ \A k \in 1..n : Cardinality(less(seq[g[k]])) < k /\ k <= Cardinality(upTo(seq[g[k]]))
  BY SortedFacts
<1>5. PICK h \in Bijection(1..n, 1..n) :
          /\ Sorted(t) = [k \in 1..n |-> t[h[k]]]
          /\ \A k \in 1..n : Cardinality(lessT(t[h[k]])) < k /\ k <= Cardinality(upToT(t[h[k]]))
  BY SortedFacts
<1>6. g \in [1..n -> 1..n] /\ h \in [1..n -> 1..n]
  BY DEF Bijection, Injection
<1>7. ASSUME NEW d
      PROVE  /\ IsFiniteSet(less(d)) /\ IsFiniteSet(upTo(d))
             /\ Cardinality(lessT(d)) = Cardinality(less(d))
             /\ Cardinality(upToT(d)) = Cardinality(upTo(d))
  <2>1. lessT(d) = {x \in 1..n : p[x] \in less(d)} /\ upToT(d) = {x \in 1..n : p[x] \in upTo(d)}
    BY <1>2
  <2>2. less(d) \in SUBSET (1..n) /\ upTo(d) \in SUBSET (1..n)
    OBVIOUS
  <2> DEFINE X == less(d)
             Y == upTo(d)
  <2> HIDE DEF X, Y
  <2>4. IsFiniteSet(X) /\ Cardinality({x \in 1..n : p[x] \in X}) = Cardinality(X)
    BY <1>1, <2>2, CountReordered DEF X
  <2>5. IsFiniteSet(Y) /\ Cardinality({x \in 1..n : p[x] \in Y}) = Cardinality(Y)
    BY <1>1, <2>2, CountReordered DEF Y
  <2>6. lessT(d) = {x \in 1..n : p[x] \in X} /\ upToT(d) = {x \in 1..n : p[x] \in Y}
    BY <2>1 DEF X, Y
  <2> HIDE DEF less, upTo, lessT, upToT
  <2> QED
    BY <2>4, <2>5, <2>6 DEF X, Y
<1>8. ASSUME NEW x \in 1..n, NEW y \in 1..n, NEW k \in 1..n,
             Cardinality(less(seq[x])) < k, k <= Cardinality(upTo(seq[x])),
             Cardinality(less(seq[y])) < k, k <= Cardinality(upTo(seq[y]))
      PROVE  ~Before(seq[x], seq[y])
  <2> SUFFICES ASSUME Before(seq[x], seq[y]) PROVE FALSE
    OBVIOUS
  <2>1. upTo(seq[x]) \in SUBSET less(seq[y])
    <3> SUFFICES ASSUME NEW z \in 1..n, ~Before(seq[x], seq[z]) PROVE Before(seq[z], seq[y])
      OBVIOUS
    <3>1. Numbered(seq[x]) /\ Numbered(seq[y]) /\ Numbered(seq[z])
      BY <1>1
    <3> QED
      BY <3>1, BeforeFacts
  <2> HIDE DEF less, upTo
  <2>2. Cardinality(upTo(seq[x])) <= Cardinality(less(seq[y]))
    BY <2>1, <1>7, FS_Subset
  <2>3. Cardinality(upTo(seq[x])) \in Nat /\ Cardinality(less(seq[y])) \in Nat
    <3>1. IsFiniteSet(upTo(seq[x])) /\ IsFiniteSet(less(seq[y]))
      BY <1>7
    <3> QED
      BY <3>1, FS_CardinalityType
  <2> QED
    BY <1>8, <2>2, <2>3
<1>9. ASSUME NEW k \in 1..n PROVE t[h[k]] = seq[g[k]]
  <2> DEFINE x == g[k]
             y == p[h[k]]
  <2>1. x \in 1..n /\ y \in 1..n /\ t[h[k]] = seq[y]
    BY <1>2, <1>6
  <2>2. Cardinality(less(seq[x])) < k /\ k <= Cardinality(upTo(seq[x]))
    BY <1>4
  <2>3. Cardinality(less(seq[y])) < k /\ k <= Cardinality(upTo(seq[y]))
    <3>1. Cardinality(lessT(t[h[k]])) < k /\ k <= Cardinality(upToT(t[h[k]]))
      BY <1>5
    <3> HIDE DEF lessT, upToT, less, upTo, y
    <3> QED
      BY <3>1, <2>1, <1>7
  <2> HIDE DEF x, y, less, upTo
  <2>4. ~Before(seq[x], seq[y]) /\ ~Before(seq[y], seq[x])
    BY <1>8, <2>1, <2>2, <2>3
  <2>5. Numbered(seq[x]) /\ Numbered(seq[y])
    BY <1>1, <2>1
  <2>6. Tied(seq[x], seq[y])
    BY <2>4, <2>5, BeforeFacts
  <2>7. seq[x] = seq[y]
    BY <2>1, <2>6
  <2> QED
    BY <2>1, <2>7 DEF x
<1> HIDE DEF less, upTo, lessT, upToT
<1> QED
  BY <1>4, <1>5, <1>9

-----------------------------------------------------------------------------
(* The invariant of Report.  The scanner is at column col of line line; it    *)
(* has one entry for each line on which it has seen a tab, with the first and *)
(* the number of the tabs seen.  After it, diagnostics are about its entries  *)
(* or, if there is none, about keys.                                          *)

Tabs(s, k) == {x \in 1..(EndOf(s, k) - StartOf(s, k)) : s[StartOf(s, k) + x - 1] = Tab}

Seen == [k \in 1..line |-> {x \in Tabs(Src, k) : k < line \/ x < col}]

Placed ==
    /\ text \in Texts
    /\ line \in 1..Count(Src) /\ col \in Nat /\ col >= 1 /\ line <= at
    /\ at = StartOf(Src, line) + col - 1 /\ at <= EndOf(Src, line)

Tally(off, ln, cur, seen) ==
    /\ off \in Seq([line : Nat, col : Nat, count : Nat])
    /\ \A x \in 1..Len(off) :
           /\ off[x].line \in 1..ln
           /\ off[x].col \in seen[off[x].line]
           /\ \A y \in seen[off[x].line] : off[x].col <= y
           /\ off[x].count = Cardinality(seen[off[x].line])
    /\ \A x, y \in 1..Len(off) : x < y => off[x].line < off[y].line
    /\ \A k \in 1..ln : seen[k] # {} => \E x \in 1..Len(off) : off[x].line = k
    /\ cur = IF seen[ln] = {} THEN 0 ELSE Len(off)

Tallied == Tally(offending, line, curIdx, Seen)

OfKey(d, key) ==
    /\ d = [kind |-> d.kind, line |-> key.line, col |-> key.col, end |-> key.end,
            severity |-> d.severity, message |-> d.message, about |-> key.word, hint |-> d.hint]
    /\ \/ d.kind = "unknown" /\ d.severity = 0 /\ d.message = 0 /\ d.hint \in Words \cup {None}
       \/ d.kind = "other" /\ d.severity \in {0, 1} /\ d.message \in Messages /\ d.hint = None

SamePlace(d, e) == d.line = e.line /\ d.col = e.col

About(s, keys, left) ==
    /\ s \in Seq(ToSet(s))
    /\ \A x \in 1..Len(s) : \E key \in keys : OfKey(s[x], key)
    /\ \A x, y \in 1..Len(s) :
           s[x].kind = "unknown" /\ s[y].kind = "unknown" /\ SamePlace(s[x], s[y]) => x = y
    /\ left \subseteq keys
    /\ \A x \in 1..Len(s) : \A key \in left : s[x].kind = "unknown" => ~SamePlace(s[x], key)

Printout == [x \in DOMAIN Sorted(ds) |-> Block(Sorted(ds)[x])]

Phases ==
    /\ phase \in {"scan", "walk", "suggest", "render", "done"}
    /\ phase = "scan" => ds = <<>>
    /\ phase # "scan" => at > Len(Src)
    /\ phase \in {"scan", "render", "done"} => todo = {}
    /\ phase \in {"walk", "suggest"} => offending = <<>>
    /\ phase # "scan" /\ offending # <<>> => ds = TabDiagnostics
    /\ phase # "scan" /\ offending = <<>> => About(ds, Keys(Src), todo)
    /\ phase = "suggest" => Len(ds) # 0 /\ ds[Len(ds)].kind = "unknown"
    /\ report = IF phase = "done" THEN Printout ELSE <<>>

RInv == Placed /\ Tallied /\ Phases

LEMMA SrcIsText ==
    ASSUME text \in Texts
    PROVE  Src \in Seq(ToSet(text)) /\ Len(Src) \in Nat /\ DOMAIN Src = 1..Len(Src)
<1>1. text \in Seq(ToSet(text))
  BY TextAssumption
<1>2. Src \in Seq(ToSet(text))
  <2>1. CASE text # <<>> /\ Head(text) = BOM
    <3>1. Src = Tail(text)
      BY <2>1 DEF Src, StripBOM
    <3> QED
      BY <1>1, <2>1, <3>1
  <2>2. CASE ~(text # <<>> /\ Head(text) = BOM)
    BY <1>1, <2>2 DEF Src, StripBOM
  <2> QED
    BY <2>1, <2>2
<1> QED
  BY <1>2

LEMMA SrcLines ==
    ASSUME text \in Texts, NEW k \in 1..Count(Src)
    PROVE  /\ Count(Src) \in Nat /\ k \in Nat /\ k >= 1
           /\ StartOf(Src, k) \in Nat /\ StartOf(Src, k) >= 1
           /\ EndOf(Src, k) \in Nat /\ StartOf(Src, k) <= EndOf(Src, k) /\ EndOf(Src, k) <= Len(Src) + 1
           /\ \A q \in StartOf(Src, k)..(EndOf(Src, k) - 1) : Src[q] \notin {LF, CR}
           /\ EndOf(Src, k) <= Len(Src) =>
                  /\ Src[EndOf(Src, k)] \in {LF, CR} /\ k + 1 \in 1..Count(Src)
                  /\ StartOf(Src, k + 1) = AfterBreak(Src, EndOf(Src, k))
           /\ k < Count(Src) => EndOf(Src, k) <= Len(Src)
<1>1. Src \in Seq(ToSet(text)) /\ Len(Src) \in Nat
  BY SrcIsText
<1>2. /\ Count(Src) \in Nat
      /\ StartOf(Src, k) \in 1..(Len(Src) + 1) /\ EndOf(Src, k) \in StartOf(Src, k)..(Len(Src) + 1)
      /\ \A q \in StartOf(Src, k)..(EndOf(Src, k) - 1) : Src[q] \notin {LF, CR}
      /\ EndOf(Src, k) <= Len(Src) => /\ Src[EndOf(Src, k)] \in {LF, CR} /\ k + 1 \in 1..Count(Src)
                                      /\ StartOf(Src, k + 1) = AfterBreak(Src, EndOf(Src, k))
      /\ k < Count(Src) => EndOf(Src, k) <= Len(Src)
  BY <1>1, LineFacts
<1> QED
  BY <1>1, <1>2

LEMMA SeenFinite ==
    ASSUME text \in Texts, NEW k \in 1..Count(Src)
    PROVE  /\ IsFiniteSet(Tabs(Src, k)) /\ Cardinality(Tabs(Src, k)) \in Nat
           /\ \A x \in Tabs(Src, k) : x \in Nat /\ x >= 1
<1> DEFINE n == EndOf(Src, k) - StartOf(Src, k)
<1>1. n \in Nat
  BY SrcLines
<1>2. Tabs(Src, k) \in SUBSET (1..n)
  BY DEF Tabs
<1> HIDE DEF n
<1>3. IsFiniteSet(1..n)
  BY <1>1, FS_Interval
<1> QED
  BY <1>1, <1>2, <1>3, FS_Subset, FS_CardinalityType

-----------------------------------------------------------------------------
(* The scanner.  What one step does to the tally, whatever the text is.       *)

LEMMA TallyBreak ==
    ASSUME NEW off, NEW ln \in Nat, ln >= 1, NEW cur, NEW seen, NEW after, Tally(off, ln, cur, seen),
           \A k \in 1..ln : after[k] = seen[k], after[ln + 1] = {}
    PROVE  Tally(off, ln + 1, 0, after)
<1>1. \A k \in 1..(ln + 1) : k \in 1..ln \/ k = ln + 1
  OBVIOUS
<1>2. \A k \in 1..ln : k \in 1..(ln + 1)
  OBVIOUS
<1>3. \A x \in 1..Len(off) :
           /\ off[x].line \in 1..(ln + 1)
           /\ off[x].col \in after[off[x].line]
           /\ \A y \in after[off[x].line] : off[x].col <= y
           /\ off[x].count = Cardinality(after[off[x].line])
  <2> TAKE x \in 1..Len(off)
  <2>1. /\ off[x].line \in 1..ln
        /\ off[x].col \in seen[off[x].line]
        /\ \A y \in seen[off[x].line] : off[x].col <= y
        /\ off[x].count = Cardinality(seen[off[x].line])
    BY DEF Tally
  <2>2. after[off[x].line] = seen[off[x].line]
    BY <2>1
  <2> QED
    BY <1>2, <2>1, <2>2
<1>4. \A k \in 1..(ln + 1) : after[k] # {} => \E x \in 1..Len(off) : off[x].line = k
  BY <1>1 DEF Tally
<1> QED
  BY <1>3, <1>4 DEF Tally

LEMMA TallyOther ==
    ASSUME NEW off, NEW ln \in Nat, ln >= 1, NEW cur, NEW seen, NEW after, Tally(off, ln, cur, seen),
           \A k \in 1..ln : after[k] = seen[k]
    PROVE  Tally(off, ln, cur, after)
<1>1. \A x \in 1..Len(off) :
           /\ off[x].line \in 1..ln
           /\ off[x].col \in after[off[x].line]
           /\ \A y \in after[off[x].line] : off[x].col <= y
           /\ off[x].count = Cardinality(after[off[x].line])
  <2> TAKE x \in 1..Len(off)
  <2>1. /\ off[x].line \in 1..ln
        /\ off[x].col \in seen[off[x].line]
        /\ \A y \in seen[off[x].line] : off[x].col <= y
        /\ off[x].count = Cardinality(seen[off[x].line])
    BY DEF Tally
  <2>2. after[off[x].line] = seen[off[x].line]
    BY <2>1
  <2> QED
    BY <2>1, <2>2
<1>2. after[ln] = seen[ln]
  OBVIOUS
<1> QED
  BY <1>1, <1>2 DEF Tally

LEMMA TallyTab ==
    ASSUME NEW off, NEW ln \in Nat, ln >= 1, NEW cur, NEW seen, NEW after, Tally(off, ln, cur, seen),
           NEW c \in Nat, after[ln] = seen[ln] \cup {c}, \A k \in 1..ln : k # ln => after[k] = seen[k],
           IsFiniteSet(seen[ln]), \A y \in seen[ln] : y \in Nat /\ y < c
    PROVE  IF cur = 0
           THEN Tally(Append(off, [line |-> ln, col |-> c, count |-> 1]), ln, Len(off) + 1, after)
           ELSE cur \in 1..Len(off) /\ Tally([off EXCEPT ![cur].count = @ + 1], ln, cur, after)
<1> DEFINE R == [line : Nat, col : Nat, count : Nat]
<1>1. /\ off \in Seq(R) /\ Len(off) \in Nat
      /\ cur = IF seen[ln] = {} THEN 0 ELSE Len(off)
  BY DEF Tally
<1>r. \A r \in R : r.line \in Nat /\ r.col \in Nat /\ r.count \in Nat
  OBVIOUS
<1>s. \A r \in R : [r EXCEPT !.count = @ + 1] \in R
  OBVIOUS
<1>2. \A x \in 1..Len(off) :
           /\ off[x].line \in 1..ln
           /\ off[x].col \in seen[off[x].line]
           /\ \A y \in seen[off[x].line] : off[x].col <= y
           /\ off[x].count = Cardinality(seen[off[x].line])
  BY DEF Tally
<1>3. \A x, y \in 1..Len(off) : x < y => off[x].line < off[y].line
  BY DEF Tally
<1>4. \A k \in 1..ln : seen[k] # {} => \E x \in 1..Len(off) : off[x].line = k
  BY DEF Tally
<1>5. ln \in 1..ln
  OBVIOUS
<1>6. Cardinality(after[ln]) = Cardinality(seen[ln]) + 1 /\ Cardinality(seen[ln]) \in Nat
  <2>1. c \notin seen[ln]
    OBVIOUS
  <2> QED
    BY ZenonT(30), <2>1, FS_AddElement, FS_CardinalityType
<1>7. CASE cur = 0 /\ seen[ln] # {}
  <2>1. Len(off) = 0
    BY <1>1, <1>7
  <2> QED
    BY <1>1, <1>4, <1>5, <1>7, <2>1
<1>8. CASE cur = 0 /\ seen[ln] = {}
  <2> DEFINE o == [line |-> ln, col |-> c, count |-> 1]
             new == Append(off, o)
             n == Len(off)
  <2>1. o \in R /\ o.line = ln /\ o.col = c /\ o.count = 1
    OBVIOUS
  <2> HIDE DEF o, R
  <2>2. /\ new \in Seq(R) /\ Len(new) = n + 1
        /\ \A x \in 1..n : new[x] = off[x] /\ new[n + 1] = o
    BY <1>1, <2>1
  <2>3. new[n + 1] = o
    BY <1>1, <2>1
  <2>4. \A x \in 1..n : off[x].line \in 1..ln /\ off[x].line # ln /\ off[x].line < ln
    <3> TAKE x \in 1..n
    <3>1. off[x].line \in 1..ln /\ seen[off[x].line] # {}
      BY <1>2
    <3> QED
      BY <1>8, <3>1
  <2>5. after[ln] = {c} /\ Cardinality(after[ln]) = 1
    <3>1. Cardinality(seen[ln]) = 0
      BY <1>8, FS_EmptySet
    <3> QED
      BY <1>8, <1>6, <3>1
  <2> HIDE DEF new
  <2>6. \A x \in 1..(n + 1) : x \in 1..n \/ x = n + 1
    BY <1>1
  <2>7. \A x \in 1..(n + 1) :
           /\ new[x].line \in 1..ln
           /\ new[x].col \in after[new[x].line]
           /\ \A y \in after[new[x].line] : new[x].col <= y
           /\ new[x].count = Cardinality(after[new[x].line])
    <3> TAKE x \in 1..(n + 1)
    <3>1. CASE x = n + 1
      <4>1. new[x].line = ln /\ new[x].col = c /\ new[x].count = 1
        BY <2>1, <2>3, <3>1
      <4>2. \A y \in after[ln] : c <= y
        BY <2>5
      <4>3. c \in after[ln]
        BY <2>5
      <4> QED
        BY <1>5, <2>5, <4>1, <4>2, <4>3
    <3>2. CASE x \in 1..n
      <4>1. new[x] = off[x] /\ after[off[x].line] = seen[off[x].line]
        BY <2>2, <2>4, <3>2
      <4> QED
        BY <1>2, <3>2, <4>1
    <3> QED
      BY <2>6, <3>1, <3>2
  <2>8. \A x, y \in 1..(n + 1) : x < y => new[x].line < new[y].line
    <3> SUFFICES ASSUME NEW x \in 1..(n + 1), NEW y \in 1..(n + 1), x < y PROVE new[x].line < new[y].line
      OBVIOUS
    <3>0. x \in 1..n
      BY <1>1
    <3>1. x \in 1..n /\ new[x] = off[x]
      BY <2>2, <3>0
    <3>2. CASE y = n + 1
      BY <2>1, <2>3, <2>4, <3>1, <3>2
    <3>3. CASE y \in 1..n
      BY <1>3, <2>2, <3>1, <3>3
    <3> QED
      BY <2>6, <3>2, <3>3
  <2>9. \A k \in 1..ln : after[k] # {} => \E x \in 1..(n + 1) : new[x].line = k
    <3> SUFFICES ASSUME NEW k \in 1..ln, after[k] # {} PROVE \E x \in 1..(n + 1) : new[x].line = k
      OBVIOUS
    <3>1. CASE k = ln
      BY <1>1, <2>1, <2>3, <3>1
    <3>2. CASE k # ln
      <4>1. PICK x \in 1..n : off[x].line = k
        BY <1>4, <3>2
      <4>2. x \in 1..(n + 1)
        BY <1>1, <4>1
      <4>3. new[x].line = k
        BY <2>2, <4>1
      <4> QED
        BY <4>2, <4>3
    <3> QED
      BY <3>1, <3>2
  <2>10. n + 1 = IF after[ln] = {} THEN 0 ELSE n + 1
    BY <2>5
  <2>11. Tally(new, ln, n + 1, after)
    BY <2>2, <2>7, <2>8, <2>9, <2>10 DEF Tally, R
  <2> QED
    BY <1>8, <2>11 DEF new, o
<1>9. CASE cur # 0
  <2> DEFINE n == Len(off)
             new == [off EXCEPT ![n].count = @ + 1]
  <2> HIDE DEF R
  <2>1. cur = n /\ seen[ln] # {} /\ n \in 1..n
    BY <1>1, <1>9
  <2>2. off[n].line = ln
    <3>1. PICK x \in 1..n : off[x].line = ln
      BY <1>4, <1>5, <2>1
    <3>2. x = n
      <4> SUFFICES ASSUME x < n PROVE FALSE
        BY <1>1, <3>1
      <4>1. off[x].line < off[n].line /\ off[n].line \in 1..ln
        BY <1>2, <1>3, <2>1, <3>1
      <4> QED
        BY <3>1, <4>1
    <3> QED
      BY <3>1, <3>2
  <2>3. \A x \in 1..n : off[x] \in R
    BY <1>1
  <2>4. /\ new \in Seq(R) /\ Len(new) = n
        /\ \A x \in 1..n : new[x].line = off[x].line /\ new[x].col = off[x].col
        /\ \A x \in 1..n : x # n => new[x].count = off[x].count
        /\ new[n].count = off[n].count + 1
    <3> DEFINE up == [off[n] EXCEPT !.count = @ + 1]
    <3>2. up \in R /\ up.line = off[n].line /\ up.col = off[n].col /\ up.count = off[n].count + 1
      BY <1>s, <2>1, <2>3 DEF R
    <3>3. new = [off EXCEPT ![n] = up]
      BY <1>1, <2>1
    <3> HIDE DEF up
    <3>4. /\ \A x \in 1..n : x # n => new[x] = off[x]
          /\ new[n] = up
      BY <1>1, <2>1, <3>3
    <3>5. new \in Seq(R) /\ Len(new) = n
      <4>1. [off EXCEPT ![n] = up] \in Seq(R) /\ Len([off EXCEPT ![n] = up]) = n
        BY <1>1, <2>1, <3>2
      <4> QED
        BY <3>3, <4>1
    <3> QED
      BY <2>1, <2>3, <3>2, <3>4, <3>5
  <2> HIDE DEF new
  <2>5. \A x \in 1..n : x # n => off[x].line # ln /\ off[x].line < ln
    <3> SUFFICES ASSUME NEW x \in 1..n, x # n PROVE off[x].line # ln /\ off[x].line < ln
      OBVIOUS
    <3>1. x < n /\ off[x].line < off[n].line /\ off[x].line \in 1..ln
      BY <1>1, <1>2, <1>3, <2>1
    <3> QED
      BY <2>2, <3>1
  <2>6. \A x \in 1..n :
           /\ new[x].line \in 1..ln
           /\ new[x].col \in after[new[x].line]
           /\ \A y \in after[new[x].line] : new[x].col <= y
           /\ new[x].count = Cardinality(after[new[x].line])
    <3> TAKE x \in 1..n
    <3>1. CASE x # n
      <4>1. after[off[x].line] = seen[off[x].line] /\ off[x].line \in 1..ln
        BY <1>2, <2>5, <3>1
      <4> QED
        BY <1>2, <2>4, <3>1, <4>1
    <3>2. CASE x = n
      <4>1. new[x].line = ln /\ new[x].col = off[n].col /\ new[x].count = off[n].count + 1
        BY <2>1, <2>2, <2>4, <3>2
      <4>2. /\ off[n].col \in seen[ln] /\ off[n].count = Cardinality(seen[ln])
            /\ \A y \in seen[ln] : off[n].col <= y
        BY <1>2, <2>1, <2>2
      <4>3. off[n].col \in Nat /\ off[n].col <= c /\ off[n].col \in after[ln]
        BY <4>2
      <4>4. \A y \in after[ln] : off[n].col <= y
        BY <4>2, <4>3
      <4> QED
        BY <1>5, <1>6, <4>1, <4>2, <4>3, <4>4
    <3> QED
      BY <3>1, <3>2
  <2>7. \A x, y \in 1..n : x < y => new[x].line < new[y].line
    BY <1>3, <2>4
  <2>8. \A k \in 1..ln : after[k] # {} => \E x \in 1..n : new[x].line = k
    <3> SUFFICES ASSUME NEW k \in 1..ln, after[k] # {} PROVE \E x \in 1..n : off[x].line = k
      BY <2>4
    <3>1. CASE k = ln
      BY <2>1, <2>2, <3>1
    <3>2. CASE k # ln
      BY <1>4, <3>2
    <3> QED
      BY <3>1, <3>2
  <2>9. n = IF after[ln] = {} THEN 0 ELSE n
    OBVIOUS
  <2>10. Tally(new, ln, n, after)
    BY <2>4, <2>6, <2>7, <2>8, <2>9 DEF Tally, R
  <2> QED
    BY <1>9, <2>1, <2>10 DEF new
<1> QED
  BY <1>7, <1>8, <1>9

LEMMA ReportInitRInv == ReportInit => RInv
<1> SUFFICES ASSUME ReportInit PROVE RInv
  OBVIOUS
<1>1. /\ text \in Texts /\ phase = "scan" /\ at = 1 /\ line = 1 /\ col = 1
      /\ offending = <<>> /\ curIdx = 0 /\ todo = {} /\ ds = <<>> /\ report = <<>>
  BY DEF ReportInit
<1>2. Src \in Seq(ToSet(text)) /\ Len(Src) \in Nat
  BY <1>1, SrcIsText
<1>3. /\ Count(Src) \in Nat /\ Count(Src) >= 1 /\ StartOf(Src, 1) = 1
      /\ EndOf(Src, 1) \in 1..(Len(Src) + 1)
  BY <1>2, LineFacts
<1>4. Placed
  BY <1>1, <1>3 DEF Placed
<1>5. Seen[1] = {}
  <2>1. Seen[1] = {x \in Tabs(Src, 1) : 1 < 1 \/ x < 1}
    BY <1>1 DEF Seen
  <2>2. \A x \in Tabs(Src, 1) : x \in Nat /\ x >= 1
    BY DEF Tabs
  <2> QED
    BY <2>1, <2>2
<1>6. Tallied
  BY <1>1, <1>5 DEF Tallied, Tally
<1>7. Phases
  BY <1>1 DEF Phases
<1> QED
  BY <1>4, <1>6, <1>7 DEF RInv

(* A step that leaves the scanner where it is keeps what it knows. *)
LEMMA ScannerKept ==
    ASSUME Placed, Tallied, UNCHANGED <<text, scanner>>
    PROVE  Placed' /\ Tallied' /\ Src' = Src
<1>1. UNCHANGED <<text, at, line, col, offending, curIdx>>
  BY DEF scanner
<1>2. Src' = Src
  BY <1>1 DEF Src
<1>3. Seen' = Seen
  BY <1>1, <1>2 DEF Seen
<1>4. Placed'
  BY <1>1, <1>2 DEF Placed
<1>5. Tallied'
  BY <1>1, <1>3 DEF Tallied
<1> QED
  BY <1>2, <1>4, <1>5

(* A step of the scan, which leaves all else alone. *)
Scanning == phase = "scan" /\ UNCHANGED <<text, phase, todo, ds, report>>

LEMMA ScanningPhases ==
    ASSUME RInv, Scanning
    PROVE  Phases' /\ Src' = Src /\ text' \in Texts
<1>1. Src' = Src
  BY DEF Scanning, Src
<1>2. Phases'
  BY DEF RInv, Phases, Scanning
<1> QED
  BY <1>1, <1>2 DEF RInv, Placed, Scanning

LEMMA ScanBreakStep ==
    ASSUME RInv, phase = "scan", at <= Len(Src), ScanBreak
    PROVE  RInv'
<1>1. /\ Src[at] \in {LF, CR} /\ line' = line + 1 /\ col' = 1 /\ curIdx' = 0
      /\ UNCHANGED <<offending, text, phase, todo, ds, report>>
      /\ at' = at + (IF Src[at] = CR /\ at < Len(Src) /\ Src[at + 1] = LF THEN 2 ELSE 1)
  BY DEF ScanBreak, Consumed
<1>2. Phases' /\ Src' = Src /\ text' \in Texts
  BY <1>1, ScanningPhases DEF Scanning
<1>3. Placed /\ text \in Texts
  BY DEF RInv, Placed
<1> DEFINE st == StartOf(Src, line)
           e == EndOf(Src, line)
<1>4. /\ line \in Nat /\ line >= 1 /\ st \in Nat /\ st >= 1 /\ e \in Nat /\ st <= e
      /\ \A q \in st..(e - 1) : Src[q] \notin {LF, CR}
      /\ e <= Len(Src) => line + 1 \in 1..Count(Src) /\ StartOf(Src, line + 1) = AfterBreak(Src, e)
  BY <1>3, SrcLines DEF Placed
<1>5. at = st + col - 1 /\ at <= e /\ col \in Nat /\ col >= 1 /\ line <= at
  BY <1>3 DEF Placed
<1> HIDE DEF st, e
<1>6. at = e
  <2> SUFFICES ASSUME at # e PROVE FALSE
    OBVIOUS
  <2>1. at \in st..(e - 1)
    BY <1>4, <1>5
  <2> QED
    BY <1>1, <1>4, <2>1
<1>7. at' = AfterBreak(Src, e) /\ line + 1 \in 1..Count(Src) /\ StartOf(Src, line + 1) = at'
  BY <1>1, <1>4, <1>6 DEF AfterBreak
<1>8. at' \in Nat /\ line + 1 <= at'
  BY <1>1, <1>4, <1>5, <1>6
<1>9. at' <= EndOf(Src, line + 1)
  BY <1>3, <1>7, SrcLines
<1>10. Placed'
  BY <1>1, <1>2, <1>7, <1>8, <1>9 DEF Placed
<1> DEFINE after == [k \in 1..(line + 1) |-> {x \in Tabs(Src, k) : k < line + 1 \/ x < 1}]
<1>11. Seen' = after
  BY <1>1, <1>2 DEF Seen
<1>12. \A k \in 1..line : after[k] = Seen[k]
  <2> TAKE k \in 1..line
  <2>1. \A x \in Tabs(Src, k) : k < line \/ x < col
    <3> SUFFICES ASSUME NEW x \in Tabs(Src, k), ~(k < line) PROVE x < col
      OBVIOUS
    <3>1. k = line
      BY <1>4
    <3>2. x \in 1..(e - st)
      BY <3>1 DEF Tabs, e, st
    <3> QED
      BY <3>2, <1>4, <1>5, <1>6
  <2>2. k < line + 1 /\ k \in 1..(line + 1)
    BY <1>4
  <2> QED
    BY <2>1, <2>2 DEF Seen
<1>13. after[line + 1] = {}
  <2>1. after[line + 1] = {x \in Tabs(Src, line + 1) : line + 1 < line + 1 \/ x < 1}
    BY <1>4
  <2>2. \A x \in Tabs(Src, line + 1) : x \in Nat /\ x >= 1
    BY DEF Tabs
  <2> QED
    BY <2>1, <2>2, <1>4
<1> HIDE DEF after
<1>14. Tally(offending, line, curIdx, Seen)
  BY DEF RInv, Tallied
<1>15. Tally(offending, line + 1, 0, after)
  BY <1>4, <1>12, <1>13, <1>14, TallyBreak
<1>16. Tallied'
  BY <1>1, <1>11, <1>15 DEF Tallied
<1> QED
  BY <1>2, <1>10, <1>16 DEF RInv

(* The place moves on within the line when the rune is no break. *)
LEMMA WithinLine ==
    ASSUME RInv, phase = "scan", at <= Len(Src), Src[at] \notin {LF, CR},
           at' = at + 1, col' = col + 1, line' = line, UNCHANGED <<text, phase, todo, ds, report>>
    PROVE  /\ Phases' /\ Placed' /\ Src' = Src
           /\ line \in Nat /\ line >= 1 /\ col \in Nat
           /\ \A k \in 1..line : k # line => Seen'[k] = Seen[k]
           /\ Seen'[line] = IF Src[at] = Tab THEN Seen[line] \cup {col} ELSE Seen[line]
           /\ IsFiniteSet(Seen[line]) /\ \A y \in Seen[line] : y \in Nat /\ y < col
<1>2. Phases' /\ Src' = Src /\ text' \in Texts
  BY ScanningPhases DEF Scanning
<1>3. Placed /\ text \in Texts
  BY DEF RInv, Placed
<1> DEFINE st == StartOf(Src, line)
           e == EndOf(Src, line)
<1>4. /\ line \in Nat /\ line >= 1 /\ st \in Nat /\ st >= 1 /\ e \in Nat /\ st <= e
      /\ e <= Len(Src) => Src[e] \in {LF, CR}
  BY <1>3, SrcLines DEF Placed
<1>5. at = st + col - 1 /\ at <= e /\ col \in Nat /\ col >= 1 /\ line <= at /\ line \in 1..Count(Src)
  BY <1>3 DEF Placed
<1> HIDE DEF st, e
<1>6. at < e
  BY <1>4, <1>5
<1>7. at + 1 = st + (col + 1) - 1 /\ at + 1 <= e /\ col + 1 \in Nat /\ col + 1 >= 1 /\ line <= at + 1
  BY <1>4, <1>5, <1>6
<1>8. Placed'
  BY <1>2, <1>5, <1>7 DEF Placed, st, e
<1>9. col \in 1..(e - st) /\ st + col - 1 = at
  BY <1>4, <1>5, <1>6
<1>10. Seen' = [k \in 1..line |-> {x \in Tabs(Src, k) : k < line \/ x < col + 1}]
  BY <1>2 DEF Seen
<1>11. \A k \in 1..line : k # line => Seen'[k] = Seen[k]
  <2> SUFFICES ASSUME NEW k \in 1..line, k # line PROVE Seen'[k] = Seen[k]
    OBVIOUS
  <2>1. k < line
    BY <1>4
  <2>2. Seen'[k] = Tabs(Src, k)
    BY <1>10, <2>1
  <2> QED
    BY <2>1, <2>2 DEF Seen
<1>12. line \in 1..line /\ ~(line < line)
  BY <1>4
<1>13. \A x \in Tabs(Src, line) : x \in Nat
  BY DEF Tabs
<1>14. Seen[line] = {x \in Tabs(Src, line) : x < col}
  BY <1>12 DEF Seen
<1>15. Seen'[line] = {x \in Tabs(Src, line) : x < col + 1}
  BY <1>10, <1>12
<1>16. Seen'[line] = {x \in Tabs(Src, line) : x < col \/ x = col}
  <2>1. \A x \in Tabs(Src, line) : x < col + 1 <=> x < col \/ x = col
    BY <1>5, <1>13
  <2> QED
    BY <1>15, <2>1
<1>17. col \in Tabs(Src, line) <=> Src[at] = Tab
  BY <1>9 DEF Tabs, st, e
<1>18. Seen'[line] = IF Src[at] = Tab THEN Seen[line] \cup {col} ELSE Seen[line]
  BY <1>14, <1>16, <1>17
<1>19. IsFiniteSet(Seen[line]) /\ \A y \in Seen[line] : y \in Nat /\ y < col
  <2>1. IsFiniteSet(Tabs(Src, line))
    BY <1>3, <1>5, SeenFinite
  <2>2. Seen[line] \subseteq Tabs(Src, line)
    BY <1>14
  <2> QED
    BY <1>13, <1>14, <2>1, <2>2, FS_Subset
<1> QED
  BY <1>2, <1>4, <1>5, <1>8, <1>11, <1>18, <1>19

LEMMA ScanOtherStep ==
    ASSUME RInv, phase = "scan", at <= Len(Src), ScanOther
    PROVE  RInv'
<1>1. /\ Src[at] \notin {LF, CR} /\ Src[at] # Tab /\ at' = at + 1 /\ col' = col + 1
      /\ UNCHANGED <<line, offending, curIdx, text, phase, todo, ds, report>>
  BY DEF ScanOther, Consumed
<1>2. /\ Phases' /\ Placed' /\ line \in Nat /\ line >= 1
      /\ \A k \in 1..line : k # line => Seen'[k] = Seen[k]
      /\ Seen'[line] = Seen[line]
  BY <1>1, WithinLine
<1> DEFINE after == Seen'
<1>3. \A k \in 1..line : after[k] = Seen[k]
  BY <1>2
<1>4. Tally(offending, line, curIdx, Seen)
  BY DEF RInv, Tallied
<1> HIDE DEF after
<1>5. Tally(offending, line, curIdx, after)
  BY <1>2, <1>3, <1>4, TallyOther
<1>6. Tallied'
  BY <1>1, <1>5 DEF Tallied, after
<1> QED
  BY <1>2, <1>6 DEF RInv

LEMMA ScanTabStep ==
    ASSUME RInv, phase = "scan", at <= Len(Src), ScanTab
    PROVE  RInv'
<1>1. /\ Src[at] = Tab /\ Src[at] \notin {LF, CR} /\ at' = at + 1 /\ col' = col + 1
      /\ UNCHANGED <<line, text, phase, todo, ds, report>>
      /\ IF curIdx = 0
         THEN /\ offending' = Append(offending, [line |-> line, col |-> col, count |-> 1])
              /\ curIdx' = Len(offending) + 1
         ELSE offending' = [offending EXCEPT ![curIdx].count = @ + 1] /\ curIdx' = curIdx
  BY TextAssumption DEF ScanTab, Consumed
<1>2. /\ Phases' /\ Placed' /\ line \in Nat /\ line >= 1 /\ col \in Nat
      /\ \A k \in 1..line : k # line => Seen'[k] = Seen[k]
      /\ Seen'[line] = Seen[line] \cup {col}
      /\ IsFiniteSet(Seen[line]) /\ \A y \in Seen[line] : y \in Nat /\ y < col
  BY <1>1, WithinLine
<1> DEFINE after == Seen'
<1>3. (\A k \in 1..line : k # line => after[k] = Seen[k]) /\ after[line] = Seen[line] \cup {col}
  BY <1>2
<1>4. Tally(offending, line, curIdx, Seen)
  BY DEF RInv, Tallied
<1> HIDE DEF after
<1>5. IF curIdx = 0
      THEN Tally(Append(offending, [line |-> line, col |-> col, count |-> 1]), line, Len(offending) + 1, after)
      ELSE Tally([offending EXCEPT ![curIdx].count = @ + 1], line, curIdx, after)
  BY <1>2, <1>3, <1>4, TallyTab
<1>6. Tally(offending', line', curIdx', after)
  BY <1>1, <1>5
<1>7. Tallied'
  BY <1>6 DEF Tallied, after
<1> QED
  BY <1>2, <1>7 DEF RInv

-----------------------------------------------------------------------------
(* What is said of keys, as the accumulator grows. *)

LEMMA AboutGrows ==
    ASSUME NEW s, NEW keys, NEW left, About(s, keys, left), NEW less \in SUBSET left,
           NEW d, NEW key \in keys, OfKey(d, key),
           d.kind = "unknown" => key \in left \ less,
           \A one, other \in keys : SamePlace(one, other) => one = other
    PROVE  About(Append(s, d), keys, less)
<1> DEFINE new == Append(s, d)
<1>1. s \in Seq(ToSet(s)) /\ Len(s) \in Nat
  BY DEF About
<1>2. new \in Seq(ToSet(new)) /\ Len(new) = Len(s) + 1
  BY <1>1, Appending
<1>3. (\A x \in 1..Len(s) : new[x] = s[x]) /\ new[Len(s) + 1] = d
  BY <1>1
<1> HIDE DEF new
<1>4. \A x \in 1..Len(new) : x \in 1..Len(s) \/ x = Len(s) + 1
  BY <1>1, <1>2
<1>5. d.line = key.line /\ d.col = key.col
  BY DEF OfKey
<1>6. \A x \in 1..Len(s) : s[x].kind = "unknown" /\ d.kind = "unknown" => ~SamePlace(s[x], d)
  BY <1>5 DEF About, SamePlace
<1>7. \A x \in 1..Len(new) : \E k \in keys : OfKey(new[x], k)
  BY <1>3, <1>4 DEF About
<1>8. \A x, y \in 1..Len(new) :
          new[x].kind = "unknown" /\ new[y].kind = "unknown" /\ SamePlace(new[x], new[y]) => x = y
  <2> SUFFICES ASSUME NEW x \in 1..Len(new), NEW y \in 1..Len(new), x # y,
                      new[x].kind = "unknown", new[y].kind = "unknown"
               PROVE  ~SamePlace(new[x], new[y])
    OBVIOUS
  <2>1. CASE x \in 1..Len(s) /\ y \in 1..Len(s)
    BY <1>3, <2>1 DEF About
  <2>2. CASE x \in 1..Len(s) /\ y = Len(s) + 1
    BY <1>3, <1>6, <2>2
  <2>3. CASE x = Len(s) + 1 /\ y \in 1..Len(s)
    <3>1. ~SamePlace(new[y], new[x])
      BY <1>3, <1>6, <2>3
    <3> QED
      BY <3>1 DEF SamePlace
  <2> QED
    BY <1>4, <2>1, <2>2, <2>3
<1>9. \A x \in 1..Len(new) : \A k \in less : new[x].kind = "unknown" => ~SamePlace(new[x], k)
  <2> SUFFICES ASSUME NEW x \in 1..Len(new), NEW k \in less, new[x].kind = "unknown"
               PROVE  ~SamePlace(new[x], k)
    OBVIOUS
  <2>1. CASE x \in 1..Len(s)
    BY <1>3, <2>1 DEF About
  <2>2. CASE x = Len(s) + 1
    <3>1. new[x] = d /\ key \in left /\ key # k /\ k \in keys
      BY <1>3, <2>2 DEF About
    <3>2. ~SamePlace(key, k)
      BY <3>1
    <3> QED
      BY <1>5, <3>1, <3>2 DEF SamePlace
  <2> QED
    BY <1>4, <2>1, <2>2
<1>10. less \subseteq keys
  BY DEF About
<1> QED
  BY <1>2, <1>7, <1>8, <1>9, <1>10 DEF About, new

LEMMA AboutFewer ==
    ASSUME NEW s, NEW keys, NEW left, About(s, keys, left), NEW less \in SUBSET left
    PROVE  About(s, keys, less)
BY DEF About

LEMMA AboutHint ==
    ASSUME NEW s, NEW keys, NEW left, About(s, keys, left), Len(s) # 0,
           s[Len(s)].kind = "unknown", NEW b \in Words \cup {None}
    PROVE  About([s EXCEPT ![Len(s)].hint = b], keys, left)
<1> DEFINE n == Len(s)
           up == [s[n] EXCEPT !.hint = b]
           new == [s EXCEPT ![n] = up]
<1>1. s \in Seq(ToSet(s)) /\ n \in Nat /\ n \in 1..n
  BY DEF About
<1>2. PICK key \in keys : OfKey(s[n], key)
  BY <1>1 DEF About
<1>3. OfKey(up, key) /\ up.line = s[n].line /\ up.col = s[n].col /\ up.kind = s[n].kind
  BY <1>2 DEF OfKey
<1>4. [s EXCEPT ![Len(s)].hint = b] = new
  BY <1>1
<1> DEFINE T == ToSet(s) \cup {up}
<1> HIDE DEF up
<1>5. s \in Seq(T)
  BY <1>1
<1>6. new \in Seq(T) /\ Len(new) = n /\ \A x \in 1..n : new[x] = IF x = n THEN up ELSE s[x]
  BY <1>1, <1>5, ExceptSeq
<1> HIDE DEF new
<1>7. new \in Seq(ToSet(new))
  BY <1>6, OwnSeq
<1>8. \A x \in 1..n : \E k \in keys : OfKey(new[x], k)
  BY <1>3, <1>6 DEF About
<1>9. \A x \in 1..n : new[x].kind = s[x].kind /\ new[x].line = s[x].line /\ new[x].col = s[x].col
  BY <1>3, <1>6
<1>10. About(new, keys, left)
  BY <1>6, <1>7, <1>8, <1>9 DEF About, SamePlace
<1> QED
  BY <1>4, <1>10

LEMMA KeysApart ==
    ASSUME text \in Texts
    PROVE  \A one, other \in Keys(Src) : SamePlace(one, other) => one = other
<1>1. Src \in Seq(ToSet(text))
  BY SrcIsText
<1> QED
  BY <1>1, TextAssumption, KeysByPlace DEF SamePlace

-----------------------------------------------------------------------------
(* After the scan *)

LEMMA ParseStep == ASSUME RInv, Parse PROVE RInv'
<1>1. /\ phase = "scan" /\ at > Len(Src) /\ ds' = TabDiagnostics
      /\ phase' = IF ds' = <<>> THEN "walk" ELSE "render"
      /\ todo' = IF ds' = <<>> THEN Keys(Src) ELSE {}
      /\ UNCHANGED <<text, scanner, report>>
  BY DEF Parse
<1>2. Placed' /\ Tallied' /\ Src' = Src
  BY <1>1, ScannerKept DEF RInv
<1>3. at' = at /\ offending' = offending
  BY <1>1 DEF scanner
<1>4. TabDiagnostics = <<>> <=> offending = <<>>
  <2>1. offending \in Seq([line : Nat, col : Nat, count : Nat])
    BY DEF RInv, Tallied, Tally
  <2> DEFINE n == Len(offending)
             few == [x \in 1..n |-> TabDiagnostic(offending[x])]
             first == [x \in 1..MaxTabs |-> TabDiagnostic(offending[x])]
             more == Diagnostic("more", <<0, 0>>, 0, 0, 0, n - MaxTabs)
  <2>2. n \in Nat /\ (n = 0 <=> offending = <<>>)
    BY <2>1, EmptySeq
  <2>3. TabDiagnostics = IF n <= MaxTabs THEN few ELSE Append(first, more)
    BY DEF TabDiagnostics
  <2>4. DOMAIN few = 1..n
    OBVIOUS
  <2>5. n = 0 => few = <<>>
    BY <2>2
  <2>6. n # 0 => few # <<>>
    <3>1. n # 0 => 1 \in DOMAIN few
      BY <2>2
    <3>2. DOMAIN <<>> = {}
      OBVIOUS
    <3> QED
      BY <3>1, <3>2
  <2>7. first \in Seq({TabDiagnostic(offending[x]) : x \in 1..MaxTabs})
    BY MessageAssumption
  <2> HIDE DEF few, first, more
  <2>8. Append(first, more) # <<>>
    <3>1. Len(Append(first, more)) = Len(first) + 1 /\ Len(first) \in Nat
      BY <2>7
    <3> QED
      BY <3>1
  <2> QED
    BY <2>2, <2>3, <2>5, <2>6, <2>8, MessageAssumption
<1>5. TabDiagnostics' = TabDiagnostics
  BY <1>3 DEF TabDiagnostics, TabDiagnostic
<1>6. report' = <<>>
  BY <1>1 DEF RInv, Phases
<1>7. offending = <<>> => About(<<>>, Keys(Src), Keys(Src))
  BY DEF About
<1>8. Phases'
  <2>1. CASE offending = <<>>
    <3>1. ds' = <<>> /\ phase' = "walk" /\ todo' = Keys(Src)
      BY <1>1, <1>4, <2>1
    <3> QED
      BY <1>1, <1>2, <1>3, <1>6, <1>7, <2>1, <3>1 DEF Phases
  <2>2. CASE offending # <<>>
    <3>1. ds' # <<>> /\ phase' = "render" /\ todo' = {}
      BY <1>1, <1>4, <2>2
    <3> QED
      BY <1>1, <1>2, <1>3, <1>5, <1>6, <2>2, <3>1 DEF Phases
  <2> QED
    BY <2>1, <2>2
<1> QED
  BY <1>2, <1>8 DEF RInv

(* What the later steps have in common: no tab was seen. *)
LEMMA Walking ==
    ASSUME RInv, phase \in {"walk", "suggest"}, UNCHANGED <<text, scanner, report>>,
           phase' \in {"walk", "suggest", "render"}
    PROVE  /\ Placed' /\ Tallied' /\ Src' = Src /\ at' > Len(Src') /\ offending' = <<>> /\ report' = <<>>
           /\ About(ds, Keys(Src), todo)
           /\ \A one, other \in Keys(Src) : SamePlace(one, other) => one = other
<1>1. Placed' /\ Tallied' /\ Src' = Src
  BY ScannerKept DEF RInv
<1>2. at' = at /\ offending' = offending
  BY DEF scanner
<1>3. at > Len(Src) /\ offending = <<>> /\ report = <<>> /\ About(ds, Keys(Src), todo)
  BY DEF RInv, Phases
<1>4. text \in Texts
  BY DEF RInv, Placed
<1> QED
  BY <1>1, <1>2, <1>3, <1>4, KeysApart

LEMMA KnownKeyStep ==
    ASSUME RInv, NEW key \in todo, NEW vocabulary, KnownKey(key, vocabulary) PROVE RInv'
<1>1. /\ phase = "walk" /\ todo' = todo \ {key} /\ phase' = phase /\ ds' = ds
      /\ UNCHANGED <<text, scanner, report>>
  BY DEF KnownKey
<1>2. /\ Placed' /\ Tallied' /\ Src' = Src /\ at' > Len(Src') /\ offending' = <<>> /\ report' = <<>>
      /\ About(ds, Keys(Src), todo)
  BY <1>1, Walking
<1>3. About(ds, Keys(Src), todo \ {key})
  BY <1>2, AboutFewer
<1>4. Phases'
  BY <1>1, <1>2, <1>3 DEF Phases
<1> QED
  BY <1>2, <1>4 DEF RInv

LEMMA UnknownKeyStep ==
    ASSUME RInv, NEW key \in todo, NEW vocabulary, UnknownKey(key, vocabulary) PROVE RInv'
<1> DEFINE d == Diagnostic("unknown", <<key.line, key.col>>, key.end, 0, 0, key.word)
<1>1. /\ phase = "walk" /\ todo' = todo \ {key} /\ phase' = "suggest" /\ ds' = Append(ds, d)
      /\ UNCHANGED <<text, scanner, report>>
  BY DEF UnknownKey
<1>2. /\ Placed' /\ Tallied' /\ Src' = Src /\ at' > Len(Src') /\ offending' = <<>> /\ report' = <<>>
      /\ About(ds, Keys(Src), todo)
      /\ \A one, other \in Keys(Src) : SamePlace(one, other) => one = other
  BY <1>1, Walking
<1>3. OfKey(d, key) /\ d.kind = "unknown" /\ key \in Keys(Src)
  BY <1>2 DEF OfKey, Diagnostic, About
<1> HIDE DEF d
<1>4. About(Append(ds, d), Keys(Src), todo \ {key})
  BY <1>2, <1>3, AboutGrows
<1>5. Len(ds') # 0 /\ ds'[Len(ds')].kind = "unknown"
  BY <1>1, <1>2, <1>3 DEF About
<1>6. Phases'
  BY <1>1, <1>2, <1>4, <1>5 DEF Phases
<1> QED
  BY <1>2, <1>6 DEF RInv

LEMMA SuggestingStep == ASSUME RInv, Suggesting PROVE RInv'
<1>1. phase = "suggest" /\ UNCHANGED <<text, phase, scanner, todo, ds, report>>
  BY DEF Suggesting
<1>2. /\ Placed' /\ Tallied' /\ Src' = Src /\ at' > Len(Src') /\ offending' = <<>> /\ report' = <<>>
      /\ About(ds, Keys(Src), todo)
  BY <1>1, Walking
<1>3. Len(ds) # 0 /\ ds[Len(ds)].kind = "unknown"
  BY <1>1 DEF RInv, Phases
<1>4. Phases'
  BY <1>1, <1>2, <1>3 DEF Phases
<1> QED
  BY <1>2, <1>4 DEF RInv

LEMMA HintStep == ASSUME RInv, SuggestTypeOK, Hint PROVE RInv'
<1>1. /\ phase = "suggest" /\ ds' = [ds EXCEPT ![Len(ds)].hint = best] /\ phase' = "walk"
      /\ todo' = todo /\ UNCHANGED <<text, scanner, report>>
  BY DEF Hint
<1>2. /\ Placed' /\ Tallied' /\ Src' = Src /\ at' > Len(Src') /\ offending' = <<>> /\ report' = <<>>
      /\ About(ds, Keys(Src), todo)
  BY <1>1, Walking
<1>3. Len(ds) # 0 /\ ds[Len(ds)].kind = "unknown" /\ best \in Words \cup {None}
  BY <1>1 DEF RInv, Phases, SuggestTypeOK
<1>4. About([ds EXCEPT ![Len(ds)].hint = best], Keys(Src), todo)
  BY <1>2, <1>3, AboutHint
<1>5. Phases'
  BY <1>1, <1>2, <1>4 DEF Phases
<1> QED
  BY <1>2, <1>5 DEF RInv

LEMMA BlameStep ==
    ASSUME RInv, phase = "walk", todo = {}, NEW key \in Keys(Src), NEW severity \in {0, 1},
           NEW message \in Messages, Blame(key, severity, message)
    PROVE  RInv'
<1> DEFINE d == Diagnostic("other", <<key.line, key.col>>, key.end, severity, message, key.word)
<1>1. ds' = Append(ds, d) /\ phase' = phase /\ todo' = todo /\ UNCHANGED <<text, scanner, report>>
  BY DEF Blame
<1>2. /\ Placed' /\ Tallied' /\ Src' = Src /\ at' > Len(Src') /\ offending' = <<>> /\ report' = <<>>
      /\ About(ds, Keys(Src), todo)
      /\ \A one, other \in Keys(Src) : SamePlace(one, other) => one = other
  BY <1>1, Walking
<1>3. OfKey(d, key) /\ d.kind = "other"
  BY DEF OfKey, Diagnostic
<1> HIDE DEF d
<1>4. About(Append(ds, d), Keys(Src), todo)
  <2>1. d.kind # "unknown" /\ todo \in SUBSET todo
    BY <1>3
  <2> QED
    BY <1>2, <1>3, <2>1, AboutGrows
<1>5. Phases'
  BY <1>1, <1>2, <1>4 DEF Phases
<1> QED
  BY <1>2, <1>5 DEF RInv

LEMMA WalkedStep == ASSUME RInv, Walked PROVE RInv'
<1>1. /\ phase = "walk" /\ todo = {} /\ phase' = "render" /\ UNCHANGED <<text, scanner, todo, ds, report>>
  BY DEF Walked
<1>2. /\ Placed' /\ Tallied' /\ Src' = Src /\ at' > Len(Src') /\ offending' = <<>> /\ report' = <<>>
      /\ About(ds, Keys(Src), todo)
  BY <1>1, Walking
<1>3. Phases'
  BY <1>1, <1>2 DEF Phases
<1> QED
  BY <1>2, <1>3 DEF RInv

LEMMA RenderStep == ASSUME RInv, Render PROVE RInv'
<1>1. /\ phase = "render" /\ phase' = "done" /\ UNCHANGED <<text, scanner, todo, ds>>
      /\ report' = Printout
  BY DEF Render, Printout
<1>2. Placed' /\ Tallied' /\ Src' = Src
  BY <1>1, ScannerKept DEF RInv
<1>3. at' = at /\ offending' = offending
  BY <1>1 DEF scanner
<1>4. TabDiagnostics' = TabDiagnostics
  BY <1>3 DEF TabDiagnostics, TabDiagnostic
<1>5. Printout' = Printout
  BY <1>1, <1>2 DEF Printout, Block
<1>6. Phases'
  BY <1>1, <1>2, <1>3, <1>4, <1>5 DEF RInv, Phases
<1> QED
  BY <1>2, <1>6 DEF RInv

-----------------------------------------------------------------------------
(* Suggest is asked as its specification lets it be. *)

LEMMA StepAsks == [ReportNext]_reportVars => [Next]_vars
<1> SUFFICES ASSUME [ReportNext]_reportVars PROVE [Next]_vars
  OBVIOUS
<1>1. CASE UNCHANGED reportVars
  BY <1>1 DEF reportVars
<1>2. CASE Scan
  BY <1>2 DEF Scan, ScanBreak, ScanTab, ScanOther, Consumed
<1>3. CASE Parse
  BY <1>3 DEF Parse
<1>4. CASE \E key \in todo, vocabulary \in Orders : KnownKey(key, vocabulary) \/ UnknownKey(key, vocabulary)
  BY <1>4 DEF KnownKey, UnknownKey, Next
<1>5. CASE Suggesting
  BY <1>5 DEF Suggesting, Next
<1>6. CASE Hint
  BY <1>6 DEF Hint, Next
<1>7. CASE /\ phase = "walk" /\ todo = {}
           /\ \E key \in Keys(Src), severity \in {0, 1}, message \in Messages : Blame(key, severity, message)
  BY <1>7 DEF Blame
<1>8. CASE Walked
  BY <1>8 DEF Walked
<1>9. CASE Render
  BY <1>9 DEF Render
<1> QED
  BY <1>1, <1>2, <1>3, <1>4, <1>5, <1>6, <1>7, <1>8, <1>9 DEF ReportNext

(* Whatever is walked and in whatever order, suggest is called one word at a  *)
(* time and runs as Suggest says: what is proved of it holds of every report. *)
THEOREM ReportAsksSuggest == ReportSpec => Spec
<1>1. ReportInit => Init
  BY DEF ReportInit
<1> QED
  BY <1>1, StepAsks, PTL DEF ReportSpec, Spec

LEMMA ReportStep == RInv /\ SuggestTypeOK /\ [ReportNext]_reportVars => RInv'
<1> SUFFICES ASSUME RInv, SuggestTypeOK, [ReportNext]_reportVars PROVE RInv'
  OBVIOUS
<1>1. CASE UNCHANGED reportVars
  <2>1. UNCHANGED <<text, phase, scanner, todo, ds, report>>
    BY <1>1 DEF reportVars
  <2>2. Placed' /\ Tallied' /\ Src' = Src
    BY <2>1, ScannerKept DEF RInv
  <2>3. at' = at /\ offending' = offending
    BY <2>1 DEF scanner
  <2>4. TabDiagnostics' = TabDiagnostics
    BY <2>3 DEF TabDiagnostics, TabDiagnostic
  <2>5. Printout' = Printout
    BY <2>1, <2>2 DEF Printout, Block
  <2>6. Phases'
    BY <2>1, <2>2, <2>3, <2>4, <2>5 DEF RInv, Phases
  <2> QED
    BY <2>2, <2>6 DEF RInv
<1>2. CASE Scan
  BY <1>2, ScanBreakStep, ScanTabStep, ScanOtherStep DEF Scan
<1>3. CASE Parse
  BY <1>3, ParseStep
<1>4. CASE \E key \in todo, vocabulary \in Orders : KnownKey(key, vocabulary) \/ UnknownKey(key, vocabulary)
  BY <1>4, KnownKeyStep, UnknownKeyStep
<1>5. CASE Suggesting
  BY <1>5, SuggestingStep
<1>6. CASE Hint
  BY <1>6, HintStep
<1>7. CASE /\ phase = "walk" /\ todo = {}
           /\ \E key \in Keys(Src), severity \in {0, 1}, message \in Messages : Blame(key, severity, message)
  BY <1>7, BlameStep
<1>8. CASE Walked
  BY <1>8, WalkedStep
<1>9. CASE Render
  BY <1>9, RenderStep
<1> QED
  BY <1>1, <1>2, <1>3, <1>4, <1>5, <1>6, <1>7, <1>8, <1>9 DEF ReportNext

(* The invariant of Report; that a hint is a word is known from suggest alone, *)
(* whose invariant holds because Report asks it as it may be asked.             *)
THEOREM ReportInvariant == ReportSpec => [](RInv /\ SuggestTypeOK)
<1>1. ReportSpec => []SuggestTypeOK
  BY ReportAsksSuggest, SuggestTypeCorrect, PTL
<1> QED
  BY <1>1, ReportInitRInv, ReportStep, PTL DEF ReportSpec

-----------------------------------------------------------------------------
(* What the invariant says once the text is scanned. *)

Tabbed == [k \in 1..Count(Src) |-> Tabs(Src, k)]

LEMMA Scanned ==
    ASSUME RInv, phase # "scan"
    PROVE  text \in Texts /\ Count(Src) \in Nat /\ Tally(offending, Count(Src), curIdx, Tabbed)
<1>1. /\ text \in Texts /\ line \in 1..Count(Src) /\ col \in Nat /\ col >= 1
      /\ at = StartOf(Src, line) + col - 1 /\ at <= EndOf(Src, line) /\ at > Len(Src)
  BY DEF RInv, Placed, Phases
<1> DEFINE st == StartOf(Src, line)
           e == EndOf(Src, line)
<1>2. /\ Count(Src) \in Nat /\ st \in Nat /\ e \in Nat /\ e <= Len(Src) + 1 /\ Len(Src) \in Nat
      /\ line < Count(Src) => e <= Len(Src)
  BY <1>1, SrcLines, SrcIsText
<1>3. at = st + col - 1 /\ at <= e
  BY <1>1
<1> HIDE DEF st, e
<1>4. at = e /\ line = Count(Src)
  BY <1>1, <1>2, <1>3
<1>5. \A k \in 1..Count(Src) : \A x \in Tabs(Src, k) : k < line \/ x < col
  <2> TAKE k \in 1..Count(Src)
  <2> TAKE x \in Tabs(Src, k)
  <2>1. CASE k = line
    <3>1. x \in 1..(e - st)
      BY <2>1 DEF Tabs, e, st
    <3> QED
      BY <1>1, <1>2, <1>3, <1>4, <3>1
  <2>2. CASE k # line
    BY <1>2, <1>4, <2>2
  <2> QED
    BY <2>1, <2>2
<1>6. Seen = Tabbed
  <2>1. Seen = [k \in 1..Count(Src) |-> {x \in Tabs(Src, k) : k < line \/ x < col}]
    BY <1>4 DEF Seen
  <2>2. \A k \in 1..Count(Src) : {x \in Tabs(Src, k) : k < line \/ x < col} = Tabs(Src, k)
    BY <1>5
  <2> QED
    BY <2>1, <2>2 DEF Tabbed
<1> QED
  BY <1>1, <1>2, <1>4, <1>6 DEF RInv, Tallied

LEMMA TabDiagnosticsAre ==
    ASSUME NEW n \in Nat, n = Len(offending)
    PROVE  /\ TabDiagnostics \in Seq(ToSet(TabDiagnostics))
           /\ Len(TabDiagnostics) = IF n <= MaxTabs THEN n ELSE MaxTabs + 1
           /\ \A x \in 1..Len(TabDiagnostics) :
                  IF x <= MaxTabs THEN x \in 1..n /\ TabDiagnostics[x] = TabDiagnostic(offending[x])
                  ELSE n > MaxTabs /\ x = MaxTabs + 1
                       /\ TabDiagnostics[x] = Diagnostic("more", <<0, 0>>, 0, 0, 0, n - MaxTabs)
<1>1. CASE n <= MaxTabs
  <2> DEFINE f == [x \in 1..n |-> TabDiagnostic(offending[x])]
  <2>1. TabDiagnostics = f
    BY <1>1 DEF TabDiagnostics
  <2>2. f \in Seq({f[x] : x \in 1..n}) /\ Len(f) = n
    OBVIOUS
  <2>3. f \in Seq(ToSet(f))
    BY <2>2, OwnSeq
  <2> QED
    BY <1>1, <2>1, <2>2, <2>3, MessageAssumption
<1>2. CASE ~(n <= MaxTabs)
  <2> DEFINE f == [x \in 1..MaxTabs |-> TabDiagnostic(offending[x])]
             more == Diagnostic("more", <<0, 0>>, 0, 0, 0, n - MaxTabs)
  <2>1. TabDiagnostics = Append(f, more)
    BY <1>2 DEF TabDiagnostics
  <2>2. f \in Seq({f[x] : x \in 1..MaxTabs}) /\ Len(f) = MaxTabs
    BY MessageAssumption
  <2>3. f \in Seq(ToSet(f))
    BY <2>2, OwnSeq
  <2>4. \A x \in 1..MaxTabs : f[x] = TabDiagnostic(offending[x])
    OBVIOUS
  <2> HIDE DEF f, more
  <2>5. Append(f, more) \in Seq(ToSet(Append(f, more))) /\ Len(Append(f, more)) = MaxTabs + 1
    BY <2>2, <2>3, Appending
  <2>6. (\A x \in 1..MaxTabs : Append(f, more)[x] = f[x]) /\ Append(f, more)[MaxTabs + 1] = more
    BY <2>2, MessageAssumption
  <2> QED
    BY <1>2, <2>1, <2>4, <2>5, <2>6, MessageAssumption DEF more
<1> QED
  BY <1>1, <1>2

(* Every diagnostic has numbers to be sorted by, and a hint that is a word. *)
LEMMA DiagnosticsNumbered ==
    ASSUME RInv
    PROVE  /\ ds \in Seq(ToSet(ds)) /\ Len(ds) \in Nat /\ DOMAIN ds = 1..Len(ds)
           /\ \A d \in ToSet(ds) : Numbered(d) /\ d.hint \in Words \cup {None}
<1>1. CASE phase = "scan"
  BY <1>1 DEF RInv, Phases, ToSet
<1>2. CASE phase # "scan" /\ offending = <<>>
  <2>1. About(ds, Keys(Src), todo) /\ Src \in Seq(ToSet(text))
    BY <1>2, SrcIsText DEF RInv, Phases, Placed
  <2>2. \A d \in ToSet(ds) : \E key \in Keys(Src) : OfKey(d, key)
    BY <2>1 DEF About, ToSet
  <2>3. \A key \in Keys(Src) : key.line \in Nat /\ key.col \in Nat /\ key.end \in Nat
    <3> TAKE key \in Keys(Src)
    <3>1. PICK p \in 1..Len(Src) :
              /\ key.line \in 1..Count(Src) /\ key.col \in Nat
              /\ RunAt(Src, p) \in Nat /\ key.end = key.col + RunAt(Src, p)
      BY <2>1, TextAssumption, KeyFacts
    <3> QED
      BY <3>1
  <2>4. \A d \in ToSet(ds) : Numbered(d) /\ d.hint \in Words \cup {None}
    <3> TAKE d \in ToSet(ds)
    <3>1. PICK key \in Keys(Src) : OfKey(d, key)
      BY <2>2
    <3>2. /\ d.line = key.line /\ d.col = key.col /\ d.end = key.end
          /\ d.severity \in {0, 1} /\ d.message \in Messages \cup {0} /\ d.hint \in Words \cup {None}
      BY <3>1 DEF OfKey
    <3>3. d.severity \in Nat /\ d.message \in Nat
      <4>1. {0, 1} \subseteq Nat /\ Messages \cup {0} \subseteq Nat
        BY MessageAssumption
      <4>2. d.severity \in Nat
        BY <3>2
      <4>3. d.message \in Nat
        BY <3>2, <4>1
      <4> QED
        BY <4>2, <4>3
    <3>4. d.line \in Nat /\ d.col \in Nat /\ d.end \in Nat
      BY <2>3, <3>2
    <3>5. Numbered(d)
      BY <3>3, <3>4 DEF Numbered
    <3> QED
      BY <3>2, <3>5
  <2> QED
    BY <2>1, <2>4 DEF About
<1>3. CASE phase # "scan" /\ offending # <<>>
  <2> DEFINE n == Len(offending)
             R == [line : Nat, col : Nat, count : Nat]
  <2>1. ds = TabDiagnostics /\ Tally(offending, Count(Src), curIdx, Tabbed)
    BY <1>3, Scanned DEF RInv, Phases
  <2>2. offending \in Seq(R) /\ n \in Nat
    BY <2>1 DEF Tally
  <2>3. \A r \in R : r.line \in Nat /\ r.col \in Nat
    OBVIOUS
  <2> HIDE DEF R
  <2>4. \A x \in 1..n : offending[x].line \in Nat /\ offending[x].col \in Nat
    BY <2>2, <2>3
  <2>5. \A x \in 1..n : Numbered(TabDiagnostic(offending[x])) /\ TabDiagnostic(offending[x]).hint = None
    BY <2>4 DEF Numbered, TabDiagnostic, Diagnostic
  <2>6. /\ Numbered(Diagnostic("more", <<0, 0>>, 0, 0, 0, n - MaxTabs))
        /\ Diagnostic("more", <<0, 0>>, 0, 0, 0, n - MaxTabs).hint = None
    BY DEF Numbered, Diagnostic
  <2>7. /\ ds \in Seq(ToSet(ds))
        /\ \A x \in 1..Len(ds) : IF x <= MaxTabs THEN x \in 1..n /\ ds[x] = TabDiagnostic(offending[x])
                                 ELSE ds[x] = Diagnostic("more", <<0, 0>>, 0, 0, 0, n - MaxTabs)
    BY <2>1, <2>2, TabDiagnosticsAre
  <2>8. \A x \in 1..Len(ds) : Numbered(ds[x]) /\ ds[x].hint = None
    BY <2>5, <2>6, <2>7
  <2> QED
    BY <2>7, <2>8 DEF ToSet
<1> QED
  BY <1>1, <1>2, <1>3

(* What is printed is a block for each diagnostic. *)
LEMMA Blocks ==
    ASSUME RInv
    PROVE  /\ Len(report) = IF Printed THEN Len(ds) ELSE 0
           /\ Printed => Range(report) = {Block(ds[x]) : x \in 1..Len(ds)}
<1> DEFINE n == Len(ds)
<1>1. ds \in Seq(ToSet(ds)) /\ n \in Nat /\ \A d \in ToSet(ds) : Numbered(d)
  BY DiagnosticsNumbered
<1>2. PICK g \in Bijection(1..n, 1..n) : Sorted(ds) = [k \in 1..n |-> ds[g[k]]]
  BY <1>1, SortedFacts
<1>3. g \in [1..n -> 1..n] /\ \A x \in 1..n : \E k \in 1..n : g[k] = x
  BY <1>2 DEF Bijection, Surjection
<1>4. Printout = [k \in 1..n |-> Block(ds[g[k]])]
  BY <1>2 DEF Printout
<1>5. CASE Printed
  <2>1. report = [k \in 1..n |-> Block(ds[g[k]])]
    BY <1>4, <1>5 DEF RInv, Phases, Printed
  <2>2. Len(report) = n /\ DOMAIN report = 1..n
    BY <1>1, <2>1
  <2>3. Range(report) = {Block(ds[x]) : x \in 1..n}
    <3>1. Range(report) = {report[k] : k \in 1..n}
      BY <2>2 DEF Range
    <3>2. \A k \in 1..n : report[k] = Block(ds[g[k]]) /\ g[k] \in 1..n
      BY <1>3, <2>1
    <3>3. \A k \in 1..n : report[k] \in {Block(ds[x]) : x \in 1..n}
      BY <3>2
    <3>4. \A x \in 1..n : \E k \in 1..n : report[k] = Block(ds[x])
      BY <1>3, <3>2
    <3> QED
      BY <3>1, <3>3, <3>4
  <2> QED
    BY <1>5, <2>2, <2>3
<1>6. CASE ~Printed
  BY <1>6 DEF RInv, Phases, Printed
<1> QED
  BY <1>5, <1>6

LEMMA RInvTyped == RInv /\ SuggestTypeOK => ReportTypeOK
<1> SUFFICES ASSUME RInv, SuggestTypeOK PROVE ReportTypeOK
  OBVIOUS
<1> DEFINE st == StartOf(Src, line)
           e == EndOf(Src, line)
<1>1. /\ text \in Texts /\ line \in 1..Count(Src) /\ col \in Nat /\ col >= 1 /\ line <= at
      /\ at = st + col - 1 /\ at <= e
  BY DEF RInv, Placed
<1>2. st \in Nat /\ st >= 1 /\ e \in Nat /\ e <= Len(Src) + 1 /\ Len(Src) \in Nat /\ line \in Nat /\ line >= 1
  BY <1>1, SrcLines, SrcIsText
<1> HIDE DEF st, e
<1>3. at \in 1..(Len(Src) + 1) /\ line \in 1..(Len(Src) + 1) /\ col \in 1..(Len(Src) + 1)
  BY <1>1, <1>2
<1>4. Tally(offending, line, curIdx, Seen)
  BY DEF RInv, Tallied
<1>5. Len(offending) \in Nat /\ DOMAIN offending = 1..Len(offending) /\ curIdx \in 0..Len(offending)
  BY <1>4 DEF Tally
<1>6. \A x \in 1..Len(offending) : offending[x].line \in 1..line /\ offending[x].count >= 1
  <2> TAKE x \in 1..Len(offending)
  <2> DEFINE k == offending[x].line
  <2>1. /\ k \in 1..line /\ offending[x].col \in Seen[k] /\ offending[x].count = Cardinality(Seen[k])
    BY <1>4 DEF Tally
  <2> HIDE DEF k
  <2>2. Seen[k] \subseteq Tabs(Src, k) /\ k \in 1..Count(Src)
    <3>1. k \in 1..Count(Src)
      <4>1. Count(Src) \in Nat
        BY <1>1, SrcLines
      <4> QED
        BY <1>1, <2>1, <4>1
    <3> QED
      BY <2>1, <3>1 DEF Seen
  <2>3. IsFiniteSet(Seen[k])
    BY <1>1, <2>2, SeenFinite, FS_Subset
  <2>4. Cardinality(Seen[k]) \in Nat /\ Cardinality(Seen[k]) # 0
    BY <2>1, <2>3, FS_CardinalityType, FS_EmptySet
  <2> QED
    BY <2>1, <2>4 DEF k
<1>7. \A x \in DOMAIN ds : ds[x].line \in Nat /\ ds[x].hint \in Words \cup {None}
  <2>1. \A x \in DOMAIN ds : ds[x] \in ToSet(ds)
    BY DEF ToSet
  <2> QED
    BY <2>1, DiagnosticsNumbered DEF Numbered
<1>8. /\ phase \in {"scan", "walk", "suggest", "render", "done"}
      /\ phase # "walk" => phase = "suggest" \/ todo = {}
  BY DEF RInv, Phases
<1> QED
  BY <1>3, <1>5, <1>6, <1>7, <1>8, Blocks DEF ReportTypeOK

(* The scanner, the accumulator and the report keep their ranges. *)
THEOREM ReportTypeCorrect == ReportSpec => []ReportTypeOK
BY ReportInvariant, RInvTyped, PTL

(* The caret of a diagnostic about a key. *)
LEMMA KeyBlock ==
    ASSUME text \in Texts, NEW key \in Keys(Src), NEW d, OfKey(d, key)
    PROVE  LET b == Block(d)
               raw == RawLines(Src)[key.line]
           IN  /\ b.of = d /\ b.caret[2] - 1 <= Len(raw)
               /\ SubSeq(raw, b.caret[1], b.caret[2] - 1) = key.word
               /\ Len(b.shown) = Len(raw)
<1> DEFINE S == ToSet(text)
           s == Src
           k == key.line
           st == StartOf(s, k)
           e == EndOf(s, k)
           raw == RawLines(s)[k]
<1>1. s \in Seq(S) /\ Len(s) \in Nat
  BY SrcIsText
<1> HIDE DEF S
<1>2. PICK p \in 1..Len(s) :
          /\ key = KeyAt(s, p) /\ k \in 1..Count(s)
          /\ st <= p /\ key.col = p - st + 1
          /\ key.col \in Nat /\ key.col >= 1
          /\ RunAt(s, p) \in Nat /\ RunAt(s, p) >= 1 /\ key.end = key.col + RunAt(s, p)
          /\ p + RunAt(s, p) <= e /\ e <= Len(s) + 1
          /\ key.word = SubSeq(s, p, p + RunAt(s, p) - 1)
  BY <1>1, TextAssumption, KeyFacts
<1> DEFINE n == RunAt(s, p)
           c == key.col
<1>3. k \in Nat /\ k >= 1 /\ st \in Nat /\ st >= 1 /\ e \in Nat
  BY <1>2, SrcLines
<1>4. k \in 1..Len(RawLines(s))
  <2>1. st < e
    BY <1>2, <1>3
  <2> QED
    BY <1>1, <1>2, <2>1, RawFacts
<1>5. /\ Len(RawLines(s)) \in Nat /\ raw \in Seq(S) /\ Len(raw) = e - st
      /\ \A x \in 1..(e - st) : raw[x] = s[st + x - 1]
  BY <1>1, <1>4, RawFacts
<1>6. d.line = k /\ d.col = c /\ d.end = c + n
  BY <1>2 DEF OfKey
<1> DEFINE shown == Sanitize(raw)
<1>7. Len(shown) = Len(raw)
  <2> HIDE DEF raw, s, st, e
  <2>1. raw \in Seq(S)
    BY <1>5
  <2>2. DOMAIN raw = 1..Len(raw) /\ Len(raw) \in Nat
    BY <2>1
  <2> QED
    BY <2>2 DEF Sanitize
<1> HIDE DEF s, k, st, e, raw, n, c, shown
<1>8. /\ n \in Nat /\ n >= 1 /\ c \in Nat /\ c >= 1 /\ c = p - st + 1 /\ st <= p /\ p + n <= e
      /\ e <= Len(s) + 1 /\ key.word = SubSeq(s, p, p + n - 1)
  BY <1>2 DEF n, c
<1>9. c <= Len(raw) + 1 /\ c + n <= Len(raw) + 1 /\ c + n - 1 <= Len(raw) /\ Len(raw) \in Nat
  BY <1>3, <1>5, <1>8
<1>10. Clamp(c, 1, Len(shown) + 1) = c /\ Clamp(c + n, c + 1, Len(shown) + 2) = c + n
  BY <1>7, <1>8, <1>9 DEF Clamp
<1>11. Block(d) = [of |-> d, shown |-> shown, caret |-> <<c, c + n>>]
  <2>1. ~(d.line < 1 \/ d.col < 1 \/ d.line > Len(RawLines(s)))
    BY <1>3, <1>4, <1>6, <1>8
  <2>2. Sanitize(RawLines(Src)[d.line]) = shown
    BY <1>6 DEF shown, raw, s, k
  <2> QED
    BY <1>6, <1>10, <2>1, <2>2 DEF Block, s
<1>12. SubSeq(raw, c, c + n - 1) = SubSeq(s, p, p + n - 1)
  <2>1. raw \in Seq(S) /\ c \in Nat /\ c >= 1 /\ n \in Nat /\ c + n - 1 <= Len(raw)
    BY <1>5, <1>8, <1>9
  <2>2. p \in Nat /\ p >= 1 /\ p + n - 1 <= Len(s)
    BY <1>1, <1>3, <1>8
  <2>s. s \in Seq(S)
    BY <1>1
  <2>3. \A x \in 1..n : raw[c + x - 1] = s[p + x - 1]
    <3> TAKE x \in 1..n
    <3>1. c + x - 1 \in 1..(e - st) /\ st + (c + x - 1) - 1 = p + x - 1
      BY <1>3, <1>8
    <3> QED
      BY <1>5, <3>1
  <2>4. PICK u \in Nat, m \in Nat : u = c /\ m = n
    BY <2>1
  <2>5. /\ raw \in Seq(S) /\ u >= 1 /\ u + m - 1 <= Len(raw) /\ p + m - 1 <= Len(s)
        /\ \A x \in 1..m : raw[u + x - 1] = s[p + x - 1]
    BY <2>1, <2>2, <2>3, <2>4
  <2>6. SubSeq(raw, u, u + m - 1) = SubSeq(s, p, p + m - 1)
    <3>1. SubSeq(raw, u, u + m - 1) = [x \in 1..m |-> raw[u + x - 1]]
      BY <2>5
    <3>2. SubSeq(s, p, p + m - 1) = [x \in 1..m |-> s[p + x - 1]]
      BY <2>2, <2>s, <2>5
    <3> QED
      BY <2>5, <3>1, <3>2
  <2> QED
    BY <2>4, <2>6
<1>13. (c + n) - 1 = c + n - 1 /\ c + n - 1 <= Len(raw)
  BY <1>8, <1>9
<1> QED
  BY SMTT(20), <1>7, <1>8, <1>11, <1>12, <1>13 DEF raw, s, k

LEMMA RInvKeys == RInv => KeysUnderlined
<1> SUFFICES ASSUME RInv, Printed, NEW b \in Range(report), b.of.kind \notin {"tabs", "more"}
             PROVE  /\ b.caret[2] - 1 <= Len(RawLines(Src)[b.of.line])
                    /\ SubSeq(RawLines(Src)[b.of.line], b.caret[1], b.caret[2] - 1) = b.of.about
                    /\ Len(b.shown) = Len(RawLines(Src)[b.of.line])
  BY DEF KeysUnderlined
<1>1. PICK x \in 1..Len(ds) : b = Block(ds[x])
  BY Blocks
<1>2. \A d : Block(d).of = d
  BY DEF Block
<1>3. b.of = ds[x] /\ ds[x].kind \notin {"tabs", "more"}
  BY <1>1, <1>2
<1>4. offending = <<>>
  <2> SUFFICES ASSUME offending # <<>> PROVE FALSE
    OBVIOUS
  <2>1. ds = TabDiagnostics /\ Len(offending) \in Nat
    BY Scanned DEF RInv, Phases, Printed, Tally
  <2>2. \/ ds[x] = TabDiagnostic(offending[x])
        \/ ds[x] = Diagnostic("more", <<0, 0>>, 0, 0, 0, Len(offending) - MaxTabs)
    BY <2>1, TabDiagnosticsAre
  <2>3. ds[x].kind \in {"tabs", "more"}
    BY <2>2 DEF TabDiagnostic, Diagnostic
  <2> QED
    BY <1>3, <2>3
<1>5. About(ds, Keys(Src), todo) /\ text \in Texts
  BY <1>4 DEF RInv, Phases, Printed, Placed
<1>6. PICK key \in Keys(Src) : OfKey(ds[x], key)
  BY <1>5 DEF About
<1>7. ds[x].line = key.line /\ ds[x].about = key.word
  BY <1>6 DEF OfKey
<1> QED
  BY <1>1, <1>3, <1>5, <1>6, <1>7, KeyBlock

(* Whatever the text, with or without the mark, however its lines end: the     *)
(* caret under a diagnostic about a key covers that key.                       *)
THEOREM KeysUnderlinedRight == ReportSpec => []KeysUnderlined
BY ReportInvariant, RInvKeys, PTL

-----------------------------------------------------------------------------
(* Diagnostics that tie are one. *)

LEMMA TiesAreOne ==
    ASSUME RInv, phase # "scan", NEW x \in 1..Len(ds), NEW y \in 1..Len(ds), Tied(ds[x], ds[y])
    PROVE  ds[x] = ds[y]
<1>1. CASE offending # <<>>
  <2> DEFINE n == Len(offending)
             more == Diagnostic("more", <<0, 0>>, 0, 0, 0, n - MaxTabs)
  <2>0. ds = TabDiagnostics /\ Tally(offending, Count(Src), curIdx, Tabbed)
    BY <1>1, Scanned DEF RInv, Phases
  <2>1. ds = TabDiagnostics /\ n \in Nat /\ Tally(offending, Count(Src), curIdx, Tabbed)
    BY <2>0 DEF Tally
  <2>2. \A v \in 1..Len(ds) : IF v <= MaxTabs THEN v \in 1..n /\ ds[v] = TabDiagnostic(offending[v])
                              ELSE v = MaxTabs + 1 /\ ds[v] = more
    BY <2>1, TabDiagnosticsAre
  <2>3. more.line = 0
    BY DEF Diagnostic
  <2>4. \A v \in 1..n : TabDiagnostic(offending[v]).line = offending[v].line
    BY DEF TabDiagnostic, Diagnostic
  <2>5. \A v \in 1..n : offending[v].line \in Nat /\ offending[v].line >= 1
    <3>1. \A v \in 1..n : offending[v].line \in 1..Count(Src)
      BY <2>1 DEF Tally
    <3>2. Count(Src) \in Nat
      BY Scanned
    <3> QED
      BY <3>1, <3>2
  <2>6. \A v, w \in 1..n : offending[v].line = offending[w].line => v = w
    <3>1. \A v, w \in 1..n : v < w => offending[v].line < offending[w].line
      BY <2>1 DEF Tally
    <3> QED
      BY <2>1, <2>5, <3>1
  <2>7. ds[x].line = ds[y].line
    BY DEF Tied
  <2> HIDE DEF more, n
  <2>8. CASE x <= MaxTabs /\ y <= MaxTabs
    BY <2>2, <2>4, <2>6, <2>7, <2>8
  <2>9. CASE ~(x <= MaxTabs) /\ ~(y <= MaxTabs)
    BY <2>2, <2>9
  <2>10. CASE x <= MaxTabs /\ ~(y <= MaxTabs)
    BY <2>2, <2>3, <2>4, <2>5, <2>7, <2>10
  <2>11. CASE ~(x <= MaxTabs) /\ y <= MaxTabs
    BY <2>2, <2>3, <2>4, <2>5, <2>7, <2>11
  <2> QED
    BY <2>8, <2>9, <2>10, <2>11
<1>2. CASE offending = <<>>
  <2>1. About(ds, Keys(Src), todo) /\ text \in Texts
    BY <1>2 DEF RInv, Phases, Placed
  <2>2. PICK one \in Keys(Src) : OfKey(ds[x], one)
    BY <2>1 DEF About
  <2>3. PICK other \in Keys(Src) : OfKey(ds[y], other)
    BY <2>1 DEF About
  <2>4. SamePlace(one, other)
    BY <2>2, <2>3 DEF OfKey, SamePlace, Tied
  <2>5. one = other
    BY <2>1, <2>4, KeysApart
  <2>6. CASE ds[x].kind = "unknown" /\ ds[y].kind = "unknown"
    <3>1. SamePlace(ds[x], ds[y])
      BY DEF Tied, SamePlace
    <3>2. x = y
      BY <2>1, <2>6, <3>1 DEF About
    <3> QED
      BY <3>2
  <2>7. CASE ds[x].kind = "other" /\ ds[y].kind = "other"
    <3>1. /\ ds[x].hint = None /\ ds[y].hint = None
          /\ ds[x].severity = ds[y].severity /\ ds[x].message = ds[y].message
      BY <2>2, <2>3, <2>7 DEF OfKey, Tied
    <3>2. /\ ds[x] = [kind |-> "other", line |-> one.line, col |-> one.col, end |-> one.end,
                      severity |-> ds[x].severity, message |-> ds[x].message, about |-> one.word, hint |-> None]
          /\ ds[y] = [kind |-> "other", line |-> one.line, col |-> one.col, end |-> one.end,
                      severity |-> ds[y].severity, message |-> ds[y].message, about |-> one.word, hint |-> None]
      BY <2>2, <2>3, <2>5, <2>7, <3>1 DEF OfKey
    <3> QED
      BY <3>1, <3>2
  <2>8. ASSUME ds[x].kind # ds[y].kind PROVE FALSE
    <3>1. ds[x].message = ds[y].message
      BY DEF Tied
    <3>2. /\ \/ ds[x].kind = "unknown" /\ ds[x].message = 0
             \/ ds[x].kind = "other" /\ ds[x].message \in Messages
          /\ \/ ds[y].kind = "unknown" /\ ds[y].message = 0
             \/ ds[y].kind = "other" /\ ds[y].message \in Messages
      BY <2>2, <2>3 DEF OfKey
    <3>3. 0 \notin Messages
      BY MessageAssumption
    <3> QED
      BY <2>8, <3>1, <3>2, <3>3
  <2>9. ds[x].kind \in {"unknown", "other"} /\ ds[y].kind \in {"unknown", "other"}
    BY <2>2, <2>3 DEF OfKey
  <2> QED
    BY <2>6, <2>7, <2>8, <2>9
<1> QED
  BY <1>1, <1>2

LEMMA RInvOrder == RInv => OrderForgotten
<1> DEFINE n == Len(ds)
<1> SUFFICES ASSUME RInv, phase = "render", NEW p \in Bijection(DOMAIN ds, DOMAIN ds)
             PROVE  Sorted([x \in DOMAIN ds |-> ds[p[x]]]) = Sorted(ds)
  BY DEF OrderForgotten
<1>1. ds \in Seq(ToSet(ds)) /\ n \in Nat /\ DOMAIN ds = 1..n /\ \A d \in ToSet(ds) : Numbered(d)
  BY DiagnosticsNumbered
<1>2. p \in Bijection(1..n, 1..n) /\ p \in [1..n -> 1..n]
  BY <1>1 DEF Bijection, Injection
<1> DEFINE t == [x \in 1..n |-> ds[p[x]]]
           D == ToSet(ds)
<1>3. t \in Seq(D) /\ Len(t) = n
  <2>1. \A x \in 1..n : ds[p[x]] \in D
    BY <1>1, <1>2
  <2> QED
    BY <1>1, <2>1
<1>4. \A x \in 1..n : t[x] = ds[p[x]]
  OBVIOUS
<1>5. \A x, y \in 1..n : Tied(ds[x], ds[y]) => ds[x] = ds[y]
  BY TiesAreOne
<1>6. t = [x \in DOMAIN ds |-> ds[p[x]]]
  BY <1>1
<1>7. ds \in Seq(D) /\ \A d \in D : Numbered(d)
  BY <1>1
<1> HIDE DEF t, D
<1>8. Sorted(t) = Sorted(ds)
  BY <1>1, <1>2, <1>3, <1>4, <1>5, <1>7, SortForgets
<1> QED
  BY <1>6, <1>8

(* In whatever order the checks found them, the same diagnostics are printed   *)
(* the same: no two that differ tie.                                           *)
THEOREM OrderIsForgotten == ReportSpec => []OrderForgotten
BY ReportInvariant, RInvOrder, PTL

-----------------------------------------------------------------------------
(* The tabs that are underlined, and those that are counted. *)

(* Render's lines, their tabs, and the lines the scanner has found tabs on. *)
Lines == RawLines(Src)
TabsAt(k) == {x \in DOMAIN Lines[k] : Lines[k][x] = Tab}
Bad == {k \in DOMAIN Lines : TabsAt(k) # {}}
Early == {k \in Bad : Cardinality({m \in Bad : m <= k}) <= MaxTabs}
Found == [x \in 1..Len(offending) |-> offending[x].line]

(* Where Render finds the lines with tabs, the scanner found them. *)
LEMMA TabLines ==
    ASSUME RInv, phase # "scan", NEW n \in Nat, n = Len(offending)
    PROVE  /\ Len(Lines) \in Nat /\ Found \in [1..n -> Nat] /\ \A x, y \in 1..n : x < y => Found[x] < Found[y]
           /\ Bad = Part(Found, 0, n)
           /\ Early = Part(Found, 0, IF n <= MaxTabs THEN n ELSE MaxTabs)
           /\ \A x \in 1..n :
                  /\ Found[x] = offending[x].line
                  /\ Found[x] \in Nat /\ Found[x] >= 1 /\ Found[x] <= Len(Lines)
                  /\ Len(Lines[Found[x]]) \in Nat /\ TabsAt(Found[x]) \subseteq 1..Len(Lines[Found[x]])
                  /\ offending[x].col \in TabsAt(Found[x])
                  /\ \A y \in TabsAt(Found[x]) : offending[x].col <= y
                  /\ offending[x].count = Cardinality(TabsAt(Found[x]))
<1> DEFINE f == Found
           lines == Lines
<1>0. lines = RawLines(Src) /\ f = [x \in 1..n |-> offending[x].line]
  BY DEF Lines, Found
<1> HIDE DEF f, lines
<1>1. /\ text \in Texts /\ Count(Src) \in Nat /\ Tally(offending, Count(Src), curIdx, Tabbed)
      /\ Src \in Seq(ToSet(text))
  BY Scanned, SrcIsText
<1>2. /\ lines \in Seq(Seq(ToSet(text))) /\ Len(lines) \in Nat
      /\ \A k \in 1..Len(lines) :
             /\ k \in 1..Count(Src) /\ lines[k] \in Seq(ToSet(text))
             /\ Len(lines[k]) = EndOf(Src, k) - StartOf(Src, k)
             /\ \A x \in 1..(EndOf(Src, k) - StartOf(Src, k)) : lines[k][x] = Src[StartOf(Src, k) + x - 1]
      /\ \A k \in 1..Count(Src) : StartOf(Src, k) < EndOf(Src, k) => k \in 1..Len(lines)
  BY <1>1, RawFacts DEF lines, Lines
<1>3. DOMAIN lines = 1..Len(lines)
  BY <1>2
<1>4. \A k \in DOMAIN lines :
          k \in 1..Count(Src) /\ Len(lines[k]) \in Nat /\ Tabs(Src, k) \subseteq 1..Len(lines[k])
          /\ TabsAt(k) = Tabs(Src, k)
  <2> TAKE k \in DOMAIN lines
  <2>1. /\ k \in 1..Count(Src) /\ lines[k] \in Seq(ToSet(text))
        /\ Len(lines[k]) = EndOf(Src, k) - StartOf(Src, k)
        /\ \A x \in 1..(EndOf(Src, k) - StartOf(Src, k)) : lines[k][x] = Src[StartOf(Src, k) + x - 1]
    BY <1>2, <1>3
  <2>2. DOMAIN lines[k] = 1..(EndOf(Src, k) - StartOf(Src, k)) /\ Len(lines[k]) \in Nat
    BY <2>1
  <2>3. TabsAt(k) = Tabs(Src, k)
    BY <2>1, <2>2 DEF Tabs, TabsAt, lines
  <2>4. Tabs(Src, k) \subseteq 1..Len(lines[k])
    BY <2>1 DEF Tabs
  <2> QED
    BY <2>1, <2>2, <2>3, <2>4
<1>5. \A k \in 1..Count(Src) : Tabs(Src, k) # {} => k \in DOMAIN lines
  <2> SUFFICES ASSUME NEW k \in 1..Count(Src), NEW x \in Tabs(Src, k) PROVE k \in DOMAIN lines
    OBVIOUS
  <2>1. StartOf(Src, k) \in Nat /\ EndOf(Src, k) \in Nat
    BY <1>1, SrcLines
  <2>2. x \in 1..(EndOf(Src, k) - StartOf(Src, k))
    BY DEF Tabs
  <2>3. StartOf(Src, k) < EndOf(Src, k)
    BY <2>1, <2>2
  <2> QED
    BY <1>2, <1>3, <2>3
<1>6. \A k \in 1..Count(Src) : Tabbed[k] = Tabs(Src, k)
  BY DEF Tabbed
<1>7. \A x \in 1..n : /\ f[x] = offending[x].line /\ f[x] \in 1..Count(Src)
                      /\ offending[x].col \in Tabs(Src, f[x])
                      /\ \A y \in Tabs(Src, f[x]) : offending[x].col <= y
                      /\ offending[x].count = Cardinality(Tabs(Src, f[x]))
  <2> TAKE x \in 1..n
  <2>1. /\ offending[x].line \in 1..Count(Src)
        /\ offending[x].col \in Tabbed[offending[x].line]
        /\ \A y \in Tabbed[offending[x].line] : offending[x].col <= y
        /\ offending[x].count = Cardinality(Tabbed[offending[x].line])
    BY <1>1 DEF Tally
  <2>2. f[x] = offending[x].line
    BY <1>0
  <2> QED
    BY <1>6, <2>1, <2>2
<1>8. \A x, y \in 1..n : x < y => f[x] < f[y]
  BY <1>1, <1>7 DEF Tally
<1>9. \A k \in 1..Count(Src) : Tabs(Src, k) # {} => \E x \in 1..n : f[x] = k
  <2>1. \A k \in 1..Count(Src) : Tabbed[k] # {} => \E x \in 1..n : offending[x].line = k
    BY <1>1 DEF Tally
  <2> QED
    BY <1>6, <1>7, <2>1
<1>10. f \in [1..n -> Nat]
  <2>1. \A x \in 1..n : offending[x].line \in Nat
    BY <1>1, <1>7
  <2> QED
    BY <1>0, <2>1
<1>11. \A x \in 1..n : f[x] \in DOMAIN lines /\ f[x] \in Nat /\ f[x] >= 1 /\ f[x] <= Len(lines)
  BY <1>1, <1>2, <1>3, <1>5, <1>7
<1>12. \A v : v \in Bad <=> \E y \in 1..n : f[y] = v
  <2>1. \A k \in DOMAIN lines : TabsAt(k) # {} => \E y \in 1..n : f[y] = k
    BY <1>4, <1>9
  <2>2. \A y \in 1..n : f[y] \in DOMAIN lines /\ TabsAt(f[y]) # {}
    BY <1>4, <1>7, <1>11
  <2> QED
    BY <2>1, <2>2 DEF Bad, lines
<1>13. Bad = Part(f, 0, n) /\ Bad = {f[y] : y \in 1..n}
  <2>1. \A y : y \in (0 + 1)..n <=> y \in 1..n
    OBVIOUS
  <2> QED
    BY <1>12, <2>1 DEF Part
<1>14. ASSUME NEW x \in 1..n PROVE Cardinality({m \in Bad : m <= f[x]}) = x
  <2>1. Cardinality({m \in {f[y] : y \in 1..n} : m <= f[x]}) = x
    BY <1>8, <1>10, IncreasingRanks
  <2>2. Bad = {f[y] : y \in 1..n}
    BY <1>13
  <2> QED
    BY <2>1, <2>2
<1>15. \A v : v \in Early <=> \E y \in 1..n : y <= MaxTabs /\ f[y] = v
  BY <1>12, <1>14 DEF Early
<1>16. Early = Part(f, 0, IF n <= MaxTabs THEN n ELSE MaxTabs)
  <2>1. \A y : y \in (0 + 1)..(IF n <= MaxTabs THEN n ELSE MaxTabs) <=> y \in 1..n /\ y <= MaxTabs
    BY MessageAssumption
  <2> QED
    BY <1>15, <2>1 DEF Part
<1>17. \A x \in 1..n : TabsAt(f[x]) = Tabs(Src, f[x])
  BY <1>4, <1>11
<1>18. \A x \in 1..n : /\ Len(lines[f[x]]) \in Nat /\ TabsAt(f[x]) \subseteq 1..Len(lines[f[x]])
                       /\ offending[x].col \in TabsAt(f[x])
                       /\ \A y \in TabsAt(f[x]) : offending[x].col <= y
                       /\ offending[x].count = Cardinality(TabsAt(f[x]))
  BY <1>4, <1>7, <1>11, <1>17
<1> QED
  BY <1>2, <1>7, <1>8, <1>10, <1>11, <1>13, <1>16, <1>18 DEF f, lines

(* The block of the diagnostic about a line with tabs. *)
LEMMA TabBlock ==
    ASSUME NEW o, NEW lines, lines = RawLines(Src), Len(lines) \in Nat,
           o.line \in Nat, o.line >= 1, o.line <= Len(lines), Len(lines[o.line]) \in Nat,
           o.col \in 1..Len(lines[o.line])
    PROVE  /\ Block(TabDiagnostic(o)).of = TabDiagnostic(o)
           /\ TabDiagnostic(o).kind = "tabs" /\ TabDiagnostic(o).line = o.line
           /\ TabDiagnostic(o).about = o.count
           /\ Block(TabDiagnostic(o)).caret = <<o.col, o.col + 1>>
<1> DEFINE d == TabDiagnostic(o)
           raw == lines[o.line]
           shown == Sanitize(raw)
<1>1. d.line = o.line /\ d.col = o.col /\ d.end = o.col + 1 /\ d.kind = "tabs" /\ d.about = o.count
  BY DEF TabDiagnostic, Diagnostic
<1>2. Len(shown) = Len(raw)
  BY DEF Sanitize
<1> HIDE DEF d, raw, shown
<1>3. Len(raw) \in Nat /\ o.col \in Nat /\ o.col >= 1 /\ o.col <= Len(raw)
  BY DEF raw
<1>4. Clamp(o.col, 1, Len(shown) + 1) = o.col /\ Clamp(o.col + 1, o.col + 1, Len(shown) + 2) = o.col + 1
  BY <1>2, <1>3 DEF Clamp
<1>5. ~(d.line < 1 \/ d.col < 1 \/ d.line > Len(lines))
  BY <1>1, <1>3
<1>6. Block(d) = [of |-> d, shown |-> shown, caret |-> <<o.col, o.col + 1>>]
  BY <1>1, <1>4, <1>5 DEF Block, raw, shown
<1> QED
  BY <1>1, <1>6 DEF d

LEMMA RInvTabs == RInv => TabsUnderlined
<1> DEFINE block(k) == [line |-> k, caret |-> <<Min(TabsAt(k)), Min(TabsAt(k)) + 1>>,
                        about |-> Cardinality(TabsAt(k))]
<1> SUFFICES ASSUME RInv, Printed, Bad # {}
             PROVE  /\ {[line |-> b.of.line, caret |-> b.caret, about |-> b.of.about]
                            : b \in {b \in Range(report) : b.of.kind # "more"}} = {block(k) : k \in Early}
                    /\ {b.of.about : b \in {b \in Range(report) : b.of.kind = "more"}}
                           = IF Bad = Early THEN {} ELSE {Cardinality(Bad \ Early)}
                    /\ Len(report) = Cardinality(Early) + (IF Bad = Early THEN 0 ELSE 1)
  BY DEF TabsUnderlined, Bad, Early, TabsAt, Lines
<1> DEFINE n == Len(offending)
           f == Found
           size == Len(ds)
           early == Early
           bad == Bad
<1>1. phase # "scan" /\ phase = "done"
  BY DEF Printed
<1>2. n \in Nat
  BY <1>1, Scanned DEF Tally
<1>3. /\ Len(Lines) \in Nat /\ f \in [1..n -> Nat] /\ \A x, y \in 1..n : x < y => f[x] < f[y]
      /\ bad = Part(f, 0, n) /\ early = Part(f, 0, IF n <= MaxTabs THEN n ELSE MaxTabs)
      /\ \A x \in 1..n :
             /\ f[x] = offending[x].line
             /\ f[x] \in Nat /\ f[x] >= 1 /\ f[x] <= Len(Lines)
             /\ Len(Lines[f[x]]) \in Nat /\ TabsAt(f[x]) \subseteq 1..Len(Lines[f[x]])
             /\ offending[x].col \in TabsAt(f[x])
             /\ \A y \in TabsAt(f[x]) : offending[x].col <= y
             /\ offending[x].count = Cardinality(TabsAt(f[x]))
  BY <1>1, <1>2, TabLines
<1> HIDE DEF f, n
<1>7. \A x \in 1..n : Min(TabsAt(f[x])) = offending[x].col
  <2> TAKE x \in 1..n
  <2>1. TabsAt(f[x]) \in SUBSET Nat /\ offending[x].col \in TabsAt(f[x])
    BY <1>3
  <2>2. Min(TabsAt(f[x])) \in TabsAt(f[x]) /\ \A y \in TabsAt(f[x]) : Min(TabsAt(f[x])) <= y
    BY <2>1, MinIsLeast
  <2>3. \A y \in TabsAt(f[x]) : offending[x].col <= y
    BY <1>3
  <2> QED
    BY <2>1, <2>2, <2>3
<1> HIDE DEF bad, early
<1>8. \A v : v \in early <=> \E y \in 1..n : y <= MaxTabs /\ v = f[y]
  <2>1. \A y : y \in (0 + 1)..(IF n <= MaxTabs THEN n ELSE MaxTabs) <=> y \in 1..n /\ y <= MaxTabs
    BY <1>2, MessageAssumption
  <2> QED
    BY <1>3, <2>1 DEF Part
<1>9. \A v : v \in bad => \E y \in 1..n : v = f[y]
  <2>1. \A y : y \in (0 + 1)..n <=> y \in 1..n
    BY <1>2
  <2> QED
    BY <1>3, <2>1 DEF Part
<1>10. /\ n <= MaxTabs => early = bad /\ Cardinality(early) = n
       /\ n > MaxTabs => early # bad /\ Cardinality(early) = MaxTabs /\ Cardinality(bad \ early) = n - MaxTabs
  <2>1. ASSUME n <= MaxTabs PROVE early = bad /\ Cardinality(early) = n
    <3>1. Cardinality(Part(f, 0, n)) = n - 0
      BY <1>2, <1>3, IncreasingPart
    <3> QED
      BY <1>2, <1>3, <2>1, <3>1
  <2>2. ASSUME n > MaxTabs
        PROVE  early # bad /\ Cardinality(early) = MaxTabs /\ Cardinality(bad \ early) = n - MaxTabs
    <3>1. PICK K \in Nat : K = MaxTabs
      BY MessageAssumption
    <3>2. early = Part(f, 0, K) /\ K < n /\ K <= n /\ 0 <= K
      BY <1>2, <1>3, <2>2, <3>1
    <3>6. n \in Nat /\ 0 \in Nat /\ f \in [1..n -> Nat] /\ \A x, y \in 1..n : x < y => f[x] < f[y]
      BY <1>2, <1>3
    <3>3. Cardinality(Part(f, 0, K)) = K - 0
      BY <3>6, <3>2, IncreasingPart
    <3>4. Part(f, 0, K) # Part(f, 0, n) /\ Cardinality(Part(f, 0, n) \ Part(f, 0, K)) = n - K
      BY <3>6, <3>2, PartsOfIncreasing
    <3>5. K - 0 = MaxTabs
      BY <3>1
    <3> QED
      BY <1>3, <3>1, <3>2, <3>3, <3>4, <3>5
  <2> QED
    BY <2>1, <2>2
<1>11. offending # <<>>
  <2>1. n # 0
    BY <1>2, <1>9 DEF bad
  <2> QED
    BY <2>1 DEF n
<1>12. /\ size = IF n <= MaxTabs THEN n ELSE MaxTabs + 1
       /\ \A x \in 1..size :
              IF x <= MaxTabs THEN x \in 1..n /\ ds[x] = TabDiagnostic(offending[x])
              ELSE n > MaxTabs /\ x = MaxTabs + 1 /\ ds[x] = Diagnostic("more", <<0, 0>>, 0, 0, 0, n - MaxTabs)
  <2>1. ds = TabDiagnostics
    BY <1>1, <1>11 DEF RInv, Phases
  <2> QED
    BY <1>2, <2>1, TabDiagnosticsAre DEF n
<1>13. Len(report) = size /\ Range(report) = {Block(ds[x]) : x \in 1..size}
  BY Blocks DEF Printed
<1> HIDE DEF size
<1> DEFINE more == Diagnostic("more", <<0, 0>>, 0, 0, 0, n - MaxTabs)
           told(b) == [line |-> b.of.line, caret |-> b.caret, about |-> b.of.about]
<1>14. \A x \in 1..n : /\ Block(TabDiagnostic(offending[x])).of.kind = "tabs"
                       /\ told(Block(TabDiagnostic(offending[x]))) = block(f[x])
  <2> TAKE x \in 1..n
  <2> DEFINE o == offending[x]
  <2>1. block(f[x]) = [line |-> f[x], caret |-> <<o.col, o.col + 1>>, about |-> o.count] /\ f[x] = o.line
    BY <1>3, <1>7
  <2>2. /\ Block(TabDiagnostic(o)).of = TabDiagnostic(o)
        /\ TabDiagnostic(o).kind = "tabs" /\ TabDiagnostic(o).line = o.line
        /\ TabDiagnostic(o).about = o.count
        /\ Block(TabDiagnostic(o)).caret = <<o.col, o.col + 1>>
    <3> HIDE DEF o
    <3>1. /\ o.line \in Nat /\ o.line >= 1 /\ o.line <= Len(Lines) /\ Len(Lines[o.line]) \in Nat
          /\ o.col \in 1..Len(Lines[o.line])
      BY <1>3 DEF o
    <3>2. Lines = RawLines(Src) /\ Len(Lines) \in Nat
      BY <1>3 DEF Lines
    <3> QED
      BY <3>1, <3>2, TabBlock
  <2> QED
    BY <2>1, <2>2
<1>15. Block(more).of = more /\ more.kind = "more" /\ more.about = n - MaxTabs
  BY DEF Block, Diagnostic
<1> HIDE DEF more
<1>16. \A x \in 1..size : ds[x] = IF x <= MaxTabs THEN TabDiagnostic(offending[x]) ELSE more
  BY <1>12 DEF more
<1>17. \A x \in 1..n :
         x <= MaxTabs =>
             x \in 1..size /\ Block(ds[x]).of.kind # "more" /\ told(Block(ds[x])) = block(f[x])
  <2> SUFFICES ASSUME NEW x \in 1..n, x <= MaxTabs
               PROVE  x \in 1..size /\ Block(ds[x]).of.kind # "more" /\ told(Block(ds[x])) = block(f[x])
    OBVIOUS
  <2>1. x \in 1..size
    BY <1>2, <1>12, MessageAssumption
  <2>2. ds[x] = TabDiagnostic(offending[x])
    BY <1>16, <2>1
  <2> QED
    BY <1>14, <2>1, <2>2
<1>18. \A x \in 1..size : IF x <= MaxTabs THEN x \in 1..n ELSE n > MaxTabs /\ Block(ds[x]).of.kind = "more"
                                                               /\ Block(ds[x]).of.about = n - MaxTabs
  BY <1>12, <1>15, <1>16
<1>19. n > MaxTabs => MaxTabs + 1 \in 1..size /\ ~(MaxTabs + 1 <= MaxTabs)
  BY <1>2, <1>12, MessageAssumption
<1> HIDE DEF told, block
<1>20. {told(b) : b \in {b \in Range(report) : b.of.kind # "more"}} = {block(k) : k \in early}
  <2>1. \A b \in Range(report) : b.of.kind # "more" => \E k \in early : told(b) = block(k)
    <3> SUFFICES ASSUME NEW x \in 1..size, Block(ds[x]).of.kind # "more"
                 PROVE  \E k \in early : told(Block(ds[x])) = block(k)
      BY <1>13
    <3>1. x \in 1..n /\ x <= MaxTabs
      BY <1>18
    <3>2. f[x] \in early /\ told(Block(ds[x])) = block(f[x])
      BY <1>8, <1>17, <3>1
    <3> QED
      BY <3>2
  <2>2. \A k \in early : \E b \in Range(report) : b.of.kind # "more" /\ told(b) = block(k)
    <3> TAKE k \in early
    <3>1. PICK x \in 1..n : x <= MaxTabs /\ k = f[x]
      BY <1>8
    <3>2. Block(ds[x]) \in Range(report) /\ Block(ds[x]).of.kind # "more" /\ told(Block(ds[x])) = block(k)
      BY <1>13, <1>17, <3>1
    <3> QED
      BY <3>2
  <2> QED
    BY <2>1, <2>2
<1>21. {b.of.about : b \in {b \in Range(report) : b.of.kind = "more"}}
           = IF bad = early THEN {} ELSE {Cardinality(bad \ early)}
  <2>1. \A x \in 1..size : Block(ds[x]).of.kind = "more" => n > MaxTabs /\ Block(ds[x]).of.about = n - MaxTabs
    <3> SUFFICES ASSUME NEW x \in 1..size, Block(ds[x]).of.kind = "more"
                 PROVE  n > MaxTabs /\ Block(ds[x]).of.about = n - MaxTabs
      OBVIOUS
    <3>1. ~(x <= MaxTabs)
      BY <1>17, <1>18
    <3> QED
      BY <1>18, <3>1
  <2>2. \A b \in Range(report) : b.of.kind = "more" => n > MaxTabs /\ b.of.about = n - MaxTabs
    BY <1>13, <2>1
  <2>3. CASE n <= MaxTabs
    <3>1. bad = early /\ ~(n > MaxTabs)
      BY <1>2, <1>10, <2>3, MessageAssumption
    <3> QED
      BY <2>2, <3>1
  <2>4. CASE n > MaxTabs
    <3>1. bad # early /\ Cardinality(bad \ early) = n - MaxTabs
      BY <1>10, <2>4
    <3>2. \E b \in Range(report) : b.of.kind = "more" /\ b.of.about = n - MaxTabs
      BY <1>13, <1>18, <1>19, <2>4
    <3> QED
      BY <2>2, <3>1, <3>2
  <2>5. n <= MaxTabs \/ n > MaxTabs
    BY <1>2, MessageAssumption
  <2> QED
    BY <2>3, <2>4, <2>5, Zenon
<1>22. Len(report) = Cardinality(early) + (IF bad = early THEN 0 ELSE 1)
  <2>1. CASE n <= MaxTabs
    BY <1>2, <1>10, <1>12, <1>13, <2>1
  <2>2. CASE n > MaxTabs
    BY <1>2, <1>10, <1>12, <1>13, <2>2, MessageAssumption
  <2> QED
    BY <1>2, <2>1, <2>2, MessageAssumption
<1> QED
  BY <1>20, <1>21, <1>22 DEF told, block, bad, early

(* However a file's lines end and however many of them hold tabs: the first    *)
(* MaxTabs of them are underlined, at their first tab, with its number, and    *)
(* the others are counted.                                                     *)
THEOREM TabsUnderlinedRight == ReportSpec => []TabsUnderlined
BY ReportInvariant, RInvTabs, PTL
=============================================================================
