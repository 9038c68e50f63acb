----------------------------- MODULE DataLemmas ------------------------------
(* Facts about numbers, sequences and finite sets that the proofs about the  *)
(* components share.  The library's induction theorems take a predicate as a *)
(* parameter; here induction is about a set of numbers, which needs none.    *)
EXTENDS SeqFilter, SequencesExt, FunctionTheorems, FiniteSetTheorems, SequenceTheorems,
        WellFoundedInduction, TLAPS

(* Every nonempty set of natural numbers has a least element. *)
LEMMA NatLeast ==
    ASSUME NEW T \in SUBSET Nat, T # {}
    PROVE  \E n \in T : \A m \in T : n <= m
<1> DEFINE R == {ss \in Nat \X Nat : ss[1] < ss[2]}
<1>1. IsWellFoundedOn(R, Nat)
  BY NatLessThanWellFounded DEF OpToRel
<1>2. ASSUME NEW x \in Nat, NEW y \in Nat, y < x
      PROVE  <<y, x>> \in R
  <2>1. <<y, x>> \in Nat \X Nat /\ <<y, x>>[1] = y /\ <<y, x>>[2] = x
    OBVIOUS
  <2> QED
    BY <2>1, <1>2
<1> HIDE DEF R
<1>3. PICK x \in T : \A y \in T : <<y, x>> \notin R
  BY <1>1, WFMin
<1>4. ASSUME NEW m \in T PROVE x <= m
  <2>1. x \in Nat /\ m \in Nat
    OBVIOUS
  <2>2. ~(m < x)
    BY <1>2, <1>3, <2>1
  <2> QED
    BY <2>1, <2>2
<1> QED
  BY <1>4

(* Induction over the natural numbers. *)
LEMMA NatByInduction ==
    ASSUME NEW T, 0 \in T, \A n \in Nat : n \in T => n + 1 \in T
    PROVE  Nat \subseteq T
<1> SUFFICES ASSUME Nat \ T # {} PROVE FALSE
  OBVIOUS
<1>1. PICK n \in Nat \ T : \A m \in Nat \ T : n <= m
  BY NatLeast
<1>2. n # 0 /\ n - 1 \in Nat
  BY <1>1
<1> QED
  BY <1>1, <1>2

(* Induction up to a bound. *)
LEMMA UpToByInduction ==
    ASSUME NEW n \in Nat, NEW T, 0 \in T,
           \A k \in 0..n : k < n /\ k \in T => k + 1 \in T
    PROVE  0..n \subseteq T
<1> DEFINE U == {k \in Nat : k <= n => k \in T}
<1>1. 0 \in U
  OBVIOUS
<1>2. ASSUME NEW k \in Nat, k \in U PROVE k + 1 \in U
  <2>1. CASE k + 1 <= n
    <3>1. k \in 0..n /\ k < n /\ k <= n
      BY <2>1
    <3>2. k \in T
      BY <1>2, <3>1
    <3> QED
      BY <3>1, <3>2
  <2>2. CASE ~(k + 1 <= n)
    BY <2>2
  <2> QED
    BY <2>1, <2>2
<1> HIDE DEF U
<1>3. Nat \subseteq U
  BY <1>1, <1>2, NatByInduction
<1> QED
  BY <1>3 DEF U

-----------------------------------------------------------------------------
(* Sequences *)

LEMMA Concat ==
    ASSUME NEW S, NEW s \in Seq(S), NEW t \in Seq(S)
    PROVE  /\ s \o t \in Seq(S) /\ Len(s \o t) = Len(s) + Len(t)
           /\ \A j \in 1..Len(s) : (s \o t)[j] = s[j]
           /\ \A j \in 1..Len(t) : (s \o t)[Len(s) + j] = t[j]
OBVIOUS

(* A sequence over its own elements: what a variable that only grows is, with *)
(* no set of elements fixed beforehand.                                       *)
LEMMA OwnSeq ==
    ASSUME NEW S, NEW s \in Seq(S)
    PROVE  s \in Seq(ToSet(s)) /\ DOMAIN s = 1..Len(s) /\ Len(s) \in Nat
<1>1. \A j \in 1..Len(s) : s[j] \in ToSet(s)
  BY DEF ToSet
<1> QED
  BY <1>1

LEMMA Joining ==
    ASSUME NEW s, s \in Seq(ToSet(s)), NEW t, t \in Seq(ToSet(t))
    PROVE  /\ s \o t \in Seq(ToSet(s \o t)) /\ Len(s \o t) = Len(s) + Len(t)
           /\ Len(s) \in Nat /\ Len(t) \in Nat
           /\ DOMAIN s = 1..Len(s) /\ DOMAIN (s \o t) = 1..(Len(s) + Len(t))
           /\ \A j \in 1..Len(s) : (s \o t)[j] = s[j]
           /\ \A j \in 1..Len(t) : (s \o t)[Len(s) + j] = t[j]
<1> DEFINE S == ToSet(s) \cup ToSet(t)
<1>1. s \in Seq(S) /\ t \in Seq(S)
  OBVIOUS
<1> HIDE DEF S
<1>2. s \o t \in Seq(S)
  BY <1>1
<1>3. s \o t \in Seq(ToSet(s \o t)) /\ DOMAIN (s \o t) = 1..Len(s \o t)
  BY <1>2, OwnSeq
<1>4. /\ Len(s \o t) = Len(s) + Len(t)
      /\ \A j \in 1..Len(s) : (s \o t)[j] = s[j]
      /\ \A j \in 1..Len(t) : (s \o t)[Len(s) + j] = t[j]
  BY <1>1, Concat
<1>5. Len(s) \in Nat /\ Len(t) \in Nat /\ DOMAIN s = 1..Len(s)
  BY <1>1
<1> QED
  BY <1>3, <1>4, <1>5

LEMMA Appending ==
    ASSUME NEW s, s \in Seq(ToSet(s)), NEW x
    PROVE  /\ Append(s, x) \in Seq(ToSet(Append(s, x))) /\ Len(Append(s, x)) = Len(s) + 1
           /\ Len(s) \in Nat
           /\ DOMAIN s = 1..Len(s) /\ DOMAIN Append(s, x) = 1..(Len(s) + 1)
           /\ \A j \in 1..Len(s) : Append(s, x)[j] = s[j]
           /\ Append(s, x)[Len(s) + 1] = x
<1> DEFINE S == ToSet(s) \cup {x}
<1>1. s \in Seq(S) /\ x \in S
  OBVIOUS
<1> HIDE DEF S
<1>2. Append(s, x) \in Seq(S)
  BY <1>1
<1>3. Append(s, x) \in Seq(ToSet(Append(s, x))) /\ DOMAIN Append(s, x) = 1..Len(Append(s, x))
  BY <1>2, OwnSeq
<1>4. /\ Len(Append(s, x)) = Len(s) + 1
      /\ \A j \in 1..Len(s) : Append(s, x)[j] = s[j]
      /\ Append(s, x)[Len(s) + 1] = x
  BY <1>1
<1>5. Len(s) \in Nat /\ DOMAIN s = 1..Len(s)
  BY <1>1
<1> QED
  BY <1>3, <1>4, <1>5

-----------------------------------------------------------------------------
(* Outside *)

OutsideStep(s, X, n, f) ==
    IF n = 0 THEN << >> ELSE IF s[n] \in X THEN f[n - 1] ELSE Append(f[n - 1], s[n])

LEMMA OutsideExists ==
    ASSUME NEW S, NEW s \in Seq(S), NEW X
    PROVE  \E f : f = [n \in 0..Len(s) |-> OutsideStep(s, X, n, f)]
<1> DEFINE T == {m \in Nat : \E f : f = [n \in 0..m |-> OutsideStep(s, X, n, f)]}
<1>1. 0 \in T
  <2> DEFINE f == [n \in 0..0 |-> << >>]
  <2>1. f = [n \in 0..0 |-> OutsideStep(s, X, n, f)]
    BY DEF OutsideStep
  <2> QED
    BY <2>1
<1>2. ASSUME NEW m \in Nat, m \in T PROVE m + 1 \in T
  <2>1. PICK f : f = [n \in 0..m |-> OutsideStep(s, X, n, f)]
    BY <1>2
  <2> DEFINE g == [n \in 0..(m + 1) |-> IF n <= m THEN f[n] ELSE OutsideStep(s, X, m + 1, f)]
  <2>2. ASSUME NEW n \in 0..(m + 1) PROVE g[n] = OutsideStep(s, X, n, g)
    <3>1. CASE n <= m
      <4>1. g[n] = f[n] /\ f[n] = OutsideStep(s, X, n, f)
        BY <2>1, <3>1
      <4>2. n # 0 => g[n - 1] = f[n - 1]
        BY <3>1
      <4> HIDE DEF g
      <4> QED
        BY <4>1, <4>2 DEF OutsideStep
    <3>2. CASE n = m + 1
      <4>1. g[n] = OutsideStep(s, X, n, f)
        BY <3>2
      <4>2. n # 0 /\ g[n - 1] = f[n - 1]
        BY <3>2
      <4> HIDE DEF g
      <4> QED
        BY <4>1, <4>2 DEF OutsideStep
    <3> QED
      BY <3>1, <3>2
  <2>3. g = [n \in 0..(m + 1) |-> g[n]]
    OBVIOUS
  <2> HIDE DEF g
  <2>4. g = [n \in 0..(m + 1) |-> OutsideStep(s, X, n, g)]
    BY <2>2, <2>3
  <2>5. \E h : h = [n \in 0..(m + 1) |-> OutsideStep(s, X, n, h)]
    BY <2>4
  <2> QED
    BY <2>5
<1> HIDE DEF T
<1>3. Nat \subseteq T
  BY <1>1, <1>2, NatByInduction
<1>4. Len(s) \in T
  BY <1>3
<1> QED
  BY <1>4 DEF T

(* What Outside computes, prefix by prefix. *)
LEMMA OutsidePrefixes ==
    ASSUME NEW S, NEW s \in Seq(S), NEW X
    PROVE  \E f : /\ f[0] = << >>
                  /\ \A n \in 1..Len(s) :
                         f[n] = IF s[n] \in X THEN f[n - 1] ELSE Append(f[n - 1], s[n])
                  /\ Outside(s, X) = f[Len(s)]
<1> DEFINE f == CHOOSE f : f = [n \in 0..Len(s) |-> OutsideStep(s, X, n, f)]
<1>1. f = [n \in 0..Len(s) |-> OutsideStep(s, X, n, f)]
  BY OutsideExists
<1>2. Outside(s, X) = f[Len(s)]
  BY DEF Outside, OutsideStep
<1> HIDE DEF f
<1>3. f[0] = OutsideStep(s, X, 0, f)
  BY <1>1
<1>4. \A n \in 1..Len(s) : f[n] = OutsideStep(s, X, n, f)
  BY <1>1
<1>5. \A n \in 1..Len(s) : n # 0
  OBVIOUS
<1> QED
  BY <1>2, <1>3, <1>4, <1>5 DEF OutsideStep

NoRepeats(s) == \A j, k \in DOMAIN s : s[j] = s[k] => j = k

(* Outside keeps exactly the elements that are not in X, and repeats none    *)
(* that the sequence does not repeat.                                        *)
LEMMA OutsideFacts ==
    ASSUME NEW S, NEW s \in Seq(S), NEW X
    PROVE  /\ Outside(s, X) \in Seq(S \ X)
           /\ ToSet(Outside(s, X)) = ToSet(s) \ X
           /\ ToSet(s) \cap X = {} => Outside(s, X) = s
           /\ NoRepeats(s) => NoRepeats(Outside(s, X))
<1>1. PICK f : /\ f[0] = << >>
               /\ \A n \in 1..Len(s) :
                      f[n] = IF s[n] \in X THEN f[n - 1] ELSE Append(f[n - 1], s[n])
               /\ Outside(s, X) = f[Len(s)]
  BY OutsidePrefixes
<1> DEFINE Good(n) == /\ f[n] \in Seq(S \ X)
                      /\ \A i \in 1..Len(f[n]) : \E j \in 1..n : f[n][i] = s[j]
                      /\ \A j \in 1..n : s[j] \notin X => \E i \in 1..Len(f[n]) : f[n][i] = s[j]
                      /\ ToSet(s) \cap X = {} => Len(f[n]) = n /\ \A i \in 1..n : f[n][i] = s[i]
                      /\ NoRepeats(s) => \A i, j \in 1..Len(f[n]) : f[n][i] = f[n][j] => i = j
<1> DEFINE T == {n \in 0..Len(s) : Good(n)}
<1>2. 0 \in T
  <2>1. f[0] \in Seq(S \ X) /\ Len(f[0]) = 0 /\ 1..0 = {}
    BY <1>1
  <2> QED
    BY <2>1
<1>3. ASSUME NEW k \in 0..Len(s), k < Len(s), k \in T PROVE k + 1 \in T
  <2> DEFINE g == f[k]
  <2> DEFINE h == f[k + 1]
  <2> DEFINE x == s[k + 1]
  <2>0. k + 1 \in 1..Len(s) /\ (k + 1) - 1 = k /\ x \in S
    BY <1>3
  <2>1. h = IF x \in X THEN g ELSE Append(g, x)
    BY <1>1, <2>0
  <2>2. Good(k)
    BY <1>3
  <2>3. g \in Seq(S \ X) /\ Len(g) \in Nat
    BY <2>2
  <2>4. CASE x \in X
    <3>1. h = g /\ DOMAIN s = 1..Len(s)
      BY <2>1, <2>4
    <3>2. ToSet(s) \cap X # {}
      BY <2>0, <2>4 DEF ToSet
    <3>3. Good(k + 1)
      BY <2>2, <2>3, <2>4, <3>1, <3>2
    <3> QED
      BY <2>0, <3>3
  <2>5. CASE x \notin X
    <3>1. /\ h = Append(g, x) /\ h \in Seq(S \ X) /\ Len(h) = Len(g) + 1
          /\ \A i \in 1..Len(g) : h[i] = g[i]
          /\ h[Len(g) + 1] = x
      BY <2>0, <2>1, <2>3, <2>5
    <3>2. \A i \in 1..Len(h) : \E j \in 1..(k + 1) : h[i] = s[j]
      <4> SUFFICES ASSUME NEW i \in 1..Len(h) PROVE \E j \in 1..(k + 1) : h[i] = s[j]
        OBVIOUS
      <4>1. CASE i = Len(g) + 1
        BY <4>1, <3>1
      <4>2. CASE i # Len(g) + 1
        <5>1. i \in 1..Len(g)
          BY <4>2, <3>1, <2>3
        <5>2. PICK j \in 1..k : g[i] = s[j]
          BY <5>1, <2>2
        <5> HIDE DEF g, h
        <5> QED
          BY <5>1, <5>2, <3>1
      <4> QED
        BY <4>1, <4>2
    <3>3. \A j \in 1..(k + 1) : s[j] \notin X => \E i \in 1..Len(h) : h[i] = s[j]
      <4> SUFFICES ASSUME NEW j \in 1..(k + 1), s[j] \notin X PROVE \E i \in 1..Len(h) : h[i] = s[j]
        OBVIOUS
      <4>1. CASE j = k + 1
        BY <4>1, <3>1, <2>3
      <4>2. CASE j # k + 1
        <5>1. j \in 1..k
          BY <4>2
        <5>2. PICK i \in 1..Len(g) : g[i] = s[j]
          BY <5>1, <2>2
        <5> HIDE DEF g, h
        <5> QED
          BY <5>2, <3>1, <2>3
      <4> QED
        BY <4>1, <4>2
    <3>4. ToSet(s) \cap X = {} => Len(h) = k + 1 /\ \A i \in 1..(k + 1) : h[i] = s[i]
      <4> SUFFICES ASSUME ToSet(s) \cap X = {}
                   PROVE  Len(h) = k + 1 /\ \A i \in 1..(k + 1) : h[i] = s[i]
        OBVIOUS
      <4>1. Len(g) = k /\ \A i \in 1..k : g[i] = s[i]
        BY <2>2
      <4> HIDE DEF g, h
      <4> QED
        BY <4>1, <3>1
    <3>5. NoRepeats(s) => \A i, j \in 1..Len(h) : h[i] = h[j] => i = j
      <4> SUFFICES ASSUME NoRepeats(s), NEW i \in 1..Len(h), NEW j \in 1..Len(h), h[i] = h[j], i < j
                   PROVE  FALSE
        <5>1. Len(h) \in Nat
          BY <3>1
        <5> HIDE DEF h
        <5> QED
          BY <5>1
      <4>1. i \in 1..Len(g)
        BY <3>1, <2>3
      <4>2. CASE j \in 1..Len(g)
        <5>1. g[i] = g[j]
          BY <4>1, <4>2, <3>1
        <5> QED
          BY <5>1, <4>1, <4>2, <2>2
      <4>3. CASE j = Len(g) + 1
        <5>1. PICK m \in 1..k : g[i] = s[m]
          BY <4>1, <2>2
        <5>2. s[m] = s[k + 1] /\ m \in DOMAIN s /\ k + 1 \in DOMAIN s
          BY <5>1, <4>1, <4>3, <3>1, <2>0
        <5> QED
          BY <5>2, <5>1 DEF NoRepeats
      <4> QED
        BY <4>2, <4>3, <3>1, <2>3
    <3>6. Good(k + 1)
      BY <3>1, <3>2, <3>3, <3>4, <3>5
    <3> QED
      BY <2>0, <3>6
  <2> QED
    BY <2>4, <2>5
<1>4. 0..Len(s) \subseteq T
  <2> HIDE DEF T
  <2>1. Len(s) \in Nat
    OBVIOUS
  <2> QED
    BY <1>2, <1>3, <2>1, UpToByInduction
<1>5. Good(Len(s))
  BY <1>4
<1> DEFINE r == Outside(s, X)
<1>6. /\ r \in Seq(S \ X)
      /\ \A i \in 1..Len(r) : \E j \in 1..Len(s) : r[i] = s[j]
      /\ \A j \in 1..Len(s) : s[j] \notin X => \E i \in 1..Len(r) : r[i] = s[j]
      /\ ToSet(s) \cap X = {} => Len(r) = Len(s) /\ \A i \in 1..Len(s) : r[i] = s[i]
      /\ NoRepeats(s) => \A i, j \in 1..Len(r) : r[i] = r[j] => i = j
  BY <1>1, <1>5
<1> HIDE DEF r, Good, T
<1>7. DOMAIN r = 1..Len(r) /\ DOMAIN s = 1..Len(s) /\ \A i \in 1..Len(r) : r[i] \notin X
  BY <1>6
<1>8. ToSet(r) = ToSet(s) \ X
  <2>1. ASSUME NEW x \in ToSet(r) PROVE x \in ToSet(s) \ X
    <3>1. PICK i \in 1..Len(r) : x = r[i]
      BY <2>1, <1>7 DEF ToSet
    <3>2. PICK j \in 1..Len(s) : r[i] = s[j]
      BY <1>6
    <3> QED
      BY <3>1, <3>2, <1>7 DEF ToSet
  <2>2. ASSUME NEW x \in ToSet(s) \ X PROVE x \in ToSet(r)
    <3>1. PICK j \in 1..Len(s) : x = s[j]
      BY <2>2, <1>7 DEF ToSet
    <3>2. PICK i \in 1..Len(r) : r[i] = s[j]
      BY <3>1, <1>6
    <3> QED
      BY <3>1, <3>2, <1>7 DEF ToSet
  <2> QED
    BY <2>1, <2>2
<1>9. ToSet(s) \cap X = {} => r = s
  <2>1. r \in Seq(S) /\ s \in Seq(S)
    BY <1>6
  <2> QED
    BY <1>6, <2>1, SeqEqual
<1>10. NoRepeats(s) => NoRepeats(r)
  BY <1>6, <1>7 DEF NoRepeats
<1> QED
  BY <1>6, <1>8, <1>9, <1>10 DEF r

-----------------------------------------------------------------------------
(* FlattenSeq *)

FlattenStep(ss, n, f) == IF n = 1 THEN ss[n] ELSE f[n - 1] \o ss[n]

LEMMA FlattenExists ==
    ASSUME NEW S, NEW ss \in Seq(S), Len(ss) # 0
    PROVE  \E f : f = [n \in 1..Len(ss) |-> FlattenStep(ss, n, f)]
<1> DEFINE T == {m \in Nat : \E f : f = [n \in 1..(m + 1) |-> FlattenStep(ss, n, f)]}
<1>1. 0 \in T
  <2> DEFINE f == [n \in 1..(0 + 1) |-> ss[n]]
  <2>1. f = [n \in 1..(0 + 1) |-> FlattenStep(ss, n, f)]
    BY DEF FlattenStep
  <2> QED
    BY <2>1
<1>2. ASSUME NEW m \in Nat, m \in T PROVE m + 1 \in T
  <2>1. PICK f : f = [n \in 1..(m + 1) |-> FlattenStep(ss, n, f)]
    BY <1>2
  <2> DEFINE g == [n \in 1..((m + 1) + 1) |-> IF n <= m + 1 THEN f[n] ELSE FlattenStep(ss, m + 2, f)]
  <2>2. ASSUME NEW n \in 1..((m + 1) + 1) PROVE g[n] = FlattenStep(ss, n, g)
    <3>1. CASE n <= m + 1
      <4>1. g[n] = f[n] /\ f[n] = FlattenStep(ss, n, f)
        BY <2>1, <3>1
      <4>2. n # 1 => g[n - 1] = f[n - 1]
        BY <3>1
      <4> HIDE DEF g
      <4> QED
        BY <4>1, <4>2 DEF FlattenStep
    <3>2. CASE n = m + 2
      <4>1. g[n] = FlattenStep(ss, n, f)
        BY <3>2
      <4>2. n # 1 /\ g[n - 1] = f[n - 1]
        BY <3>2
      <4> HIDE DEF g
      <4> QED
        BY <4>1, <4>2 DEF FlattenStep
    <3> QED
      BY <3>1, <3>2
  <2>3. g = [n \in 1..((m + 1) + 1) |-> g[n]]
    OBVIOUS
  <2> HIDE DEF g
  <2>4. g = [n \in 1..((m + 1) + 1) |-> FlattenStep(ss, n, g)]
    BY <2>2, <2>3
  <2>5. \E h : h = [n \in 1..((m + 1) + 1) |-> FlattenStep(ss, n, h)]
    BY <2>4
  <2> QED
    BY <2>5
<1> HIDE DEF T
<1>3. Nat \subseteq T
  BY <1>1, <1>2, NatByInduction
<1>4. Len(ss) - 1 \in T /\ (Len(ss) - 1) + 1 = Len(ss)
  BY <1>3
<1> QED
  BY <1>4 DEF T

(* Sequences joined are a sequence. *)
LEMMA FlattenType ==
    ASSUME NEW S, NEW ss \in Seq(Seq(S))
    PROVE  FlattenSeq(ss) \in Seq(S)
<1>1. CASE Len(ss) = 0
  <2>1. FlattenSeq(ss) = ss /\ ss = << >>
    BY <1>1 DEF FlattenSeq
  <2> QED
    BY <2>1
<1>2. CASE Len(ss) # 0
  <2> DEFINE f == CHOOSE f : f = [n \in 1..Len(ss) |-> FlattenStep(ss, n, f)]
  <2>1. f = [n \in 1..Len(ss) |-> FlattenStep(ss, n, f)]
    BY <1>2, FlattenExists
  <2>2. FlattenSeq(ss) = f[Len(ss)]
    BY <1>2 DEF FlattenSeq, FlattenStep
  <2> HIDE DEF f
  <2>3. \A n \in 1..Len(ss) : f[n] = FlattenStep(ss, n, f)
    BY <2>1
  <2> DEFINE T == {n \in 0..Len(ss) : n # 0 => f[n] \in Seq(S)}
  <2>4. 0 \in T
    OBVIOUS
  <2>5. ASSUME NEW k \in 0..Len(ss), k < Len(ss), k \in T PROVE k + 1 \in T
    <3>1. k + 1 \in 1..Len(ss) /\ (k + 1) - 1 = k /\ ss[k + 1] \in Seq(S)
      BY <2>5
    <3>2. f[k + 1] = IF k = 0 THEN ss[k + 1] ELSE f[k] \o ss[k + 1]
      BY <3>1, <2>3 DEF FlattenStep
    <3>3. f[k + 1] \in Seq(S)
      BY <2>5, <3>1, <3>2
    <3> QED
      BY <3>1, <3>3
  <2> HIDE DEF T
  <2>6. 0..Len(ss) \subseteq T
    <3>1. Len(ss) \in Nat
      OBVIOUS
    <3> QED
      BY <2>4, <2>5, <3>1, UpToByInduction
  <2> QED
    BY <2>2, <2>6, <1>2 DEF T
<1> QED
  BY <1>1, <1>2

-----------------------------------------------------------------------------
(* Counting *)

(* A sequence that repeats nothing is as long as it has elements. *)
LEMMA LenIsCardinality ==
    ASSUME NEW S, NEW s \in Seq(S), NoRepeats(s)
    PROVE  IsFiniteSet(ToSet(s)) /\ Cardinality(ToSet(s)) = Len(s)
<1>1. Len(s) \in Nat /\ DOMAIN s = 1..Len(s) /\ s \in [1..Len(s) -> ToSet(s)]
  BY DEF ToSet
<1>2. s \in Bijection(1..Len(s), ToSet(s))
  <2>1. \A i, j \in 1..Len(s) : s[i] = s[j] => i = j
    BY <1>1 DEF NoRepeats
  <2>2. \A x \in ToSet(s) : \E i \in 1..Len(s) : s[i] = x
    BY <1>1 DEF ToSet
  <2> QED
    BY <1>1, <2>1, <2>2, Fun_IsBij
<1>3. ExistsBijection(1..Len(s), ToSet(s))
  BY <1>2 DEF ExistsBijection
<1> QED
  BY <1>1, <1>3, FS_CountingElements, FS_NatBijection

(* The place of every element of 1..n in the order of its rank. *)
Place(n, rank, j) == Cardinality({i \in 1..n : rank[i] <= rank[j]})

LEMMA PlaceOrder ==
    ASSUME NEW n \in Nat, NEW rank \in [1..n -> Nat],
           NEW i \in 1..n, NEW j \in 1..n
    PROVE  /\ Place(n, rank, j) \in 1..n
           /\ rank[i] < rank[j] => Place(n, rank, i) < Place(n, rank, j)
<1> DEFINE below(m) == {k \in 1..n : rank[k] <= rank[m]}
<1>1. IsFiniteSet(1..n) /\ Cardinality(1..n) = n
  BY FS_Interval
<1>2. ASSUME NEW m \in 1..n
      PROVE  IsFiniteSet(below(m)) /\ Cardinality(below(m)) \in Nat /\ Cardinality(below(m)) <= n
  <2>1. below(m) \in SUBSET (1..n)
    OBVIOUS
  <2> HIDE DEF below
  <2> QED
    BY <1>1, <2>1, FS_Subset, FS_CardinalityType
<1>3. Place(n, rank, i) = Cardinality(below(i)) /\ Place(n, rank, j) = Cardinality(below(j))
  BY DEF Place
<1>4. Cardinality(below(j)) # 0
  <2>1. j \in below(j)
    OBVIOUS
  <2> HIDE DEF below
  <2> QED
    BY <1>2, <2>1, FS_EmptySet
<1>5. ASSUME rank[i] < rank[j] PROVE Cardinality(below(i)) < Cardinality(below(j))
  <2>1. below(i) \in SUBSET below(j)
    <3>1. ASSUME NEW k \in below(i) PROVE k \in below(j)
      BY <1>5
    <3> QED
      BY <3>1
  <2>2. j \in below(j) /\ j \notin below(i)
    BY <1>5
  <2> HIDE DEF below
  <2>3. Cardinality(below(i)) <= Cardinality(below(j)) /\ Cardinality(below(i)) # Cardinality(below(j))
    BY <1>2, <2>1, <2>2, FS_Subset
  <2> QED
    BY <1>2, <2>3
<1> HIDE DEF below
<1> QED
  BY <1>2, <1>3, <1>4, <1>5

(* With distinct ranks every place is taken, by one element. *)
LEMMA PlacesTaken ==
    ASSUME NEW n \in Nat, NEW rank \in [1..n -> Nat],
           \A i, j \in 1..n : rank[i] = rank[j] => i = j,
           NEW k \in 1..n
    PROVE  \E j \in 1..n : Place(n, rank, j) = k
<1> DEFINE place == [j \in 1..n |-> Place(n, rank, j)]
<1>1. place \in [1..n -> 1..n]
  BY PlaceOrder
<1>2. \A i, j \in 1..n : place[i] = place[j] => i = j
  <2> SUFFICES ASSUME NEW i \in 1..n, NEW j \in 1..n, i # j, place[i] = place[j] PROVE FALSE
    OBVIOUS
  <2>1. place[i] \in Nat /\ place[j] \in Nat
    BY <1>1
  <2>2. rank[i] < rank[j] \/ rank[j] < rank[i]
    <3>1. rank[i] \in Nat /\ rank[j] \in Nat /\ rank[i] # rank[j]
      OBVIOUS
    <3> QED
      BY <3>1
  <2>3. place[i] < place[j] \/ place[j] < place[i]
    BY <2>2, PlaceOrder
  <2> HIDE DEF place
  <2> QED
    BY <2>1, <2>3
<1> HIDE DEF place
<1>3. place \in Injection(1..n, 1..n)
  BY <1>1, <1>2, Fun_IsInj
<1>4. place \in Surjection(1..n, 1..n)
  <2>1. IsFiniteSet(1..n)
    BY FS_Interval
  <2> QED
    BY <1>3, <2>1, FS_Injection
<1>5. PICK j \in 1..n : place[j] = k
  BY <1>4 DEF Surjection
<1> QED
  BY <1>5 DEF place

(* A sequence with one more element in front. *)
LEMMA Prepending ==
    ASSUME NEW X, NEW x \in X, NEW c \in Seq(X)
    PROVE  /\ <<x>> \o c \in Seq(X) /\ Len(<<x>> \o c) = Len(c) + 1
           /\ (<<x>> \o c)[1] = x
           /\ \A k \in 1..Len(c) : (<<x>> \o c)[k + 1] = c[k]
OBVIOUS

-----------------------------------------------------------------------------
(* Numbers in order *)

(* The least element of a set of numbers, and the greatest one. *)
LEMMA MinIsLeast ==
    ASSUME NEW T \in SUBSET Nat, T # {}
    PROVE  Min(T) \in T /\ \A x \in T : Min(T) <= x
<1>1. \E m \in T : \A x \in T : m =< x
  BY NatLeast
<1> QED
  BY <1>1 DEF Min

LEMMA MaxIs ==
    ASSUME NEW T \in SUBSET Nat, NEW v \in T, \A x \in T : x <= v
    PROVE  Max(T) = v
<1>1. \A y \in T : v >= y
  OBVIOUS
<1>2. Max(T) \in T /\ \A y \in T : Max(T) >= y
  BY <1>1 DEF Max
<1>3. Max(T) >= v /\ v >= Max(T)
  BY <1>1, <1>2
<1>4. Max(T) \in Nat /\ v \in Nat
  BY <1>2
<1> QED
  BY <1>3, <1>4

(* The places of the elements of 1..n in a total order on them. *)
LEMMA OrderPlaces ==
    ASSUME NEW n \in Nat, NEW R,
           \A x, y \in 1..n : <<x, y>> \in R \/ <<y, x>> \in R,
           \A x, y \in 1..n : <<x, y>> \in R /\ <<y, x>> \in R => x = y,
           \A x, y, z \in 1..n : <<x, y>> \in R /\ <<y, z>> \in R => <<x, z>> \in R,
           NEW up, \A y \in 1..n : up[y] \subseteq 1..n,
           \A x, y \in 1..n : x \in up[y] <=> <<x, y>> \in R,
           NEW place \in [1..n -> Nat], \A y \in 1..n : place[y] = Cardinality(up[y])
    PROVE  place \in Bijection(1..n, 1..n)
<1>1. IsFiniteSet(1..n) /\ Cardinality(1..n) = n
  BY FS_Interval
<1>2. ASSUME NEW y \in 1..n
      PROVE  IsFiniteSet(up[y]) /\ Cardinality(up[y]) \in 1..n
  <2>1. up[y] \in SUBSET (1..n) /\ y \in up[y]
    OBVIOUS
  <2>2. IsFiniteSet(up[y]) /\ Cardinality(up[y]) <= n /\ Cardinality(up[y]) \in Nat
    BY <1>1, <2>1, FS_Subset, FS_CardinalityType
  <2>3. Cardinality(up[y]) # 0
    BY <2>1, <2>2, FS_EmptySet
  <2> QED
    BY <2>2, <2>3
<1>3. ASSUME NEW x \in 1..n, NEW y \in 1..n, x # y, <<x, y>> \in R
      PROVE  Cardinality(up[x]) # Cardinality(up[y])
  <2>1. up[x] \in SUBSET up[y] /\ y \in up[y] /\ y \notin up[x]
    <3>1. up[x] \subseteq 1..n /\ up[y] \subseteq 1..n
      OBVIOUS
    <3>2. \A z \in 1..n : z \in up[x] => z \in up[y]
      BY <1>3
    <3>3. <<y, y>> \in R /\ ~(<<y, x>> \in R)
      BY <1>3
    <3> QED
      BY <3>1, <3>2, <3>3
  <2> QED
    BY <2>1, <1>2, FS_Subset
<1>4. ASSUME NEW y \in 1..n PROVE place[y] = Cardinality(up[y])
  OBVIOUS
<1>5. place \in [1..n -> 1..n]
  <2>1. place = [y \in 1..n |-> place[y]]
    OBVIOUS
  <2>2. \A y \in 1..n : place[y] \in 1..n
    BY <1>2, <1>4
  <2> QED
    BY <2>1, <2>2
<1>6. ASSUME NEW x \in 1..n, NEW y \in 1..n, place[x] = place[y] PROVE x = y
  <2> SUFFICES ASSUME x # y PROVE FALSE
    OBVIOUS
  <2>1. Cardinality(up[x]) = Cardinality(up[y])
    BY <1>4, <1>6
  <2>2. <<x, y>> \in R \/ <<y, x>> \in R
    OBVIOUS
  <2> QED
    BY <1>3, <2>1, <2>2
<1>7. place \in Injection(1..n, 1..n)
  BY <1>5, <1>6, Fun_IsInj
<1>8. place \in Surjection(1..n, 1..n)
  BY <1>1, <1>7, FS_Injection
<1> QED
  BY <1>7, <1>8 DEF Bijection

(* Counting a set of places in another order of them. *)
LEMMA CountReordered ==
    ASSUME NEW n \in Nat, NEW p \in Bijection(1..n, 1..n), NEW X \in SUBSET (1..n)
    PROVE  IsFiniteSet(X) /\ Cardinality({x \in 1..n : p[x] \in X}) = Cardinality(X)
<1> DEFINE Y == {x \in 1..n : p[x] \in X}
           f == [x \in Y |-> p[x]]
<1>1. /\ p \in [1..n -> 1..n] /\ \A x, y \in 1..n : p[x] = p[y] => x = y
      /\ \A y \in 1..n : \E x \in 1..n : p[x] = y
  BY DEF Bijection, Injection, Surjection, IsInjective
<1>2. /\ f \in [Y -> X] /\ \A x, y \in Y : f[x] = f[y] => x = y
      /\ \A y \in X : \E x \in Y : f[x] = y
  BY <1>1
<1>3. IsFiniteSet(X) /\ IsFiniteSet(Y)
  <2>1. IsFiniteSet(1..n)
    BY FS_Interval
  <2>2. Y \in SUBSET (1..n)
    OBVIOUS
  <2> HIDE DEF Y
  <2> QED
    BY <2>1, <2>2, FS_Subset
<1> HIDE DEF f, Y
<1>4. f \in Bijection(Y, X)
  BY <1>2, Fun_IsBij
<1>5. ExistsBijection(Y, X)
  BY <1>4 DEF ExistsBijection
<1>6. Cardinality(X) = Cardinality(Y)
  BY <1>3, <1>5, FS_Bijection
<1> QED
  BY <1>3, <1>6 DEF Y

Part(f, a, b) == {f[y] : y \in (a + 1)..b}

(* An increasing sequence has b - a elements after place a and up to place b. *)
LEMMA IncreasingPart ==
    ASSUME NEW n \in Nat, NEW f \in [1..n -> Nat], \A x, y \in 1..n : x < y => f[x] < f[y],
           NEW a \in Nat, NEW b \in Nat, b <= n, a <= b
    PROVE  Cardinality(Part(f, a, b)) = b - a
<1> DEFINE T == Part(f, a, b)
<1> DEFINE s == [y \in 1..(b - a) |-> f[a + y]]
<1>1. s \in Seq(Nat) /\ Len(s) = b - a /\ DOMAIN s = 1..(b - a)
  OBVIOUS
<1>2. \A y \in 1..(b - a) : s[y] = f[a + y] /\ a + y \in 1..n /\ a < a + y /\ a + y <= b
  OBVIOUS
<1>3. NoRepeats(s)
  <2> SUFFICES ASSUME NEW x \in 1..(b - a), NEW y \in 1..(b - a), x # y PROVE s[x] # s[y]
    BY <1>1 DEF NoRepeats
  <2>1. a + x < a + y \/ a + y < a + x
    OBVIOUS
  <2>2. f[a + x] \in Nat /\ f[a + y] \in Nat /\ a + x \in 1..n /\ a + y \in 1..n
    BY <1>2
  <2>3. f[a + x] # f[a + y]
    BY <2>1, <2>2
  <2> QED
    BY <1>2, <2>3
<1>4. ToSet(s) = T
  <2>1. \A v \in T : \E y \in 1..(b - a) : s[y] = v
    <3> TAKE v \in T
    <3>1. PICK y \in (a + 1)..b : v = f[y]
      BY DEF Part
    <3>2. y - a \in 1..(b - a) /\ a + (y - a) = y
      BY <3>1
    <3>3. s[y - a] = v
      BY <1>2, <3>1, <3>2
    <3> QED
      BY <3>2, <3>3
  <2>2. \A y \in 1..(b - a) : s[y] \in T
    <3>1. \A y \in 1..(b - a) : a + y \in (a + 1)..b
      OBVIOUS
    <3> QED
      BY <1>2, <3>1 DEF Part
  <2>3. ToSet(s) = {s[y] : y \in 1..(b - a)}
    BY <1>1 DEF ToSet
  <2> HIDE DEF s
  <2> QED
    BY <2>1, <2>2, <2>3
<1> QED
  BY <1>1, <1>3, <1>4, LenIsCardinality

LEMMA IncreasingRanks ==
    ASSUME NEW n \in Nat, NEW f \in [1..n -> Nat], \A x, y \in 1..n : x < y => f[x] < f[y],
           NEW x \in 1..n
    PROVE  Cardinality({m \in {f[y] : y \in 1..n} : m <= f[x]}) = x
<1> DEFINE T == {m \in {f[y] : y \in 1..n} : m <= f[x]}
<1>1. \A y \in 1..n : f[y] \in Nat /\ (f[y] <= f[x] <=> y <= x)
  OBVIOUS
<1>2. \A y \in (0 + 1)..x : y \in 1..n /\ y <= x
  OBVIOUS
<1>3. \A y \in 1..n : y <= x => y \in (0 + 1)..x
  OBVIOUS
<1>4. T = Part(f, 0, x)
  BY <1>1, <1>2, <1>3 DEF Part
<1>5. Cardinality(Part(f, 0, x)) = x - 0
  BY IncreasingPart
<1> HIDE DEF T
<1>6. Cardinality(T) = x
  BY <1>4, <1>5
<1> QED
  BY <1>6 DEF T

LEMMA PartsOfIncreasing ==
    ASSUME NEW n \in Nat, NEW f \in [1..n -> Nat], \A x, y \in 1..n : x < y => f[x] < f[y],
           NEW K \in Nat, K < n
    PROVE  /\ Part(f, 0, K) # Part(f, 0, n)
           /\ Cardinality(Part(f, 0, n) \ Part(f, 0, K)) = n - K
<1>1. \A y \in 1..n : \A v \in 1..n : f[y] = f[v] => y = v
  <2> SUFFICES ASSUME NEW y \in 1..n, NEW v \in 1..n, y # v PROVE f[y] # f[v]
    OBVIOUS
  <2>1. f[y] \in Nat /\ f[v] \in Nat /\ (y < v \/ v < y)
    OBVIOUS
  <2> QED
    BY <2>1
<1>2. Part(f, 0, n) \ Part(f, 0, K) = Part(f, K, n)
  <2>1. \A y : y \in (K + 1)..n <=> y \in (0 + 1)..n /\ y \notin (0 + 1)..K
    OBVIOUS
  <2>2. \A y : y \in (0 + 1)..n <=> y \in 1..n
    OBVIOUS
  <2>3. \A y : y \in (0 + 1)..K => y \in 1..n
    OBVIOUS
  <2> QED
    BY <1>1, <2>1, <2>2, <2>3 DEF Part
<1>3. Cardinality(Part(f, K, n)) = n - K
  BY IncreasingPart
<1>4. f[n] \in Part(f, K, n)
  <2>1. n \in (K + 1)..n
    OBVIOUS
  <2> QED
    BY <2>1 DEF Part
<1> QED
  BY <1>2, <1>3, <1>4
==============================================================================
