------------------------------ MODULE DdlProofs ------------------------------
(* Theorems about Ddl, for every set of accepted schemas, every limit on the *)
(* length of a name and every hash that tells the salted names of one index  *)
(* apart.                                                                    *)
EXTENDS Ddl, DataLemmas

-----------------------------------------------------------------------------
(* What Emit can rely on, and the column lists it derives *)

LEMMA SchemaFacts ==
    ASSUME schema \in Schemas
    PROVE  /\ schema \in Seq(ToSet(schema)) /\ schema # << >>
           /\ Len(schema) \in Nat \ {0} /\ DOMAIN schema = 1..Len(schema)
           /\ \A i, j \in DOMAIN schema : schema[i].table = schema[j].table => i = j
           /\ \A i \in DOMAIN schema : AcceptedEntity(schema[i], schema)
<1>1. /\ schema \in Seq(ToSet(schema)) /\ schema # << >>
      /\ \A i, j \in DOMAIN schema : schema[i].table = schema[j].table => i = j
      /\ \A e \in ToSet(schema) : AcceptedEntity(e, schema)
  BY AcceptedSchemas
<1>2. Len(schema) \in Nat \ {0} /\ DOMAIN schema = 1..Len(schema)
  BY <1>1
<1>3. \A i \in DOMAIN schema : schema[i] \in ToSet(schema)
  BY DEF ToSet
<1> QED
  BY <1>1, <1>2, <1>3

LEMMA PrefixType ==
    ASSUME NEW D, NEW p \in Seq(D), NEW sort \in Seq(D)
    PROVE  PrefixWithSortKeys(p, sort) \in Seq(D)
<1>1. Outside(sort, ToSet(p)) \in Seq(D \ ToSet(p))
  BY OutsideFacts
<1>2. Outside(sort, ToSet(p)) \in Seq(D)
  BY <1>1
<1> QED
  BY <1>2, ConcatProperties DEF PrefixWithSortKeys

(* A list is a filter or a declared index followed by the sort keys it lacks, *)
(* or the sort keys alone.                                                    *)
LEMMA Lists ==
    ASSUME NEW s, NEW e, AcceptedEntity(e, s)
    PROVE  LET L == IndexColumnLists(e)
               f == Len(e.filters)
           IN  /\ L \in Seq(Seq(DOMAIN e.columns))
               /\ Len(L) = f + 1 + Len(e.indexes) /\ DOMAIN L = 1..Len(L)
               /\ \A j \in 1..f : L[j] = PrefixWithSortKeys(<<e.filters[j]>>, e.sort)
               /\ L[f + 1] = e.sort
               /\ \A j \in 1..Len(e.indexes) : L[f + 1 + j] = PrefixWithSortKeys(e.indexes[j], e.sort)
<1> DEFINE D == DOMAIN e.columns
           F == e.filters
           A == [j \in DOMAIN F |-> PrefixWithSortKeys(<<F[j]>>, e.sort)]
           B == [j \in DOMAIN e.indexes |-> PrefixWithSortKeys(e.indexes[j], e.sort)]
<1>1. e.sort \in Seq(D) /\ F \in Seq(D) /\ e.indexes \in Seq(Seq(ToSet(F)))
  BY DEF AcceptedEntity
<1> HIDE DEF D
<1>2. Len(F) \in Nat /\ DOMAIN F = 1..Len(F) /\ \A j \in 1..Len(F) : F[j] \in D
  BY <1>1
<1>3. e.indexes \in Seq(Seq(D))
  <2>1. ToSet(F) \subseteq D
    BY <1>2 DEF ToSet
  <2> QED
    BY <1>1, <2>1
<1>4. /\ Len(e.indexes) \in Nat /\ DOMAIN e.indexes = 1..Len(e.indexes)
      /\ \A j \in 1..Len(e.indexes) : e.indexes[j] \in Seq(D)
  BY <1>3
<1>5. A \in Seq(Seq(D)) /\ Len(A) = Len(F)
  <2>1. ASSUME NEW j \in 1..Len(F) PROVE PrefixWithSortKeys(<<F[j]>>, e.sort) \in Seq(D)
    <3>1. <<F[j]>> \in Seq(D)
      BY <1>2
    <3> QED
      BY <3>1, <1>1, PrefixType
  <2>2. A = [j \in 1..Len(F) |-> PrefixWithSortKeys(<<F[j]>>, e.sort)]
    BY <1>2
  <2> QED
    BY <2>1, <2>2, <1>2
<1>6. B \in Seq(Seq(D)) /\ Len(B) = Len(e.indexes)
  <2>1. ASSUME NEW j \in 1..Len(e.indexes) PROVE PrefixWithSortKeys(e.indexes[j], e.sort) \in Seq(D)
    BY <1>1, <1>4, PrefixType
  <2>2. B = [j \in 1..Len(e.indexes) |-> PrefixWithSortKeys(e.indexes[j], e.sort)]
    BY <1>4
  <2> QED
    BY <2>1, <2>2, <1>4
<1>7. IndexColumnLists(e) = (A \o <<e.sort>>) \o B
  BY DEF IndexColumnLists
<1>8. /\ \A j \in 1..Len(F) : A[j] = PrefixWithSortKeys(<<F[j]>>, e.sort)
      /\ \A j \in 1..Len(e.indexes) : B[j] = PrefixWithSortKeys(e.indexes[j], e.sort)
  BY <1>2, <1>4
<1> HIDE DEF A, B
<1>9. <<e.sort>> \in Seq(Seq(D)) /\ Len(<<e.sort>>) = 1 /\ <<e.sort>>[1] = e.sort
  BY <1>1
<1> DEFINE AS == A \o <<e.sort>>
           L == AS \o B
<1>10. /\ AS \in Seq(Seq(D)) /\ Len(AS) = Len(F) + 1
       /\ \A j \in 1..Len(F) : AS[j] = A[j]
       /\ AS[Len(F) + 1] = e.sort
  BY <1>2, <1>5, <1>9, Concat
<1>11. IndexColumnLists(e) = L
  BY <1>7
<1> HIDE DEF AS
<1>12. /\ L \in Seq(Seq(D)) /\ Len(L) = Len(AS) + Len(B)
       /\ \A j \in 1..Len(AS) : L[j] = AS[j]
       /\ \A j \in 1..Len(B) : L[Len(AS) + j] = B[j]
  <2>1. AS \in Seq(Seq(D)) /\ B \in Seq(Seq(D))
    BY <1>6, <1>10
  <2> QED
    BY ONLY <2>1, Concat
<1> HIDE DEF L
<1>13. DOMAIN L = 1..Len(L) /\ Len(L) = Len(F) + 1 + Len(e.indexes)
  BY <1>6, <1>10, <1>12
<1>14. ASSUME NEW j \in 1..Len(F) PROVE L[j] = PrefixWithSortKeys(<<F[j]>>, e.sort)
  <2>1. j \in 1..Len(AS)
    BY <1>2, <1>10
  <2> QED
    BY <2>1, <1>8, <1>10, <1>12
<1>15. L[Len(F) + 1] = e.sort
  <2>1. Len(F) + 1 \in 1..Len(AS)
    BY <1>2, <1>10
  <2> QED
    BY <2>1, <1>10, <1>12
<1>16. ASSUME NEW j \in 1..Len(e.indexes)
       PROVE  L[Len(F) + 1 + j] = PrefixWithSortKeys(e.indexes[j], e.sort)
  <2>1. j \in 1..Len(B) /\ Len(AS) + j = Len(F) + 1 + j
    BY <1>6, <1>10
  <2> QED
    BY <2>1, <1>8, <1>12
<1> QED
  BY <1>11, <1>12, <1>13, <1>14, <1>15, <1>16 DEF D

LEMMA PositionsFinite ==
    ASSUME schema \in Schemas
    PROVE  IsFiniteSet(Positions(schema))
<1> DEFINE P(i) == {i} \X DOMAIN IndexColumnLists(schema[i])
           Upto(m) == UNION {P(i) : i \in 1..m}
           T == {m \in 0..Len(schema) : IsFiniteSet(Upto(m))}
<1>1. Len(schema) \in Nat /\ DOMAIN schema = 1..Len(schema)
  BY SchemaFacts
<1>2. ASSUME NEW i \in DOMAIN schema PROVE IsFiniteSet(P(i))
  <2>1. AcceptedEntity(schema[i], schema)
    BY SchemaFacts
  <2>2. IndexColumnLists(schema[i]) \in Seq(Seq(DOMAIN schema[i].columns))
    BY <2>1, Lists
  <2>3. DOMAIN IndexColumnLists(schema[i]) = 1..Len(IndexColumnLists(schema[i]))
        /\ Len(IndexColumnLists(schema[i])) \in Nat
    BY <2>2
  <2>4. IsFiniteSet(DOMAIN IndexColumnLists(schema[i]))
    BY <2>3, FS_Interval
  <2>5. IsFiniteSet({i})
    BY FS_Singleton
  <2> QED
    BY <2>4, <2>5, FS_Product
<1>3. 0 \in T
  <2>1. Upto(0) = {}
    OBVIOUS
  <2> QED
    BY <2>1, <1>1, FS_EmptySet
<1>4. ASSUME NEW m \in 0..Len(schema), m < Len(schema), m \in T PROVE m + 1 \in T
  <2>1. Upto(m + 1) = Upto(m) \cup P(m + 1)
    <3>1. 1..(m + 1) = (1..m) \cup {m + 1}
      OBVIOUS
    <3> HIDE DEF P
    <3> QED
      BY <3>1
  <2>2. m + 1 \in DOMAIN schema /\ m + 1 \in 0..Len(schema)
    BY <1>1, <1>4
  <2>3. IsFiniteSet(Upto(m))
    BY <1>4
  <2>4. IsFiniteSet(P(m + 1))
    BY <1>2, <2>2
  <2> HIDE DEF P, Upto
  <2>5. IsFiniteSet(Upto(m + 1))
    BY ZenonT(30), <2>1, <2>3, <2>4, FS_Union
  <2> QED
    BY <2>2, <2>5
<1>5. Len(schema) \in T
  <2> HIDE DEF T
  <2>1. 0..Len(schema) \subseteq T
    BY <1>1, <1>3, <1>4, UpToByInduction
  <2> QED
    BY <1>1, <2>1
<1>6. Positions(schema) = Upto(Len(schema))
  BY <1>1 DEF Positions
<1> HIDE DEF Upto
<1> QED
  BY <1>5, <1>6 DEF T

-----------------------------------------------------------------------------
(* Names *)

LEMMA FitNameFacts ==
    ASSUME NEW n \in Name, Hash(n) \in Word
    PROVE  /\ FitName(n) \in Name /\ Len(FitName(n)) <= Limit
           /\ Len(n) <= Limit => FitName(n) = n
           /\ Len(n) > Limit => /\ Len(FitName(n)) = Limit
                                /\ FitName(n)[Limit] = Hash(n)
<1>1. Limit \in Nat \ {0} /\ Len(n) \in Nat
  BY LimitAssumption DEF Name
<1>2. CASE Len(n) <= Limit
  BY <1>1, <1>2 DEF FitName
<1>3. CASE Len(n) > Limit
  <2>1. SubSeq(n, 1, Limit - 1) \in Seq(Word) /\ Len(SubSeq(n, 1, Limit - 1)) = Limit - 1
    BY <1>1, <1>3 DEF Name
  <2>2. FitName(n) = Append(SubSeq(n, 1, Limit - 1), Hash(n))
    BY <1>1, <1>3 DEF FitName
  <2> QED
    BY <1>1, <1>3, <2>1, <2>2 DEF Name
<1> QED
  BY <1>1, <1>2, <1>3

LEMMA IndexTextType ==
    ASSUME NEW s, NEW e, AcceptedEntity(e, s), NEW cols \in Seq(DOMAIN e.columns)
    PROVE  /\ ColumnNames(e, cols) \in Seq(Name) /\ Len(ColumnNames(e, cols)) = Len(cols)
           /\ IndexText(e, cols) \in Name /\ Len(IndexText(e, cols)) > 0
           /\ IndexText(e, cols)[Len(IndexText(e, cols))] = "idx"
<1>1. e.columns \in Seq(Name) /\ e.table \in Name
  BY DEF AcceptedEntity
<1>2. DOMAIN cols = 1..Len(cols) /\ Len(cols) \in Nat /\ \A j \in 1..Len(cols) : e.columns[cols[j]] \in Name
  BY <1>1
<1>3. ColumnNames(e, cols) \in Seq(Name) /\ Len(ColumnNames(e, cols)) = Len(cols)
  BY <1>2 DEF ColumnNames, Column
<1>4. FlattenSeq(ColumnNames(e, cols)) \in Seq(Word)
  BY <1>3, FlattenType DEF Name
<1>5. Joined(e, cols) \in Seq(Word)
  BY <1>1, <1>4, Concat DEF Joined, Name
<1> DEFINE j == Joined(e, cols)
<1>6. IndexText(e, cols) = Append(j, "idx")
  BY DEF IndexText
<1> HIDE DEF j
<1>7. j \in Seq(Word) /\ "idx" \in Word /\ Len(j) \in Nat
  <2>1. j \in Seq(Word)
    BY <1>5 DEF j
  <2>2. "idx" \in Word
    BY WordAssumption
  <2> QED
    BY <2>1, <2>2
<1>8. /\ Append(j, "idx") \in Seq(Word) /\ Len(Append(j, "idx")) = Len(j) + 1
      /\ Append(j, "idx")[Len(j) + 1] = "idx"
  BY <1>7
<1> QED
  BY <1>3, <1>6, <1>7, <1>8 DEF Name

(* The names tried for one index differ, whatever their common text is cut to. *)
LEMMA CandidatesDiffer ==
    ASSUME schema \in Schemas, NEW e \in ToSet(schema), NEW cols \in ToSet(IndexColumnLists(e)),
           NEW n \in 0..MaxSalt, NEW m \in 0..MaxSalt
    PROVE  /\ Candidate(e, cols, n) \in Name /\ Len(Candidate(e, cols, n)) <= Limit
           /\ n < m => Candidate(e, cols, n) # Candidate(e, cols, m)
<1> DEFINE text == IndexText(e, cols)
           H(k) == Hash(Salted(e, cols, k))
           F(k) == FullName(e, cols, k)
<1>1. AcceptedEntity(e, schema) /\ MaxSalt \in Nat /\ Limit \in Nat \ {0}
  BY AcceptedSchemas, MaxSaltAssumption, LimitAssumption
<1>2. cols \in Seq(DOMAIN e.columns)
  <2>1. IndexColumnLists(e) \in Seq(Seq(DOMAIN e.columns))
    BY <1>1, Lists
  <2> QED
    BY <2>1 DEF ToSet
<1>3. text \in Seq(Word) /\ Len(text) \in Nat /\ Len(text) > 0 /\ text[Len(text)] = "idx"
  BY <1>1, <1>2, IndexTextType DEF Name
<1>4. ASSUME NEW k \in 0..MaxSalt
      PROVE  /\ H(k) \in Word \ {"idx"} /\ Hash(F(k)) \in Word \ {"idx"}
             /\ \A l \in 0..MaxSalt : k # l => H(k) # H(l) /\ Hash(F(k)) # Hash(F(l))
  BY HashAssumption
<1> HIDE DEF H, text
<1>5. /\ F(0) = text
      /\ \A k \in 0..MaxSalt : k # 0 => F(k) = Append(text, H(k - 1)) /\ k - 1 \in 0..MaxSalt
  <2>1. \A k \in 0..MaxSalt : k # 0 => k - 1 \in 0..MaxSalt
    BY <1>1
  <2> QED
    BY <2>1 DEF FullName, H, text
<1> HIDE DEF F
<1>6. ASSUME NEW k \in 0..MaxSalt
      PROVE  /\ F(k) \in Name
             /\ k = 0 => Len(F(k)) = Len(text)
             /\ k # 0 => /\ Len(F(k)) = Len(text) + 1
                         /\ F(k)[Len(text) + 1] = H(k - 1)
  <2>1. CASE k = 0
    BY <1>3, <1>5, <2>1 DEF Name
  <2>2. CASE k # 0
    <3>1. F(k) = Append(text, H(k - 1)) /\ H(k - 1) \in Word
      BY <1>4, <1>5, <2>2
    <3> QED
      BY <1>3, <2>2, <3>1 DEF Name
  <2> QED
    BY <2>1, <2>2
<1>7. ASSUME NEW k \in 0..MaxSalt
      PROVE  /\ Candidate(e, cols, k) \in Name /\ Len(Candidate(e, cols, k)) <= Limit
             /\ Len(F(k)) <= Limit => Candidate(e, cols, k) = F(k)
             /\ Len(F(k)) > Limit => /\ Len(Candidate(e, cols, k)) = Limit
                                     /\ Candidate(e, cols, k)[Limit] = Hash(F(k))
  <2>1. Candidate(e, cols, k) = FitName(F(k))
    BY DEF Candidate, F
  <2>2. F(k) \in Name /\ Hash(F(k)) \in Word
    BY <1>4, <1>6
  <2> QED
    BY <2>1, <2>2, FitNameFacts
<1>8. ASSUME n < m PROVE Candidate(e, cols, n) # Candidate(e, cols, m)
  <2>1. m # 0 /\ n # m
    BY <1>8
  <2>2. CASE Len(text) + 1 <= Limit
    <3>1. Candidate(e, cols, n) = F(n) /\ Candidate(e, cols, m) = F(m)
      BY <1>3, <1>6, <1>7, <2>1, <2>2, <1>1
    <3>2. CASE n = 0
      BY <1>3, <1>6, <2>1, <3>1, <3>2
    <3>3. CASE n # 0
      <4>1. n - 1 \in 0..MaxSalt /\ m - 1 \in 0..MaxSalt /\ n - 1 # m - 1
        BY <2>1, <3>3, <1>1
      <4>2. H(n - 1) # H(m - 1)
        BY <1>4, <4>1
      <4> QED
        BY <1>6, <2>1, <3>1, <3>3, <4>2
    <3> QED
      BY <3>2, <3>3
  <2>3. CASE Len(text) + 1 > Limit /\ Len(F(n)) <= Limit
    <3>1. n = 0 /\ Len(text) = Limit
      BY <1>1, <1>3, <1>6, <2>3
    <3>2. Candidate(e, cols, n) = text /\ text[Limit] = "idx"
      BY <1>3, <1>5, <1>7, <2>3, <3>1
    <3>3. Len(F(m)) > Limit
      BY <1>1, <1>3, <1>6, <2>1, <2>3
    <3>4. Candidate(e, cols, m)[Limit] = Hash(F(m)) /\ Hash(F(m)) # "idx"
      BY <1>4, <1>7, <3>3
    <3> QED
      BY <3>2, <3>4
  <2>4. CASE Len(text) + 1 > Limit /\ Len(F(n)) > Limit
    <3>1. Len(F(m)) > Limit
      BY <1>1, <1>3, <1>6, <2>1, <2>4
    <3>2. Candidate(e, cols, m)[Limit] = Hash(F(m)) /\ Candidate(e, cols, n)[Limit] = Hash(F(n))
      BY <1>7, <2>4, <3>1
    <3>3. Hash(F(n)) # Hash(F(m))
      BY <1>4, <2>1
    <3> QED
      BY <3>2, <3>3
  <2>5. Len(F(n)) \in Nat
    BY <1>3, <1>6
  <2> QED
    BY <1>1, <1>3, <2>2, <2>3, <2>4, <2>5
<1> QED
  BY <1>7, <1>8

(* With fewer names taken than there are salts, indexName ends with a name    *)
(* that is free.                                                              *)
LEMMA IndexNameFresh ==
    ASSUME schema \in Schemas, NEW e \in ToSet(schema), NEW cols \in ToSet(IndexColumnLists(e)),
           IsFiniteSet(names), Cardinality(names) <= MaxSalt
    PROVE  /\ IndexName(e, cols) \in Name /\ Len(IndexName(e, cols)) <= Limit
           /\ IndexName(e, cols) \notin names
<1> DEFINE free(n) == Candidate(e, cols, n) \notin names
<1>1. MaxSalt \in Nat /\ Cardinality(names) \in Nat
  BY MaxSaltAssumption, FS_CardinalityType
<1>2. \E n \in 0..MaxSalt : free(n)
  <2> SUFFICES ASSUME \A n \in 0..MaxSalt : Candidate(e, cols, n) \in names PROVE FALSE
    OBVIOUS
  <2> DEFINE f == [n \in 0..MaxSalt |-> Candidate(e, cols, n)]
  <2>1. IsFiniteSet(0..MaxSalt) /\ Cardinality(0..MaxSalt) = MaxSalt + 1
    BY <1>1, FS_Interval
  <2>2. f \in [0..MaxSalt -> names] /\ Cardinality(names) < Cardinality(0..MaxSalt)
    BY <1>1, <2>1
  <2> HIDE DEF f
  <2>3. PICK i, j \in 0..MaxSalt : i # j /\ f[i] = f[j]
    BY <2>1, <2>2, FS_PigeonHole
  <2>4. Candidate(e, cols, i) = Candidate(e, cols, j)
    BY <2>3 DEF f
  <2>5. i < j \/ j < i
    BY <1>1, <2>3
  <2> QED
    BY <2>4, <2>5, CandidatesDiffer
<1>3. \E n \in 0..MaxSalt : free(n) /\ \A m \in 0..(n - 1) : ~free(m)
  <2> DEFINE T == {n \in 0..MaxSalt : free(n)}
  <2>1. T \in SUBSET Nat /\ T # {}
    BY <1>1, <1>2
  <2>2. PICK n \in T : \A m \in T : n <= m
    BY <2>1, NatLeast
  <2>3. ASSUME NEW m \in 0..(n - 1) PROVE ~free(m)
    <3>1. n \in 0..MaxSalt /\ m \in 0..MaxSalt /\ m < n
      BY <1>1, <2>2
    <3> QED
      BY <2>2, <3>1
  <2>4. n \in 0..MaxSalt /\ free(n)
    BY <2>2
  <2> QED
    BY <2>3, <2>4
<1> DEFINE k == CHOOSE n \in 0..MaxSalt : free(n) /\ \A m \in 0..(n - 1) : ~free(m)
<1>4. k \in 0..MaxSalt /\ free(k)
  <2> HIDE DEF free
  <2> QED
    BY <1>3
<1>5. IndexName(e, cols) = Candidate(e, cols, k)
  BY DEF IndexName
<1> HIDE DEF k
<1> QED
  BY <1>4, <1>5, CandidatesDiffer

-----------------------------------------------------------------------------
(* The inductive invariant *)

List(i, l) == IndexColumnLists(schema[i])[l]

\* The lists whose indexes are decided.
Past == {p \in Positions(schema) :
            \/ pc \in {"apply", "refused"}
            \/ pc = "indexes" /\ (p[1] < at \/ (p[1] = at /\ p[2] < list))}

\* Statement s creates the index of the list at p.
IndexOf(s, p) ==
    /\ s.table = schema[p[1]].table
    /\ s.columns = ColumnNames(schema[p[1]], List(p[1], p[2]))

IndexStatement == [op : {"index"}, table : Name, name : Name, columns : Seq(Name)]

ForeignKeyOf(s, i, j) == s = ForeignKeyStmt(schema[i], schema[i].relations[j])

\* Emit's three passes: where it is, and what it has written.
Emitting ==
    /\ schema \in Schemas
    /\ file \in Seq(ToSet(file))
    /\ at \in 1..(Len(schema) + 1) /\ list \in Nat \ {0}
    /\ pc \in {"tables", "keys", "indexes", "apply", "refused"}
    /\ pc \in {"tables", "keys"} => list = 1 /\ Indexes = {}

\* All tables come first, and every later statement is about one of them.
TablesFirst ==
    /\ pc = "tables" => Len(file) = at - 1
    /\ pc # "tables" => Len(file) >= Len(schema)
    /\ \A j \in DOMAIN file :
           IF j <= Len(schema) THEN file[j] = TableStmt(schema[j])
           ELSE \/ \E p \in Past : file[j] \in IndexStatement /\ IndexOf(file[j], p)
                \/ \E i \in DOMAIN schema : \E r \in DOMAIN schema[i].relations : ForeignKeyOf(file[j], i, r)

\* emitter.names holds the names of the indexes, no more of them than there
\* are lists decided.
NamesKept ==
    /\ names = {file[j].name : j \in Indexes}
    /\ IsFiniteSet(names) /\ Cardinality(names) <= Cardinality(Past)
    /\ \A n \in names : n \in Name /\ Len(n) <= Limit
    /\ IndexNamesDistinct

\* A list that is decided has its index, or is the primary key's.
PastServed ==
    \A p \in Past :
        \/ List(p[1], p[2]) = <<schema[p[1]].pk>>
        \/ \E j \in Indexes : IndexOf(file[j], p)

\* No index was written twice, and none for the primary key.
NoneTwice ==
    /\ \A i, j \in Indexes :
           file[i].table = file[j].table /\ file[i].columns = file[j].columns => i = j
    /\ \A j \in Indexes : \A i \in DOMAIN schema :
           file[j].table = schema[i].table => file[j].columns # <<Column(schema[i], schema[i].pk)>>

\* The tables executed are in the database as their statements describe them.
InDatabase(e) ==
    /\ Quoted(e.table) \in DOMAIN tables
    /\ tables[Quoted(e.table)].columns = {Quoted(c) : c \in ToSet(e.columns)}
    /\ Quoted(Column(e, e.pk)) \in tables[Quoted(e.table)].keys

Applied ==
    /\ done \in 0..Len(file)
    /\ pc \in {"tables", "keys", "indexes"} => done = 0 /\ refused = "nothing"
    /\ refused \in {"nothing", "missing", "name taken"} /\ NothingMissing
    /\ DOMAIN tables \subseteq relnames
    /\ \A t \in DOMAIN tables : DOMAIN tables[t] = {"columns", "keys", "constraints"}
    /\ \A j \in 1..done : j <= Len(schema) => InDatabase(schema[j])

IInv == Emitting /\ TablesFirst /\ NamesKept /\ PastServed /\ NoneTwice /\ Applied

LEMMA Statements ==
    /\ \A e : /\ TableStmt(e).op = "table" /\ TableStmt(e).table = e.table
              /\ TableStmt(e).columns = ToSet(e.columns) /\ TableStmt(e).pk = Column(e, e.pk)
    /\ \A e, r : /\ ForeignKeyStmt(e, r).op = "fkey" /\ ForeignKeyStmt(e, r).table = e.table
                 /\ ForeignKeyStmt(e, r).column = Column(e, r.column)
                 /\ ForeignKeyStmt(e, r).target = schema[r.target].table
                 /\ ForeignKeyStmt(e, r).key = Column(schema[r.target], schema[r.target].pk)
    /\ \A e, cols : IndexStmt(e, cols) = [op |-> "index", table |-> e.table,
                                          name |-> IndexName(e, cols), columns |-> ColumnNames(e, cols)]
BY DEF TableStmt, ForeignKeyStmt, IndexStmt

LEMMA PastFacts ==
    ASSUME schema \in Schemas
    PROVE  /\ IsFiniteSet(Past) /\ Cardinality(Past) \in Nat /\ Cardinality(Past) <= MaxSalt
           /\ Past \subseteq Positions(schema)
           /\ \A p \in Past : /\ p[1] \in DOMAIN schema
                              /\ p[2] \in DOMAIN IndexColumnLists(schema[p[1]])
<1>1. Past \subseteq Positions(schema)
  BY DEF Past
<1>2. IsFiniteSet(Past) /\ Cardinality(Past) <= Cardinality(Positions(schema))
  BY <1>1, PositionsFinite, FS_Subset
<1>3. /\ Cardinality(Past) \in Nat /\ Cardinality(Positions(schema)) \in Nat
      /\ MaxSalt \in Nat /\ Cardinality(Positions(schema)) <= MaxSalt
  BY <1>2, PositionsFinite, FS_CardinalityType, MaxSaltAssumption
<1>4. ASSUME NEW p \in Positions(schema)
      PROVE  p[1] \in DOMAIN schema /\ p[2] \in DOMAIN IndexColumnLists(schema[p[1]])
  <2>1. PICK i \in DOMAIN schema : p \in {i} \X DOMAIN IndexColumnLists(schema[i])
    BY DEF Positions
  <2> QED
    BY <2>1
<1> QED
  BY <1>1, <1>2, <1>3, <1>4

LEMMA InPositions ==
    ASSUME NEW i \in DOMAIN schema, NEW l \in DOMAIN IndexColumnLists(schema[i])
    PROVE  <<i, l>> \in Positions(schema)
<1>1. <<i, l>> \in {i} \X DOMAIN IndexColumnLists(schema[i])
  OBVIOUS
<1> QED
  BY <1>1 DEF Positions

LEMMA InitInv == Init => IInv
<1> SUFFICES ASSUME Init PROVE IInv
  OBVIOUS
<1>1. /\ schema \in Schemas /\ at = 1 /\ list = 1 /\ names = {} /\ file = << >>
      /\ tables = << >> /\ relnames = {} /\ done = 0 /\ refused = "nothing" /\ pc = "tables"
  BY DEF Init
<1>2. Len(schema) \in Nat \ {0}
  BY <1>1, SchemaFacts
<1>3. DOMAIN file = {} /\ Len(file) = 0 /\ file \in Seq(ToSet(file)) /\ DOMAIN tables = {}
  BY <1>1
<1>4. Indexes = {} /\ Past = {}
  BY <1>1, <1>3 DEF Indexes, Past
<1>5. Emitting
  BY <1>1, <1>2, <1>3, <1>4 DEF Emitting
<1>6. TablesFirst
  BY <1>1, <1>3 DEF TablesFirst
<1>7. NamesKept
  <2>1. IsFiniteSet({}) /\ Cardinality({}) = 0
    BY FS_EmptySet
  <2> QED
    BY <1>1, <1>4, <2>1 DEF NamesKept, IndexNamesDistinct
<1>8. PastServed /\ NoneTwice
  BY <1>4 DEF PastServed, NoneTwice
<1>9. Applied
  BY <1>1, <1>3 DEF Applied, NothingMissing
<1> QED
  BY <1>5, <1>6, <1>7, <1>8, <1>9 DEF IInv

(* A step that writes no index and decides no list. *)
LEMMA NamesAlone ==
    ASSUME IInv, schema' = schema, names' = names, Past' = Past, Indexes' = Indexes,
           \A j \in Indexes : file'[j] = file[j]
    PROVE  NamesKept' /\ PastServed' /\ NoneTwice'
<1>1. NamesKept'
  BY DEF IInv, NamesKept, IndexNamesDistinct
<1>2. PastServed'
  <2>1. PastServed
    BY DEF IInv
  <2> SUFFICES ASSUME NEW p \in Past
               PROVE  \/ List(p[1], p[2])' = <<schema[p[1]].pk>>
                      \/ \E j \in Indexes : IndexOf(file[j], p)'
    BY DEF PastServed
  <2>2. CASE List(p[1], p[2]) = <<schema[p[1]].pk>>
    BY <2>2 DEF List
  <2>3. ASSUME NEW j \in Indexes, IndexOf(file[j], p) PROVE IndexOf(file[j], p)'
    BY <2>3 DEF IndexOf, List
  <2> QED
    BY <2>1, <2>2, <2>3 DEF PastServed
<1>3. NoneTwice'
  BY DEF IInv, NoneTwice
<1> QED
  BY <1>1, <1>2, <1>3

LEMMA EmitTableStep ==
    ASSUME IInv, EmitTable
    PROVE  IInv'
<1> DEFINE s == TableStmt(schema[at])
<1>1. /\ pc = "tables" /\ at <= Len(schema) /\ file' = Append(file, s) /\ at' = at + 1
      /\ schema' = schema /\ list' = list /\ names' = names /\ pc' = pc
      /\ tables' = tables /\ relnames' = relnames /\ done' = done /\ refused' = refused
  BY DEF EmitTable, db
<1>2. /\ schema \in Schemas /\ at \in 1..(Len(schema) + 1) /\ file \in Seq(ToSet(file))
      /\ list = 1 /\ Indexes = {} /\ Len(file) = at - 1
      /\ \A j \in DOMAIN file : j <= Len(schema) => file[j] = TableStmt(schema[j])
  BY <1>1 DEF IInv, Emitting, TablesFirst
<1>3. Len(schema) \in Nat \ {0}
  BY <1>2, SchemaFacts
<1>4. /\ file' \in Seq(ToSet(file')) /\ Len(file') = at /\ Len(file) \in Nat
      /\ DOMAIN file = 1..(at - 1) /\ DOMAIN file' = 1..at
      /\ \A j \in 1..(at - 1) : file'[j] = file[j]
      /\ file'[at] = s
  BY <1>1, <1>2, Appending
<1>5. \A j \in DOMAIN file' : j <= Len(schema) /\ file'[j] = TableStmt(schema[j])
  <2> SUFFICES ASSUME NEW j \in 1..at PROVE j <= Len(schema) /\ file'[j] = TableStmt(schema[j])
    BY <1>4
  <2>1. CASE j = at
    BY <2>1, <1>1, <1>4
  <2>2. CASE j \in 1..(at - 1)
    BY <2>2, <1>1, <1>2, <1>3, <1>4
  <2> QED
    BY <2>1, <2>2, <1>2
<1>6. Indexes' = {}
  BY <1>5, Statements DEF Indexes
<1>7. Past' = Past
  BY <1>1 DEF Past
<1>8. Emitting'
  BY <1>1, <1>2, <1>3, <1>4, <1>6 DEF Emitting
<1>9. TablesFirst'
  <2>1. \A j \in DOMAIN file' : j <= Len(schema) /\ file'[j] = TableStmt(schema[j])'
    <3>1. ASSUME NEW j PROVE TableStmt(schema[j])' = TableStmt(schema[j])
      BY <1>1
    <3> QED
      BY <1>1, <1>5, <3>1
  <2> QED
    BY <1>1, <1>2, <1>4, <2>1 DEF TablesFirst
<1>10. NamesKept' /\ PastServed' /\ NoneTwice'
  BY <1>1, <1>2, <1>6, <1>7, NamesAlone
<1>11. Applied'
  <2>1. Applied
    BY DEF IInv
  <2> QED
    BY <1>1, <1>4, <2>1 DEF Applied, NothingMissing
<1> QED
  BY <1>8, <1>9, <1>10, <1>11 DEF IInv

(* What a statement is about does not depend on where Emit is. *)
LEMMA Unmoved ==
    ASSUME schema' = schema
    PROVE  /\ \A i, l : List(i, l)' = List(i, l)
           /\ \A i : TableStmt(schema[i])' = TableStmt(schema[i])
           /\ \A s, p : IndexOf(s, p)' <=> IndexOf(s, p)
           /\ \A s, i, r : ForeignKeyOf(s, i, r)' <=> ForeignKeyOf(s, i, r)
<1>1. ASSUME NEW i, NEW l PROVE List(i, l)' = List(i, l)
  BY DEF List
<1>2. ASSUME NEW i PROVE TableStmt(schema[i])' = TableStmt(schema[i])
  OBVIOUS
<1>3. ASSUME NEW s, NEW p PROVE IndexOf(s, p)' <=> IndexOf(s, p)
  BY DEF IndexOf, List
<1>4. ASSUME NEW s, NEW i, NEW r PROVE ForeignKeyOf(s, i, r)' <=> ForeignKeyOf(s, i, r)
  BY DEF ForeignKeyOf, ForeignKeyStmt
<1> QED
  BY <1>1, <1>2, <1>3, <1>4

LEMMA EmitForeignKeysStep ==
    ASSUME IInv, EmitForeignKeys
    PROVE  IInv'
<1> DEFINE K == ForeignKeys(schema[at])
           r == schema[at].relations
<1>1. /\ pc = "keys" /\ at <= Len(schema) /\ file' = file \o K /\ at' = at + 1
      /\ schema' = schema /\ list' = list /\ names' = names /\ pc' = pc
      /\ tables' = tables /\ relnames' = relnames /\ done' = done /\ refused' = refused
  BY DEF EmitForeignKeys, db
<1>2. /\ schema \in Schemas /\ at \in 1..(Len(schema) + 1) /\ file \in Seq(ToSet(file))
      /\ list = 1 /\ Indexes = {} /\ Len(file) >= Len(schema) /\ TablesFirst
  BY <1>1 DEF IInv, Emitting, TablesFirst
<1>3. /\ Len(schema) \in Nat \ {0} /\ DOMAIN schema = 1..Len(schema) /\ at \in DOMAIN schema
  BY <1>1, <1>2, SchemaFacts
<1>4. r \in Seq(ToSet(r)) /\ Len(r) \in Nat /\ DOMAIN r = 1..Len(r)
  <2>1. AcceptedEntity(schema[at], schema)
    BY <1>2, <1>3, SchemaFacts
  <2>2. r \in Seq([column : DOMAIN schema[at].columns, target : DOMAIN schema])
    BY <2>1 DEF AcceptedEntity
  <2> HIDE DEF r
  <2> QED
    BY <2>2, OwnSeq
<1>5. K = [j \in 1..Len(r) |-> ForeignKeyStmt(schema[at], r[j])]
  BY <1>4 DEF ForeignKeys
<1> HIDE DEF r
<1>6. /\ K \in Seq(ToSet(K)) /\ Len(K) = Len(r) /\ DOMAIN K = 1..Len(r)
      /\ \A j \in 1..Len(r) : K[j] = ForeignKeyStmt(schema[at], r[j])
  BY <1>4, <1>5 DEF ToSet
<1> HIDE DEF K
<1>7. /\ file' \in Seq(ToSet(file')) /\ Len(file') = Len(file) + Len(r)
      /\ Len(file) \in Nat /\ DOMAIN file = 1..Len(file) /\ DOMAIN file' = 1..(Len(file) + Len(r))
      /\ \A j \in 1..Len(file) : file'[j] = file[j]
      /\ \A j \in 1..Len(r) : file'[Len(file) + j] = ForeignKeyStmt(schema[at], r[j])
  <2>1. file \in Seq(ToSet(file)) /\ K \in Seq(ToSet(K))
    BY <1>2, <1>6
  <2>2. LET t == file \o K IN
        /\ t \in Seq(ToSet(t)) /\ Len(t) = Len(file) + Len(K) /\ Len(file) \in Nat
        /\ DOMAIN file = 1..Len(file) /\ DOMAIN t = 1..(Len(file) + Len(K))
        /\ \A j \in 1..Len(file) : t[j] = file[j]
        /\ \A j \in 1..Len(K) : t[Len(file) + j] = K[j]
    BY ONLY <2>1, Joining
  <2> QED
    BY <1>1, <1>6, <2>2
<1>8. ASSUME NEW j \in DOMAIN file', j > Len(file)
      PROVE  /\ j - Len(file) \in 1..Len(r)
             /\ file'[j] = ForeignKeyStmt(schema[at], r[j - Len(file)])
  <2>1. j - Len(file) \in 1..Len(r) /\ Len(file) + (j - Len(file)) = j
    BY <1>4, <1>7, <1>8
  <2> QED
    BY <1>7, <2>1
<1>9. Indexes' = {}
  <2> SUFFICES ASSUME NEW j \in DOMAIN file' PROVE file'[j].op # "index"
    BY DEF Indexes
  <2>1. CASE j \in 1..Len(file)
    BY <1>2, <1>7, <2>1 DEF Indexes
  <2>2. CASE j > Len(file)
    <3>1. file'[j].op = "fkey"
      BY <1>8, <2>2, Statements
    <3> QED
      BY <3>1
  <2> QED
    BY <1>4, <1>7, <2>1, <2>2
<1>10. Past' = Past
  BY <1>1 DEF Past
<1>11. Emitting'
  BY <1>1, <1>2, <1>3, <1>7, <1>9 DEF Emitting
<1>12. TablesFirst'
  <2>1. Len(file') >= Len(schema)
    BY <1>2, <1>3, <1>4, <1>7
  <2> SUFFICES ASSUME NEW j \in DOMAIN file'
               PROVE  IF j <= Len(schema) THEN file'[j] = TableStmt(schema[j])'
                      ELSE \/ \E p \in Past' : file'[j] \in IndexStatement /\ IndexOf(file[j], p)'
                           \/ \E i \in DOMAIN schema : \E l \in DOMAIN schema[i].relations :
                                  ForeignKeyOf(file[j], i, l)'
    BY <1>1, <2>1 DEF TablesFirst, IndexStatement
  <2>2. CASE j \in 1..Len(file)
    <3>1. IF j <= Len(schema) THEN file[j] = TableStmt(schema[j])
          ELSE \/ \E p \in Past : file[j] \in IndexStatement /\ IndexOf(file[j], p)
               \/ \E i \in DOMAIN schema : \E l \in DOMAIN schema[i].relations : ForeignKeyOf(file[j], i, l)
      BY <1>2, <1>7, <2>2 DEF TablesFirst
    <3>2. file'[j] = file[j]
      BY <1>7, <2>2
    <3>3. TableStmt(schema[j])' = TableStmt(schema[j])
      BY <1>1
    <3>4. ASSUME NEW p PROVE IndexOf(file[j], p)' <=> IndexOf(file[j], p)
      BY <1>1, <3>2, Unmoved
    <3>5. ASSUME NEW i, NEW l PROVE ForeignKeyOf(file[j], i, l)' <=> ForeignKeyOf(file[j], i, l)
      BY <1>1, <3>2, Unmoved
    <3> QED
      BY <1>10, <3>1, <3>2, <3>3, <3>4, <3>5
  <2>3. CASE j > Len(file)
    <3>1. ~(j <= Len(schema))
      BY <1>2, <1>3, <1>7, <2>3
    <3>2. ASSUME NEW i, NEW l, file'[j] = ForeignKeyStmt(schema[i], schema[i].relations[l])
          PROVE  ForeignKeyOf(file[j], i, l)'
      BY <1>1, <3>2 DEF ForeignKeyOf, ForeignKeyStmt
    <3>3. /\ j - Len(file) \in DOMAIN schema[at].relations
          /\ file'[j] = ForeignKeyStmt(schema[at], schema[at].relations[j - Len(file)])
      BY <1>4, <1>8, <2>3 DEF r
    <3> QED
      BY <1>3, <3>1, <3>2, <3>3
  <2> QED
    BY <1>4, <1>7, <2>2, <2>3
<1>13. NamesKept' /\ PastServed' /\ NoneTwice'
  BY <1>1, <1>2, <1>9, <1>10, NamesAlone
<1>14. Applied'
  <2>1. Applied
    BY DEF IInv
  <2> QED
    BY <1>1, <1>4, <1>7, <2>1 DEF Applied, NothingMissing
<1> QED
  BY <1>11, <1>12, <1>13, <1>14 DEF IInv

(* An entity's columns have names of their own, so that the names of a list   *)
(* of columns tell the list.                                                  *)
LEMMA NamesTellColumns ==
    ASSUME NEW s, NEW e, AcceptedEntity(e, s)
    PROVE  /\ \A a, b \in Seq(DOMAIN e.columns) : ColumnNames(e, a) = ColumnNames(e, b) => a = b
           /\ \A k : ColumnNames(e, <<k>>) = <<Column(e, k)>>
<1>1. \A j, k \in DOMAIN e.columns : e.columns[j] = e.columns[k] => j = k
  BY DEF AcceptedEntity
<1>2. ASSUME NEW a \in Seq(DOMAIN e.columns), NEW b \in Seq(DOMAIN e.columns),
             ColumnNames(e, a) = ColumnNames(e, b)
      PROVE  a = b
  <2>1. /\ DOMAIN a = DOMAIN ColumnNames(e, a) /\ DOMAIN b = DOMAIN ColumnNames(e, b)
        /\ \A j \in DOMAIN a : ColumnNames(e, a)[j] = e.columns[a[j]]
        /\ \A j \in DOMAIN b : ColumnNames(e, b)[j] = e.columns[b[j]]
    BY DEF ColumnNames, Column
  <2>2. Len(a) = Len(b) /\ DOMAIN a = DOMAIN b
    BY <1>2, <2>1
  <2>3. \A j \in DOMAIN a : e.columns[a[j]] = e.columns[b[j]]
    BY <1>2, <2>1, <2>2
  <2>4. \A j \in 1..Len(a) : a[j] = b[j]
    BY <1>1, <2>2, <2>3
  <2> QED
    BY <2>2, <2>4
<1>3. ASSUME NEW k PROVE ColumnNames(e, <<k>>) = <<Column(e, k)>>
  BY DEF ColumnNames
<1> QED
  BY <1>2, <1>3

(* An index statement was written for a list that is decided. *)
LEMMA IndexesAre ==
    ASSUME IInv, NEW j \in Indexes
    PROVE  \E p \in Past : file[j] \in IndexStatement /\ IndexOf(file[j], p)
<1>1. j \in DOMAIN file /\ file[j].op = "index"
  BY DEF Indexes
<1>2. file[j] # TableStmt(schema[j])
  BY <1>1, Statements
<1>3. ASSUME NEW i, NEW r, ForeignKeyOf(file[j], i, r) PROVE FALSE
  <2>1. file[j].op = "fkey"
    BY <1>3, Statements DEF ForeignKeyOf
  <2> QED
    BY <1>1, <2>1
<1>4. TablesFirst
  BY DEF IInv
<1> QED
  BY <1>1, <1>2, <1>3, <1>4 DEF TablesFirst

(* The list that EmitIndex decides, and the lists decided after it. *)
LEMMA Deciding ==
    ASSUME IInv, EmitIndex
    PROVE  LET e == schema[at]
               L == IndexColumnLists(e)
           IN  /\ schema \in Schemas /\ at \in DOMAIN schema /\ list \in DOMAIN L
               /\ AcceptedEntity(e, schema) /\ e \in ToSet(schema)
               /\ L \in Seq(Seq(DOMAIN e.columns))
               /\ L[list] \in Seq(DOMAIN e.columns) /\ L[list] \in ToSet(L)
               /\ <<at, list>> \notin Past /\ Past' = Past \cup {<<at, list>>}
               /\ \A p \in Past : p[1] = at => p[2] \in 1..(list - 1)
               /\ \A l \in 1..(list - 1) : <<at, l>> \in Past
<1> DEFINE e == schema[at]
           L == IndexColumnLists(e)
<1>1. /\ pc = "indexes" /\ at <= Len(schema) /\ list <= Len(L)
      /\ schema' = schema /\ list' = list + 1 /\ at' = at /\ pc' = pc
  BY DEF EmitIndex
<1>2. schema \in Schemas /\ at \in 1..(Len(schema) + 1) /\ list \in Nat \ {0}
  BY DEF IInv, Emitting
<1>3. DOMAIN schema = 1..Len(schema) /\ Len(schema) \in Nat /\ at \in DOMAIN schema
  BY <1>1, <1>2, SchemaFacts
<1>4. AcceptedEntity(e, schema) /\ e \in ToSet(schema)
  BY <1>2, <1>3, SchemaFacts DEF ToSet
<1>5. L \in Seq(Seq(DOMAIN e.columns))
  BY <1>4, Lists
<1>6. DOMAIN L = 1..Len(L) /\ Len(L) \in Nat /\ list \in DOMAIN L
  BY <1>1, <1>2, <1>5
<1>7. L[list] \in Seq(DOMAIN e.columns) /\ L[list] \in ToSet(L)
  BY <1>5, <1>6 DEF ToSet
<1>8. \A p \in Positions(schema) :
          p = <<p[1], p[2]>> /\ p[1] \in DOMAIN schema /\ p[2] \in DOMAIN IndexColumnLists(schema[p[1]])
  <2> SUFFICES ASSUME NEW p \in Positions(schema)
               PROVE  p = <<p[1], p[2]>> /\ p[1] \in DOMAIN schema
                      /\ p[2] \in DOMAIN IndexColumnLists(schema[p[1]])
    OBVIOUS
  <2>1. PICK i \in DOMAIN schema : p \in {i} \X DOMAIN IndexColumnLists(schema[i])
    BY DEF Positions
  <2> QED
    BY <2>1
<1>9. \A l \in 1..Len(L) : <<at, l>> \in Positions(schema)
  BY <1>3, <1>6, InPositions
<1>10. Past = {p \in Positions(schema) : p[1] < at \/ (p[1] = at /\ p[2] < list)}
  BY <1>1 DEF Past
<1>11. Past' = {p \in Positions(schema) : p[1] < at \/ (p[1] = at /\ p[2] < list + 1)}
  BY <1>1 DEF Past
<1> HIDE DEF L
<1>12. <<at, list>> \notin Past
  BY <1>2, <1>10
<1>13. Past' = Past \cup {<<at, list>>}
  <2>1. ASSUME NEW p \in Positions(schema), p[1] = at PROVE p[2] < list + 1 <=> p[2] < list \/ p[2] = list
    BY <1>2, <1>6, <1>8, <2>1 DEF L
  <2>2. ASSUME NEW p \in Positions(schema), p[1] = at, p[2] = list PROVE p = <<at, list>>
    BY <1>8, <2>2
  <2>3. <<at, list>> \in Positions(schema)
    BY <1>6, <1>9
  <2> QED
    BY <1>10, <1>11, <2>1, <2>2, <2>3
<1>14. \A p \in Past : p[1] = at => p[2] \in 1..(list - 1)
  <2> SUFFICES ASSUME NEW p \in Past, p[1] = at PROVE p[2] \in 1..(list - 1)
    OBVIOUS
  <2>1. p \in Positions(schema) /\ p[2] < list
    BY <1>2, <1>3, <1>10
  <2>2. p[2] \in 1..Len(L)
    BY <1>6, <1>8, <2>1 DEF L
  <2> QED
    BY <1>2, <1>6, <2>1, <2>2
<1>15. \A l \in 1..(list - 1) : <<at, l>> \in Past
  <2> SUFFICES ASSUME NEW l \in 1..(list - 1) PROVE <<at, l>> \in Past
    OBVIOUS
  <2>1. l \in 1..Len(L) /\ l < list
    BY <1>2, <1>6
  <2> QED
    BY <1>9, <1>10, <2>1
<1> QED
  BY <1>2, <1>3, <1>4, <1>5, <1>6, <1>7, <1>12, <1>13, <1>14, <1>15 DEF L

(* A list skipped has its index already. *)
LEMMA SkipIndex ==
    ASSUME IInv, EmitIndex, Redundant(schema[at], list)
    PROVE  IInv'
<1> DEFINE e == schema[at]
           L == IndexColumnLists(e)
           here == <<at, list>>
<1>1. /\ pc = "indexes" /\ at' = at /\ list' = list + 1 /\ names' = names /\ file' = file
      /\ schema' = schema /\ pc' = pc
      /\ tables' = tables /\ relnames' = relnames /\ done' = done /\ refused' = refused
  BY DEF EmitIndex, db
<1>2. /\ schema \in Schemas /\ Past' = Past \cup {here}
      /\ \A l \in 1..(list - 1) : <<at, l>> \in Past
  BY Deciding
<1>3. Indexes' = Indexes
  BY <1>1 DEF Indexes
<1>4. Emitting'
  <2>1. Emitting
    BY DEF IInv
  <2> QED
    BY <1>1, <1>3, <2>1 DEF Emitting
<1>5. TablesFirst'
  <2>1. TablesFirst
    BY DEF IInv
  <2>2. ASSUME NEW j \in DOMAIN file
        PROVE  /\ TableStmt(schema[j])' = TableStmt(schema[j])
               /\ \A p : IndexOf(file[j], p)' <=> IndexOf(file[j], p)
               /\ \A i, r : ForeignKeyOf(file[j], i, r)' <=> ForeignKeyOf(file[j], i, r)
    BY <1>1, Unmoved
  <2>3. IndexStatement' = IndexStatement
    BY DEF IndexStatement
  <2> QED
    BY <1>1, <1>2, <2>1, <2>2, <2>3 DEF TablesFirst
<1>6. NamesKept'
  <2>1. Cardinality(Past) <= Cardinality(Past') /\ IsFiniteSet(Past)
    <3>1. IsFiniteSet(Past) /\ IsFiniteSet({here})
      BY <1>2, PastFacts, FS_Singleton
    <3>2. IsFiniteSet(Past')
      BY <1>2, <3>1, FS_Union
    <3> QED
      BY <1>2, <3>1, <3>2, FS_Subset
  <2>2. NamesKept
    BY DEF IInv
  <2>3. Cardinality(names) \in Nat /\ Cardinality(Past) \in Nat /\ Cardinality(Past') \in Nat
    <3>1. IsFiniteSet(Past')
      BY <1>2, <2>1, FS_AddElement
    <3> QED
      BY <2>1, <2>2, <3>1, FS_CardinalityType DEF NamesKept
  <2>4. Cardinality(names') <= Cardinality(Past')
    BY <1>1, <2>1, <2>2, <2>3 DEF NamesKept
  <2> QED
    BY <1>1, <1>3, <2>2, <2>4 DEF NamesKept, IndexNamesDistinct
<1>7. PastServed'
  <2>1. PastServed
    BY DEF IInv
  <2>2. \A i, l : List(i, l)' = List(i, l)
    BY <1>1, Unmoved
  <2>3. \A j, p : IndexOf(file[j], p)' <=> IndexOf(file[j], p)
    BY <1>1, Unmoved
  <2> SUFFICES ASSUME NEW p \in Past \cup {here}
               PROVE  \/ List(p[1], p[2]) = <<schema[p[1]].pk>>
                      \/ \E j \in Indexes : IndexOf(file[j], p)
    BY <1>1, <1>2, <1>3, <2>2, <2>3 DEF PastServed
  <2>4. CASE p \in Past
    BY <2>1, <2>4 DEF PastServed
  <2>5. CASE p = here
    <3>1. CASE L[list] = <<e.pk>>
      BY <2>5, <3>1 DEF List
    <3>2. CASE \E i \in 1..(list - 1) : L[i] = L[list]
      <4>1. PICK i \in 1..(list - 1) : L[i] = L[list]
        BY <3>2
      <4>2. \/ List(at, i) = <<schema[at].pk>>
            \/ \E j \in Indexes : IndexOf(file[j], <<at, i>>)
        BY <1>2, <2>1, <4>1 DEF PastServed
      <4>3. List(at, i) = List(at, list)
        BY <4>1 DEF List
      <4> QED
        BY <2>5, <4>2, <4>3 DEF IndexOf
    <3> QED
      BY <3>1, <3>2 DEF Redundant
  <2> QED
    BY <2>4, <2>5
<1>8. NoneTwice'
  BY <1>1, <1>3 DEF IInv, NoneTwice
<1>9. Applied'
  BY <1>1 DEF IInv, Applied, NothingMissing, InDatabase
<1> QED
  BY <1>4, <1>5, <1>6, <1>7, <1>8, <1>9 DEF IInv

(* A list written gets an index with a name of its own. *)
LEMMA WriteIndex ==
    ASSUME IInv, EmitIndex, ~Redundant(schema[at], list)
    PROVE  IInv'
<1> DEFINE e == schema[at]
           L == IndexColumnLists(e)
           here == <<at, list>>
           n == IndexName(e, L[list])
           s == IndexStmt(e, L[list])
           last == Len(file) + 1
<1>1. /\ pc = "indexes" /\ at' = at /\ list' = list + 1
      /\ names' = names \cup {s.name} /\ file' = Append(file, s)
      /\ schema' = schema /\ pc' = pc
      /\ tables' = tables /\ relnames' = relnames /\ done' = done /\ refused' = refused
  BY DEF EmitIndex, db
<1>2. /\ schema \in Schemas /\ at \in DOMAIN schema /\ list \in DOMAIN L
      /\ AcceptedEntity(e, schema) /\ e \in ToSet(schema)
      /\ L \in Seq(Seq(DOMAIN e.columns))
      /\ L[list] \in Seq(DOMAIN e.columns) /\ L[list] \in ToSet(L)
      /\ here \notin Past /\ Past' = Past \cup {here}
      /\ \A p \in Past : p[1] = at => p[2] \in 1..(list - 1)
  BY Deciding
<1>3. /\ s = [op |-> "index", table |-> e.table, name |-> n, columns |-> ColumnNames(e, L[list])]
      /\ s.op = "index" /\ s.table = e.table /\ s.name = n /\ s.columns = ColumnNames(e, L[list])
  BY Statements
<1>4. NamesKept /\ TablesFirst /\ PastServed /\ NoneTwice /\ Emitting /\ Applied
  BY DEF IInv
<1>5. n \in Name /\ Len(n) <= Limit /\ n \notin names
  <2>1. IsFiniteSet(names) /\ Cardinality(names) <= Cardinality(Past)
    BY <1>4 DEF NamesKept
  <2>2. Cardinality(Past) \in Nat /\ Cardinality(Past) <= MaxSalt /\ MaxSalt \in Nat
    BY <1>2, PastFacts, MaxSaltAssumption
  <2>3. Cardinality(names) <= MaxSalt
    BY <2>1, <2>2, FS_CardinalityType
  <2>4. e \in ToSet(schema) /\ L[list] \in ToSet(IndexColumnLists(e))
    BY <1>2
  <2> HIDE DEF e, L
  <2> QED
    BY <1>2, <2>1, <2>3, <2>4, IndexNameFresh
<1>6. e.table \in Name /\ ColumnNames(e, L[list]) \in Seq(Name)
  <2>1. e.table \in Name
    BY <1>2 DEF AcceptedEntity
  <2> QED
    BY <1>2, <2>1, IndexTextType
<1>7. /\ \A a, b \in Seq(DOMAIN e.columns) : ColumnNames(e, a) = ColumnNames(e, b) => a = b
      /\ ColumnNames(e, <<e.pk>>) = <<Column(e, e.pk)>> /\ <<e.pk>> \in Seq(DOMAIN e.columns)
  <2>1. e.pk \in DOMAIN e.columns /\ AcceptedEntity(e, schema)
    BY <1>2 DEF AcceptedEntity
  <2> HIDE DEF e
  <2>2. ASSUME NEW D, NEW x \in D PROVE <<x>> \in Seq(D)
    OBVIOUS
  <2>3. <<e.pk>> \in Seq(DOMAIN e.columns)
    BY <2>1, <2>2
  <2> QED
    BY <2>1, <2>3, NamesTellColumns
<1> HIDE DEF s, n, L
<1>8. s \in IndexStatement
  BY <1>3, <1>5, <1>6 DEF IndexStatement
<1>9. /\ file' \in Seq(ToSet(file')) /\ Len(file') = last /\ Len(file) \in Nat
      /\ DOMAIN file = 1..Len(file) /\ DOMAIN file' = 1..last
      /\ \A j \in 1..Len(file) : file'[j] = file[j]
      /\ file'[last] = s
  <2>1. file \in Seq(ToSet(file))
    BY <1>4 DEF Emitting
  <2> QED
    BY <1>1, <2>1, Appending
<1>10. Indexes' = Indexes \cup {last} /\ \A j \in Indexes : j # last /\ file'[j] = file[j]
  <2>1. \A j \in DOMAIN file' : file'[j].op = "index" <=> j = last \/ j \in Indexes
    <3>1. \A j \in 1..Len(file) : file'[j].op = "index" <=> j \in Indexes
      BY <1>9 DEF Indexes
    <3> QED
      BY <1>3, <1>9, <3>1
  <2>2. Indexes \subseteq 1..Len(file)
    BY <1>9 DEF Indexes
  <2>3. Indexes' = {j \in DOMAIN file' : file'[j].op = "index"}
    BY DEF Indexes
  <2>4. last \in DOMAIN file' /\ 1..Len(file) \subseteq DOMAIN file' /\ last \notin 1..Len(file)
    BY <1>9
  <2>5. \A j \in Indexes : j # last /\ file'[j] = file[j]
    BY <1>9, <2>2, <2>4
  <2> QED
    BY <2>1, <2>2, <2>3, <2>4, <2>5
<1>11. \A p : List(p[1], p[2])' = List(p[1], p[2])
  BY <1>1, Unmoved
<1>12. ASSUME NEW j \in 1..Len(file)
       PROVE  /\ TableStmt(schema[j])' = TableStmt(schema[j])
              /\ \A p : IndexOf(file[j], p)' <=> IndexOf(file[j], p)
              /\ \A i, r : ForeignKeyOf(file[j], i, r)' <=> ForeignKeyOf(file[j], i, r)
  <2>1. file'[j] = file[j]
    BY <1>9
  <2> QED
    BY <1>1, <2>1, Unmoved
<1>13. ASSUME NEW j, j = last, NEW p, p = here PROVE IndexOf(file[j], p)'
  <2>1. file'[j] = s /\ p[1] = at /\ p[2] = list
    BY <1>9, <1>13
  <2> QED
    BY <1>1, <1>3, <2>1 DEF IndexOf, List, L
<1>14. Emitting'
  BY <1>1, <1>2, <1>4, <1>9 DEF Emitting
<1>15. TablesFirst'
  <2>1. Len(file) >= Len(schema) /\ Len(schema) \in Nat
    BY <1>1, <1>2, <1>4, SchemaFacts DEF TablesFirst
  <2>2. ASSUME NEW j \in 1..Len(file)
        PROVE  IF j <= Len(schema) THEN file[j] = TableStmt(schema[j])
               ELSE \/ \E p \in Past : file[j] \in IndexStatement /\ IndexOf(file[j], p)
                    \/ \E i \in DOMAIN schema : \E r \in DOMAIN schema[i].relations :
                           ForeignKeyOf(file[j], i, r)
    BY <1>4, <1>9 DEF TablesFirst
  <2> SUFFICES ASSUME NEW j \in 1..last
               PROVE  IF j <= Len(schema) THEN file'[j] = TableStmt(schema[j])'
                      ELSE \/ \E p \in Past' : file'[j] \in IndexStatement /\ IndexOf(file[j], p)'
                           \/ \E i \in DOMAIN schema : \E r \in DOMAIN schema[i].relations :
                                  ForeignKeyOf(file[j], i, r)'
    BY <1>1, <1>9, <2>1 DEF TablesFirst, IndexStatement
  <2>3. CASE j \in 1..Len(file)
    <3>1. file'[j] = file[j] /\ Past \subseteq Past'
      BY <1>2, <1>9, <2>3
    <3> QED
      BY <1>12, <2>2, <2>3, <3>1
  <2>4. CASE j = last
    <3>1. ~(j <= Len(schema))
      BY <1>9, <2>1, <2>4
    <3>2. file'[j] \in IndexStatement /\ here \in Past'
      BY <1>2, <1>8, <1>9, <2>4
    <3>3. ASSUME NEW p, p = here PROVE IndexOf(file[j], p)'
      BY <1>13, <2>4, <3>3
    <3> HIDE DEF here, last
    <3> QED
      BY <3>1, <3>2, <3>3
  <2> QED
    BY <1>9, <2>3, <2>4
<1>16. NamesKept'
  <2>1. names' = {file'[j].name : j \in Indexes'}
    <3>1. names = {file[j].name : j \in Indexes} /\ file'[last].name = s.name
      BY <1>4, <1>9 DEF NamesKept
    <3>2. \A j \in Indexes : file'[j].name = file[j].name
      BY <1>10
    <3> HIDE DEF last
    <3> QED
      BY ZenonT(30), <1>1, <1>10, <3>1, <3>2
  <2>2. IsFiniteSet(names') /\ Cardinality(names') <= Cardinality(Past')
    <3>1. IsFiniteSet(names) /\ Cardinality(names) <= Cardinality(Past) /\ IsFiniteSet(Past)
      BY <1>2, <1>4, PastFacts DEF NamesKept
    <3>2. IsFiniteSet(names') /\ Cardinality(names') = Cardinality(names) + 1
      BY <1>1, <1>3, <1>5, <3>1, FS_AddElement
    <3>3. Cardinality(Past') = Cardinality(Past) + 1
      BY <1>2, <3>1, FS_AddElement
    <3>4. Cardinality(names) \in Nat /\ Cardinality(Past) \in Nat
      BY <3>1, FS_CardinalityType
    <3> QED
      BY <3>1, <3>2, <3>3, <3>4
  <2>3. \A x \in names' : x \in Name /\ Len(x) <= Limit
    BY <1>1, <1>3, <1>4, <1>5 DEF NamesKept
  <2>4. IndexNamesDistinct'
    <3>1. \A i \in Indexes : file'[i].name \in names /\ file'[i].name = file[i].name
      BY <1>4, <1>10 DEF NamesKept
    <3>2. file'[last].name = n /\ n \notin names
      BY <1>3, <1>5, <1>9
    <3>3. \A i, j \in Indexes : file[i].name = file[j].name => i = j
      BY <1>4 DEF NamesKept, IndexNamesDistinct
    <3>4. \A i, j \in Indexes' : file'[i].name = file'[j].name => i = j
      <4> HIDE DEF last
      <4> QED
        BY <1>10, <3>1, <3>2, <3>3
    <3> QED
      BY <3>4 DEF IndexNamesDistinct
  <2> QED
    BY <2>1, <2>2, <2>3, <2>4 DEF NamesKept, Name
<1>17. PastServed'
  <2> SUFFICES ASSUME NEW p \in Past \cup {here}
               PROVE  \/ List(p[1], p[2]) = <<schema[p[1]].pk>>
                      \/ \E j \in Indexes' : IndexOf(file[j], p)'
    BY <1>1, <1>2, <1>11 DEF PastServed
  <2>1. CASE p \in Past
    <3>1. \A j \in Indexes : j \in 1..Len(file)
      BY <1>9 DEF Indexes
    <3> QED
      BY <1>4, <1>10, <1>12, <2>1, <3>1 DEF PastServed
  <2>2. CASE p = here
    <3>1. ASSUME NEW j, j = last PROVE IndexOf(file[j], p)'
      BY <1>13, <2>2, <3>1
    <3> HIDE DEF last
    <3> QED
      BY <1>10, <3>1
  <2> QED
    BY <2>1, <2>2
<1>18. NoneTwice'
  <2>1. ASSUME NEW j \in Indexes, file[j].table = s.table, file[j].columns = s.columns PROVE FALSE
    <3>1. PICK p \in Past : file[j] \in IndexStatement /\ IndexOf(file[j], p)
      BY IndexesAre
    <3>2. p[1] \in DOMAIN schema /\ schema[p[1]].table = schema[at].table
      BY <1>2, <1>3, <2>1, <3>1, PastFacts DEF IndexOf
    <3>3. p[1] = at
      BY <1>2, <3>2, SchemaFacts
    <3>4. p[2] \in 1..(list - 1) /\ p[2] \in DOMAIN L
      BY <1>2, <3>3, PastFacts DEF L
    <3>5. L[p[2]] \in Seq(DOMAIN e.columns) /\ ColumnNames(e, L[p[2]]) = ColumnNames(e, L[list])
      BY <1>2, <1>3, <2>1, <3>1, <3>3, <3>4 DEF IndexOf, List, L
    <3>6. L[p[2]] = L[list]
      BY <1>2, <1>7, <3>5
    <3> QED
      BY <3>4, <3>6 DEF Redundant, L
  <2>2. ASSUME NEW i \in DOMAIN schema, s.table = schema[i].table
        PROVE  s.columns # <<Column(schema[i], schema[i].pk)>>
    <3>1. i = at
      BY <1>2, <1>3, <2>2, SchemaFacts
    <3>2. L[list] # <<e.pk>>
      BY DEF Redundant, L
    <3>3. ColumnNames(e, L[list]) # ColumnNames(e, <<e.pk>>)
      BY <1>2, <1>7, <3>2
    <3> QED
      BY <1>3, <1>7, <3>1, <3>3
  <2>3. /\ \A i, j \in Indexes : file[i].table = file[j].table /\ file[i].columns = file[j].columns => i = j
        /\ \A j \in Indexes : \A i \in DOMAIN schema :
               file[j].table = schema[i].table => file[j].columns # <<Column(schema[i], schema[i].pk)>>
    BY <1>4 DEF NoneTwice
  <2>4. file'[last] = s
    BY <1>9
  <2> HIDE DEF last
  <2>5. \A i, j \in Indexes' :
            file'[i].table = file'[j].table /\ file'[i].columns = file'[j].columns => i = j
    BY <1>10, <2>1, <2>3, <2>4
  <2>6. \A j \in Indexes' : \A i \in DOMAIN schema :
            file'[j].table = schema[i].table => file'[j].columns # <<Column(schema[i], schema[i].pk)>>
    BY <1>10, <2>2, <2>3, <2>4
  <2> QED
    BY <1>1, <2>5, <2>6 DEF NoneTwice, Column
<1>19. Applied'
  <2>1. \A i : InDatabase(schema[i])' <=> InDatabase(schema[i])
    BY <1>1 DEF InDatabase, Quoted, Column
  <2> QED
    BY <1>1, <1>4, <1>9, <2>1 DEF Applied, NothingMissing
<1> QED
  BY <1>14, <1>15, <1>16, <1>17, <1>18, <1>19 DEF IInv

(* A step that writes nothing and decides no list. *)
LEMMA Scanning ==
    ASSUME IInv, UNCHANGED <<schema, names, file, db>>, Past' = Past, Emitting',
           pc' # "tables", Len(file) >= Len(schema),
           pc' \in {"tables", "keys", "indexes"} => pc \in {"tables", "keys", "indexes"}
    PROVE  IInv'
<1>1. /\ schema' = schema /\ names' = names /\ file' = file
      /\ tables' = tables /\ relnames' = relnames /\ done' = done /\ refused' = refused
  BY DEF db
<1>2. TablesFirst /\ Applied
  BY DEF IInv
<1>3. ASSUME NEW j \in DOMAIN file
      PROVE  /\ TableStmt(schema[j])' = TableStmt(schema[j])
             /\ \A p : IndexOf(file[j], p)' <=> IndexOf(file[j], p)
             /\ \A i, r : ForeignKeyOf(file[j], i, r)' <=> ForeignKeyOf(file[j], i, r)
  BY <1>1, Unmoved
<1>4. TablesFirst'
  <2>1. IndexStatement' = IndexStatement
    BY DEF IndexStatement
  <2> QED
    BY <1>1, <1>2, <1>3, <2>1 DEF TablesFirst
<1>5. NamesKept' /\ PastServed' /\ NoneTwice'
  <2>1. Indexes' = Indexes
    BY <1>1 DEF Indexes
  <2> QED
    BY <1>1, <2>1, NamesAlone
<1>6. Applied'
  <2>1. \A i : InDatabase(schema[i])' <=> InDatabase(schema[i])
    BY <1>1 DEF InDatabase, Quoted, Column
  <2> QED
    BY <1>1, <1>2, <2>1 DEF Applied, NothingMissing
<1> QED
  BY <1>4, <1>5, <1>6 DEF IInv

LEMMA NextEntityStep ==
    ASSUME IInv, NextEntity
    PROVE  IInv'
<1>1. /\ pc = "indexes" /\ at <= Len(schema) /\ list > Len(IndexColumnLists(schema[at]))
      /\ at' = at + 1 /\ list' = 1 /\ UNCHANGED <<schema, names, file, db>> /\ pc' = pc
  BY DEF NextEntity
<1>2. /\ schema \in Schemas /\ at \in 1..(Len(schema) + 1) /\ list \in Nat \ {0} /\ Emitting
      /\ Len(file) >= Len(schema)
  BY <1>1 DEF IInv, Emitting, TablesFirst
<1>3. Len(schema) \in Nat /\ DOMAIN schema = 1..Len(schema)
  BY <1>2, SchemaFacts
<1>4. ASSUME NEW p \in Positions(schema)
      PROVE  /\ p[1] \in 1..Len(schema) /\ p[2] \in Nat \ {0}
             /\ p[1] = at => p[2] < list
  <2>1. PICK i \in DOMAIN schema : p \in {i} \X DOMAIN IndexColumnLists(schema[i])
    BY DEF Positions
  <2>2. AcceptedEntity(schema[i], schema)
    BY <1>2, SchemaFacts
  <2>3. /\ DOMAIN IndexColumnLists(schema[i]) = 1..Len(IndexColumnLists(schema[i]))
        /\ Len(IndexColumnLists(schema[i])) \in Nat
    BY <2>2, Lists
  <2> QED
    BY <1>1, <1>2, <1>3, <2>1, <2>3
<1>5. Past' = Past
  <2>1. Past = {p \in Positions(schema) : p[1] < at \/ (p[1] = at /\ p[2] < list)}
    BY <1>1 DEF Past
  <2>2. Past' = {p \in Positions(schema) : p[1] < at + 1 \/ (p[1] = at + 1 /\ p[2] < 1)}
    BY <1>1 DEF Past
  <2>3. \A p \in Positions(schema) :
            p[1] < at \/ (p[1] = at /\ p[2] < list) <=> p[1] < at + 1 \/ (p[1] = at + 1 /\ p[2] < 1)
    BY <1>2, <1>3, <1>4
  <2> QED
    BY <2>1, <2>2, <2>3
<1>6. Emitting'
  BY <1>1, <1>2, <1>3 DEF Emitting
<1> QED
  BY <1>1, <1>2, <1>5, <1>6, Scanning

LEMMA NextPassStep ==
    ASSUME IInv, NextPass
    PROVE  IInv'
<1>1. /\ pc \in {"tables", "keys", "indexes"} /\ at > Len(schema) /\ at' = 1 /\ list' = list
      /\ pc = "tables" => pc' = "keys"
      /\ pc = "keys" => pc' = "indexes"
      /\ pc = "indexes" => pc' = "apply"
      /\ UNCHANGED <<schema, names, file, db>>
  BY DEF NextPass
<1>2. /\ schema \in Schemas /\ at \in 1..(Len(schema) + 1) /\ Emitting /\ TablesFirst
  BY DEF IInv, Emitting
<1>3. Len(schema) \in Nat /\ at = Len(schema) + 1 /\ DOMAIN schema = 1..Len(schema)
  BY <1>1, <1>2, SchemaFacts
<1>4. Len(file) >= Len(schema)
  BY <1>1, <1>2, <1>3 DEF TablesFirst
<1>5. ASSUME NEW p \in Positions(schema)
      PROVE  p[1] \in 1..Len(schema) /\ p[2] \in Nat \ {0}
  <2>1. PICK i \in DOMAIN schema : p \in {i} \X DOMAIN IndexColumnLists(schema[i])
    BY DEF Positions
  <2>2. AcceptedEntity(schema[i], schema)
    BY <1>2, SchemaFacts
  <2>3. /\ DOMAIN IndexColumnLists(schema[i]) = 1..Len(IndexColumnLists(schema[i]))
        /\ Len(IndexColumnLists(schema[i])) \in Nat
    BY <2>2, Lists
  <2> QED
    BY <1>3, <2>1, <2>3
<1>6. Past' = Past
  <2>1. CASE pc = "tables"
    BY <1>1, <2>1 DEF Past
  <2>2. CASE pc = "keys"
    <3>1. list = 1
      BY <1>2, <2>2 DEF Emitting
    <3>2. Past = {}
      BY <2>2 DEF Past
    <3>3. Past' = {p \in Positions(schema) : p[1] < 1 \/ (p[1] = 1 /\ p[2] < 1)}
      BY <1>1, <2>2, <3>1 DEF Past
    <3> QED
      BY <1>5, <3>2, <3>3
  <2>3. CASE pc = "indexes"
    <3>1. Past = {p \in Positions(schema) : p[1] < at \/ (p[1] = at /\ p[2] < list)}
      BY <2>3 DEF Past
    <3>2. Past' = Positions(schema)
      BY <1>1, <2>3 DEF Past
    <3> QED
      BY <1>3, <1>5, <3>1, <3>2
  <2> QED
    BY <1>1, <2>1, <2>2, <2>3
<1>7. Emitting'
  <2>1. Indexes' = Indexes
    BY <1>1 DEF Indexes
  <2> QED
    BY <1>1, <1>2, <1>3, <2>1 DEF Emitting
<1> QED
  BY <1>1, <1>4, <1>6, <1>7, Scanning

(* Postgres has what the next statement refers to. *)
LEMMA NeverMissing ==
    ASSUME IInv, done < Len(file)
    PROVE  ~Missing(file[done + 1])
<1> DEFINE s == file[done + 1]
<1>1. /\ schema \in Schemas /\ file \in Seq(ToSet(file)) /\ done \in 0..Len(file) /\ TablesFirst
      /\ \A j \in 1..done : j <= Len(schema) => InDatabase(schema[j])
  BY DEF IInv, Emitting, Applied
<1>2. /\ Len(schema) \in Nat /\ DOMAIN schema = 1..Len(schema)
      /\ Len(file) \in Nat /\ done + 1 \in DOMAIN file
  BY <1>1, SchemaFacts
<1>3. CASE done + 1 <= Len(schema)
  <2>1. s = TableStmt(schema[done + 1])
    BY <1>1, <1>2, <1>3 DEF TablesFirst
  <2>2. s.op = "table"
    BY <2>1, Statements
  <2> QED
    BY <2>2 DEF Missing
<1>4. CASE done >= Len(schema)
  <2>1. \A i \in DOMAIN schema : InDatabase(schema[i])
    BY <1>1, <1>2, <1>4
  <2>2. \A i \in DOMAIN schema : AcceptedEntity(schema[i], schema)
    BY <1>1, SchemaFacts
  <2>3. \A i \in DOMAIN schema : \A k \in DOMAIN schema[i].columns : Has(schema[i].table, Column(schema[i], k))
    <3> SUFFICES ASSUME NEW i \in DOMAIN schema, NEW k \in DOMAIN schema[i].columns
                 PROVE  Has(schema[i].table, Column(schema[i], k))
      OBVIOUS
    <3>1. Column(schema[i], k) \in ToSet(schema[i].columns)
      BY DEF Column, ToSet
    <3> QED
      BY <2>1, <3>1 DEF InDatabase, Has
  <2>4. \/ \E p \in Past : s \in IndexStatement /\ IndexOf(s, p)
        \/ \E i \in DOMAIN schema : \E r \in DOMAIN schema[i].relations : ForeignKeyOf(s, i, r)
    BY <1>1, <1>2, <1>4 DEF TablesFirst
  <2>5. ASSUME NEW p \in Past, s \in IndexStatement, IndexOf(s, p) PROVE ~Missing(s)
    <3>1. p[1] \in DOMAIN schema /\ p[2] \in DOMAIN IndexColumnLists(schema[p[1]])
      BY <1>1, PastFacts
    <3>2. List(p[1], p[2]) \in Seq(DOMAIN schema[p[1]].columns)
      <4>1. IndexColumnLists(schema[p[1]]) \in Seq(Seq(DOMAIN schema[p[1]].columns))
        BY <2>2, <3>1, Lists
      <4> QED
        BY <3>1, <4>1 DEF List
    <3>3. s.op = "index" /\ s.table = schema[p[1]].table
          /\ s.columns = ColumnNames(schema[p[1]], List(p[1], p[2]))
      BY <2>5 DEF IndexOf, IndexStatement
    <3>4. \A c \in ToSet(s.columns) : Has(s.table, c)
      <4> SUFFICES ASSUME NEW c \in ToSet(s.columns) PROVE Has(s.table, c)
        OBVIOUS
      <4>1. PICK j \in DOMAIN List(p[1], p[2]) : c = Column(schema[p[1]], List(p[1], p[2])[j])
        BY <3>3 DEF ToSet, ColumnNames
      <4>2. List(p[1], p[2])[j] \in DOMAIN schema[p[1]].columns
        BY <3>2, <4>1
      <4> QED
        BY <2>3, <3>1, <3>3, <4>1, <4>2
    <3> QED
      BY <3>3, <3>4 DEF Missing
  <2>6. ASSUME NEW i \in DOMAIN schema, NEW r \in DOMAIN schema[i].relations, ForeignKeyOf(s, i, r)
        PROVE  ~Missing(s)
    <3> DEFINE rel == schema[i].relations[r]
    <3>1. rel.column \in DOMAIN schema[i].columns /\ rel.target \in DOMAIN schema
      <4>1. schema[i].relations \in Seq([column : DOMAIN schema[i].columns, target : DOMAIN schema])
        BY <2>2 DEF AcceptedEntity
      <4>2. ASSUME NEW R, NEW q \in Seq(R), NEW j \in DOMAIN q PROVE q[j] \in R
        OBVIOUS
      <4>3. rel \in [column : DOMAIN schema[i].columns, target : DOMAIN schema]
        BY <4>1, <4>2
      <4> HIDE DEF rel
      <4> QED
        BY <4>3
    <3>2. /\ s.op = "fkey" /\ s.table = schema[i].table /\ s.column = Column(schema[i], rel.column)
          /\ s.target = schema[rel.target].table
          /\ s.key = Column(schema[rel.target], schema[rel.target].pk)
      BY <2>6, Statements DEF ForeignKeyOf
    <3> HIDE DEF rel
    <3>3. Has(s.table, s.column)
      BY <2>3, <3>1, <3>2
    <3>4. schema[rel.target].pk \in DOMAIN schema[rel.target].columns
      BY <2>2, <3>1 DEF AcceptedEntity
    <3>5. Has(s.target, s.key)
      BY <2>3, <3>1, <3>2, <3>4
    <3>6. Quoted(s.key) \in tables[Quoted(s.target)].keys
      BY <2>1, <3>1, <3>2 DEF InDatabase
    <3> QED
      BY <3>2, <3>3, <3>5, <3>6 DEF Missing
  <2> QED
    BY <2>4, <2>5, <2>6
<1> QED
  BY <1>1, <1>2, <1>3, <1>4

(* Emit is over: only the database changes. *)
LEMMA Applying ==
    ASSUME IInv, UNCHANGED emitter, pc = "apply", pc' \in {"apply", "refused"}
    PROVE  Emitting' /\ TablesFirst' /\ NamesKept' /\ PastServed' /\ NoneTwice'
<1>1. /\ schema' = schema /\ at' = at /\ list' = list /\ names' = names /\ file' = file
  BY DEF emitter
<1>2. Indexes' = Indexes /\ Past' = Past
  BY <1>1 DEF Indexes, Past
<1>3. Emitting /\ TablesFirst
  BY DEF IInv
<1>4. Emitting'
  BY <1>1, <1>2, <1>3 DEF Emitting
<1>5. TablesFirst'
  <2>1. ASSUME NEW j \in DOMAIN file
        PROVE  /\ TableStmt(schema[j])' = TableStmt(schema[j])
               /\ \A p : IndexOf(file[j], p)' <=> IndexOf(file[j], p)
               /\ \A i, r : ForeignKeyOf(file[j], i, r)' <=> ForeignKeyOf(file[j], i, r)
    BY <1>1, Unmoved
  <2>2. IndexStatement' = IndexStatement
    BY DEF IndexStatement
  <2> QED
    BY <1>1, <1>2, <1>3, <2>1, <2>2 DEF TablesFirst
<1>6. NamesKept' /\ PastServed' /\ NoneTwice'
  BY <1>1, <1>2, NamesAlone
<1> QED
  BY <1>4, <1>5, <1>6

LEMMA RefuseStep ==
    ASSUME IInv, Refuse
    PROVE  IInv'
<1>1. /\ pc = "apply" /\ done < Len(file) /\ pc' = "refused" /\ UNCHANGED emitter
      /\ tables' = tables /\ relnames' = relnames /\ done' = done
      /\ refused' = IF Missing(file[done + 1]) THEN "missing" ELSE "name taken"
  BY DEF Refuse
<1>2. refused' = "name taken"
  BY <1>1, NeverMissing
<1>3. schema' = schema /\ file' = file
  BY <1>1 DEF emitter
<1>4. Applied'
  <2>1. \A i : InDatabase(schema[i])' <=> InDatabase(schema[i])
    BY <1>1, <1>3 DEF InDatabase, Quoted, Column
  <2>2. Applied
    BY DEF IInv
  <2> QED
    BY <1>1, <1>2, <1>3, <2>1, <2>2 DEF Applied, NothingMissing
<1>5. Emitting' /\ TablesFirst' /\ NamesKept' /\ PastServed' /\ NoneTwice'
  BY <1>1, Applying
<1> QED
  BY <1>4, <1>5 DEF IInv

LEMMA ExecuteStep ==
    ASSUME IInv, Execute
    PROVE  IInv'
<1> DEFINE s == file[done + 1]
           q == Quoted(s.table)
<1>1. /\ pc = "apply" /\ done < Len(file) /\ pc' = pc /\ UNCHANGED emitter
      /\ ~Missing(s) /\ ~Taken(s) /\ tables' = Updated(s) /\ relnames' = relnames \cup Makes(s)
      /\ done' = done + 1 /\ refused' = refused
  BY DEF Execute
<1>2. schema' = schema /\ file' = file
  BY <1>1 DEF emitter
<1>3. /\ schema \in Schemas /\ file \in Seq(ToSet(file)) /\ done \in 0..Len(file) /\ TablesFirst
      /\ DOMAIN tables \subseteq relnames
      /\ \A t \in DOMAIN tables : DOMAIN tables[t] = {"columns", "keys", "constraints"}
      /\ \A j \in 1..done : j <= Len(schema) => InDatabase(schema[j])
      /\ refused \in {"nothing", "missing", "name taken"} /\ refused # "missing"
  BY DEF IInv, Emitting, Applied, NothingMissing
<1>4. /\ Len(schema) \in Nat /\ DOMAIN schema = 1..Len(schema)
      /\ Len(file) \in Nat /\ done \in Nat /\ done + 1 \in DOMAIN file
  <2>1. Len(schema) \in Nat /\ DOMAIN schema = 1..Len(schema)
    BY <1>3, SchemaFacts
  <2>2. file \in Seq(ToSet(file)) /\ done \in 0..Len(file) /\ done < Len(file)
    BY <1>1, <1>3
  <2>3. Len(file) \in Nat /\ DOMAIN file = 1..Len(file)
    BY <2>2, OwnSeq
  <2>4. done \in Nat /\ done + 1 \in 1..Len(file)
    BY ONLY <2>2, <2>3
  <2> QED
    BY <2>1, <2>3, <2>4
(* What the statement leaves of the tables before it. *)
<1>5. /\ DOMAIN tables' \subseteq relnames'
      /\ \A t \in DOMAIN tables' : DOMAIN tables'[t] = {"columns", "keys", "constraints"}
      /\ \A t \in DOMAIN tables : /\ t \in DOMAIN tables'
                                  /\ tables'[t].columns = tables[t].columns
                                  /\ tables'[t].keys = tables[t].keys
      /\ s.op = "table" => q \in DOMAIN tables' /\ tables'[q] = TableOf(s)
  <2>1. CASE s.op = "table"
    <3>1. tables' = [t \in DOMAIN tables \cup {q} |-> IF t = q THEN TableOf(s) ELSE tables[t]]
      BY <1>1, <2>1 DEF Updated
    <3>2. q \in Makes(s)
      BY <2>1 DEF Makes
    <3>3. q \notin DOMAIN tables
      BY <1>1, <1>3, <3>2 DEF Taken
    <3>4. DOMAIN TableOf(s) = {"columns", "keys", "constraints"}
      BY DEF TableOf
    <3> HIDE DEF q, s
    <3>5. DOMAIN tables' = DOMAIN tables \cup {q} /\ tables'[q] = TableOf(s)
          /\ \A t \in DOMAIN tables : tables'[t] = tables[t]
      BY <3>1, <3>3
    <3> QED
      BY <1>1, <1>3, <3>2, <3>4, <3>5
  <2>2. CASE s.op = "fkey"
    <3>1. tables' = [tables EXCEPT ![q].constraints = @ \cup {Plain(s.name)}]
      BY <1>1, <2>2 DEF Updated
    <3> DEFINE c == [tables[q] EXCEPT !.constraints = @ \cup {Plain(s.name)}]
    <3>2. DOMAIN tables' = DOMAIN tables /\ \A t \in DOMAIN tables : tables'[t] = IF t = q THEN c ELSE tables[t]
      BY <3>1
    <3>3. ASSUME q \in DOMAIN tables
          PROVE  DOMAIN c = {"columns", "keys", "constraints"} /\ c.columns = tables[q].columns /\ c.keys = tables[q].keys
      BY <1>3, <3>3
    <3> HIDE DEF q, s, c
    <3> QED
      BY <1>1, <1>3, <2>2, <3>2, <3>3
  <2>3. CASE s.op \notin {"table", "fkey"}
    <3>1. tables' = tables
      BY <1>1, <2>3 DEF Updated
    <3> QED
      BY <1>1, <1>3, <2>3, <3>1
  <2> QED
    BY <2>1, <2>2, <2>3
<1>6. ASSUME NEW j \in 1..(done + 1), j <= Len(schema) PROVE InDatabase(schema[j])'
  <2> DEFINE e == schema[j]
  <2> SUFFICES /\ Quoted(e.table) \in DOMAIN tables'
               /\ tables'[Quoted(e.table)].columns = {Quoted(c) : c \in ToSet(e.columns)}
               /\ Quoted(Column(e, e.pk)) \in tables'[Quoted(e.table)].keys
    BY <1>2 DEF InDatabase, Quoted, Column
  <2>1. CASE j \in 1..done
    BY <1>3, <1>5, <1>6, <2>1 DEF InDatabase
  <2>2. CASE j = done + 1
    <3>1. s = TableStmt(e)
      BY <1>3, <1>4, <1>6, <2>2 DEF TablesFirst
    <3>2. s.op = "table" /\ s.table = e.table /\ s.columns = ToSet(e.columns) /\ s.pk = Column(e, e.pk)
      BY <3>1, Statements
    <3>3. /\ TableOf(s).columns = {Quoted(c) : c \in s.columns}
          /\ Quoted(s.pk) \in TableOf(s).keys
      BY DEF TableOf
    <3>4. q = Quoted(e.table)
      BY <3>2
    <3>5. q \in DOMAIN tables' /\ tables'[q] = TableOf(s)
      BY <1>5, <3>2
    <3>6. {Quoted(c) : c \in s.columns} = {Quoted(c) : c \in ToSet(e.columns)}
      <4>1. s.columns = ToSet(e.columns)
        BY <3>2
      <4> QED
        BY <4>1
    <3>7. tables'[q].columns = {Quoted(c) : c \in ToSet(e.columns)}
      BY <3>3, <3>5, <3>6
    <3>8. Quoted(Column(e, e.pk)) \in tables'[q].keys
      BY <3>2, <3>3, <3>5
    <3> HIDE DEF q
    <3> QED
      BY <3>4, <3>5, <3>7, <3>8
  <2>3. j \in 1..done \/ j = done + 1
    BY <1>4
  <2> QED
    BY ONLY <2>1, <2>2, <2>3
<1>7. Applied'
  <2> HIDE DEF s, q
  <2>1. \A j \in 1..done' : j <= Len(schema) => InDatabase(schema[j])'
    BY <1>1, <1>6
  <2>2. done' \in 0..Len(file')
    BY <1>1, <1>2, <1>4
  <2>3. pc' \notin {"tables", "keys", "indexes"}
    BY <1>1
  <2>4. refused' \in {"nothing", "missing", "name taken"} /\ refused' # "missing"
    BY <1>1, <1>3
  <2>5. \A j \in 1..done' : j <= Len(schema') => InDatabase(schema[j])'
    BY <1>2, <2>1
  <2> QED
    BY <1>5, <2>2, <2>3, <2>4, <2>5 DEF Applied, NothingMissing
<1>8. Emitting' /\ TablesFirst' /\ NamesKept' /\ PastServed' /\ NoneTwice'
  BY <1>1, Applying
<1> QED
  BY <1>7, <1>8 DEF IInv

LEMMA StepInv == IInv /\ [Next]_vars => IInv'
<1> SUFFICES ASSUME IInv, [Next]_vars PROVE IInv'
  OBVIOUS
<1>1. CASE EmitTable
  BY <1>1, EmitTableStep
<1>2. CASE EmitForeignKeys
  BY <1>2, EmitForeignKeysStep
<1>3. CASE EmitIndex
  BY <1>3, SkipIndex, WriteIndex
<1>4. CASE NextEntity
  BY <1>4, NextEntityStep
<1>5. CASE NextPass
  BY <1>5, NextPassStep
<1>6. CASE Execute
  BY <1>6, ExecuteStep
<1>7. CASE Refuse
  BY <1>7, RefuseStep
<1>8. CASE UNCHANGED vars
  <2>1. /\ UNCHANGED emitter /\ pc' = pc
        /\ tables' = tables /\ relnames' = relnames /\ done' = done /\ refused' = refused
    BY <1>8 DEF vars, db
  <2>2. /\ schema' = schema /\ at' = at /\ list' = list /\ names' = names /\ file' = file
    BY <2>1 DEF emitter
  <2>3. Indexes' = Indexes /\ Past' = Past
    BY <2>1, <2>2 DEF Indexes, Past
  <2>4. Emitting'
    BY <2>1, <2>2, <2>3 DEF IInv, Emitting
  <2>5. TablesFirst'
    <3>1. ASSUME NEW j \in DOMAIN file
          PROVE  /\ TableStmt(schema[j])' = TableStmt(schema[j])
                 /\ \A p : IndexOf(file[j], p)' <=> IndexOf(file[j], p)
                 /\ \A i, r : ForeignKeyOf(file[j], i, r)' <=> ForeignKeyOf(file[j], i, r)
      BY <2>2, Unmoved
    <3>2. IndexStatement' = IndexStatement
      BY DEF IndexStatement
    <3>3. TablesFirst
      BY DEF IInv
    <3> QED
      BY <2>1, <2>2, <2>3, <3>1, <3>2, <3>3 DEF TablesFirst
  <2>6. NamesKept' /\ PastServed' /\ NoneTwice'
    BY <2>2, <2>3, NamesAlone
  <2>7. Applied'
    <3>1. \A i : InDatabase(schema[i])' <=> InDatabase(schema[i])
      BY <2>1, <2>2 DEF InDatabase, Quoted, Column
    <3>2. Applied
      BY DEF IInv
    <3> QED
      BY <2>1, <2>2, <3>1, <3>2 DEF Applied, NothingMissing
  <2> QED
    BY <2>4, <2>5, <2>6, <2>7 DEF IInv
<1> QED
  BY <1>1, <1>2, <1>3, <1>4, <1>5, <1>6, <1>7, <1>8 DEF Next

LEMMA Invariant == Spec => []IInv
<1>1. Init => IInv
  BY InitInv
<1>2. IInv /\ [Next]_vars => IInv'
  BY StepInv
<1> QED
  BY <1>1, <1>2, PTL DEF Spec

-----------------------------------------------------------------------------
(* What Emit promises *)

(* Where Emit and Postgres are, and that emitter.names is the set of the names *)
(* of the indexes written, each of a length that Postgres keeps.               *)
THEOREM TypeCorrect == Spec => []TypeOK
<1>1. IInv => TypeOK
  <2> SUFFICES ASSUME IInv PROVE TypeOK
    OBVIOUS
  <2>1. schema # << >>
    BY SchemaFacts DEF IInv, Emitting
  <2> QED
    BY <2>1 DEF IInv, Emitting, NamesKept, Applied, TypeOK
<1> QED
  BY <1>1, Invariant, PTL

(* ddl.go: no two indexes of a migration have one name, for every schema and  *)
(* every limit, as long as the salted hashes of one index differ.             *)
THEOREM IndexNamesNeverMeet == Spec => []IndexNamesDistinct
<1>1. IInv => IndexNamesDistinct
  BY DEF IInv, NamesKept
<1> QED
  BY <1>1, Invariant, PTL

(* ddl.go: whatever refers to whatever, every statement finds the tables,     *)
(* columns and keys it names.                                                 *)
THEOREM MigrationInOrder == Spec => []NothingMissing
<1>1. IInv => NothingMissing
  BY DEF IInv, Applied
<1> QED
  BY <1>1, Invariant, PTL

(* Whatever the API can be asked to list, one of the lists Emit derives has   *)
(* the columns compared for equality first and the sort keys left after them. *)
LEMMA LookupHasList ==
    ASSUME NEW s, NEW e, AcceptedEntity(e, s), NEW eq \in Lookups(e)
    PROVE  \E l \in DOMAIN IndexColumnLists(e) : \E p \in Seq(DOMAIN e.columns) :
               /\ NoRepeats(p) /\ ToSet(p) = eq
               /\ IndexColumnLists(e)[l] = p \o Outside(e.sort, eq)
<1> DEFINE L == IndexColumnLists(e)
           D == DOMAIN e.columns
           f == Len(e.filters)
<1>1. /\ e.sort \in Seq(D) /\ e.filters \in Seq(D) /\ e.indexes \in Seq(Seq(ToSet(e.filters)))
      /\ \A ix \in ToSet(e.indexes) : \A j, k \in DOMAIN ix : ix[j] = ix[k] => j = k
  BY DEF AcceptedEntity
<1>2. /\ Len(L) = f + 1 + Len(e.indexes) /\ DOMAIN L = 1..Len(L)
      /\ \A j \in 1..f : L[j] = PrefixWithSortKeys(<<e.filters[j]>>, e.sort)
      /\ L[f + 1] = e.sort
      /\ \A j \in 1..Len(e.indexes) : L[f + 1 + j] = PrefixWithSortKeys(e.indexes[j], e.sort)
  BY Lists
<1> HIDE DEF L, D
<1>3. /\ f \in Nat /\ DOMAIN e.filters = 1..f /\ \A j \in 1..f : e.filters[j] \in D
      /\ ToSet(e.filters) \subseteq D
  BY <1>1 DEF ToSet
<1>4. Len(e.indexes) \in Nat /\ DOMAIN e.indexes = 1..Len(e.indexes)
      /\ \A j \in 1..Len(e.indexes) : e.indexes[j] \in Seq(ToSet(e.filters))
  BY <1>1
<1>8. DOMAIN L = 1..(f + 1 + Len(e.indexes))
  BY <1>2
<1> HIDE DEF f
<1>9. /\ f + 1 \in DOMAIN L
      /\ \A j \in 1..f : j \in DOMAIN L
      /\ \A j \in 1..Len(e.indexes) : f + 1 + j \in DOMAIN L
  <2>1. f \in Nat /\ Len(e.indexes) \in Nat
    BY <1>3, <1>4
  <2>2. ASSUME NEW a \in Nat, NEW b \in Nat
        PROVE  /\ a + 1 \in 1..(a + 1 + b)
               /\ \A j \in 1..a : j \in 1..(a + 1 + b)
               /\ \A j \in 1..b : a + 1 + j \in 1..(a + 1 + b)
    OBVIOUS
  <2> QED
    BY ONLY <2>1, <2>2, <1>8
<1> USE DEF f
<1> SUFFICES \E l \in DOMAIN L : \E p \in Seq(D) :
                 NoRepeats(p) /\ ToSet(p) = eq /\ L[l] = p \o Outside(e.sort, eq)
  BY DEF L, D
<1>5. CASE eq = {}
  <2>1. Outside(e.sort, {}) = e.sort
    BY SMTT(20), <1>1, OutsideFacts
  <2>2. << >> \in Seq(D) /\ NoRepeats(<< >>) /\ ToSet(<< >>) = {}
    BY DEF NoRepeats, ToSet
  <2>3. << >> \o e.sort = e.sort
    BY <1>1
  <2> QED
    BY <1>2, <1>5, <1>9, <2>1, <2>2, <2>3
<1>6. ASSUME NEW j \in 1..f, eq = {e.filters[j]}
      PROVE  \E l \in DOMAIN L : \E p \in Seq(D) :
                 NoRepeats(p) /\ ToSet(p) = eq /\ L[l] = p \o Outside(e.sort, eq)
  <2> DEFINE p == <<e.filters[j]>>
  <2>1. p \in Seq(D) /\ NoRepeats(p) /\ ToSet(p) = eq
    <3>1. p \in Seq(D) /\ DOMAIN p = {1}
      BY <1>3
    <3> QED
      BY <1>6, <3>1 DEF NoRepeats, ToSet
  <2>2. L[j] = p \o Outside(e.sort, eq)
    BY <1>2, <2>1 DEF PrefixWithSortKeys
  <2> HIDE DEF p
  <2> QED
    BY <1>9, <2>1, <2>2
<1>7. ASSUME NEW j \in 1..Len(e.indexes), eq = ToSet(e.indexes[j])
      PROVE  \E l \in DOMAIN L : \E p \in Seq(D) :
                 NoRepeats(p) /\ ToSet(p) = eq /\ L[l] = p \o Outside(e.sort, eq)
  <2> DEFINE p == e.indexes[j]
  <2>1. p \in Seq(D) /\ NoRepeats(p)
    <3>1. p \in Seq(D)
      BY <1>3, <1>4
    <3>2. p \in ToSet(e.indexes)
      BY <1>4 DEF ToSet
    <3> QED
      BY <1>1, <3>1, <3>2 DEF NoRepeats
  <2>2. L[f + 1 + j] = p \o Outside(e.sort, eq)
    BY <1>2, <1>7 DEF PrefixWithSortKeys
  <2>3. ToSet(p) = eq
    BY <1>7
  <2> HIDE DEF p
  <2> QED
    BY <1>9, <2>1, <2>2, <2>3
<1> QED
  <2>1. \/ eq = {} \/ \E j \in 1..f : eq = {e.filters[j]}
        \/ \E j \in 1..Len(e.indexes) : eq = ToSet(e.indexes[j])
    BY <1>3, <1>4 DEF Lookups, ToSet
  <2> QED
    BY <1>5, <1>6, <1>7, <2>1

(* A lookup that is declared has its index once everything is written. *)
LEMMA LookupSeeks ==
    ASSUME IInv, Written, NEW e \in ToSet(schema), NEW eq \in Lookups(e)
    PROVE  Seeks(e, eq)
<1>1. schema \in Schemas /\ PastServed /\ NoneTwice
  BY DEF IInv, Emitting
<1>2. Past = Positions(schema)
  BY DEF Past, Written
<1> PICK i \in DOMAIN schema : e = schema[i]
  BY DEF ToSet
<1>3. AcceptedEntity(e, schema)
  BY <1>1, SchemaFacts
<1> DEFINE D == DOMAIN e.columns
           left == Outside(e.sort, eq)
<1>4. PICK l \in DOMAIN IndexColumnLists(e) : \E p \in Seq(D) :
          NoRepeats(p) /\ ToSet(p) = eq /\ IndexColumnLists(e)[l] = p \o left
  BY <1>3, LookupHasList
<1>5. PICK p \in Seq(D) : NoRepeats(p) /\ ToSet(p) = eq /\ IndexColumnLists(e)[l] = p \o left
  BY <1>4
<1> DEFINE cols == p \o left
           ix == ColumnNames(e, cols)
<1>6. left \in Seq(D)
  <2>1. e.sort \in Seq(D)
    BY <1>3 DEF AcceptedEntity
  <2> HIDE DEF D
  <2>2. left \in Seq(D \ eq)
    BY <2>1, OutsideFacts
  <2> HIDE DEF left
  <2> QED
    BY <2>2
<1>7. ix \in IndexesOf(e)
  <2>1. <<i, l>> \in Past
    BY <1>2, InPositions
  <2>2. List(i, l) = cols
    BY <1>5 DEF List
  <2>3. CASE cols = <<e.pk>>
    BY <1>3, <2>3, NamesTellColumns DEF IndexesOf
  <2>4. CASE \E j \in Indexes : IndexOf(file[j], <<i, l>>)
    <3>1. PICK j \in Indexes : IndexOf(file[j], <<i, l>>)
      BY <2>4
    <3>2. file[j].table = e.table /\ file[j].columns = ix
      BY <2>2, <3>1 DEF IndexOf
    <3> QED
      BY <3>2 DEF IndexesOf
  <2> QED
    BY <1>1, <2>1, <2>2, <2>3, <2>4 DEF PastServed
<1> HIDE DEF left
<1>8. /\ cols \in Seq(D) /\ Len(cols) = Len(p) + Len(left) /\ Len(p) \in Nat /\ Len(left) \in Nat
      /\ DOMAIN cols = 1..Len(cols) /\ DOMAIN left = 1..Len(left) /\ DOMAIN p = 1..Len(p)
      /\ \A j \in 1..Len(p) : cols[j] = p[j]
      /\ \A j \in 1..Len(left) : cols[Len(p) + j] = left[j]
  <2> HIDE DEF D
  <2> QED
    BY <1>5, <1>6, Concat
<1> HIDE DEF cols
<1>9. Cardinality(eq) = Len(p)
  BY <1>5, LenIsCardinality
<1>10. ix = [j \in 1..Len(cols) |-> Column(e, cols[j])] /\ Len(ix) = Len(cols)
  BY <1>8 DEF ColumnNames
<1>11. {ix[j] : j \in 1..Len(p)} = {Column(e, k) : k \in eq}
  <2>1. \A j \in 1..Len(p) : ix[j] = Column(e, p[j])
    BY <1>8, <1>10
  <2>2. eq = {p[j] : j \in 1..Len(p)}
    BY <1>5, <1>8 DEF ToSet
  <2> HIDE DEF ix
  <2> QED
    BY <2>1, <2>2
<1>12. \A j \in DOMAIN left : ix[Len(p) + j] = Column(e, left[j])
  BY <1>8, <1>10
<1> HIDE DEF ix
<1>13. /\ Len(ix) = Cardinality(eq) + Len(left)
       /\ {ix[j] : j \in 1..Cardinality(eq)} = {Column(e, k) : k \in eq}
       /\ \A j \in DOMAIN left : ix[Cardinality(eq) + j] = Column(e, left[j])
  <2>1. Len(ix) = Cardinality(eq) + Len(left)
    BY <1>8, <1>9, <1>10
  <2>2. {ix[j] : j \in 1..Cardinality(eq)} = {Column(e, k) : k \in eq}
    BY <1>9, <1>11
  <2>3. \A j \in DOMAIN left : ix[Cardinality(eq) + j] = Column(e, left[j])
    BY <1>9, <1>12
  <2> QED
    BY <2>1, <2>2, <2>3
<1> QED
  BY <1>7, <1>13 DEF left, Seeks

LEMMA AllSeeks == IInv => SeeksAreServed
<1> SUFFICES ASSUME IInv, Written PROVE SeeksAreServed
  BY DEF SeeksAreServed
<1>1. ASSUME NEW e \in ToSet(schema), NEW asked \in SUBSET ToSet(e.filters)
      PROVE  \E eq \in SUBSET asked : (asked # {} => eq # {}) /\ Seeks(e, eq)
  <2>1. CASE asked = {}
    <3>1. Seeks(e, {})
      BY LookupSeeks DEF Lookups
    <3> QED
      BY <2>1, <3>1
  <2>2. ASSUME NEW f \in asked
        PROVE  \E eq \in SUBSET asked : (asked # {} => eq # {}) /\ Seeks(e, eq)
    <3>1. {f} \in Lookups(e)
      BY DEF Lookups
    <3>2. Seeks(e, {f})
      BY <3>1, LookupSeeks
    <3> QED
      BY <3>2
  <2> QED
    BY <2>1, <2>2
<1>2. \A e \in ToSet(schema) : \A eq \in Lookups(e) : Seeks(e, eq)
  BY LookupSeeks
<1>3. \A i, j \in Indexes :
          i # j /\ file[i].table = file[j].table => file[i].columns # file[j].columns
  BY DEF IInv, NoneTwice
<1>4. \A j \in Indexes : \A e \in ToSet(schema) :
          file[j].table = e.table => file[j].columns # <<Column(e, e.pk)>>
  BY DEF IInv, NoneTwice, ToSet
<1> QED
  BY <1>1, <1>2, <1>3, <1>4 DEF SeeksAreServed

(* Once the migration is written, whatever filters a list combines, an index  *)
(* finds its rows in order by all of them or by one; declared combinations by *)
(* all.  No CREATE INDEX repeats another's columns or the primary key's.      *)
THEOREM SeeksServed == Spec => []SeeksAreServed
BY AllSeeks, Invariant, PTL
=============================================================================
