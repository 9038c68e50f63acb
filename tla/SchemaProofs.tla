---------------------------- MODULE SchemaProofs ----------------------------
(* Theorems about Schema, for every set of schema files that the YAML parser *)
(* can read.                                                                 *)
EXTENDS Schema, DataLemmas

-----------------------------------------------------------------------------
(* The documents, and the entities built from them *)

LEMMA DocFacts ==
    ASSUME doc \in Docs
    PROVE  /\ Len(doc) \in Nat /\ DOMAIN doc = 1..Len(doc)
           /\ \A i \in DOMAIN doc : doc[i] \in EntityDoc
           /\ \A i, j \in DOMAIN doc : doc[i].name = doc[j].name => i = j
           /\ \A i \in DOMAIN doc : \A j, k \in DOMAIN doc[i].fields :
                  doc[i].fields[j].name = doc[i].fields[k].name => j = k
<1>1. /\ doc \in Seq(EntityDoc)
      /\ \A i, j \in DOMAIN doc : doc[i].name = doc[j].name => i = j
      /\ \A i \in DOMAIN doc : \A j, k \in DOMAIN doc[i].fields :
             doc[i].fields[j].name = doc[i].fields[k].name => j = k
  BY DocsAssumption
<1>2. Len(doc) \in Nat /\ DOMAIN doc = 1..Len(doc) /\ \A i \in DOMAIN doc : doc[i] \in EntityDoc
  BY <1>1
<1> QED
  BY <1>1, <1>2

LEMMA EntityDocFacts ==
    ASSUME NEW e \in EntityDoc
    PROVE  /\ e.name \in Name /\ Len(e.fields) \in Nat /\ DOMAIN e.fields = 1..Len(e.fields)
           /\ \A k \in DOMAIN e.fields :
                  /\ e.fields[k].name \in Name
                  /\ e.fields[k].type \in FieldType \cup {"belongsTo", "unknown"}
                  /\ e.fields[k].values \in Seq(Name)
           /\ e.sort # Absent => e.sort \in Seq(Name \X BOOLEAN)
           /\ e.filters \in Seq(Name) /\ e.indexes \in Seq(Seq(Name))
<1>1. /\ e.name \in Name /\ e.fields \in Seq(FieldDoc)
      /\ e.sort # Absent => e.sort \in Seq(Name \X BOOLEAN)
      /\ e.filters \in Seq(Name) /\ e.indexes \in Seq(Seq(Name))
  BY DEF EntityDoc
<1>2. Len(e.fields) \in Nat /\ DOMAIN e.fields = 1..Len(e.fields)
      /\ \A k \in DOMAIN e.fields : e.fields[k] \in FieldDoc
  BY <1>1
<1>3. \A f \in FieldDoc : /\ f.name \in Name /\ f.type \in FieldType \cup {"belongsTo", "unknown"}
                          /\ f.values \in Seq(Name)
  BY DEF FieldDoc
<1> QED
  BY <1>1, <1>2, <1>3

EntityKeys == {"name", "goName", "table", "fields", "pk", "version", "desc", "sortNames", "filterNames",
               "indexNames", "endpoints", "pending", "relations", "sort", "filters", "indexes"}

FieldKeys == {"name", "column", "goName", "type", "flags", "nullable", "values", "enumGoType"}

LEMMA FieldFacts ==
    ASSUME NEW e, NEW f
    PROVE  LET b == BuildField(e, f) IN
           /\ DOMAIN b = FieldKeys
           /\ b.name = f.name
           /\ b.nullable <=> b.flags \cap {"required", "pk"} = {}
           /\ b.type = IF IsBelongsTo(f) THEN "uuid" ELSE f.type
           /\ b.values = IF f.type = "enum" THEN f.values ELSE << >>
           /\ b.enumGoType = IF f.type = "enum" /\ f.values # << >>
                             THEN GoName[e.name] \o GoName[f.name] ELSE << >>
BY DEF BuildField, FieldKeys

LEMMA EntityFacts ==
    ASSUME NEW e \in EntityDoc
    PROVE  LET b == Entity(e) IN
           /\ DOMAIN b = EntityKeys
           /\ b.name = e.name /\ b.goName = GoName[e.name]
           /\ b.fields = [k \in 1..Len(e.fields) |-> BuildField(e, e.fields[k])]
           /\ b.pk = TheOne(Marked(b.fields, "pk")) /\ b.version = TheOne(Marked(b.fields, "version"))
           /\ b.desc = IF e.sort = Absent THEN TRUE ELSE e.sort # << >> /\ e.sort[1][2]
           /\ b.sortNames = SortNames(e, b.fields)
           /\ b.filterNames = e.filters /\ b.indexNames = e.indexes
           /\ b.endpoints = IF e.endpoints = Absent THEN EndpointKind ELSE e.endpoints
           /\ b.pending = [k \in Pending(e) |-> [target |-> e.fields[k].target, onDelete |-> e.fields[k].onDelete]]
           /\ b.relations = {} /\ b.sort = << >> /\ b.filters = << >> /\ b.indexes = << >>
<1>1. DOMAIN e.fields = 1..Len(e.fields)
  BY EntityDocFacts
<1> DEFINE fs == [k \in 1..Len(e.fields) |-> BuildField(e, e.fields[k])]
<1>2. fs = [k \in DOMAIN e.fields |-> BuildField(e, e.fields[k])]
  BY <1>1
<1> QED
  BY <1>2 DEF Entity, EntityKeys

LEMMA MarkedFacts ==
    ASSUME NEW n \in Nat, NEW fs, DOMAIN fs = 1..n, NEW flag
    PROVE  LET M == Marked(fs, flag) IN
           /\ M \subseteq 1..n /\ IsFiniteSet(M) /\ Cardinality(M) \in Nat
           /\ TheOne(M) \in M \cup {0}
           /\ Cardinality(M) = 1 => M = {TheOne(M)} /\ TheOne(M) # 0
           /\ Cardinality(M) = 0 => M = {} /\ TheOne(M) = 0
<1> DEFINE M == Marked(fs, flag)
<1>1. M \subseteq 1..n
  BY DEF Marked
<1>2. IsFiniteSet(M) /\ Cardinality(M) \in Nat
  <2>1. IsFiniteSet(1..n)
    BY FS_Interval
  <2> HIDE DEF M
  <2>2. IsFiniteSet(M)
    BY <1>1, <2>1, FS_Subset
  <2> QED
    BY <2>2, FS_CardinalityType
<1> HIDE DEF M
<1>3. ASSUME Cardinality(M) = 1 PROVE M = {TheOne(M)} /\ TheOne(M) # 0
  <2>1. PICK x : M = {x}
    BY <1>2, <1>3, FS_Singleton
  <2>2. TheOne(M) \in M
    BY <1>3, <2>1 DEF TheOne
  <2> QED
    BY <1>1, <2>1, <2>2
<1>4. ASSUME Cardinality(M) = 0 PROVE M = {} /\ TheOne(M) = 0
  BY <1>2, <1>4, FS_EmptySet DEF TheOne
<1>5. TheOne(M) \in M \cup {0}
  BY <1>3 DEF TheOne
<1> QED
  BY <1>1, <1>2, <1>3, <1>4, <1>5 DEF M

(* sort.Slice: the same elements, in the order of their names. *)
LEMMA ByNameFacts ==
    ASSUME NEW n \in Nat, NEW s, DOMAIN s = 1..n, \A i \in 1..n : s[i].name \in Name,
           \A i, j \in 1..n : s[i].name = s[j].name => i = j
    PROVE  LET t == ByName(s) IN
           /\ DOMAIN t = 1..n
           /\ \A k \in 1..n : \E j \in 1..n : t[k] = s[j]
           /\ \A j \in 1..n : \E k \in 1..n : t[k] = s[j]
           /\ \A i, k \in 1..n : i < k => Rank[t[i].name] < Rank[t[k].name]
<1> DEFINE rank == [i \in 1..n |-> Rank[s[i].name]]
           place(j) == Place(n, rank, j)
           pos == [k \in 1..n |-> CHOOSE j \in 1..n : place(j) = k]
           t == ByName(s)
<1>1. rank \in [1..n -> Nat] /\ \A i \in 1..n : rank[i] = Rank[s[i].name]
  BY RankAssumption
<1>2. \A i, j \in 1..n : rank[i] = rank[j] => i = j
  BY <1>1, RankAssumption
<1>3. \A j \in 1..n : Cardinality({i \in DOMAIN s : Rank[s[i].name] <= Rank[s[j].name]}) = place(j)
  <2> SUFFICES ASSUME NEW j \in 1..n
               PROVE  {i \in DOMAIN s : Rank[s[i].name] <= Rank[s[j].name]} = {i \in 1..n : rank[i] <= rank[j]}
    BY DEF Place
  <2> QED
    BY <1>1
<1> HIDE DEF rank
<1>4. \A k \in 1..n : \E j \in 1..n : place(j) = k
  BY <1>1, <1>2, PlacesTaken
<1>5. \A k \in 1..n : pos[k] \in 1..n /\ place(pos[k]) = k
  <2> HIDE DEF place
  <2> QED
    BY <1>4
<1>6. \A j \in 1..n : place(j) \in 1..n
  BY <1>1, PlaceOrder
<1>7. \A i, j \in 1..n : rank[i] < rank[j] => place(i) < place(j)
  BY <1>1, PlaceOrder
<1>8. t = [k \in 1..n |-> s[pos[k]]]
  <2>1. \A k \in 1..n : pos[k] = CHOOSE j \in DOMAIN s :
            Cardinality({i \in DOMAIN s : Rank[s[i].name] <= Rank[s[j].name]}) = k
    BY <1>3
  <2> HIDE DEF pos, place
  <2>2. t = [k \in DOMAIN s |-> s[CHOOSE j \in DOMAIN s :
            Cardinality({i \in DOMAIN s : Rank[s[i].name] <= Rank[s[j].name]}) = k]]
    BY DEF ByName
  <2> QED
    BY <2>1, <2>2
<1> HIDE DEF pos, place, t
<1>9. ASSUME NEW i \in 1..n, NEW j \in 1..n, i # j PROVE place(i) # place(j)
  <2>1. rank[i] < rank[j] \/ rank[j] < rank[i]
    BY <1>1, <1>2, <1>9
  <2> QED
    BY <1>6, <1>7, <2>1
<1>10. DOMAIN t = 1..n /\ \A k \in 1..n : t[k] = s[pos[k]]
  BY <1>8
<1>11. ASSUME NEW j \in 1..n PROVE \E k \in 1..n : t[k] = s[j]
  <2>1. pos[place(j)] = j
    BY <1>5, <1>6, <1>9
  <2> QED
    BY <1>6, <1>10, <2>1
<1>12. ASSUME NEW i \in 1..n, NEW k \in 1..n, i < k PROVE Rank[t[i].name] < Rank[t[k].name]
  <2>1. ~(rank[pos[k]] < rank[pos[i]])
    BY <1>5, <1>7, <1>12
  <2>2. rank[pos[k]] # rank[pos[i]]
    BY <1>2, <1>5, <1>12
  <2> QED
    BY <1>1, <1>5, <1>10, <2>1, <2>2
<1> QED
  BY <1>5, <1>10, <1>11, <1>12 DEF t

-----------------------------------------------------------------------------
(* The types of keys: a fixed point, unless a chain of keys is a cycle *)

\* One round of KeyTypes, f[n - 1] being the round before.
KeyRound(n, f) ==
    [i \in DOMAIN schema |->
        LET e == schema[i]
            t == LookupEntity(e.pending[e.pk].target)
        IN  CASE e.pk = 0 -> "none"
              [] e.pk # 0 /\ e.pk \notin DOMAIN e.pending -> e.fields[e.pk].type
              [] OTHER ->
                   IF t = 0 THEN "uuid"
                   ELSE IF n = 0 THEN "pending"
                   ELSE IF f[n - 1][t] = "none" THEN "uuid" ELSE f[n - 1][t]]

LEMMA KeyRoundsExist ==
    ASSUME NEW m \in Nat
    PROVE  \E f : f = [n \in 0..m |-> KeyRound(n, f)]
<1> DEFINE T == {k \in Nat : \E f : f = [n \in 0..k |-> KeyRound(n, f)]}
<1>1. 0 \in T
  <2> DEFINE f == [n \in 0..0 |-> KeyRound(0, << >>)]
  <2>1. KeyRound(0, f) = KeyRound(0, << >>)
    BY DEF KeyRound
  <2>2. f = [n \in 0..0 |-> KeyRound(n, f)]
    <3>1. \A n \in 0..0 : KeyRound(n, f) = KeyRound(0, << >>)
      BY <2>1
    <3> QED
      BY <3>1
  <2> QED
    BY <2>2
<1>2. ASSUME NEW k \in Nat, k \in T PROVE k + 1 \in T
  <2>1. PICK f : f = [n \in 0..k |-> KeyRound(n, f)]
    BY <1>2
  <2> DEFINE g == [n \in 0..(k + 1) |-> IF n <= k THEN f[n] ELSE KeyRound(k + 1, f)]
  <2>2. ASSUME NEW n \in 0..(k + 1) PROVE g[n] = KeyRound(n, g)
    <3>1. CASE n <= k
      <4>1. g[n] = f[n] /\ f[n] = KeyRound(n, f)
        BY <2>1, <3>1
      <4>2. n # 0 => g[n - 1] = f[n - 1]
        BY <3>1
      <4> HIDE DEF g
      <4> QED
        BY <4>1, <4>2 DEF KeyRound
    <3>2. CASE n = k + 1
      <4>1. g[n] = KeyRound(n, f)
        BY <3>2
      <4>2. n # 0 /\ g[n - 1] = f[n - 1]
        BY <3>2
      <4> HIDE DEF g
      <4> QED
        BY <4>1, <4>2 DEF KeyRound
    <3> QED
      BY <3>1, <3>2
  <2>3. g = [n \in 0..(k + 1) |-> g[n]]
    OBVIOUS
  <2> HIDE DEF g
  <2>4. g = [n \in 0..(k + 1) |-> KeyRound(n, g)]
    BY <2>2, <2>3
  <2>5. \E h : h = [n \in 0..(k + 1) |-> KeyRound(n, h)]
    BY <2>4
  <2> QED
    BY <2>5
<1> HIDE DEF T
<1>3. m \in T
  BY <1>1, <1>2, NatByInduction
<1> QED
  BY <1>3 DEF T

LEMMA KeyTypesRounds ==
    ASSUME Len(schema) \in Nat
    PROVE  \E f : /\ \A n \in 0..Len(schema) : f[n] = KeyRound(n, f)
                  /\ KeyTypes = f[Len(schema)]
<1> DEFINE f == CHOOSE f : f = [n \in 0..Len(schema) |-> KeyRound(n, f)]
<1>1. f = [n \in 0..Len(schema) |-> KeyRound(n, f)]
  BY KeyRoundsExist
<1>2. KeyTypes = f[Len(schema)]
  BY DEF KeyTypes, KeyRound
<1> HIDE DEF f
<1>3. \A n \in 0..Len(schema) : f[n] = KeyRound(n, f)
  BY <1>1
<1> QED
  BY <1>2, <1>3

LEMMA LookupEntityFacts ==
    ASSUME NEW n
    PROVE  /\ LookupEntity(n) # 0 => LookupEntity(n) \in DOMAIN schema /\ schema[LookupEntity(n)].name = n
           /\ 0 \notin DOMAIN schema => (LookupEntity(n) = 0 <=> \A i \in DOMAIN schema : schema[i].name # n)
BY DEF LookupEntity

\* The entity that the key of entity i refers to.
KeyTarget(i) == LookupEntity(schema[i].pending[schema[i].pk].target)

Chained(i) == schema[i].pk # 0 /\ schema[i].pk \in DOMAIN schema[i].pending

LEMMA KeyRoundFacts ==
    ASSUME NEW n, NEW f, NEW i \in DOMAIN schema
    PROVE  /\ schema[i].pk = 0 => KeyRound(n, f)[i] = "none"
           /\ schema[i].pk # 0 /\ ~Chained(i) => KeyRound(n, f)[i] = schema[i].fields[schema[i].pk].type
           /\ Chained(i) /\ KeyTarget(i) = 0 => KeyRound(n, f)[i] = "uuid"
           /\ Chained(i) /\ KeyTarget(i) # 0 =>
                  KeyRound(n, f)[i] = IF n = 0 THEN "pending"
                                      ELSE IF f[n - 1][KeyTarget(i)] = "none" THEN "uuid"
                                      ELSE f[n - 1][KeyTarget(i)]
BY DEF KeyRound, Chained, KeyTarget

(* What resolvePendingRelations leaves: a key that refers to another entity   *)
(* has the type of that entity's key.                                         *)
LEMMA KeyTypesFacts ==
    ASSUME Len(schema) \in Nat, DOMAIN schema = 1..Len(schema), NEW i \in DOMAIN schema
    PROVE  /\ schema[i].pk = 0 => KeyTypes[i] = "none"
           /\ schema[i].pk # 0 /\ ~Chained(i) => KeyTypes[i] = schema[i].fields[schema[i].pk].type
           /\ Chained(i) /\ KeyTarget(i) = 0 => KeyTypes[i] = "uuid"
           /\ Chained(i) /\ KeyTarget(i) # 0 /\ KeyTypes[i] # "pending" =>
                  /\ KeyTypes[KeyTarget(i)] # "pending"
                  /\ KeyTypes[i] = IF KeyTypes[KeyTarget(i)] = "none" THEN "uuid" ELSE KeyTypes[KeyTarget(i)]
<1> DEFINE N == Len(schema)
<1>1. PICK f : (\A n \in 0..N : f[n] = KeyRound(n, f)) /\ KeyTypes = f[N]
  BY KeyTypesRounds
<1> DEFINE Stable(n) == \A j \in DOMAIN schema : f[n][j] # "pending" => f[n + 1][j] = f[n][j]
           T == {n \in 0..N : n < N => Stable(n)}
<1>2. \A j \in DOMAIN schema : KeyTarget(j) # 0 => KeyTarget(j) \in DOMAIN schema
  BY LookupEntityFacts DEF KeyTarget
<1>3. \A n \in 0..N : \A j \in DOMAIN schema :
          /\ schema[j].pk = 0 => f[n][j] = "none"
          /\ schema[j].pk # 0 /\ ~Chained(j) => f[n][j] = schema[j].fields[schema[j].pk].type
          /\ Chained(j) /\ KeyTarget(j) = 0 => f[n][j] = "uuid"
          /\ Chained(j) /\ KeyTarget(j) # 0 =>
                 f[n][j] = IF n = 0 THEN "pending"
                           ELSE IF f[n - 1][KeyTarget(j)] = "none" THEN "uuid" ELSE f[n - 1][KeyTarget(j)]
  BY <1>1, KeyRoundFacts
<1>4. \A j \in DOMAIN schema : schema[j].pk = 0 \/ (schema[j].pk # 0 /\ ~Chained(j)) \/ Chained(j)
  OBVIOUS
<1>5. 0 \in T
  <2> SUFFICES ASSUME 0 < N, NEW j \in DOMAIN schema, f[0][j] # "pending" PROVE f[0 + 1][j] = f[0][j]
    OBVIOUS
  <2>1. 0 \in 0..N /\ 0 + 1 \in 0..N
    OBVIOUS
  <2> QED
    BY <1>3, <1>4, <2>1
<1>6. ASSUME NEW n \in 0..N, n < N, n \in T PROVE n + 1 \in T
  <2> SUFFICES ASSUME n + 1 < N, NEW j \in DOMAIN schema, f[n + 1][j] # "pending"
               PROVE  f[(n + 1) + 1][j] = f[n + 1][j]
    BY <1>6
  <2>1. n + 1 \in 0..N /\ (n + 1) + 1 \in 0..N /\ n + 1 # 0 /\ (n + 1) + 1 # 0
        /\ (n + 1) - 1 = n /\ ((n + 1) + 1) - 1 = n + 1
    BY <1>6
  <2>2. CASE Chained(j) /\ KeyTarget(j) # 0
    <3>1. f[n + 1][j] = IF f[n][KeyTarget(j)] = "none" THEN "uuid" ELSE f[n][KeyTarget(j)]
      BY <1>3, <2>1, <2>2
    <3>2. f[(n + 1) + 1][j] = IF f[n + 1][KeyTarget(j)] = "none" THEN "uuid" ELSE f[n + 1][KeyTarget(j)]
      BY <1>3, <2>1, <2>2
    <3>3. f[n][KeyTarget(j)] # "pending"
      BY <3>1
    <3>4. f[n + 1][KeyTarget(j)] = f[n][KeyTarget(j)]
      BY <1>2, <1>6, <2>2, <3>3
    <3> QED
      BY <3>1, <3>2, <3>4
  <2>3. CASE ~(Chained(j) /\ KeyTarget(j) # 0)
    BY <1>3, <1>4, <2>1, <2>3
  <2> QED
    BY <2>2, <2>3
<1>7. 0..N \subseteq T
  <2> HIDE DEF T
  <2> QED
    BY <1>5, <1>6, UpToByInduction
<1>8. N \in 0..N
  OBVIOUS
<1>9. ASSUME Chained(i), KeyTarget(i) # 0, KeyTypes[i] # "pending"
      PROVE  /\ KeyTypes[KeyTarget(i)] # "pending"
             /\ KeyTypes[i] = IF KeyTypes[KeyTarget(i)] = "none" THEN "uuid" ELSE KeyTypes[KeyTarget(i)]
  <2>1. N # 0 /\ N - 1 \in 0..N /\ N - 1 < N /\ (N - 1) + 1 = N
    OBVIOUS
  <2>2. f[N][i] = IF f[N - 1][KeyTarget(i)] = "none" THEN "uuid" ELSE f[N - 1][KeyTarget(i)]
    BY <1>3, <1>8, <1>9, <2>1
  <2>3. f[N - 1][KeyTarget(i)] # "pending"
    BY <1>1, <1>9, <2>2
  <2>4. Stable(N - 1)
    BY <1>7, <2>1
  <2>5. f[N][KeyTarget(i)] = f[N - 1][KeyTarget(i)]
    BY <1>2, <1>9, <2>1, <2>3, <2>4
  <2> QED
    BY <1>1, <2>2, <2>3, <2>5
<1> QED
  BY <1>1, <1>3, <1>8, <1>9

-----------------------------------------------------------------------------
(* The inductive invariant *)

\* Entity a is the one built from document d, with what later passes fill in:
\* the types of its foreign keys, its relations and what its lists refer to.
SameEntity(a, d) ==
    /\ DOMAIN a = EntityKeys
    /\ \A x \in EntityKeys \ {"fields", "relations", "sort", "filters", "indexes"} : a[x] = Entity(d)[x]
    /\ DOMAIN a.fields = 1..Len(d.fields)
    /\ \A k \in 1..Len(d.fields) :
           /\ DOMAIN a.fields[k] = FieldKeys
           /\ \A x \in FieldKeys \ {"type"} : a.fields[k][x] = Entity(d).fields[k][x]
           /\ k \notin DOMAIN a.pending => a.fields[k].type = Entity(d).fields[k].type

\* The first pass: what is built, and from what.
Shape ==
    /\ doc \in Docs
    /\ pc \in {"build", "relations", "references", "parsed", "frozen", "accepted", "rejected"}
    /\ Len(built) \in Nat /\ DOMAIN built = 1..Len(built) /\ built \in Seq(ToSet(built))
    /\ Len(built) <= Len(doc)
    /\ \A i \in DOMAIN built : built[i] = Entity(doc[i])
    /\ pc = "build" => schema = << >>
    /\ pc # "build" => Len(built) = Len(doc) /\ Len(schema) = Len(doc)

\* The second pass works on the same entities, sorted by name.
Complete ==
    pc # "build" =>
        /\ DOMAIN schema = 1..Len(doc)
        /\ \A i \in DOMAIN schema : \E d \in DOMAIN doc : SameEntity(schema[i], doc[d])
        /\ \A d \in DOMAIN doc : \E i \in DOMAIN schema : SameEntity(schema[i], doc[d])
        /\ \A i, j \in DOMAIN schema : i < j => Rank[schema[i].name] < Rank[schema[j].name]

\* A relation is one of the foreign keys, and leads to an entity.
RelationsHold ==
    \A i \in DOMAIN schema : \A r \in schema[i].relations :
        /\ r.field \in DOMAIN schema[i].pending
        /\ r.target \in DOMAIN schema
        /\ r.name = schema[i].fields[r.field].name /\ r.goName = GoName[r.name]
        /\ r.nullable = schema[i].fields[r.field].nullable

\* What a list refers to is a field.
ReferencesHold ==
    \A i \in DOMAIN schema :
        /\ ToSet(schema[i].sort) \cup ToSet(schema[i].filters) \subseteq DOMAIN schema[i].fields
        /\ \A j \in DOMAIN schema[i].indexes : ToSet(schema[i].indexes[j]) \subseteq DOMAIN schema[i].fields

\* Every foreign key has its relation and the type of the key it refers to.
Linked(e) ==
    /\ {r.field : r \in e.relations} = DOMAIN e.pending
    /\ \A r \in e.relations :
           e.fields[r.field].type = schema[r.target].fields[schema[r.target].pk].type

\* No name of the sort is lost.
SortFound(e) ==
    /\ DOMAIN e.sort = DOMAIN e.sortNames /\ Len(e.sort) = Len(e.sortNames)
    /\ \A j \in DOMAIN e.sort : e.sort[j] \in DOMAIN e.fields /\ e.fields[e.sort[j]].name = e.sortNames[j]

\* What the absence of diagnostics says, pass by pass.
Judged ==
    /\ pc = "rejected" => diags # {}
    /\ pc \in {"frozen", "accepted"} => diags = {}
    /\ diags = {} =>
           /\ \A i \in DOMAIN built : EntityBreaks(doc[i], Entity(doc[i]).fields) = {}
           /\ pc # "build" => \A i, j \in DOMAIN schema : schema[i].table = schema[j].table => i = j
           /\ pc \in {"references", "parsed", "frozen", "accepted"} => \A i \in DOMAIN schema : Linked(schema[i])
           /\ pc \in {"parsed", "frozen", "accepted"} => \A i \in DOMAIN schema : SortFound(schema[i])

\* What Validate found.
Passed ==
    pc = "accepted" =>
        /\ \A i \in DOMAIN schema :
               LET e == schema[i] IN
               /\ ~SortWrong(e) /\ ~FilterWrong(e) /\ ~IndexWrong(e) /\ ~RelationWrong(e)
               /\ ~StructNamesWrong(e)
               /\ \A k \in MovingKeys(e) : <<e.name, k>> \in warned
        /\ \A d, c \in PackageDecls : d[1] = c[1] => d = c

IInv == Shape /\ Complete /\ RelationsHold /\ ReferencesHold /\ Judged /\ Passed

LEMMA WithRelationsFacts ==
    ASSUME NEW e, DOMAIN e = EntityKeys, NEW n \in Nat, DOMAIN e.fields = 1..n
    PROVE  LET a == WithRelations(e)
               done == {k \in DOMAIN e.pending : Resolvable(e, k)}
               target(k) == LookupEntity(e.pending[k].target)
           IN  /\ DOMAIN a = EntityKeys
               /\ \A x \in EntityKeys \ {"fields", "relations"} : a[x] = e[x]
               /\ a.fields = [k \in 1..n |-> IF k \in done /\ KeyTypes[target(k)] # "none"
                                             THEN [e.fields[k] EXCEPT !.type = KeyTypes[target(k)]]
                                             ELSE e.fields[k]]
               /\ a.relations = {[name |-> e.fields[k].name, goName |-> GoName[e.fields[k].name],
                                  field |-> k, target |-> target(k), nullable |-> e.fields[k].nullable,
                                  onDelete |-> e.pending[k].onDelete] : k \in done}
BY DEF WithRelations, EntityKeys

LEMMA RelationFields ==
    ASSUME NEW e, DOMAIN e = EntityKeys, NEW n \in Nat, DOMAIN e.fields = 1..n
    PROVE  LET a == WithRelations(e)
               target(k) == LookupEntity(e.pending[k].target)
               Typed(k) == k \in DOMAIN e.pending /\ Resolvable(e, k) /\ KeyTypes[target(k)] # "none"
           IN  /\ DOMAIN a.fields = 1..n
               /\ \A k \in 1..n :
                      /\ Typed(k) => a.fields[k] = [e.fields[k] EXCEPT !.type = KeyTypes[target(k)]]
                      /\ ~Typed(k) => a.fields[k] = e.fields[k]
<1> DEFINE done == {k \in DOMAIN e.pending : Resolvable(e, k)}
           target(k) == LookupEntity(e.pending[k].target)
<1>1. WithRelations(e).fields = [k \in 1..n |-> IF k \in done /\ KeyTypes[target(k)] # "none"
                                                THEN [e.fields[k] EXCEPT !.type = KeyTypes[target(k)]]
                                                ELSE e.fields[k]]
  BY WithRelationsFacts
<1>2. \A k : k \in done <=> k \in DOMAIN e.pending /\ Resolvable(e, k)
  OBVIOUS
<1> HIDE DEF done
<1> QED
  BY <1>1, <1>2

LEMMA WithReferencesFacts ==
    ASSUME NEW e, DOMAIN e = EntityKeys
    PROVE  LET a == WithReferences(e) IN
           /\ DOMAIN a = EntityKeys
           /\ \A x \in EntityKeys \ {"sort", "filters", "indexes"} : a[x] = e[x]
           /\ a.sort = Found(e, e.sortNames) /\ a.filters = Found(e, e.filterNames)
           /\ a.indexes = Outside([j \in DOMAIN e.indexNames |-> Found(e, e.indexNames[j])], {<< >>})
BY DEF WithReferences, EntityKeys

LEMMA BuiltFields ==
    ASSUME NEW e \in EntityDoc
    PROVE  LET b == Entity(e) IN
           /\ Len(e.fields) \in Nat /\ DOMAIN b.fields = 1..Len(e.fields) /\ DOMAIN e.fields = 1..Len(e.fields)
           /\ \A k \in 1..Len(e.fields) : b.fields[k] = BuildField(e, e.fields[k])
           /\ DOMAIN b.pending \subseteq 1..Len(e.fields)
           /\ \A k \in DOMAIN b.pending : e.fields[k].type = "belongsTo"
           /\ SameEntity(b, e)
<1> DEFINE b == Entity(e)
<1>1. /\ DOMAIN b = EntityKeys
      /\ b.fields = [k \in 1..Len(e.fields) |-> BuildField(e, e.fields[k])]
      /\ DOMAIN b.pending = Pending(e)
  BY EntityFacts
<1>2. Len(e.fields) \in Nat /\ DOMAIN e.fields = 1..Len(e.fields)
  BY EntityDocFacts
<1> HIDE DEF b
<1>3. DOMAIN b.fields = 1..Len(e.fields) /\ \A k \in 1..Len(e.fields) : b.fields[k] = BuildField(e, e.fields[k])
  BY <1>1
<1>4. \A k \in 1..Len(e.fields) : DOMAIN b.fields[k] = FieldKeys
  BY <1>3, FieldFacts
<1>5. DOMAIN b.pending \subseteq 1..Len(e.fields) /\ \A k \in DOMAIN b.pending : e.fields[k].type = "belongsTo"
  BY <1>1, <1>2 DEF Pending, IsBelongsTo
<1>6. SameEntity(b, e)
  BY <1>1, <1>3, <1>4 DEF SameEntity, b
<1> QED
  BY <1>2, <1>3, <1>5, <1>6 DEF b

LEMMA BreaksOfEntity ==
    ASSUME NEW e, NEW fs, EntityBreaks(e, fs) = {}
    PROVE  /\ UNION {FieldBreaks(f) : f \in ToSet(e.fields)} = {}
           /\ CollisionBreaks(fs) = {} /\ PKBreaks(fs) = {} /\ VersionBreaks(fs) = {} /\ UnfillableBreaks(fs) = {}
           /\ SortBreaks(e.sort) = {} /\ EndpointBreaks(e.endpoints) = {}
<1>1. \A x \in UNION {FieldBreaks(f) : f \in ToSet(e.fields)} : x \in EntityBreaks(e, fs)
  BY Zenon DEF EntityBreaks
<1>2. \A x \in CollisionBreaks(fs) : x \in EntityBreaks(e, fs)
  BY Zenon DEF EntityBreaks
<1>3. \A x \in PKBreaks(fs) : x \in EntityBreaks(e, fs)
  BY Zenon DEF EntityBreaks
<1>4. \A x \in VersionBreaks(fs) : x \in EntityBreaks(e, fs)
  BY Zenon DEF EntityBreaks
<1>5. \A x \in UnfillableBreaks(fs) : x \in EntityBreaks(e, fs)
  BY Zenon DEF EntityBreaks
<1>6. \A x \in SortBreaks(e.sort) : x \in EntityBreaks(e, fs)
  BY Zenon DEF EntityBreaks
<1>7. \A x \in EndpointBreaks(e.endpoints) : x \in EntityBreaks(e, fs)
  BY Zenon DEF EntityBreaks
<1> QED
  BY <1>1, <1>2, <1>3, <1>4, <1>5, <1>6, <1>7

(* What the first pass has checked once it reports nothing. *)
LEMMA CleanEntity ==
    ASSUME NEW e \in EntityDoc, EntityBreaks(e, Entity(e).fields) = {}
    PROVE  LET b == Entity(e)
               n == Len(e.fields)
           IN  /\ Marked(b.fields, "pk") = {b.pk} /\ b.pk \in 1..n
               /\ Marked(b.fields, "version") = {b.version} \ {0}
               /\ \A k \in 1..n : /\ b.fields[k].flags \cap {"pk", "version", "default"} = {}
                                  /\ "readonly" \in b.fields[k].flags
                                  => b.fields[k].nullable
               /\ \A j, k \in 1..n : b.fields[j].column = b.fields[k].column => j = k
               /\ e.sort # Absent => /\ e.sort # << >>
                                     /\ \A k \in DOMAIN e.sort : e.sort[k][2] = e.sort[1][2]
                                     /\ ~Twice([k \in DOMAIN e.sort |-> e.sort[k][1]])
               /\ e.endpoints # Absent => ~Twice(e.endpoints)
               /\ \A k \in 1..n : /\ e.fields[k].type \in FieldType \cup {"belongsTo"}
                                  /\ e.fields[k].type = "enum" => e.fields[k].values # << >>
                                  /\ \A v \in ToSet(b.fields[k].values) : GoName[v] # << >>
<1> DEFINE b == Entity(e)
           fs == b.fields
           n == Len(e.fields)
<1>1. /\ n \in Nat /\ DOMAIN fs = 1..n /\ DOMAIN e.fields = 1..n
      /\ \A k \in 1..n : fs[k] = BuildField(e, e.fields[k])
      /\ b.pk = TheOne(Marked(fs, "pk")) /\ b.version = TheOne(Marked(fs, "version"))
  BY BuiltFields, EntityFacts
<1>2. /\ \A f \in ToSet(e.fields) : FieldBreaks(f) = {}
      /\ CollisionBreaks(fs) = {} /\ PKBreaks(fs) = {} /\ VersionBreaks(fs) = {} /\ UnfillableBreaks(fs) = {}
      /\ SortBreaks(e.sort) = {} /\ EndpointBreaks(e.endpoints) = {}
  <2>1. EntityBreaks(e, fs) = {}
    OBVIOUS
  <2> HIDE DEF fs
  <2>2. /\ UNION {FieldBreaks(f) : f \in ToSet(e.fields)} = {}
        /\ CollisionBreaks(fs) = {} /\ PKBreaks(fs) = {} /\ VersionBreaks(fs) = {} /\ UnfillableBreaks(fs) = {}
        /\ SortBreaks(e.sort) = {} /\ EndpointBreaks(e.endpoints) = {}
    BY <2>1, BreaksOfEntity
  <2>3. ASSUME NEW f \in ToSet(e.fields) PROVE FieldBreaks(f) = {}
    <3>1. FieldBreaks(f) \subseteq UNION {FieldBreaks(g) : g \in ToSet(e.fields)}
      OBVIOUS
    <3> QED
      BY <2>2, <3>1
  <2> QED
    BY <2>2, <2>3
<1> HIDE DEF fs, b
<1>3. \A rule, holds : When(rule, holds) = {} => ~holds
  BY DEF When
<1>4. Marked(fs, "pk") = {b.pk} /\ b.pk \in 1..n
  <2>1. Cardinality(Marked(fs, "pk")) = 1
    BY <1>2 DEF PKBreaks, When
  <2> QED
    BY <1>1, <2>1, MarkedFacts
<1>5. Marked(fs, "version") = {b.version} \ {0}
  <2>1. ~(Cardinality(Marked(fs, "version")) > 1)
    BY <1>2 DEF VersionBreaks, When
  <2>2. Cardinality(Marked(fs, "version")) \in Nat
    BY <1>1, MarkedFacts
  <2>3. Cardinality(Marked(fs, "version")) \in {0, 1}
    BY <2>1, <2>2
  <2> QED
    BY <1>1, <2>3, MarkedFacts
<1>6. \A k \in 1..n : fs[k].flags \cap {"pk", "version", "default"} = {} /\ "readonly" \in fs[k].flags
                      => fs[k].nullable
  BY <1>1, <1>2 DEF UnfillableBreaks, When
<1>7. \A j, k \in 1..n : fs[j].column = fs[k].column => j = k
  <2>1. ~Twice([k \in DOMAIN fs |-> fs[k].column])
    BY <1>2 DEF CollisionBreaks, When
  <2>2. \A j, k \in 1..n : j < k => fs[j].column # fs[k].column
    BY <1>1, <2>1 DEF Twice
  <2> QED
    BY <1>1, <2>2
<1>8. e.sort # Absent => /\ e.sort # << >>
                         /\ \A k \in DOMAIN e.sort : e.sort[k][2] = e.sort[1][2]
                         /\ ~Twice([k \in DOMAIN e.sort |-> e.sort[k][1]])
  BY <1>2 DEF SortBreaks, When
<1>9. e.endpoints # Absent => ~Twice(e.endpoints)
  BY <1>2 DEF EndpointBreaks, When
<1>10. ASSUME NEW k \in 1..n
       PROVE  /\ e.fields[k].type \in FieldType \cup {"belongsTo"}
              /\ e.fields[k].type = "enum" => e.fields[k].values # << >>
              /\ \A v \in ToSet(fs[k].values) : GoName[v] # << >>
  <2> DEFINE f == e.fields[k]
  <2>1. FieldBreaks(f) = {}
    BY <1>1, <1>2 DEF ToSet
  <2>2. f.type \in FieldType \cup {"belongsTo", "unknown"}
    BY <1>1, EntityDocFacts
  <2>3. fs[k].values = IF f.type = "enum" THEN f.values ELSE << >>
    BY <1>1, FieldFacts
  <2> HIDE DEF f
  <2>4. f.type # "belongsTo" => /\ f.type # "unknown"
                                /\ f.type = "enum" => f.values # << >>
                                /\ \A v \in ToSet(f.values) : GoName[v] # << >>
    BY <2>1 DEF FieldBreaks, IsBelongsTo, When
  <2>5. ToSet(<< >>) = {}
    BY DEF ToSet
  <2> QED
    BY <2>2, <2>3, <2>4, <2>5 DEF f
<1> QED
  BY <1>4, <1>5, <1>6, <1>7, <1>8, <1>9, <1>10 DEF fs, b

-----------------------------------------------------------------------------
(* The steps: the first pass *)

LEMMA LengthIs ==
    ASSUME NEW n \in Nat, NEW f, f = [k \in 1..n |-> f[k]]
    PROVE  f \in Seq(ToSet(f)) /\ Len(f) = n
<1>1. f \in [1..n -> ToSet(f)]
  BY DEF ToSet
<1>2. f \in Seq(ToSet(f))
  BY <1>1
<1> QED
  BY <1>1, <1>2

LEMMA Starts == Init => IInv
<1> SUFFICES ASSUME Init PROVE IInv
  OBVIOUS
<1>1. DOMAIN built = {} /\ Len(built) = 0 /\ DOMAIN schema = {} /\ << >> \in Seq(ToSet(<< >>)) /\ 1..0 = {}
  BY DEF Init
<1>2. Len(doc) \in Nat
  BY DocFacts DEF Init
<1>3. Shape
  BY <1>1, <1>2 DEF Init, Shape
<1>4. Complete /\ RelationsHold /\ ReferencesHold /\ Judged /\ Passed
  BY <1>1 DEF Init, Complete, RelationsHold, ReferencesHold, Judged, Passed
<1> QED
  BY <1>3, <1>4 DEF IInv

LEMMA Building == IInv /\ BuildEntity => IInv'
<1> SUFFICES ASSUME IInv, BuildEntity PROVE IInv'
  OBVIOUS
<1> USE DEF IInv
<1> DEFINE n == Len(built)
<1>1. /\ doc' = doc /\ schema' = schema /\ pc' = pc /\ pc = "build" /\ n < Len(doc)
      /\ built' = Append(built, Entity(doc[n + 1]))
      /\ diags' = diags \cup {<<doc[n + 1].name, r>> : r \in EntityBreaks(doc[n + 1], Entity(doc[n + 1]).fields)}
  BY DEF BuildEntity
<1>2. /\ doc \in Docs /\ n \in Nat /\ DOMAIN built = 1..n /\ built \in Seq(ToSet(built))
      /\ \A i \in 1..n : built[i] = Entity(doc[i])
      /\ schema = << >>
  BY <1>1 DEF Shape
<1> HIDE DEF n
<1>3. /\ built' \in Seq(ToSet(built')) /\ Len(built') = n + 1 /\ DOMAIN built' = 1..(n + 1)
      /\ \A j \in 1..n : built'[j] = built[j]
      /\ built'[n + 1] = Entity(doc[n + 1])
  BY <1>1, <1>2, Appending DEF n
<1>4. \A i \in 1..(n + 1) : built'[i] = Entity(doc[i])
  <2>1. \A i \in 1..(n + 1) : i \in 1..n \/ i = n + 1
    BY <1>2
  <2> QED
    BY <1>2, <1>3, <2>1
<1>5. Len(doc) \in Nat /\ n + 1 <= Len(doc)
  BY <1>1, <1>2, DocFacts
<1>6. Shape'
  BY <1>1, <1>2, <1>3, <1>4, <1>5 DEF Shape
<1>7. DOMAIN schema' = {}
  BY <1>1, <1>2
<1>8. Complete' /\ RelationsHold' /\ ReferencesHold' /\ Passed'
  BY <1>1, <1>7 DEF Complete, RelationsHold, ReferencesHold, Passed
<1>9. Judged'
  <2> SUFFICES ASSUME diags' = {}
               PROVE  \A i \in 1..(n + 1) : EntityBreaks(doc[i], Entity(doc[i]).fields) = {}
    BY <1>1, <1>3 DEF Judged
  <2>1. diags = {} /\ EntityBreaks(doc[n + 1], Entity(doc[n + 1]).fields) = {}
    BY <1>1
  <2>2. \A i \in 1..n : EntityBreaks(doc[i], Entity(doc[i]).fields) = {}
    BY <1>2, <2>1 DEF Judged
  <2>3. \A i \in 1..(n + 1) : i \in 1..n \/ i = n + 1
    BY <1>2
  <2> QED
    BY <2>1, <2>2, <2>3
<1> QED
  BY <1>6, <1>8, <1>9

LEMMA NothingToBuild == IInv /\ NoEntities => IInv'
<1> SUFFICES ASSUME IInv, NoEntities PROVE IInv'
  OBVIOUS
<1>1. /\ doc = << >> /\ pc = "build" /\ pc' = "rejected" /\ diags' # {}
      /\ doc' = doc /\ built' = built /\ schema' = schema /\ schema = << >> /\ doc \in Docs
      /\ Len(built) \in Nat /\ DOMAIN built = 1..Len(built) /\ built \in Seq(ToSet(built)) /\ Len(built) <= Len(doc)
      /\ \A i \in DOMAIN built : built[i] = Entity(doc[i])
  BY DEF NoEntities, IInv, Shape
<1>2. DOMAIN schema' = {} /\ DOMAIN doc = {} /\ Len(doc) = 0 /\ 1..0 = {} /\ Len(schema') = 0 /\ Len(built) = 0
  BY <1>1
<1>3. Shape'
  BY <1>1, <1>2 DEF Shape
<1>4. Complete' /\ RelationsHold' /\ ReferencesHold' /\ Judged' /\ Passed'
  BY <1>1, <1>2 DEF Complete, RelationsHold, ReferencesHold, Judged, Passed
<1> QED
  BY <1>3, <1>4 DEF IInv

LEMMA Sorting == IInv /\ CheckTablesAndSort => IInv'
<1> SUFFICES ASSUME IInv, CheckTablesAndSort PROVE IInv'
  OBVIOUS
<1> DEFINE n == Len(doc)
           Repeated == {<<built[j].name, "duplicate table">> :
                            j \in {j \in DOMAIN built : \E i \in 1..(j - 1) : built[i].table = built[j].table}}
<1>1. /\ doc' = doc /\ built' = built /\ schema' = ByName(built) /\ pc = "build" /\ pc' = "relations"
      /\ Len(built) = n /\ diags' = diags \cup Repeated
  BY DEF CheckTablesAndSort
<1>2. /\ doc \in Docs /\ DOMAIN built = 1..n /\ built \in Seq(ToSet(built))
      /\ \A i \in 1..n : built[i] = Entity(doc[i])
  BY <1>1 DEF Shape, IInv
<1>3. /\ n \in Nat /\ DOMAIN doc = 1..n /\ \A i \in 1..n : doc[i] \in EntityDoc
      /\ \A i, j \in 1..n : doc[i].name = doc[j].name => i = j
  BY <1>2, DocFacts
<1> HIDE DEF n, Repeated
<1>4. \A i \in 1..n : /\ built[i].name = doc[i].name /\ built[i].name \in Name /\ built[i].relations = {}
                      /\ built[i].sort = << >> /\ built[i].filters = << >> /\ built[i].indexes = << >>
                      /\ SameEntity(built[i], doc[i])
  <2> SUFFICES ASSUME NEW d \in EntityDoc
               PROVE  /\ Entity(d).name = d.name /\ d.name \in Name /\ Entity(d).relations = {}
                      /\ Entity(d).sort = << >> /\ Entity(d).filters = << >> /\ Entity(d).indexes = << >>
                      /\ SameEntity(Entity(d), d)
    BY <1>2, <1>3
  <2> QED
    BY EntityFacts, EntityDocFacts, BuiltFields
<1>5. /\ DOMAIN schema' = 1..n
      /\ \A k \in 1..n : \E j \in 1..n : schema'[k] = built[j]
      /\ \A j \in 1..n : \E k \in 1..n : schema'[k] = built[j]
      /\ \A i, k \in 1..n : i < k => Rank[schema'[i].name] < Rank[schema'[k].name]
  <2>1. (\A i \in 1..n : built[i].name \in Name) /\ \A i, j \in 1..n : built[i].name = built[j].name => i = j
    BY <1>3, <1>4
  <2>2. DOMAIN built = 1..n
    BY <1>2
  <2> QED
    <3> DEFINE t == ByName(built)
    <3>1. n \in Nat
      BY <1>3
    <3>2. /\ DOMAIN t = 1..n
          /\ \A k \in 1..n : \E j \in 1..n : t[k] = built[j]
          /\ \A j \in 1..n : \E k \in 1..n : t[k] = built[j]
          /\ \A i, k \in 1..n : i < k => Rank[t[i].name] < Rank[t[k].name]
      BY ONLY <3>1, <2>1, <2>2, ByNameFacts
    <3> HIDE DEF t
    <3>3. schema' = t
      BY <1>1 DEF t
    <3> QED
      BY <3>2, <3>3
<1>6. Len(schema') = n
  <2>1. schema' = [k \in 1..n |-> schema'[k]]
    BY <1>1, <1>2 DEF ByName
  <2> QED
    BY <1>3, <2>1, LengthIs
<1>7. Shape'
  BY <1>1, <1>2, <1>3, <1>6 DEF Shape, n
<1>8. Complete'
  <2>1. \A i \in 1..n : \E d \in 1..n : SameEntity(schema'[i], doc[d])
    BY <1>4, <1>5
  <2>2. \A d \in 1..n : \E i \in 1..n : SameEntity(schema'[i], doc[d])
    BY <1>4, <1>5
  <2>3. doc' = doc /\ Len(doc) = n
    BY <1>1 DEF n
  <2> QED
    BY ONLY <1>3, <1>5, <2>1, <2>2, <2>3 DEF Complete
<1>9. RelationsHold' /\ ReferencesHold'
  <2>1. ToSet(<< >>) = {}
    BY DEF ToSet
  <2>2. \A k \in 1..n : /\ schema'[k].relations = {} /\ schema'[k].sort = << >> /\ schema'[k].filters = << >>
                        /\ schema'[k].indexes = << >>
    <3> SUFFICES ASSUME NEW k \in 1..n
                 PROVE  /\ schema'[k].relations = {} /\ schema'[k].sort = << >> /\ schema'[k].filters = << >>
                        /\ schema'[k].indexes = << >>
      OBVIOUS
    <3>1. PICK j \in 1..n : schema'[k] = built[j]
      BY <1>5
    <3> QED
      BY <1>4, <3>1
  <2>3. RelationsHold'
    BY <1>5, <2>2 DEF RelationsHold
  <2>4. ReferencesHold'
    <3>1. \A k \in DOMAIN schema' : /\ ToSet(schema'[k].sort) = {} /\ ToSet(schema'[k].filters) = {}
                                    /\ DOMAIN schema'[k].indexes = {}
      <4>1. DOMAIN << >> = {}
        OBVIOUS
      <4> QED
        BY <1>5, <2>1, <2>2, <4>1, Zenon
    <3> QED
      BY <3>1 DEF ReferencesHold
  <2> QED
    BY <2>3, <2>4
<1>10. Judged' /\ Passed'
  <2>1. ASSUME diags' = {}
        PROVE  /\ \A i \in 1..n : EntityBreaks(doc[i], Entity(doc[i]).fields) = {}
               /\ \A i, j \in 1..n : schema'[i].table = schema'[j].table => i = j
    <3>1. diags = {} /\ Repeated = {}
      BY <1>1, <2>1
    <3>2. \A i \in 1..n : EntityBreaks(doc[i], Entity(doc[i]).fields) = {}
      BY <1>2, <3>1 DEF Judged, IInv
    <3>3. ASSUME NEW i \in 1..n, NEW j \in 1..n, i < j PROVE built[i].table # built[j].table
      <4>1. i \in 1..(j - 1)
        BY <1>3, <3>3
      <4> QED
        BY <1>2, <3>1, <4>1 DEF Repeated
    <3>4. ASSUME NEW a \in 1..n, NEW b \in 1..n, built[a].table = built[b].table PROVE a = b
      <4>1. ~(a < b) /\ ~(b < a)
        BY <3>3, <3>4
      <4> QED
        BY <1>3, <4>1
    <3>5. ASSUME NEW i \in 1..n, NEW j \in 1..n, schema'[i].table = schema'[j].table PROVE i = j
      <4>1. PICK a \in 1..n : schema'[i] = built[a]
        BY <1>5
      <4>2. PICK b \in 1..n : schema'[j] = built[b]
        BY <1>5
      <4>3. schema'[i] = schema'[j]
        BY <3>4, <3>5, <4>1, <4>2
      <4>4. ~(Rank[schema'[i].name] < Rank[schema'[j].name]) /\ ~(Rank[schema'[j].name] < Rank[schema'[i].name])
        <5>1. Rank[schema'[i].name] \in Nat /\ Rank[schema'[i].name] = Rank[schema'[j].name]
          BY <1>4, <4>1, <4>3, RankAssumption
        <5> QED
          BY <5>1
      <4>5. ~(i < j) /\ ~(j < i)
        BY <1>5, <4>4
      <4> QED
        BY <1>3, <4>5
    <3> QED
      BY <3>2, <3>5
  <2>2. Judged'
    BY <1>1, <1>2, <1>5, <2>1 DEF Judged
  <2> QED
    BY <1>1, <2>2 DEF Passed
<1> QED
  BY <1>7, <1>8, <1>9, <1>10 DEF IInv

-----------------------------------------------------------------------------
(* The steps: the second pass *)

LEMMA SchemaFacts ==
    ASSUME IInv, pc # "build"
    PROVE  /\ doc \in Docs /\ Len(doc) \in Nat /\ DOMAIN doc = 1..Len(doc)
           /\ Len(schema) = Len(doc) /\ DOMAIN schema = 1..Len(doc) /\ 0 \notin DOMAIN schema
           /\ \A d \in DOMAIN doc : doc[d] \in EntityDoc
           /\ \A i \in DOMAIN schema : \E d \in DOMAIN doc : SameEntity(schema[i], doc[d])
           /\ \A i, j \in DOMAIN schema : i < j => Rank[schema[i].name] < Rank[schema[j].name]
<1>1. doc \in Docs
  BY DEF IInv, Shape
<1>2. Len(doc) \in Nat /\ DOMAIN doc = 1..Len(doc) /\ \A d \in DOMAIN doc : doc[d] \in EntityDoc
  BY <1>1, DocFacts
<1>3. Len(schema) = Len(doc) /\ DOMAIN schema = 1..Len(doc)
  BY DEF IInv, Shape, Complete
<1>4. 0 \notin DOMAIN schema
  BY <1>2, <1>3
<1> QED
  BY <1>1, <1>2, <1>3, <1>4 DEF IInv, Complete

LEMMA SameEntityFacts ==
    ASSUME NEW d \in EntityDoc, NEW a, SameEntity(a, d)
    PROVE  /\ DOMAIN a = EntityKeys /\ a.name = d.name /\ d.name \in Name /\ a.goName = GoName[d.name]
           /\ a.pk = Entity(d).pk /\ a.version = Entity(d).version /\ a.table = Entity(d).table
           /\ a.pending = Entity(d).pending /\ a.desc = Entity(d).desc /\ a.endpoints = Entity(d).endpoints
           /\ a.sortNames = SortNames(d, Entity(d).fields) /\ a.filterNames = d.filters /\ a.indexNames = d.indexes
           /\ Len(d.fields) \in Nat /\ DOMAIN a.fields = 1..Len(d.fields) /\ 0 \notin DOMAIN a.fields
           /\ \A k \in 1..Len(d.fields) :
                  /\ DOMAIN a.fields[k] = FieldKeys
                  /\ a.fields[k].name = d.fields[k].name
                  /\ \A x \in FieldKeys \ {"type"} : a.fields[k][x] = BuildField(d, d.fields[k])[x]
                  /\ k \notin DOMAIN a.pending => a.fields[k].type = BuildField(d, d.fields[k]).type
           /\ \A flag : Marked(a.fields, flag) = Marked(Entity(d).fields, flag)
           /\ a.pk \in DOMAIN a.fields \cup {0} /\ a.version \in DOMAIN a.fields \cup {0}
           /\ DOMAIN a.pending \subseteq DOMAIN a.fields
           /\ \A k \in DOMAIN a.pending : d.fields[k].type = "belongsTo"
<1> DEFINE b == Entity(d)
           n == Len(d.fields)
<1>1. /\ DOMAIN a = EntityKeys
      /\ \A x \in EntityKeys \ {"fields", "relations", "sort", "filters", "indexes"} : a[x] = b[x]
      /\ DOMAIN a.fields = 1..n
      /\ \A k \in 1..n :
             /\ DOMAIN a.fields[k] = FieldKeys
             /\ \A x \in FieldKeys \ {"type"} : a.fields[k][x] = b.fields[k][x]
             /\ k \notin DOMAIN a.pending => a.fields[k].type = b.fields[k].type
  BY DEF SameEntity
<1>2. /\ n \in Nat /\ DOMAIN b.fields = 1..n /\ \A k \in 1..n : b.fields[k] = BuildField(d, d.fields[k])
      /\ DOMAIN b.pending \subseteq 1..n
      /\ \A k \in DOMAIN b.pending : d.fields[k].type = "belongsTo"
  BY BuiltFields
<1>3. /\ b.name = d.name /\ b.goName = GoName[d.name] /\ b.sortNames = SortNames(d, b.fields)
      /\ b.filterNames = d.filters /\ b.indexNames = d.indexes
      /\ b.pk = TheOne(Marked(b.fields, "pk")) /\ b.version = TheOne(Marked(b.fields, "version"))
  BY EntityFacts
<1>4. d.name \in Name
  BY EntityDocFacts
<1> HIDE DEF b, n
<1>5. /\ a.name = b.name /\ a.goName = b.goName /\ a.pk = b.pk /\ a.version = b.version /\ a.table = b.table
      /\ a.pending = b.pending /\ a.desc = b.desc /\ a.endpoints = b.endpoints /\ a.sortNames = b.sortNames
      /\ a.filterNames = b.filterNames /\ a.indexNames = b.indexNames
  BY <1>1 DEF EntityKeys
<1>6. \A k \in 1..n : /\ a.fields[k].name = d.fields[k].name
                      /\ \A x \in FieldKeys \ {"type"} : a.fields[k][x] = BuildField(d, d.fields[k])[x]
                      /\ k \notin DOMAIN a.pending => a.fields[k].type = BuildField(d, d.fields[k]).type
  <2> SUFFICES ASSUME NEW k \in 1..n
               PROVE  /\ a.fields[k].name = d.fields[k].name
                      /\ \A x \in FieldKeys \ {"type"} : a.fields[k][x] = BuildField(d, d.fields[k])[x]
                      /\ k \notin DOMAIN a.pending => a.fields[k].type = BuildField(d, d.fields[k]).type
    OBVIOUS
  <2>1. BuildField(d, d.fields[k]).name = d.fields[k].name
    BY FieldFacts
  <2>2. "name" \in FieldKeys \ {"type"}
    BY DEF FieldKeys
  <2> QED
    BY <1>1, <1>2, <2>1, <2>2
<1>7. ASSUME NEW flag PROVE Marked(a.fields, flag) = Marked(b.fields, flag)
  <2>1. \A k \in 1..n : a.fields[k].flags = b.fields[k].flags
    BY <1>1 DEF FieldKeys
  <2> QED
    BY <1>1, <1>2, <2>1 DEF Marked
<1>8. /\ b.pk \in 1..n \cup {0} /\ b.version \in 1..n \cup {0}
  BY <1>2, <1>3, MarkedFacts
<1>9. 0 \notin 1..n
  BY <1>2
<1> QED
  BY <1>1, <1>2, <1>3, <1>4, <1>5, <1>6, <1>7, <1>8, <1>9 DEF b, n

LEMMA Cleared ==
    ASSUME IInv, pc # "build", diags = {}, NEW i \in DOMAIN schema
    PROVE  \E d \in DOMAIN doc : /\ doc[d] \in EntityDoc /\ SameEntity(schema[i], doc[d])
                                 /\ EntityBreaks(doc[d], Entity(doc[d]).fields) = {}
<1>1. PICK d \in DOMAIN doc : SameEntity(schema[i], doc[d])
  BY SchemaFacts
<1>2. DOMAIN built = DOMAIN doc
  BY SchemaFacts DEF IInv, Shape
<1> QED
  BY <1>1, <1>2, SchemaFacts DEF IInv, Judged

AllResolvable == \A i \in DOMAIN schema : \A k \in DOMAIN schema[i].pending : Resolvable(schema[i], k)

(* A primary key has a type once every reference can be followed. *)
LEMMA KeyTyped ==
    ASSUME IInv, pc # "build", diags = {}, AllResolvable, NEW i \in DOMAIN schema
    PROVE  schema[i].pk \in DOMAIN schema[i].fields /\ schema[i].pk # 0 /\ KeyTypes[i] # "none"
<1> DEFINE a == schema[i]
<1>1. PICK d \in EntityDoc : SameEntity(a, d) /\ EntityBreaks(d, Entity(d).fields) = {}
  BY Cleared
<1>2. /\ Len(d.fields) \in Nat /\ DOMAIN a.fields = 1..Len(d.fields) /\ a.pk = Entity(d).pk
      /\ \A k \in 1..Len(d.fields) : k \notin DOMAIN a.pending => a.fields[k].type = BuildField(d, d.fields[k]).type
  BY <1>1, SameEntityFacts
<1>3. /\ Entity(d).pk \in 1..Len(d.fields)
      /\ \A k \in 1..Len(d.fields) : d.fields[k].type \in FieldType \cup {"belongsTo"}
  BY <1>1, CleanEntity
<1>4. a.pk \in 1..Len(d.fields) /\ a.pk # 0
  BY <1>2, <1>3
<1>5. BuildField(d, d.fields[a.pk]).type # "none"
  <2>1. BuildField(d, d.fields[a.pk]).type \in FieldType \cup {"uuid"}
    BY <1>3, <1>4, FieldFacts DEF IsBelongsTo
  <2> QED
    BY <2>1 DEF FieldType
<1>6. KeyTypes[i] # "none"
  <2>0. Len(schema) \in Nat /\ DOMAIN schema = 1..Len(schema)
    BY SchemaFacts
  <2>1. CASE ~Chained(i)
    BY <1>2, <1>4, <1>5, <2>0, <2>1, KeyTypesFacts DEF Chained
  <2>2. CASE Chained(i) /\ KeyTarget(i) = 0
    BY <2>0, <2>2, KeyTypesFacts
  <2>3. CASE Chained(i) /\ KeyTarget(i) # 0
    <3>1. KeyTypes[i] # "pending" => KeyTypes[i] # "none"
      BY <2>0, <2>3, KeyTypesFacts
    <3> QED
      BY <3>1
  <2> QED
    BY <2>1, <2>2, <2>3
<1> QED
  BY <1>2, <1>4, <1>6

LEMMA KeyTypeKept ==
    ASSUME IInv, pc # "build", diags = {}, AllResolvable, NEW i \in DOMAIN schema, KeyTypes[i] # "pending"
    PROVE  WithRelations(schema[i]).fields[schema[i].pk].type = KeyTypes[i]
<1> DEFINE a == schema[i]
           target(k) == LookupEntity(a.pending[k].target)
<1>1. PICK d \in EntityDoc : SameEntity(a, d)
  BY Cleared
<1>2. /\ DOMAIN a = EntityKeys /\ Len(d.fields) \in Nat /\ DOMAIN a.fields = 1..Len(d.fields)
      /\ \A k \in 1..Len(d.fields) : DOMAIN a.fields[k] = FieldKeys
  BY <1>1, SameEntityFacts
<1>3. \A k \in 1..Len(d.fields) :
          IF k \in DOMAIN a.pending /\ Resolvable(a, k) /\ KeyTypes[target(k)] # "none"
          THEN WithRelations(a).fields[k] = [a.fields[k] EXCEPT !.type = KeyTypes[target(k)]]
          ELSE WithRelations(a).fields[k] = a.fields[k]
  BY <1>2, RelationFields
<1>4. a.pk \in 1..Len(d.fields) /\ a.pk # 0
  BY <1>2, KeyTyped
<1>5. Len(schema) \in Nat /\ DOMAIN schema = 1..Len(schema) /\ 0 \notin DOMAIN schema
  BY SchemaFacts
<1>6. CASE a.pk \notin DOMAIN a.pending
  <2>1. KeyTypes[i] = a.fields[a.pk].type
    BY <1>4, <1>5, <1>6, KeyTypesFacts DEF Chained
  <2> QED
    BY <1>3, <1>4, <1>6, <2>1
<1>7. CASE a.pk \in DOMAIN a.pending
  <2>1. Resolvable(a, a.pk) /\ target(a.pk) \in DOMAIN schema /\ KeyTarget(i) = target(a.pk)
    BY <1>7, LookupEntityFacts DEF AllResolvable, Resolvable, KeyTarget
  <2>2. KeyTypes[target(a.pk)] # "none"
    BY <2>1, KeyTyped
  <2>3. KeyTypes[i] = KeyTypes[target(a.pk)]
    BY <1>4, <1>5, <1>7, <2>1, <2>2, KeyTypesFacts DEF Chained
  <2>4. "type" \in DOMAIN a.fields[a.pk]
    BY <1>2, <1>4 DEF FieldKeys
  <2> QED
    BY <1>3, <1>4, <1>7, <2>1, <2>2, <2>3, <2>4
<1> QED
  BY <1>6, <1>7

LEMMA RelationsKeep ==
    ASSUME NEW d \in EntityDoc, NEW a, SameEntity(a, d), 0 \notin DOMAIN schema
    PROVE  LET b == WithRelations(a) IN
           /\ SameEntity(b, d)
           /\ b.sort = a.sort /\ b.filters = a.filters /\ b.indexes = a.indexes
           /\ {r.field : r \in b.relations} = {k \in DOMAIN a.pending : Resolvable(a, k)}
           /\ \A r \in b.relations :
                  /\ r.field \in DOMAIN b.pending /\ r.field \in 1..Len(d.fields) /\ Resolvable(a, r.field)
                  /\ r.target = LookupEntity(a.pending[r.field].target) /\ r.target \in DOMAIN schema
                  /\ r.name = b.fields[r.field].name /\ r.goName = GoName[r.name]
                  /\ r.nullable = b.fields[r.field].nullable
<1> DEFINE b == WithRelations(a)
           n == Len(d.fields)
           target(k) == LookupEntity(a.pending[k].target)
           Typed(k) == k \in DOMAIN a.pending /\ Resolvable(a, k) /\ KeyTypes[target(k)] # "none"
           done == {k \in DOMAIN a.pending : Resolvable(a, k)}
           R(k) == [name |-> a.fields[k].name, goName |-> GoName[a.fields[k].name], field |-> k,
                    target |-> target(k), nullable |-> a.fields[k].nullable, onDelete |-> a.pending[k].onDelete]
<1>1. /\ DOMAIN a = EntityKeys /\ n \in Nat /\ DOMAIN a.fields = 1..n /\ DOMAIN a.pending \subseteq 1..n
      /\ \A k \in 1..n : DOMAIN a.fields[k] = FieldKeys
  BY SameEntityFacts
<1>2. /\ DOMAIN b = EntityKeys
      /\ \A x \in EntityKeys \ {"fields", "relations"} : b[x] = a[x]
      /\ b.relations = {R(k) : k \in done}
  BY <1>1, WithRelationsFacts
<1>3. /\ DOMAIN b.fields = 1..n
      /\ \A k \in 1..n : /\ Typed(k) => b.fields[k] = [a.fields[k] EXCEPT !.type = KeyTypes[target(k)]]
                         /\ ~Typed(k) => b.fields[k] = a.fields[k]
  BY <1>1, RelationFields
<1>4. \A k \in 1..n : /\ DOMAIN b.fields[k] = FieldKeys
                      /\ \A x \in FieldKeys \ {"type"} : b.fields[k][x] = a.fields[k][x]
                      /\ k \notin DOMAIN a.pending => b.fields[k] = a.fields[k]
  <2> SUFFICES ASSUME NEW k \in 1..n
               PROVE  /\ DOMAIN b.fields[k] = FieldKeys
                      /\ \A x \in FieldKeys \ {"type"} : b.fields[k][x] = a.fields[k][x]
                      /\ k \notin DOMAIN a.pending => b.fields[k] = a.fields[k]
    OBVIOUS
  <2> HIDE DEF b
  <2>1. Typed(k) => /\ DOMAIN b.fields[k] = FieldKeys
                    /\ \A x \in FieldKeys \ {"type"} : b.fields[k][x] = a.fields[k][x]
    BY <1>1, <1>3
  <2> QED
    BY <1>1, <1>3, <2>1
<1> HIDE DEF b, Typed
<1>5. /\ b.pending = a.pending /\ b.sort = a.sort /\ b.filters = a.filters /\ b.indexes = a.indexes
      /\ \A x \in EntityKeys \ {"fields", "relations", "sort", "filters", "indexes"} : b[x] = a[x]
  BY <1>2 DEF EntityKeys
<1>6. SameEntity(b, d)
  <2>1. \A x \in EntityKeys \ {"fields", "relations", "sort", "filters", "indexes"} : b[x] = Entity(d)[x]
    BY <1>5 DEF SameEntity
  <2>2. \A k \in 1..n : /\ DOMAIN b.fields[k] = FieldKeys
                        /\ \A x \in FieldKeys \ {"type"} : b.fields[k][x] = Entity(d).fields[k][x]
                        /\ k \notin DOMAIN b.pending => b.fields[k].type = Entity(d).fields[k].type
    BY <1>4, <1>5 DEF SameEntity
  <2> QED
    BY <1>2, <1>3, <2>1, <2>2 DEF SameEntity
<1>7. ASSUME NEW r \in b.relations
      PROVE  /\ r.field \in DOMAIN b.pending /\ r.field \in 1..n /\ Resolvable(a, r.field)
             /\ r.target = target(r.field) /\ r.target \in DOMAIN schema
             /\ r.name = b.fields[r.field].name /\ r.goName = GoName[r.name]
             /\ r.nullable = b.fields[r.field].nullable
  <2>1. PICK k \in done : r = R(k)
    BY <1>2
  <2>2. r.field = k /\ r.target = target(k) /\ r.name = a.fields[k].name /\ r.goName = GoName[r.name]
        /\ r.nullable = a.fields[k].nullable
    BY <2>1
  <2>3. k \in DOMAIN a.pending /\ Resolvable(a, k) /\ k \in 1..n
    BY <1>1, <2>1
  <2>4. target(k) \in DOMAIN schema
    BY <2>3, LookupEntityFacts DEF Resolvable
  <2>5. b.fields[k].name = a.fields[k].name /\ b.fields[k].nullable = a.fields[k].nullable
    BY <1>4, <2>3 DEF FieldKeys
  <2> QED
    BY <1>5, <2>2, <2>3, <2>4, <2>5
<1>8. {r.field : r \in b.relations} = done
  <2>1. \A k \in done : R(k) \in b.relations /\ R(k).field = k
    BY <1>2
  <2>2. \A r \in b.relations : r.field \in done
    BY <1>5, <1>7
  <2> HIDE DEF R, done
  <2> QED
    BY <2>1, <2>2
<1> QED
  BY <1>5, <1>6, <1>7, <1>8 DEF b

LEMMA Resolving == IInv /\ ResolveRelations => IInv'
<1> SUFFICES ASSUME IInv, ResolveRelations PROVE IInv'
  OBVIOUS
<1> DEFINE n == Len(doc)
           Loose == {<<e.name, "relation unresolved">> :
                         e \in {e \in ToSet(schema) : \E k \in DOMAIN e.pending : ~Resolvable(e, k)}}
<1>1. /\ doc' = doc /\ built' = built /\ schema' = [i \in DOMAIN schema |-> WithRelations(schema[i])]
      /\ pc = "relations" /\ pc' = "references" /\ diags' = diags \cup Loose
  BY DEF ResolveRelations
<1>2. /\ n \in Nat /\ DOMAIN doc = 1..n /\ Len(schema) = n /\ DOMAIN schema = 1..n /\ 0 \notin DOMAIN schema
      /\ \A d \in 1..n : doc[d] \in EntityDoc
      /\ \A i \in 1..n : \E d \in 1..n : SameEntity(schema[i], doc[d])
      /\ \A i, j \in 1..n : i < j => Rank[schema[i].name] < Rank[schema[j].name]
  BY <1>1, SchemaFacts
<1> HIDE DEF n, Loose
<1>3. DOMAIN schema' = 1..n /\ \A i \in 1..n : schema'[i] = WithRelations(schema[i])
  BY <1>1, <1>2
<1>4. ASSUME NEW i \in 1..n, NEW d \in 1..n, SameEntity(schema[i], doc[d])
      PROVE  SameEntity(schema'[i], doc[d]) /\ schema'[i].name = schema[i].name /\ schema'[i].table = schema[i].table
  <2>1. SameEntity(schema'[i], doc[d])
    BY <1>2, <1>3, <1>4, RelationsKeep
  <2> QED
    BY SMTT(20), <1>2, <1>4, <2>1, SameEntityFacts
<1>5. Shape'
  <2>1. Len(schema') = n
    BY <1>2, <1>3, <1>1, LengthIs
  <2> QED
    BY <1>1, <1>2, <2>1 DEF IInv, Shape, n
<1>6. Complete'
  <2>1. \A i \in 1..n : \E d \in 1..n : SameEntity(schema'[i], doc[d])
    BY <1>2, <1>4
  <2>2. \A d \in 1..n : \E i \in 1..n : SameEntity(schema'[i], doc[d])
    BY <1>1, <1>2, <1>4 DEF IInv, Complete
  <2>3. \A i \in 1..n : schema'[i].name = schema[i].name
    BY <1>2, <1>4
  <2>4. \A i, j \in 1..n : i < j => Rank[schema'[i].name] < Rank[schema'[j].name]
    BY <1>2, <2>3
  <2>5. doc' = doc /\ Len(doc) = n /\ DOMAIN doc = 1..n
    BY <1>1, <1>2 DEF n
  <2> QED
    BY ONLY <1>3, <2>1, <2>2, <2>4, <2>5 DEF Complete
<1>7. RelationsHold' /\ ReferencesHold'
  <2> SUFFICES ASSUME NEW i \in 1..n
               PROVE  /\ \A r \in schema'[i].relations :
                             /\ r.field \in DOMAIN schema'[i].pending /\ r.target \in DOMAIN schema'
                             /\ r.name = schema'[i].fields[r.field].name /\ r.goName = GoName[r.name]
                             /\ r.nullable = schema'[i].fields[r.field].nullable
                      /\ ToSet(schema'[i].sort) \cup ToSet(schema'[i].filters) \subseteq DOMAIN schema'[i].fields
                      /\ \A j \in DOMAIN schema'[i].indexes :
                             ToSet(schema'[i].indexes[j]) \subseteq DOMAIN schema'[i].fields
    BY <1>3 DEF RelationsHold, ReferencesHold
  <2>1. PICK d \in EntityDoc : SameEntity(schema[i], d) /\ SameEntity(schema'[i], d)
    BY <1>2, <1>4
  <2>2. /\ schema'[i].sort = schema[i].sort /\ schema'[i].filters = schema[i].filters
        /\ schema'[i].indexes = schema[i].indexes
        /\ \A r \in schema'[i].relations :
               /\ r.field \in DOMAIN schema'[i].pending /\ r.target \in DOMAIN schema
               /\ r.name = schema'[i].fields[r.field].name /\ r.goName = GoName[r.name]
               /\ r.nullable = schema'[i].fields[r.field].nullable
    <3> DEFINE a == schema[i]
               b == WithRelations(a)
    <3>1. /\ b.sort = a.sort /\ b.filters = a.filters /\ b.indexes = a.indexes
          /\ \A r \in b.relations :
                 /\ r.field \in DOMAIN b.pending /\ r.target \in DOMAIN schema
                 /\ r.name = b.fields[r.field].name /\ r.goName = GoName[r.name]
                 /\ r.nullable = b.fields[r.field].nullable
      BY <1>2, <2>1, RelationsKeep
    <3> HIDE DEF b
    <3> QED
      BY <1>3, <3>1 DEF b
  <2>3. DOMAIN schema'[i].fields = DOMAIN schema[i].fields
    BY <2>1, SameEntityFacts
  <2>4. /\ ToSet(schema[i].sort) \cup ToSet(schema[i].filters) \subseteq DOMAIN schema[i].fields
        /\ \A j \in DOMAIN schema[i].indexes : ToSet(schema[i].indexes[j]) \subseteq DOMAIN schema[i].fields
    BY <1>2 DEF IInv, ReferencesHold
  <2> QED
    BY <1>2, <1>3, <2>2, <2>3, <2>4
<1>8. Judged' /\ Passed'
  <2>1. ASSUME diags' = {} PROVE \A i \in 1..n : Linked(schema[i])'
    <3>1. diags = {} /\ Loose = {}
      BY <1>1, <2>1
    <3>2. AllResolvable
      <4>1. \A i \in DOMAIN schema : schema[i] \in ToSet(schema)
        BY DEF ToSet
      <4> QED
        BY <3>1, <4>1 DEF AllResolvable, Loose
    <3> SUFFICES ASSUME NEW i \in 1..n
                 PROVE  /\ {r.field : r \in schema'[i].relations} = DOMAIN schema'[i].pending
                        /\ \A r \in schema'[i].relations :
                               schema'[i].fields[r.field].type
                                   = schema'[r.target].fields[schema'[r.target].pk].type
      BY DEF Linked
    <3>3. PICK d \in EntityDoc : SameEntity(schema[i], d) /\ SameEntity(schema'[i], d)
      BY <1>2, <1>4
    <3>4. /\ SameEntity(schema'[i], d)
          /\ {r.field : r \in schema'[i].relations} = {k \in DOMAIN schema[i].pending : Resolvable(schema[i], k)}
          /\ \A r \in schema'[i].relations :
                 /\ r.field \in DOMAIN schema'[i].pending /\ r.field \in 1..Len(d.fields)
                 /\ Resolvable(schema[i], r.field)
                 /\ r.target = LookupEntity(schema[i].pending[r.field].target) /\ r.target \in 1..n
      <4> DEFINE a == schema[i]
                 b == WithRelations(a)
      <4>1. /\ SameEntity(b, d)
            /\ {r.field : r \in b.relations} = {k \in DOMAIN a.pending : Resolvable(a, k)}
            /\ \A r \in b.relations :
                   /\ r.field \in DOMAIN b.pending /\ r.field \in 1..Len(d.fields) /\ Resolvable(a, r.field)
                   /\ r.target = LookupEntity(a.pending[r.field].target) /\ r.target \in DOMAIN schema
        <5>1. 0 \notin DOMAIN schema /\ SameEntity(a, d)
          BY <1>2, <3>3
        <5> HIDE DEF a
        <5> QED
          BY <5>1, RelationsKeep
      <4>2. b = schema'[i]
        BY <1>3
      <4> HIDE DEF b
      <4> QED
        BY <1>2, <4>1, <4>2
    <3>5. schema'[i].pending = schema[i].pending
      BY <3>3, SameEntityFacts
    <3>6. {k \in DOMAIN schema[i].pending : Resolvable(schema[i], k)} = DOMAIN schema[i].pending
      BY <1>2, <3>2 DEF AllResolvable
    <3>7. ASSUME NEW r \in schema'[i].relations
          PROVE  schema'[i].fields[r.field].type = schema'[r.target].fields[schema'[r.target].pk].type
      <4> DEFINE k == r.field
                 t == r.target
      <4>1. /\ k \in DOMAIN schema[i].pending /\ k \in 1..Len(d.fields) /\ Resolvable(schema[i], k)
            /\ t = LookupEntity(schema[i].pending[k].target) /\ t \in 1..n
        BY <3>4, <3>5
      <4>2. KeyTypes[t] # "none" /\ KeyTypes[t] # "pending"
        BY <1>1, <1>2, <3>1, <3>2, <4>1, KeyTyped DEF Resolvable
      <4>3. schema'[t].pk = schema[t].pk
        <5>1. PICK c \in EntityDoc : SameEntity(schema[t], c) /\ SameEntity(schema'[t], c)
          BY <1>2, <1>4, <4>1
        <5> QED
          BY <5>1, SameEntityFacts
      <4>4. schema'[t].fields[schema[t].pk].type = KeyTypes[t]
        BY <1>1, <1>2, <1>3, <3>1, <3>2, <4>1, <4>2, KeyTypeKept
      <4>5. /\ DOMAIN schema[i] = EntityKeys /\ Len(d.fields) \in Nat
            /\ DOMAIN schema[i].fields = 1..Len(d.fields) /\ DOMAIN schema[i].fields[k] = FieldKeys
        <5>1. SameEntity(schema[i], d) /\ k \in 1..Len(d.fields)
          BY <3>3, <4>1
        <5> HIDE DEF k
        <5> QED
          BY <5>1, SameEntityFacts
      <4>6. schema'[i].fields[k] = [schema[i].fields[k] EXCEPT !.type = KeyTypes[t]]
        BY <1>3, <4>1, <4>2, <4>5, RelationFields
      <4>7. schema'[i].fields[k].type = KeyTypes[t]
        BY <4>5, <4>6 DEF FieldKeys
      <4> QED
        BY <4>3, <4>4, <4>7
    <3> QED
      BY <3>4, <3>5, <3>6, <3>7
  <2>2. ASSUME diags' = {}
        PROVE  /\ \A i \in DOMAIN built : EntityBreaks(doc[i], Entity(doc[i]).fields) = {}
               /\ \A i, j \in 1..n : schema'[i].table = schema'[j].table => i = j
    <3>1. diags = {}
      BY <1>1, <2>2
    <3>2. \A i \in 1..n : schema'[i].table = schema[i].table
      BY <1>2, <1>4
    <3>3. \A i, j \in 1..n : schema[i].table = schema[j].table => i = j
      BY <1>1, <1>2, <3>1 DEF IInv, Judged
    <3>4. \A i \in DOMAIN built : EntityBreaks(doc[i], Entity(doc[i]).fields) = {}
      BY <3>1 DEF IInv, Judged
    <3> QED
      BY <3>2, <3>3, <3>4
  <2>3. Judged'
    BY <1>1, <1>3, <2>1, <2>2 DEF Judged
  <2> QED
    BY <1>1, <2>3 DEF Passed
<1> QED
  BY <1>5, <1>6, <1>7, <1>8 DEF IInv

(* A list of names, once it is resolved: what it refers to are fields, and it *)
(* says what it said when every name is found.                                *)
LEMMA FoundFacts ==
    ASSUME NEW e, NEW S, NEW ns \in Seq(S), 0 \notin DOMAIN e.fields
    PROVE  /\ Found(e, ns) \in Seq(DOMAIN e.fields)
           /\ (\A j \in 1..Len(ns) : LookupField(e, ns[j]) # 0) =>
                  /\ DOMAIN Found(e, ns) = DOMAIN ns /\ Len(Found(e, ns)) = Len(ns)
                  /\ \A j \in DOMAIN ns : /\ Found(e, ns)[j] \in DOMAIN e.fields
                                          /\ e.fields[Found(e, ns)[j]].name = ns[j]
<1> DEFINE s == [j \in DOMAIN ns |-> LookupField(e, ns[j])]
           F == Found(e, ns)
           D == DOMAIN e.fields
<1>1. \A x : /\ LookupField(e, x) \in D \cup {0}
             /\ LookupField(e, x) # 0 => e.fields[LookupField(e, x)].name = x
  BY DEF LookupField
<1>2. Len(ns) \in Nat /\ DOMAIN ns = 1..Len(ns)
  OBVIOUS
<1>3. DOMAIN s = 1..Len(ns) /\ \A j \in 1..Len(ns) : s[j] = LookupField(e, ns[j])
  BY <1>2
<1>4. s \in Seq(D \cup {0}) /\ Len(s) = Len(ns)
  <2>1. s = [j \in 1..Len(ns) |-> s[j]]
    BY <1>2
  <2>2. Len(s) = Len(ns)
    BY <1>2, <2>1, LengthIs
  <2>3. s \in [1..Len(ns) -> D \cup {0}]
    <3> HIDE DEF D
    <3> QED
      BY <1>1, <1>2
  <2> HIDE DEF s, D
  <2> QED
    BY <1>2, <2>2, <2>3
<1>5. F = Outside(s, {0})
  BY DEF Found
<1> HIDE DEF s, F, D
<1>6. F \in Seq((D \cup {0}) \ {0}) /\ (ToSet(s) \cap {0} = {} => F = s)
  BY <1>4, <1>5, OutsideFacts
<1>7. F \in Seq(D)
  <2>1. (D \cup {0}) \ {0} = D
    BY DEF D
  <2> QED
    BY <1>6, <2>1
<1>8. ASSUME \A j \in 1..Len(ns) : LookupField(e, ns[j]) # 0
      PROVE  /\ DOMAIN F = DOMAIN ns /\ Len(F) = Len(ns)
             /\ \A j \in DOMAIN ns : F[j] \in D /\ e.fields[F[j]].name = ns[j]
  <2>1. ToSet(s) \cap {0} = {}
    BY <1>3, <1>8 DEF ToSet
  <2>2. F = s
    BY <1>6, <2>1
  <2> QED
    BY <1>1, <1>2, <1>3, <1>4, <1>8, <2>2
<1> QED
  BY <1>7, <1>8 DEF F, D

LEMMA SortNamesFacts ==
    ASSUME NEW d \in EntityDoc
    PROVE  LET fs == Entity(d).fields
               N == SortNames(d, fs)
           IN  /\ N \in Seq(Name)
               /\ d.sort # Absent => /\ d.sort \in Seq(Name \X BOOLEAN) /\ Len(N) = Len(d.sort)
                                     /\ DOMAIN N = DOMAIN d.sort /\ \A k \in DOMAIN d.sort : N[k] = d.sort[k][1]
               /\ d.sort = Absent /\ Entity(d).pk # 0 => N = <<d.fields[Entity(d).pk].name>>
<1> DEFINE fs == Entity(d).fields
           N == SortNames(d, fs)
<1>1. /\ Len(d.fields) \in Nat /\ DOMAIN fs = 1..Len(d.fields)
      /\ \A k \in 1..Len(d.fields) : fs[k] = BuildField(d, d.fields[k])
      /\ Entity(d).pk = TheOne(Marked(fs, "pk"))
      /\ DOMAIN d.fields = 1..Len(d.fields)
  BY BuiltFields, EntityFacts
<1>2. \A k \in 1..Len(d.fields) : fs[k].name = d.fields[k].name /\ fs[k].name \in Name
  BY <1>1, FieldFacts, EntityDocFacts
<1>3. d.sort # Absent => d.sort \in Seq(Name \X BOOLEAN)
  BY EntityDocFacts
<1>4. Entity(d).pk \in 1..Len(d.fields) \cup {0}
  BY <1>1, MarkedFacts
<1> HIDE DEF fs
<1>5. CASE d.sort # Absent
  <2>1. N = [k \in DOMAIN d.sort |-> d.sort[k][1]]
    BY <1>5 DEF SortNames
  <2>2. Len(d.sort) \in Nat /\ DOMAIN d.sort = 1..Len(d.sort) /\ \A k \in 1..Len(d.sort) : d.sort[k] \in Name \X BOOLEAN
    BY <1>3, <1>5
  <2> HIDE DEF N
  <2>3. N = [k \in 1..Len(d.sort) |-> N[k]] /\ \A k \in 1..Len(d.sort) : N[k] = d.sort[k][1] /\ N[k] \in Name
    BY <2>1, <2>2
  <2>4. N \in Seq(Name) /\ Len(N) = Len(d.sort)
    <3>1. N \in [1..Len(d.sort) -> Name]
      BY <2>3
    <3> QED
      BY <2>2, <2>3, <3>1, LengthIs
  <2> QED
    BY <1>3, <1>5, <2>2, <2>3, <2>4 DEF N, fs
<1>6. CASE d.sort = Absent /\ Entity(d).pk = 0
  <2>1. N = << >>
    BY <1>1, <1>6 DEF SortNames
  <2> QED
    BY <1>6, <2>1 DEF fs
<1>7. CASE d.sort = Absent /\ Entity(d).pk # 0
  <2>1. N = <<fs[Entity(d).pk].name>>
    BY <1>1, <1>7 DEF SortNames
  <2>2. N = <<d.fields[Entity(d).pk].name>> /\ d.fields[Entity(d).pk].name \in Name
    BY <1>2, <1>4, <1>7, <2>1
  <2> HIDE DEF N
  <2>3. N \in Seq(Name)
    BY <2>2
  <2> QED
    BY <1>7, <2>2, <2>3 DEF N, fs
<1> QED
  BY <1>5, <1>6, <1>7

LEMMA ReferencesKeep ==
    ASSUME NEW d \in EntityDoc, NEW a, SameEntity(a, d)
    PROVE  LET b == WithReferences(a) IN
           /\ SameEntity(b, d)
           /\ b.fields = a.fields /\ b.relations = a.relations
           /\ ToSet(b.sort) \cup ToSet(b.filters) \subseteq DOMAIN b.fields
           /\ \A j \in DOMAIN b.indexes : ToSet(b.indexes[j]) \subseteq DOMAIN b.fields
           /\ (\A x \in Names(a) : LookupField(a, x) # 0) => SortFound(b)
<1> DEFINE b == WithReferences(a)
           ix == [j \in DOMAIN a.indexNames |-> Found(a, a.indexNames[j])]
<1>1. /\ DOMAIN a = EntityKeys /\ 0 \notin DOMAIN a.fields
      /\ a.sortNames = SortNames(d, Entity(d).fields) /\ a.filterNames = d.filters /\ a.indexNames = d.indexes
  BY SameEntityFacts
<1>2. /\ DOMAIN b = EntityKeys
      /\ \A x \in EntityKeys \ {"sort", "filters", "indexes"} : b[x] = a[x]
      /\ b.sort = Found(a, a.sortNames) /\ b.filters = Found(a, a.filterNames)
      /\ b.indexes = Outside(ix, {<< >>})
  BY <1>1, WithReferencesFacts
<1>3. /\ a.sortNames \in Seq(Name) /\ a.filterNames \in Seq(Name) /\ a.indexNames \in Seq(Seq(Name))
  BY <1>1, SortNamesFacts, EntityDocFacts
<1> DEFINE D == DOMAIN a.fields
<1>4. b.sort \in Seq(D) /\ b.filters \in Seq(D)
  BY <1>1, <1>2, <1>3, FoundFacts
<1>5. \A s \in Seq(D) : ToSet(s) \subseteq D
  <2> HIDE DEF D
  <2> QED
    BY DEF ToSet
<1>6. \A j \in DOMAIN b.indexes : ToSet(b.indexes[j]) \subseteq D
  <2>1. ix \in Seq(Seq(D))
    <3>1. /\ Len(a.indexNames) \in Nat /\ DOMAIN a.indexNames = 1..Len(a.indexNames)
          /\ \A j \in 1..Len(a.indexNames) : a.indexNames[j] \in Seq(Name)
      BY <1>3
    <3>2. \A j \in 1..Len(a.indexNames) : Found(a, a.indexNames[j]) \in Seq(D)
      BY <1>1, <3>1, FoundFacts
    <3> HIDE DEF D
    <3>3. ix \in [1..Len(a.indexNames) -> Seq(D)]
      BY <3>1, <3>2
    <3> QED
      BY <3>1, <3>3
  <2> HIDE DEF ix, D, b
  <2>2. b.indexes \in Seq(Seq(D) \ {<< >>})
    BY <1>2, <2>1, OutsideFacts
  <2>3. \A j \in DOMAIN b.indexes : b.indexes[j] \in Seq(D)
    BY <2>2
  <2> QED
    BY <1>5, <2>3
<1>7. b.fields = a.fields /\ b.relations = a.relations /\ b.sortNames = a.sortNames /\ b.pending = a.pending
  BY <1>2 DEF EntityKeys
<1>8. SameEntity(b, d)
  <2>1. \A x \in EntityKeys \ {"fields", "relations", "sort", "filters", "indexes"} : b[x] = Entity(d)[x]
    BY <1>2 DEF SameEntity
  <2> HIDE DEF b
  <2> QED
    BY <1>2, <1>7, <2>1 DEF SameEntity
<1>9. ASSUME \A x \in Names(a) : LookupField(a, x) # 0 PROVE SortFound(b)
  <2>1. \A j \in 1..Len(a.sortNames) : LookupField(a, a.sortNames[j]) # 0
    BY <1>3, <1>9 DEF Names, ToSet
  <2>2. /\ DOMAIN b.sort = DOMAIN a.sortNames /\ Len(b.sort) = Len(a.sortNames)
        /\ \A j \in DOMAIN a.sortNames : b.sort[j] \in D /\ a.fields[b.sort[j]].name = a.sortNames[j]
    <3> DEFINE ns == a.sortNames
    <3>1. ns \in Seq(Name) /\ 0 \notin DOMAIN a.fields /\ b.sort = Found(a, ns)
      BY <1>1, <1>2, <1>3
    <3> HIDE DEF ns, b
    <3>2. /\ DOMAIN Found(a, ns) = DOMAIN ns /\ Len(Found(a, ns)) = Len(ns)
          /\ \A j \in DOMAIN ns : Found(a, ns)[j] \in D /\ a.fields[Found(a, ns)[j]].name = ns[j]
      BY <2>1, <3>1, FoundFacts DEF ns
    <3> QED
      BY <3>1, <3>2 DEF ns
  <2> HIDE DEF b
  <2> QED
    BY <1>7, <2>2 DEF SortFound
<1> HIDE DEF b
<1> QED
  BY <1>4, <1>5, <1>6, <1>7, <1>8, <1>9 DEF b

LEMMA Referring == IInv /\ ResolveReferences => IInv'
<1> SUFFICES ASSUME IInv, ResolveReferences PROVE IInv'
  OBVIOUS
<1> DEFINE n == Len(doc)
           Lost == {<<e.name, "not a field">> :
                        e \in {e \in ToSet(schema) : \E x \in Names(e) : LookupField(e, x) = 0}}
<1>1. /\ doc' = doc /\ built' = built /\ schema' = [i \in DOMAIN schema |-> WithReferences(schema[i])]
      /\ pc = "references" /\ pc' = "parsed" /\ diags' = diags \cup Lost
  BY DEF ResolveReferences
<1>2. /\ n \in Nat /\ DOMAIN doc = 1..n /\ Len(schema) = n /\ DOMAIN schema = 1..n
      /\ \A d \in 1..n : doc[d] \in EntityDoc
      /\ \A i \in 1..n : \E d \in 1..n : SameEntity(schema[i], doc[d])
      /\ \A i, j \in 1..n : i < j => Rank[schema[i].name] < Rank[schema[j].name]
  BY <1>1, SchemaFacts
<1> HIDE DEF n, Lost
<1>3. DOMAIN schema' = 1..n /\ \A i \in 1..n : schema'[i] = WithReferences(schema[i])
  BY <1>1, <1>2
<1>4. ASSUME NEW i \in 1..n, NEW d \in EntityDoc, SameEntity(schema[i], d)
      PROVE  /\ SameEntity(schema'[i], d)
             /\ schema'[i].fields = schema[i].fields /\ schema'[i].relations = schema[i].relations
             /\ schema'[i].name = schema[i].name /\ schema'[i].table = schema[i].table
             /\ schema'[i].pk = schema[i].pk /\ schema'[i].pending = schema[i].pending
             /\ ToSet(schema'[i].sort) \cup ToSet(schema'[i].filters) \subseteq DOMAIN schema'[i].fields
             /\ \A j \in DOMAIN schema'[i].indexes : ToSet(schema'[i].indexes[j]) \subseteq DOMAIN schema'[i].fields
             /\ (\A x \in Names(schema[i]) : LookupField(schema[i], x) # 0) => SortFound(schema'[i])
  <2> DEFINE a == schema[i]
             b == WithReferences(a)
  <2>1. /\ SameEntity(b, d) /\ b.fields = a.fields /\ b.relations = a.relations
        /\ ToSet(b.sort) \cup ToSet(b.filters) \subseteq DOMAIN b.fields
        /\ \A j \in DOMAIN b.indexes : ToSet(b.indexes[j]) \subseteq DOMAIN b.fields
        /\ (\A x \in Names(a) : LookupField(a, x) # 0) => SortFound(b)
    BY <1>4, ReferencesKeep
  <2>2. schema'[i] = b
    BY <1>3
  <2> HIDE DEF b
  <2>3. b.name = a.name /\ b.table = a.table /\ b.pk = a.pk /\ b.pending = a.pending
    BY <1>4, <2>1, SameEntityFacts
  <2> QED
    BY <2>1, <2>2, <2>3
<1>5. \A i \in 1..n : \E d \in EntityDoc : SameEntity(schema[i], d)
  BY <1>2
<1>6. \A i \in 1..n :
          /\ schema'[i].fields = schema[i].fields /\ schema'[i].relations = schema[i].relations
          /\ schema'[i].name = schema[i].name /\ schema'[i].table = schema[i].table
          /\ schema'[i].pk = schema[i].pk /\ schema'[i].pending = schema[i].pending
  BY <1>4, <1>5
<1>7. Shape'
  <2>1. Len(schema') = n
    BY <1>2, <1>3, <1>1, LengthIs
  <2> QED
    BY <1>1, <1>2, <2>1 DEF IInv, Shape, n
<1>8. Complete'
  <2>1. \A i \in 1..n : \E d \in 1..n : SameEntity(schema'[i], doc[d])
    BY <1>2, <1>4
  <2>2. \A d \in 1..n : \E i \in 1..n : SameEntity(schema'[i], doc[d])
    BY <1>1, <1>2, <1>4 DEF IInv, Complete
  <2>3. \A i, j \in 1..n : i < j => Rank[schema'[i].name] < Rank[schema'[j].name]
    BY <1>2, <1>6
  <2>4. doc' = doc /\ Len(doc) = n /\ DOMAIN doc = 1..n
    BY <1>1, <1>2 DEF n
  <2> QED
    BY ONLY <1>3, <2>1, <2>2, <2>3, <2>4 DEF Complete
<1>9. RelationsHold'
  <2>1. \A i \in 1..n : \A r \in schema[i].relations :
            /\ r.field \in DOMAIN schema[i].pending /\ r.target \in 1..n
            /\ r.name = schema[i].fields[r.field].name /\ r.goName = GoName[r.name]
            /\ r.nullable = schema[i].fields[r.field].nullable
    BY <1>2 DEF IInv, RelationsHold
  <2> QED
    BY <1>3, <1>6, <2>1 DEF RelationsHold
<1>10. ReferencesHold'
  BY <1>3, <1>4, <1>5 DEF ReferencesHold
<1>11. Judged' /\ Passed'
  <2>1. ASSUME diags' = {}
        PROVE  /\ \A i \in DOMAIN built : EntityBreaks(doc[i], Entity(doc[i]).fields) = {}
               /\ \A i, j \in 1..n : schema[i].table = schema[j].table => i = j
               /\ \A i \in 1..n : Linked(schema[i])
               /\ \A i \in 1..n : SortFound(schema'[i])
    <3>1. diags = {} /\ Lost = {}
      BY <1>1, <2>1
    <3>2. \A i \in 1..n : \A x \in Names(schema[i]) : LookupField(schema[i], x) # 0
      <4>1. \A i \in 1..n : schema[i] \in ToSet(schema)
        BY <1>2 DEF ToSet
      <4> QED
        BY <3>1, <4>1 DEF Lost
    <3>3. \A i \in 1..n : SortFound(schema'[i])
      BY <1>4, <1>5, <3>2
    <3> QED
      BY <1>1, <1>2, <3>1, <3>3 DEF IInv, Judged
  <2>2. ASSUME \A i \in 1..n : Linked(schema[i]) PROVE \A i \in 1..n : Linked(schema[i])'
    <3>1. \A i \in 1..n : \A r \in schema[i].relations : r.target \in 1..n
      BY <1>2 DEF IInv, RelationsHold
    <3> SUFFICES ASSUME NEW i \in 1..n
                 PROVE  /\ {r.field : r \in schema'[i].relations} = DOMAIN schema'[i].pending
                        /\ \A r \in schema'[i].relations :
                               schema'[i].fields[r.field].type
                                   = schema'[r.target].fields[schema'[r.target].pk].type
      BY DEF Linked
    <3>2. /\ {r.field : r \in schema[i].relations} = DOMAIN schema[i].pending
          /\ \A r \in schema[i].relations :
                 schema[i].fields[r.field].type = schema[r.target].fields[schema[r.target].pk].type
      BY <2>2 DEF Linked
    <3> QED
      BY <1>6, <3>1, <3>2
  <2>3. ASSUME diags' = {}
        PROVE  /\ \A i \in DOMAIN built' : EntityBreaks(doc'[i], Entity(doc'[i]).fields) = {}
               /\ \A i, j \in DOMAIN schema' : schema'[i].table = schema'[j].table => i = j
               /\ \A i \in DOMAIN schema' : Linked(schema[i])'
               /\ \A i \in DOMAIN schema' : SortFound(schema[i])'
    <3>1. \A i, j \in 1..n : schema'[i].table = schema'[j].table => i = j
      BY <1>6, <2>1, <2>3
    <3>2. \A i \in 1..n : Linked(schema[i])'
      BY <2>1, <2>2, <2>3
    <3>3. \A i \in 1..n : SortFound(schema[i])'
      BY <2>1, <2>3 DEF SortFound
    <3> QED
      BY <1>1, <1>3, <2>1, <2>3, <3>1, <3>2, <3>3
  <2>4. Judged'
    BY <1>1, <2>3 DEF Judged
  <2> QED
    BY <1>1, <2>4 DEF Passed
<1> QED
  BY <1>7, <1>8, <1>9, <1>10, <1>11 DEF IInv

-----------------------------------------------------------------------------
(* The steps: Freeze and Validate *)

(* A schema nothing was said against satisfies Freeze. *)
LEMMA Freezes ==
    ASSUME IInv, pc = "parsed", diags = {}
    PROVE  Frozen
<1>1. /\ doc \in Docs /\ Len(doc) \in Nat /\ DOMAIN schema = 1..Len(doc)
      /\ \A i, j \in DOMAIN schema : i < j => Rank[schema[i].name] < Rank[schema[j].name]
  BY SchemaFacts
<1>2. \A i \in DOMAIN schema : i > 1 => Rank[schema[i - 1].name] < Rank[schema[i].name]
  <2>1. \A i \in DOMAIN schema : i > 1 => i - 1 \in DOMAIN schema /\ i - 1 < i
    BY <1>1
  <2> QED
    BY <1>1, <2>1
<1>3. ASSUME NEW i \in DOMAIN schema PROVE EntityFrozen(schema[i])
  <2> DEFINE a == schema[i]
  <2>1. PICK m \in DOMAIN doc : /\ doc[m] \in EntityDoc /\ SameEntity(a, doc[m])
                                /\ EntityBreaks(doc[m], Entity(doc[m]).fields) = {}
    BY <1>1, Cleared
  <2> DEFINE d == doc[m]
             n == Len(d.fields)
  <2>2. DOMAIN d.fields = 1..n /\ \A j, k \in 1..n : d.fields[j].name = d.fields[k].name => j = k
    <3>1. d \in EntityDoc
      BY <2>1
    <3>2. DOMAIN d.fields = 1..n
      BY <3>1, EntityDocFacts
    <3>3. \A j, k \in DOMAIN d.fields : d.fields[j].name = d.fields[k].name => j = k
      BY <1>1, <2>1, DocFacts
    <3> QED
      BY <3>2, <3>3
  <2>3. d \in EntityDoc /\ SameEntity(a, d) /\ EntityBreaks(d, Entity(d).fields) = {}
    BY <2>1
  <2>4. \A j \in 1..n : Entity(d).fields[j] = BuildField(d, d.fields[j])
    BY <2>3, BuiltFields
  <2> HIDE DEF d, a
  <2>5. /\ n \in Nat /\ DOMAIN a.fields = 1..n
        /\ \A k \in 1..n : /\ a.fields[k].name = d.fields[k].name
                           /\ \A x \in FieldKeys \ {"type"} : a.fields[k][x] = BuildField(d, d.fields[k])[x]
        /\ a.pk = Entity(d).pk /\ a.version = Entity(d).version
        /\ Marked(a.fields, "pk") = Marked(Entity(d).fields, "pk")
        /\ Marked(a.fields, "version") = Marked(Entity(d).fields, "version")
    <3> USE DEF n
    <3>1. n \in Nat /\ DOMAIN a.fields = 1..n /\ a.pk = Entity(d).pk /\ a.version = Entity(d).version
      BY <2>3, SameEntityFacts
    <3>2. \A k \in 1..n : /\ a.fields[k].name = d.fields[k].name
                          /\ \A x \in FieldKeys \ {"type"} : a.fields[k][x] = BuildField(d, d.fields[k])[x]
      BY <2>3, SameEntityFacts
    <3>3. /\ Marked(a.fields, "pk") = Marked(Entity(d).fields, "pk")
          /\ Marked(a.fields, "version") = Marked(Entity(d).fields, "version")
      BY <2>3, SameEntityFacts
    <3> QED
      BY <3>1, <3>2, <3>3
  <2>6. /\ Marked(Entity(d).fields, "pk") = {Entity(d).pk}
        /\ Marked(Entity(d).fields, "version") = {Entity(d).version} \ {0}
        /\ \A k \in 1..n : \A v \in ToSet(Entity(d).fields[k].values) : GoName[v] # << >>
    BY <2>3, CleanEntity
  <2> HIDE DEF n
  <2>7. ~Twice([k \in DOMAIN a.fields |-> a.fields[k].name])
    BY <2>2, <2>5 DEF Twice
  <2>8. \A k \in DOMAIN a.fields : \A v \in ToSet(a.fields[k].values) : GoName[v] # << >>
    <3>1. \A k \in 1..n : a.fields[k].values = Entity(d).fields[k].values
      BY <2>4, <2>5 DEF FieldKeys
    <3> QED
      BY <2>5, <2>6, <3>1
  <2>9. Marked(a.fields, "pk") = {a.pk} /\ Marked(a.fields, "version") = {a.version} \ {0}
    BY <2>5, <2>6
  <2>10. /\ ToSet(a.sort) \cup ToSet(a.filters) \subseteq DOMAIN a.fields
         /\ \A j \in DOMAIN a.indexes : ToSet(a.indexes[j]) \subseteq DOMAIN a.fields
         /\ \A r \in a.relations : r.target \in DOMAIN schema
    BY DEF IInv, ReferencesHold, RelationsHold, a
  <2> QED
    BY <2>7, <2>8, <2>9, <2>10 DEF EntityFrozen, a
<1> QED
  BY <1>2, <1>3 DEF Frozen

LEMMA Returning == IInv /\ Return => IInv'
<1> SUFFICES ASSUME IInv, Return PROVE IInv'
  OBVIOUS
<1>1. /\ pc = "parsed" /\ doc' = doc /\ built' = built /\ schema' = schema /\ diags' = diags
      /\ pc' = IF diags # {} THEN "rejected" ELSE "frozen"
  BY Freezes DEF Return
<1>2. Shape'
  BY <1>1 DEF IInv, Shape
<1>3. Complete' /\ RelationsHold' /\ ReferencesHold'
  BY <1>1 DEF IInv, Complete, RelationsHold, ReferencesHold
<1>4. Judged' /\ Passed'
  <2>1. ASSUME diags = {} PROVE /\ \A i \in DOMAIN schema : Linked(schema[i])'
                                /\ \A i \in DOMAIN schema : SortFound(schema[i])'
    BY <1>1, <2>1 DEF IInv, Judged, Linked, SortFound
  <2>2. Judged'
    BY <1>1, <2>1 DEF IInv, Judged
  <2> QED
    BY <1>1, <2>2 DEF Passed
<1> QED
  BY <1>2, <1>3, <1>4 DEF IInv

LEMMA Validating == IInv /\ Validate => IInv'
<1> SUFFICES ASSUME IInv, Validate PROVE IInv'
  OBVIOUS
<1> DEFINE wrong(e) == When("sort", SortWrong(e)) \cup When("filter", FilterWrong(e)) \cup
                       When("index", IndexWrong(e)) \cup When("on_delete", RelationWrong(e)) \cup
                       When("struct names", StructNamesWrong(e))
           W == UNION {{<<e.name, r>> : r \in wrong(e)} : e \in ToSet(schema)}
           P == When(<<Absent, "package names">>, \E d, c \in PackageDecls : d # c /\ d[1] = c[1])
<1>1. /\ pc = "frozen" /\ doc' = doc /\ built' = built /\ schema' = schema /\ diags' = W \cup P
      /\ warned' = UNION {{<<e.name, k>> : k \in MovingKeys(e)} : e \in ToSet(schema)}
      /\ pc' = IF diags' = {} THEN "accepted" ELSE "rejected"
  BY DEF Validate
<1>2. \A i \in DOMAIN schema : schema[i] \in ToSet(schema)
  BY DEF ToSet
<1>3. Shape'
  BY <1>1 DEF IInv, Shape
<1>4. Complete' /\ RelationsHold' /\ ReferencesHold'
  BY <1>1 DEF IInv, Complete, RelationsHold, ReferencesHold
<1>5. Judged'
  <2>1. diags = {}
    BY <1>1 DEF IInv, Judged
  <2>2. /\ \A i \in DOMAIN schema : Linked(schema[i])'
        /\ \A i \in DOMAIN schema : SortFound(schema[i])'
    BY <1>1, <2>1 DEF IInv, Judged, Linked, SortFound
  <2> QED
    BY <1>1, <2>1, <2>2 DEF IInv, Judged
<1>6. Passed'
  <2> SUFFICES ASSUME diags' = {}
               PROVE  /\ \A i \in DOMAIN schema :
                             /\ ~SortWrong(schema[i]) /\ ~FilterWrong(schema[i]) /\ ~IndexWrong(schema[i])
                             /\ ~RelationWrong(schema[i]) /\ ~StructNamesWrong(schema[i])
                             /\ \A k \in MovingKeys(schema[i]) : <<schema[i].name, k>> \in warned'
                      /\ \A d, c \in PackageDecls : d[1] = c[1] => d = c
    <3> HIDE DEF W, P
    <3>1. PackageDecls' = PackageDecls
      <4>1. schema' = schema
        BY <1>1
      <4> QED
        BY ONLY <4>1 DEF PackageDecls, EnumDecls
    <3> QED
      BY <1>1, <3>1 DEF Passed
  <2>1. W = {} /\ P = {}
    BY <1>1
  <2>2. ASSUME NEW i \in DOMAIN schema PROVE wrong(schema[i]) = {}
    <3> HIDE DEF wrong
    <3>1. ASSUME NEW r \in wrong(schema[i]) PROVE FALSE
      <4>1. <<schema[i].name, r>> \in {<<schema[i].name, x>> : x \in wrong(schema[i])}
        OBVIOUS
      <4>2. <<schema[i].name, r>> \in W
        BY <1>2, <4>1, Zenon
      <4> QED
        BY <2>1, <4>2
    <3> QED
      BY <3>1
  <2>3. \A d, c \in PackageDecls : d[1] = c[1] => d = c
    BY <2>1 DEF When
  <2> HIDE DEF W, P
  <2>4. ASSUME NEW i \in DOMAIN schema
        PROVE  /\ ~SortWrong(schema[i]) /\ ~FilterWrong(schema[i]) /\ ~IndexWrong(schema[i])
               /\ ~RelationWrong(schema[i]) /\ ~StructNamesWrong(schema[i])
    BY <2>2 DEF When
  <2>5. ASSUME NEW i \in DOMAIN schema, NEW k \in MovingKeys(schema[i]) PROVE <<schema[i].name, k>> \in warned'
    BY <1>1, <1>2
  <2> QED
    BY <2>3, <2>4, <2>5
<1> QED
  BY <1>3, <1>4, <1>5, <1>6 DEF IInv

LEMMA PassedAgain ==
    ASSUME Passed, schema' = schema, warned' = warned, pc' = pc
    PROVE  Passed'
<1>1. PackageDecls' = PackageDecls
  BY DEF PackageDecls, EnumDecls
<1>2. pc = "accepted" =>
          /\ \A i \in DOMAIN schema :
                 /\ ~SortWrong(schema[i]) /\ ~FilterWrong(schema[i]) /\ ~IndexWrong(schema[i])
                 /\ ~RelationWrong(schema[i]) /\ ~StructNamesWrong(schema[i])
                 /\ \A k \in MovingKeys(schema[i]) : <<schema[i].name, k>> \in warned
          /\ \A d, c \in PackageDecls : d[1] = c[1] => d = c
  BY DEF Passed
<1> QED
  BY <1>1, <1>2 DEF Passed

LEMMA Idle == IInv /\ UNCHANGED vars => IInv'
<1> SUFFICES ASSUME IInv, UNCHANGED vars PROVE IInv'
  OBVIOUS
<1>1. doc' = doc /\ built' = built /\ schema' = schema /\ diags' = diags /\ warned' = warned /\ pc' = pc
  BY DEF vars
<1>2. Shape' /\ Complete' /\ RelationsHold' /\ ReferencesHold'
  BY <1>1 DEF IInv, Shape, Complete, RelationsHold, ReferencesHold
<1>3. Judged'
  BY <1>1 DEF IInv, Judged, Linked, SortFound
<1>4. Passed'
  BY <1>1, PassedAgain DEF IInv
<1> QED
  BY <1>2, <1>3, <1>4 DEF IInv

LEMMA Inductive == IInv /\ [Next]_vars => IInv'
BY Building, NothingToBuild, Sorting, Resolving, Referring, Returning, Validating, Idle DEF Next

(* Every diagnostic that was not given is a promise the later passes rely on. *)
THEOREM Invariant == Spec => []IInv
BY Starts, Inductive, PTL DEF Spec

-----------------------------------------------------------------------------
(* What the invariant says of an accepted schema *)

LEMMA OfAccepted ==
    ASSUME IInv, Accepted, NEW e \in ToSet(schema)
    PROVE  /\ \E m \in DOMAIN doc : /\ doc[m] \in EntityDoc /\ SameEntity(e, doc[m])
                                    /\ EntityBreaks(doc[m], Entity(doc[m]).fields) = {}
           /\ SortFound(e)
           /\ ~SortWrong(e) /\ ~FilterWrong(e) /\ ~RelationWrong(e) /\ ~StructNamesWrong(e)
           /\ \A k \in MovingKeys(e) : <<e.name, k>> \in warned
           /\ ToSet(e.sort) \cup ToSet(e.filters) \subseteq DOMAIN e.fields
           /\ \A r \in e.relations : /\ r.field \in DOMAIN e.pending /\ r.goName = GoName[r.name]
                                     /\ r.nullable = e.fields[r.field].nullable
<1>1. PICK i \in DOMAIN schema : e = schema[i]
  BY DEF ToSet
<1>2. pc = "accepted" /\ diags = {}
  BY DEF Accepted, IInv, Judged
<1>3. \E m \in DOMAIN doc : /\ doc[m] \in EntityDoc /\ SameEntity(e, doc[m])
                            /\ EntityBreaks(doc[m], Entity(doc[m]).fields) = {}
  BY <1>1, <1>2, Cleared
<1>4. SortFound(e)
  BY <1>1, <1>2 DEF IInv, Judged
<1>5. /\ ~SortWrong(e) /\ ~FilterWrong(e) /\ ~RelationWrong(e) /\ ~StructNamesWrong(e)
      /\ \A k \in MovingKeys(e) : <<e.name, k>> \in warned
  BY <1>1, <1>2 DEF IInv, Passed
<1>6. ToSet(e.sort) \cup ToSet(e.filters) \subseteq DOMAIN e.fields
  BY <1>1 DEF IInv, ReferencesHold
<1>7. \A r \in e.relations : /\ r.field \in DOMAIN e.pending /\ r.goName = GoName[r.name]
                             /\ r.nullable = e.fields[r.field].nullable
  BY <1>1 DEF IInv, RelationsHold
<1> QED
  BY <1>3, <1>4, <1>5, <1>6, <1>7

(* A column is nullable unless it is required or the key; a resolved relation *)
(* changes neither that nor its flags.                                        *)
LEMMA FlagsKept ==
    ASSUME NEW d \in EntityDoc, NEW e, SameEntity(e, d), NEW k \in DOMAIN e.fields
    PROVE  /\ e.fields[k].nullable <=> e.fields[k].flags \cap {"required", "pk"} = {}
           /\ e.fields[k].flags = Entity(d).fields[k].flags /\ e.fields[k].nullable = Entity(d).fields[k].nullable
           /\ e.fields[k].column = Entity(d).fields[k].column
<1> DEFINE n == Len(d.fields)
           b == BuildField(d, d.fields[k])
<1>1. DOMAIN e.fields = 1..n /\ \A j \in 1..n : \A x \in FieldKeys \ {"type"} :
          e.fields[j][x] = BuildField(d, d.fields[j])[x]
  BY SameEntityFacts
<1>2. Entity(d).fields[k] = b
  BY <1>1, BuiltFields
<1>3. b.nullable <=> b.flags \cap {"required", "pk"} = {}
  BY FieldFacts
<1> HIDE DEF b
<1>4. e.fields[k].nullable = b.nullable /\ e.fields[k].flags = b.flags /\ e.fields[k].column = b.column
  BY <1>1 DEF FieldKeys, b
<1> QED
  BY <1>2, <1>3, <1>4

LEMMA TypesFollow == IInv => TypeOK
<1> SUFFICES ASSUME IInv PROVE TypeOK
  OBVIOUS
<1>1. pc \in {"build", "relations", "references", "parsed", "frozen", "accepted", "rejected", "bug"}
      /\ Len(built) <= Len(doc) /\ doc \in Docs /\ DOMAIN built = 1..Len(built) /\ Len(built) \in Nat
      /\ \A i \in DOMAIN built : built[i] = Entity(doc[i])
  BY DEF IInv, Shape
<1>2. Len(doc) \in Nat /\ DOMAIN doc = 1..Len(doc) /\ \A i \in DOMAIN doc : doc[i] \in EntityDoc
  BY <1>1, DocFacts
<1>3. \A i \in DOMAIN built : built[i].name = doc[i].name
  <2>1. \A i \in DOMAIN built : i \in DOMAIN doc
    BY <1>1, <1>2
  <2> QED
    BY ZenonT(30), <1>1, <1>2, <2>1, EntityFacts
<1>4. Len(schema) \in {0, Len(doc)} /\ (pc # "build" => Len(schema) = Len(doc)) /\ (pc = "build" => DOMAIN schema = {})
  <2>1. Len(<< >>) = 0 /\ DOMAIN << >> = {}
    OBVIOUS
  <2> QED
    BY <2>1 DEF IInv, Shape
<1>5. ASSUME NEW i \in DOMAIN schema
      PROVE  /\ schema[i].pk \in DOMAIN schema[i].fields \cup {0}
             /\ schema[i].version \in DOMAIN schema[i].fields \cup {0}
  <2>1. pc # "build"
    BY <1>4, <1>5
  <2>2. PICK d \in EntityDoc : SameEntity(schema[i], d)
    BY <2>1, SchemaFacts
  <2> QED
    BY <2>2, SameEntityFacts
<1>6. \A i \in DOMAIN schema :
          /\ ToSet(schema[i].sort) \cup ToSet(schema[i].filters) \subseteq DOMAIN schema[i].fields
          /\ \A r \in schema[i].relations : r.target \in DOMAIN schema
  BY DEF IInv, ReferencesHold, RelationsHold
<1> QED
  BY <1>1, <1>3, <1>4, <1>5, <1>6 DEF TypeOK

(* Every pass keeps the entities of the file, and every index in range. *)
THEOREM TypeCorrect == Spec => []TypeOK
BY Invariant, TypesFollow, PTL

(* parse.go:117: the self-check that would blame lapigo finds nothing wrong   *)
(* with a schema the resolver let through, whatever the file says.            *)
THEOREM FreezeSucceeds == Spec => []FreezeNeverFails
<1>1. IInv => FreezeNeverFails
  BY DEF IInv, Shape, FreezeNeverFails
<1> QED
  BY <1>1, Invariant, PTL

(* relation.go: the type of a key reaches every column that refers to it,     *)
(* through any chain of keys that are foreign keys themselves.                *)
THEOREM ForeignKeysTyped == Spec => []ForeignKeysMatch
<1>1. IInv => ForeignKeysMatch
  BY DEF IInv, Judged, Linked, Accepted, ForeignKeysMatch
<1> QED
  BY <1>1, Invariant, PTL

(* Nobody is left to fill a column that may not be NULL: either lapigo, a     *)
(* default or the client does, and no ON DELETE clears it.                    *)
THEOREM NotNullColumnsFilled == Spec => []NotNullHolds
<1>1. IInv => NotNullHolds
  <2> SUFFICES ASSUME IInv, Accepted, NEW e \in ToSet(schema)
               PROVE  /\ \A k \in DOMAIN e.fields :
                             ~e.fields[k].nullable =>
                                 \/ e.fields[k].flags \cap {"pk", "version", "default"} # {}
                                 \/ CreateInputPresence(e.fields[k]) = "visible" /\ IsMandatory(e.fields[k])
                      /\ \A r \in e.relations :
                             r.onDelete = "SET NULL" => e.fields[r.field].flags \cap {"pk", "required"} = {}
    BY DEF NotNullHolds
  <2>1. PICK d \in EntityDoc : SameEntity(e, d) /\ EntityBreaks(d, Entity(d).fields) = {}
    BY OfAccepted
  <2>2. DOMAIN e.fields = 1..Len(d.fields) /\ DOMAIN e.pending \subseteq DOMAIN e.fields
    BY <2>1, SameEntityFacts
  <2>3. ASSUME NEW k \in DOMAIN e.fields, ~e.fields[k].nullable,
               e.fields[k].flags \cap {"pk", "version", "default"} = {}
        PROVE  CreateInputPresence(e.fields[k]) = "visible" /\ IsMandatory(e.fields[k])
    <3>1. "readonly" \notin e.fields[k].flags
      BY ZenonT(30), <2>1, <2>2, <2>3, FlagsKept, CleanEntity
    <3> QED
      BY <2>3, <3>1 DEF CreateInputPresence, IsMandatory
  <2>4. ASSUME NEW r \in e.relations, r.onDelete = "SET NULL"
        PROVE  e.fields[r.field].flags \cap {"pk", "required"} = {}
    <3>1. /\ ~RelationWrong(e)
          /\ r.field \in DOMAIN e.pending /\ r.nullable = e.fields[r.field].nullable
      BY OfAccepted
    <3>2. r.nullable
      BY <2>4, <3>1 DEF RelationWrong
    <3>3. r.field \in DOMAIN e.fields /\ e.fields[r.field].nullable
      BY <2>2, <3>1, <3>2
    <3> QED
      BY <2>1, <3>3, FlagsKept
  <2> QED
    BY <2>3, <2>4
<1> QED
  BY <1>1, Invariant, PTL

(* sort.go:133: every sort key an update can change is reported.              *)
THEOREM MovesWarned == Spec => []MovesAreWarned
<1>1. IInv => MovesAreWarned
  <2> SUFFICES ASSUME IInv, Accepted, NEW e \in ToSet(schema), NEW k \in ToSet(e.sort),
                      UpdateInputPresence(e.fields[k]) = "visible"
               PROVE  <<e.name, k>> \in warned
    BY DEF MovesAreWarned
  <2>1. k \in MovingKeys(e)
    BY DEF MovingKeys, UpdateInputPresence
  <2> QED
    BY <2>1, OfAccepted
<1> QED
  BY <1>1, Invariant, PTL

(* keyset.go and sort.go: what a cursor relies on.                            *)
THEOREM KeysetSound == Spec => []KeysetSafe
<1>1. IInv => KeysetSafe
  <2> SUFFICES ASSUME IInv, Accepted, NEW e \in ToSet(schema)
               PROVE  /\ e.sort # << >> /\ ~Twice(e.sort)
                      /\ e.fields[Last(e.sort)].flags \cap {"pk", "unique"} # {}
                      /\ \A k \in ToSet(e.sort) : /\ e.fields[k].flags \cap {"pk", "required"} # {}
                                                  /\ e.fields[k].type \notin {"decimal", "json"}
                      /\ \A c \in ToSet(doc) :
                             c.name = e.name /\ c.sort # Absent =>
                                 \A j \in DOMAIN c.sort : c.sort[j] = <<e.fields[e.sort[j]].name, e.desc>>
    BY DEF KeysetSafe
  <2>1. PICK m \in DOMAIN doc : /\ doc[m] \in EntityDoc /\ SameEntity(e, doc[m])
                                /\ EntityBreaks(doc[m], Entity(doc[m]).fields) = {}
    BY OfAccepted
  <2> DEFINE d == doc[m]
  <2>2. d \in EntityDoc /\ SameEntity(e, d) /\ EntityBreaks(d, Entity(d).fields) = {}
    BY <2>1
  <2>3. \A c \in ToSet(doc) : c.name = e.name => c = d
    <3>1. e.name = d.name
      BY <2>2, SameEntityFacts
    <3>2. \A i, j \in DOMAIN doc : doc[i].name = doc[j].name => i = j
      BY DocFacts DEF IInv, Shape
    <3> QED
      BY <2>1, <3>1, <3>2 DEF ToSet
  <2> HIDE DEF d
  <2>4. /\ SortFound(e) /\ ~SortWrong(e) /\ ToSet(e.sort) \subseteq DOMAIN e.fields
    BY OfAccepted
  <2>5. /\ e.sortNames = SortNames(d, Entity(d).fields) /\ e.pk = Entity(d).pk
        /\ e.desc = IF d.sort = Absent THEN TRUE ELSE d.sort # << >> /\ d.sort[1][2]
    <3>1. Entity(d).desc = IF d.sort = Absent THEN TRUE ELSE d.sort # << >> /\ d.sort[1][2]
      BY <2>2, EntityFacts
    <3>2. e.desc = Entity(d).desc /\ e.sortNames = SortNames(d, Entity(d).fields) /\ e.pk = Entity(d).pk
      BY <2>2, SameEntityFacts
    <3>3. e.desc = IF d.sort = Absent THEN TRUE ELSE d.sort # << >> /\ d.sort[1][2]
      BY <3>1, <3>2, Zenon
    <3> QED
      BY <3>2, <3>3, Zenon
  <2>6. /\ Entity(d).pk \in 1..Len(d.fields) /\ Len(d.fields) \in Nat
        /\ d.sort # Absent => /\ d.sort # << >>
                              /\ \A k \in DOMAIN d.sort : d.sort[k][2] = d.sort[1][2]
                              /\ ~Twice([k \in DOMAIN d.sort |-> d.sort[k][1]])
    BY <2>2, CleanEntity, EntityDocFacts
  <2>7. /\ e.sortNames \in Seq(Name)
        /\ d.sort # Absent => /\ d.sort \in Seq(Name \X BOOLEAN) /\ Len(e.sortNames) = Len(d.sort)
                              /\ DOMAIN e.sortNames = DOMAIN d.sort
                              /\ \A k \in DOMAIN d.sort : e.sortNames[k] = d.sort[k][1]
        /\ d.sort = Absent => e.sortNames = <<d.fields[Entity(d).pk].name>>
    BY <2>2, <2>5, <2>6, SortNamesFacts
  <2>8. Len(e.sortNames) > 0 /\ ~Twice(e.sortNames)
    <3>1. CASE d.sort = Absent
      <4>1. \A x : Len(<<x>>) = 1 /\ DOMAIN <<x>> = 1..1
        OBVIOUS
      <4>2. Len(e.sortNames) = 1 /\ DOMAIN e.sortNames = 1..1
        BY <2>7, <3>1, <4>1
      <4> QED
        BY <4>2 DEF Twice
    <3>2. CASE d.sort # Absent
      <4>1. Len(d.sort) > 0
        BY <2>6, <2>7, <3>2
      <4>2. ~Twice([k \in DOMAIN d.sort |-> d.sort[k][1]])
        BY <2>6, <3>2
      <4>3. ~Twice(e.sortNames)
        BY <2>7, <3>2, <4>2 DEF Twice
      <4> QED
        BY <2>7, <3>2, <4>1, <4>3
    <3> QED
      BY <3>1, <3>2
  <2>9. /\ DOMAIN e.sort = DOMAIN e.sortNames /\ Len(e.sort) = Len(e.sortNames)
        /\ \A j \in DOMAIN e.sort : e.fields[e.sort[j]].name = e.sortNames[j]
    BY <2>4 DEF SortFound
  <2>10. e.sort # << >> /\ ~Twice(e.sort)
    <3>1. e.sort # << >>
      BY <2>8, <2>9
    <3>2. ~Twice(e.sort)
      BY <2>8, <2>9 DEF Twice
    <3> QED
      BY <3>1, <3>2
  <2>11. e.fields[Last(e.sort)].flags \cap {"pk", "unique"} # {}
    BY <2>4, <2>10 DEF SortWrong
  <2>12. ASSUME NEW k \in ToSet(e.sort)
         PROVE  e.fields[k].flags \cap {"pk", "required"} # {} /\ e.fields[k].type \notin {"decimal", "json"}
    <3>1. ~e.fields[k].nullable /\ e.fields[k].type \notin {"decimal", "json"}
      BY <2>4 DEF SortWrong, IsSortEligible
    <3>2. k \in DOMAIN e.fields
      BY <2>4
    <3>3. e.fields[k].flags \cap {"required", "pk"} # {}
      BY <2>2, <3>1, <3>2, FlagsKept
    <3> QED
      BY <3>1, <3>3
  <2>13. ASSUME d.sort # Absent, NEW j \in DOMAIN d.sort PROVE d.sort[j] = <<e.fields[e.sort[j]].name, e.desc>>
    <3>1. d.sort \in Seq(Name \X BOOLEAN) /\ j \in 1..Len(d.sort) /\ 1 \in 1..Len(d.sort) /\ d.sort # << >>
      BY <2>6, <2>7, <2>13
    <3>2. d.sort[j] \in Name \X BOOLEAN /\ d.sort[1] \in Name \X BOOLEAN
      BY <3>1
    <3>3. d.sort[j] = <<d.sort[j][1], d.sort[j][2]>> /\ d.sort[j][2] = d.sort[1][2] /\ d.sort[1][2] \in BOOLEAN
      BY <2>6, <2>13, <3>2
    <3>4. e.desc = d.sort[1][2]
      <4>1. e.desc = (d.sort # << >> /\ d.sort[1][2])
        BY <2>5, <2>13
      <4> QED
        BY ONLY <3>1, <3>3, <4>1, Zenon
    <3>5. d.sort[j][1] = e.fields[e.sort[j]].name
      BY <2>7, <2>9, <2>13
    <3> QED
      BY <3>3, <3>4, <3>5
  <2> QED
    BY <2>3, <2>10, <2>11, <2>12, <2>13
<1> QED
  BY <1>1, Invariant, PTL

LEMMA EnumCompared ==
    ASSUME NEW i \in DOMAIN schema, NEW k \in DOMAIN schema[i].fields, NEW y \in EnumDecls(i, k)
    PROVE  y \in PackageDecls
<1> DEFINE U(j) == UNION {EnumDecls(j, l) : l \in DOMAIN schema[j].fields}
<1>1. y \in U(i)
  OBVIOUS
<1>2. UNION {U(j) : j \in DOMAIN schema} \subseteq PackageDecls
  BY Zenon DEF PackageDecls
<1> HIDE DEF U
<1> QED
  BY <1>1, <1>2

(* The declarations the file asks for are those Validate has compared, under  *)
(* the places of the sorted schema.                                           *)
LEMMA DeclaredIsCompared ==
    ASSUME IInv, Accepted, NEW x \in Declared
    PROVE  \E g, i, s, k, v : /\ x = <<g, i, k, v>> /\ i \in DOMAIN doc /\ s \in DOMAIN schema
                              /\ schema[s].name = doc[i].name
                              /\ <<g, s, k, v>> \in PackageDecls
<1>1. pc # "build" /\ diags = {} /\ DOMAIN built = DOMAIN doc
  BY SchemaFacts DEF Accepted, IInv, Judged, Shape
<1>2. ASSUME NEW i \in DOMAIN doc
      PROVE  /\ doc[i] \in EntityDoc /\ EntityBreaks(doc[i], Entity(doc[i]).fields) = {}
             /\ \E s \in DOMAIN schema : SameEntity(schema[s], doc[i])
  <2>1. doc[i] \in EntityDoc
    BY <1>1, SchemaFacts
  <2>2. EntityBreaks(doc[i], Entity(doc[i]).fields) = {}
    BY <1>1 DEF IInv, Judged
  <2>3. \E s \in DOMAIN schema : SameEntity(schema[s], doc[i])
    BY <1>1 DEF IInv, Complete
  <2> QED
    BY <2>1, <2>2, <2>3
<1>3. CASE \E i \in DOMAIN doc : x = <<GoName[doc[i].name], i, 0, 0>>
  <2>1. PICK i \in DOMAIN doc : x = <<GoName[doc[i].name], i, 0, 0>>
    BY <1>3
  <2>2. PICK s \in DOMAIN schema : SameEntity(schema[s], doc[i])
    BY <1>2
  <2>3. schema[s].name = doc[i].name /\ schema[s].goName = GoName[doc[i].name]
    BY <1>2, <2>2, SameEntityFacts
  <2>4. <<schema[s].goName, s, 0, 0>> \in PackageDecls
    BY DEF PackageDecls
  <2> QED
    BY <2>1, <2>3, <2>4
<1>4. CASE \E i \in DOMAIN doc : \E k \in DOMAIN doc[i].fields :
               LET f == doc[i].fields[k]
                   type == GoName[doc[i].name] \o GoName[f.name]
               IN  /\ f.type = "enum"
                   /\ \/ x = <<type, i, k, 0>>
                      \/ \E v \in DOMAIN f.values : x = <<type \o GoName[f.values[v]], i, k, v>>
  <2>1. PICK i \in DOMAIN doc : \E k \in DOMAIN doc[i].fields :
               LET f == doc[i].fields[k]
                   type == GoName[doc[i].name] \o GoName[f.name]
               IN  /\ f.type = "enum"
                   /\ \/ x = <<type, i, k, 0>>
                      \/ \E v \in DOMAIN f.values : x = <<type \o GoName[f.values[v]], i, k, v>>
    BY <1>4
  <2> DEFINE d == doc[i]
  <2>2. PICK k \in DOMAIN d.fields :
               LET f == d.fields[k]
                   type == GoName[d.name] \o GoName[f.name]
               IN  /\ f.type = "enum"
                   /\ \/ x = <<type, i, k, 0>>
                      \/ \E v \in DOMAIN f.values : x = <<type \o GoName[f.values[v]], i, k, v>>
    BY <2>1
  <2>3. PICK s \in DOMAIN schema : SameEntity(schema[s], d)
    BY <1>2
  <2>4. d \in EntityDoc /\ EntityBreaks(d, Entity(d).fields) = {}
    BY <1>2
  <2> DEFINE a == schema[s]
             f == d.fields[k]
             g == a.fields[k]
             type == GoName[d.name] \o GoName[f.name]
  <2>5. f.type = "enum" /\ \/ x = <<type, i, k, 0>>
                           \/ \E v \in DOMAIN f.values : x = <<type \o GoName[f.values[v]], i, k, v>>
    BY <2>2
  <2>6. SameEntity(a, d)
    BY <2>3
  <2> HIDE DEF d, a, f, g, type
  <2>7. k \in 1..Len(d.fields) /\ f.values # << >>
    <3>1. k \in 1..Len(d.fields)
      BY <2>2, <2>4, EntityDocFacts
    <3>2. f.type = "enum" => f.values # << >>
      BY <2>4, <3>1, CleanEntity DEF f
    <3> QED
      BY <2>5, <3>1, <3>2
  <2>8. /\ a.name = d.name /\ k \in DOMAIN a.fields
        /\ \A y \in FieldKeys \ {"type"} : a.fields[k][y] = BuildField(d, f)[y]
        /\ k \notin DOMAIN a.pending => a.fields[k].type = BuildField(d, f).type
        /\ k \in DOMAIN a.pending => f.type = "belongsTo"
    BY <2>4, <2>6, <2>7, SameEntityFacts DEF f
  <2>9. /\ BuildField(d, f).type = "enum" /\ BuildField(d, f).values = f.values
        /\ BuildField(d, f).enumGoType = GoName[d.name] \o GoName[f.name]
    BY <2>5, <2>7, FieldFacts DEF IsBelongsTo
  <2>10. g.type = "enum" /\ g.values = f.values /\ g.enumGoType = type
    BY <2>5, <2>8, <2>9 DEF FieldKeys, g, type
  <2>11. EnumDecls(s, k) = {<<type, s, k, 0>>} \cup {<<type \o GoName[f.values[v]], s, k, v>> : v \in DOMAIN f.values}
    <3>1. EnumDecls(s, k) = {<<g.enumGoType, s, k, 0>>} \cup
                            {<<g.enumGoType \o GoName[g.values[v]], s, k, v>> : v \in DOMAIN g.values}
      BY <2>10 DEF EnumDecls, g, a
    <3> QED
      BY <2>10, <3>1
  <2>12. \A y \in EnumDecls(s, k) : y \in PackageDecls
    <3>1. k \in DOMAIN schema[s].fields
      BY <2>8 DEF a
    <3> QED
      BY <2>3, <3>1, EnumCompared
  <2>13. schema[s].name = doc[i].name
    BY <2>8 DEF a, d
  <2>14. CASE x = <<type, i, k, 0>>
    <3>1. <<type, s, k, 0>> \in PackageDecls
      BY <2>11, <2>12
    <3> QED
      BY <2>13, <2>14, <3>1
  <2>15. CASE \E v \in DOMAIN f.values : x = <<type \o GoName[f.values[v]], i, k, v>>
    <3>1. PICK v \in DOMAIN f.values : x = <<type \o GoName[f.values[v]], i, k, v>>
      BY <2>15
    <3>2. <<type \o GoName[f.values[v]], s, k, v>> \in PackageDecls
      BY <2>11, <2>12
    <3> QED
      BY <2>13, <3>1, <3>2
  <2> QED
    BY <2>5, <2>14, <2>15
<1> DEFINE E(i, k) == LET f == doc[i].fields[k]
                          type == GoName[doc[i].name] \o GoName[f.name]
                      IN  IF f.type # "enum" THEN {}
                          ELSE {<<type, i, k, 0>>} \cup
                               {<<type \o GoName[f.values[v]], i, k, v>> : v \in DOMAIN f.values}
           U(i) == UNION {E(i, k) : k \in DOMAIN doc[i].fields}
<1>5. x \in {<<GoName[doc[i].name], i, 0, 0>> : i \in DOMAIN doc} \/ x \in UNION {U(i) : i \in DOMAIN doc}
  BY Zenon DEF Declared
<1>6. CASE x \in UNION {U(i) : i \in DOMAIN doc}
  <2> HIDE DEF E, U
  <2>1. PICK i \in DOMAIN doc : x \in U(i)
    BY <1>6
  <2>2. PICK k \in DOMAIN doc[i].fields : x \in E(i, k)
    BY <2>1 DEF U
  <2>3. LET f == doc[i].fields[k]
            type == GoName[doc[i].name] \o GoName[f.name]
        IN  /\ f.type = "enum"
            /\ \/ x = <<type, i, k, 0>>
               \/ \E v \in DOMAIN f.values : x = <<type \o GoName[f.values[v]], i, k, v>>
    BY <2>2 DEF E
  <2> QED
    BY <1>4, <2>3
<1> QED
  BY <1>3, <1>5, <1>6

(* validate/names.go, validate/filter.go, schema.go, entity.go: the names the *)
(* front end compares, each kind with its own, are distinct once a schema is  *)
(* accepted.  Names the templates derive from them are not among these.       *)
THEOREM NamesNeverClash == Spec => []NamesDistinct
<1>1. ASSUME IInv, Accepted PROVE ~Clashes(Declared)
  <2> SUFFICES ASSUME NEW x \in Declared, NEW y \in Declared, x[1] = y[1] PROVE x = y
    BY DEF Clashes
  <2>1. \A d, c \in PackageDecls : d[1] = c[1] => d = c
    BY <1>1 DEF IInv, Passed, Accepted
  <2>2. PICK g, i, s, k, v : /\ x = <<g, i, k, v>> /\ i \in DOMAIN doc /\ s \in DOMAIN schema
                             /\ schema[s].name = doc[i].name /\ <<g, s, k, v>> \in PackageDecls
    BY <1>1, DeclaredIsCompared
  <2>3. PICK h, j, q, l, w : /\ y = <<h, j, l, w>> /\ j \in DOMAIN doc /\ q \in DOMAIN schema
                             /\ schema[q].name = doc[j].name /\ <<h, q, l, w>> \in PackageDecls
    BY <1>1, DeclaredIsCompared
  <2>4. g = h
    BY <2>2, <2>3
  <2>5. <<g, s, k, v>> = <<h, q, l, w>>
    BY <2>1, <2>2, <2>3, <2>4
  <2>6. s = q /\ k = l /\ v = w
    BY <2>5
  <2>7. i = j
    BY <1>1, <2>2, <2>3, <2>6, DocFacts DEF IInv, Shape
  <2> QED
    BY <2>2, <2>3, <2>4, <2>6, <2>7
<1>2. ASSUME IInv, Accepted PROVE ~Twice([i \in DOMAIN schema |-> schema[i].table])
  <2>1. \A i, j \in DOMAIN schema : schema[i].table = schema[j].table => i = j
    BY <1>2 DEF IInv, Judged, Accepted
  <2>2. DOMAIN schema \subseteq Nat
    BY <1>2, SchemaFacts DEF Accepted
  <2> QED
    BY <2>1, <2>2 DEF Twice
<1>3. ASSUME IInv, Accepted, NEW e \in ToSet(schema)
      PROVE  /\ \A j, k \in DOMAIN e.fields :
                    j # k => e.fields[j].column # e.fields[k].column /\ e.fields[j].goName # e.fields[k].goName
             /\ \A r \in e.relations :
                    /\ \A k \in DOMAIN e.fields : GoName[r.name] # e.fields[k].goName
                    /\ \A s \in e.relations : r.field # s.field => GoName[r.name] # GoName[s.name]
                    /\ GoName[r.name] # <<"Validate">>
             /\ \A f \in ToSet(e.fields) : f.goName # <<"Validate">>
             /\ \A k \in ToSet(e.filters) : e.fields[k].column \notin {"limit", "after"}
             /\ ~Twice(e.endpoints)
  <2>1. PICK d \in EntityDoc : SameEntity(e, d) /\ EntityBreaks(d, Entity(d).fields) = {}
    BY <1>3, OfAccepted
  <2>2. Len(d.fields) \in Nat /\ DOMAIN e.fields = 1..Len(d.fields) /\ e.endpoints = Entity(d).endpoints
    BY <2>1, SameEntityFacts
  <2>3. \A j, k \in DOMAIN e.fields : j # k => e.fields[j].column # e.fields[k].column
    <3>1. \A k \in DOMAIN e.fields : e.fields[k].column = Entity(d).fields[k].column
      BY <2>1, FlagsKept
    <3>2. \A j, k \in 1..Len(d.fields) : Entity(d).fields[j].column = Entity(d).fields[k].column => j = k
      BY <2>1, CleanEntity
    <3> QED
      BY <2>2, <3>1, <3>2
  <2>4. /\ ~StructNamesWrong(e) /\ ~FilterWrong(e) /\ \A r \in e.relations : r.goName = GoName[r.name]
    BY <1>3, OfAccepted
  <2>5. \A j, k \in DOMAIN e.fields : j # k => e.fields[j].goName # e.fields[k].goName
    <3>1. ~Twice([k \in DOMAIN e.fields |-> e.fields[k].goName])
      BY <2>4 DEF StructNamesWrong
    <3>2. \A j, k \in 1..Len(d.fields) : j < k => e.fields[j].goName # e.fields[k].goName
      BY <2>2, <3>1 DEF Twice
    <3> QED
      BY <2>2, <3>2
  <2>6. \A r \in e.relations :
            /\ \A k \in DOMAIN e.fields : GoName[r.name] # e.fields[k].goName
            /\ \A s \in e.relations : r.field # s.field => GoName[r.name] # GoName[s.name]
            /\ GoName[r.name] # <<"Validate">>
    <3>1. \A r \in e.relations : r.goName = GoName[r.name]
      BY <2>4
    <3>2. \A r \in e.relations : \A k \in DOMAIN e.fields : e.fields[k].goName # r.goName
      BY <2>4 DEF StructNamesWrong
    <3>3. \A r, s \in e.relations : r.field # s.field => r.goName # s.goName
      BY <2>4 DEF StructNamesWrong
    <3>4. \A r \in e.relations : r.goName # <<"Validate">>
      BY <2>4 DEF StructNamesWrong
    <3> QED
      BY <3>1, <3>2, <3>3, <3>4
  <2>7. \A f \in ToSet(e.fields) : f.goName # <<"Validate">>
    <3>1. \A k \in DOMAIN e.fields : e.fields[k].goName # <<"Validate">>
      BY <2>4 DEF StructNamesWrong
    <3> QED
      BY <3>1 DEF ToSet
  <2>8. \A k \in ToSet(e.filters) : e.fields[k].column \notin {"limit", "after"}
    BY <2>4 DEF FilterWrong
  <2>9. ~Twice(e.endpoints)
    <3>1. ~Twice(EndpointKind)
      BY DEF Twice, EndpointKind
    <3>2. Entity(d).endpoints = IF d.endpoints = Absent THEN EndpointKind ELSE d.endpoints
      BY EntityFacts
    <3>3. d.endpoints # Absent => ~Twice(d.endpoints)
      BY <2>1, CleanEntity
    <3> QED
      BY <2>2, <3>1, <3>2, <3>3
  <2> QED
    BY <2>3, <2>5, <2>6, <2>7, <2>8, <2>9
<1>4. IInv => NamesDistinct
  BY <1>1, <1>2, <1>3 DEF NamesDistinct
<1> QED
  BY <1>4, Invariant, PTL
=============================================================================
