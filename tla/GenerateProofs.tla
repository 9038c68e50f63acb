---------------------------- MODULE GenerateProofs ----------------------------
(* Theorems about Generate, for every set of schema files that the YAML      *)
(* parser can read.                                                          *)
EXTENDS Generate, SchemaProofs

-----------------------------------------------------------------------------
(* The plan *)

Planned == ToSet(ModelFiles) \cup ToSet(HooksFiles)

OptionalFile == File("model", "optional", {"encoding/json"}, 0)
ErrorFile == File("hooks", "error", {"fmt", "net/http"}, 0)
ModelFile(i) == File("model", schema[i].name, ModelImports(schema[i]), i)
HooksFile(i) == File("hooks", schema[i].name, HooksImports(schema[i]), i)

Written == {i \in DOMAIN schema : WriteOperations(schema[i]) # << >>}

LEMMA JoinedSet ==
    ASSUME NEW s, s \in Seq(ToSet(s)), NEW t, t \in Seq(ToSet(t))
    PROVE  /\ s \o t \in Seq(ToSet(s \o t)) /\ ToSet(s \o t) = ToSet(s) \cup ToSet(t)
           /\ Len(s) > 0 => Len(s \o t) > 0
<1>1. /\ s \o t \in Seq(ToSet(s \o t)) /\ Len(s \o t) = Len(s) + Len(t)
      /\ Len(s) \in Nat /\ Len(t) \in Nat
      /\ DOMAIN s = 1..Len(s) /\ DOMAIN (s \o t) = 1..(Len(s) + Len(t))
      /\ \A j \in 1..Len(s) : (s \o t)[j] = s[j]
      /\ \A j \in 1..Len(t) : (s \o t)[Len(s) + j] = t[j]
  BY Joining
<1> DEFINE u == s \o t
           m == Len(s)
           k == Len(t)
<1>2. DOMAIN t = 1..k
  OBVIOUS
<1> HIDE DEF u, m, k
<1>3. m \in Nat /\ k \in Nat /\ DOMAIN s = 1..m /\ DOMAIN u = 1..(m + k)
      /\ (\A j \in 1..m : u[j] = s[j]) /\ \A j \in 1..k : u[m + j] = t[j]
  BY <1>1 DEF u, m, k
<1>4. \A x \in ToSet(u) : x \in ToSet(s) \cup ToSet(t)
  <2> SUFFICES ASSUME NEW j \in 1..(m + k) PROVE u[j] \in ToSet(s) \cup ToSet(t)
    BY <1>3 DEF ToSet
  <2>1. CASE j <= m
    <3>1. j \in 1..m
      BY <1>3, <2>1
    <3> QED
      BY <1>3, <3>1 DEF ToSet
  <2>2. CASE ~(j <= m)
    <3>1. j - m \in 1..k /\ m + (j - m) = j
      BY <1>3, <2>2
    <3> QED
      BY <1>2, <1>3, <3>1 DEF ToSet
  <2> QED
    BY <2>1, <2>2
<1>5. \A x \in ToSet(s) \cup ToSet(t) : x \in ToSet(u)
  <2>1. \A j \in 1..m : j \in 1..(m + k)
    BY <1>3
  <2>2. \A j \in 1..k : m + j \in 1..(m + k)
    BY <1>3
  <2> QED
    BY <1>2, <1>3, <2>1, <2>2 DEF ToSet
<1> QED
  BY <1>1, <1>4, <1>5 DEF u

LEMMA WriteOperationsFacts ==
    ASSUME NEW e
    PROVE  /\ WriteOperations(e) \in Seq({"create", "update", "delete"})
           /\ ToSet(WriteOperations(e)) = {"create", "update", "delete"} \cap ToSet(e.endpoints)
           /\ WriteOperations(e) = << >> <=> ToSet(WriteOperations(e)) = {}
<1> DEFINE O == {"create", "update", "delete"}
           s == <<"create", "update", "delete">>
           W == WriteOperations(e)
<1>1. s \in Seq(O) /\ ToSet(s) = O
  <2>1. s \in Seq(O) /\ DOMAIN s = 1..3 /\ s[1] = "create" /\ s[2] = "update" /\ s[3] = "delete"
    OBVIOUS
  <2>2. 1..3 = {1, 2, 3}
    OBVIOUS
  <2> HIDE DEF s
  <2> QED
    BY <2>1, <2>2 DEF ToSet
<1>2. W = Outside(s, O \ ToSet(e.endpoints))
  BY DEF WriteOperations
<1> HIDE DEF s, O, W
<1>3. W \in Seq(O \ (O \ ToSet(e.endpoints))) /\ ToSet(W) = ToSet(s) \ (O \ ToSet(e.endpoints))
  BY <1>1, <1>2, OutsideFacts
<1>4. W \in Seq(O) /\ ToSet(W) = O \cap ToSet(e.endpoints)
  BY <1>1, <1>3
<1>5. W = << >> <=> ToSet(W) = {}
  BY <1>4 DEF ToSet
<1> QED
  BY <1>4, <1>5 DEF O, W

LEMMA FileFacts ==
    ASSUME NEW package, NEW name, NEW imports, NEW i
    PROVE  LET f == File(package, name, imports, i) IN
           /\ f.path = <<package, name>> /\ f.path[1] = package /\ f.path[2] = name
           /\ f.imports = imports /\ f.entity = i
BY DEF File

LEMMA JoinedOnce ==
    ASSUME NEW s, s \in Seq(ToSet(s)), NEW t, t \in Seq(ToSet(t)), NoRepeats(s), NoRepeats(t),
           ToSet(s) \cap ToSet(t) = {}
    PROVE  NoRepeats(s \o t)
<1>1. /\ s \o t \in Seq(ToSet(s \o t)) /\ Len(s \o t) = Len(s) + Len(t)
      /\ Len(s) \in Nat /\ Len(t) \in Nat
      /\ DOMAIN s = 1..Len(s) /\ DOMAIN (s \o t) = 1..(Len(s) + Len(t))
      /\ \A j \in 1..Len(s) : (s \o t)[j] = s[j]
      /\ \A j \in 1..Len(t) : (s \o t)[Len(s) + j] = t[j]
  BY Joining
<1> DEFINE u == s \o t
           m == Len(s)
           k == Len(t)
<1>2. DOMAIN t = 1..k
  OBVIOUS
<1> HIDE DEF u, m, k
<1>3. m \in Nat /\ k \in Nat /\ DOMAIN s = 1..m /\ DOMAIN u = 1..(m + k)
      /\ (\A j \in 1..m : u[j] = s[j]) /\ \A j \in 1..k : u[m + j] = t[j]
  BY <1>1 DEF u, m, k
<1>4. \A j \in 1..(m + k) : j \in 1..m \/ (j - m \in 1..k /\ m + (j - m) = j)
  BY <1>3
<1>5. (\A j \in 1..m : s[j] \in ToSet(s)) /\ \A j \in 1..k : t[j] \in ToSet(t)
  BY <1>2, <1>3 DEF ToSet
<1>6. ASSUME NEW i \in 1..(m + k), NEW j \in 1..(m + k), u[i] = u[j] PROVE i = j
  <2>1. CASE i \in 1..m /\ j \in 1..m
    BY <1>3, <1>6, <2>1 DEF NoRepeats
  <2>2. CASE i \in 1..m /\ j \notin 1..m
    BY ZenonT(30), <1>3, <1>4, <1>5, <1>6, <2>2
  <2>3. CASE i \notin 1..m /\ j \in 1..m
    BY ZenonT(30), <1>3, <1>4, <1>5, <1>6, <2>3
  <2>4. CASE i \notin 1..m /\ j \notin 1..m
    <3>1. i - m \in 1..k /\ j - m \in 1..k /\ u[i] = t[i - m] /\ u[j] = t[j - m]
      BY <1>3, <1>4, <2>4
    <3>2. i - m = j - m
      BY <1>2, <1>6, <3>1 DEF NoRepeats
    <3> QED
      BY <1>3, <3>2
  <2> QED
    BY <2>1, <2>2, <2>3, <2>4
<1> QED
  BY <1>3, <1>6 DEF NoRepeats, u

LEMMA PlanFacts ==
    ASSUME Len(schema) \in Nat, DOMAIN schema = 1..Len(schema)
    PROVE  /\ ModelFiles \o HooksFiles \in Seq(Planned) /\ ModelFiles \o HooksFiles # << >>
           /\ ToSet(ModelFiles \o HooksFiles) = Planned /\ NoRepeats(ModelFiles \o HooksFiles)
           /\ Planned = {OptionalFile, ErrorFile} \cup {ModelFile(i) : i \in DOMAIN schema}
                        \cup {HooksFile(i) : i \in Written}
<1> DEFINE n == Len(schema)
           D == DOMAIN schema
           ids == [i \in D |-> i]
           X == {i \in D : WriteOperations(schema[i]) = << >>}
           written == Outside(ids, X)
           M == [i \in D |-> ModelFile(i)]
           H == [j \in DOMAIN written |-> HooksFile(written[j])]
<1>1. ModelFiles = <<OptionalFile>> \o M
  BY DEF ModelFiles, OptionalFile, ModelFile
<1>2. HooksFiles = <<ErrorFile>> \o H
  BY DEF HooksFiles, ErrorFile, HooksFile
<1>3. ids \in Seq(D) /\ ToSet(ids) = D
  <2>1. ids = [i \in 1..n |-> ids[i]]
    OBVIOUS
  <2>2. ids \in [1..n -> D]
    OBVIOUS
  <2>3. \A i \in 1..n : ids[i] = i
    OBVIOUS
  <2> HIDE DEF ids
  <2>4. ids \in Seq(D)
    BY <2>2
  <2> QED
    BY <2>2, <2>3, <2>4 DEF ToSet
<1>0. NoRepeats(ids)
  BY DEF NoRepeats
<1> HIDE DEF ids
<1>4. written \in Seq(D) /\ ToSet(written) = Written /\ NoRepeats(written)
  <2>1. written \in Seq(D \ X) /\ ToSet(written) = ToSet(ids) \ X /\ NoRepeats(written)
    BY <1>0, <1>3, OutsideFacts
  <2>2. D \ X = Written
    BY DEF Written
  <2> HIDE DEF written, X, D
  <2>3. written \in Seq(D)
    BY <2>1
  <2> QED
    BY <1>3, <2>1, <2>2, <2>3
<1> HIDE DEF written
<1>5. M \in Seq(ToSet(M)) /\ Len(M) = n /\ ToSet(M) = {ModelFile(i) : i \in D}
  <2>1. M = [i \in 1..n |-> M[i]]
    OBVIOUS
  <2>2. M \in Seq(ToSet(M)) /\ Len(M) = n
    BY <2>1, LengthIs
  <2>3. ToSet(M) = {ModelFile(i) : i \in D}
    BY DEF ToSet
  <2> QED
    BY <2>2, <2>3
<1>6. H \in Seq(ToSet(H)) /\ ToSet(H) = {HooksFile(i) : i \in Written}
  <2>1. Len(written) \in Nat /\ DOMAIN written = 1..Len(written)
    BY <1>4
  <2>2. H = [j \in 1..Len(written) |-> H[j]]
    BY <2>1
  <2>3. H \in Seq(ToSet(H))
    BY <2>1, <2>2, LengthIs
  <2>4. ToSet(H) = {HooksFile(written[j]) : j \in DOMAIN written}
    BY DEF ToSet
  <2>5. Written = {written[j] : j \in DOMAIN written}
    BY <1>4 DEF ToSet
  <2> QED
    BY <2>3, <2>4, <2>5
<1>11. NoRepeats(M) /\ \A f \in ToSet(M) : f.path[1] = "model" /\ f.entity \in D
  <2>1. \A i \in D : M[i].path[1] = "model" /\ M[i].entity = i
    BY FileFacts DEF ModelFile
  <2>2. DOMAIN M = D
    OBVIOUS
  <2> HIDE DEF M
  <2> QED
    BY <2>1, <2>2 DEF NoRepeats, ToSet
<1>12. NoRepeats(H) /\ \A f \in ToSet(H) : f.path[1] = "hooks" /\ f.entity \in D
  <2>1. \A j \in DOMAIN written : H[j].path[1] = "hooks" /\ H[j].entity = written[j]
    BY FileFacts DEF HooksFile
  <2>2. DOMAIN H = DOMAIN written /\ \A j \in DOMAIN written : written[j] \in D
    BY <1>4
  <2> HIDE DEF H
  <2> QED
    BY <1>4, <2>1, <2>2 DEF NoRepeats, ToSet
<1> HIDE DEF M, H
<1>7. ASSUME NEW f, NEW s, s \in Seq(ToSet(s))
      PROVE  /\ <<f>> \o s \in Seq(ToSet(<<f>> \o s)) /\ ToSet(<<f>> \o s) = {f} \cup ToSet(s)
             /\ Len(<<f>> \o s) > 0
             /\ NoRepeats(s) /\ f \notin ToSet(s) => NoRepeats(<<f>> \o s)
  <2> DEFINE one == <<f>>
  <2>1. one \in Seq(ToSet(one)) /\ Len(one) = 1 /\ ToSet(one) = {f} /\ NoRepeats(one)
    BY DEF ToSet, NoRepeats
  <2> HIDE DEF one
  <2>2. one \o s \in Seq(ToSet(one \o s)) /\ ToSet(one \o s) = {f} \cup ToSet(s) /\ Len(one \o s) > 0
    BY SMTT(20), <1>7, <2>1, JoinedSet
  <2>3. NoRepeats(s) /\ f \notin ToSet(s) => NoRepeats(one \o s)
    BY <1>7, <2>1, JoinedOnce
  <2> QED
    BY <2>2, <2>3 DEF one
<1>8. /\ ModelFiles \in Seq(ToSet(ModelFiles)) /\ ToSet(ModelFiles) = {OptionalFile} \cup ToSet(M)
      /\ HooksFiles \in Seq(ToSet(HooksFiles)) /\ ToSet(HooksFiles) = {ErrorFile} \cup ToSet(H)
      /\ Len(ModelFiles) > 0
  BY <1>1, <1>2, <1>5, <1>6, <1>7
<1> DEFINE P == ModelFiles \o HooksFiles
<1>9. P \in Seq(ToSet(P)) /\ ToSet(P) = Planned /\ Len(P) > 0
  BY <1>8, JoinedSet DEF Planned
<1>10. P # << >>
  BY <1>9
<1>13. NoRepeats(P)
  <2>1. OptionalFile.path[1] = "model" /\ OptionalFile.entity = 0 /\ ErrorFile.path[1] = "hooks" /\ ErrorFile.entity = 0
    BY FileFacts DEF OptionalFile, ErrorFile
  <2>2. 0 \notin D
    OBVIOUS
  <2>3. OptionalFile \notin ToSet(M) /\ ErrorFile \notin ToSet(H)
    BY <1>11, <1>12, <2>1, <2>2
  <2>4. NoRepeats(ModelFiles) /\ NoRepeats(HooksFiles)
    BY <1>1, <1>2, <1>5, <1>6, <1>7, <1>11, <1>12, <2>3
  <2>5. (\A f \in ToSet(ModelFiles) : f.path[1] = "model") /\ \A f \in ToSet(HooksFiles) : f.path[1] = "hooks"
    BY <1>8, <1>11, <1>12, <2>1
  <2>6. ToSet(ModelFiles) \cap ToSet(HooksFiles) = {}
    <3>1. "model" # "hooks"
      OBVIOUS
    <3> QED
      BY <2>5, <3>1
  <2> QED
    BY <1>8, <2>4, <2>6, JoinedOnce
<1> QED
  BY <1>5, <1>6, <1>8, <1>9, <1>10, <1>13 DEF Planned

-----------------------------------------------------------------------------
(* What is rendered of a planned file *)

LEMMA RenderedFiles ==
    ASSUME DOMAIN schema = 1..Len(schema), Len(schema) \in Nat
    PROVE  /\ Render(OptionalFile) = RenderOptional(OptionalFile)
           /\ Render(ErrorFile) = RenderError(ErrorFile)
           /\ \A i \in DOMAIN schema : /\ Render(ModelFile(i)) = RenderModel(ModelFile(i))
                                       /\ Render(HooksFile(i)) = RenderHooks(HooksFile(i))
<1>1. "model" # "hooks" /\ 0 \notin DOMAIN schema
  OBVIOUS
<1>2. OptionalFile.path[1] = "model" /\ OptionalFile.entity = 0
  BY FileFacts DEF OptionalFile
<1>3. ErrorFile.path[1] = "hooks" /\ ErrorFile.entity = 0
  BY FileFacts DEF ErrorFile
<1>4. ASSUME NEW i \in DOMAIN schema
      PROVE  /\ ModelFile(i).path[1] = "model" /\ ModelFile(i).entity # 0
             /\ HooksFile(i).path[1] = "hooks" /\ HooksFile(i).entity # 0
  BY <1>1, FileFacts DEF ModelFile, HooksFile
<1>5. Render(OptionalFile) = RenderOptional(OptionalFile)
  BY <1>1, <1>2 DEF Render
<1>6. Render(ErrorFile) = RenderError(ErrorFile)
  BY <1>1, <1>3 DEF Render
<1>7. ASSUME NEW i \in DOMAIN schema
      PROVE  Render(ModelFile(i)) = RenderModel(ModelFile(i)) /\ Render(HooksFile(i)) = RenderHooks(HooksFile(i))
  <2>1. Render(ModelFile(i)) = RenderModel(ModelFile(i))
    BY <1>1, <1>4 DEF Render
  <2>2. Render(HooksFile(i)) = RenderHooks(HooksFile(i))
    BY <1>1, <1>4 DEF Render
  <2> QED
    BY <2>1, <2>2
<1> QED
  BY <1>5, <1>6, <1>7

(* plan.go and internal/ir/types.go agree: the imports of a field's type are  *)
(* the packages its printed type names, other than the package printed in.    *)
LEMMA TypeImports ==
    ASSUME NEW f, NEW package \in {"model", "hooks"}
    PROVE  {r[1] : r \in GoType(package, f)} \ {package} = ImportsForFieldType(f.type)
<1> DEFINE t == f.type
<1>1. CASE t = "enum"
  <2>1. ImportsForFieldType(t) = {}
    BY <1>1 DEF ImportsForFieldType
  <2>2. GoType(package, f) = {<<package, f.enumGoType>>}
    BY <1>1 DEF GoType
  <2> QED
    BY <2>1, <2>2
<1>2. CASE t # "enum"
  <2>1. ImportsForFieldType(t) = IF TypePackage(t) = "" THEN {} ELSE {TypePackage(t)}
    BY DEF ImportsForFieldType, TypePackage
  <2>2. TypePackage(t) \notin {"model", "hooks"}
    BY DEF TypePackage
  <2>3. GoType(package, f) = IF TypePackage(t) = "" THEN {} ELSE {<<TypePackage(t), <<t>>>>}
    BY <1>2 DEF GoType
  <2> DEFINE P == TypePackage(t)
  <2> HIDE DEF P
  <2>4. CASE P = ""
    BY <2>1, <2>3, <2>4 DEF P
  <2>5. CASE P # ""
    <3>1. GoType(package, f) = {<<P, <<t>>>>} /\ ImportsForFieldType(t) = {P} /\ P # package
      BY <2>1, <2>2, <2>3, <2>5 DEF P
    <3>2. <<P, <<t>>>>[1] = P
      OBVIOUS
    <3> QED
      BY <3>1, <3>2
  <2> QED
    BY <2>4, <2>5
<1> QED
  BY <1>1, <1>2

LEMMA ModelImportsExact ==
    ASSUME NEW i \in DOMAIN schema
    PROVE  LET text == RenderModel(ModelFile(i)) IN text.imports = {r[1] : r \in text.refs} \ {"model"}
<1> DEFINE e == schema[i]
           f == ModelFile(i)
           create == IF Has(e, "create") THEN CreateMembers(e) ELSE {}
           update == IF Has(e, "update") THEN UpdateMembers(e) ELSE {}
           printed == UNION {GoType("model", g) : g \in ToSet(e.fields)}
           optional == {<<"model", <<"Optional">>>> : m \in create \cup update}
           text == RenderModel(f)
<1>1. f.imports = UNION {ImportsForFieldType(g.type) : g \in ToSet(e.fields)} /\ f.entity = i
  BY FileFacts DEF ModelFile, ModelImports
<1> HIDE DEF f
<1>2. text.imports = f.imports /\ text.refs = printed \cup optional
  BY <1>1 DEF RenderModel
<1> HIDE DEF text, create, update
<1>3. \A r \in optional : r[1] = "model"
  OBVIOUS
<1> HIDE DEF optional
<1>4. \A p : p \in UNION {ImportsForFieldType(g.type) : g \in ToSet(e.fields)} <=>
             \E g \in ToSet(e.fields) : p \in ImportsForFieldType(g.type)
  OBVIOUS
<1>5. \A r : r \in printed <=> \E g \in ToSet(e.fields) : r \in GoType("model", g)
  OBVIOUS
<1> HIDE DEF printed, e
<1>6. \A g : \A p : p \in ImportsForFieldType(g.type) <=> p # "model" /\ \E r \in GoType("model", g) : r[1] = p
  <2> SUFFICES ASSUME NEW g
               PROVE  \A p : p \in ImportsForFieldType(g.type) <=>
                             p # "model" /\ \E r \in GoType("model", g) : r[1] = p
    OBVIOUS
  <2>1. {r[1] : r \in GoType("model", g)} \ {"model"} = ImportsForFieldType(g.type)
    BY TypeImports
  <2> QED
    BY <2>1
<1>7. \A p : p \in text.imports <=> p # "model" /\ \E r \in text.refs : r[1] = p
  <2> SUFFICES ASSUME NEW p
               PROVE  p \in text.imports <=> p # "model" /\ \E r \in text.refs : r[1] = p
    OBVIOUS
  <2>1. p \in text.imports <=> \E g \in ToSet(e.fields) : p \in ImportsForFieldType(g.type)
    BY <1>1, <1>2, <1>4
  <2>2. ASSUME NEW g \in ToSet(e.fields), p \in ImportsForFieldType(g.type)
        PROVE  p # "model" /\ \E r \in text.refs : r[1] = p
    <3>1. p # "model" /\ \E r \in GoType("model", g) : r[1] = p
      BY <1>6, <2>2
    <3>2. \A r \in GoType("model", g) : r \in text.refs
      BY <1>2, <1>5
    <3> QED
      BY <3>1, <3>2
  <2>3. ASSUME p # "model", NEW r \in text.refs, r[1] = p
        PROVE  \E g \in ToSet(e.fields) : p \in ImportsForFieldType(g.type)
    <3>1. r \in printed
      BY <1>2, <1>3, <2>3
    <3>2. PICK g \in ToSet(e.fields) : r \in GoType("model", g)
      BY <1>5, <3>1
    <3> QED
      BY <1>6, <2>3, <3>2
  <2> QED
    BY <2>1, <2>2, <2>3
<1> QED
  BY <1>7 DEF text, f

LEMMA HooksImportsExact ==
    ASSUME NEW i \in DOMAIN schema
    PROVE  LET text == RenderHooks(HooksFile(i)) IN text.imports = {r[1] : r \in text.refs} \ {"hooks"}
<1> DEFINE e == schema[i]
           f == HooksFile(i)
           ops == ToSet(WriteOperations(e))
           fixed == {<<"context", <<"Context">>>>, <<"pgx", <<"Tx">>>>, <<"model", e.goName>>}
           params == UNION {BeforeParam(e, op) : op \in ops}
           key == e.fields[e.pk]
           text == RenderHooks(f)
<1>1. /\ f.entity = i
      /\ f.imports = {"context", "pgx", "model"} \cup IF Has(e, "delete") THEN ImportsForFieldType(key.type) ELSE {}
  BY FileFacts DEF HooksFile, HooksImports
<1>2. ops = {"create", "update", "delete"} \cap ToSet(e.endpoints)
  BY WriteOperationsFacts
<1> HIDE DEF f
<1>3. text.imports = f.imports /\ text.refs = fixed \cup params
  BY <1>1 DEF RenderHooks
<1>4. \A r : r \in params <=> \E op \in ops : r \in BeforeParam(e, op)
  OBVIOUS
<1> HIDE DEF text, params, ops
<1>5. {r[1] : r \in GoType("hooks", key)} \ {"hooks"} = ImportsForFieldType(key.type)
  BY TypeImports
<1>6. BeforeParam(e, "delete") = GoType("hooks", key)
  BY DEF BeforeParam
<1>7. \A op \in ops \ {"delete"} : \A r \in BeforeParam(e, op) : r[1] = "model"
  BY DEF BeforeParam
<1>8. (\A r \in fixed : r[1] \in {"context", "pgx", "model"}) /\ \A p \in {"context", "pgx", "model"} : \E r \in fixed : r[1] = p
  OBVIOUS
<1>9. Has(e, "delete") <=> "delete" \in ops
  BY <1>2 DEF Has
<1> HIDE DEF fixed, key
<1>10. ASSUME NEW p \in text.imports PROVE p # "hooks" /\ \E r \in text.refs : r[1] = p
  <2>1. CASE p \in {"context", "pgx", "model"}
    BY <1>3, <1>8, <2>1
  <2>2. CASE p \notin {"context", "pgx", "model"}
    <3>1. "delete" \in ops /\ p \in ImportsForFieldType(key.type)
      BY <1>1, <1>3, <1>9, <2>2
    <3>2. p # "hooks" /\ \E r \in GoType("hooks", key) : r[1] = p
      BY <1>5, <3>1
    <3> QED
      BY <1>3, <1>4, <1>6, <3>1, <3>2
  <2> QED
    BY <2>1, <2>2
<1>11. ASSUME NEW r \in text.refs, r[1] # "hooks" PROVE r[1] \in text.imports
  <2>1. CASE r \in fixed
    BY <1>1, <1>3, <1>8, <2>1
  <2>2. CASE r \in params
    <3>1. PICK op \in ops : r \in BeforeParam(e, op)
      BY <1>4, <2>2
    <3>2. CASE op = "delete"
      <4>1. r[1] \in ImportsForFieldType(key.type)
        BY <1>5, <1>6, <1>11, <3>1, <3>2
      <4> QED
        BY <1>1, <1>3, <1>9, <3>2, <4>1
    <3>3. CASE op # "delete"
      BY <1>1, <1>3, <1>7, <3>1, <3>3
    <3> QED
      BY <3>2, <3>3
  <2> QED
    BY <1>3, <2>1, <2>2
<1>12. text.imports = {r[1] : r \in text.refs} \ {"hooks"}
  BY <1>10, <1>11
<1> QED
  BY <1>12 DEF text, f

LEMMA EveryImportsExact ==
    ASSUME DOMAIN schema = 1..Len(schema), Len(schema) \in Nat, NEW f \in Planned
    PROVE  Render(f).imports = {r[1] : r \in Render(f).refs} \ {f.path[1]}
<1>1. CASE f = OptionalFile
  <2>1. f.path[1] = "model" /\ f.imports = {"encoding/json"}
    BY <1>1, FileFacts DEF OptionalFile
  <2>2. Render(f) = RenderOptional(f)
    BY <1>1, RenderedFiles
  <2>3. Render(f).imports = {"encoding/json"} /\ Render(f).refs = {<<"encoding/json", <<"Unmarshal">>>>}
    BY <2>1, <2>2 DEF RenderOptional
  <2> QED
    BY <2>1, <2>3
<1>2. CASE f = ErrorFile
  <2>1. f.path[1] = "hooks" /\ f.imports = {"fmt", "net/http"}
    BY <1>2, FileFacts DEF ErrorFile
  <2>2. Render(f) = RenderError(f)
    BY <1>2, RenderedFiles
  <2>3. Render(f).imports = {"fmt", "net/http"}
        /\ Render(f).refs = {<<"fmt", <<"Sprintf">>>>, <<"net/http", <<"StatusUnprocessableEntity">>>>}
    BY <2>1, <2>2 DEF RenderError
  <2> QED
    BY <2>1, <2>3
<1>3. CASE \E i \in DOMAIN schema : f = ModelFile(i)
  <2>1. PICK i \in DOMAIN schema : f = ModelFile(i)
    BY <1>3
  <2>2. f.path[1] = "model"
    BY <2>1, FileFacts DEF ModelFile
  <2>3. Render(f) = RenderModel(ModelFile(i))
    BY <2>1, RenderedFiles
  <2> QED
    BY <2>2, <2>3, ModelImportsExact
<1>4. CASE \E i \in DOMAIN schema : f = HooksFile(i)
  <2>1. PICK i \in DOMAIN schema : f = HooksFile(i)
    BY <1>4
  <2>2. f.path[1] = "hooks"
    BY <2>1, FileFacts DEF HooksFile
  <2>3. Render(f) = RenderHooks(HooksFile(i))
    BY <2>1, RenderedFiles
  <2> QED
    BY <2>2, <2>3, HooksImportsExact
<1> QED
  BY <1>1, <1>2, <1>3, <1>4, PlanFacts DEF Written

-----------------------------------------------------------------------------
(* The inductive invariant *)

\* Where the generator stands, and what a failure comes from.
Stages ==
    /\ stage \in {"idle", "render", "done", "failed"}
    /\ stage # "idle" => pc = "accepted"
    /\ stage \in {"idle", "failed"} => out = << >> /\ files = << >>
    /\ stage = "render" => files # << >>
    /\ stage = "done" => files = << >>
    /\ stage = "failed" => \E f \in Planned : ~Parses(f) \/ \E g \in Planned \ {f} : g.path = f.path

\* Every planned file is either still to be rendered or in the map, whole and
\* under a path of its own.
Underway ==
    stage \in {"render", "done"} =>
        /\ files \in Seq(Planned) /\ NoRepeats(files)
        /\ \A f \in Planned \ ToSet(files) : f.path \in DOMAIN out /\ out[f.path] = Render(f) /\ Parses(f)
        /\ \A f, g \in Planned \ ToSet(files) : f.path = g.path => f = g
        /\ \A p \in DOMAIN out : \E f \in Planned \ ToSet(files) : p = f.path

GInv == IInv /\ Stages /\ Underway

LEMMA HeadTail ==
    ASSUME NEW X, NEW s \in Seq(X), s # << >>, NoRepeats(s)
    PROVE  /\ Head(s) \in ToSet(s) /\ Head(s) \in X
           /\ Tail(s) \in Seq(X) /\ NoRepeats(Tail(s)) /\ ToSet(Tail(s)) = ToSet(s) \ {Head(s)}
<1> DEFINE n == Len(s)
           t == Tail(s)
           h == Head(s)
<1>1. /\ n \in Nat /\ n > 0 /\ DOMAIN s = 1..n /\ h = s[1] /\ t \in Seq(X) /\ DOMAIN t = 1..(n - 1)
      /\ \A i \in 1..(n - 1) : t[i] = s[i + 1]
      /\ \A i \in 1..n : s[i] \in X
  OBVIOUS
<1> HIDE DEF n, t, h
<1>2. 1 \in 1..n /\ \A i \in 1..(n - 1) : i + 1 \in 1..n /\ i + 1 # 1
  BY <1>1
<1>3. h \in ToSet(s) /\ h \in X
  BY <1>1, <1>2 DEF ToSet
<1>4. NoRepeats(t)
  <2> SUFFICES ASSUME NEW i \in 1..(n - 1), NEW j \in 1..(n - 1), t[i] = t[j] PROVE i = j
    BY <1>1 DEF NoRepeats
  <2>1. i + 1 = j + 1
    BY <1>1, <1>2 DEF NoRepeats
  <2> QED
    BY <1>1, <2>1
<1>5. \A x \in ToSet(t) : x \in ToSet(s) /\ x # h
  <2> SUFFICES ASSUME NEW i \in 1..(n - 1) PROVE t[i] \in ToSet(s) /\ t[i] # h
    BY <1>1 DEF ToSet
  <2>1. t[i] = s[i + 1] /\ i + 1 \in 1..n /\ i + 1 # 1
    BY <1>1, <1>2
  <2> QED
    BY <1>1, <1>2, <2>1 DEF ToSet, NoRepeats
<1>6. \A x \in ToSet(s) : x # h => x \in ToSet(t)
  <2> SUFFICES ASSUME NEW i \in 1..n, s[i] # h PROVE s[i] \in ToSet(t)
    BY <1>1 DEF ToSet
  <2>1. i # 1
    BY <1>1
  <2>2. i - 1 \in 1..(n - 1) /\ (i - 1) + 1 = i
    BY <1>1, <2>1
  <2>3. t[i - 1] = s[i]
    BY <1>1, <2>2
  <2> QED
    BY <1>1, <2>2, <2>3 DEF ToSet
<1> QED
  BY <1>1, <1>3, <1>4, <1>5, <1>6 DEF t, h

(* Nothing but the schema decides what is planned and how it is rendered.    *)
LEMMA SamePlan ==
    ASSUME schema' = schema
    PROVE  /\ ModelFiles' = ModelFiles /\ HooksFiles' = HooksFiles /\ Planned' = Planned
           /\ \A f : Render(f)' = Render(f) /\ Parses(f)' = Parses(f)
<1>1. ModelFiles' = ModelFiles /\ HooksFiles' = HooksFiles
  BY DEF ModelFiles, HooksFiles
<1>2. Planned' = Planned
  BY <1>1 DEF Planned
<1>3. ASSUME NEW f PROVE Render(f)' = Render(f)
  <2>1. RenderModel(f)' = RenderModel(f)
    BY DEF RenderModel, ModelDecls, EnumDecls
  <2>2. RenderHooks(f)' = RenderHooks(f)
    BY DEF RenderHooks
  <2>3. RenderOptional(f)' = RenderOptional(f) /\ RenderError(f)' = RenderError(f)
    BY DEF RenderOptional, RenderError
  <2> QED
    BY <2>1, <2>2, <2>3 DEF Render
<1>4. ASSUME NEW f PROVE Parses(f)' = Parses(f)
  BY <1>3 DEF Parses
<1> QED
  BY <1>1, <1>2, <1>3, <1>4

LEMMA AcceptedStays == ASSUME pc = "accepted" PROVE ~Next
BY DEF Next, BuildEntity, NoEntities, CheckTablesAndSort, ResolveRelations, ResolveReferences, Return, Validate

LEMMA SchemaShape == ASSUME IInv, pc = "accepted" PROVE Len(schema) \in Nat /\ DOMAIN schema = 1..Len(schema)
BY SchemaFacts

LEMMA GenStarts == GenInit => GInv
BY Starts DEF GenInit, GInv, Stages, Underway, Init

LEMMA SchemaUntouched == IInv /\ UNCHANGED vars => IInv'
BY Inductive

LEMMA Planning == GInv /\ PlanFiles => GInv'
<1> SUFFICES ASSUME GInv, PlanFiles PROVE GInv'
  OBVIOUS
<1>1. /\ pc = "accepted" /\ pc' = pc /\ schema' = schema /\ stage = "idle" /\ stage' = "render"
      /\ files' = ModelFiles \o HooksFiles /\ out' = out /\ out = << >>
  BY DEF PlanFiles, vars, GInv, Stages
<1>2. IInv'
  BY SchemaUntouched DEF GInv, PlanFiles
<1>3. Len(schema) \in Nat /\ DOMAIN schema = 1..Len(schema)
  BY <1>1, SchemaShape DEF GInv
<1>4. files' \in Seq(Planned) /\ files' # << >> /\ ToSet(files') = Planned /\ NoRepeats(files')
  BY <1>1, <1>3, PlanFacts
<1>5. Planned' = Planned
  BY <1>1, SamePlan
<1>6. Stages'
  BY <1>1, <1>4 DEF Stages
<1>7. Underway'
  <2>1. Planned' \ ToSet(files') = {} /\ DOMAIN out' = {}
    BY <1>1, <1>4, <1>5
  <2> QED
    BY <1>4, <1>5, <2>1 DEF Underway
<1> QED
  BY <1>2, <1>6, <1>7 DEF GInv

LEMMA Rendering == GInv /\ RenderFile => GInv'
<1> SUFFICES ASSUME GInv, RenderFile PROVE GInv'
  OBVIOUS
<1> DEFINE f == Head(files)
           R == Planned \ ToSet(files)
<1>1. /\ pc' = pc /\ schema' = schema /\ stage = "render" /\ files' = Tail(files)
      /\ stage' = IF files' = << >> THEN "done" ELSE "render"
      /\ out' = [p \in DOMAIN out \cup {f.path} |-> IF p = f.path THEN Render(f) ELSE out[p]]
      /\ f.path \notin DOMAIN out /\ Parses(f)
  BY DEF RenderFile, Refused, vars
<1>2. IInv'
  BY SchemaUntouched DEF GInv, RenderFile
<1>3. /\ pc = "accepted" /\ files # << >> /\ files \in Seq(Planned) /\ NoRepeats(files)
      /\ \A g \in R : g.path \in DOMAIN out /\ out[g.path] = Render(g) /\ Parses(g)
      /\ \A g, h \in R : g.path = h.path => g = h
      /\ \A p \in DOMAIN out : \E g \in R : p = g.path
  BY <1>1 DEF GInv, Stages, Underway
<1> HIDE DEF f
<1>4. /\ f \in Planned /\ files' \in Seq(Planned) /\ NoRepeats(files') /\ f \in ToSet(files)
      /\ ToSet(files') = ToSet(files) \ {f}
  BY <1>1, <1>3, HeadTail DEF f
<1>5. Planned' = Planned /\ \A g : Render(g)' = Render(g) /\ Parses(g)' = Parses(g)
  BY <1>1, SamePlan
<1>6. Stages'
  BY <1>1, <1>3 DEF Stages
<1>7. DOMAIN out' = DOMAIN out \cup {f.path} /\ out'[f.path] = Render(f) /\ \A p \in DOMAIN out : out'[p] = out[p]
  BY <1>1
<1>8. R' = R \cup {f}
  BY <1>4, <1>5
<1> HIDE DEF R
<1>9. \A g \in R' : g.path \in DOMAIN out' /\ out'[g.path] = Render(g)' /\ Parses(g)'
  BY <1>1, <1>3, <1>5, <1>7, <1>8
<1>10. \A g, h \in R' : g.path = h.path => g = h
  BY <1>1, <1>3, <1>8
<1>11. \A p \in DOMAIN out' : \E g \in R' : p = g.path
  BY <1>3, <1>7, <1>8
<1>12. Underway'
  BY <1>4, <1>5, <1>9, <1>10, <1>11 DEF Underway, R
<1> QED
  BY <1>2, <1>6, <1>12 DEF GInv

LEMMA GivingUp == GInv /\ GiveUp => GInv'
<1> SUFFICES ASSUME GInv, GiveUp PROVE GInv'
  OBVIOUS
<1> DEFINE f == Head(files)
<1>1. /\ pc' = pc /\ schema' = schema /\ stage = "render" /\ files' = << >> /\ out' = << >> /\ stage' = "failed"
      /\ f.path \in DOMAIN out \/ ~Parses(f)
  BY DEF GiveUp, Refused, vars
<1>2. IInv'
  BY SchemaUntouched DEF GInv, GiveUp
<1>3. /\ pc = "accepted" /\ files # << >> /\ files \in Seq(Planned) /\ NoRepeats(files)
      /\ \A p \in DOMAIN out : \E g \in Planned \ ToSet(files) : p = g.path
  BY <1>1 DEF GInv, Stages, Underway
<1> HIDE DEF f
<1>4. f \in Planned /\ f \in ToSet(files)
  BY <1>3, HeadTail DEF f
<1>5. ~Parses(f) \/ \E g \in Planned \ {f} : g.path = f.path
  BY <1>1, <1>3, <1>4
<1>6. Planned' = Planned /\ \A g : Parses(g)' = Parses(g)
  BY <1>1, SamePlan
<1>7. \E h \in Planned' : ~Parses(h)' \/ \E g \in Planned' \ {h} : g.path = h.path
  BY <1>4, <1>5, <1>6
<1>8. Stages'
  BY <1>1, <1>3, <1>7 DEF Stages
<1>9. Underway'
  BY <1>1 DEF Underway
<1> QED
  BY <1>2, <1>8, <1>9 DEF GInv

LEMMA GenResolving == GInv /\ (Resolve \/ UNCHANGED <<vars, generated>>) => GInv'
<1> SUFFICES ASSUME GInv, Resolve \/ UNCHANGED <<vars, generated>> PROVE GInv'
  OBVIOUS
<1>1. IInv'
  BY Inductive DEF GInv, Resolve
<1>2. CASE Resolve
  <2>1. pc # "accepted" /\ files' = files /\ out' = out /\ stage' = stage
    BY <1>2, AcceptedStays DEF Resolve, generated
  <2>2. stage = "idle"
    BY <2>1 DEF GInv, Stages
  <2> QED
    BY <1>1, <2>1, <2>2 DEF GInv, Stages, Underway
<1>3. CASE UNCHANGED <<vars, generated>>
  <2>1. schema' = schema /\ pc' = pc /\ files' = files /\ out' = out /\ stage' = stage
    BY <1>3 DEF vars, generated
  <2>2. Planned' = Planned /\ \A f : Render(f)' = Render(f) /\ Parses(f)' = Parses(f)
    BY <2>1, SamePlan
  <2>3. Stages'
    BY <2>1, <2>2 DEF GInv, Stages
  <2>4. Underway'
    BY <2>1, <2>2 DEF GInv, Underway
  <2> QED
    BY <1>1, <2>3, <2>4 DEF GInv
<1> QED
  BY <1>2, <1>3

(* What Generate has rendered is always the plan of an accepted schema, each  *)
(* file whole and under its own path, and it gives up only on a file that     *)
(* does not parse or whose path is another file's too.                        *)
THEOREM GenInvariant == GenSpec => []GInv
<1>1. GenInit => GInv
  BY GenStarts
<1>2. GInv /\ [GenNext]_<<vars, generated>> => GInv'
  BY Planning, Rendering, GivingUp, GenResolving DEF GenNext
<1> QED
  BY <1>1, <1>2, PTL DEF GenSpec

(* The generator leaves the resolver alone: a run of the two is a run of      *)
(* Schema, so everything proved about Schema holds of the schema it renders.  *)
THEOREM ImplementsSchema == GenSpec => Spec
<1>1. GenInit => Init
  BY DEF GenInit
<1>2. [GenNext]_<<vars, generated>> => [Next]_vars
  BY DEF GenNext, Resolve, PlanFiles, RenderFile, GiveUp
<1> QED
  BY <1>1, <1>2, PTL DEF GenSpec, Spec

-----------------------------------------------------------------------------
(* Types and imports *)

LEMMA SchemaNames ==
    ASSUME IInv, pc = "accepted", NEW i \in DOMAIN schema
    PROVE  \E d \in DOMAIN doc : schema[i].name = doc[d].name
<1>1. PICK d \in DOMAIN doc : SameEntity(schema[i], doc[d])
  BY SchemaFacts
<1>2. schema[i].name = doc[d].name
  BY <1>1, SchemaFacts, SameEntityFacts
<1> QED
  BY <1>2

LEMMA PlannedPaths ==
    ASSUME IInv, pc = "accepted", NEW f \in Planned
    PROVE  /\ f.path \in {"model", "hooks"} \X ({"optional", "error"} \cup {doc[i].name : i \in DOMAIN doc})
           /\ f.entity \in 0..Len(schema)
<1> DEFINE N == {doc[i].name : i \in DOMAIN doc}
<1>1. Len(schema) \in Nat /\ DOMAIN schema = 1..Len(schema)
  BY SchemaShape
<1>2. \A i \in DOMAIN schema : schema[i].name \in N /\ i \in 0..Len(schema)
  BY <1>1, SchemaNames
<1> SUFFICES f.path \in {"model", "hooks"} \X ({"optional", "error"} \cup N) /\ f.entity \in 0..Len(schema)
  OBVIOUS
<1> HIDE DEF N
<1>3. ASSUME NEW package \in {"model", "hooks"}, NEW name \in {"optional", "error"} \cup N,
             NEW imports, NEW i \in 0..Len(schema), f = File(package, name, imports, i)
      PROVE  f.path \in {"model", "hooks"} \X ({"optional", "error"} \cup N) /\ f.entity \in 0..Len(schema)
  <2>1. f.path = <<package, name>> /\ f.entity = i
    BY <1>3, Zenon DEF File
  <2>2. <<package, name>> \in {"model", "hooks"} \X ({"optional", "error"} \cup N)
    OBVIOUS
  <2> QED
    BY <2>1, <2>2, Zenon
<1>4. 0 \in 0..Len(schema)
  BY <1>1
<1>5. CASE f = OptionalFile
  BY <1>3, <1>4, <1>5 DEF OptionalFile
<1>6. CASE f = ErrorFile
  BY <1>3, <1>4, <1>6 DEF ErrorFile
<1>7. CASE \E i \in DOMAIN schema : f = ModelFile(i)
  BY <1>2, <1>3, <1>7 DEF ModelFile
<1>8. CASE \E i \in Written : f = HooksFile(i)
  BY <1>2, <1>3, <1>8 DEF HooksFile, Written
<1> QED
  BY <1>1, <1>5, <1>6, <1>7, <1>8, PlanFacts

(* The stages and the paths are what they should be, and a failed run returns *)
(* nothing.                                                                    *)
THEOREM GenTypeCorrect == GenSpec => []GenTypeOK
<1>1. ASSUME GInv PROVE GenTypeOK
  <2>1. /\ stage \in {"idle", "render", "done", "failed"}
        /\ stage # "idle" => pc = "accepted"
        /\ stage = "failed" => out = << >> /\ files = << >>
    BY <1>1 DEF GInv, Stages
  <2>2. CASE stage \in {"idle", "failed"}
    <3>1. DOMAIN out = {} /\ DOMAIN files = {}
      BY <1>1, <2>2 DEF GInv, Stages
    <3> QED
      BY <2>1, <3>1 DEF GenTypeOK
  <2>3. CASE stage \in {"render", "done"}
    <3>1. IInv /\ pc = "accepted" /\ files \in Seq(Planned) /\ \A p \in DOMAIN out : \E f \in Planned : p = f.path
      BY <1>1, <2>1, <2>3 DEF GInv, Underway
    <3>2. \A f \in Planned :
              /\ f.path \in {"model", "hooks"} \X ({"optional", "error"} \cup {doc[i].name : i \in DOMAIN doc})
              /\ f.entity \in 0..Len(schema)
      BY <3>1, PlannedPaths
    <3>3. \A j \in DOMAIN files : files[j].entity \in 0..Len(schema)
      BY <3>1, <3>2
    <3>4. DOMAIN out \subseteq {"model", "hooks"} \X ({"optional", "error"} \cup {doc[i].name : i \in DOMAIN doc})
      BY <3>1, <3>2
    <3> QED
      BY <2>1, <2>3, <3>3, <3>4 DEF GenTypeOK
  <2> QED
    BY <2>1, <2>2, <2>3
<1> QED
  BY <1>1, GenInvariant, PTL

(* plan.go:24, hooks.go:60, ir/types.go: no rendered file misses an import or *)
(* has one too many, whatever its types and endpoints: what plan.go computes   *)
(* is what internal/ir prints.                                                 *)
THEOREM ImportsAreExact == GenSpec => []ImportsExact
<1>1. ASSUME GInv PROVE ImportsExact
  <2> SUFFICES ASSUME NEW p \in DOMAIN out
               PROVE  out[p].imports = {r[1] : r \in out[p].refs} \ {p[1]}
    BY DEF ImportsExact
  <2>1. stage \in {"render", "done"} /\ pc = "accepted" /\ IInv
    <3>1. stage \in {"idle", "failed"} => DOMAIN out = {}
      BY <1>1 DEF GInv, Stages
    <3> QED
      BY <1>1, <3>1 DEF GInv, Stages
  <2>2. PICK f \in Planned : p = f.path /\ out[p] = Render(f)
    BY <1>1, <2>1 DEF GInv, Underway
  <2>3. Render(f).imports = {r[1] : r \in Render(f).refs} \ {f.path[1]}
    BY <2>1, SchemaShape, EveryImportsExact
  <2> QED
    BY <2>2, <2>3
<1> QED
  BY <1>1, GenInvariant, PTL

-----------------------------------------------------------------------------
(* What a complete run returns *)

LEMMA DoneFacts ==
    ASSUME GInv, Done
    PROVE  /\ IInv /\ Accepted /\ pc = "accepted" /\ Len(schema) \in Nat /\ DOMAIN schema = 1..Len(schema)
           /\ \A f \in Planned : f.path \in DOMAIN out /\ out[f.path] = Render(f) /\ Parses(f)
           /\ \A f, g \in Planned : f.path = g.path => f = g
           /\ \A p \in DOMAIN out : \E f \in Planned : p = f.path
<1>1. IInv /\ pc = "accepted" /\ files = << >>
  BY DEF GInv, Stages, Done
<1>2. Planned \ ToSet(files) = Planned
  BY <1>1 DEF ToSet
<1>3. Len(schema) \in Nat /\ DOMAIN schema = 1..Len(schema)
  BY <1>1, SchemaShape
<1> QED
  BY <1>1, <1>2, <1>3 DEF GInv, Underway, Done, Accepted

LEMMA InPlan ==
    ASSUME Len(schema) \in Nat, DOMAIN schema = 1..Len(schema)
    PROVE  /\ OptionalFile \in Planned /\ ErrorFile \in Planned
           /\ \A i \in DOMAIN schema : ModelFile(i) \in Planned
           /\ \A i \in Written : HooksFile(i) \in Planned
BY PlanFacts

LEMMA ModelRendered ==
    ASSUME GInv, Done, NEW i \in DOMAIN schema
    PROVE  LET text == out[<<"model", schema[i].name>>] IN
           /\ <<"model", schema[i].name>> \in DOMAIN out /\ text = RenderModel(ModelFile(i))
           /\ text.decls = ModelDecls(schema[i], i)
           /\ text.create = IF Has(schema[i], "create") THEN CreateMembers(schema[i]) ELSE {}
           /\ text.update = IF Has(schema[i], "update") THEN UpdateMembers(schema[i]) ELSE {}
<1> DEFINE f == ModelFile(i)
           p == <<"model", schema[i].name>>
<1>1. f.path = p /\ f.entity = i
  BY FileFacts DEF ModelFile
<1> HIDE DEF f, p
<1>2. f \in Planned /\ p \in DOMAIN out /\ out[p] = Render(f)
  BY <1>1, DoneFacts, InPlan DEF f
<1>3. Render(f) = RenderModel(f)
  BY DoneFacts, RenderedFiles DEF f
<1>4. /\ RenderModel(f).decls = ModelDecls(schema[i], i)
      /\ RenderModel(f).create = IF Has(schema[i], "create") THEN CreateMembers(schema[i]) ELSE {}
      /\ RenderModel(f).update = IF Has(schema[i], "update") THEN UpdateMembers(schema[i]) ELSE {}
  BY <1>1 DEF RenderModel
<1> QED
  BY <1>2, <1>3, <1>4 DEF f, p

LEMMA SentFacts ==
    ASSUME NEW e, NEW p \in {"visible", "hidden"}
    PROVE  /\ Sent(CreateMembers(e), p) = {k \in DOMAIN e.fields : CreateInputPresence(e.fields[k]) = p}
           /\ Sent(UpdateMembers(e), p) = {k \in DOMAIN e.fields : UpdateInputPresence(e.fields[k]) = p}
<1> DEFINE D == DOMAIN e.fields
<1>1. ASSUME NEW P, NEW M, M = {<<k, P[k]>> : k \in D} \ (D \X {"absent"})
      PROVE  Sent(M, p) = {k \in D : P[k] = p}
  <2> HIDE DEF D
  <2>1. \A k \in D : P[k] = p => <<k, P[k]>> \in M /\ <<k, P[k]>>[1] = k /\ <<k, P[k]>>[2] = p
    BY <1>1
  <2>2. \A m \in M : m[1] \in D /\ m[2] = P[m[1]]
    BY <1>1
  <2>3. \A k \in D : P[k] = p => k \in Sent(M, p)
    BY <2>1 DEF Sent
  <2>4. \A k \in Sent(M, p) : k \in D /\ P[k] = p
    BY <2>2 DEF Sent
  <2> QED
    BY <2>3, <2>4
<1>2. Sent(CreateMembers(e), p) = {k \in D : CreateInputPresence(e.fields[k]) = p}
  <2> DEFINE P == [k \in D |-> CreateInputPresence(e.fields[k])]
  <2>1. CreateMembers(e) = {<<k, P[k]>> : k \in D} \ (D \X {"absent"})
    BY DEF CreateMembers
  <2>2. \A k \in D : P[k] = CreateInputPresence(e.fields[k])
    OBVIOUS
  <2> HIDE DEF P, D
  <2>3. Sent(CreateMembers(e), p) = {k \in D : P[k] = p}
    BY <1>1, <2>1
  <2> QED
    BY <2>2, <2>3
<1>3. Sent(UpdateMembers(e), p) = {k \in D : UpdateInputPresence(e.fields[k]) = p}
  <2> DEFINE P == [k \in D |-> UpdateInputPresence(e.fields[k])]
  <2>1. UpdateMembers(e) = {<<k, P[k]>> : k \in D} \ (D \X {"absent"})
    BY DEF UpdateMembers
  <2>2. \A k \in D : P[k] = UpdateInputPresence(e.fields[k])
    OBVIOUS
  <2> HIDE DEF P, D
  <2>3. Sent(UpdateMembers(e), p) = {k \in D : P[k] = p}
    BY <1>1, <2>1
  <2> QED
    BY <2>2, <2>3
<1> QED
  BY <1>2, <1>3

(* ir/input.go, templates: the rendered inputs carry every column that a      *)
(* create must supply and none that an update may not touch.                  *)
THEOREM InputsAsFlagged == GenSpec => []InputsHonourFlags
<1>1. ASSUME GInv, Done, NEW i \in DOMAIN schema
      PROVE  FlagsHonoured(schema[i], out[<<"model", schema[i].name>>])
  <2> DEFINE e == schema[i]
             D == DOMAIN e.fields
             text == out[<<"model", e.name>>]
             created(p) == {k \in D : CreateInputPresence(e.fields[k]) = p}
             updated(p) == {k \in D : UpdateInputPresence(e.fields[k]) = p}
  <2>1. /\ Has(e, "create") => text.create = CreateMembers(e)
        /\ Has(e, "update") => text.update = UpdateMembers(e)
    BY <1>1, ModelRendered
  <2>2. \A p \in {"visible", "hidden"} :
            /\ Has(e, "create") => Sent(text.create, p) = created(p)
            /\ Has(e, "update") => Sent(text.update, p) = updated(p)
    BY <2>1, SentFacts
  <2>3. ASSUME NEW k \in D, ~e.fields[k].nullable, e.fields[k].flags \cap {"pk", "version", "default"} = {}
        PROVE  "readonly" \notin e.fields[k].flags
    <3>1. IInv /\ Accepted /\ e \in ToSet(schema)
      BY <1>1, DoneFacts DEF ToSet
    <3>2. PICK d \in EntityDoc : SameEntity(e, d) /\ EntityBreaks(d, Entity(d).fields) = {}
      BY <3>1, OfAccepted
    <3>3. D = 1..Len(d.fields) /\ e.fields[k].flags = Entity(d).fields[k].flags
          /\ e.fields[k].nullable = Entity(d).fields[k].nullable
      BY <3>2, SameEntityFacts, FlagsKept
    <3> QED
      BY <2>3, <3>2, <3>3, CleanEntity
  <2> HIDE DEF text, e
  <2>4. \A k \in D :
            /\ ~e.fields[k].nullable /\ e.fields[k].flags \cap {"pk", "version", "default"} = {}
                   => k \in created("visible")
            /\ "readonly" \in e.fields[k].flags /\ e.fields[k].flags \cap {"pk", "version"} = {}
                   => k \in created("hidden")
    BY <2>3 DEF CreateInputPresence
  <2>5. \A k \in updated("visible") \cup updated("hidden") :
            /\ e.fields[k].flags \cap {"pk", "version"} = {}
            /\ k \in updated("visible") => e.fields[k].flags \cap {"readonly", "immutable"} = {}
    BY DEF UpdateInputPresence
  <2>6. \A k \in D : e.fields[k].flags \cap {"pk", "version", "readonly", "immutable"} = {} =>
            k \in created("visible") /\ k \in updated("visible")
    BY DEF CreateInputPresence, UpdateInputPresence
  <2> HIDE DEF created, updated, D
  <2>7. FlagsHonoured(e, text)
    BY <2>2, <2>4, <2>5, <2>6 DEF FlagsHonoured, D
  <2> QED
    BY <2>7 DEF text, e
<1>2. GInv => InputsHonourFlags
  BY <1>1 DEF InputsHonourFlags
<1> QED
  BY <1>2, GenInvariant, PTL

-----------------------------------------------------------------------------
(* Where the rendered names come from *)

\* Field g of the schema says what field f of document d does.
FieldFrom(g, f, d) ==
    /\ g.name = f.name /\ f.name \in Name /\ GoName[f.name] # << >>
    /\ f.type = "belongsTo" =>
           g.goName = Append(GoName[f.name], "ID") /\ g.enumGoType = << >> /\ g.values = << >>
    /\ f.type # "belongsTo" => g.goName = GoName[f.name] /\ g.type = f.type
    /\ f.type = "enum" => /\ g.enumGoType = GoName[d.name] \o GoName[f.name]
                          /\ g.values = f.values /\ f.values \in Seq(Name)

\* Entity e is the one that document d describes, with nothing wrong in it.
DrawnFrom(e, d) ==
    /\ d \in EntityDoc /\ e.name = d.name /\ d.name \in Name
    /\ e.goName = GoName[d.name] /\ GoName[d.name] # << >>
    /\ Len(d.fields) \in Nat /\ DOMAIN d.fields = 1..Len(d.fields) /\ DOMAIN e.fields = DOMAIN d.fields
    /\ e.endpoints = IF d.endpoints = Absent THEN EndpointKind ELSE d.endpoints
    /\ e.pk = KeyOf(d) /\ e.pk \in DOMAIN e.fields
    /\ \A k \in DOMAIN e.fields : FieldFrom(e.fields[k], d.fields[k], d)
    /\ DOMAIN e.pending = {k \in DOMAIN e.fields : d.fields[k].type = "belongsTo"}

LEMMA NamedEntity ==
    ASSUME NEW e \in EntityDoc, EntityBreaks(e, Entity(e).fields) = {}
    PROVE  /\ GoName[e.name] # << >>
           /\ \A k \in 1..Len(e.fields) : /\ GoName[e.fields[k].name] # << >>
                                          /\ e.fields[k].type = "belongsTo" => e.fields[k].target # Absent
<1> DEFINE fs == Entity(e).fields
<1>1. EntityBreaks(e, fs) = {}
  OBVIOUS
<1> HIDE DEF fs
<1>2. \A x \in When("entity name", ~Exportable(e.name)) : x \in EntityBreaks(e, fs)
  BY Zenon DEF EntityBreaks
<1>3. GoName[e.name] # << >>
  BY <1>1, <1>2 DEF When, Exportable
<1>4. UNION {FieldBreaks(f) : f \in ToSet(e.fields)} = {}
  BY <1>1, BreaksOfEntity
<1>5. ASSUME NEW k \in 1..Len(e.fields)
      PROVE  /\ GoName[e.fields[k].name] # << >>
             /\ e.fields[k].type = "belongsTo" => e.fields[k].target # Absent
  <2> DEFINE f == e.fields[k]
  <2>1. f \in ToSet(e.fields)
    BY EntityDocFacts DEF ToSet
  <2>2. FieldBreaks(f) \subseteq UNION {FieldBreaks(g) : g \in ToSet(e.fields)}
    BY <2>1
  <2>3. FieldBreaks(f) = {}
    BY <1>4, <2>2
  <2> HIDE DEF f
  <2>4. GoName[f.name] # << >>
    BY <2>3 DEF FieldBreaks, Exportable, When
  <2>5. f.type = "belongsTo" => f.target # Absent
    BY <2>3 DEF FieldBreaks, IsBelongsTo, When
  <2> QED
    BY <2>4, <2>5 DEF f
<1> QED
  BY <1>3, <1>5

LEMMA Drawn ==
    ASSUME NEW d \in EntityDoc, NEW e, SameEntity(e, d), EntityBreaks(d, Entity(d).fields) = {}
    PROVE  DrawnFrom(e, d)
<1> DEFINE n == Len(d.fields)
<1>1. /\ e.name = d.name /\ d.name \in Name /\ e.goName = GoName[d.name] /\ e.pk = Entity(d).pk
      /\ e.pending = Entity(d).pending /\ e.endpoints = Entity(d).endpoints
      /\ n \in Nat /\ DOMAIN e.fields = 1..n
      /\ \A k \in 1..n :
             /\ e.fields[k].name = d.fields[k].name
             /\ \A x \in FieldKeys \ {"type"} : e.fields[k][x] = BuildField(d, d.fields[k])[x]
             /\ k \notin DOMAIN e.pending => e.fields[k].type = BuildField(d, d.fields[k]).type
  BY SameEntityFacts
<1>2. DOMAIN d.fields = 1..n /\ \A k \in 1..n : d.fields[k].name \in Name /\ d.fields[k].values \in Seq(Name)
  BY EntityDocFacts
<1>3. GoName[d.name] # << >> /\ \A k \in 1..n : /\ GoName[d.fields[k].name] # << >>
                                                /\ d.fields[k].type = "belongsTo" => d.fields[k].target # Absent
  BY NamedEntity
<1>4. \A k \in 1..n : d.fields[k].type = "enum" => d.fields[k].values # << >>
  BY CleanEntity
<1>5. e.endpoints = IF d.endpoints = Absent THEN EndpointKind ELSE d.endpoints
  BY <1>1, EntityFacts
<1>6. DOMAIN e.pending = {k \in DOMAIN e.fields : d.fields[k].type = "belongsTo"}
  <2>1. DOMAIN e.pending = Pending(d)
    BY <1>1, EntityFacts
  <2> QED
    BY <1>1, <1>2, <1>3, <2>1 DEF Pending, IsBelongsTo
<1>7. ASSUME NEW k \in 1..n PROVE FieldFrom(e.fields[k], d.fields[k], d)
  <2> DEFINE f == d.fields[k]
             g == e.fields[k]
             b == BuildField(d, f)
  <2>1. /\ g.name = f.name /\ g.goName = b.goName /\ g.values = b.values /\ g.enumGoType = b.enumGoType
        /\ f.type # "belongsTo" => g.type = b.type
    BY <1>1, <1>6 DEF FieldKeys
  <2>2. b.goName = IF f.type = "belongsTo" THEN Append(GoName[f.name], "ID") ELSE GoName[f.name]
    BY DEF BuildField, IsBelongsTo
  <2>3. /\ b.type = IF f.type = "belongsTo" THEN "uuid" ELSE f.type
        /\ b.values = IF f.type = "enum" THEN f.values ELSE << >>
        /\ b.enumGoType = IF f.type = "enum" /\ f.values # << >> THEN GoName[d.name] \o GoName[f.name] ELSE << >>
    BY FieldFacts DEF IsBelongsTo
  <2>4. /\ f.name \in Name /\ f.values \in Seq(Name) /\ GoName[f.name] # << >>
        /\ f.type = "enum" => f.values # << >>
    BY <1>2, <1>3, <1>4
  <2> HIDE DEF f, g, b
  <2>5. FieldFrom(g, f, d)
    BY <2>1, <2>2, <2>3, <2>4 DEF FieldFrom
  <2> QED
    BY <2>5 DEF f, g
<1>8. e.pk = KeyOf(d) /\ e.pk \in 1..n
  <2>1. /\ DOMAIN Entity(d).fields = 1..n
        /\ \A k \in 1..n : Entity(d).fields[k] = BuildField(d, d.fields[k])
    BY BuiltFields
  <2>2. \A f : "pk" \in BuildField(d, f).flags <=> "pk" \in f.flags
    BY DEF BuildField, RelationFlags
  <2>3. Marked(Entity(d).fields, "pk") = Marked(d.fields, "pk")
    BY <1>2, <2>1, <2>2 DEF Marked
  <2>4. Entity(d).pk = TheOne(Marked(Entity(d).fields, "pk")) /\ Entity(d).pk \in 1..n
    BY EntityFacts, CleanEntity
  <2> QED
    BY <1>1, <2>3, <2>4 DEF KeyOf
<1> QED
  BY <1>1, <1>2, <1>3, <1>5, <1>6, <1>7, <1>8 DEF DrawnFrom

(* Entities and documents of an accepted file, one for one.                   *)
LEMMA Origins ==
    ASSUME IInv, pc = "accepted"
    PROVE  /\ \A i \in DOMAIN schema : \E m \in DOMAIN doc : DrawnFrom(schema[i], doc[m])
           /\ \A m \in DOMAIN doc : \E i \in DOMAIN schema : DrawnFrom(schema[i], doc[m])
           /\ \A m, n \in DOMAIN doc : doc[m].name = doc[n].name => m = n
           /\ \A i, j \in DOMAIN schema : schema[i].name = schema[j].name => i = j
<1>1. /\ doc \in Docs /\ Len(doc) \in Nat /\ DOMAIN doc = 1..Len(doc) /\ DOMAIN schema = 1..Len(doc)
      /\ \A m \in DOMAIN doc : doc[m] \in EntityDoc
      /\ \A i \in DOMAIN schema : \E m \in DOMAIN doc : SameEntity(schema[i], doc[m])
      /\ \A i, j \in DOMAIN schema : i < j => Rank[schema[i].name] < Rank[schema[j].name]
  BY SchemaFacts
<1>2. diags = {} /\ DOMAIN built = 1..Len(doc) /\ \A m \in DOMAIN doc : \E i \in DOMAIN schema : SameEntity(schema[i], doc[m])
  BY <1>1 DEF IInv, Judged, Shape, Complete
<1>3. \A m \in DOMAIN doc : EntityBreaks(doc[m], Entity(doc[m]).fields) = {}
  BY <1>1, <1>2 DEF IInv, Judged
<1>4. \A m \in DOMAIN doc : \A e : SameEntity(e, doc[m]) => DrawnFrom(e, doc[m])
  BY <1>1, <1>3, Drawn
<1>5. \A m, n \in DOMAIN doc : doc[m].name = doc[n].name => m = n
  BY <1>1, DocFacts
<1>6. \A i \in DOMAIN schema : \E m \in DOMAIN doc : doc[m] \in EntityDoc /\ SameEntity(schema[i], doc[m])
  BY <1>1
<1>7. \A i, j \in DOMAIN schema : i < j => Rank[schema[i].name] < Rank[schema[j].name]
  BY <1>1
<1>8. Len(doc) \in Nat /\ DOMAIN schema = 1..Len(doc)
  BY <1>1
<1>9. ASSUME NEW i \in DOMAIN schema, NEW j \in DOMAIN schema, schema[i].name = schema[j].name PROVE i = j
  <2>1. PICK m \in DOMAIN doc : doc[m] \in EntityDoc /\ SameEntity(schema[i], doc[m])
    BY <1>6
  <2>2. schema[i].name \in Name
    BY ONLY <2>1, SameEntityFacts
  <2>3. Rank[schema[i].name] \in Nat
    BY <2>2, RankAssumption
  <2>4. /\ ~(Rank[schema[i].name] < Rank[schema[j].name])
        /\ ~(Rank[schema[j].name] < Rank[schema[i].name])
    BY <1>9, <2>3
  <2>5. ~(i < j) /\ ~(j < i)
    BY <1>7, <2>4
  <2>6. i \in Nat /\ j \in Nat
    BY <1>8
  <2> QED
    BY <2>5, <2>6
<1> QED
  BY <1>1, <1>2, <1>4, <1>5, <1>9

-----------------------------------------------------------------------------
(* Which files parse *)

LEMMA Joinable ==
    ASSUME NEW n \in Name
    PROVE  GoName[n] \in Seq(ToSet(GoName[n]))
BY GoNameAssumption

LEMMA FirstWord ==
    ASSUME NEW s, s \in Seq(ToSet(s)), s # << >>, NEW t, t \in Seq(ToSet(t))
    PROVE  /\ IsIdentifier(s \o t) <=> IsIdentifier(s)
           /\ \A x : IsIdentifier(Append(s, x)) <=> IsIdentifier(s)
<1>1. /\ Len(s \o t) = Len(s) + Len(t) /\ Len(s) \in Nat /\ Len(t) \in Nat
      /\ \A j \in 1..Len(s) : (s \o t)[j] = s[j]
  BY Joining
<1>2. Len(s) > 0 /\ 1 \in 1..Len(s)
  <2>1. Len(s) # 0
    BY <1>1
  <2> QED
    BY <1>1, <2>1
<1>3. s \o t # << >> /\ (s \o t)[1] = s[1]
  <2>1. Len(s \o t) # 0
    BY <1>1, <1>2
  <2>2. Len(<< >>) = 0
    OBVIOUS
  <2> QED
    BY <1>1, <1>2, <2>1, <2>2
<1>4. ASSUME NEW x PROVE Append(s, x) # << >> /\ Append(s, x)[1] = s[1]
  <2>1. s \in Seq(ToSet(s) \cup {x}) /\ x \in ToSet(s) \cup {x}
    OBVIOUS
  <2>2. Len(Append(s, x)) = Len(s) + 1 /\ \A j \in 1..Len(s) : Append(s, x)[j] = s[j]
    BY <2>1
  <2>3. Len(<< >>) = 0 /\ Len(s) + 1 # 0
    BY <1>1
  <2> QED
    BY <1>2, <2>2, <2>3
<1> QED
  BY <1>3, <1>4 DEF IsIdentifier

LEMMA EnumDeclsFacts ==
    ASSUME NEW i, NEW k, NEW x
    PROVE  x \in EnumDecls(i, k) <=>
               LET g == schema[i].fields[k] IN
               /\ g.type = "enum"
               /\ \/ x = <<g.enumGoType, i, k, 0>>
                  \/ \E v \in DOMAIN g.values : x = <<g.enumGoType \o GoName[g.values[v]], i, k, v>>
BY DEF EnumDecls

\* The declarations of an enum in its rendered file.
EnumText(i, k, x) ==
    LET g == schema[i].fields[k] IN
    /\ g.type = "enum"
    /\ \/ x = <<g.enumGoType, <<i, k, 0>>>>
       \/ \E v \in DOMAIN g.values : x = <<g.enumGoType \o GoName[g.values[v]], <<i, k, v>>>>

LEMMA ModelDeclsFacts ==
    ASSUME NEW i \in DOMAIN schema, NEW x
    PROVE  x \in ModelDecls(schema[i], i) <=>
               LET e == schema[i] IN
               \/ x = <<e.goName, <<i, "struct">>>>
               \/ \E k \in DOMAIN e.fields : EnumText(i, k, x)
               \/ Has(e, "create") /\ x = <<e.goName \o <<"Create", "Input">>, <<i, "create">>>>
               \/ Has(e, "update") /\ x = <<e.goName \o <<"Update", "Input">>, <<i, "update">>>>
<1> DEFINE e == schema[i]
           U == UNION {EnumDecls(i, k) : k \in DOMAIN e.fields}
           E == {<<d[1], <<i, d[3], d[4]>>>> : d \in U}
           C == {<<e.goName \o <<"Create", "Input">>, <<i, "create">>>> : op \in {"create"} \cap ToSet(e.endpoints)}
           P == {<<e.goName \o <<"Update", "Input">>, <<i, "update">>>> : op \in {"update"} \cap ToSet(e.endpoints)}
<1>1. x \in ModelDecls(schema[i], i) <=> x = <<e.goName, <<i, "struct">>>> \/ x \in E \/ x \in C \/ x \in P
  BY Zenon DEF ModelDecls
<1>2. x \in C <=> Has(e, "create") /\ x = <<e.goName \o <<"Create", "Input">>, <<i, "create">>>>
  BY DEF Has
<1>3. x \in P <=> Has(e, "update") /\ x = <<e.goName \o <<"Update", "Input">>, <<i, "update">>>>
  BY DEF Has
<1>4. x \in E <=> \E k \in DOMAIN e.fields : EnumText(i, k, x)
  <2>1. \A d : d \in U <=> \E k \in DOMAIN e.fields : d \in EnumDecls(i, k)
    OBVIOUS
  <2>2. x \in E <=> \E d \in U : x = <<d[1], <<i, d[3], d[4]>>>>
    OBVIOUS
  <2> HIDE DEF E, U
  <2>3. ASSUME NEW k \in DOMAIN e.fields, NEW d \in EnumDecls(i, k), x = <<d[1], <<i, d[3], d[4]>>>>
        PROVE  EnumText(i, k, x)
    <3> DEFINE g == schema[i].fields[k]
    <3>1. /\ g.type = "enum"
          /\ \/ d = <<g.enumGoType, i, k, 0>>
             \/ \E v \in DOMAIN g.values : d = <<g.enumGoType \o GoName[g.values[v]], i, k, v>>
      <4>1. d \in EnumDecls(i, k)
        OBVIOUS
      <4> QED
        BY <4>1 DEF EnumDecls
    <3>2. CASE d = <<g.enumGoType, i, k, 0>>
      BY <2>3, <3>1, <3>2 DEF EnumText
    <3>3. CASE \E v \in DOMAIN g.values : d = <<g.enumGoType \o GoName[g.values[v]], i, k, v>>
      <4>1. PICK v \in DOMAIN g.values : d = <<g.enumGoType \o GoName[g.values[v]], i, k, v>>
        BY <3>3
      <4>2. x = <<g.enumGoType \o GoName[g.values[v]], <<i, k, v>>>>
        BY <2>3, <4>1
      <4> QED
        BY <3>1, <4>2, Zenon DEF EnumText
    <3> QED
      BY <3>1, <3>2, <3>3
  <2>4. ASSUME NEW k \in DOMAIN e.fields, EnumText(i, k, x)
        PROVE  \E d \in EnumDecls(i, k) : x = <<d[1], <<i, d[3], d[4]>>>>
    <3> DEFINE g == schema[i].fields[k]
    <3>1. CASE x = <<g.enumGoType, <<i, k, 0>>>>
      <4>1. <<g.enumGoType, i, k, 0>> \in EnumDecls(i, k)
        BY <2>4, EnumDeclsFacts DEF EnumText
      <4> QED
        BY <3>1, <4>1
    <3>2. CASE \E v \in DOMAIN g.values : x = <<g.enumGoType \o GoName[g.values[v]], <<i, k, v>>>>
      <4>1. PICK v \in DOMAIN g.values : x = <<g.enumGoType \o GoName[g.values[v]], <<i, k, v>>>>
        BY <3>2
      <4>2. <<g.enumGoType \o GoName[g.values[v]], i, k, v>> \in EnumDecls(i, k)
        BY <2>4, EnumDeclsFacts DEF EnumText
      <4> QED
        BY <4>1, <4>2
    <3> QED
      BY <2>4, <3>1, <3>2 DEF EnumText
  <2> QED
    BY <2>1, <2>2, <2>3, <2>4
<1> HIDE DEF E, C, P
<1> QED
  BY <1>1, <1>2, <1>3, <1>4

LEMMA Literals ==
    ASSUME NEW a, NEW b, NEW c
    PROVE  /\ <<a>> \in Seq(ToSet(<<a>>)) /\ <<a, b>> \in Seq(ToSet(<<a, b>>))
           /\ <<a, b, c>> \in Seq(ToSet(<<a, b, c>>))
           /\ <<a>> # << >> /\ <<a>>[1] = a
<1>1. DOMAIN <<a>> = 1..1 /\ DOMAIN <<a, b>> = 1..2 /\ DOMAIN <<a, b, c>> = 1..3
  OBVIOUS
<1>2. <<a>> \in Seq({a}) /\ <<a, b>> \in Seq({a, b}) /\ <<a, b, c>> \in Seq({a, b, c})
  OBVIOUS
<1>3. ToSet(<<a>>) = {a}
  BY <1>1 DEF ToSet
<1>4. ToSet(<<a, b>>) = {a, b}
  <2>1. 1..2 = {1, 2}
    OBVIOUS
  <2> QED
    BY <1>1, <2>1 DEF ToSet
<1>5. ToSet(<<a, b, c>>) = {a, b, c}
  <2>1. 1..3 = {1, 2, 3}
    OBVIOUS
  <2> QED
    BY <1>1, <2>1 DEF ToSet
<1> QED
  BY <1>2, <1>3, <1>4, <1>5

LEMMA TrioFacts ==
    ASSUME NEW op \in {"create", "update", "delete"}, NEW m \in Trio(op)
    PROVE  m \in Seq(ToSet(m))
<1> DEFINE C == Capital[op]
<1>1. m \in {<<"Before", C>>, <<"After", C>>, <<"After", C, "Committed">>}
  BY DEF Trio
<1> HIDE DEF C
<1>2. \A a, b, c : <<a, b>> \in Seq(ToSet(<<a, b>>)) /\ <<a, b, c>> \in Seq(ToSet(<<a, b, c>>))
  BY Literals
<1> QED
  BY <1>1, <1>2

LEMMA ParsesFixed ==
    ASSUME Len(schema) \in Nat, DOMAIN schema = 1..Len(schema)
    PROVE  Parses(OptionalFile) /\ Parses(ErrorFile)
<1>1. \A w : w \notin DigitFirst => IsIdentifier(<<w>>) /\ \A x, y : IsIdentifier(<<w, x, y>>)
  <2>1. \A w : <<w>> # << >> /\ <<w>>[1] = w /\ \A x, y : <<w, x, y>> # << >> /\ <<w, x, y>>[1] = w
    OBVIOUS
  <2> QED
    BY <2>1 DEF IsIdentifier
<1>2. {"Optional", "Error", "NewValidationError", "Noop"} \cap DigitFirst = {}
  BY DigitAssumption
<1>3. Parses(OptionalFile)
  <2>1. OptionalFile.path[1] = "model" /\ OptionalFile.entity = 0
    BY FileFacts DEF OptionalFile
  <2>2. Render(OptionalFile) = RenderOptional(OptionalFile)
    BY RenderedFiles
  <2>3. Render(OptionalFile).decls = {<<<<"Optional">>, <<0>>>>} \cup
                                     {<<<<"Optional", ".", m>>, <<0, m>>>> : m \in OptionalMethods}
    BY <2>2 DEF RenderOptional
  <2>4. \A d \in Render(OptionalFile).decls : d[1] = <<"Optional">> \/ \E m : d[1] = <<"Optional", ".", m>>
    BY <2>3
  <2>5. \A d \in Render(OptionalFile).decls : IsIdentifier(d[1])
    BY <1>1, <1>2, <2>4
  <2> QED
    BY <2>1, <2>5 DEF Parses
<1>4. Parses(ErrorFile)
  <2>1. ErrorFile.path[1] = "hooks" /\ ErrorFile.entity = 0
    BY FileFacts DEF ErrorFile
  <2>2. Render(ErrorFile) = RenderError(ErrorFile)
    BY RenderedFiles
  <2>3. Render(ErrorFile).decls = {<<<<"Error">>, <<0>>>>, <<<<"Error", ".", "Error">>, <<0, "method">>>>,
                                   <<<<"NewValidationError">>, <<0, "func">>>>}
    BY <2>2 DEF RenderError
  <2>4. \A d \in Render(ErrorFile).decls : d[1] \in {<<"Error">>, <<"Error", ".", "Error">>, <<"NewValidationError">>}
    BY <2>3
  <2>5. \A d \in Render(ErrorFile).decls : IsIdentifier(d[1])
    BY <1>1, <1>2, <2>4
  <2> QED
    BY <2>1, <2>5 DEF Parses
<1> QED
  BY <1>3, <1>4

\* Noop<Entity>Hooks
NoopName(e) == <<"Noop">> \o e.goName \o <<"Hooks">>

LEMMA HooksNamesFacts ==
    ASSUME NEW e, e.goName \in Seq(ToSet(e.goName)), e.goName # << >>
    PROVE  /\ NoopName(e) \in Seq(ToSet(NoopName(e))) /\ NoopName(e) # << >> /\ IsIdentifier(NoopName(e))
           /\ IsIdentifier(e.goName \o <<"Hooks">>) <=> IsIdentifier(e.goName)
           /\ \A op \in {"create", "update", "delete"} : \A m \in Trio(op) : IsIdentifier(NoopName(e) \o <<".">> \o m)
<1> DEFINE g == e.goName
           noop == <<"Noop">>
           hooks == <<"Hooks">>
           dot == <<".">>
           N == (noop \o g) \o hooks
<1>1. noop \in Seq(ToSet(noop)) /\ hooks \in Seq(ToSet(hooks)) /\ dot \in Seq(ToSet(dot)) /\ noop # << >>
      /\ Len(noop) > 0
  <2>1. \A w : <<w>> \in Seq(ToSet(<<w>>)) /\ <<w>> # << >>
    BY Literals
  <2>2. Len(noop) = 1
    OBVIOUS
  <2> QED
    BY <2>1, <2>2
<1>2. IsIdentifier(noop)
  BY DigitAssumption DEF IsIdentifier
<1>3. N = NoopName(e)
  BY DEF NoopName
<1> HIDE DEF noop, hooks, dot, g
<1>4. \A s : Len(s) > 0 => s # << >>
  OBVIOUS
<1>5. /\ noop \o g \in Seq(ToSet(noop \o g)) /\ noop \o g # << >> /\ IsIdentifier(noop \o g)
      /\ Len(noop \o g) > 0
  <2>1. g \in Seq(ToSet(g))
    BY DEF g
  <2> QED
    BY <1>1, <1>2, <1>4, <2>1, JoinedSet, FirstWord
<1>6. N \in Seq(ToSet(N)) /\ N # << >> /\ IsIdentifier(N) /\ Len(N) > 0
  BY <1>1, <1>4, <1>5, JoinedSet, FirstWord
<1>7. IsIdentifier(g \o hooks) <=> IsIdentifier(g)
  <2>1. g \in Seq(ToSet(g)) /\ g # << >>
    BY DEF g
  <2> QED
    BY <1>1, <2>1, FirstWord
<1> HIDE DEF N
<1>8. ASSUME NEW m, m \in Seq(ToSet(m)) PROVE IsIdentifier(N \o dot \o m)
  <2>1. N \o dot \in Seq(ToSet(N \o dot)) /\ N \o dot # << >> /\ IsIdentifier(N \o dot)
    BY <1>1, <1>4, <1>6, JoinedSet, FirstWord
  <2> QED
    BY <1>8, <2>1, FirstWord
<1>9. \A op \in {"create", "update", "delete"} : \A m \in Trio(op) : IsIdentifier(N \o dot \o m)
  BY <1>8, TrioFacts
<1> QED
  BY <1>3, <1>6, <1>7, <1>9 DEF g, hooks, dot

LEMMA RenderedHooks ==
    ASSUME Len(schema) \in Nat, DOMAIN schema = 1..Len(schema), NEW i \in DOMAIN schema, NEW x
    PROVE  x \in Render(HooksFile(i)).decls <=>
               \/ x = <<schema[i].goName \o <<"Hooks">>, <<i, "interface">>>>
               \/ x = <<NoopName(schema[i]), <<i, "noop">>>>
               \/ \E op \in ToSet(WriteOperations(schema[i])) : \E m \in Trio(op) :
                      x = <<NoopName(schema[i]) \o <<".">> \o m, <<i, m>>>>
<1> DEFINE e == schema[i]
           noop == NoopName(e)
           M == UNION {Trio(op) : op \in ToSet(WriteOperations(e))}
<1>1. Render(HooksFile(i)) = RenderHooks(HooksFile(i)) /\ HooksFile(i).entity = i
  BY RenderedFiles, FileFacts DEF HooksFile
<1>2. Render(HooksFile(i)).decls =
          {<<e.goName \o <<"Hooks">>, <<i, "interface">>>>, <<noop, <<i, "noop">>>>} \cup
          {<<noop \o <<".">> \o m, <<i, m>>>> : m \in M}
  BY <1>1 DEF RenderHooks, NoopName
<1>3. \A m : m \in M <=> \E op \in ToSet(WriteOperations(e)) : m \in Trio(op)
  OBVIOUS
<1> HIDE DEF noop, M
<1>4. x \in Render(HooksFile(i)).decls <=>
          \/ x = <<e.goName \o <<"Hooks">>, <<i, "interface">>>>
          \/ x = <<noop, <<i, "noop">>>>
          \/ \E m \in M : x = <<noop \o <<".">> \o m, <<i, m>>>>
  BY <1>2
<1>5. (\E m \in M : x = <<noop \o <<".">> \o m, <<i, m>>>>) <=>
          \E op \in ToSet(WriteOperations(e)) : \E m \in Trio(op) : x = <<noop \o <<".">> \o m, <<i, m>>>>
  BY <1>3, Zenon
<1> QED
  BY <1>4, <1>5 DEF noop

LEMMA ParsesHooks ==
    ASSUME Len(schema) \in Nat, DOMAIN schema = 1..Len(schema), NEW i \in DOMAIN schema,
           NEW d, DrawnFrom(schema[i], d), IsIdentifier(GoName[d.name])
    PROVE  Parses(HooksFile(i))
<1> DEFINE e == schema[i]
           f == HooksFile(i)
<1>1. e.goName \in Seq(ToSet(e.goName)) /\ e.goName # << >> /\ IsIdentifier(e.goName)
  BY Joinable DEF DrawnFrom
<1>2. ToSet(WriteOperations(e)) \subseteq {"create", "update", "delete"}
  BY WriteOperationsFacts
<1>0. \A x : x \in Render(f).decls <=>
               \/ x = <<e.goName \o <<"Hooks">>, <<i, "interface">>>>
               \/ x = <<NoopName(e), <<i, "noop">>>>
               \/ \E op \in ToSet(WriteOperations(e)) : \E m \in Trio(op) :
                      x = <<NoopName(e) \o <<".">> \o m, <<i, m>>>>
  BY RenderedHooks
<1> HIDE DEF e
<1>3. /\ IsIdentifier(NoopName(e)) /\ IsIdentifier(e.goName \o <<"Hooks">>)
      /\ \A op \in {"create", "update", "delete"} : \A m \in Trio(op) : IsIdentifier(NoopName(e) \o <<".">> \o m)
  BY <1>1, HooksNamesFacts
<1>4. ASSUME NEW x \in Render(f).decls PROVE IsIdentifier(x[1])
  <2>1. \/ x = <<e.goName \o <<"Hooks">>, <<i, "interface">>>>
        \/ x = <<NoopName(e), <<i, "noop">>>>
        \/ \E op \in ToSet(WriteOperations(e)) : \E m \in Trio(op) : x = <<NoopName(e) \o <<".">> \o m, <<i, m>>>>
    BY <1>0
  <2>2. CASE x = <<e.goName \o <<"Hooks">>, <<i, "interface">>>>
    BY <1>3, <2>2
  <2>3. CASE x = <<NoopName(e), <<i, "noop">>>>
    BY <1>3, <2>3
  <2>4. CASE \E op \in ToSet(WriteOperations(e)) : \E m \in Trio(op) : x = <<NoopName(e) \o <<".">> \o m, <<i, m>>>>
    <3>1. PICK op \in ToSet(WriteOperations(e)) : \E m \in Trio(op) : x = <<NoopName(e) \o <<".">> \o m, <<i, m>>>>
      BY <2>4
    <3>2. PICK m \in Trio(op) : x = <<NoopName(e) \o <<".">> \o m, <<i, m>>>>
      BY <3>1
    <3>3. x[1] = NoopName(e) \o <<".">> \o m
      BY <3>2
    <3> QED
      BY <1>2, <1>3, <3>3
  <2> QED
    BY <2>1, <2>2, <2>3, <2>4
<1>5. f.path[1] = "hooks"
  BY FileFacts DEF HooksFile
<1> QED
  BY <1>4, <1>5 DEF Parses

LEMMA EnumNamesFacts ==
    ASSUME NEW d, d.name \in Name, GoName[d.name] # << >>, NEW f, f.name \in Name, f.values \in Seq(Name)
    PROVE  LET type == GoName[d.name] \o GoName[f.name] IN
           /\ type \in Seq(ToSet(type)) /\ type # << >>
           /\ IsIdentifier(type) <=> IsIdentifier(GoName[d.name])
           /\ \A v \in DOMAIN f.values : IsIdentifier(type \o GoName[f.values[v]]) <=> IsIdentifier(GoName[d.name])
<1> DEFINE g == GoName[d.name]
           h == GoName[f.name]
           type == g \o h
<1>1. g \in Seq(ToSet(g)) /\ h \in Seq(ToSet(h)) /\ g # << >>
  BY Joinable
<1>2. \A v \in DOMAIN f.values : GoName[f.values[v]] \in Seq(ToSet(GoName[f.values[v]]))
  BY Joinable
<1> HIDE DEF g, h
<1>3. Len(g) > 0
  BY <1>1
<1>4. type \in Seq(ToSet(type)) /\ Len(type) > 0 /\ (IsIdentifier(type) <=> IsIdentifier(g))
  BY <1>1, <1>3, JoinedSet, FirstWord
<1>5. type # << >>
  BY <1>4
<1> HIDE DEF type
<1>6. \A v \in DOMAIN f.values : IsIdentifier(type \o GoName[f.values[v]]) <=> IsIdentifier(type)
  BY <1>2, <1>4, <1>5, FirstWord
<1> QED
  BY <1>4, <1>5, <1>6 DEF g, h, type

LEMMA ParsesModel ==
    ASSUME Len(schema) \in Nat, DOMAIN schema = 1..Len(schema), NEW i \in DOMAIN schema,
           NEW d, DrawnFrom(schema[i], d)
    PROVE  Parses(ModelFile(i)) <=>
               /\ IsIdentifier(GoName[d.name])
               /\ \A k \in DOMAIN d.fields :
                      /\ IsIdentifier(GoName[d.fields[k].name])
                      /\ ~(d.fields[k].type = "belongsTo" /\ schema[i].fields[k].type = "enum")
<1> DEFINE e == schema[i]
           f == ModelFile(i)
           ok == IsIdentifier(GoName[d.name])
<1>1. /\ e.goName = GoName[d.name] /\ d.name \in Name /\ GoName[d.name] # << >>
      /\ DOMAIN e.fields = DOMAIN d.fields /\ DOMAIN d.fields = 1..Len(d.fields)
      /\ \A k \in DOMAIN d.fields : FieldFrom(e.fields[k], d.fields[k], d)
  BY DEF DrawnFrom
<1>2. Render(f).decls = ModelDecls(e, i) /\ f.path[1] = "model" /\ f.entity = i /\ i # 0
  <2>1. f.path[1] = "model" /\ f.entity = i
    BY FileFacts DEF ModelFile
  <2>2. Render(f) = RenderModel(f)
    BY RenderedFiles
  <2> HIDE DEF f
  <2> QED
    BY <2>1, <2>2 DEF RenderModel
<1>3. \A x : x \in ModelDecls(e, i) <=>
               \/ x = <<e.goName, <<i, "struct">>>>
               \/ \E k \in DOMAIN e.fields : EnumText(i, k, x)
               \/ Has(e, "create") /\ x = <<e.goName \o <<"Create", "Input">>, <<i, "create">>>>
               \/ Has(e, "update") /\ x = <<e.goName \o <<"Update", "Input">>, <<i, "update">>>>
  BY ModelDeclsFacts
<1>4. ASSUME NEW k \in DOMAIN d.fields
      PROVE  /\ IsIdentifier(e.fields[k].goName) <=> IsIdentifier(GoName[d.fields[k].name])
             /\ d.fields[k].type = "belongsTo" /\ e.fields[k].type = "enum" =>
                    \E x : EnumText(i, k, x) /\ ~IsIdentifier(x[1])
             /\ d.fields[k].type # "belongsTo" /\ ok => \A x : EnumText(i, k, x) => IsIdentifier(x[1])
             /\ e.fields[k].type # "enum" => \A x : ~EnumText(i, k, x)
  <2> DEFINE g == e.fields[k]
             w == d.fields[k]
  <2>1. FieldFrom(g, w, d)
    BY <1>1
  <2>2. GoName[w.name] \in Seq(ToSet(GoName[w.name])) /\ GoName[w.name] # << >>
    BY <2>1, Joinable DEF FieldFrom
  <2>3. \A x : EnumText(i, k, x) <=>
                 /\ g.type = "enum"
                 /\ \/ x = <<g.enumGoType, <<i, k, 0>>>>
                    \/ \E v \in DOMAIN g.values : x = <<g.enumGoType \o GoName[g.values[v]], <<i, k, v>>>>
    BY Zenon DEF EnumText
  <2> HIDE DEF g, w
  <2>4. IsIdentifier(g.goName) <=> IsIdentifier(GoName[w.name])
    <3>1. g.goName = GoName[w.name] \/ g.goName = Append(GoName[w.name], "ID")
      BY <2>1 DEF FieldFrom
    <3> QED
      BY <2>2, <3>1, FirstWord
  <2>5. ASSUME w.type = "belongsTo", g.type = "enum" PROVE \E x : EnumText(i, k, x) /\ ~IsIdentifier(x[1])
    <3>1. g.enumGoType = << >>
      BY <2>1, <2>5 DEF FieldFrom
    <3> DEFINE x == <<g.enumGoType, <<i, k, 0>>>>
    <3>2. EnumText(i, k, x)
      BY <2>3, <2>5
    <3>3. x[1] = << >>
      BY <3>1
    <3> QED
      BY <3>2, <3>3 DEF IsIdentifier
  <2>6. ASSUME w.type # "belongsTo", ok, NEW x, EnumText(i, k, x) PROVE IsIdentifier(x[1])
    <3>1. /\ g.type = "enum" /\ w.type = "enum" /\ g.enumGoType = GoName[d.name] \o GoName[w.name]
          /\ g.values = w.values /\ w.values \in Seq(Name) /\ w.name \in Name
      BY <2>1, <2>3, <2>6 DEF FieldFrom
    <3> DEFINE type == GoName[d.name] \o GoName[w.name]
    <3>2. IsIdentifier(type) /\ \A v \in DOMAIN w.values : IsIdentifier(type \o GoName[w.values[v]])
      BY <1>1, <2>6, <3>1, EnumNamesFacts
    <3> HIDE DEF type
    <3>3. x = <<type, <<i, k, 0>>>> \/ \E v \in DOMAIN w.values : x = <<type \o GoName[w.values[v]], <<i, k, v>>>>
      BY <2>3, <2>6, <3>1, Zenon DEF type
    <3>4. CASE x = <<type, <<i, k, 0>>>>
      BY <3>2, <3>4
    <3>5. CASE \E v \in DOMAIN w.values : x = <<type \o GoName[w.values[v]], <<i, k, v>>>>
      <4>1. PICK v \in DOMAIN w.values : x = <<type \o GoName[w.values[v]], <<i, k, v>>>>
        BY <3>5
      <4>2. x[1] = type \o GoName[w.values[v]]
        BY <4>1
      <4> QED
        BY <3>2, <4>2
    <3> QED
      BY <3>3, <3>4, <3>5
  <2>7. g.type # "enum" => \A x : ~EnumText(i, k, x)
    BY <2>3
  <2> QED
    BY <2>4, <2>5, <2>6, <2>7 DEF g, w
<1>5. ok => IsIdentifier(e.goName \o <<"Create", "Input">>) /\ IsIdentifier(e.goName \o <<"Update", "Input">>)
  <2>1. e.goName \in Seq(ToSet(e.goName)) /\ e.goName # << >>
    BY <1>1, Joinable
  <2>2. \A a, b : <<a, b>> \in Seq(ToSet(<<a, b>>))
    BY Literals
  <2>3. \A a, b : IsIdentifier(e.goName \o <<a, b>>) <=> IsIdentifier(e.goName)
    BY <2>1, <2>2, FirstWord
  <2> QED
    BY <1>1, <2>3
<1>6. Parses(f) <=> /\ \A x \in ModelDecls(e, i) : IsIdentifier(x[1])
                    /\ \A g \in ToSet(e.fields) : IsIdentifier(g.goName)
  BY <1>2 DEF Parses
<1>7. (\A g \in ToSet(e.fields) : IsIdentifier(g.goName)) <=>
          \A k \in DOMAIN d.fields : IsIdentifier(GoName[d.fields[k].name])
  BY <1>1, <1>4 DEF ToSet
<1> HIDE DEF f, e
<1>8. ASSUME \A x \in ModelDecls(e, i) : IsIdentifier(x[1])
      PROVE  ok /\ \A k \in DOMAIN d.fields : ~(d.fields[k].type = "belongsTo" /\ e.fields[k].type = "enum")
  <2>1. ok
    <3>1. <<e.goName, <<i, "struct">>>> \in ModelDecls(e, i)
      BY <1>3
    <3>2. <<e.goName, <<i, "struct">>>>[1] = e.goName
      OBVIOUS
    <3> QED
      BY <1>1, <1>8, <3>1, <3>2
  <2>2. ASSUME NEW k \in DOMAIN d.fields, d.fields[k].type = "belongsTo", e.fields[k].type = "enum" PROVE FALSE
    <3>1. PICK x : EnumText(i, k, x) /\ ~IsIdentifier(x[1])
      BY <1>4, <2>2
    <3>2. x \in ModelDecls(e, i)
      BY <1>1, <1>3, <3>1
    <3> QED
      BY <1>8, <3>1, <3>2
  <2> QED
    BY <2>1, <2>2
<1>9. ASSUME ok, \A k \in DOMAIN d.fields : ~(d.fields[k].type = "belongsTo" /\ e.fields[k].type = "enum"),
             NEW x \in ModelDecls(e, i)
      PROVE  IsIdentifier(x[1])
  <2>1. CASE x = <<e.goName, <<i, "struct">>>>
    BY <1>1, <1>9, <2>1
  <2>2. CASE \E k \in DOMAIN e.fields : EnumText(i, k, x)
    BY <1>1, <1>4, <1>9, <2>2
  <2>3. CASE x = <<e.goName \o <<"Create", "Input">>, <<i, "create">>>>
    BY <1>5, <1>9, <2>3
  <2>4. CASE x = <<e.goName \o <<"Update", "Input">>, <<i, "update">>>>
    BY <1>5, <1>9, <2>4
  <2> QED
    BY <1>3, <2>1, <2>2, <2>3, <2>4
<1> QED
  BY <1>6, <1>7, <1>8, <1>9 DEF f, e

LEMMA WrittenFacts ==
    ASSUME NEW i \in DOMAIN schema, NEW d, DrawnFrom(schema[i], d)
    PROVE  ToSet(WriteOperations(schema[i])) = Writes(d) /\ (i \in Written <=> Writes(d) # {})
<1>1. schema[i].endpoints = IF d.endpoints = Absent THEN EndpointKind ELSE d.endpoints
  BY DEF DrawnFrom
<1>2. ToSet(WriteOperations(schema[i])) = {"create", "update", "delete"} \cap ToSet(schema[i].endpoints)
      /\ (WriteOperations(schema[i]) = << >> <=> ToSet(WriteOperations(schema[i])) = {})
  BY WriteOperationsFacts
<1>3. ToSet(WriteOperations(schema[i])) = Writes(d)
  BY <1>1, <1>2 DEF Writes
<1> QED
  BY <1>2, <1>3 DEF Written

LEMMA PathsClash ==
    ASSUME IInv, pc = "accepted"
    PROVE  (\E f \in Planned : \E g \in Planned \ {f} : g.path = f.path) <=> FixedFileTaken
<1>1. /\ Len(schema) \in Nat /\ DOMAIN schema = 1..Len(schema)
      /\ Planned = {OptionalFile, ErrorFile} \cup {ModelFile(i) : i \in DOMAIN schema}
                   \cup {HooksFile(i) : i \in Written}
  BY SchemaShape, PlanFacts
<1>2. /\ OptionalFile.path = <<"model", "optional">> /\ OptionalFile.entity = 0
      /\ ErrorFile.path = <<"hooks", "error">> /\ ErrorFile.entity = 0
      /\ \A i : /\ ModelFile(i).path = <<"model", schema[i].name>> /\ ModelFile(i).entity = i
                /\ HooksFile(i).path = <<"hooks", schema[i].name>> /\ HooksFile(i).entity = i
  BY FileFacts DEF OptionalFile, ErrorFile, ModelFile, HooksFile
<1>3. /\ \A i \in DOMAIN schema : \E m \in DOMAIN doc : DrawnFrom(schema[i], doc[m])
      /\ \A m \in DOMAIN doc : \E i \in DOMAIN schema : DrawnFrom(schema[i], doc[m])
      /\ \A i, j \in DOMAIN schema : schema[i].name = schema[j].name => i = j
  BY Origins
<1>4. \A i, m : DrawnFrom(schema[i], doc[m]) => schema[i].name = doc[m].name
  BY DEF DrawnFrom
<1>5. Written \subseteq DOMAIN schema /\ 0 \notin DOMAIN schema
  BY <1>1 DEF Written
<1>6. ASSUME NEW i \in DOMAIN schema, schema[i].name = "optional" \/ (schema[i].name = "error" /\ i \in Written)
      PROVE  FixedFileTaken
  <2>1. PICK m \in DOMAIN doc : DrawnFrom(schema[i], doc[m])
    BY <1>3
  <2>2. doc[m] \in ToSet(doc) /\ doc[m].name = schema[i].name /\ (i \in Written <=> Writes(doc[m]) # {})
    BY <1>4, <2>1, WrittenFacts DEF ToSet
  <2> QED
    BY <1>6, <2>2 DEF FixedFileTaken
<1>7. ASSUME NEW f \in Planned, NEW g \in Planned \ {f}, g.path = f.path PROVE FixedFileTaken
  <2> DEFINE isModel(x, i) == x = ModelFile(i) /\ i \in DOMAIN schema
             isHooks(x, i) == x = HooksFile(i) /\ i \in Written
  <2>1. \A x \in Planned : x = OptionalFile \/ x = ErrorFile \/ (\E i : isModel(x, i)) \/ (\E i : isHooks(x, i))
    BY <1>1
  <2>2. \A x, i : isModel(x, i) => x.path = <<"model", schema[i].name>>
    BY <1>2
  <2>3. \A x, i : isHooks(x, i) => x.path = <<"hooks", schema[i].name>>
    BY <1>2
  <2>4. ASSUME NEW i, NEW j, isModel(f, i), isModel(g, j) PROVE FALSE
    <3>1. schema[i].name = schema[j].name
      BY <1>7, <2>2, <2>4
    <3> QED
      BY <1>3, <1>7, <2>4, <3>1
  <2>5. ASSUME NEW i, NEW j, isHooks(f, i), isHooks(g, j) PROVE FALSE
    <3>1. schema[i].name = schema[j].name
      BY <1>7, <2>3, <2>5
    <3> QED
      BY <1>3, <1>5, <1>7, <2>5, <3>1
  <2>6. ASSUME NEW x, NEW i, isModel(x, i), x.path = OptionalFile.path PROVE FixedFileTaken
    <3>1. schema[i].name = "optional"
      BY <1>2, <2>2, <2>6
    <3> QED
      BY <1>6, <2>6, <3>1
  <2>7. ASSUME NEW x, NEW i, isHooks(x, i), x.path = ErrorFile.path PROVE FixedFileTaken
    <3>1. schema[i].name = "error" /\ i \in DOMAIN schema
      BY <1>2, <1>5, <2>3, <2>7
    <3> QED
      BY <1>6, <2>7, <3>1
  <2>8. \A x : x.path[1] = "model" \/ x.path[1] # "model"
    OBVIOUS
  <2>9. /\ OptionalFile.path[1] = "model" /\ ErrorFile.path[1] = "hooks"
        /\ \A x, i : isModel(x, i) => x.path[1] = "model"
        /\ \A x, i : isHooks(x, i) => x.path[1] = "hooks"
    BY <1>2
  <2> HIDE DEF isModel, isHooks
  <2>10. CASE f.path[1] = "model"
    <3>1. (f = OptionalFile \/ \E i : isModel(f, i)) /\ (g = OptionalFile \/ \E i : isModel(g, i))
      BY <1>7, <2>1, <2>9, <2>10
    <3> QED
      BY <1>7, <2>4, <2>6, <3>1
  <2>11. CASE f.path[1] # "model"
    <3>1. (f = ErrorFile \/ \E i : isHooks(f, i)) /\ (g = ErrorFile \/ \E i : isHooks(g, i))
      BY <1>7, <2>1, <2>9, <2>11
    <3> QED
      BY <1>7, <2>5, <2>7, <3>1
  <2> QED
    BY <2>10, <2>11
<1>8. ASSUME FixedFileTaken PROVE \E f \in Planned : \E g \in Planned \ {f} : g.path = f.path
  <2>1. PICK m \in DOMAIN doc : doc[m].name = "optional" \/ (doc[m].name = "error" /\ Writes(doc[m]) # {})
    BY <1>8 DEF FixedFileTaken, ToSet
  <2>2. PICK i \in DOMAIN schema : DrawnFrom(schema[i], doc[m])
    BY <1>3
  <2>3. schema[i].name = doc[m].name /\ (i \in Written <=> Writes(doc[m]) # {})
    BY <1>4, <2>2, WrittenFacts
  <2>4. CASE doc[m].name = "optional"
    <3>1. ModelFile(i) \in Planned /\ OptionalFile \in Planned /\ ModelFile(i).path = OptionalFile.path
      BY <1>1, <1>2, <2>3, <2>4
    <3>2. ModelFile(i) # OptionalFile
      BY <1>2, <1>5
    <3> QED
      BY <3>1, <3>2
  <2>5. CASE doc[m].name = "error" /\ Writes(doc[m]) # {}
    <3>1. HooksFile(i) \in Planned /\ ErrorFile \in Planned /\ HooksFile(i).path = ErrorFile.path
      BY <1>1, <1>2, <2>3, <2>5
    <3>2. HooksFile(i) # ErrorFile
      BY <1>2, <1>5
    <3> QED
      BY <3>1, <3>2
  <2> QED
    BY <2>1, <2>4, <2>5
<1> QED
  BY <1>7, <1>8

LEMMA EnumReferred ==
    ASSUME IInv, pc = "accepted"
    PROVE  RefersToEnum <=> \E i \in DOMAIN schema : \E k \in DOMAIN schema[i].pending : schema[i].fields[k].type = "enum"
<1>1. ASSUME NEW i \in DOMAIN schema
      PROVE  (\E r \in schema[i].relations : schema[r.target].fields[schema[r.target].pk].type = "enum") <=>
             \E k \in DOMAIN schema[i].pending : schema[i].fields[k].type = "enum"
  <2> DEFINE e == schema[i]
  <2>1. Linked(e)
    BY DEF IInv, Judged
  <2>2. /\ {r.field : r \in e.relations} = DOMAIN e.pending
        /\ \A r \in e.relations :
               e.fields[r.field].type = schema[r.target].fields[schema[r.target].pk].type
    BY <2>1 DEF Linked
  <2> HIDE DEF e
  <2>3. (\E r \in e.relations : schema[r.target].fields[schema[r.target].pk].type = "enum") <=>
        \E k \in DOMAIN e.pending : e.fields[k].type = "enum"
    BY <2>2
  <2> QED
    BY <2>3 DEF e
<1>2. RefersToEnum <=> \E i \in DOMAIN schema : \E r \in schema[i].relations :
          schema[r.target].fields[schema[r.target].pk].type = "enum"
  BY DEF RefersToEnum, ToSet
<1> QED
  BY <1>1, <1>2

(* The plan cannot be rendered exactly when the property says so.             *)
LEMMA Unrenderable ==
    ASSUME IInv, pc = "accepted"
    PROVE  (\E f \in Planned : ~Parses(f) \/ \E g \in Planned \ {f} : g.path = f.path) <=>
               FixedFileTaken \/ RefersToEnum \/ DigitName
<1>1. /\ Len(schema) \in Nat /\ DOMAIN schema = 1..Len(schema)
      /\ Planned = {OptionalFile, ErrorFile} \cup {ModelFile(i) : i \in DOMAIN schema}
                   \cup {HooksFile(i) : i \in Written}
      /\ Written \subseteq DOMAIN schema
  BY SchemaShape, PlanFacts DEF Written
<1>2. /\ \A i \in DOMAIN schema : \E m \in DOMAIN doc : DrawnFrom(schema[i], doc[m])
      /\ \A m \in DOMAIN doc : \E i \in DOMAIN schema : DrawnFrom(schema[i], doc[m])
  BY Origins
<1>3. \A n : GoName[n] # << >> => (IsIdentifier(GoName[n]) <=> GoName[n][1] \notin DigitFirst)
  BY DEF IsIdentifier
<1>4. DigitName <=> \E m \in DOMAIN doc : \/ GoName[doc[m].name][1] \in DigitFirst
                                          \/ \E k \in DOMAIN doc[m].fields : GoName[doc[m].fields[k].name][1] \in DigitFirst
  BY DEF DigitName, ToSet
<1>5. ASSUME NEW i \in DOMAIN schema, NEW m \in DOMAIN doc, DrawnFrom(schema[i], doc[m])
      PROVE  /\ Parses(ModelFile(i)) <=>
                    /\ GoName[doc[m].name][1] \notin DigitFirst
                    /\ \A k \in DOMAIN doc[m].fields : GoName[doc[m].fields[k].name][1] \notin DigitFirst
                    /\ \A k \in DOMAIN schema[i].pending : schema[i].fields[k].type # "enum"
             /\ GoName[doc[m].name][1] \notin DigitFirst => Parses(HooksFile(i))
  <2> DEFINE e == schema[i]
             d == doc[m]
  <2>1. /\ GoName[d.name] # << >> /\ DOMAIN e.fields = DOMAIN d.fields
        /\ \A k \in DOMAIN d.fields : GoName[d.fields[k].name] # << >>
        /\ DOMAIN e.pending = {k \in DOMAIN d.fields : d.fields[k].type = "belongsTo"}
    BY <1>5 DEF DrawnFrom, FieldFrom
  <2>2. Parses(ModelFile(i)) <=>
            /\ IsIdentifier(GoName[d.name])
            /\ \A k \in DOMAIN d.fields :
                   /\ IsIdentifier(GoName[d.fields[k].name])
                   /\ ~(d.fields[k].type = "belongsTo" /\ e.fields[k].type = "enum")
    BY <1>1, <1>5, ParsesModel
  <2>3. IsIdentifier(GoName[d.name]) => Parses(HooksFile(i))
    BY <1>1, <1>5, ParsesHooks
  <2> HIDE DEF e, d
  <2>4. /\ Parses(ModelFile(i)) <=>
               /\ GoName[d.name][1] \notin DigitFirst
               /\ \A k \in DOMAIN d.fields : GoName[d.fields[k].name][1] \notin DigitFirst
               /\ \A k \in DOMAIN e.pending : e.fields[k].type # "enum"
        /\ GoName[d.name][1] \notin DigitFirst => Parses(HooksFile(i))
    BY <1>3, <2>1, <2>2, <2>3
  <2> QED
    BY <2>4 DEF e, d
<1>6. Parses(OptionalFile) /\ Parses(ErrorFile)
  BY <1>1, ParsesFixed
<1>7. RefersToEnum <=> \E i \in DOMAIN schema : \E k \in DOMAIN schema[i].pending : schema[i].fields[k].type = "enum"
  BY EnumReferred
<1>8. (\E f \in Planned : ~Parses(f)) <=> \E i \in DOMAIN schema : ~Parses(ModelFile(i)) \/ (i \in Written /\ ~Parses(HooksFile(i)))
  <2> HIDE DEF Planned
  <2>1. \A f : f \in Planned <=> \/ f = OptionalFile \/ f = ErrorFile
                                 \/ \E i \in DOMAIN schema : f = ModelFile(i)
                                 \/ \E i \in Written : f = HooksFile(i)
    BY <1>1
  <2> QED
    BY <1>1, <1>6, <2>1
<1>9. (\E i \in DOMAIN schema : ~Parses(ModelFile(i)) \/ (i \in Written /\ ~Parses(HooksFile(i)))) <=>
          RefersToEnum \/ DigitName
  <2>1. ASSUME NEW i \in DOMAIN schema, ~Parses(ModelFile(i)) \/ (i \in Written /\ ~Parses(HooksFile(i)))
        PROVE  RefersToEnum \/ DigitName
    <3>1. PICK m \in DOMAIN doc : DrawnFrom(schema[i], doc[m])
      BY <1>2
    <3> QED
      BY <1>4, <1>5, <1>7, <2>1, <3>1
  <2>2. ASSUME RefersToEnum PROVE \E i \in DOMAIN schema : ~Parses(ModelFile(i))
    <3>1. PICK i \in DOMAIN schema : \E k \in DOMAIN schema[i].pending : schema[i].fields[k].type = "enum"
      BY <1>7, <2>2
    <3>2. PICK m \in DOMAIN doc : DrawnFrom(schema[i], doc[m])
      BY <1>2
    <3> QED
      BY <1>5, <3>1, <3>2
  <2>3. ASSUME DigitName PROVE \E i \in DOMAIN schema : ~Parses(ModelFile(i))
    <3>1. PICK m \in DOMAIN doc : \/ GoName[doc[m].name][1] \in DigitFirst
                                  \/ \E k \in DOMAIN doc[m].fields : GoName[doc[m].fields[k].name][1] \in DigitFirst
      BY <1>4, <2>3
    <3>2. PICK i \in DOMAIN schema : DrawnFrom(schema[i], doc[m])
      BY <1>2
    <3> QED
      BY <1>5, <3>1, <3>2
  <2> QED
    BY <2>1, <2>2, <2>3
<1>10. (\E f \in Planned : \E g \in Planned \ {f} : g.path = f.path) <=> FixedFileTaken
  BY PathsClash
<1> QED
  BY <1>8, <1>9, <1>10, Zenon

(* generate.go: an accepted schema is rendered in full but for the three       *)
(* reasons that Validate does not look at, and each of them makes it fail.     *)
THEOREM FailuresExplained == GenSpec => []FailsOnlyFor
<1>1. ASSUME GInv PROVE FailsOnlyFor
  <2>1. ASSUME stage = "failed" PROVE FixedFileTaken \/ RefersToEnum \/ DigitName
    <3>1. IInv /\ pc = "accepted" /\ \E f \in Planned : ~Parses(f) \/ \E g \in Planned \ {f} : g.path = f.path
      BY <1>1, <2>1 DEF GInv, Stages
    <3> QED
      BY <3>1, Unrenderable
  <2>2. ASSUME Done PROVE ~(FixedFileTaken \/ RefersToEnum \/ DigitName)
    <3>1. /\ IInv /\ pc = "accepted" /\ \A f \in Planned : Parses(f)
          /\ \A f, g \in Planned : f.path = g.path => f = g
      BY <1>1, <2>2, DoneFacts
    <3>2. ~\E f \in Planned : ~Parses(f) \/ \E g \in Planned \ {f} : g.path = f.path
      BY <3>1
    <3> QED
      BY <3>1, <3>2, Unrenderable
  <2> QED
    BY <2>1, <2>2 DEF FailsOnlyFor
<1> QED
  BY <1>1, GenInvariant, PTL

-----------------------------------------------------------------------------
(* What the packages declare *)

LEMMA DeclsFacts ==
    ASSUME GInv, Done, NEW x
    PROVE  /\ x \in Decls("model") <=> \/ x \in Render(OptionalFile).decls
                                       \/ \E i \in DOMAIN schema : x \in ModelDecls(schema[i], i)
           /\ x \in Decls("hooks") <=> \/ x \in Render(ErrorFile).decls
                                       \/ \E i \in Written : x \in Render(HooksFile(i)).decls
<1>1. /\ Len(schema) \in Nat /\ DOMAIN schema = 1..Len(schema)
      /\ \A f \in Planned : f.path \in DOMAIN out /\ out[f.path] = Render(f)
      /\ \A p \in DOMAIN out : \E f \in Planned : p = f.path
  BY DoneFacts
<1>2. Planned = {OptionalFile, ErrorFile} \cup {ModelFile(i) : i \in DOMAIN schema} \cup {HooksFile(i) : i \in Written}
  BY <1>1, PlanFacts
<1>3. \A package : x \in Decls(package) <=> \E p \in DOMAIN out : p[1] = package /\ x \in out[p].decls
  BY DEF Decls, Texts
<1>4. \A package : x \in Decls(package) <=> \E f \in Planned : f.path[1] = package /\ x \in Render(f).decls
  BY <1>1, <1>3
<1>5. /\ OptionalFile.path[1] = "model" /\ ErrorFile.path[1] = "hooks" /\ "model" # "hooks"
      /\ \A i : ModelFile(i).path[1] = "model" /\ HooksFile(i).path[1] = "hooks"
  BY FileFacts DEF OptionalFile, ErrorFile, ModelFile, HooksFile
<1>6. \A i \in DOMAIN schema : Render(ModelFile(i)).decls = ModelDecls(schema[i], i)
  <2> SUFFICES ASSUME NEW i \in DOMAIN schema PROVE Render(ModelFile(i)).decls = ModelDecls(schema[i], i)
    OBVIOUS
  <2>1. Render(ModelFile(i)) = RenderModel(ModelFile(i)) /\ ModelFile(i).entity = i
    BY <1>1, RenderedFiles, FileFacts DEF ModelFile
  <2> QED
    BY <2>1 DEF RenderModel
<1>7. \A f \in Planned : f.path[1] = "model" <=> f = OptionalFile \/ \E i \in DOMAIN schema : f = ModelFile(i)
  BY <1>2, <1>5
<1>8. \A f \in Planned : f.path[1] = "hooks" <=> f = ErrorFile \/ \E i \in Written : f = HooksFile(i)
  BY <1>2, <1>5
<1>9. x \in Decls("model") <=> \/ x \in Render(OptionalFile).decls
                               \/ \E i \in DOMAIN schema : x \in Render(ModelFile(i)).decls
  BY <1>2, <1>4, <1>7
<1>10. x \in Decls("hooks") <=> \/ x \in Render(ErrorFile).decls
                                \/ \E i \in Written : x \in Render(HooksFile(i)).decls
  BY <1>2, <1>4, <1>8
<1> QED
  BY <1>6, <1>9, <1>10

LEMMA FixedDecls ==
    ASSUME Len(schema) \in Nat, DOMAIN schema = 1..Len(schema)
    PROVE  /\ Render(OptionalFile).decls = {<<<<"Optional">>, <<0>>>>} \cup
                                           {<<<<"Optional", ".", m>>, <<0, m>>>> : m \in OptionalMethods}
           /\ Render(ErrorFile).decls = {<<<<"Error">>, <<0>>>>, <<<<"Error", ".", "Error">>, <<0, "method">>>>,
                                         <<<<"NewValidationError">>, <<0, "func">>>>}
BY RenderedFiles DEF RenderOptional, RenderError

\* The names entity i gives to the model package, and to the hooks package.
EnumName(i, k, n) == \E x : EnumText(i, k, x) /\ n = x[1]

ModelName(i, n) ==
    LET e == schema[i] IN
    \/ n = e.goName
    \/ \E k \in DOMAIN e.fields : EnumName(i, k, n)
    \/ Has(e, "create") /\ n = e.goName \o <<"Create", "Input">>
    \/ Has(e, "update") /\ n = e.goName \o <<"Update", "Input">>

HooksName(e, n) ==
    \/ n = e.goName \o <<"Hooks">>
    \/ n = NoopName(e)
    \/ \E op \in ToSet(WriteOperations(e)) : \E m \in Trio(op) : n = NoopName(e) \o <<".">> \o m

LEMMA RenderedNames ==
    ASSUME Len(schema) \in Nat, DOMAIN schema = 1..Len(schema), NEW i \in DOMAIN schema, NEW n
    PROVE  /\ (\E x \in ModelDecls(schema[i], i) : n = x[1]) <=> ModelName(i, n)
           /\ (\E x \in Render(HooksFile(i)).decls : n = x[1]) <=> HooksName(schema[i], n)
<1> DEFINE e == schema[i]
           g == e.goName
           noop == NoopName(e)
           create == g \o <<"Create", "Input">>
           update == g \o <<"Update", "Input">>
           hooks == g \o <<"Hooks">>
           D == ModelDecls(e, i)
           H == Render(HooksFile(i)).decls
           P(op, m) == noop \o <<".">> \o m
           ops == ToSet(WriteOperations(e))
<1>1. \A x : x \in D <=> \/ x = <<g, <<i, "struct">>>>
                         \/ \E k \in DOMAIN e.fields : EnumText(i, k, x)
                         \/ Has(e, "create") /\ x = <<create, <<i, "create">>>>
                         \/ Has(e, "update") /\ x = <<update, <<i, "update">>>>
  BY ModelDeclsFacts
<1>2. \A x : x \in H <=> \/ x = <<hooks, <<i, "interface">>>>
                         \/ x = <<noop, <<i, "noop">>>>
                         \/ \E op \in ops : \E m \in Trio(op) : x = <<noop \o <<".">> \o m, <<i, m>>>>
  BY RenderedHooks
<1>3. ModelName(i, n) <=> \/ n = g
                          \/ \E k \in DOMAIN e.fields : EnumName(i, k, n)
                          \/ Has(e, "create") /\ n = create
                          \/ Has(e, "update") /\ n = update
  BY Zenon DEF ModelName
<1>4. HooksName(e, n) <=> \/ n = hooks \/ n = noop
                          \/ \E op \in ops : \E m \in Trio(op) : n = noop \o <<".">> \o m
  BY Zenon DEF HooksName
<1> HIDE DEF e, g, noop, create, update, hooks, D, H, ops
<1>5. (\E x \in D : n = x[1]) <=> ModelName(i, n)
  <2>1. ASSUME NEW w, n = w PROVE \A y : n = <<w, y>>[1]
    BY <2>1
  <2>2. ASSUME NEW w, NEW y, <<w, y>> \in D, n = w PROVE \E x \in D : n = x[1]
    BY <2>1, <2>2
  <2>3. ASSUME n = g PROVE \E x \in D : n = x[1]
    <3>1. <<g, <<i, "struct">>>> \in D
      BY <1>1
    <3> QED
      BY <2>2, <2>3, <3>1
  <2>4. ASSUME Has(e, "create"), n = create PROVE \E x \in D : n = x[1]
    <3>1. <<create, <<i, "create">>>> \in D
      BY <1>1, <2>4
    <3> QED
      BY <2>2, <2>4, <3>1
  <2>5. ASSUME Has(e, "update"), n = update PROVE \E x \in D : n = x[1]
    <3>1. <<update, <<i, "update">>>> \in D
      BY <1>1, <2>5
    <3> QED
      BY <2>2, <2>5, <3>1
  <2>6. ModelName(i, n) => \E x \in D : n = x[1]
    BY <1>1, <1>3, <2>3, <2>4, <2>5 DEF EnumName
  <2>7. ASSUME NEW x \in D, n = x[1] PROVE ModelName(i, n)
    <3>1. CASE x = <<g, <<i, "struct">>>>
      BY <1>3, <2>7, <3>1
    <3>2. CASE \E k \in DOMAIN e.fields : EnumText(i, k, x)
      BY <1>3, <2>7, <3>2 DEF EnumName
    <3>3. CASE Has(e, "create") /\ x = <<create, <<i, "create">>>>
      BY <1>3, <2>7, <3>3
    <3>4. CASE Has(e, "update") /\ x = <<update, <<i, "update">>>>
      BY <1>3, <2>7, <3>4
    <3> QED
      BY <1>1, <2>7, <3>1, <3>2, <3>3, <3>4
  <2> QED
    BY <2>6, <2>7
<1>6. ASSUME NEW op \in ops, NEW m \in Trio(op), n = noop \o <<".">> \o m PROVE \E x \in H : n = x[1]
  <2> DEFINE x == <<noop \o <<".">> \o m, <<i, m>>>>
  <2>1. x \in H
    BY <1>2
  <2>2. x[1] = n
    BY <1>6
  <2> QED
    BY <2>1, <2>2
<1>7. ASSUME NEW x \in H, n = x[1] PROVE HooksName(e, n)
  <2>1. CASE x = <<hooks, <<i, "interface">>>>
    BY <1>4, <1>7, <2>1
  <2>2. CASE x = <<noop, <<i, "noop">>>>
    BY <1>4, <1>7, <2>2
  <2>3. CASE \E op \in ops : \E m \in Trio(op) : x = <<noop \o <<".">> \o m, <<i, m>>>>
    <3>1. PICK op \in ops : \E m \in Trio(op) : x = <<noop \o <<".">> \o m, <<i, m>>>>
      BY <2>3
    <3>2. PICK m \in Trio(op) : x = <<noop \o <<".">> \o m, <<i, m>>>>
      BY <3>1
    <3>3. n = noop \o <<".">> \o m
      BY <1>7, <3>2
    <3> QED
      BY <1>4, <3>3
  <2> QED
    BY <1>2, <2>1, <2>2, <2>3
<1>8. (\E x \in H : n = x[1]) <=> HooksName(e, n)
  <2>1. ASSUME n = hooks PROVE \E x \in H : n = x[1]
    <3>1. <<hooks, <<i, "interface">>>> \in H /\ <<hooks, <<i, "interface">>>>[1] = hooks
      BY <1>2
    <3> QED
      BY <2>1, <3>1
  <2>2. ASSUME n = noop PROVE \E x \in H : n = x[1]
    <3>1. <<noop, <<i, "noop">>>> \in H /\ <<noop, <<i, "noop">>>>[1] = noop
      BY <1>2
    <3> QED
      BY <2>2, <3>1
  <2> QED
    BY <1>4, <1>6, <1>7, <2>1, <2>2
<1> QED
  BY <1>5, <1>8 DEF e, D, H

LEMMA EnumNames ==
    ASSUME NEW i, NEW k, NEW n
    PROVE  (\E d \in EnumDecls(i, k) : n = d[1]) <=> EnumName(i, k, n)
<1> DEFINE g == schema[i].fields[k]
           P(v) == g.enumGoType \o GoName[g.values[v]]
<1>1. \A d : d \in EnumDecls(i, k) <=>
                 g.type = "enum" /\ (d = <<g.enumGoType, i, k, 0>> \/ \E v \in DOMAIN g.values : d = <<P(v), i, k, v>>)
  BY DEF EnumDecls
<1>2. \A x : EnumText(i, k, x) <=>
                 g.type = "enum" /\ (x = <<g.enumGoType, <<i, k, 0>>>> \/ \E v \in DOMAIN g.values : x = <<P(v), <<i, k, v>>>>)
  BY Zenon DEF EnumText
<1> DEFINE E == n = g.enumGoType \/ \E v \in DOMAIN g.values : n = P(v)
<1>3. (\E d \in EnumDecls(i, k) : n = d[1]) <=> g.type = "enum" /\ E
  <2> HIDE DEF g, P
  <2>1. ASSUME g.type = "enum", E PROVE \E d \in EnumDecls(i, k) : n = d[1]
    <3>1. CASE n = g.enumGoType
      <4>1. <<g.enumGoType, i, k, 0>> \in EnumDecls(i, k) /\ <<g.enumGoType, i, k, 0>>[1] = g.enumGoType
        BY <1>1, <2>1
      <4> QED
        BY <3>1, <4>1
    <3>2. CASE \E v \in DOMAIN g.values : n = P(v)
      <4>1. PICK v \in DOMAIN g.values : n = P(v)
        BY <3>2
      <4>2. <<P(v), i, k, v>> \in EnumDecls(i, k) /\ <<P(v), i, k, v>>[1] = P(v)
        BY <1>1, <2>1
      <4> QED
        BY <4>1, <4>2
    <3> QED
      BY <2>1, <3>1, <3>2
  <2>2. ASSUME NEW d \in EnumDecls(i, k), n = d[1] PROVE g.type = "enum" /\ E
    BY <1>1, <2>2
  <2> QED
    BY <2>1, <2>2
<1>4. (\E x : EnumText(i, k, x) /\ n = x[1]) <=> g.type = "enum" /\ E
  <2> HIDE DEF g, P
  <2>1. ASSUME g.type = "enum", E PROVE \E x : EnumText(i, k, x) /\ n = x[1]
    <3>1. CASE n = g.enumGoType
      <4>1. EnumText(i, k, <<g.enumGoType, <<i, k, 0>>>>) /\ <<g.enumGoType, <<i, k, 0>>>>[1] = g.enumGoType
        BY <1>2, <2>1
      <4> QED
        BY <3>1, <4>1
    <3>2. CASE \E v \in DOMAIN g.values : n = P(v)
      <4>1. PICK v \in DOMAIN g.values : n = P(v)
        BY <3>2
      <4>2. EnumText(i, k, <<P(v), <<i, k, v>>>>) /\ <<P(v), <<i, k, v>>>>[1] = P(v)
        BY <1>2, <2>1
      <4> QED
        BY <4>1, <4>2
    <3> QED
      BY <2>1, <3>1, <3>2
  <2>2. ASSUME NEW x, EnumText(i, k, x), n = x[1] PROVE g.type = "enum" /\ E
    BY <1>2, <2>2
  <2> QED
    BY <2>1, <2>2
<1> QED
  BY <1>3, <1>4 DEF EnumName

LEMMA PredictedModelNames ==
    ASSUME NEW n
    PROVE  n \in PredictedModel <=> \/ n = <<"Optional">>
                                    \/ \E m \in OptionalMethods : n = <<"Optional", ".", m>>
                                    \/ \E i \in DOMAIN schema : ModelName(i, n)
<1> DEFINE U(i) == UNION {EnumDecls(i, k) : k \in DOMAIN schema[i].fields}
           A(i) == {schema[i].goName} \cup {d[1] : d \in U(i)} \cup
                   {schema[i].goName \o <<Capital[op], "Input">> : op \in {"create", "update"} \cap ToSet(schema[i].endpoints)}
<1>1. n \in PredictedModel <=> \/ n = <<"Optional">>
                               \/ n \in {<<"Optional", ".", m>> : m \in OptionalMethods}
                               \/ n \in UNION {A(i) : i \in DOMAIN schema}
  BY Zenon DEF PredictedModel
<1>2. ASSUME NEW i \in DOMAIN schema PROVE n \in A(i) <=> ModelName(i, n)
  <2> DEFINE e == schema[i]
             I == {e.goName \o <<Capital[op], "Input">> : op \in {"create", "update"} \cap ToSet(e.endpoints)}
             N == {d[1] : d \in U(i)}
  <2>1. n \in A(i) <=> n = e.goName \/ n \in N \/ n \in I
    BY Zenon
  <2>2. n \in N <=> \E k \in DOMAIN e.fields : EnumName(i, k, n)
    <3>1. n \in N <=> \E d \in U(i) : n = d[1]
      OBVIOUS
    <3>2. \A d : d \in U(i) <=> \E k \in DOMAIN e.fields : d \in EnumDecls(i, k)
      BY Zenon
    <3> HIDE DEF U, N
    <3>3. n \in N <=> \E k \in DOMAIN e.fields : \E d \in EnumDecls(i, k) : n = d[1]
      BY <3>1, <3>2, Zenon
    <3>4. \A k : (\E d \in EnumDecls(i, k) : n = d[1]) <=> EnumName(i, k, n)
      BY EnumNames
    <3> QED
      BY <3>3, <3>4, Zenon
  <2>3. n \in I <=> \/ Has(e, "create") /\ n = e.goName \o <<"Create", "Input">>
                    \/ Has(e, "update") /\ n = e.goName \o <<"Update", "Input">>
    <3>1. Capital["create"] = "Create" /\ Capital["update"] = "Update"
      BY DEF Capital
    <3>2. n \in I <=> \E op \in {"create", "update"} : Has(e, op) /\ n = e.goName \o <<Capital[op], "Input">>
      BY Zenon DEF Has
    <3>3. n \in I <=> \/ Has(e, "create") /\ n = e.goName \o <<Capital["create"], "Input">>
                      \/ Has(e, "update") /\ n = e.goName \o <<Capital["update"], "Input">>
      BY <3>2, Zenon
    <3> QED
      BY <3>1, <3>3
  <2> HIDE DEF I, N, A
  <2>4. ModelName(i, n) <=> \/ n = e.goName
                            \/ \E k \in DOMAIN e.fields : EnumName(i, k, n)
                            \/ Has(e, "create") /\ n = e.goName \o <<"Create", "Input">>
                            \/ Has(e, "update") /\ n = e.goName \o <<"Update", "Input">>
    BY Zenon DEF ModelName
  <2> QED
    BY <2>1, <2>2, <2>3, <2>4, Zenon
<1> HIDE DEF A
<1>3. n \in UNION {A(i) : i \in DOMAIN schema} <=> \E i \in DOMAIN schema : ModelName(i, n)
  BY <1>2, Zenon
<1>4. n \in {<<"Optional", ".", m>> : m \in OptionalMethods} <=> \E m \in OptionalMethods : n = <<"Optional", ".", m>>
  BY Zenon
<1> QED
  BY <1>1, <1>3, <1>4, Zenon

LEMMA PredictedHooksNames ==
    ASSUME NEW n
    PROVE  n \in PredictedHooks <=> \/ n \in {<<"Error">>, <<"Error", ".", "Error">>, <<"NewValidationError">>}
                                    \/ \E i \in Written : HooksName(schema[i], n)
<1> DEFINE fixed == {<<"Error">>, <<"Error", ".", "Error">>, <<"NewValidationError">>}
           noop(e) == NoopName(e)
           M(e, op) == {noop(e) \o <<".">> \o m : m \in Trio(op)}
           A(e) == {e.goName \o <<"Hooks">>, noop(e)} \cup (UNION {M(e, op) : op \in ToSet(WriteOperations(e))})
           W == {e \in ToSet(schema) : WriteOperations(e) # << >>}
<1>1. n \in PredictedHooks <=> n \in fixed \/ n \in UNION {A(e) : e \in W}
  BY Zenon DEF PredictedHooks, NoopName
<1>2. ASSUME NEW e PROVE n \in A(e) <=> HooksName(e, n)
  <2>1. n \in A(e) <=> \/ n = e.goName \o <<"Hooks">>
                       \/ n = noop(e)
                       \/ \E op \in ToSet(WriteOperations(e)) : n \in M(e, op)
    BY Zenon
  <2>2. \A op : n \in M(e, op) <=> \E m \in Trio(op) : n = noop(e) \o <<".">> \o m
    BY Zenon
  <2> HIDE DEF M, A
  <2>3. HooksName(e, n) <=> \/ n = e.goName \o <<"Hooks">>
                            \/ n = noop(e)
                            \/ \E op \in ToSet(WriteOperations(e)) : \E m \in Trio(op) : n = noop(e) \o <<".">> \o m
    BY Zenon DEF HooksName
  <2> QED
    BY <2>1, <2>2, <2>3, Zenon
<1> HIDE DEF A
<1>3. \A e : e \in W <=> \E i \in Written : e = schema[i]
  BY Zenon DEF ToSet, Written
<1> HIDE DEF W, fixed
<1>4. n \in UNION {A(e) : e \in W} <=> \E i \in Written : HooksName(schema[i], n)
  BY <1>2, <1>3, Zenon
<1> QED
  BY <1>1, <1>4, Zenon DEF fixed

(* names.go: the packages declare what names.go predicts for them, and         *)
(* nothing else.                                                               *)
THEOREM PredictionHolds == GenSpec => []DeclaredAsPredicted
<1>1. ASSUME GInv, Done, NEW n PROVE n \in DeclaredNames("model") <=> n \in PredictedModel
  <2>1. Len(schema) \in Nat /\ DOMAIN schema = 1..Len(schema)
    BY <1>1, DoneFacts
  <2> DEFINE F == Render(OptionalFile).decls
  <2>2. \A x : x \in Decls("model") <=> x \in F \/ \E i \in DOMAIN schema : x \in ModelDecls(schema[i], i)
    BY <1>1, DeclsFacts
  <2>3. \A i \in DOMAIN schema : (\E x \in ModelDecls(schema[i], i) : n = x[1]) <=> ModelName(i, n)
    BY <2>1, RenderedNames
  <2>4. (\E x \in F : n = x[1]) <=> n = <<"Optional">> \/ \E m \in OptionalMethods : n = <<"Optional", ".", m>>
    <3>1. \A x : x \in F <=> \/ x = <<<<"Optional">>, <<0>>>>
                            \/ \E m \in OptionalMethods : x = <<<<"Optional", ".", m>>, <<0, m>>>>
      BY <2>1, FixedDecls
    <3> HIDE DEF F
    <3>2. ASSUME n = <<"Optional">> PROVE \E x \in F : n = x[1]
      <4>1. <<<<"Optional">>, <<0>>>> \in F
        BY <3>1
      <4> QED
        BY <3>2, <4>1
    <3>3. ASSUME NEW m \in OptionalMethods, n = <<"Optional", ".", m>> PROVE \E x \in F : n = x[1]
      <4>1. <<<<"Optional", ".", m>>, <<0, m>>>> \in F
        BY <3>1
      <4> QED
        BY <3>3, <4>1
    <3>4. ASSUME NEW x \in F, n = x[1]
          PROVE  n = <<"Optional">> \/ \E m \in OptionalMethods : n = <<"Optional", ".", m>>
      BY <3>1, <3>4
    <3> QED
      BY <3>2, <3>3, <3>4
  <2>5. n \in DeclaredNames("model") <=> \E x \in Decls("model") : n = x[1]
    BY DEF DeclaredNames
  <2> HIDE DEF F
  <2> QED
    BY <2>2, <2>3, <2>4, <2>5, PredictedModelNames, Zenon
<1>2. ASSUME GInv, Done, NEW n PROVE n \in DeclaredNames("hooks") <=> n \in PredictedHooks
  <2>1. Len(schema) \in Nat /\ DOMAIN schema = 1..Len(schema)
    BY <1>2, DoneFacts
  <2> DEFINE F == Render(ErrorFile).decls
  <2>2. \A x : x \in Decls("hooks") <=> x \in F \/ \E i \in Written : x \in Render(HooksFile(i)).decls
    BY <1>2, DeclsFacts
  <2>3. \A i \in Written : (\E x \in Render(HooksFile(i)).decls : n = x[1]) <=> HooksName(schema[i], n)
    BY <2>1, RenderedNames DEF Written
  <2>4. (\E x \in F : n = x[1]) <=> n \in {<<"Error">>, <<"Error", ".", "Error">>, <<"NewValidationError">>}
    <3>1. \A x : x \in F <=> \/ x = <<<<"Error">>, <<0>>>>
                            \/ x = <<<<"Error", ".", "Error">>, <<0, "method">>>>
                            \/ x = <<<<"NewValidationError">>, <<0, "func">>>>
      BY <2>1, FixedDecls
    <3>2. \A a, b : <<a, b>>[1] = a
      OBVIOUS
    <3> HIDE DEF F
    <3> QED
      BY <3>1, <3>2, Zenon
  <2>5. n \in DeclaredNames("hooks") <=> \E x \in Decls("hooks") : n = x[1]
    BY DEF DeclaredNames
  <2> HIDE DEF F
  <2> QED
    BY <2>2, <2>3, <2>4, <2>5, PredictedHooksNames, Zenon
<1>3. GInv => DeclaredAsPredicted
  BY <1>1, <1>2 DEF DeclaredAsPredicted
<1> QED
  BY <1>3, GenInvariant, PTL

-----------------------------------------------------------------------------
(* Declarations and the names they come from *)

\* R relates the declarations of A and B with the same names, each for each.
Matches(A, B, R) ==
    /\ \A x \in A : \E y \in B : <<x, y>> \in R
    /\ \A y \in B : \E x \in A : <<x, y>> \in R
    /\ \A x \in A, y \in B : <<x, y>> \in R => x[1] = y[1]
    /\ \A w, x \in A, y, z \in B : <<w, y>> \in R /\ <<x, z>> \in R => (w = x <=> y = z)

LEMMA ClashesTransfer ==
    ASSUME NEW A, NEW B, NEW R, Matches(A, B, R)
    PROVE  Clashes(A) <=> Clashes(B)
<1>0. /\ \A x \in A : \E y \in B : <<x, y>> \in R
      /\ \A y \in B : \E x \in A : <<x, y>> \in R
      /\ \A x \in A, y \in B : <<x, y>> \in R => x[1] = y[1]
      /\ \A w, x \in A, y, z \in B : <<w, y>> \in R /\ <<x, z>> \in R => (w = x <=> y = z)
  BY DEF Matches
<1>1. ASSUME Clashes(A) PROVE Clashes(B)
  <2>1. PICK w \in A, x \in A : w # x /\ w[1] = x[1]
    BY <1>1 DEF Clashes
  <2>2. PICK y \in B, z \in B : <<w, y>> \in R /\ <<x, z>> \in R
    BY <1>0
  <2>3. y # z /\ y[1] = z[1]
    BY <1>0, <2>1, <2>2
  <2> QED
    BY <2>3 DEF Clashes
<1>2. ASSUME Clashes(B) PROVE Clashes(A)
  <2>1. PICK y \in B, z \in B : y # z /\ y[1] = z[1]
    BY <1>2 DEF Clashes
  <2>2. PICK w \in A, x \in A : <<w, y>> \in R /\ <<x, z>> \in R
    BY <1>0
  <2>3. w # x /\ w[1] = x[1]
    BY <1>0, <2>1, <2>2
  <2> QED
    BY <2>3 DEF Clashes
<1> QED
  BY <1>1, <1>2

\* Declarations with names of their own make no difference.
LEMMA ClashesApart ==
    ASSUME NEW A, NEW M, \A x \in A \cap M, y \in A : x[1] = y[1] => x = y
    PROVE  Clashes(A) <=> Clashes(A \ M)
BY DEF Clashes

-----------------------------------------------------------------------------
(* Entities and the documents they were drawn from *)

Paired(i, m) == i \in DOMAIN schema /\ m \in DOMAIN doc /\ schema[i].name = doc[m].name

LEMMA Pairs ==
    ASSUME IInv, pc = "accepted"
    PROVE  /\ \A i \in DOMAIN schema : \E m : Paired(i, m)
           /\ \A m \in DOMAIN doc : \E i : Paired(i, m)
           /\ \A i, j, m, n : Paired(i, m) /\ Paired(j, n) => (i = j <=> m = n)
           /\ \A i, m : Paired(i, m) => DrawnFrom(schema[i], doc[m])
<1>1. /\ \A i \in DOMAIN schema : \E m \in DOMAIN doc : DrawnFrom(schema[i], doc[m])
      /\ \A m \in DOMAIN doc : \E i \in DOMAIN schema : DrawnFrom(schema[i], doc[m])
      /\ \A m, n \in DOMAIN doc : doc[m].name = doc[n].name => m = n
      /\ \A i, j \in DOMAIN schema : schema[i].name = schema[j].name => i = j
  BY Origins
<1>2. \A i \in DOMAIN schema, m \in DOMAIN doc : DrawnFrom(schema[i], doc[m]) => Paired(i, m)
  BY DEF DrawnFrom, Paired
<1>3. \A i, m : Paired(i, m) => i \in DOMAIN schema /\ m \in DOMAIN doc /\ schema[i].name = doc[m].name
  BY DEF Paired
<1>4. \A i, m : Paired(i, m) => DrawnFrom(schema[i], doc[m])
  BY <1>1, <1>2, <1>3
<1> QED
  BY <1>1, <1>2, <1>3, <1>4

\* A sequence of words that holds no dot.
Plainly(s) == s \in Seq(ToSet(s)) /\ "." \notin ToSet(s)

LEMMA PlainlyJoined ==
    ASSUME NEW s, Plainly(s), NEW t, Plainly(t)
    PROVE  Plainly(s \o t)
BY JoinedSet DEF Plainly

LEMMA PlainNames ==
    /\ \A n \in Name : Plainly(GoName[n])
    /\ Plainly(<<"Hooks">>) /\ Plainly(<<"Noop">>) /\ Plainly(<<"Optional">>)
    /\ Plainly(<<"Create", "Input">>) /\ Plainly(<<"Update", "Input">>)
<1>1. \A n \in Name : Plainly(GoName[n])
  BY WordAssumption, Joinable DEF Plainly
<1>2. \A a : a # "." => Plainly(<<a>>)
  <2> SUFFICES ASSUME NEW a, a # "." PROVE Plainly(<<a>>)
    OBVIOUS
  <2>1. DOMAIN <<a>> = {1} /\ <<a>>[1] = a
    OBVIOUS
  <2> QED
    BY <2>1, Literals DEF Plainly, ToSet
<1>3. \A a, b : a # "." /\ b # "." => Plainly(<<a, b>>)
  <2> SUFFICES ASSUME NEW a, NEW b, a # ".", b # "." PROVE Plainly(<<a, b>>)
    OBVIOUS
  <2>1. DOMAIN <<a, b>> = {1, 2} /\ <<a, b>>[1] = a /\ <<a, b>>[2] = b
    OBVIOUS
  <2> QED
    BY <2>1, Literals DEF Plainly, ToSet
<1> QED
  BY <1>1, <1>2, <1>3

-----------------------------------------------------------------------------
(* Package model *)

\* The tags of one declaration of the rendered model and of the schema file.
SameTag(s, t) ==
    \/ s = <<0>> /\ t = <<0>>
    \/ \E i, m : Paired(i, m) /\ s = <<i, "struct">> /\ t = <<m, 0, 0>>
    \/ \E i, m, v : \E k \in Nat \ {0} : Paired(i, m) /\ s = <<i, k, v>> /\ t = <<m, k, v>>
    \/ \E i, m : \E op \in {"create", "update"} : Paired(i, m) /\ s = <<i, op>> /\ t = <<m, op>>

LEMMA SameTags ==
    ASSUME IInv, pc = "accepted", NEW s, NEW t, NEW p, NEW q, SameTag(s, t), SameTag(p, q)
    PROVE  s = p <=> t = q
<1>1. \A i, j, m, n : Paired(i, m) /\ Paired(j, n) => (i = j <=> m = n)
  BY Pairs
<1>2. CASE s = <<0>> /\ t = <<0>>
  <2>1. CASE p = <<0>> /\ q = <<0>>
    BY <1>2, <2>1
  <2>2. CASE \E i, m : Paired(i, m) /\ p = <<i, "struct">> /\ q = <<m, 0, 0>>
    BY <1>2, <2>2
  <2>3. CASE \E i, m, v : \E k \in Nat \ {0} : Paired(i, m) /\ p = <<i, k, v>> /\ q = <<m, k, v>>
    BY <1>2, <2>3
  <2>4. CASE \E i, m : \E op \in {"create", "update"} : Paired(i, m) /\ p = <<i, op>> /\ q = <<m, op>>
    BY <1>2, <2>4
  <2> QED
    BY <2>1, <2>2, <2>3, <2>4 DEF SameTag
<1>3. CASE \E i, m : Paired(i, m) /\ s = <<i, "struct">> /\ t = <<m, 0, 0>>
  <2>0. PICK i, m : Paired(i, m) /\ s = <<i, "struct">> /\ t = <<m, 0, 0>>
    BY <1>3
  <2>1. CASE p = <<0>> /\ q = <<0>>
    BY <2>0, <2>1
  <2>2. CASE \E j, n : Paired(j, n) /\ p = <<j, "struct">> /\ q = <<n, 0, 0>>
    BY <1>1, <2>0, <2>2
  <2>3. CASE \E j, n, v : \E k \in Nat \ {0} : Paired(j, n) /\ p = <<j, k, v>> /\ q = <<n, k, v>>
    BY <2>0, <2>3
  <2>4. CASE \E j, n : \E op \in {"create", "update"} : Paired(j, n) /\ p = <<j, op>> /\ q = <<n, op>>
    BY <2>0, <2>4
  <2> QED
    BY <2>1, <2>2, <2>3, <2>4 DEF SameTag
<1>4. CASE \E i, m, v : \E k \in Nat \ {0} : Paired(i, m) /\ s = <<i, k, v>> /\ t = <<m, k, v>>
  <2>0. PICK i, m, v : \E k \in Nat \ {0} : Paired(i, m) /\ s = <<i, k, v>> /\ t = <<m, k, v>>
    BY <1>4
  <2>1. CASE p = <<0>> /\ q = <<0>>
    BY <2>0, <2>1
  <2>2. CASE \E j, n : Paired(j, n) /\ p = <<j, "struct">> /\ q = <<n, 0, 0>>
    BY <2>0, <2>2
  <2>3. CASE \E j, n, w : \E k \in Nat \ {0} : Paired(j, n) /\ p = <<j, k, w>> /\ q = <<n, k, w>>
    BY <1>1, <2>0, <2>3
  <2>4. CASE \E j, n : \E op \in {"create", "update"} : Paired(j, n) /\ p = <<j, op>> /\ q = <<n, op>>
    BY <2>0, <2>4
  <2> QED
    BY <2>1, <2>2, <2>3, <2>4 DEF SameTag
<1>5. CASE \E i, m : \E op \in {"create", "update"} : Paired(i, m) /\ s = <<i, op>> /\ t = <<m, op>>
  <2>0. PICK i, m : \E op \in {"create", "update"} : Paired(i, m) /\ s = <<i, op>> /\ t = <<m, op>>
    BY <1>5
  <2>1. CASE p = <<0>> /\ q = <<0>>
    BY <2>0, <2>1
  <2>2. CASE \E j, n : Paired(j, n) /\ p = <<j, "struct">> /\ q = <<n, 0, 0>>
    BY <2>0, <2>2
  <2>3. CASE \E j, n, v : \E k \in Nat \ {0} : Paired(j, n) /\ p = <<j, k, v>> /\ q = <<n, k, v>>
    BY <2>0, <2>3
  <2>4. CASE \E j, n : \E op \in {"create", "update"} : Paired(j, n) /\ p = <<j, op>> /\ q = <<n, op>>
    BY <1>1, <2>0, <2>4
  <2> QED
    BY <2>1, <2>2, <2>3, <2>4 DEF SameTag
<1> QED
  BY <1>2, <1>3, <1>4, <1>5 DEF SameTag

\* The endpoints a document asks for.
Asked(d) == ToSet(IF d.endpoints = Absent THEN EndpointKind ELSE d.endpoints)

\* What document m gives to the package, by the schema file alone.
EnumDoc(m, k, x) ==
    LET d == doc[m]
        f == doc[m].fields[k]
        type == GoName[doc[m].name] \o GoName[f.name]
    IN  /\ f.type = "enum"
        /\ \/ x = <<type, <<m, k, 0>>>>
           \/ \E v \in DOMAIN f.values : x = <<type \o GoName[f.values[v]], <<m, k, v>>>>

DocDecl(m, x) ==
    LET d == doc[m] IN
    \/ x = <<GoName[d.name], <<m, 0, 0>>>>
    \/ \E k \in DOMAIN d.fields : EnumDoc(m, k, x)
    \/ "create" \in Asked(d) /\ x = <<GoName[d.name] \o <<"Create", "Input">>, <<m, "create">>>>
    \/ "update" \in Asked(d) /\ x = <<GoName[d.name] \o <<"Update", "Input">>, <<m, "update">>>>

LEMMA DeclaredFacts ==
    ASSUME NEW x
    PROVE  (\E y \in Declared : x = <<y[1], <<y[2], y[3], y[4]>>>>) <=>
               \E m \in DOMAIN doc : \/ x = <<GoName[doc[m].name], <<m, 0, 0>>>>
                                     \/ \E k \in DOMAIN doc[m].fields : EnumDoc(m, k, x)
<1> DEFINE E(m, k) == LET f == doc[m].fields[k]
                          type == GoName[doc[m].name] \o GoName[f.name]
                      IN  IF f.type # "enum" THEN {}
                          ELSE {<<type, m, k, 0>>} \cup
                               {<<type \o GoName[f.values[v]], m, k, v>> : v \in DOMAIN f.values}
           U(m) == UNION {E(m, k) : k \in DOMAIN doc[m].fields}
<1>1. \A y : y \in Declared <=> y \in {<<GoName[doc[m].name], m, 0, 0>> : m \in DOMAIN doc}
                                \/ y \in UNION {U(m) : m \in DOMAIN doc}
  BY Zenon DEF Declared
<1>2. \A m, k : (\E y \in E(m, k) : x = <<y[1], <<y[2], y[3], y[4]>>>>) <=> EnumDoc(m, k, x)
  <2> SUFFICES ASSUME NEW m, NEW k
               PROVE  (\E y \in E(m, k) : x = <<y[1], <<y[2], y[3], y[4]>>>>) <=> EnumDoc(m, k, x)
    OBVIOUS
  <2> DEFINE f == doc[m].fields[k]
             type == GoName[doc[m].name] \o GoName[f.name]
  <2>1. \A y : y \in E(m, k) <=> /\ f.type = "enum"
                                 /\ \/ y = <<type, m, k, 0>>
                                    \/ \E v \in DOMAIN f.values : y = <<type \o GoName[f.values[v]], m, k, v>>
    OBVIOUS
  <2>2. EnumDoc(m, k, x) <=> /\ f.type = "enum"
                             /\ \/ x = <<type, <<m, k, 0>>>>
                                \/ \E v \in DOMAIN f.values : x = <<type \o GoName[f.values[v]], <<m, k, v>>>>
    BY Zenon DEF EnumDoc
  <2> HIDE DEF E, f, type
  <2>3. ASSUME NEW y \in E(m, k), x = <<y[1], <<y[2], y[3], y[4]>>>> PROVE EnumDoc(m, k, x)
    <3>1. CASE y = <<type, m, k, 0>>
      BY <2>1, <2>2, <2>3, <3>1
    <3>2. CASE \E v \in DOMAIN f.values : y = <<type \o GoName[f.values[v]], m, k, v>>
      BY <2>1, <2>2, <2>3, <3>2
    <3> QED
      BY <2>1, <3>1, <3>2
  <2>4. ASSUME EnumDoc(m, k, x) PROVE \E y \in E(m, k) : x = <<y[1], <<y[2], y[3], y[4]>>>>
    <3>1. CASE x = <<type, <<m, k, 0>>>>
      <4>1. <<type, m, k, 0>> \in E(m, k)
        BY <2>1, <2>2, <2>4
      <4> QED
        BY <3>1, <4>1
    <3>2. CASE \E v \in DOMAIN f.values : x = <<type \o GoName[f.values[v]], <<m, k, v>>>>
      <4>1. PICK v \in DOMAIN f.values : x = <<type \o GoName[f.values[v]], <<m, k, v>>>>
        BY <3>2
      <4>2. <<type \o GoName[f.values[v]], m, k, v>> \in E(m, k)
        BY <2>1, <2>2, <2>4
      <4> QED
        BY <4>1, <4>2
    <3> QED
      BY <2>2, <2>4, <3>1, <3>2
  <2> QED
    BY <2>3, <2>4
<1>3. \A m, y : y \in U(m) <=> \E k \in DOMAIN doc[m].fields : y \in E(m, k)
  BY ZenonT(30)
<1> HIDE DEF E, U
<1>4. \A y : y \in Declared <=> \E m \in DOMAIN doc : \/ y = <<GoName[doc[m].name], m, 0, 0>>
                                                      \/ \E k \in DOMAIN doc[m].fields : y \in E(m, k)
  BY <1>1, <1>3
<1>5. ASSUME NEW y \in Declared, x = <<y[1], <<y[2], y[3], y[4]>>>>
      PROVE  \E m \in DOMAIN doc : \/ x = <<GoName[doc[m].name], <<m, 0, 0>>>>
                                   \/ \E k \in DOMAIN doc[m].fields : EnumDoc(m, k, x)
  <2>1. PICK m \in DOMAIN doc : \/ y = <<GoName[doc[m].name], m, 0, 0>>
                                \/ \E k \in DOMAIN doc[m].fields : y \in E(m, k)
    BY <1>4
  <2> QED
    BY <1>2, <1>5, <2>1
<1>6. ASSUME NEW m \in DOMAIN doc, x = <<GoName[doc[m].name], <<m, 0, 0>>>>
      PROVE  \E y \in Declared : x = <<y[1], <<y[2], y[3], y[4]>>>>
  <2>1. <<GoName[doc[m].name], m, 0, 0>> \in Declared
    BY <1>4
  <2> QED
    BY <1>6, <2>1
<1>7. ASSUME NEW m \in DOMAIN doc, NEW k \in DOMAIN doc[m].fields, EnumDoc(m, k, x)
      PROVE  \E y \in Declared : x = <<y[1], <<y[2], y[3], y[4]>>>>
  BY <1>2, <1>4, <1>7
<1> QED
  BY <1>5, <1>6, <1>7

LEMMA ModelNamesFacts ==
    ASSUME NEW x
    PROVE  x \in ModelNames <=> x = <<<<"Optional">>, <<0>>>> \/ \E m \in DOMAIN doc : DocDecl(m, x)
<1> DEFINE D == {<<d[1], <<d[2], d[3], d[4]>>>> : d \in Declared}
           I(m) == {<<GoName[doc[m].name] \o <<Capital[op], "Input">>, <<m, op>>>> :
                        op \in {"create", "update"} \cap
                               ToSet(IF doc[m].endpoints = Absent THEN EndpointKind ELSE doc[m].endpoints)}
<1>1. ModelNames = D \cup {<<<<"Optional">>, <<0>>>>} \cup UNION {I(m) : m \in DOMAIN doc}
  BY Zenon DEF ModelNames
<1>2. x \in D <=> \E m \in DOMAIN doc : \/ x = <<GoName[doc[m].name], <<m, 0, 0>>>>
                                        \/ \E k \in DOMAIN doc[m].fields : EnumDoc(m, k, x)
  <2>1. x \in D <=> \E y \in Declared : x = <<y[1], <<y[2], y[3], y[4]>>>>
    OBVIOUS
  <2> QED
    BY <2>1, DeclaredFacts
<1>3. \A m : x \in I(m) <=>
          \/ "create" \in Asked(doc[m]) /\ x = <<GoName[doc[m].name] \o <<"Create", "Input">>, <<m, "create">>>>
          \/ "update" \in Asked(doc[m]) /\ x = <<GoName[doc[m].name] \o <<"Update", "Input">>, <<m, "update">>>>
  <2>1. Capital["create"] = "Create" /\ Capital["update"] = "Update"
    BY DEF Capital
  <2>2. \A m : x \in I(m) <=> \E op \in {"create", "update"} :
            op \in Asked(doc[m]) /\ x = <<GoName[doc[m].name] \o <<Capital[op], "Input">>, <<m, op>>>>
    BY DEF Asked
  <2> QED
    BY <2>1, <2>2
<1> HIDE DEF D, I
<1>4. x \in UNION {I(m) : m \in DOMAIN doc} <=> \E m \in DOMAIN doc : x \in I(m)
  OBVIOUS
<1> QED
  BY <1>1, <1>2, <1>3, <1>4 DEF DocDecl

SameDecl(x, y) == x[1] = y[1] /\ SameTag(x[2], y[2])

LEMMA Tagged ==
    ASSUME NEW i, NEW m, Paired(i, m), NEW n
    PROVE  /\ SameDecl(<<n, <<i, "struct">>>>, <<n, <<m, 0, 0>>>>)
           /\ \A k \in Nat \ {0} : \A v : SameDecl(<<n, <<i, k, v>>>>, <<n, <<m, k, v>>>>)
           /\ \A op \in {"create", "update"} : SameDecl(<<n, <<i, op>>>>, <<n, <<m, op>>>>)
<1>1. \A s, t : SameDecl(<<n, s>>, <<n, t>>) <=> SameTag(s, t)
  BY DEF SameDecl
<1>2. SameTag(<<i, "struct">>, <<m, 0, 0>>)
  BY DEF SameTag
<1>3. ASSUME NEW k \in Nat \ {0}, NEW v PROVE SameTag(<<i, k, v>>, <<m, k, v>>)
  BY DEF SameTag
<1>4. ASSUME NEW op \in {"create", "update"} PROVE SameTag(<<i, op>>, <<m, op>>)
  BY DEF SameTag
<1> QED
  BY <1>1, <1>2, <1>3, <1>4

LEMMA EnumPaired ==
    ASSUME NEW i, NEW m, Paired(i, m), DrawnFrom(schema[i], doc[m]), NEW k \in DOMAIN schema[i].fields,
           ~(doc[m].fields[k].type = "belongsTo" /\ schema[i].fields[k].type = "enum")
    PROVE  /\ \A x : EnumText(i, k, x) => \E y : EnumDoc(m, k, y) /\ SameDecl(x, y)
           /\ \A y : EnumDoc(m, k, y) => \E x : EnumText(i, k, x) /\ SameDecl(x, y)
<1> DEFINE g == schema[i].fields[k]
           f == doc[m].fields[k]
           type == GoName[doc[m].name] \o GoName[f.name]
<1>1. k \in Nat \ {0} /\ FieldFrom(g, f, doc[m])
  BY DEF DrawnFrom
<1>2. /\ g.type = "enum" <=> f.type = "enum"
      /\ f.type = "enum" => g.enumGoType = type /\ g.values = f.values
  BY <1>1 DEF FieldFrom
<1>3. \A x : EnumText(i, k, x) <=>
                 /\ g.type = "enum"
                 /\ \/ x = <<g.enumGoType, <<i, k, 0>>>>
                    \/ \E v \in DOMAIN g.values : x = <<g.enumGoType \o GoName[g.values[v]], <<i, k, v>>>>
  BY Zenon DEF EnumText
<1>4. \A y : EnumDoc(m, k, y) <=>
                 /\ f.type = "enum"
                 /\ \/ y = <<type, <<m, k, 0>>>>
                    \/ \E v \in DOMAIN f.values : y = <<type \o GoName[f.values[v]], <<m, k, v>>>>
  BY Zenon DEF EnumDoc
<1>5. \A n, v : SameDecl(<<n, <<i, k, v>>>>, <<n, <<m, k, v>>>>)
  BY <1>1, Tagged
<1> HIDE DEF g, f, type
<1>6. ASSUME f.type = "enum", NEW v \in DOMAIN f.values
      PROVE  LET n == type \o GoName[f.values[v]] IN
             EnumText(i, k, <<n, <<i, k, v>>>>) /\ EnumDoc(m, k, <<n, <<m, k, v>>>>)
  BY <1>2, <1>3, <1>4, <1>6
<1>7. ASSUME f.type = "enum" PROVE EnumText(i, k, <<type, <<i, k, 0>>>>) /\ EnumDoc(m, k, <<type, <<m, k, 0>>>>)
  BY <1>2, <1>3, <1>4, <1>7
<1>8. ASSUME NEW x, EnumText(i, k, x) PROVE \E y : EnumDoc(m, k, y) /\ SameDecl(x, y)
  <2>1. /\ f.type = "enum"
        /\ \/ x = <<type, <<i, k, 0>>>>
           \/ \E v \in DOMAIN f.values : x = <<type \o GoName[f.values[v]], <<i, k, v>>>>
    BY <1>2, <1>3, <1>8
  <2> QED
    BY <1>5, <1>6, <1>7, <2>1
<1>9. ASSUME NEW y, EnumDoc(m, k, y) PROVE \E x : EnumText(i, k, x) /\ SameDecl(x, y)
  <2>1. CASE y = <<type, <<m, k, 0>>>>
    BY <1>4, <1>5, <1>7, <1>9, <2>1
  <2>2. CASE \E v \in DOMAIN f.values : y = <<type \o GoName[f.values[v]], <<m, k, v>>>>
    <3>1. PICK v \in DOMAIN f.values : y = <<type \o GoName[f.values[v]], <<m, k, v>>>>
      BY <2>2
    <3>2. EnumText(i, k, <<type \o GoName[f.values[v]], <<i, k, v>>>>)
      BY <1>4, <1>6, <1>9
    <3> QED
      BY <1>5, <3>1, <3>2
  <2> QED
    BY <1>4, <1>9, <2>1, <2>2
<1> QED
  BY <1>8, <1>9

LEMMA NoForeignEnum ==
    ASSUME IInv, pc = "accepted", ~RefersToEnum, NEW i, NEW m, Paired(i, m), NEW k \in DOMAIN schema[i].fields
    PROVE  ~(doc[m].fields[k].type = "belongsTo" /\ schema[i].fields[k].type = "enum")
<1>1. i \in DOMAIN schema /\ DrawnFrom(schema[i], doc[m])
  BY Pairs DEF Paired
<1>2. DOMAIN schema[i].pending = {l \in DOMAIN schema[i].fields : doc[m].fields[l].type = "belongsTo"}
  BY <1>1 DEF DrawnFrom
<1> QED
  BY <1>1, <1>2, EnumReferred

LEMMA DeclsPaired ==
    ASSUME IInv, pc = "accepted", ~RefersToEnum, NEW i, NEW m, Paired(i, m)
    PROVE  /\ \A x \in ModelDecls(schema[i], i) : \E y : DocDecl(m, y) /\ SameDecl(x, y)
           /\ \A y : DocDecl(m, y) => \E x \in ModelDecls(schema[i], i) : SameDecl(x, y)
<1> DEFINE e == schema[i]
           d == doc[m]
           create == GoName[d.name] \o <<"Create", "Input">>
           update == GoName[d.name] \o <<"Update", "Input">>
<1>1. i \in DOMAIN schema /\ DrawnFrom(e, d)
  BY Pairs DEF Paired
<1>2. /\ e.goName = GoName[d.name] /\ DOMAIN e.fields = DOMAIN d.fields
      /\ \A op : Has(e, op) <=> op \in Asked(d)
  BY <1>1 DEF DrawnFrom, Has, Asked
<1>3. \A k \in DOMAIN e.fields : ~(d.fields[k].type = "belongsTo" /\ e.fields[k].type = "enum")
  BY NoForeignEnum
<1>4. \A k \in DOMAIN e.fields :
          /\ \A x : EnumText(i, k, x) => \E y : EnumDoc(m, k, y) /\ SameDecl(x, y)
          /\ \A y : EnumDoc(m, k, y) => \E x : EnumText(i, k, x) /\ SameDecl(x, y)
  BY <1>1, <1>3, EnumPaired
<1>5. \A x : x \in ModelDecls(e, i) <=>
               \/ x = <<e.goName, <<i, "struct">>>>
               \/ \E k \in DOMAIN e.fields : EnumText(i, k, x)
               \/ Has(e, "create") /\ x = <<e.goName \o <<"Create", "Input">>, <<i, "create">>>>
               \/ Has(e, "update") /\ x = <<e.goName \o <<"Update", "Input">>, <<i, "update">>>>
  BY <1>1, ModelDeclsFacts
<1>6. \A y : DocDecl(m, y) <=>
               \/ y = <<GoName[d.name], <<m, 0, 0>>>>
               \/ \E k \in DOMAIN d.fields : EnumDoc(m, k, y)
               \/ "create" \in Asked(d) /\ y = <<create, <<m, "create">>>>
               \/ "update" \in Asked(d) /\ y = <<update, <<m, "update">>>>
  BY Zenon DEF DocDecl
<1>7. /\ SameDecl(<<GoName[d.name], <<i, "struct">>>>, <<GoName[d.name], <<m, 0, 0>>>>)
      /\ SameDecl(<<create, <<i, "create">>>>, <<create, <<m, "create">>>>)
      /\ SameDecl(<<update, <<i, "update">>>>, <<update, <<m, "update">>>>)
  BY Tagged
<1>8. \A x : x \in ModelDecls(e, i) <=>
               \/ x = <<GoName[d.name], <<i, "struct">>>>
               \/ \E k \in DOMAIN d.fields : EnumText(i, k, x)
               \/ "create" \in Asked(d) /\ x = <<create, <<i, "create">>>>
               \/ "update" \in Asked(d) /\ x = <<update, <<i, "update">>>>
  BY <1>2, <1>5
<1>9. \A k \in DOMAIN d.fields :
          /\ \A x : EnumText(i, k, x) => \E y : EnumDoc(m, k, y) /\ SameDecl(x, y)
          /\ \A y : EnumDoc(m, k, y) => \E x : EnumText(i, k, x) /\ SameDecl(x, y)
  BY <1>2, <1>4
<1> HIDE DEF create, update, e, d
<1>10. ASSUME NEW x \in ModelDecls(e, i) PROVE \E y : DocDecl(m, y) /\ SameDecl(x, y)
  BY <1>6, <1>7, <1>8, <1>9
<1>11. ASSUME NEW y, DocDecl(m, y) PROVE \E x \in ModelDecls(e, i) : SameDecl(x, y)
  BY <1>6, <1>7, <1>8, <1>9, <1>11
<1> QED
  BY <1>10, <1>11 DEF e

LEMMA PairFacts ==
    ASSUME NEW n, NEW t, NEW y, y = <<n, t>>
    PROVE  y = <<y[1], y[2]>> /\ y[1] = n
OBVIOUS

LEMMA DocDeclPlain ==
    ASSUME IInv, pc = "accepted", NEW m \in DOMAIN doc, NEW y, DocDecl(m, y)
    PROVE  y = <<y[1], y[2]>> /\ Plainly(y[1])
<1> DEFINE d == doc[m]
<1>1. PICK i : Paired(i, m) /\ DrawnFrom(schema[i], d)
  BY Pairs
<1>2. d.name \in Name /\ \A k \in DOMAIN d.fields : FieldFrom(schema[i].fields[k], d.fields[k], d)
  BY <1>1 DEF DrawnFrom
<1>3. Plainly(GoName[d.name])
  BY <1>2, PlainNames
<1>4. \/ y = <<GoName[d.name], <<m, 0, 0>>>>
      \/ \E k \in DOMAIN d.fields : EnumDoc(m, k, y)
      \/ y = <<GoName[d.name] \o <<"Create", "Input">>, <<m, "create">>>>
      \/ y = <<GoName[d.name] \o <<"Update", "Input">>, <<m, "update">>>>
  BY Zenon DEF DocDecl
<1>5. ASSUME \E k \in DOMAIN d.fields : EnumDoc(m, k, y)
      PROVE  \E n, t : Plainly(n) /\ y = <<n, t>>
  <2>1. PICK k \in DOMAIN d.fields : EnumDoc(m, k, y)
    BY <1>5
  <2> DEFINE f == d.fields[k]
             type == GoName[d.name] \o GoName[f.name]
  <2>2. /\ f.type = "enum"
        /\ \/ y = <<type, <<m, k, 0>>>>
           \/ \E v \in DOMAIN f.values : y = <<type \o GoName[f.values[v]], <<m, k, v>>>>
    BY <2>1, Zenon DEF EnumDoc
  <2>3. f.name \in Name /\ f.values \in Seq(Name)
    BY <1>2, <2>2 DEF FieldFrom
  <2>4. Plainly(type) /\ \A v \in DOMAIN f.values : Plainly(GoName[f.values[v]])
    BY <1>3, <2>3, PlainNames, PlainlyJoined
  <2> HIDE DEF type
  <2>5. \A v \in DOMAIN f.values : Plainly(type \o GoName[f.values[v]])
    BY <2>4, PlainlyJoined
  <2>6. CASE y = <<type, <<m, k, 0>>>>
    BY <2>4, <2>6
  <2>7. CASE \E v \in DOMAIN f.values : y = <<type \o GoName[f.values[v]], <<m, k, v>>>>
    <3>1. PICK v \in DOMAIN f.values : y = <<type \o GoName[f.values[v]], <<m, k, v>>>>
      BY <2>7
    <3>2. Plainly(type \o GoName[f.values[v]])
      BY <2>5
    <3> QED
      BY <3>1, <3>2
  <2> QED
    BY <2>2, <2>6, <2>7
<1>6. Plainly(GoName[d.name] \o <<"Create", "Input">>) /\ Plainly(GoName[d.name] \o <<"Update", "Input">>)
  BY <1>3, PlainNames, PlainlyJoined
<1>7. \E n, t : Plainly(n) /\ y = <<n, t>>
  BY <1>3, <1>4, <1>5, <1>6, Zenon
<1> QED
  BY <1>7, PairFacts

\* The package declares a name twice exactly when the schema's names say so.
LEMMA ModelClashes ==
    ASSUME GInv, Done
    PROVE  Clashes(Decls("model")) <=> Clashes(ModelNames)
<1> DEFINE M == {<<<<"Optional", ".", m>>, <<0, m>>>> : m \in OptionalMethods}
           D == Decls("model")
           A == D \ M
           B == ModelNames
           opt == <<<<"Optional">>, <<0>>>>
           R == {p \in A \X B : SameDecl(p[1], p[2])}
<1>1. IInv /\ pc = "accepted" /\ Len(schema) \in Nat /\ DOMAIN schema = 1..Len(schema)
  BY DoneFacts
<1>2. ~RefersToEnum
  <2>1. /\ \A f \in Planned : Parses(f)
        /\ \A f, g \in Planned : f.path = g.path => f = g
    BY DoneFacts
  <2> QED
    BY <1>1, <2>1, Unrenderable
<1>3. \A x : x \in D <=> x = opt \/ x \in M \/ \E i \in DOMAIN schema : x \in ModelDecls(schema[i], i)
  BY <1>1, DeclsFacts, FixedDecls
<1>4. \A y : y \in B <=> y = opt \/ \E m \in DOMAIN doc : DocDecl(m, y)
  BY ModelNamesFacts
<1>5. /\ \A i \in DOMAIN schema : \E m : Paired(i, m)
      /\ \A m \in DOMAIN doc : \E i : Paired(i, m)
      /\ \A i, m : Paired(i, m) => i \in DOMAIN schema /\ m \in DOMAIN doc
  BY <1>1, Pairs DEF Paired
<1>6. \A i, m : Paired(i, m) =>
          /\ \A x \in ModelDecls(schema[i], i) : \E y : DocDecl(m, y) /\ SameDecl(x, y)
          /\ \A y : DocDecl(m, y) => \E x \in ModelDecls(schema[i], i) : SameDecl(x, y)
  BY <1>1, <1>2, DeclsPaired
<1>7. \A m \in DOMAIN doc : \A y : DocDecl(m, y) => y = <<y[1], y[2]>> /\ Plainly(y[1])
  BY <1>1, DocDeclPlain
<1>8. SameDecl(opt, opt) /\ opt = <<opt[1], opt[2]>> /\ Plainly(opt[1])
  BY PlainNames DEF SameDecl, SameTag
<1>9. \A x, y : SameDecl(x, y) => x[1] = y[1]
  BY DEF SameDecl
<1>10. \A i \in DOMAIN schema : \A x \in ModelDecls(schema[i], i) : x = <<x[1], x[2]>> /\ Plainly(x[1])
  <2> SUFFICES ASSUME NEW i \in DOMAIN schema, NEW x \in ModelDecls(schema[i], i)
               PROVE  x = <<x[1], x[2]>> /\ Plainly(x[1])
    OBVIOUS
  <2>1. Plainly(x[1])
    <3>1. PICK m : Paired(i, m)
      BY <1>5
    <3>2. PICK y : DocDecl(m, y) /\ SameDecl(x, y)
      BY <1>6, <3>1
    <3> QED
      BY <1>5, <1>7, <1>9, <3>1, <3>2
  <2>2. x = <<x[1], x[2]>>
    <3>1. CASE \E k \in DOMAIN schema[i].fields : EnumText(i, k, x)
      <4>1. PICK k : EnumText(i, k, x)
        BY <3>1
      <4>2. \E n, t : x = <<n, t>>
        BY <4>1 DEF EnumText
      <4> QED
        BY <4>2, PairFacts
    <3>2. CASE ~\E k \in DOMAIN schema[i].fields : EnumText(i, k, x)
      <4>1. \E n, t : x = <<n, t>>
        BY <3>2, ModelDeclsFacts
      <4> QED
        BY <4>1, PairFacts
    <3> QED
      BY <3>1, <3>2
  <2> QED
    BY <2>1, <2>2
<1>11. \A x \in M : ~Plainly(x[1]) /\ x = <<x[1], x[2]>>
  <2>1. \A m : "." \in ToSet(<<"Optional", ".", m>>)
    BY DEF ToSet
  <2> QED
    BY <2>1 DEF Plainly
<1>12. \A x, y \in M : x[1] = y[1] => x = y
  OBVIOUS
<1> HIDE DEF M, opt, D, B
<1>13. \A x \in A : Plainly(x[1]) /\ x = <<x[1], x[2]>>
  BY <1>3, <1>8, <1>10
<1>14. Clashes(D) <=> Clashes(A)
  <2>1. \A x \in D \cap M, y \in D : x[1] = y[1] => x = y
    BY <1>11, <1>12, <1>13
  <2> QED
    BY <2>1, ClashesApart
<1>15. \A x \in A : \E y \in B : <<x, y>> \in R
  <2> SUFFICES ASSUME NEW x \in A PROVE \E y \in B : SameDecl(x, y)
    OBVIOUS
  <2>1. CASE x = opt
    BY <1>4, <1>8, <2>1
  <2>2. CASE \E i \in DOMAIN schema : x \in ModelDecls(schema[i], i)
    <3>1. PICK i \in DOMAIN schema : x \in ModelDecls(schema[i], i)
      BY <2>2
    <3>2. PICK m : Paired(i, m)
      BY <1>5
    <3> QED
      BY <1>4, <1>5, <1>6, <3>1, <3>2
  <2> QED
    BY <1>3, <2>1, <2>2
<1>16. \A y \in B : \E x \in A : <<x, y>> \in R
  <2> SUFFICES ASSUME NEW y \in B PROVE \E x \in A : SameDecl(x, y)
    OBVIOUS
  <2>1. CASE y = opt
    <3>1. opt \in A
      BY <1>3, <1>8, <1>11
    <3> QED
      BY <1>8, <2>1, <3>1
  <2>2. CASE \E m \in DOMAIN doc : DocDecl(m, y)
    <3>1. PICK m \in DOMAIN doc : DocDecl(m, y)
      BY <2>2
    <3>2. PICK i : Paired(i, m)
      BY <1>5
    <3>3. PICK x \in ModelDecls(schema[i], i) : SameDecl(x, y)
      BY <1>6, <3>1, <3>2
    <3>4. x \in A
      BY <1>3, <1>5, <1>10, <1>11, <3>2
    <3> QED
      BY <3>3, <3>4
  <2> QED
    BY <1>4, <2>1, <2>2
<1>17. \A y \in B : y = <<y[1], y[2]>>
  BY <1>4, <1>7, <1>8
<1>18. \A w, x \in A, y, z \in B : <<w, y>> \in R /\ <<x, z>> \in R => (w = x <=> y = z)
  <2> SUFFICES ASSUME NEW w \in A, NEW x \in A, NEW y \in B, NEW z \in B, SameDecl(w, y), SameDecl(x, z)
               PROVE  w = x <=> y = z
    OBVIOUS
  <2>1. w[2] = x[2] <=> y[2] = z[2]
    BY <1>1, SameTags DEF SameDecl
  <2>2. w[1] = y[1] /\ x[1] = z[1]
    BY DEF SameDecl
  <2> QED
    BY <1>13, <1>17, <2>1, <2>2
<1>19. \A x \in A, y \in B : <<x, y>> \in R => x[1] = y[1]
  BY <1>9
<1> HIDE DEF A, R
<1>20. Matches(A, B, R)
  BY <1>15, <1>16, <1>18, <1>19 DEF Matches
<1>21. Clashes(A) <=> Clashes(B)
  BY <1>20, ClashesTransfer
<1> QED
  BY <1>14, <1>21 DEF D, B

-----------------------------------------------------------------------------
(* Package hooks *)

Dotted(s, u) == s \o <<".">> \o u

\* Sequence z is s followed by t.
Follows(z, s, t) ==
    /\ z \in Seq(ToSet(z)) /\ Len(z) = Len(s) + Len(t)
    /\ Len(s) \in Nat /\ Len(t) \in Nat
    /\ DOMAIN s = 1..Len(s) /\ DOMAIN z = 1..(Len(s) + Len(t))
    /\ \A j \in 1..Len(s) : z[j] = s[j]
    /\ \A j \in 1..Len(t) : z[Len(s) + j] = t[j]

LEMMA Following ==
    ASSUME NEW s, s \in Seq(ToSet(s)), NEW t, t \in Seq(ToSet(t))
    PROVE  Follows(s \o t, s, t)
<1>1. /\ s \o t \in Seq(ToSet(s \o t)) /\ Len(s \o t) = Len(s) + Len(t)
      /\ Len(s) \in Nat /\ Len(t) \in Nat
      /\ DOMAIN s = 1..Len(s) /\ DOMAIN (s \o t) = 1..(Len(s) + Len(t))
      /\ \A j \in 1..Len(s) : (s \o t)[j] = s[j]
      /\ \A j \in 1..Len(t) : (s \o t)[Len(s) + j] = t[j]
  BY Joining
<1> QED
  BY <1>1 DEF Follows

\* The first dot of z stands between s and u.
Splits(z, s, u) ==
    /\ Len(s) \in Nat /\ Len(u) \in Nat /\ Len(z) = Len(s) + 1 + Len(u)
    /\ DOMAIN z = 1..(Len(s) + 1 + Len(u))
    /\ \A j \in 1..Len(s) : z[j] = s[j] /\ s[j] # "."
    /\ z[Len(s) + 1] = "."
    /\ \A j \in 1..Len(u) : z[Len(s) + 1 + j] = u[j]

LEMMA DottedFacts ==
    ASSUME NEW s, Plainly(s), NEW u, Plainly(u)
    PROVE  Splits(Dotted(s, u), s, u) /\ ~Plainly(Dotted(s, u))
<1> DEFINE dot == <<".">>
           p == s \o dot
<1>1. s \in Seq(ToSet(s)) /\ u \in Seq(ToSet(u)) /\ "." \notin ToSet(s)
  BY DEF Plainly
<1>2. dot \in Seq(ToSet(dot)) /\ Len(dot) = 1 /\ dot[1] = "."
  BY Literals
<1>4. Dotted(s, u) = p \o u
  BY DEF Dotted
<1> HIDE DEF dot
<1>3. /\ p \in Seq(ToSet(p)) /\ Len(p) = Len(s) + 1 /\ Len(s) \in Nat /\ DOMAIN s = 1..Len(s)
      /\ \A j \in 1..Len(s) : p[j] = s[j]
      /\ p[Len(s) + 1] = "."
  <2>1. Follows(p, s, dot)
    BY <1>1, <1>2, Following
  <2> HIDE DEF p
  <2> QED
    BY <1>2, <2>1 DEF Follows
<1> HIDE DEF p
<1> DEFINE z == p \o u
<1>9. Follows(z, p, u)
  BY <1>1, <1>3, Following
<1> HIDE DEF z
<1>5. /\ Len(z) = Len(p) + Len(u) /\ Len(u) \in Nat /\ DOMAIN z = 1..(Len(p) + Len(u))
      /\ \A j \in 1..Len(p) : z[j] = p[j]
      /\ \A j \in 1..Len(u) : z[Len(p) + j] = u[j]
  BY <1>9 DEF Follows
<1>6. \A j \in 1..Len(s) : s[j] # "."
  BY <1>1, <1>3 DEF ToSet
<1>7. /\ Len(s) \in Nat /\ Len(u) \in Nat /\ Len(Dotted(s, u)) = Len(s) + 1 + Len(u)
      /\ DOMAIN Dotted(s, u) = 1..(Len(s) + 1 + Len(u))
      /\ \A j \in 1..Len(s) : Dotted(s, u)[j] = s[j]
      /\ Dotted(s, u)[Len(s) + 1] = "."
      /\ \A j \in 1..Len(u) : Dotted(s, u)[Len(s) + 1 + j] = u[j]
  <2>1. Dotted(s, u) = z
    BY <1>4 DEF z
  <2> QED
    BY <1>3, <1>5, <2>1
<1>8. ~Plainly(Dotted(s, u))
  BY <1>7 DEF Plainly, ToSet
<1> QED
  BY <1>6, <1>7, <1>8 DEF Splits

\* A dotted name can be taken apart in one way.
LEMMA DotSplit ==
    ASSUME NEW s, Plainly(s), NEW t, Plainly(t), NEW u, Plainly(u), NEW v, Plainly(v),
           Dotted(s, u) = Dotted(t, v)
    PROVE  s = t /\ u = v
<1> DEFINE x == Dotted(s, u)
<1>0. Splits(x, s, u) /\ Splits(x, t, v)
  BY DottedFacts
<1> HIDE DEF x
<1>1. /\ Len(s) \in Nat /\ Len(u) \in Nat /\ Len(x) = Len(s) + 1 + Len(u)
      /\ \A j \in 1..Len(s) : x[j] = s[j] /\ s[j] # "."
      /\ x[Len(s) + 1] = "."
      /\ \A j \in 1..Len(u) : x[Len(s) + 1 + j] = u[j]
  BY <1>0 DEF Splits
<1>2. /\ Len(t) \in Nat /\ Len(v) \in Nat /\ Len(x) = Len(t) + 1 + Len(v)
      /\ \A j \in 1..Len(t) : x[j] = t[j] /\ t[j] # "."
      /\ x[Len(t) + 1] = "."
      /\ \A j \in 1..Len(v) : x[Len(t) + 1 + j] = v[j]
  BY <1>0 DEF Splits
<1>3. Len(s) = Len(t)
  <2>1. ~(Len(s) < Len(t))
    BY <1>1, <1>2
  <2>2. ~(Len(t) < Len(s))
    BY SMTT(20), <1>1, <1>2
  <2> QED
    BY <1>1, <1>2, <2>1, <2>2
<1>4. s \in Seq(ToSet(s)) /\ t \in Seq(ToSet(t)) /\ u \in Seq(ToSet(u)) /\ v \in Seq(ToSet(v))
  BY DEF Plainly
<1>5. \A j \in 1..Len(s) : s[j] = t[j]
  BY <1>1, <1>2, <1>3
<1>6. Len(u) = Len(v) /\ \A j \in 1..Len(u) : u[j] = v[j]
  BY <1>1, <1>2, <1>3
<1>7. s = t
  BY <1>3, <1>4, <1>5
<1> QED
  BY <1>4, <1>6, <1>7

LEMMA TrioPlain ==
    ASSUME NEW op \in {"create", "update", "delete"}, NEW m \in Trio(op)
    PROVE  Plainly(m)
<1>1. Capital[op] # "."
  BY DEF Capital
<1>2. m = <<"Before", Capital[op]>> \/ m = <<"After", Capital[op]>> \/ m = <<"After", Capital[op], "Committed">>
  BY DEF Trio
<1>3. \A a, b : a # "." /\ b # "." => "." \notin ToSet(<<a, b>>)
  BY DEF ToSet
<1>4. \A a, b, c : a # "." /\ b # "." /\ c # "." => "." \notin ToSet(<<a, b, c>>)
  BY DEF ToSet
<1> QED
  BY <1>1, <1>2, <1>3, <1>4, TrioFacts DEF Plainly

Interface(i) == schema[i].goName \o <<"Hooks">>

ErrorDecls == {<<<<"Error">>, <<0>>>>, <<<<"Error", ".", "Error">>, <<0, "method">>>>,
               <<<<"NewValidationError">>, <<0, "func">>>>}

\* The two types that entity i gives to the package.
HookDecl(i, x) ==
    x = <<Interface(i), <<i, "interface">>>> \/ x = <<NoopName(schema[i]), <<i, "noop">>>>

\* The methods of its second type.
HookMethod(i, x) ==
    \E op \in ToSet(WriteOperations(schema[i])) : \E m \in Trio(op) :
        x = <<Dotted(NoopName(schema[i]), m), <<i, m>>>>

LEMMA HooksDeclared ==
    ASSUME GInv, Done
    PROVE  /\ Written \subseteq DOMAIN schema
           /\ \A x : x \in Decls("hooks") <=> x \in ErrorDecls \/ \E i \in Written : HookDecl(i, x) \/ HookMethod(i, x)
<1>1. Len(schema) \in Nat /\ DOMAIN schema = 1..Len(schema)
  BY DoneFacts
<1>2. Written \subseteq DOMAIN schema
  BY DEF Written
<1>3. Render(ErrorFile).decls = ErrorDecls
  BY <1>1, FixedDecls DEF ErrorDecls
<1>4. \A i \in DOMAIN schema : \A x : x \in Render(HooksFile(i)).decls <=> HookDecl(i, x) \/ HookMethod(i, x)
  <2> SUFFICES ASSUME NEW i \in DOMAIN schema, NEW x
               PROVE  x \in Render(HooksFile(i)).decls <=> HookDecl(i, x) \/ HookMethod(i, x)
    OBVIOUS
  <2>1. x \in Render(HooksFile(i)).decls <=>
            \/ x = <<schema[i].goName \o <<"Hooks">>, <<i, "interface">>>>
            \/ x = <<NoopName(schema[i]), <<i, "noop">>>>
            \/ \E op \in ToSet(WriteOperations(schema[i])) : \E m \in Trio(op) :
                   x = <<NoopName(schema[i]) \o <<".">> \o m, <<i, m>>>>
    BY <1>1, RenderedHooks
  <2> QED
    BY <2>1, Zenon DEF HookDecl, HookMethod, Dotted, Interface
<1>5. \A x : x \in Decls("hooks") <=> \/ x \in Render(ErrorFile).decls
                                      \/ \E i \in Written : x \in Render(HooksFile(i)).decls
  BY DeclsFacts
<1> QED
  BY <1>2, <1>3, <1>4, <1>5

LEMMA HookNames ==
    ASSUME IInv, pc = "accepted", NEW i, NEW m, Paired(i, m)
    PROVE  /\ Interface(i) = GoName[doc[m].name] \o <<"Hooks">>
           /\ NoopName(schema[i]) = <<"Noop">> \o GoName[doc[m].name] \o <<"Hooks">>
           /\ Plainly(Interface(i)) /\ Len(Interface(i)) \in Nat /\ Len(Interface(i)) >= 2
           /\ Plainly(NoopName(schema[i])) /\ Len(NoopName(schema[i])) \in Nat /\ Len(NoopName(schema[i])) >= 3
           /\ i \in Written <=> Writes(doc[m]) # {}
<1> DEFINE g == GoName[doc[m].name]
           noop == <<"Noop">>
           hooks == <<"Hooks">>
<1>1. i \in DOMAIN schema /\ DrawnFrom(schema[i], doc[m])
  BY Pairs DEF Paired
<1>2. schema[i].goName = g /\ g # << >> /\ doc[m].name \in Name
  BY <1>1 DEF DrawnFrom
<1>3. Plainly(g) /\ Plainly(hooks) /\ Plainly(noop)
  BY <1>2, PlainNames
<1>4. Len(hooks) = 1 /\ Len(noop) = 1
  OBVIOUS
<1>5. Interface(i) = g \o hooks /\ NoopName(schema[i]) = noop \o g \o hooks
  BY <1>2 DEF Interface, NoopName
<1> HIDE DEF g, noop, hooks
<1>6. Plainly(g \o hooks) /\ Plainly(noop \o g)
  BY <1>3, PlainlyJoined
<1> DEFINE p == noop \o g
<1>6a. Plainly(p)
  BY <1>6
<1> HIDE DEF p
<1>7. Plainly(p \o hooks)
  BY <1>3, <1>6a, PlainlyJoined
<1>8. Len(g) \in Nat /\ Len(g) >= 1
  <2>1. g \in Seq(ToSet(g))
    BY <1>3 DEF Plainly
  <2> QED
    BY <1>2, <2>1
<1>9. \A s, t : Plainly(s) /\ Plainly(t) => Len(s \o t) = Len(s) + Len(t)
  <2> SUFFICES ASSUME NEW s, NEW t, Plainly(s), Plainly(t) PROVE Len(s \o t) = Len(s) + Len(t)
    OBVIOUS
  <2>1. Follows(s \o t, s, t)
    BY Following DEF Plainly
  <2> QED
    BY <2>1 DEF Follows
<1>10. Len(g \o hooks) = Len(g) + 1
  BY <1>3, <1>4, <1>9
<1>11. Len(p) = 1 + Len(g)
  BY <1>3, <1>4, <1>9 DEF p
<1>12. Len(p \o hooks) = 1 + Len(g) + 1
  BY <1>3, <1>4, <1>6a, <1>9, <1>11
<1>13. i \in Written <=> Writes(doc[m]) # {}
  BY <1>1, WrittenFacts
<1> QED
  BY <1>5, <1>6, <1>7, <1>8, <1>10, <1>12, <1>13 DEF g, noop, hooks, p

\* What a document gives to the package.
DocHook(m, y) ==
    /\ Writes(doc[m]) # {}
    /\ \/ y = <<GoName[doc[m].name] \o <<"Hooks">>, <<m>>>>
       \/ y = <<<<"Noop">> \o GoName[doc[m].name] \o <<"Hooks">>, <<m, "noop">>>>

LEMMA HooksNamesMembers ==
    ASSUME NEW y
    PROVE  y \in HooksNames <=> \E m \in DOMAIN doc : DocHook(m, y)
<1> DEFINE A(m) == {<<GoName[doc[m].name] \o <<"Hooks">>, <<m>>>>,
                    <<<<"Noop">> \o GoName[doc[m].name] \o <<"Hooks">>, <<m, "noop">>>>}
           W == {m \in DOMAIN doc : Writes(doc[m]) # {}}
<1>1. y \in HooksNames <=> y \in UNION {A(m) : m \in W}
  BY Zenon DEF HooksNames
<1>2. \A m : y \in A(m) <=> \/ y = <<GoName[doc[m].name] \o <<"Hooks">>, <<m>>>>
                            \/ y = <<<<"Noop">> \o GoName[doc[m].name] \o <<"Hooks">>, <<m, "noop">>>>
  BY Zenon
<1>3. \A m : m \in W <=> m \in DOMAIN doc /\ Writes(doc[m]) # {}
  BY Zenon
<1> HIDE DEF A, W
<1>4. y \in UNION {A(m) : m \in W} <=> \E m \in W : y \in A(m)
  BY Zenon
<1> QED
  BY <1>1, <1>2, <1>3, <1>4, Zenon DEF DocHook

\* The declarations of package hooks that are named after an entity.
NamedHooks == {x \in Decls("hooks") : \E i \in Written : HookDecl(i, x)}

\* The three kinds of declarations of the package can be told apart by name.
LEMMA HooksApart ==
    ASSUME GInv, Done
    PROVE  /\ \A x \in ErrorDecls : Len(x[1]) \in 1..3 /\ (Plainly(x[1]) => Len(x[1]) = 1)
           /\ \A x, y \in ErrorDecls : x[1] = y[1] => x = y
           /\ \A i \in Written : \A x : HookDecl(i, x) => Plainly(x[1]) /\ Len(x[1]) \in Nat /\ Len(x[1]) >= 2
           /\ \A i \in Written : \A x : HookMethod(i, x) => ~Plainly(x[1]) /\ Len(x[1]) \in Nat /\ Len(x[1]) >= 4
<1>1. IInv /\ pc = "accepted" /\ Written \subseteq DOMAIN schema
  BY DoneFacts, HooksDeclared
<1>2. \A i \in Written : \E m : Paired(i, m)
  BY <1>1, Pairs
<1>3. \A i \in Written : /\ Plainly(Interface(i)) /\ Len(Interface(i)) \in Nat /\ Len(Interface(i)) >= 2
                         /\ Plainly(NoopName(schema[i])) /\ Len(NoopName(schema[i])) \in Nat
                         /\ Len(NoopName(schema[i])) >= 3
  BY <1>1, <1>2, HookNames
<1>4. ASSUME NEW x \in ErrorDecls PROVE Len(x[1]) \in 1..3 /\ (Plainly(x[1]) => Len(x[1]) = 1)
  <2>1. x[1] = <<"Error">> \/ x[1] = <<"Error", ".", "Error">> \/ x[1] = <<"NewValidationError">>
    BY DEF ErrorDecls
  <2>2. "." \in ToSet(<<"Error", ".", "Error">>)
    BY DEF ToSet
  <2>3. ~Plainly(<<"Error", ".", "Error">>)
    BY <2>2 DEF Plainly
  <2> QED
    BY <2>1, <2>3
<1>5. \A x, y \in ErrorDecls : x[1] = y[1] => x = y
  BY DEF ErrorDecls
<1>6. \A a, b : <<a, b>>[1] = a
  OBVIOUS
<1>7. ASSUME NEW i \in Written, NEW x, HookDecl(i, x)
      PROVE  Plainly(x[1]) /\ Len(x[1]) \in Nat /\ Len(x[1]) >= 2
  <2>1. x[1] = Interface(i) \/ x[1] = NoopName(schema[i])
    BY <1>6, <1>7, Zenon DEF HookDecl
  <2> QED
    BY <1>3, <2>1
<1>8. ASSUME NEW i \in Written, NEW x, HookMethod(i, x)
      PROVE  ~Plainly(x[1]) /\ Len(x[1]) \in Nat /\ Len(x[1]) >= 4
  <2>0. PICK op \in ToSet(WriteOperations(schema[i])) : \E m \in Trio(op) :
            x = <<Dotted(NoopName(schema[i]), m), <<i, m>>>>
    BY <1>8 DEF HookMethod
  <2>1. PICK m \in Trio(op) : x = <<Dotted(NoopName(schema[i]), m), <<i, m>>>>
    BY <2>0
  <2>2. op \in {"create", "update", "delete"}
    BY WriteOperationsFacts
  <2>3. Plainly(m) /\ Plainly(NoopName(schema[i]))
    BY <1>3, <2>1, <2>2, TrioPlain
  <2> DEFINE s == NoopName(schema[i])
  <2>4. Splits(Dotted(s, m), s, m) /\ ~Plainly(Dotted(s, m))
    BY <2>3, DottedFacts
  <2>5. Len(Dotted(s, m)) = Len(s) + 1 + Len(m) /\ Len(m) \in Nat
    BY <2>4 DEF Splits
  <2>6. x[1] = Dotted(s, m)
    BY <1>6, <2>1
  <2> QED
    BY <1>3, <2>4, <2>5, <2>6
<1> QED
  BY <1>4, <1>5, <1>7, <1>8

\* Two methods of one name belong to no-ops of one name.
LEMMA MethodsClash ==
    ASSUME GInv, Done, NEW i \in Written, NEW j \in Written, NEW x, NEW y,
           HookMethod(i, x), HookMethod(j, y), x[1] = y[1], x # y
    PROVE  Clashes(NamedHooks)
<1>1. IInv /\ pc = "accepted" /\ Written \subseteq DOMAIN schema
  BY DoneFacts, HooksDeclared
<1>2. \A k \in Written : \E m : Paired(k, m)
  BY <1>1, Pairs
<1>3. Plainly(NoopName(schema[i])) /\ Plainly(NoopName(schema[j]))
  BY <1>1, <1>2, HookNames
<1>4. \A k \in Written : \A z : HookMethod(k, z) =>
          \E u : Plainly(u) /\ z = <<Dotted(NoopName(schema[k]), u), <<k, u>>>>
  BY WriteOperationsFacts, TrioPlain DEF HookMethod
<1>5. PICK u : Plainly(u) /\ x = <<Dotted(NoopName(schema[i]), u), <<i, u>>>>
  BY <1>4
<1>6. PICK v : Plainly(v) /\ y = <<Dotted(NoopName(schema[j]), v), <<j, v>>>>
  BY <1>4
<1>7. Dotted(NoopName(schema[i]), u) = Dotted(NoopName(schema[j]), v)
  BY <1>5, <1>6
<1>8. NoopName(schema[i]) = NoopName(schema[j]) /\ u = v
  BY <1>3, <1>5, <1>6, <1>7, DotSplit
<1>9. i # j
  BY <1>5, <1>6, <1>8
<1> DEFINE n == NoopName(schema[i])
           p == <<n, <<i, "noop">>>>
           q == <<n, <<j, "noop">>>>
<1>10. p # q /\ p[1] = q[1]
  BY <1>9
<1>11. HookDecl(i, p) /\ HookDecl(j, q)
  BY <1>8, Zenon DEF HookDecl
<1>12. p \in NamedHooks /\ q \in NamedHooks
  BY <1>11, HooksDeclared DEF NamedHooks
<1> HIDE DEF p, q
<1> QED
  BY <1>10, <1>12 DEF Clashes

LEMMA OnlyNamedClash ==
    ASSUME GInv, Done
    PROVE  Clashes(Decls("hooks")) <=> Clashes(NamedHooks)
<1>1. \A x : x \in Decls("hooks") <=> x \in ErrorDecls \/ \E i \in Written : HookDecl(i, x) \/ HookMethod(i, x)
  BY HooksDeclared
<1>2. \A x : x \in NamedHooks <=> \E i \in Written : HookDecl(i, x)
  BY <1>1 DEF NamedHooks
<1>3. /\ \A x \in ErrorDecls : Len(x[1]) \in 1..3 /\ (Plainly(x[1]) => Len(x[1]) = 1)
      /\ \A x, y \in ErrorDecls : x[1] = y[1] => x = y
      /\ \A i \in Written : \A x : HookDecl(i, x) => Plainly(x[1]) /\ Len(x[1]) \in Nat /\ Len(x[1]) >= 2
      /\ \A i \in Written : \A x : HookMethod(i, x) => ~Plainly(x[1]) /\ Len(x[1]) \in Nat /\ Len(x[1]) >= 4
  BY HooksApart
<1>4. \A x \in NamedHooks : Plainly(x[1]) /\ Len(x[1]) >= 2 /\ Len(x[1]) \in Nat
  BY <1>2, <1>3
<1>5. \A x \in ErrorDecls, y \in NamedHooks : x[1] # y[1]
  <2> SUFFICES ASSUME NEW x \in ErrorDecls, NEW y \in NamedHooks, x[1] = y[1] PROVE FALSE
    OBVIOUS
  <2>1. Plainly(y[1]) /\ Len(y[1]) >= 2 /\ Len(y[1]) \in Nat
    BY <1>4
  <2>2. Plainly(x[1]) => Len(x[1]) = 1
    BY <1>3
  <2>3. Plainly(x[1]) /\ Len(x[1]) = Len(y[1])
    BY <2>1
  <2>4. Len(x[1]) = 1
    BY <2>2, <2>3
  <2> QED
    BY <2>1, <2>3, <2>4
<1>6. \A x \in ErrorDecls : \A i \in Written : \A y : HookMethod(i, y) => x[1] # y[1]
  <2> SUFFICES ASSUME NEW x \in ErrorDecls, NEW i \in Written, NEW y, HookMethod(i, y), x[1] = y[1] PROVE FALSE
    OBVIOUS
  <2>1. Len(x[1]) \in 1..3
    BY <1>3
  <2>2. Len(y[1]) \in Nat /\ Len(y[1]) >= 4
    BY <1>3
  <2>3. Len(x[1]) = Len(y[1])
    BY Zenon
  <2> DEFINE k == Len(x[1])
             l == Len(y[1])
  <2>4. k \in 1..3 /\ l \in Nat /\ l >= 4 /\ k = l
    BY <2>1, <2>2, <2>3
  <2> HIDE DEF k, l
  <2> QED
    BY <2>4
<1>7. \A x \in NamedHooks : \A i \in Written : \A y : HookMethod(i, y) => x[1] # y[1]
  <2> SUFFICES ASSUME NEW x \in NamedHooks, NEW i \in Written, NEW y, HookMethod(i, y), x[1] = y[1] PROVE FALSE
    OBVIOUS
  <2>1. Plainly(x[1]) /\ ~Plainly(y[1])
    BY <1>3, <1>4
  <2> QED
    BY <2>1
<1>8. ASSUME Clashes(NamedHooks) PROVE Clashes(Decls("hooks"))
  BY <1>8 DEF Clashes, NamedHooks
<1>9. ASSUME Clashes(Decls("hooks")) PROVE Clashes(NamedHooks)
  <2>1. PICK x \in Decls("hooks"), y \in Decls("hooks") : x # y /\ x[1] = y[1]
    BY <1>9 DEF Clashes
  <2>2. CASE x \in ErrorDecls
    BY <1>1, <1>2, <1>3, <1>5, <1>6, <2>1, <2>2
  <2>3. CASE x \in NamedHooks
    <3>1. y \in NamedHooks
      BY <1>1, <1>2, <1>5, <1>7, <2>1, <2>3
    <3> QED
      BY <2>1, <2>3, <3>1 DEF Clashes
  <2>4. CASE \E i \in Written : HookMethod(i, x)
    <3>1. PICK i \in Written : HookMethod(i, x)
      BY <2>4
    <3>2. PICK j \in Written : HookMethod(j, y)
      BY <1>1, <1>2, <1>6, <1>7, <2>1, <3>1
    <3> QED
      BY <2>1, <3>1, <3>2, MethodsClash
  <2> QED
    BY <1>1, <1>2, <2>1, <2>2, <2>3, <2>4
<1> QED
  BY <1>8, <1>9

HookTag(s, t) ==
    \/ \E i, m : Paired(i, m) /\ s = <<i, "interface">> /\ t = <<m>>
    \/ \E i, m : Paired(i, m) /\ s = <<i, "noop">> /\ t = <<m, "noop">>

LEMMA HookTags ==
    ASSUME IInv, pc = "accepted", NEW s, NEW t, NEW p, NEW q, HookTag(s, t), HookTag(p, q)
    PROVE  s = p <=> t = q
<1>1. \A i, j, m, n : Paired(i, m) /\ Paired(j, n) => (i = j <=> m = n)
  BY Pairs
<1>2. CASE \E i, m : Paired(i, m) /\ s = <<i, "interface">> /\ t = <<m>>
  <2>0. PICK i, m : Paired(i, m) /\ s = <<i, "interface">> /\ t = <<m>>
    BY <1>2
  <2>1. CASE \E j, n : Paired(j, n) /\ p = <<j, "interface">> /\ q = <<n>>
    BY <1>1, <2>0, <2>1
  <2>2. CASE \E j, n : Paired(j, n) /\ p = <<j, "noop">> /\ q = <<n, "noop">>
    BY <2>0, <2>2
  <2> QED
    BY <2>1, <2>2 DEF HookTag
<1>3. CASE \E i, m : Paired(i, m) /\ s = <<i, "noop">> /\ t = <<m, "noop">>
  <2>0. PICK i, m : Paired(i, m) /\ s = <<i, "noop">> /\ t = <<m, "noop">>
    BY <1>3
  <2>1. CASE \E j, n : Paired(j, n) /\ p = <<j, "interface">> /\ q = <<n>>
    BY <2>0, <2>1
  <2>2. CASE \E j, n : Paired(j, n) /\ p = <<j, "noop">> /\ q = <<n, "noop">>
    BY <1>1, <2>0, <2>2
  <2> QED
    BY <2>1, <2>2 DEF HookTag
<1> QED
  BY <1>2, <1>3 DEF HookTag

\* One declaration of the package and the name the schema has for it.
SameHook(x, y) ==
    x = <<x[1], x[2]>> /\ y = <<y[1], y[2]>> /\ x[1] = y[1] /\ HookTag(x[2], y[2])

LEMMA HooksPaired ==
    ASSUME IInv, pc = "accepted", NEW i, NEW m, Paired(i, m)
    PROVE  /\ \A x : HookDecl(i, x) /\ i \in Written => \E y : DocHook(m, y) /\ SameHook(x, y)
           /\ \A y : DocHook(m, y) => i \in Written /\ \E x : HookDecl(i, x) /\ SameHook(x, y)
<1> DEFINE a == GoName[doc[m].name] \o <<"Hooks">>
           b == <<"Noop">> \o GoName[doc[m].name] \o <<"Hooks">>
<1>1. Interface(i) = a /\ NoopName(schema[i]) = b /\ (i \in Written <=> Writes(doc[m]) # {})
  BY HookNames
<1>2. \A x : HookDecl(i, x) <=> x = <<a, <<i, "interface">>>> \/ x = <<b, <<i, "noop">>>>
  BY <1>1 DEF HookDecl
<1>3. \A y : DocHook(m, y) <=> Writes(doc[m]) # {} /\ (y = <<a, <<m>>>> \/ y = <<b, <<m, "noop">>>>)
  BY Zenon DEF DocHook
<1> HIDE DEF a, b
<1>4. HookTag(<<i, "interface">>, <<m>>) /\ HookTag(<<i, "noop">>, <<m, "noop">>)
  BY DEF HookTag
<1>5. SameHook(<<a, <<i, "interface">>>>, <<a, <<m>>>>) /\ SameHook(<<b, <<i, "noop">>>>, <<b, <<m, "noop">>>>)
  BY <1>4 DEF SameHook
<1> QED
  BY <1>1, <1>2, <1>3, <1>5

LEMMA NamedHooksPaired ==
    ASSUME GInv, Done
    PROVE  /\ \A x \in NamedHooks : \E y \in HooksNames : SameHook(x, y)
           /\ \A y \in HooksNames : \E x \in NamedHooks : SameHook(x, y)
<1>1. IInv /\ pc = "accepted" /\ Written \subseteq DOMAIN schema
  BY DoneFacts, HooksDeclared
<1>2. \A x : x \in NamedHooks <=> \E i \in Written : HookDecl(i, x)
  BY HooksDeclared DEF NamedHooks
<1>3. \A y : y \in HooksNames <=> \E m \in DOMAIN doc : DocHook(m, y)
  BY HooksNamesMembers
<1>4. /\ \A i \in DOMAIN schema : \E m : Paired(i, m)
      /\ \A m \in DOMAIN doc : \E i : Paired(i, m)
      /\ \A i, m : Paired(i, m) => i \in DOMAIN schema /\ m \in DOMAIN doc
  BY <1>1, Pairs DEF Paired
<1>5. ASSUME NEW x \in NamedHooks PROVE \E y \in HooksNames : SameHook(x, y)
  <2>1. PICK i \in Written : HookDecl(i, x)
    BY <1>2
  <2>2. PICK m : Paired(i, m)
    BY <1>1, <1>4
  <2>3. PICK y : DocHook(m, y) /\ SameHook(x, y)
    BY <1>1, <2>1, <2>2, HooksPaired
  <2> QED
    BY <1>3, <1>4, <2>2, <2>3
<1>6. ASSUME NEW y \in HooksNames PROVE \E x \in NamedHooks : SameHook(x, y)
  <2>1. PICK m \in DOMAIN doc : DocHook(m, y)
    BY <1>3
  <2>2. PICK i : Paired(i, m)
    BY <1>4
  <2>3. i \in Written /\ \E x : HookDecl(i, x) /\ SameHook(x, y)
    BY <1>1, <2>1, <2>2, HooksPaired
  <2> QED
    BY <1>2, <2>3
<1> QED
  BY <1>5, <1>6

LEMMA HooksClashes ==
    ASSUME GInv, Done
    PROVE  Clashes(Decls("hooks")) <=> Clashes(HooksNames)
<1> DEFINE A == NamedHooks
           B == HooksNames
           R == {p \in A \X B : SameHook(p[1], p[2])}
<1>1. IInv /\ pc = "accepted"
  BY DoneFacts
<1>2. /\ \A x \in A : \E y \in B : SameHook(x, y)
      /\ \A y \in B : \E x \in A : SameHook(x, y)
  BY NamedHooksPaired
<1> HIDE DEF A, B
<1>3. ASSUME NEW w \in A, NEW x \in A, NEW y \in B, NEW z \in B, SameHook(w, y), SameHook(x, z)
      PROVE  w = x <=> y = z
  <2>1. w[2] = x[2] <=> y[2] = z[2]
    BY <1>1, <1>3, HookTags DEF SameHook
  <2> QED
    BY <1>3, <2>1 DEF SameHook
<1>4. \A x \in A, y \in B : <<x, y>> \in R <=> SameHook(x, y)
  OBVIOUS
<1> HIDE DEF R
<1>5. \A x, y : SameHook(x, y) => x[1] = y[1]
  BY DEF SameHook
<1>6. Matches(A, B, R)
  BY <1>2, <1>3, <1>4, <1>5 DEF Matches
<1>7. Clashes(A) <=> Clashes(B)
  BY <1>6, ClashesTransfer
<1> QED
  BY <1>7, OnlyNamedClash DEF A, B

-----------------------------------------------------------------------------
(* Which references resolve *)

Resolves(r) == r[1] \in {"model", "hooks"} => r[2] \in DeclaredNames(r[1])

LEMMA GoTypeRefs ==
    ASSUME NEW f, NEW package, NEW r
    PROVE  /\ f.type = "enum" => (r \in GoType(package, f) <=> r = <<package, f.enumGoType>>)
           /\ f.type # "enum" /\ r \in GoType(package, f) => r[1] \notin {"model", "hooks"}
<1>1. TypePackage(f.type) \notin {"model", "hooks"}
  BY DEF TypePackage
<1>2. \A a, b : <<a, b>>[1] = a
  OBVIOUS
<1>3. f.type # "enum" => GoType(package, f) = IF TypePackage(f.type) = "" THEN {} ELSE {<<TypePackage(f.type), <<f.type>>>>}
  BY DEF GoType
<1>4. f.type = "enum" => GoType(package, f) = {<<package, f.enumGoType>>}
  BY DEF GoType
<1> DEFINE P == TypePackage(f.type)
           w == <<f.type>>
<1>5. ASSUME f.type # "enum", r \in GoType(package, f) PROVE r[1] \notin {"model", "hooks"}
  <2>1. r = <<P, w>>
    BY <1>3, <1>5
  <2> HIDE DEF P, w
  <2>2. r[1] = P
    BY <1>2, <2>1
  <2> QED
    BY <1>1, <2>2 DEF P
<1> QED
  BY <1>4, <1>5

LEMMA ModelRefsResolve ==
    ASSUME GInv, Done, NEW i \in DOMAIN schema, NEW r \in Render(ModelFile(i)).refs
    PROVE  Resolves(r)
<1> DEFINE e == schema[i]
           f == ModelFile(i)
           create == IF Has(e, "create") THEN CreateMembers(e) ELSE {}
           update == IF Has(e, "update") THEN UpdateMembers(e) ELSE {}
           printed == UNION {GoType("model", g) : g \in ToSet(e.fields)}
           optional == {<<"model", <<"Optional">>>> : m \in create \cup update}
<1>1. Len(schema) \in Nat /\ DOMAIN schema = 1..Len(schema)
  BY DoneFacts
<1>2. Render(f) = RenderModel(f) /\ f.entity = i
  BY <1>1, RenderedFiles, FileFacts DEF ModelFile
<1> HIDE DEF f
<1>3. RenderModel(f).refs = printed \cup optional
  BY <1>2 DEF RenderModel
<1>4. r \in printed \/ r = <<"model", <<"Optional">>>>
  BY <1>2, <1>3 DEF f
<1>5. \A x \in Decls("model") : x[1] \in DeclaredNames("model")
  BY DEF DeclaredNames
<1>6. CASE r = <<"model", <<"Optional">>>>
  <2>1. <<<<"Optional">>, <<0>>>> \in Decls("model")
    BY <1>1, DeclsFacts, FixedDecls
  <2>2. <<"Optional">> \in DeclaredNames("model")
    BY <1>5, <2>1
  <2> QED
    BY <1>6, <2>2 DEF Resolves
<1>7. CASE r \in printed
  <2>1. PICK g \in ToSet(e.fields) : r \in GoType("model", g)
    BY <1>7
  <2>2. PICK k \in DOMAIN e.fields : g = e.fields[k]
    BY <2>1 DEF ToSet
  <2>3. CASE g.type # "enum"
    BY <2>1, <2>3, GoTypeRefs DEF Resolves
  <2>4. CASE g.type = "enum"
    <3>1. r = <<"model", g.enumGoType>>
      BY <2>1, <2>4, GoTypeRefs
    <3> DEFINE n == g.enumGoType
               x == <<n, <<i, k, 0>>>>
    <3>2. EnumText(i, k, x)
      BY <2>2, <2>4, Zenon DEF EnumText
    <3>3. x \in ModelDecls(schema[i], i)
      BY <2>2, <3>2, ModelDeclsFacts
    <3>4. x \in Decls("model")
      BY <3>3, DeclsFacts
    <3>5. x[1] = n
      OBVIOUS
    <3> HIDE DEF n, x
    <3>6. n \in DeclaredNames("model")
      BY <1>5, <3>4, <3>5
    <3>7. r[1] = "model" /\ r[2] = n
      BY <3>1 DEF n
    <3> QED
      BY <3>6, <3>7 DEF Resolves
  <2> QED
    BY <2>3, <2>4
<1> QED
  BY <1>4, <1>6, <1>7

\* The reference of the delete hook of entity i to the type of an enum key.
KeyRef(i, r) ==
    LET e == schema[i] IN
    /\ "delete" \in ToSet(WriteOperations(e)) /\ e.fields[e.pk].type = "enum"
    /\ r = <<"hooks", e.fields[e.pk].enumGoType>>

LEMMA HooksRefs ==
    ASSUME GInv, Done, NEW i \in Written, NEW r
    PROVE  /\ r \in Render(HooksFile(i)).refs => Resolves(r) \/ KeyRef(i, r)
           /\ KeyRef(i, r) => r \in Render(HooksFile(i)).refs
<1> DEFINE e == schema[i]
           f == HooksFile(i)
           ops == ToSet(WriteOperations(e))
           fixed == {<<"context", <<"Context">>>>, <<"pgx", <<"Tx">>>>, <<"model", e.goName>>}
           params == UNION {BeforeParam(e, op) : op \in ops}
           key == e.fields[e.pk]
<1>1. Len(schema) \in Nat /\ DOMAIN schema = 1..Len(schema) /\ i \in DOMAIN schema
  BY DoneFacts DEF Written
<1>2. Render(f) = RenderHooks(f) /\ f.entity = i
  BY <1>1, RenderedFiles, FileFacts DEF HooksFile
<1> HIDE DEF f
<1>3. RenderHooks(f).refs = fixed \cup params
  BY <1>2 DEF RenderHooks
<1>4. r \in params <=> \E op \in ops : r \in BeforeParam(e, op)
  OBVIOUS
<1>5. ops = {"create", "update", "delete"} \cap ToSet(e.endpoints)
  BY WriteOperationsFacts
<1>6. BeforeParam(e, "delete") = GoType("hooks", key)
  BY DEF BeforeParam
<1>7. BeforeParam(e, "create") = {<<"model", e.goName \o <<"Create", "Input">>>>}
      /\ BeforeParam(e, "update") = {<<"model", e.goName \o <<"Update", "Input">>>>}
  BY DEF BeforeParam, Capital
<1>8. \A x \in ModelDecls(e, i) : x \in Decls("model") /\ x[1] \in DeclaredNames("model")
  BY <1>1, DeclsFacts DEF DeclaredNames
<1> DEFINE g == e.goName
           create == g \o <<"Create", "Input">>
           update == g \o <<"Update", "Input">>
<1>9. /\ <<g, <<i, "struct">>>> \in ModelDecls(e, i)
      /\ "create" \in ops => <<create, <<i, "create">>>> \in ModelDecls(e, i)
      /\ "update" \in ops => <<update, <<i, "update">>>> \in ModelDecls(e, i)
  BY <1>1, <1>5, ModelDeclsFacts DEF Has
<1>10. r \in fixed => r = <<"model", g>> \/ r[1] \notin {"model", "hooks"}
  OBVIOUS
<1>11. KeyRef(i, r) <=> "delete" \in ops /\ key.type = "enum" /\ r = <<"hooks", key.enumGoType>>
  BY Zenon DEF KeyRef
<1>12. BeforeParam(e, "create") = {<<"model", create>>} /\ BeforeParam(e, "update") = {<<"model", update>>}
  BY <1>7
<1> HIDE DEF g, create, update, params, fixed
<1>13. /\ g \in DeclaredNames("model")
       /\ "create" \in ops => create \in DeclaredNames("model")
       /\ "update" \in ops => update \in DeclaredNames("model")
  <2>1. \A n, t : <<n, t>> \in ModelDecls(e, i) => n \in DeclaredNames("model")
    BY <1>8
  <2> QED
    BY <1>9, <2>1
<1>14. \A n \in DeclaredNames("model") : Resolves(<<"model", n>>)
  BY DEF Resolves
<1> HIDE DEF e, ops, key
<1>15. ASSUME NEW op \in ops, r \in BeforeParam(e, op) PROVE Resolves(r) \/ KeyRef(i, r)
  <2>1. CASE op = "create"
    BY <1>12, <1>13, <1>14, <1>15, <2>1
  <2>2. CASE op = "update"
    BY <1>12, <1>13, <1>14, <1>15, <2>2
  <2>3. CASE op = "delete"
    <3>1. r \in GoType("hooks", key)
      BY <1>6, <1>15, <2>3
    <3>2. CASE key.type = "enum"
      BY <1>11, <1>15, <2>3, <3>1, <3>2, GoTypeRefs
    <3>3. CASE key.type # "enum"
      BY <3>1, <3>3, GoTypeRefs DEF Resolves
    <3> QED
      BY <3>2, <3>3
  <2> QED
    BY <1>5, <2>1, <2>2, <2>3
<1>16. ASSUME r \in fixed PROVE Resolves(r)
  BY <1>10, <1>13, <1>14, <1>16 DEF Resolves
<1>17. ASSUME KeyRef(i, r) PROVE r \in params
  BY <1>4, <1>6, <1>11, <1>17, GoTypeRefs
<1> QED
  BY <1>2, <1>3, <1>4, <1>15, <1>16, <1>17 DEF f

LEMMA HookNameDeclared ==
    ASSUME GInv, Done, NEW n, Plainly(n), Len(n) \in Nat, Len(n) >= 2
    PROVE  n \in DeclaredNames("hooks") <=> n \in {y[1] : y \in HooksNames}
<1>1. \A x : x \in Decls("hooks") <=> x \in ErrorDecls \/ \E i \in Written : HookDecl(i, x) \/ HookMethod(i, x)
  BY HooksDeclared
<1>2. \A x : x \in NamedHooks <=> \E i \in Written : HookDecl(i, x)
  BY <1>1 DEF NamedHooks
<1>3. n \in DeclaredNames("hooks") <=> \E x \in Decls("hooks") : n = x[1]
  BY DEF DeclaredNames
<1>4. \A x \in Decls("hooks") : n = x[1] => x \in NamedHooks
  <2> SUFFICES ASSUME NEW x \in Decls("hooks"), n = x[1] PROVE x \in NamedHooks
    OBVIOUS
  <2>1. x \notin ErrorDecls
    <3>1. x \in ErrorDecls => (Plainly(x[1]) => Len(x[1]) = 1)
      BY HooksApart
    <3> DEFINE l == Len(n)
    <3>2. l # 1
      <4>1. l \in Nat /\ l >= 2
        OBVIOUS
      <4> HIDE DEF l
      <4> QED
        BY <4>1
    <3> QED
      BY <3>1, <3>2
  <2>2. \A i \in Written : ~HookMethod(i, x)
    BY HooksApart
  <2> QED
    BY <1>1, <1>2, <2>1, <2>2
<1>5. \A x \in NamedHooks : x \in Decls("hooks")
  BY DEF NamedHooks
<1>6. /\ \A x \in NamedHooks : \E y \in HooksNames : SameHook(x, y)
      /\ \A y \in HooksNames : \E x \in NamedHooks : SameHook(x, y)
  BY NamedHooksPaired
<1>7. \A x, y : SameHook(x, y) => x[1] = y[1]
  BY DEF SameHook
<1> QED
  BY <1>3, <1>4, <1>5, <1>6, <1>7

\* The delete hook takes an enum key when the document says so, and names its
\* type as the document does.
KeyType(d) == GoName[d.name] \o GoName[d.fields[KeyOf(d)].name]

KeyDeleted(d) == KeyOf(d) # 0 /\ d.fields[KeyOf(d)].type = "enum" /\ "delete" \in Writes(d)

SameKey(i, d) ==
    /\ \A r : KeyRef(i, r) <=> KeyDeleted(d) /\ r = <<"hooks", KeyType(d)>>
    /\ KeyDeleted(d) => /\ i \in Written
                        /\ Plainly(KeyType(d)) /\ Len(KeyType(d)) \in Nat /\ Len(KeyType(d)) >= 2

LEMMA EnumKeyTyped ==
    ASSUME IInv, pc = "accepted", ~RefersToEnum, NEW i, NEW m, Paired(i, m)
    PROVE  SameKey(i, doc[m])
<1> DEFINE e == schema[i]
           d == doc[m]
           k == KeyOf(d)
           f == d.fields[k]
<1>1. i \in DOMAIN schema /\ DrawnFrom(e, d)
  BY Pairs DEF Paired
<1>2. /\ e.pk = k /\ k \in DOMAIN e.fields /\ k # 0 /\ FieldFrom(e.fields[k], f, d)
      /\ d.name \in Name /\ GoName[d.name] # << >>
  <2>1. /\ e.pk = k /\ k \in DOMAIN e.fields /\ \A l \in DOMAIN e.fields : FieldFrom(e.fields[l], d.fields[l], d)
        /\ d.name \in Name /\ GoName[d.name] # << >>
        /\ DOMAIN e.fields = 1..Len(d.fields)
    BY <1>1, Zenon DEF DrawnFrom
  <2> HIDE DEF k, d, e
  <2>2. k # 0
    BY <2>1
  <2> QED
    BY <2>1, <2>2
<1>3. ~(f.type = "belongsTo" /\ e.fields[k].type = "enum")
  BY <1>2, NoForeignEnum
<1>4. /\ e.fields[k].type = "enum" <=> f.type = "enum"
      /\ f.type = "enum" => e.fields[k].enumGoType = GoName[d.name] \o GoName[f.name]
      /\ f.name \in Name /\ GoName[f.name] # << >>
  BY <1>2, <1>3 DEF FieldFrom
<1>5. ToSet(WriteOperations(e)) = Writes(d) /\ (i \in Written <=> Writes(d) # {})
  BY <1>1, WrittenFacts
<1>6. \A r : KeyRef(i, r) <=> /\ "delete" \in ToSet(WriteOperations(e)) /\ e.fields[k].type = "enum"
                              /\ r = <<"hooks", e.fields[k].enumGoType>>
  BY <1>2 DEF KeyRef
<1>7. KeyDeleted(d) <=> f.type = "enum" /\ "delete" \in Writes(d)
  BY <1>2 DEF KeyDeleted
<1>8. KeyType(d) = GoName[d.name] \o GoName[f.name]
  BY DEF KeyType
<1>9. Plainly(GoName[d.name]) /\ Plainly(GoName[f.name])
  BY <1>2, <1>4, PlainNames
<1> DEFINE s == GoName[d.name]
           u == GoName[f.name]
<1>10. s \in Seq(ToSet(s)) /\ u \in Seq(ToSet(u)) /\ s # << >> /\ u # << >> /\ Plainly(s) /\ Plainly(u)
  BY <1>2, <1>4, <1>9 DEF Plainly
<1>11. e.fields[k].type = "enum" => e.fields[k].enumGoType = s \o u
  BY <1>4
<1>12. KeyType(d) = s \o u
  BY <1>8
<1> HIDE DEF s, u
<1>13. Plainly(s \o u) /\ Follows(s \o u, s, u)
  BY <1>10, PlainlyJoined, Following
<1>14. Len(s \o u) \in Nat /\ Len(s \o u) >= 2
  <2>1. Len(s) \in Nat /\ Len(s) >= 1
    BY <1>10
  <2>2. Len(u) \in Nat /\ Len(u) >= 1
    BY <1>10
  <2>3. Len(s \o u) = Len(s) + Len(u)
    BY <1>13 DEF Follows
  <2> QED
    BY <2>1, <2>2, <2>3
<1>15. Plainly(KeyType(d)) /\ Len(KeyType(d)) \in Nat /\ Len(KeyType(d)) >= 2
  BY <1>12, <1>13, <1>14
<1>16. KeyDeleted(d) => i \in Written
  BY <1>5, <1>7
<1>17. \A r : KeyRef(i, r) <=> KeyDeleted(d) /\ r = <<"hooks", KeyType(d)>>
  BY <1>4, <1>5, <1>6, <1>7, <1>11, <1>12
<1> HIDE DEF d
<1>18. SameKey(i, d)
  BY <1>15, <1>16, <1>17, Zenon DEF SameKey
<1> QED
  BY <1>18 DEF d

LEMMA ReferencesExplained ==
    ASSUME GInv, Done
    PROVE  ReferencesResolve <=> ~EnumKeyDeleted
<1> DEFINE H == {y[1] : y \in HooksNames}
<1>1. /\ IInv /\ pc = "accepted" /\ Len(schema) \in Nat /\ DOMAIN schema = 1..Len(schema)
      /\ \A f \in Planned : f.path \in DOMAIN out /\ out[f.path] = Render(f)
      /\ \A p \in DOMAIN out : \E f \in Planned : p = f.path
  BY DoneFacts
<1>2. ~RefersToEnum
  <2>1. /\ \A f \in Planned : Parses(f)
        /\ \A f, g \in Planned : f.path = g.path => f = g
    BY DoneFacts
  <2> QED
    BY <1>1, <2>1, Unrenderable
<1>3. /\ \A i \in DOMAIN schema : \E m : Paired(i, m)
      /\ \A m \in DOMAIN doc : \E i : Paired(i, m)
      /\ \A i, m : Paired(i, m) => i \in DOMAIN schema /\ m \in DOMAIN doc
  BY <1>1, Pairs DEF Paired
<1>4. \A i, m : Paired(i, m) =>
          /\ \A r : KeyRef(i, r) <=> KeyDeleted(doc[m]) /\ r = <<"hooks", KeyType(doc[m])>>
          /\ KeyDeleted(doc[m]) => /\ i \in Written
                                   /\ Plainly(KeyType(doc[m])) /\ Len(KeyType(doc[m])) \in Nat
                                   /\ Len(KeyType(doc[m])) >= 2
  <2>1. \A i, m : Paired(i, m) => SameKey(i, doc[m])
    <3> SUFFICES ASSUME NEW i, NEW m, Paired(i, m) PROVE SameKey(i, doc[m])
      OBVIOUS
    <3> QED
      BY <1>1, <1>2, EnumKeyTyped
  <2> QED
    BY <2>1 DEF SameKey
<1>5. EnumKeyDeleted <=> \E m \in DOMAIN doc : KeyDeleted(doc[m]) /\ KeyType(doc[m]) \notin H
  BY DEF EnumKeyDeleted, KeyDeleted, KeyType, ToSet
<1>6. Planned = {OptionalFile, ErrorFile} \cup {ModelFile(i) : i \in DOMAIN schema} \cup {HooksFile(i) : i \in Written}
  BY <1>1, PlanFacts
<1>7. ReferencesResolve <=> \A f \in Planned : \A r \in Render(f).refs : Resolves(r)
  BY <1>1 DEF ReferencesResolve, Resolves
<1>8. \A r \in Render(OptionalFile).refs \cup Render(ErrorFile).refs : Resolves(r)
  <2>1. /\ Render(OptionalFile).refs = {<<"encoding/json", <<"Unmarshal">>>>}
        /\ Render(ErrorFile).refs = {<<"fmt", <<"Sprintf">>>>, <<"net/http", <<"StatusUnprocessableEntity">>>>}
    BY <1>1, RenderedFiles DEF RenderOptional, RenderError
  <2> QED
    BY <2>1 DEF Resolves
<1>9. \A i \in DOMAIN schema : \A r \in Render(ModelFile(i)).refs : Resolves(r)
  BY ModelRefsResolve
<1>10. \A i \in Written : \A r : /\ r \in Render(HooksFile(i)).refs => Resolves(r) \/ KeyRef(i, r)
                                 /\ KeyRef(i, r) => r \in Render(HooksFile(i)).refs
  BY HooksRefs
<1>11. ASSUME NEW n, Plainly(n), Len(n) \in Nat, Len(n) >= 2
       PROVE  Resolves(<<"hooks", n>>) <=> n \in H
  <2>1. n \in DeclaredNames("hooks") <=> n \in H
    BY <1>11, HookNameDeclared
  <2> HIDE DEF H
  <2> QED
    BY <2>1 DEF Resolves
<1> HIDE DEF H
<1>12. ASSUME EnumKeyDeleted PROVE ~ReferencesResolve
  <2>1. PICK m \in DOMAIN doc : KeyDeleted(doc[m]) /\ KeyType(doc[m]) \notin H
    BY <1>5, <1>12
  <2>2. PICK i : Paired(i, m)
    BY <1>3
  <2> DEFINE r == <<"hooks", KeyType(doc[m])>>
  <2>3. KeyRef(i, r) /\ i \in Written /\ ~Resolves(r)
    BY <1>4, <1>11, <2>1, <2>2
  <2>4. r \in Render(HooksFile(i)).refs /\ HooksFile(i) \in Planned
    BY <1>6, <1>10, <2>3
  <2> QED
    BY <1>7, <2>3, <2>4
<1>13. ASSUME ~ReferencesResolve PROVE EnumKeyDeleted
  <2>1. PICK f \in Planned : \E r \in Render(f).refs : ~Resolves(r)
    BY <1>7, <1>13
  <2>2. PICK r \in Render(f).refs : ~Resolves(r)
    BY <2>1
  <2>3. PICK i \in Written : f = HooksFile(i)
    BY <1>6, <1>8, <1>9, <2>2
  <2>4. KeyRef(i, r)
    BY <1>10, <2>2, <2>3
  <2>5. PICK m : Paired(i, m)
    BY <1>3 DEF Written
  <2>6. KeyDeleted(doc[m]) /\ r = <<"hooks", KeyType(doc[m])>> /\ m \in DOMAIN doc
    BY <1>3, <1>4, <2>4, <2>5
  <2>7. KeyType(doc[m]) \notin H
    BY <1>4, <1>11, <2>2, <2>5, <2>6
  <2> QED
    BY <1>5, <2>6, <2>7
<1> QED
  BY <1>12, <1>13

(* What Generate returns compiles, but for two names of the schema that give   *)
(* one identifier in a package, and for the delete hook of an entity whose     *)
(* enum key has a type that package hooks does not declare: src/internal/gen   *)
(* and what src/internal/validate lets through.                                *)
THEOREM CompilesUnlessNamed == GenSpec => []CompilesUnless
<1>1. ASSUME GInv, Done PROVE OneDeclarationEach <=> ~NamesCollide
  <2>1. Clashes(Decls("model")) <=> Clashes(ModelNames)
    BY <1>1, ModelClashes
  <2>2. Clashes(Decls("hooks")) <=> Clashes(HooksNames)
    BY <1>1, HooksClashes
  <2>3. OneDeclarationEach <=> ~Clashes(Decls("model")) /\ ~Clashes(Decls("hooks"))
    BY DEF OneDeclarationEach
  <2> QED
    BY <2>1, <2>2, <2>3 DEF NamesCollide
<1>2. GInv => CompilesUnless
  BY <1>1, ReferencesExplained DEF CompilesUnless
<1> QED
  BY <1>2, GenInvariant, PTL

=============================================================================
