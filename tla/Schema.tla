------------------------------- MODULE Schema -------------------------------
(***************************************************************************)
(* What happens to a schema file between the YAML parser and the           *)
(* generator: resolveSchema (internal/parse) builds the entities one by    *)
(* one, resolves what refers to other entities or fields, Freeze            *)
(* (internal/ir) asserts the result is consistent and Validate             *)
(* (internal/validate) judges its meaning.  Every check adds diagnostics   *)
(* and goes on; a schema is used only when no error was found.             *)
(*                                                                         *)
(* Names are atoms; what the code computes from their text is given by     *)
(* constant functions.  A Go name is the sequence of its words, so joining *)
(* two of them can be ambiguous as it is in the text.                      *)
(***************************************************************************)
EXTENDS Naturals, Sequences, FiniteSets, SequencesExt, SeqFilter

CONSTANTS
    Docs,           \* the schema files: sequences of entity documents
    Absent,         \* a key that was not written
    Identifier,     \* the names identifierPattern accepts
    Rank,           \* name -> its place in the byte order
    GoName,         \* name -> the words goName finds in it
    FKColumn,       \* name -> name + "_id"
    DefaultTable    \* name -> name + "s"

Name == DOMAIN Rank

ASSUME RankAssumption ==
    Rank \in [Name -> Nat] /\ \A n, m \in Name : Rank[n] = Rank[m] => n = m

ASSUME GoNameAssumption == \A n \in Name : GoName[n] \in Seq(ToSet(GoName[n]))

FieldType == {"uuid", "string", "text", "int", "bigint", "float", "decimal", "bool", "timestamp",
              "date", "json", "enum"}

Flag == {"pk", "required", "unique", "readonly", "immutable", "version", "default", "max"}

\* What a schema file says of a field, and of an entity.
FieldDoc ==
    [name : Name, type : FieldType \cup {"belongsTo", "unknown"}, flags : SUBSET Flag, values : Seq(Name),
     target : Name \cup {Absent}, onDelete : {"RESTRICT", "CASCADE", "SET NULL", "unknown"}]

EntityDoc ==
    [name : Name, table : Name \cup {Absent}, fields : Seq(FieldDoc),
     sort : {Absent} \cup Seq(Name \X BOOLEAN), filters : Seq(Name), indexes : Seq(Seq(Name)),
     endpoints : {Absent} \cup Seq({"list", "get", "create", "update", "delete", "unknown"})]

\* The YAML parser refuses a key that is written twice in one mapping.
ASSUME DocsAssumption ==
    \A d \in Docs :
        /\ d \in Seq(EntityDoc)
        /\ \A i, j \in DOMAIN d : d[i].name = d[j].name => i = j
        /\ \A i \in DOMAIN d : \A j, k \in DOMAIN d[i].fields :
               d[i].fields[j].name = d[i].fields[k].name => j = k

VARIABLES
    doc,
    built,          \* entities, as the first pass leaves them
    schema,         \* the same, sorted and resolved
    diags,          \* errors: <<entity, rule>>
    warned,         \* sort keys a warning is about: <<entity, field>>
    pc

vars == <<doc, built, schema, diags, warned, pc>>

Init ==
    /\ doc \in Docs
    /\ built = << >> /\ schema = << >>
    /\ diags = {} /\ warned = {}
    /\ pc = "build"

When(rule, holds) == IF holds THEN {rule} ELSE {}

Twice(s) == \E j, k \in DOMAIN s : j < k /\ s[j] = s[k]

-----------------------------------------------------------------------------
(* First pass: one entity at a time (buildEntity and the three checks that *)
(* follow it in resolveSchema).                                            *)

IsBelongsTo(f) == f.type = "belongsTo"

\* The options buildRelationField has a case for.
RelationFlags == {"pk", "required", "unique", "readonly", "immutable"}

BuildField(e, f) ==
    LET flags == IF IsBelongsTo(f) THEN f.flags \cap RelationFlags ELSE f.flags
    IN  [name     |-> f.name,
         column   |-> IF IsBelongsTo(f) THEN FKColumn[f.name] ELSE f.name,
         goName   |-> IF IsBelongsTo(f) THEN Append(GoName[f.name], "ID") ELSE GoName[f.name],
         type     |-> IF IsBelongsTo(f) THEN "uuid" ELSE f.type,
         flags    |-> flags,
         nullable |-> flags \cap {"required", "pk"} = {},
         values   |-> IF f.type = "enum" THEN f.values ELSE << >>,
         enumGoType |-> IF f.type = "enum" /\ f.values # << >>
                        THEN GoName[e.name] \o GoName[f.name] ELSE << >>]

Exportable(n) == n \in Identifier /\ GoName[n] # << >>

FieldBreaks(f) ==
    When("field name", ~Exportable(f.name)) \cup
    IF IsBelongsTo(f)
    THEN When("unknown key", f.flags \ RelationFlags # {} \/ f.values # << >>) \cup
         When("no target", f.target = Absent) \cup
         When("unknown on_delete", f.onDelete \notin {"RESTRICT", "CASCADE", "SET NULL"})
    ELSE When("unknown type", f.type = "unknown") \cup
         When("max on another type", "max" \in f.flags /\ f.type # "string") \cup
         When("values on another type", f.values # << >> /\ f.type # "enum") \cup
         When("enum without values", f.values = << >> /\ f.type = "enum") \cup
         When("value name", \E v \in ToSet(f.values) : GoName[v] = << >>) \cup
         When("relation key", f.target # Absent \/ f.onDelete # "RESTRICT")

CollisionBreaks(fs) ==
    When("duplicate column", Twice([k \in DOMAIN fs |-> fs[k].column])) \cup
    When("duplicate Go name",
         \E j, k \in DOMAIN fs :
             /\ j < k /\ {fs[j].name, fs[k].name} \subseteq Identifier
             /\ fs[j].goName = fs[k].goName)

Marked(fs, flag) == {k \in DOMAIN fs : flag \in fs[k].flags}

TheOne(S) == IF Cardinality(S) = 1 THEN CHOOSE k \in S : TRUE ELSE 0

PKBreaks(fs) == When("not one pk", Cardinality(Marked(fs, "pk")) # 1)

\* Mutant: two version fields are let through.
VersionTypeOnly(fs) ==
    LET V == Marked(fs, "version") IN
    When("version field",
         Cardinality(V) = 1 /\ fs[TheOne(V)].type \notin {"int", "bigint"})

VersionBreaks(fs) ==
    LET V == Marked(fs, "version")
        v == fs[TheOne(V)]
    IN  When("two versions", Cardinality(V) > 1) \cup
        When("version field",
             Cardinality(V) = 1 /\ \/ v.type \notin {"int", "bigint"}
                                   \/ v.nullable \/ "pk" \in v.flags)

\* Mutant: the foreign keys, whose flags hold no "default", are left out.
UnfillablePlain(fs) ==
    When("unfillable",
         \E k \in DOMAIN fs :
             /\ fs[k].flags \cap {"pk", "version", "default"} = {}
             /\ "readonly" \in fs[k].flags /\ ~fs[k].nullable
             /\ fs[k].column = fs[k].name)

UnfillableBreaks(fs) ==
    When("unfillable",
         \E k \in DOMAIN fs :
             /\ fs[k].flags \cap {"pk", "version", "default"} = {}
             /\ "readonly" \in fs[k].flags /\ ~fs[k].nullable)

\* A sort key is <<name, desc>>; the first one fixes the direction.
SortBreaks(s) ==
    IF s = Absent THEN {}
    ELSE When("empty sort", s = << >>) \cup
         When("mixed directions", \E k \in DOMAIN s : s[k][2] # s[1][2]) \cup
         When("duplicate sort key", Twice([k \in DOMAIN s |-> s[k][1]]))

EndpointKind == <<"list", "get", "create", "update", "delete">>

EndpointBreaks(s) ==
    IF s = Absent THEN {}
    ELSE When("unknown endpoint", \E k \in DOMAIN s : s[k] \notin ToSet(EndpointKind)) \cup
         When("duplicate endpoint", Twice(s))

ListBreaks(e) ==
    When("duplicate filter", Twice(e.filters)) \cup
    When("empty index", \E k \in DOMAIN e.indexes : e.indexes[k] = << >>)

EntityBreaks(e, fs) ==
    When("entity name", ~Exportable(e.name)) \cup
    When("table name", e.table # Absent /\ e.table \notin Identifier) \cup
    (UNION {FieldBreaks(f) : f \in ToSet(e.fields)}) \cup
    CollisionBreaks(fs) \cup PKBreaks(fs) \cup VersionBreaks(fs) \cup UnfillableBreaks(fs) \cup
    SortBreaks(e.sort) \cup EndpointBreaks(e.endpoints) \cup ListBreaks(e)

\* An entity that writes no `sort` is sorted by its key, descending.
SortNames(e, fs) ==
    IF e.sort # Absent THEN [k \in DOMAIN e.sort |-> e.sort[k][1]]
    ELSE IF TheOne(Marked(fs, "pk")) = 0 THEN << >>
    ELSE <<fs[TheOne(Marked(fs, "pk"))].name>>

\* The relations still to be resolved: the indexes of their foreign keys.
Pending(e) == {k \in DOMAIN e.fields : IsBelongsTo(e.fields[k]) /\ e.fields[k].target # Absent}

Entity(e) ==
    LET fs == [k \in DOMAIN e.fields |-> BuildField(e, e.fields[k])] IN
    [name |-> e.name, goName |-> GoName[e.name],
     table |-> IF e.table = Absent THEN DefaultTable[e.name] ELSE e.table,
     fields |-> fs,
     pk |-> TheOne(Marked(fs, "pk")), version |-> TheOne(Marked(fs, "version")),
     desc |-> IF e.sort = Absent THEN TRUE ELSE e.sort # << >> /\ e.sort[1][2],
     sortNames |-> SortNames(e, fs), filterNames |-> e.filters, indexNames |-> e.indexes,
     endpoints |-> IF e.endpoints = Absent THEN EndpointKind ELSE e.endpoints,
     pending |-> [k \in Pending(e) |-> [target |-> e.fields[k].target, onDelete |-> e.fields[k].onDelete]],
     relations |-> {}, sort |-> << >>, filters |-> << >>, indexes |-> << >>]

BuildEntity ==
    LET e == doc[Len(built) + 1] IN
    /\ pc = "build" /\ Len(built) < Len(doc)
    /\ built' = Append(built, Entity(e))
    /\ diags' = diags \cup {<<e.name, r>> : r \in EntityBreaks(e, Entity(e).fields)}
    /\ UNCHANGED <<doc, schema, warned, pc>>

NoEntities ==
    /\ pc = "build" /\ doc = << >>
    /\ diags' = {<<Absent, "no entities">>} /\ pc' = "rejected"
    /\ UNCHANGED <<doc, built, schema, warned>>

-----------------------------------------------------------------------------
(* Second pass *)

\* sort.Slice by name; no two names are equal.
ByName(s) ==
    LET before(j) == {i \in DOMAIN s : Rank[s[i].name] <= Rank[s[j].name]}
    IN  [k \in DOMAIN s |-> s[CHOOSE j \in DOMAIN s : Cardinality(before(j)) = k]]

CheckTablesAndSort ==
    /\ pc = "build" /\ doc # << >> /\ Len(built) = Len(doc)
    /\ diags' = diags \cup
                {<<built[j].name, "duplicate table">> :
                     j \in {j \in DOMAIN built : \E i \in 1..(j - 1) : built[i].table = built[j].table}}
    /\ schema' = ByName(built)
    /\ pc' = "relations"
    /\ UNCHANGED <<doc, built, warned>>

\* Schema.Lookup and Entity.Lookup; 0 is nil.
LookupEntity(n) == IF \E i \in DOMAIN schema : schema[i].name = n
                   THEN CHOOSE i \in DOMAIN schema : schema[i].name = n ELSE 0

LookupField(e, n) == IF \E k \in DOMAIN e.fields : e.fields[k].name = n
                     THEN CHOOSE k \in DOMAIN e.fields : e.fields[k].name = n ELSE 0

\* Mutant: the type of the target's key is read as the first pass left it.
KeyTypesAsBuilt ==
    [i \in DOMAIN schema |->
        IF schema[i].pk = 0 THEN "none" ELSE schema[i].fields[schema[i].pk].type]

\* The type of every entity's key once resolvePendingRelations is through (the
\* module Relations has its steps): "pending" when its chain of keys is a cycle.
KeyTypes ==
    LET After[n \in 0..Len(schema)] ==
        [i \in DOMAIN schema |->
            LET e == schema[i]
                t == LookupEntity(e.pending[e.pk].target)
            IN  CASE e.pk = 0 -> "none"
                  [] e.pk # 0 /\ e.pk \notin DOMAIN e.pending -> e.fields[e.pk].type
                  [] OTHER ->
                       IF t = 0 THEN "uuid"
                       ELSE IF n = 0 THEN "pending"
                       ELSE IF After[n - 1][t] = "none" THEN "uuid" ELSE After[n - 1][t]]
    IN  After[Len(schema)]

Resolvable(e, k) ==
    LookupEntity(e.pending[k].target) # 0 /\ KeyTypes[LookupEntity(e.pending[k].target)] # "pending"

WithRelations(e) ==
    LET done == {k \in DOMAIN e.pending : Resolvable(e, k)}
        key(k) == KeyTypes[LookupEntity(e.pending[k].target)]
    IN  [e EXCEPT
          !.fields = [k \in DOMAIN e.fields |->
                        IF k \in done /\ key(k) # "none"
                        THEN [e.fields[k] EXCEPT !.type = key(k)] ELSE e.fields[k]],
          !.relations = {[name |-> e.fields[k].name, goName |-> GoName[e.fields[k].name],
                          field |-> k, target |-> LookupEntity(e.pending[k].target),
                          nullable |-> e.fields[k].nullable,
                          onDelete |-> e.pending[k].onDelete] : k \in done}]

ResolveRelations ==
    /\ pc = "relations"
    /\ diags' = diags \cup
                {<<e.name, "relation unresolved">> :
                     e \in {e \in ToSet(schema) : \E k \in DOMAIN e.pending : ~Resolvable(e, k)}}
    /\ schema' = [i \in DOMAIN schema |-> WithRelations(schema[i])]
    /\ pc' = "references"
    /\ UNCHANGED <<doc, built, warned>>

\* Mutant: a name that is no field is not dropped.
FoundOrNil(e, ns) == [j \in DOMAIN ns |-> LookupField(e, ns[j])]

Found(e, ns) == Outside([j \in DOMAIN ns |-> LookupField(e, ns[j])], {0})

WithReferences(e) ==
    [e EXCEPT !.sort = Found(e, e.sortNames),
              !.filters = Found(e, e.filterNames),
              !.indexes = Outside([j \in DOMAIN e.indexNames |-> Found(e, e.indexNames[j])], {<< >>})]

Names(e) == ToSet(e.sortNames) \cup ToSet(e.filterNames) \cup
            UNION {ToSet(e.indexNames[j]) : j \in DOMAIN e.indexNames}

ResolveReferences ==
    /\ pc = "references"
    /\ diags' = diags \cup
                {<<e.name, "not a field">> :
                     e \in {e \in ToSet(schema) : \E n \in Names(e) : LookupField(e, n) = 0}}
    /\ schema' = [i \in DOMAIN schema |-> WithReferences(schema[i])]
    /\ pc' = "parsed"
    /\ UNCHANGED <<doc, built, warned>>

-----------------------------------------------------------------------------
(* Freeze, then Validate *)

EntityFrozen(e) ==
    /\ ~Twice([k \in DOMAIN e.fields |-> e.fields[k].name])
    /\ \A k \in DOMAIN e.fields : \A v \in ToSet(e.fields[k].values) : GoName[v] # << >>
    /\ Marked(e.fields, "pk") = {e.pk}
    /\ Marked(e.fields, "version") = {e.version} \ {0}
    /\ ToSet(e.sort) \cup ToSet(e.filters) \subseteq DOMAIN e.fields
    /\ \A j \in DOMAIN e.indexes : ToSet(e.indexes[j]) \subseteq DOMAIN e.fields
    /\ \A r \in e.relations : r.target \in DOMAIN schema

Frozen ==
    /\ \A i \in DOMAIN schema : i > 1 => Rank[schema[i - 1].name] < Rank[schema[i].name]
    /\ \A i \in DOMAIN schema : EntityFrozen(schema[i])

\* Parse: a schema with diagnostics is dropped, any other one is frozen.
Return ==
    /\ pc = "parsed"
    /\ pc' = IF diags # {} THEN "rejected" ELSE IF Frozen THEN "frozen" ELSE "bug"
    /\ UNCHANGED <<doc, built, schema, diags, warned>>

IsSortEligible(f) == ~f.nullable /\ f.type \notin {"decimal", "json"}

\* Mutant: uniqueness is asked of the first key.
SortWrongFirst(e) ==
    \/ \E k \in ToSet(e.sort) : ~IsSortEligible(e.fields[k])
    \/ e.sort # << >> /\ e.fields[e.sort[1]].flags \cap {"pk", "unique"} = {}

SortWrong(e) ==
    \/ \E k \in ToSet(e.sort) : ~IsSortEligible(e.fields[k])
    \/ e.sort # << >> /\ e.fields[Last(e.sort)].flags \cap {"pk", "unique"} = {}

\* Mutant: a default is taken for a promise never to change the value.
MovingKeysWithoutDefault(e) ==
    {k \in ToSet(e.sort) : e.fields[k].flags \cap {"pk", "readonly", "immutable", "default"} = {}}

MovingKeys(e) ==
    {k \in ToSet(e.sort) : e.fields[k].flags \cap {"pk", "readonly", "immutable"} = {}}

FilterWrong(e) ==
    \E k \in ToSet(e.filters) : e.fields[k].type = "json" \/ e.fields[k].column \in {"limit", "after"}

IndexWrong(e) ==
    \/ \E j \in DOMAIN e.indexes :
           \/ ~(ToSet(e.indexes[j]) \subseteq ToSet(e.filters))
           \/ Twice(e.indexes[j])
           \/ Len(e.indexes[j]) < 2
    \/ Twice(e.indexes)

RelationWrong(e) == \E r \in e.relations : r.onDelete = "SET NULL" /\ ~r.nullable

\* Mutant: the relations are not members of the struct.
FieldNamesWrong(e) ==
    \/ Twice([k \in DOMAIN e.fields |-> e.fields[k].goName])
    \/ \E k \in DOMAIN e.fields : e.fields[k].goName = <<"Validate">>

StructNamesWrong(e) ==
    \/ Twice([k \in DOMAIN e.fields |-> e.fields[k].goName])
    \/ \E r \in e.relations : \E k \in DOMAIN e.fields : e.fields[k].goName = r.goName
    \/ \E r, s \in e.relations : r.field # s.field /\ r.goName = s.goName
    \/ <<"Validate">> \in {e.fields[k].goName : k \in DOMAIN e.fields} \cup {r.goName : r \in e.relations}

\* The package's declarations: <<Go name, entity, field, value>>, 0 for the
\* entity's own struct or the enum's own type.
EnumDecls(i, k) ==
    LET f == schema[i].fields[k] IN
    IF f.type # "enum" THEN {}
    ELSE {<<f.enumGoType, i, k, 0>>} \cup
         {<<f.enumGoType \o GoName[f.values[v]], i, k, v>> : v \in DOMAIN f.values}

PackageDecls ==
    {<<schema[i].goName, i, 0, 0>> : i \in DOMAIN schema} \cup
    UNION {UNION {EnumDecls(i, k) : k \in DOMAIN schema[i].fields} : i \in DOMAIN schema}

Validate ==
    LET wrong(e) == When("sort", SortWrong(e)) \cup When("filter", FilterWrong(e)) \cup
                    When("index", IndexWrong(e)) \cup When("on_delete", RelationWrong(e)) \cup
                    When("struct names", StructNamesWrong(e))
    IN  /\ pc = "frozen"
        /\ diags' = (UNION {{<<e.name, r>> : r \in wrong(e)} : e \in ToSet(schema)}) \cup
                    When(<<Absent, "package names">>,
                         \E d, c \in PackageDecls : d # c /\ d[1] = c[1])
        /\ warned' = UNION {{<<e.name, k>> : k \in MovingKeys(e)} : e \in ToSet(schema)}
        /\ pc' = IF diags' = {} THEN "accepted" ELSE "rejected"
        /\ UNCHANGED <<doc, built, schema>>

Next ==
    \/ BuildEntity \/ NoEntities \/ CheckTablesAndSort \/ ResolveRelations
    \/ ResolveReferences \/ Return \/ Validate

Spec == Init /\ [][Next]_vars

-----------------------------------------------------------------------------
(* Properties *)

Accepted == pc = "accepted"

TypeOK ==
    /\ pc \in {"build", "relations", "references", "parsed", "frozen", "accepted", "rejected", "bug"}
    /\ Len(built) <= Len(doc)
    /\ \A i \in DOMAIN built : built[i].name = doc[i].name
    /\ Len(schema) \in {0, Len(doc)}
    /\ pc \in {"relations", "references", "parsed", "frozen", "accepted"} => Len(schema) = Len(doc)
    /\ \A i \in DOMAIN schema :
           /\ schema[i].pk \in DOMAIN schema[i].fields \cup {0}
           /\ schema[i].version \in DOMAIN schema[i].fields \cup {0}
           /\ ToSet(schema[i].sort) \cup ToSet(schema[i].filters) \subseteq DOMAIN schema[i].fields
           /\ \A r \in schema[i].relations : r.target \in DOMAIN schema

\* parse.go: whatever the file says, no schema that passed every check of the
\* resolver fails the self-check that would blame lapigo.
FreezeNeverFails == pc # "bug"

\* In an accepted schema every belongsTo column has its relation, and has the
\* type of the key it refers to, through any chain of such keys.
ForeignKeysMatch ==
    Accepted =>
        \A i \in DOMAIN schema :
            LET e == schema[i] IN
            /\ {r.field : r \in e.relations} = DOMAIN e.pending
            /\ \A r \in e.relations :
                   LET t == schema[r.target] IN e.fields[r.field].type = t.fields[t.pk].type

\* Keyset pagination over an accepted entity neither skips nor repeats a row:
\* its sort is never empty, in one direction, and a strict order of the rows,
\* none of whose columns can be NULL or loses precision in a cursor.
KeysetSafe ==
    Accepted =>
        \A e \in ToSet(schema) :
            /\ e.sort # << >> /\ ~Twice(e.sort)
            /\ e.fields[Last(e.sort)].flags \cap {"pk", "unique"} # {}
            /\ \A k \in ToSet(e.sort) :
                   /\ e.fields[k].flags \cap {"pk", "required"} # {}
                   /\ e.fields[k].type \notin {"decimal", "json"}
            /\ \A d \in ToSet(doc) :
                   d.name = e.name /\ d.sort # Absent =>
                       \A j \in DOMAIN d.sort :
                           d.sort[j] = <<e.fields[e.sort[j]].name, e.desc>>

\* internal/ir/input.go: the members of the generated input types.
CreateInputPresence(f) ==
    IF f.flags \cap {"pk", "version"} # {} THEN "absent"
    ELSE IF "readonly" \in f.flags THEN "hidden" ELSE "visible"

UpdateInputPresence(f) ==
    IF f.flags \cap {"pk", "version"} # {} THEN "absent"
    ELSE IF "readonly" \in f.flags THEN "hidden"
    ELSE IF "immutable" \in f.flags THEN "absent" ELSE "visible"

IsMandatory(f) == ~f.nullable /\ "default" \notin f.flags

\* A NOT NULL column has a source for its first value and keeps it when another
\* row goes: it is a key or version (which the generated server is taken to set),
\* has a default, or is a member of the create input that the client must send;
\* and no ON DELETE clears it.  What an update sends is not looked at.
NotNullHolds ==
    Accepted =>
        \A e \in ToSet(schema) :
            /\ \A k \in DOMAIN e.fields :
                   LET f == e.fields[k] IN
                   ~f.nullable => \/ f.flags \cap {"pk", "version", "default"} # {}
                                  \/ CreateInputPresence(f) = "visible" /\ IsMandatory(f)
            /\ \A r \in e.relations :
                   r.onDelete = "SET NULL" => e.fields[r.field].flags \cap {"pk", "required"} = {}

\* Whenever an update request can change the value of a sort key, so that a row
\* moves under a live cursor, the author was warned.
MovesAreWarned ==
    Accepted =>
        \A e \in ToSet(schema) : \A k \in ToSet(e.sort) :
            UpdateInputPresence(e.fields[k]) = "visible" => <<e.name, k>> \in warned

\* The Go declarations that Validate compares, named from the file alone: the
\* entities' structs, the enum types and their constants.  The package declares
\* more (input types, Optional): Generate has those.
Declared ==
    {<<GoName[doc[i].name], i, 0, 0>> : i \in DOMAIN doc} \cup
    UNION {UNION {LET f == doc[i].fields[k]
                      type == GoName[doc[i].name] \o GoName[f.name]
                  IN  IF f.type # "enum" THEN {}
                      ELSE {<<type, i, k, 0>>} \cup
                           {<<type \o GoName[f.values[v]], i, k, v>> : v \in DOMAIN f.values} :
                  k \in DOMAIN doc[i].fields} : i \in DOMAIN doc}

Clashes(decls) == \E d, c \in decls : d # c /\ d[1] = c[1]

\* Spec 5.6, as far as names are compared: in an accepted schema no two structs,
\* enum types or enum constants (in any mix) have one name, nor have two tables,
\* two columns of a table, two members of an entity's struct or two endpoints of
\* an entity; no member is called like the method Validate, no filter limit or
\* after.  It says nothing of names derived from these: CompilesUnless does.
NamesDistinct ==
    Accepted =>
        /\ ~Clashes(Declared)
        /\ ~Twice([i \in DOMAIN schema |-> schema[i].table])
        /\ \A e \in ToSet(schema) :
               /\ \A j, k \in DOMAIN e.fields :
                      j # k => /\ e.fields[j].column # e.fields[k].column
                               /\ e.fields[j].goName # e.fields[k].goName
               /\ \A r \in e.relations :
                      /\ \A k \in DOMAIN e.fields : GoName[r.name] # e.fields[k].goName
                      /\ \A s \in e.relations : r.field # s.field => GoName[r.name] # GoName[s.name]
                      /\ GoName[r.name] # <<"Validate">>
               /\ \A f \in ToSet(e.fields) : f.goName # <<"Validate">>
               /\ \A k \in ToSet(e.filters) : e.fields[k].column \notin {"limit", "after"}
               /\ ~Twice(e.endpoints)

-----------------------------------------------------------------------------
(* What the repository says and the code does not do *)

\* internal/validate/names.go: a package-name error means that two declarations
\* the generator will emit have one Go identifier.
CollisionsAreReal == diags = {<<Absent, "package names">>} => Clashes(Declared)
=============================================================================
