------------------------------- MODULE Generate -------------------------------
(***************************************************************************)
(* Generate (internal/gen): from an accepted schema to the Go files of     *)
(* internal/gen/model and internal/gen/hooks.  plan decides every file and *)
(* its imports before anything is rendered; the files are then rendered    *)
(* and formatted one after the other, and the first failure gives up the   *)
(* whole run.  The formatter resolves nothing, so imports computed in      *)
(* plan.go and types printed by internal/ir have to agree by themselves.   *)
(*                                                                         *)
(* A rendered file is what the Go compiler sees of it: its imports, its     *)
(* declarations <<name, origin>>, its references <<package, name>> and the *)
(* members of its input structs.  An identifier is the sequence of its     *)
(* words, as in Schema.                                                    *)
(***************************************************************************)
EXTENDS Schema

CONSTANTS DigitFirst    \* the words that begin with a digit

\* The words the templates write in front of a name begin with a letter.
ASSUME DigitAssumption == {"Optional", "Error", "NewValidationError", "Noop"} \cap DigitFirst = {}

\* goName splits at everything that is not a letter or a digit.
ASSUME WordAssumption == \A n \in Name : "." \notin ToSet(GoName[n])

VARIABLES
    files,          \* the plan: the files still to be rendered
    out,            \* path -> rendered file, the map Generate returns
    stage           \* "idle", "render", "done", "failed"

generated == <<files, out, stage>>

GenInit == Init /\ files = << >> /\ out = << >> /\ stage = "idle"

-----------------------------------------------------------------------------
(* Plan: plan.go and hooks.go *)

Has(e, op) == op \in ToSet(e.endpoints)

WriteOperations(e) ==
    Outside(<<"create", "update", "delete">>, {"create", "update", "delete"} \ ToSet(e.endpoints))

ImportsForFieldType(t) ==
    CASE t \in {"uuid", "decimal"} -> {"pgtype"}
      [] t \in {"timestamp", "date"} -> {"time"}
      [] t = "json" -> {"encoding/json"}
      [] OTHER -> {}

\* Mutant: the foreign keys are thought to be plain strings.
ModelImportsPlain(e) ==
    UNION {ImportsForFieldType(f.type) : f \in {f \in ToSet(e.fields) : f.column = f.name}}

ModelImports(e) == UNION {ImportsForFieldType(f.type) : f \in ToSet(e.fields)}

HooksImports(e) ==
    {"context", "pgx", "model"} \cup
    IF Has(e, "delete") THEN ImportsForFieldType(e.fields[e.pk].type) ELSE {}

\* The file of entity i, or a package's fixed file when i is 0.
File(package, name, imports, i) ==
    [path |-> <<package, name>>, imports |-> imports, entity |-> i]

ModelFiles ==
    <<File("model", "optional", {"encoding/json"}, 0)>> \o
    [i \in DOMAIN schema |-> File("model", schema[i].name, ModelImports(schema[i]), i)]

HooksFiles ==
    LET written == Outside([i \in DOMAIN schema |-> i],
                           {i \in DOMAIN schema : WriteOperations(schema[i]) = << >>})
    IN  <<File("hooks", "error", {"fmt", "net/http"}, 0)>> \o
        [j \in DOMAIN written |->
            LET e == schema[written[j]] IN File("hooks", e.name, HooksImports(e), written[j])]

PlanFiles ==
    /\ pc = "accepted" /\ stage = "idle"
    /\ files' = ModelFiles \o HooksFiles
    /\ stage' = "render"
    /\ UNCHANGED <<vars, out>>

-----------------------------------------------------------------------------
(* Render: the templates, and the types they print *)

\* FieldType.goTypeBase's package; "" is the Go language's own.
TypePackage(t) ==
    CASE t \in {"uuid", "decimal"} -> "pgtype"
      [] t \in {"timestamp", "date"} -> "time"
      [] t = "json" -> "encoding/json"
      [] OTHER -> ""

\* What a file of the package refers to when it prints f's type.  Nullability
\* is a pointer, the same type.
GoType(package, f) ==
    IF f.type = "enum" THEN {<<package, f.enumGoType>>}
    ELSE IF TypePackage(f.type) = "" THEN {}
    ELSE {<<TypePackage(f.type), <<f.type>>>>}

\* The members of the input structs, <<field, presence>>: one per field the
\* presence table does not call absent.
CreateMembers(e) ==
    {<<k, CreateInputPresence(e.fields[k])>> : k \in DOMAIN e.fields} \ ((DOMAIN e.fields) \X {"absent"})

\* Mutant: an update may set what a create may.
UpdateMembersAsCreated(e) == CreateMembers(e)

UpdateMembers(e) ==
    {<<k, UpdateInputPresence(e.fields[k])>> : k \in DOMAIN e.fields} \ ((DOMAIN e.fields) \X {"absent"})

\* Mutant: one input type for both operations.
ModelDeclsOneInput(e, i) ==
    {<<e.goName, <<i, "struct">>>>} \cup
    {<<d[1], <<i, d[3], d[4]>>>> : d \in UNION {EnumDecls(i, k) : k \in DOMAIN e.fields}} \cup
    {<<e.goName \o <<"Create", "Input">>, <<i, "create">>>> : op \in {"create", "update"} \cap ToSet(e.endpoints)}

ModelDecls(e, i) ==
    {<<e.goName, <<i, "struct">>>>} \cup
    {<<d[1], <<i, d[3], d[4]>>>> : d \in UNION {EnumDecls(i, k) : k \in DOMAIN e.fields}} \cup
    {<<e.goName \o <<"Create", "Input">>, <<i, "create">>>> : op \in {"create"} \cap ToSet(e.endpoints)} \cup
    {<<e.goName \o <<"Update", "Input">>, <<i, "update">>>> : op \in {"update"} \cap ToSet(e.endpoints)}

RenderModel(f) ==
    LET e == schema[f.entity]
        create == IF Has(e, "create") THEN CreateMembers(e) ELSE {}
        update == IF Has(e, "update") THEN UpdateMembers(e) ELSE {}
    IN  [imports |-> f.imports,
         decls |-> ModelDecls(e, f.entity),
         refs |-> (UNION {GoType("model", g) : g \in ToSet(e.fields)}) \cup
                  {<<"model", <<"Optional">>>> : m \in create \cup update},
         create |-> create, update |-> update]

OptionalMethods == {"Present", "IsNull", "Get", "Set", "SetNull", "UnmarshalJSON"}

RenderOptional(f) ==
    [imports |-> f.imports,
     decls |-> {<<<<"Optional">>, <<0>>>>} \cup {<<<<"Optional", ".", m>>, <<0, m>>>> : m \in OptionalMethods},
     refs |-> {<<"encoding/json", <<"Unmarshal">>>>}, create |-> {}, update |-> {}]

Capital == [create |-> "Create", update |-> "Update", delete |-> "Delete"]

Trio(op) == {<<"Before", Capital[op]>>, <<"After", Capital[op]>>, <<"After", Capital[op], "Committed">>}

\* Before takes the input of its operation; BeforeDelete the key alone.
BeforeParam(e, op) ==
    IF op = "delete" THEN GoType("hooks", e.fields[e.pk])
    ELSE {<<"model", e.goName \o <<Capital[op], "Input">>>>}

RenderHooks(f) ==
    LET e == schema[f.entity]
        noop == <<"Noop">> \o e.goName \o <<"Hooks">>
        ops == ToSet(WriteOperations(e))
    IN  [imports |-> f.imports,
         decls |-> {<<e.goName \o <<"Hooks">>, <<f.entity, "interface">>>>, <<noop, <<f.entity, "noop">>>>} \cup
                   {<<noop \o <<".">> \o m, <<f.entity, m>>>> : m \in UNION {Trio(op) : op \in ops}},
         refs |-> {<<"context", <<"Context">>>>, <<"pgx", <<"Tx">>>>, <<"model", e.goName>>} \cup
                  (UNION {BeforeParam(e, op) : op \in ops}),
         create |-> {}, update |-> {}]

RenderError(f) ==
    [imports |-> f.imports,
     decls |-> {<<<<"Error">>, <<0>>>>, <<<<"Error", ".", "Error">>, <<0, "method">>>>,
                <<<<"NewValidationError">>, <<0, "func">>>>},
     refs |-> {<<"fmt", <<"Sprintf">>>>, <<"net/http", <<"StatusUnprocessableEntity">>>>},
     create |-> {}, update |-> {}]

Render(f) ==
    CASE f.path[1] = "model" /\ f.entity = 0 -> RenderOptional(f)
      [] f.path[1] = "model" /\ f.entity # 0 -> RenderModel(f)
      [] f.path[1] = "hooks" /\ f.entity = 0 -> RenderError(f)
      [] f.path[1] = "hooks" /\ f.entity # 0 -> RenderHooks(f)

\* The formatter parses the text: what is printed where an identifier stands
\* has to be one.
IsIdentifier(name) == name # << >> /\ name[1] \notin DigitFirst

Parses(f) ==
    /\ \A d \in Render(f).decls : IsIdentifier(d[1])
    /\ f.path[1] = "model" /\ f.entity # 0 =>
           \A g \in ToSet(schema[f.entity].fields) : IsIdentifier(g.goName)

\* Mutant: the last file to claim a path wins.
LastWins(f) == ~Parses(f)

Refused(f) == f.path \in DOMAIN out \/ ~Parses(f)

RenderFile ==
    LET f == Head(files) IN
    /\ stage = "render" /\ ~Refused(f)
    /\ out' = [p \in DOMAIN out \cup {f.path} |-> IF p = f.path THEN Render(f) ELSE out[p]]
    /\ files' = Tail(files)
    /\ stage' = IF files' = << >> THEN "done" ELSE "render"
    /\ UNCHANGED vars

\* Mutant: what was rendered so far is returned.
GiveUpPartly ==
    /\ stage = "render" /\ Refused(Head(files))
    /\ files' = << >> /\ stage' = "failed"
    /\ UNCHANGED <<vars, out>>

GiveUp ==
    /\ stage = "render" /\ Refused(Head(files))
    /\ out' = << >> /\ files' = << >> /\ stage' = "failed"
    /\ UNCHANGED vars

Resolve == Next /\ UNCHANGED generated

GenNext == Resolve \/ PlanFiles \/ RenderFile \/ GiveUp

GenSpec == GenInit /\ [][GenNext]_<<vars, generated>>

-----------------------------------------------------------------------------
(* names.go: what the packages are predicted to declare *)

\* Mutant: the hooks of an entity are predicted whatever its endpoints.
PredictedHooksAlways ==
    {<<"Error">>, <<"Error", ".", "Error">>, <<"NewValidationError">>} \cup
    UNION {LET noop == <<"Noop">> \o e.goName \o <<"Hooks">> IN
           {e.goName \o <<"Hooks">>, noop} \cup
           UNION {{noop \o <<".">> \o m : m \in Trio(op)} : op \in ToSet(WriteOperations(e))} :
               e \in ToSet(schema)}

PredictedHooks ==
    {<<"Error">>, <<"Error", ".", "Error">>, <<"NewValidationError">>} \cup
    UNION {LET noop == <<"Noop">> \o e.goName \o <<"Hooks">> IN
           {e.goName \o <<"Hooks">>, noop} \cup
           UNION {{noop \o <<".">> \o m : m \in Trio(op)} : op \in ToSet(WriteOperations(e))} :
               e \in {e \in ToSet(schema) : WriteOperations(e) # << >>}}

PredictedModel ==
    {<<"Optional">>} \cup {<<"Optional", ".", m>> : m \in OptionalMethods} \cup
    UNION {LET e == schema[i] IN
           {e.goName} \cup {d[1] : d \in UNION {EnumDecls(i, k) : k \in DOMAIN e.fields}} \cup
           {e.goName \o <<Capital[op], "Input">> : op \in {"create", "update"} \cap ToSet(e.endpoints)} :
               i \in DOMAIN schema}

-----------------------------------------------------------------------------
(* Properties *)

Done == stage = "done"

Texts(package) == {p \in DOMAIN out : p[1] = package}

Decls(package) == UNION {out[p].decls : p \in Texts(package)}

DeclaredNames(package) == {d[1] : d \in Decls(package)}

GenTypeOK ==
    /\ stage \in {"idle", "render", "done", "failed"}
    /\ stage # "idle" => pc = "accepted"
    /\ DOMAIN out \subseteq {"model", "hooks"} \X ({"optional", "error"} \cup {doc[i].name : i \in DOMAIN doc})
    /\ \A j \in DOMAIN files : files[j].entity \in 0..Len(schema)
    /\ stage = "failed" => out = << >> /\ files = << >>

\* compile_test.go's "missing import" and "surplus import": every file imports
\* exactly the packages the types and calls printed in it name.  plan.go and
\* hooks.go compute the imports, internal/ir prints the types.
ImportsExact ==
    \A p \in DOMAIN out : out[p].imports = {r[1] : r \in out[p].refs} \ {p[1]}

\* Every declaration rendered is one names.go predicts for the package, and
\* every predicted one is rendered, whatever entities, enums and endpoints the
\* schema has.
DeclaredAsPredicted ==
    Done => DeclaredNames("model") = PredictedModel /\ DeclaredNames("hooks") = PredictedHooks

\* Two declarations of one package with one name, by the schema file alone:
\* Schema's Declared, with the input types and the fixed types; in hooks the
\* interfaces and the no-ops.
ModelNames ==
    {<<d[1], <<d[2], d[3], d[4]>>>> : d \in Declared} \cup {<<<<"Optional">>, <<0>>>>} \cup
    UNION {{<<GoName[doc[i].name] \o <<Capital[op], "Input">>, <<i, op>>>> :
               op \in {"create", "update"} \cap
                      ToSet(IF doc[i].endpoints = Absent THEN EndpointKind ELSE doc[i].endpoints)} :
           i \in DOMAIN doc}

Writes(d) ==
    {"create", "update", "delete"} \cap ToSet(IF d.endpoints = Absent THEN EndpointKind ELSE d.endpoints)

HooksNames ==
    UNION {{<<GoName[doc[i].name] \o <<"Hooks">>, <<i>>>>,
            <<<<"Noop">> \o GoName[doc[i].name] \o <<"Hooks">>, <<i, "noop">>>>} :
               i \in {i \in DOMAIN doc : Writes(doc[i]) # {}}}

NamesCollide == Clashes(ModelNames) \/ Clashes(HooksNames)

\* The schemas Validate lets through although Generate cannot render them.
FixedFileTaken ==
    \E d \in ToSet(doc) : d.name = "optional" \/ (d.name = "error" /\ Writes(d) # {})

KeyOf(d) == TheOne(Marked(d.fields, "pk"))

RefersToEnum ==
    \E e \in ToSet(schema) : \E r \in e.relations : schema[r.target].fields[schema[r.target].pk].type = "enum"

DigitName ==
    \E d \in ToSet(doc) : \/ GoName[d.name][1] \in DigitFirst
                          \/ \E f \in ToSet(d.fields) : GoName[f.name][1] \in DigitFirst

\* An accepted schema is rendered in full, unless an entity has the name of a
\* fixed file of a package it has a file in, a relation leads to an enum key,
\* or a name exports to one that begins with a digit.
FailsOnlyFor ==
    /\ stage = "failed" => FixedFileTaken \/ RefersToEnum \/ DigitName
    /\ Done => ~(FixedFileTaken \/ RefersToEnum \/ DigitName)

OneDeclarationEach == \A package \in {"model", "hooks"} : ~Clashes(Decls(package))

ReferencesResolve ==
    \A p \in DOMAIN out : \A r \in out[p].refs :
        r[1] \in {"model", "hooks"} => r[2] \in DeclaredNames(r[1])

\* A delete hook takes an enum key, whose type package model declares, and no
\* type of package hooks happens to have that type's name.
EnumKeyDeleted ==
    \E d \in ToSet(doc) :
        /\ KeyOf(d) # 0 /\ d.fields[KeyOf(d)].type = "enum" /\ "delete" \in Writes(d)
        /\ GoName[d.name] \o GoName[d.fields[KeyOf(d)].name] \notin {n[1] : n \in HooksNames}

\* What Generate returns compiles, unless two names of the schema give one
\* identifier in a package, or the delete hook of an entity takes an enum key
\* whose type the package does not have.
CompilesUnless ==
    Done => /\ OneDeclarationEach <=> ~NamesCollide
            /\ ReferencesResolve <=> ~EnumKeyDeleted

\* The fields that an input struct has as members of one presence.
Sent(members, presence) == {m[1] : m \in {m \in members : m[2] = presence}}

FlagsHonoured(e, text) ==
    /\ Has(e, "create") =>
           \A k \in DOMAIN e.fields :
               LET fl == e.fields[k].flags IN
               /\ ~e.fields[k].nullable /\ fl \cap {"pk", "version", "default"} = {}
                      => k \in Sent(text.create, "visible")
               /\ "readonly" \in fl /\ fl \cap {"pk", "version"} = {} => k \in Sent(text.create, "hidden")
    /\ Has(e, "update") =>
           \A k \in Sent(text.update, "visible") \cup Sent(text.update, "hidden") :
               /\ e.fields[k].flags \cap {"pk", "version"} = {}
               /\ k \in Sent(text.update, "visible") => e.fields[k].flags \cap {"readonly", "immutable"} = {}
    /\ \A k \in DOMAIN e.fields :
           e.fields[k].flags \cap {"pk", "version", "readonly", "immutable"} = {}
               => /\ Has(e, "create") => k \in Sent(text.create, "visible")
                  /\ Has(e, "update") => k \in Sent(text.update, "visible")

\* The rendered structs keep the flags' promises: a create request carries
\* every column the database would refuse to leave out, an update request none
\* that its author called fixed, and a readonly column is on no wire but in
\* reach of a hook.
InputsHonourFlags ==
    Done => \A i \in DOMAIN schema : FlagsHonoured(schema[i], out[<<"model", schema[i].name>>])

-----------------------------------------------------------------------------
(* What the repository says and the code does not do *)

\* The design spec, 5.6 and 8: collisions of identifiers are validation errors,
\* and generated code compiles.
GeneratedCodeCompiles == Done => OneDeclarationEach /\ ReferencesResolve
===============================================================================
