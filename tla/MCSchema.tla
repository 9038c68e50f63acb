------------------------------ MODULE MCSchema ------------------------------
(* Families of small schema files, each around one part of the pipeline.   *)
EXTENDS Schema, TLC

\* In the byte order.
ByBytes == <<"Author", "Optional", "_1", "___", "a", "a-b", "article", "article_create_input",
             "author", "author_id", "b", "create_input", "error", "foo", "ghost", "hooks", "id", "j", "limit",
             "noop_foo", "optional", "post", "posts", "state", "state_x", "task", "task_state", "tasks",
             "validate", "x_y", "y">>

MCRank == [n \in ToSet(ByBytes) |-> CHOOSE i \in DOMAIN ByBytes : ByBytes[i] = n]

MCIdentifier == Name \ {"a-b"}

MCGoName ==
    [n \in Name |->
        CASE n = "id" -> <<"ID">>
          [] n = "author_id" -> <<"Author", "ID">>
          [] n \in {"author", "Author"} -> <<"Author">>
          [] n = "validate" -> <<"Validate">>
          [] n = "state" -> <<"State">>
          [] n = "state_x" -> <<"State", "X">>
          [] n = "x_y" -> <<"X", "Y">>
          [] n = "y" -> <<"Y">>
          [] n = "task" -> <<"Task">>
          [] n = "task_state" -> <<"Task", "State">>
          [] n = "a-b" -> <<"A", "B">>
          [] n = "___" -> << >>
          [] n \in {"optional", "Optional"} -> <<"Optional">>
          [] n = "error" -> <<"Error">>
          [] n = "article_create_input" -> <<"article", "Create", "Input">>
          [] n = "create_input" -> <<"Create", "Input">>
          [] n = "noop_foo" -> <<"Noop", "foo">>
          [] n = "hooks" -> <<"Hooks">>
          [] n = "_1" -> <<"1">>
          [] OTHER -> <<n>>]

MCFKColumn == [n \in Name |-> n \o "_id"]
MCDefaultTable == [n \in Name |-> n \o "s"]
UpTo(n, S) == UNION {[1..k -> S] : k \in 0..n}

Field(n, t, fl) == [name |-> n, type |-> t, flags |-> fl, values |-> << >>,
                    target |-> Absent, onDelete |-> "RESTRICT"]
EnumField(n, fl, vs) == [Field(n, "enum", fl) EXCEPT !.values = vs]
To(n, fl, t, od) == [Field(n, "belongsTo", fl) EXCEPT !.target = t, !.onDelete = od]
Id == Field("id", "uuid", {"pk"})

Ent(n, fs) == [name |-> n, table |-> Absent, fields |-> fs, sort |-> Absent,
               filters |-> << >>, indexes |-> << >>, endpoints |-> Absent]

Signed == {"id", "a", "ghost"} \X BOOLEAN

\* Each family takes its bound as an argument.
Sorted(len) ==
    {<<[Ent("post", <<Field("a", t, fl), Id>>) EXCEPT !.sort = s]>> :
        t \in {"int", "decimal", "json"}, fl \in SUBSET {"required", "unique", "default", "immutable", "readonly"},
        s \in {Absent} \cup UpTo(len, Signed)}

Flagged(types) ==
    {<<Ent("post", <<Field("a", t, fl), Field("b", "bigint", gl)>>)>> :
        t \in types, fl \in SUBSET {"pk", "version", "required", "readonly", "default"},
        gl \in SUBSET {"pk", "version", "required", "readonly"}}

Filtered(len) ==
    {<<[Ent("post", <<Id, Field("a", "int", {}), Field("limit", "string", {"max"}), To("author", {}, "post", "RESTRICT"), Field("j", "json", {})>>)
            EXCEPT !.filters = fs, !.indexes = ix]>> :
        fs \in UpTo(len, {"a", "limit", "author", "j", "ghost"}), ix \in UpTo(len, UpTo(len, {"a", "author"}))}

Key == {Id, Field("id", "int", {"pk"}), Field("j", "json", {"pk"}), EnumField("id", {"pk"}, <<"a">>)}
       \cup {To("id", {"pk"}, t, "RESTRICT") : t \in {"post", "task", "ghost", Absent}}
       \cup {Field("a", "int", {})}

Related(keys) ==
    {<<Ent("task", <<k1>>),
       [Ent("post", <<To("author", fl, t, od), k2>>) EXCEPT !.sort = s],
       Ent("task_state", <<To("author", {}, "task", "CASCADE"), k3>>)>> :
        k1 \in keys, k2 \in keys, k3 \in {Id, To("id", {"pk"}, "post", "RESTRICT")},
        fl \in {{}, {"required"}, {"required", "unique"}},
        t \in {"post", "task"}, od \in {"RESTRICT", "SET NULL"},
        s \in {Absent, <<<<"author", FALSE>>>>}}

\* Foreign keys with the flags that do not depend on where they lead.
Owned ==
    {<<Ent("post", <<Id, To("author", fl, "post", "RESTRICT")>>)>> :
        fl \in SUBSET {"required", "readonly", "immutable", "version", "default"}}

Member ==
    {Field(n, "int", {"required"}) : n \in {"Author", "author_id", "validate", "a-b", "___", "b"}}
    \cup {To("author", {}, "post", "RESTRICT"), To("author", {}, "post", "unknown"),
          Field("a", "unknown", {}), Field("b", "int", {"max"}),
          [Field("b", "int", {}) EXCEPT !.target = "post"], [Field("b", "int", {}) EXCEPT !.onDelete = "CASCADE"],
          [Field("b", "int", {}) EXCEPT !.values = <<"y">>],
          EnumField("state", {}, <<"x_y">>), EnumField("state", {}, <<"y", "y">>), EnumField("state", {}, <<"___">>),
          EnumField("state_x", {}, <<"y">>), EnumField("state_x", {}, << >>)}

Named(members) ==
    {<<[Ent("post", <<Id>>) EXCEPT !.table = t],
       [Ent("task", <<Id>> \o m) EXCEPT !.table = u],
       Ent(n, <<Id>>)>> :
        t \in {Absent, "tasks"}, u \in {Absent, "posts", "a-b"},
        m \in {p \in members \X members : p[1].name # p[2].name},
        n \in {"task_state", "a-b"}}

Routed ==
    {<<[Ent("task", <<Id>>) EXCEPT !.endpoints = ep]>> :
        ep \in UpTo(3, {"list", "get", "update", "unknown"})}

MCDocs ==
    Sorted(2) \cup Flagged({"int", "uuid"}) \cup Filtered(2) \cup
    Related(Key) \cup Owned \cup Named(Member) \cup Routed \cup {<< >>}
=============================================================================
