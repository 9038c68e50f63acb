------------------------------ MODULE MCGenerate ------------------------------
(* The schema files of MCSchema and those that tell the generator's own    *)
(* decisions apart: every type, every set of endpoints, derived names.     *)
EXTENDS Generate, MCSchema

MCDigitFirst == {"1"}

Operations == {<<"list">>, <<"create", "get">>, <<"update">>, <<"delete">>, <<"create", "update", "delete">>}

Scalar == {"uuid", "string", "text", "int", "bigint", "float", "decimal", "bool", "timestamp", "date", "json"}

Typed(keys) ==
    {<<[Ent("post", <<Field("id", k, {"pk"}), Field("a", t, {}), To("author", {}, "post", "RESTRICT")>>)
        EXCEPT !.endpoints = ops]>> : k \in keys, t \in Scalar, ops \in Operations}

EnumKeyed ==
    {<<[Ent("post", <<EnumField(key, {"pk"}, <<"a", "b">>)>>) EXCEPT !.endpoints = ops],
       Ent("task", IF fk THEN <<Id, To("author", {}, "post", "RESTRICT")>> ELSE <<Id>>)>> :
        key \in {"id", "hooks"}, ops \in Operations, fk \in BOOLEAN}

\* Two entities whose own, derived and fixed names may meet.
Derived ==
    {<<[Ent(n, <<Id, f>>) EXCEPT !.endpoints = o], [Ent(m, <<Id>>) EXCEPT !.endpoints = p]>> :
        n \in {"article", "foo", "post", "_1"},
        m \in {"article_create_input", "noop_foo", "optional", "Optional", "error", "_1"},
        f \in {Field("a", "int", {}), Field("_1", "int", {}), EnumField("create_input", {}, <<"a">>)},
        o \in Operations, p \in Operations}

\* Two entities of one name are one key of the YAML mapping twice.
MCGenDocs ==
    MCDocs \cup Typed(Scalar) \cup EnumKeyed \cup
    {d \in Derived : d[1].name # d[2].name}
===============================================================================
