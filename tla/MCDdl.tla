------------------------------- MODULE MCDdl --------------------------------
EXTENDS Ddl, TLC

MCWord == STRING

MCHash(v) == "#" \o ToString(v)

MCFold(w) == CASE w = "D" -> "d" [] w = "A" -> "a" [] OTHER -> w

\* Two tables and columns whose joined names are ambiguous, too long for the
\* limit, or one name to Postgres.
Columns == <<<<"id">>, <<"b">>, <<"c">>, <<"b", "c">>, <<"D">>>>

UpTo(n, S) == UNION {[1..k -> S] : k \in 0..n}

NoRepeat(s) == \A j, k \in DOMAIN s : s[j] = s[k] => j = k

To(c, t) == [column |-> c, target |-> t]

First ==
    {[table |-> <<"a">>, columns |-> Columns, pk |-> 1, unique |-> u, enums |-> {5},
      sort |-> s, filters |-> f, indexes |-> ix, relations |-> r] :
        u \in {{}, {2}, {4, 5}}, s \in {<<1>>, <<2, 1>>, <<4>>},
        f \in {g \in UpTo(3, {1, 2, 3, 4}) : NoRepeat(g)},
        ix \in {<< >>, <<<<2, 3>>>>, <<<<3, 2>>, <<2, 3>>>>},
        r \in {<< >>, <<To(3, 2)>>, <<To(2, 1), To(3, 2)>>}}

Second(ts) ==
    {[table |-> t, columns |-> <<<<"id">>, <<"c">>>>, pk |-> 1, unique |-> u, enums |-> {},
      sort |-> s, filters |-> f, indexes |-> << >>, relations |-> <<To(2, 1)>>] :
        t \in ts, u \in {{}, {2}}, s \in {<<1>>, <<2, 1>>}, f \in {<< >>, <<2>>}}

Valid(e) ==
    /\ \A j \in DOMAIN e.indexes : ToSet(e.indexes[j]) \subseteq ToSet(e.filters)
    /\ Last(e.sort) \in {e.pk} \cup e.unique

MCSchemas == {<<e, d>> : e \in {x \in First : Valid(x)}, d \in Second({<<"a", "b">>, <<"A">>})}
=============================================================================
