-------------------------------- MODULE Ddl ---------------------------------
(***************************************************************************)
(* internal/ddl: Emit writes the initial migration of a validated schema -- *)
(* all tables, then all foreign keys, then all indexes -- and Postgres     *)
(* (external) executes it, one statement at a time.                        *)
(*                                                                         *)
(* A name is the sequence of the words between its underscores, so that    *)
(* joining two names is ambiguous exactly where it is in the text; Limit   *)
(* is the longest name Postgres keeps, in words.                           *)
(***************************************************************************)
EXTENDS Naturals, Sequences, FiniteSets, SequencesExt, SeqFilter

CONSTANTS
    Word,           \* the words of names
    Schemas,        \* accepted schemas: sequences of entities, sorted by name
    Limit,          \* maxIdentifierBytes
    Hash(_),        \* a word; 48 bits or more of FNV-1a
    Fold(_),        \* what Postgres makes of a word that is not quoted
    MaxSalt         \* bounds the salts that one index name can need

ASSUME WordAssumption == "idx" \in Word

Name == Seq(Word)

\* What Parse and Validate guarantee of an entity (module Schema).
AcceptedEntity(e, s) ==
    /\ e.table \in Name /\ e.columns \in Seq(Name)
    /\ \A j, k \in DOMAIN e.columns : e.columns[j] = e.columns[k] => j = k
    /\ e.pk \in DOMAIN e.columns /\ e.unique \cup e.enums \subseteq DOMAIN e.columns
    /\ e.sort \in Seq(DOMAIN e.columns) /\ e.sort # << >>
    /\ Last(e.sort) \in {e.pk} \cup e.unique
    /\ e.filters \in Seq(DOMAIN e.columns)
    /\ e.indexes \in Seq(Seq(ToSet(e.filters)))
    /\ \A ix \in ToSet(e.indexes) : \A j, k \in DOMAIN ix : ix[j] = ix[k] => j = k
    /\ e.relations \in Seq([column : DOMAIN e.columns, target : DOMAIN s])

ASSUME AcceptedSchemas ==
    \A s \in Schemas :
        /\ s \in Seq(ToSet(s)) /\ s # << >>
        /\ \A i, j \in DOMAIN s : s[i].table = s[j].table => i = j
        /\ \A e \in ToSet(s) : AcceptedEntity(e, s)

ASSUME LimitAssumption == Limit \in Nat \ {0}

VARIABLES
    schema,
    at, list,       \* the next entity, and the next of its index column lists
    names,          \* emitter.names: the CREATE INDEX names so far
    file,           \* the statements written
    tables,         \* Postgres: table -> [columns, keys, constraints]
    relnames,       \* Postgres: the names of tables and indexes, one namespace
    done, refused,  \* statements executed, and why the next one was not
    pc

emitter == <<schema, at, list, names, file>>
db == <<tables, relnames, done, refused>>
vars == <<emitter, db, pc>>

Init ==
    /\ schema \in Schemas
    /\ at = 1 /\ list = 1 /\ names = {} /\ file = << >>
    /\ tables = << >> /\ relnames = {} /\ done = 0 /\ refused = "nothing"
    /\ pc = "tables"

-----------------------------------------------------------------------------
(* Names *)

\* Mutant: long names are left to Postgres.
Unfitted(name) == name

FitName(name) ==
    IF Len(name) <= Limit THEN name
    ELSE Append(SubSeq(name, 1, Limit - 1), Hash(name))

Column(e, k) == e.columns[k]

ColumnNames(e, cols) == [j \in DOMAIN cols |-> Column(e, cols[j])]

Joined(e, cols) == e.table \o FlattenSeq(ColumnNames(e, cols))

IndexText(e, cols) == Append(Joined(e, cols), "idx")

\* What is hashed into the name when it was taken n times before.
Salted(e, cols, n) == <<n, IndexText(e, cols), ColumnNames(e, cols)>>

\* The names tried one after the other.
FullName(e, cols, n) ==
    IF n = 0 THEN IndexText(e, cols)
    ELSE Append(IndexText(e, cols), Hash(Salted(e, cols, n - 1)))

Candidate(e, cols, n) == FitName(FullName(e, cols, n))

\* Mutant: the name is emitted without a look at the earlier ones.
PlainIndexName(e, cols) == Candidate(e, cols, 0)

IndexName(e, cols) ==
    LET free(n) == Candidate(e, cols, n) \notin names
    IN  Candidate(e, cols, CHOOSE n \in 0..MaxSalt : free(n) /\ \A m \in 0..(n - 1) : ~free(m))

-----------------------------------------------------------------------------
(* The three passes of Emit *)

TableStmt(e) ==
    [op |-> "table", table |-> e.table, columns |-> ToSet(e.columns),
     pkey |-> FitName(Append(e.table, "pkey")), pk |-> Column(e, e.pk),
     keys |-> {<<FitName(Append(Joined(e, <<k>>), "key")), Column(e, k)>> : k \in e.unique \ {e.pk}},
     checks |-> {FitName(Append(Joined(e, <<k>>), "check")) : k \in e.enums}]

ForeignKeyStmt(e, r) ==
    [op |-> "fkey", table |-> e.table, name |-> FitName(Append(Joined(e, <<r.column>>), "fkey")),
     column |-> Column(e, r.column), target |-> schema[r.target].table,
     key |-> Column(schema[r.target], schema[r.target].pk)]

ForeignKeys(e) == [j \in DOMAIN e.relations |-> ForeignKeyStmt(e, e.relations[j])]

\* Mutant: each table is followed by its foreign keys at once.
EmitTableAndKeys ==
    /\ pc = "tables" /\ at <= Len(schema)
    /\ file' = Append(file, TableStmt(schema[at])) \o ForeignKeys(schema[at])
    /\ at' = at + 1
    /\ UNCHANGED <<schema, list, names, db, pc>>

EmitTable ==
    /\ pc = "tables" /\ at <= Len(schema)
    /\ file' = Append(file, TableStmt(schema[at]))
    /\ at' = at + 1
    /\ UNCHANGED <<schema, list, names, db, pc>>

EmitForeignKeys ==
    /\ pc = "keys" /\ at <= Len(schema)
    /\ file' = file \o ForeignKeys(schema[at])
    /\ at' = at + 1
    /\ UNCHANGED <<schema, list, names, db, pc>>

PrefixWithSortKeys(prefix, sort) ==
    prefix \o Outside(sort, ToSet(prefix))

IndexColumnLists(e) ==
    [j \in DOMAIN e.filters |-> PrefixWithSortKeys(<<e.filters[j]>>, e.sort)]
    \o <<e.sort>>
    \o [j \in DOMAIN e.indexes |-> PrefixWithSortKeys(e.indexes[j], e.sort)]

\* The places of the lists of a schema.
Positions(s) == UNION {{i} \X DOMAIN IndexColumnLists(s[i]) : i \in DOMAIN s}

\* No name needs more salts than there are other names.
ASSUME MaxSaltAssumption ==
    MaxSalt \in Nat /\ \A s \in Schemas : Cardinality(Positions(s)) <= MaxSalt

\* No two of the hashes tried for one index are equal.
ASSUME HashAssumption ==
    \A e \in UNION {ToSet(s) : s \in Schemas} :
        \A cols \in ToSet(IndexColumnLists(e)) :
            \A n, m \in 0..MaxSalt :
                /\ {Hash(Salted(e, cols, n)), Hash(FullName(e, cols, n))} \subseteq Word \ {"idx"}
                /\ n # m => /\ Hash(Salted(e, cols, n)) # Hash(Salted(e, cols, m))
                            /\ Hash(FullName(e, cols, n)) # Hash(FullName(e, cols, m))

\* Mutant: lists are compared as sets.
SeenInAnyOrder(e, j) ==
    LET cols == IndexColumnLists(e)[j] IN
    \/ cols = <<e.pk>>
    \/ \E i \in 1..(j - 1) : ToSet(IndexColumnLists(e)[i]) = ToSet(cols)

\* Seen before in this entity, or the primary key's own index.
Redundant(e, j) ==
    LET cols == IndexColumnLists(e)[j] IN
    \/ cols = <<e.pk>>
    \/ \E i \in 1..(j - 1) : IndexColumnLists(e)[i] = cols

IndexStmt(e, cols) ==
    [op |-> "index", table |-> e.table, name |-> IndexName(e, cols),
     columns |-> ColumnNames(e, cols)]

EmitIndex ==
    LET e == schema[at]
        stmt == IndexStmt(e, IndexColumnLists(e)[list])
    IN  /\ pc = "indexes" /\ at <= Len(schema) /\ list <= Len(IndexColumnLists(e))
        /\ IF Redundant(e, list) THEN UNCHANGED <<names, file>>
           ELSE /\ names' = names \cup {stmt.name}
                /\ file' = Append(file, stmt)
        /\ list' = list + 1
        /\ UNCHANGED <<schema, at, db, pc>>

NextEntity ==
    /\ pc = "indexes" /\ at <= Len(schema) /\ list > Len(IndexColumnLists(schema[at]))
    /\ at' = at + 1 /\ list' = 1
    /\ UNCHANGED <<schema, names, file, db, pc>>

NextPass ==
    /\ pc \in {"tables", "keys", "indexes"} /\ at > Len(schema)
    /\ at' = 1
    /\ pc' = CASE pc = "tables" -> "keys" [] pc = "keys" -> "indexes" [] OTHER -> "apply"
    /\ UNCHANGED <<schema, list, names, file, db>>

-----------------------------------------------------------------------------
(* Postgres.  A quoted identifier (tables and columns) is kept as written, *)
(* one that is not (constraints and indexes) is folded first; both are cut *)
(* at the limit.  An index of any kind takes a name next to the tables', a *)
(* constraint takes one in its own table.                                  *)

Quoted(name) == SubSeq(name, 1, IF Len(name) < Limit THEN Len(name) ELSE Limit)

Plain(name) == Quoted([j \in DOMAIN name |-> Fold(name[j])])

Constraints(s) == {s.pkey} \cup {k[1] : k \in s.keys} \cup s.checks

\* The relations a statement creates.
Makes(s) ==
    CASE s.op = "table" -> {Quoted(s.table), Plain(s.pkey)} \cup {Plain(k[1]) : k \in s.keys}
      [] s.op = "index" -> {Plain(s.name)}
      [] OTHER -> {}

Has(table, column) ==
    Quoted(table) \in DOMAIN tables /\ Quoted(column) \in tables[Quoted(table)].columns

Missing(s) ==
    \/ s.op = "index" /\ \E c \in ToSet(s.columns) : ~Has(s.table, c)
    \/ s.op = "fkey" /\ ~( /\ Has(s.table, s.column) /\ Has(s.target, s.key)
                           /\ Quoted(s.key) \in tables[Quoted(s.target)].keys)

\* Two names of the statement that Postgres takes for one.
Merges(S, Keep(_)) == \E x, y \in S : x # y /\ Keep(x) = Keep(y)

Taken(s) ==
    \/ Makes(s) \cap relnames # {}
    \/ s.op = "table" /\ \/ Merges(s.columns, Quoted)
                         \/ Merges(Constraints(s), Plain)
                         \/ Quoted(s.table) \in {Plain(c) : c \in {s.pkey} \cup {k[1] : k \in s.keys}}
    \/ s.op = "fkey" /\ Plain(s.name) \in tables[Quoted(s.table)].constraints

\* What the table is once the statement is executed.
TableOf(s) ==
    [columns |-> {Quoted(c) : c \in s.columns},
     keys |-> {Quoted(s.pk)} \cup {Quoted(k[2]) : k \in s.keys},
     constraints |-> {Plain(c) : c \in Constraints(s)}]

Updated(s) ==
    CASE s.op = "table" ->
             [t \in DOMAIN tables \cup {Quoted(s.table)} |->
                 IF t = Quoted(s.table) THEN TableOf(s) ELSE tables[t]]
      [] s.op = "fkey" -> [tables EXCEPT ![Quoted(s.table)].constraints = @ \cup {Plain(s.name)}]
      [] OTHER -> tables

Execute ==
    LET s == file[done + 1] IN
    /\ pc = "apply" /\ done < Len(file) /\ ~Missing(s) /\ ~Taken(s)
    /\ tables' = Updated(s)
    /\ relnames' = relnames \cup Makes(s)
    /\ done' = done + 1
    /\ UNCHANGED <<emitter, refused, pc>>

Refuse ==
    LET s == file[done + 1] IN
    /\ pc = "apply" /\ done < Len(file) /\ (Missing(s) \/ Taken(s))
    /\ refused' = IF Missing(s) THEN "missing" ELSE "name taken"
    /\ pc' = "refused"
    /\ UNCHANGED <<emitter, tables, relnames, done>>

Next ==
    \/ EmitTable \/ EmitForeignKeys \/ EmitIndex \/ NextEntity \/ NextPass
    \/ Execute \/ Refuse

Spec == Init /\ [][Next]_vars

-----------------------------------------------------------------------------
(* Properties *)

Written == pc \in {"apply", "refused"}

Indexes == {j \in DOMAIN file : file[j].op = "index"}

TypeOK ==
    /\ schema # << >>
    /\ at \in 1..(Len(schema) + 1) /\ list \in Nat \ {0}
    /\ names = {file[j].name : j \in Indexes}
    /\ \A n \in names : Len(n) <= Limit
    /\ done \in 0..Len(file)
    /\ refused \in {"nothing", "missing", "name taken"}
    /\ pc \in {"tables", "keys", "indexes", "apply", "refused"}

\* ddl.go: the file is correct for any acyclic or cyclic schema: whatever
\* refers to whatever, no statement names a table, column or key that no
\* earlier one has created.
NothingMissing == refused # "missing"

\* No two CREATE INDEX statements of the migration have one name, although
\* joining the names of tables and columns is ambiguous and long names are cut.
IndexNamesDistinct == \A i, j \in Indexes : file[i].name = file[j].name => i = j

\* The equality columns that have an index by declaration: none, one filter, or
\* the filters of a declared index.
Lookups(e) == {{}} \cup {{f} : f \in ToSet(e.filters)} \cup {ToSet(e.indexes[j]) : j \in DOMAIN e.indexes}

\* The columns of the indexes a table has: its primary key's, those of its
\* UNIQUE constraints and those the file creates.
IndexesOf(e) ==
    {<<Column(e, e.pk)>>} \cup {<<Column(e, k)>> : k \in e.unique}
    \cup {file[j].columns : j \in {j \in Indexes : file[j].table = e.table}}

\* An index finds the rows with given values of the columns eq and yields them
\* in order: first those columns, then exactly the sort keys left.
Seeks(e, eq) ==
    LET left == Outside(e.sort, eq) IN
    \E ix \in IndexesOf(e) :
        /\ Len(ix) = Cardinality(eq) + Len(left)
        /\ {ix[j] : j \in 1..Cardinality(eq)} = {Column(e, k) : k \in eq}
        /\ \A j \in DOMAIN left : ix[Cardinality(eq) + j] = Column(e, left[j])

\* Spec 7.2: the unfiltered list, each filter and each declared combination is
\* sought by an index on all of its columns; a request that combines filters in
\* any other way is sought on one of them, the rest being tested row by row.
\* And no two CREATE INDEX of a table have the same columns, nor one those of
\* the primary key.  (One may have the column of a UNIQUE constraint.)
SeeksAreServed ==
    Written =>
        /\ \A e \in ToSet(schema) :
               /\ \A eq \in Lookups(e) : Seeks(e, eq)
               /\ \A asked \in SUBSET ToSet(e.filters) :
                      \E eq \in SUBSET asked : (asked # {} => eq # {}) /\ Seeks(e, eq)
        /\ \A i, j \in Indexes :
               i # j /\ file[i].table = file[j].table => file[i].columns # file[j].columns
        /\ \A j \in Indexes : \A e \in ToSet(schema) :
               file[j].table = e.table => file[j].columns # <<Column(e, e.pk)>>

-----------------------------------------------------------------------------
(* What the repository says and the code does not do *)

\* ddl.go: names are kept unique within what Postgres can hold.
NamesNeverTaken == refused # "name taken"
=============================================================================
