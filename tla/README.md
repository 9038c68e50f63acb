# A TLA+ verification of lapigo

lapigo is a command-line generator: it reads one YAML schema file and writes a
Go HTTP server, its SQL migration and a lock file that remembers what it wrote.
This directory holds a formal model of it: what is modelled, what TLC checks on
small instances, and what the TLA+ proof system proves for all of them.

The code is under `src/internal`; all paths below are relative to it.
`PROJECT.json` names, for every definition that models code, the lines it
models, and lists the runs, the mutants, the findings and the hazards.

## 1. The system

| Component | Code | State it keeps | Operations |
|---|---|---|---|
| Parser and resolver | `parse/` | the document, the entities built so far, the pending relations and references, the diagnostics | `Parse`: build each entity, check tables, sort, resolve relations (a fixed point), resolve sorts, filters and indexes |
| IR and Freeze | `ir/` | the schema: entities, fields, relations, pointers between them | `Freeze` (self-check), `Lookup`, sort eligibility, which fields an input type has |
| Validation | `validate/` | the diagnostics | `Validate`: sorts, filters, indexes, relations, Go names, reserved names |
| DDL emission | `ddl/` | the text, the index names used | `Emit`: tables, then foreign keys, then indexes |
| Render half of gen | `gen/gen.go`, `plan.go`, `hooks.go`, ... | none | `Generate`: schema to a map from path to file content |
| Write half of gen | `gen/write.go` | `internal/gen`, `.lapigo-staging`, `.lapigo-old` | `Write`: `Recover`, check, stage, swap, save the lock |
| Lock file | `gen/lock.go` | `.lapigo.lock`, its `.tmp` | `LoadLock`, `Save`, `DecideEmittedOnce` |
| Suggestions | `parse/suggest.go` | two rows of a table | `suggest`: the known key nearest to an unknown one |
| Diagnostics | `diag/` | the accumulated diagnostics | `CheckNoTabs`, `Add`, `Render`: scan, sort, draw each on its line |
| SQL safety | `sqlsafety/` | none | a checker for tests, not part of the program |

How they interact: every part is called in turn, in one goroutine, and hands its
result to the next: `Parse` -> `Freeze` -> `Validate` -> `Generate` and `Emit`
-> `Write`. The first parts share data by pointer (a foreign-key field is built
early and gets its type late), the last one shares files with whoever else uses
the project directory: an editor, a shell, an earlier run that died.

What is hard, and where it is answered:

- A run that dies, or whose file-system call fails, at any step between two
  renames, with a user who edits meanwhile: `GenWrite`.
- Resolution order. A belongsTo column takes the type of a key that may itself
  be a belongsTo column declared later, in another entity, or on a cycle:
  `Relations`.
- Agreement of separate rule books: the resolver's diagnostics, Freeze's
  assertions and the validator's rules are written in three packages and must
  together keep bad schemas out, for reasons that bite only in the generated
  server (pagination, NOT NULL, Go names): `Schema`.
- Agreement of separate accounts of one thing: the imports `plan.go` computes and
  the types `ir` prints, the table of declarations in `names.go` and the
  templates, and the names of a schema and what is derived from them: `Generate`.
- A lock that many runs rewrite and any of them may leave half saved, and a
  decision about the migration that is taken from it: `Lock`.
- Three parts that count lines and columns by themselves (the tab scanner, the
  YAML library, the renderer) and have to mean the same place: `Report`. A
  table computed in two rows that change places: `Suggest`.
- A file whose statements depend on each other and on what Postgres does with a
  name: `Ddl`.

What makes each component correct:

- Write half: whatever happens, the tree one can see or recover is a complete
  generation; a hand-written file is never lost without consent; the lock is
  whole, and right after a success; every run returns.
- Resolver: the outcome does not depend on the order of declaration; only what
  cannot be resolved is reported; what it lets through, Freeze accepts.
- Validation: an accepted schema paginates without skipping a row, gives no two of
  the names it compares to two things, and creates no row with a NOT NULL column unfilled.
- Render half: a file imports and declares what it uses; a schema that was
  accepted is rendered in full or not at all; the input types keep the promises
  of the fields' flags.
- Lock file: what was saved can be read, as the same entries; the migration is
  judged by what was emitted for it.
- Diagnostics: the caret stands under what is blamed; the report does not depend
  on the order problems are found in; the hint is the nearest word.
- DDL: the migration can be applied, and every list the API serves has its index.

## 2. Modules

| Module | Models | Lines |
|---|---|---|
| `GenPublish` | the promise of `Write`, abstractly: a tree published in one step, then recorded | 61 |
| `GenWrite` | `write.go` and the part of `lock.go` it drives, step by step | 565 |
| `GenWriteProofs` | theorems about `GenWrite`, and that it implements `GenPublish` | 649 |
| `Lock` | `lock.go`: the codec, `Save`, `DecideEmittedOnce`, over many runs | 279 |
| `LockProofs` | theorems about `Lock` | 756 |
| `Relations` | `resolvePendingRelations` | 245 |
| `RelationsProofs` | theorems about `Relations` | 801 |
| `Schema` | `Parse`, `Freeze` and `Validate` of one schema file | 514 |
| `SchemaProofs` | theorems about `Schema` | 2325 |
| `Generate` | extends `Schema` with `Generate`: plan, templates, formatter | 355 |
| `GenerateProofs` | extends `SchemaProofs` with theorems about `Generate` | 3836 |
| `Ddl` | `Emit`, and Postgres executing what it wrote | 331 |
| `DdlProofs` | theorems about `Ddl` | 1884 |
| `Suggest` | `suggest` and `levenshtein` | 158 |
| `Report` | extends `Suggest` with the tab scan, the unknown keys and `Render` | 293 |
| `ReportProofs` | theorems about `Suggest` and `Report` | 3333 |
| `SeqFilter` | what a loop that skips some elements of a slice leaves of it | 12 |
| `DataLemmas` | lemmas about sequences, sets and numbers that the proofs share | 805 |
| `MCGenWrite`, `MCLock`, `MCRelations`, `MCSchema`, `MCGenerate`, `MCDdl`, `MCReport` | the instances TLC checks | |

### GenWrite

`gen`, `old` and `staging` are the three directories, each a function from path
to content or absent; `lock` and `tmp` are the generated entries of the lock and
of its temporary file; `pc`, `call` and `genExisted` are the running `Write` and
its locals. One action is one file-system call that another process could see
the effect of, in the order of the code: `Recover` (restore, drop a stale
`.lapigo-old` file by file, sweep staging), `checkGenerated` (`Conflict` is its
table, row by row), `stageFiles` (a file is open and half-written, `Torn`, before
it is complete), `swap` (aside, into place, roll back, drop) and `Lock.Save`. Each
call may fail (`Fault`); the process may die between any two (`Crash`); the user may save
or delete a file, remove the tree, or delete the lock at any time. `touched`,
`pub` and `dirty` are history variables that only the properties read.

The reading of the files by `checkGenerated` is one step: what a user does while
it runs is indistinguishable from what he does right after it. Files are staged
in any order, a superset of the code's sorted one. A checksum is the content it
was computed from. A version with blanks, which `marshal` refuses after the swap,
is a flag of the call.

`GenPublish` is what is left when all that is hidden: the tree changes by
`Publish` of a complete generation, the lock by `Record` of the one published,
and all else is counted as an act of the user. The mapping takes as the visible
tree `internal/gen`, or `.lapigo-old` while it stands in for it. `Resurface` is
the honest exception: a tree that `Write` failed to remove can come back after
the user removed `internal/gen` (see the findings).

### Lock

The file is the sequence of its entry lines, `<<kind, digest, path>>`; a line
that the parser refuses by itself is `Junk`, and a file whose first two lines are
wrong is `Garbled`. A run loads the lock (`Load`), replaces the generated entries
(`Refresh`, the end of `Write`), saves (`OpenTmp`, `Fill`, `Rename`), decides about
the migration (`Decide`) and, when told to write, creates it, enters it and saves
again (`Emit`). No code under `src` calls `DecideEmittedOnce` yet; the order of the
caller's steps is the one its result asks for and `Save` allows. `CutOff` ends a
run at any step, with any part of the temporary file written. The user changes the
schema, the migration, and, between runs, the lock, by hand or by a merge.
`recorded`, `emitted` and `ours` are history: what was emitted for the migration
as far as a rename has made it durable, what this run emitted, and whether lapigo
wrote the lock last.

White space in a path is not modelled (generated paths are made of identifiers);
in a version it is what `Spaced` says. `GenWrite` has the generated entries of the
same file beside the trees they describe; `Lock` has every kind of line and no tree.

### Relations

A relation and its foreign-key field are one value; an entity's key is a scalar
type, missing, or one of its own relations. `remaining`, `at` and `deferred` are
the loop's slices and index; `ftype` is `Field.Type`, with the placeholder `UUID`
at first; `goType` is `Relation.GoType`. `Defer`, `ResolveUnnamed`,
`ResolveUnknown` and `ResolveTarget` are the branches of one visit; `NextPass`,
`ReportCycle` and `Finish` the end of a pass. `Ends` is an independent reference:
a relation is grounded when following keys comes to an end.

### Schema

`doc` is the schema file. `BuildEntity` is the first pass for one entity;
`CheckTablesAndSort`, `ResolveRelations` and `ResolveReferences` the second;
`Return` is `Parse`'s exit through `Freeze`; `Validate` runs all the rules. Every
rule of every pass is an operator that returns the names of the rules broken;
`diags` collects them, since the code never stops at the first. A Go name is the
sequence of its words, so that two different pairs of names can join into one
identifier, as they do in the text. Entities and fields are referred to by index,
where the code has pointers; 0 is nil.

`ResolveRelations` is atomic here and uses the final types (`KeyTypes`); that the
loop computes them is what `Relations` shows. Left out: messages about the shape
of the YAML (a list where a mapping belongs), unknown keys except on a belongsTo,
positions (and so Freeze's test that a target has one, `freeze.go:128`), the range of
`max`, the literals of defaults. A list in which an
error was reported is kept whole, because the schema is dropped anyway.

### Generate

An accepted schema (`pc = "accepted"`) is planned in one step, `PlanFiles`: the
list of files, each with a path and the imports computed for it. `RenderFile`
renders and formats the head of the list; `GiveUp` is any of the early returns.
A rendered file is what the compiler would look at: imports, declarations
`<<name, origin>>`, references `<<package, name>>`, and the members of the two input
types with their presence. Each `Render...` operator is one template. The formatter
resolves nothing (`FormatOnly`), so all it can refuse is text that does not parse:
a declaration without a name, or a name that begins with a digit.

`PredictedModel` and `PredictedHooks` are `declarationSet`, the hand-written table
that `names_test.go` compares with the output for its fixtures. Names on the side
of the properties (`ModelNames`, `HooksNames`) come from the schema file alone.

### Suggest and Report

`Suggest` has the two loops cell by cell. `Rows`, `Cell` and `Swap` are
`levenshtein`, whose two rows keep stale values as the slices do; `Compare` and
`Return` are `suggest`. `Distance` is a constant with the recurrence of the edit
distance as an assumption; the instance gives it by matchings of the two words,
with no recurrence, and TLC checks the assumption for every pair.

`Report` scans the text rune by rune (`ScanBreak`, `ScanTab`, `ScanOther`), lets the
YAML library find the keys (`Keys`, external: maximal runs of letters and where
they stand), looks each one up in the vocabulary of its mapping in any order,
appends diagnostics, and renders. A block is the line shown, sanitised, and the two
columns between which the caret stands. There is one file; header and hint text and
the width of the gutter are left out. What other checks say is `Blame`, at the
place of a key. Its hint is left out with reason: `sorted` does not compare hints, but two
complaints with one message at one place have the same one. `RawLines` cuts the text where `LineStarts` says lines begin, which is what
`splitRawLines` collects in `start`; `Sorted` puts each element at its rank in the order
of `sorted`, equals in the order they came, which is what a stable sort does.

### Ddl

The first three values of `pc` are the three loops of `Emit`. A name is the sequence of
its underscore-separated words and `Limit` is the longest Postgres keeps, so that
joining is ambiguous and cutting loses information exactly as in the text. The
database is external: quoted names (tables, columns) are kept, unquoted ones
(constraints, indexes) folded; primary keys, unique constraints and indexes take
names in the namespace of the tables. A hash is injective.
The schemas it is given are assumed to have what `Schema` shows of accepted ones
(`AcceptedSchemas`).

## 3. What the runs check

Every property below has a mutant in `PROJECT.json`: a plausible bug in the code
under which TLC reports the property violated.

| Run | Instance | Properties |
|---|---|---|
| `write` | 2 paths, 2 generations that add, remove and change a file; 2 crashes, 1 failing call, 1 user action | `TypeOK`, `WholeGeneration`, `EditsSurvive`, `LockWhole`, `SuccessRecorded`, `PublishesAtomically`, `RunEnds`, `TreeReturns` |
| `lock` | 1 generated path and the migration, 2 digests, a version that cannot be written; 2 runs cut off, 3 acts of the user | `TypeOK`, `SavedIsReadable`, `LinesSurvive`, `VerdictFromHistory` |
| `relations` | 3 entities, 1 relation each, every key, target and order | `TypeOK`, `NoPlaceholderCopied`, `OnlyStuckReported`, `GroundedResolved`, `Terminates` |
| `pipeline` | 16,683 schema files: ten families and the empty one | of `Schema`: `TypeOK`, `FreezeNeverFails`, `ForeignKeysMatch`, `KeysetSafe`, `NotNullHolds`, `MovesAreWarned`, `NamesDistinct`; of `Generate`: `GenTypeOK`, `ImportsExact`, `DeclaredAsPredicted`, `FailsOnlyFor`, `CompilesUnless`, `InputsHonourFlags` |
| `ddl` | two tables with ambiguous and long names, every mix of filters, sorts, indexes, unique columns and foreign keys | `TypeOK`, `NothingMissing`, `IndexNamesDistinct`, `SeeksAreServed` |
| `report` | every text of up to 4 runes, and up to 6 of tabs and line breaks, with and without a byte-order mark; 3 vocabularies, 2 other complaints | `ReportTypeOK`, `TabsUnderlined`, `KeysUnderlined`, `OrderForgotten`, `DistanceIsLeast`, `ClosestNamed` |

What they show:

- `WholeGeneration`: unless the user changed it, what can be seen or recovered is
  the generation last swapped in. `EditsSurvive`: a hand-written file present
  when the check ran survives the run, unless `--force` gave it up.
  `LockWhole`, `SuccessRecorded`: the lock is never half-written, and describes
  the tree after a success. `PublishesAtomically`: the refinement of `GenPublish`.
- `RunEnds`, `TreeReturns`: a run returns or dies; a tree stranded by a crash or
  a failed rollback comes back.
- `GroundedResolved`: what is resolved depends on the schema alone, not on any
  order. `Terminates`: the fixed point is reached.
- `FreezeNeverFails`: nothing the resolver passes fails the self-check that
  blames lapigo. `ForeignKeysMatch`: a column has the type of the key it refers to.
  `KeysetSafe`: the sort of an accepted entity is a strict order of rows on
  columns that are never NULL. `NotNullHolds`: each NOT NULL column has a source
  for its first value (the server is taken to set keys and versions), and no ON DELETE
  clears one. `MovesAreWarned`: if a request can move a row
  under a cursor, the author was told. `NamesDistinct`: of the names Validate
  compares (structs, enum types and constants; tables; the columns and members of an
  entity, relations included; endpoints) no two are the same. The names derived from
  these are `CompilesUnless`'s matter.
- `ImportsExact`: a file imports exactly the packages it names. `DeclaredAsPredicted`:
  the table of `names.go` is the output, for every mix of endpoints and enums.
  `FailsOnlyFor`: an accepted schema is rendered, except for an entity that has the
  name of a fixed file, a relation to an enum key, or a name that exports to a digit.
  `CompilesUnless`: what is rendered has one declaration for each name and a
  declaration for each reference, except when the schema's names derive one identifier
  twice or a delete hook takes an enum key whose type package hooks does not happen to
  have. `InputsHonourFlags`: a create request
  carries each column that must be given, an update none its author called fixed.
- `SavedIsReadable`: whatever was cut off, the lock lapigo wrote last can be read.
  `LinesSurvive`: across crashes and merges, no run drops or changes what the lock says
  of the migration, except to enter its own emission, and none replaces a lock that it
  could not read whole. `VerdictFromHistory`: the decision about the migration
  is the design spec's table, asked of what was emitted last.
- `TabsUnderlined`, `KeysUnderlined`: the caret is under the first tab, or under the
  whole key, on the line that holds it, for each kind of line break. `OrderForgotten`:
  the report is the same for every order of discovery. `DistanceIsLeast`,
  `ClosestNamed`: the table holds the edit distance, and the hint is the first of the
  closest words.
- `NothingMissing`: no statement refers to something not yet created, cyclic
  references included. `IndexNamesDistinct`: no two CREATE INDEX have one name.
  `SeeksAreServed`: the unfiltered list, each filter and each declared combination has an
  index (a CREATE INDEX, or that of the key or of a UNIQUE constraint) that finds and
  orders its rows; any other combination of filters has one for at least one of them
  (7.2 of the core design: seek on one, test the rest); no CREATE INDEX repeats another
  of its table or the primary key's.

### Bounds

- Two paths are enough for each row of the conflict table to hold for one file
  and fail for the other. Two generations give a change, an addition and a
  removal. Two crashes are needed to die again during recovery; one fault at a time, since a second failing
  call after a return is a new run. The bounds on crashes, faults and edits are
  guards (`MaxCrash`, `MaxFault`, `MaxEdit`). A second user action (2, 1 and 2:
  1,820,655 states, an edit and then the loss of the lock) was checked as well, with
  the same properties; the run keeps to one for its time, and the proofs hold for any.
- Three relations give every shape of key graph that matters: chains longer than
  a pass, self-loops, two-cycles, a three-cycle, a tail into a cycle, and every
  order of each.
- The families of `MCSchema` vary one concern each (sorts, flags, filters and
  indexes, keys and chains of keys, foreign-key flags, names, endpoints), with
  values on both sides of each rule, so that every rule rejects some file and
  accepts others.
- The families of `MCGenerate` add every scalar type as key and as column with every
  kind of endpoint list, enum keys with and without a relation to them (one of them called `hooks`, whose type
  has the name of its entity's hooks interface), and pairs of entities whose names meet as such, derived, or with a fixed declaration.
- In `lock`, two digests tell an entry that moved from one that did not; two cut-off
  runs leave a stale temporary file for the next; three acts of the user change
  the schema, remove the migration and merge the lock in one behaviour.
- In `report`, four runes hold two lines with a key on each, or a key after every
  kind of line break; six tabs and breaks hold three offending lines, one more than
  `MaxTabs`. Keys of up to four runes are within, at and beyond the threshold.
- `Limit = 4` words makes some names fit exactly, some one over, and some
  ambiguous. Of the unique columns, one is a sort key by itself and one has a name that
  Postgres folds; every combination of up to three of four filters is tried with none, one
  or two declared combinations.

### Fairness

`GenWrite!FairSpec` has weak fairness of the running process (a
scheduled process takes its next call) and of `Call` (somebody runs the
tool again, without which no recovery can happen). Nothing is assumed of the user,
crashes or failures, whose number is bounded. `Relations!FairSpec` has weak fairness
of the only goroutine. The other modules claim no liveness: their programs are
loops over finite lists.

Deadlock is not checked where the program ends: after the verdict or the last file
(`Schema`, `Generate`), at the end of the migration (`Ddl`), of the report (`Report`)
and of the loop (`Relations`). In `GenWrite` and `Lock` a new run can always start,
and it is checked.

## 4. What the proofs show

Each proof module has the same argument: an inductive invariant, shown
to hold initially and to be kept by each action, from which the properties follow.
Everything is proved for all values of the constants under the assumptions named,
which TLC evaluates for the instances of the runs.

`GenWriteProofs`, for any paths, contents, generations and bounds:

- `TypeCorrect`, `GenerationNeverLost`, `HandEditsNeverLost`, `LockAlwaysWhole`,
  `SuccessIsRecorded`: the invariants of run `write`.
- `Refinement`: `Spec => PublishesAtomically`.
- `IInv` adds to the properties what a run holds at each step: staging is the
  complete generation when the swap begins and the temporary lock when it is
  renamed (`RunShape`); after the swap the run's files are the published
  generation and only the user can have removed them (`AfterSwap`); a tree is
  "cleaned" only while it is gone (`CleanedShape`). The conjunction
  is not inductive without them: for instance, `WholeGeneration` survives the removal of
  `.lapigo-old` only because `internal/gen` is known to be there.
- Assumptions: hand-written and generated contents are different, the markers
  for absent and torn files are none of them (`ContentAssumption`,
  `GenerationsAssumption`, `SentinelAssumption`), bounds are numbers.

`RelationsProofs`, for any finite set of relations, any entities, keys and orders:

- `TypeCorrect`, `PlaceholderNeverCopied`, `ReportIsExact` and `OutcomeIsGrounded`.
- `IInv` adds that what is unresolved is still queued (`UnresolvedQueued`), that
  as long as everything in the pass was deferred all of it still waits
  (`AllDeferredWait`: nothing was resolved since, so the early ones did not become
  ready), and that no cycle is reported before the end (`CycleSaidLast`). Together
  they make a pass that resolved nothing the proof that nothing can be resolved.
- `OutcomeIsGrounded` compares the loop with `Ends`, which follows keys and knows of no
  order. `ResolvedInOrder`, the last part of `IInv`, numbers the resolved
  relations so that each comes after the one its key leads to: by induction over that number
  a resolved relation ends, and within as many steps as there are relations; by induction
  over the steps a relation that ends is resolved, or would not have been left waiting.

`LockProofs`, for any paths, digests, merges and bounds:

- `RoundTrip`: `Readable(Marshal(e))` and `Parse(Marshal(e)) = e` for any entries.
- `TypeCorrect`, `SavesAreReadable`, `LinesAlwaysSurvive`, `VerdictsFromHistory`.
- `IInv` says what the history means for the lock in memory and on disk: the entry of
  the migration in a readable lock that lapigo may load is the digest `recorded`, the
  lock in memory has the same until `Emit` changes it, and the temporary file is
  the marshalled lock when it is renamed, and what it says of the migration is what the
  replaced file says until `Emit` (`RunInv`). The verdict then follows from the history
  because `Refresh` leaves the entry alone and a cut-off run leaves the file alone.
- Assumptions: the migration is no generated path; the lines of a set are sorted
  into a sequence that has each once; what a merge makes of the migration's line
  keeps its kind.

`ReportProofs`, for any words, vocabularies and threshold:

- `SuggestTypeCorrect`, `LoopComputesDistance` and `SuggestsClosest`. `SuggestInv` says
  that below the cell at hand the current row, and everywhere the previous one, hold the
  distances of the prefixes (the stale part of the current row is never read), and that
  `best` is the closest of the candidates seen.
- Assumptions: Go's `<` is a strict total order of the words, and `Distance` obeys
  its recurrence; TLC evaluates both in run `report`, the latter against matchings.

and for any texts, complaints and limit on the lines reported:

- `ReportAsksSuggest`: `ReportSpec => Spec`, each step of the diagnostics being a step of
  `suggest` or none, so what is proved of `suggest` holds of the composition.
- `ReportTypeCorrect`, `TabsUnderlinedRight`, `KeysUnderlinedRight`, `OrderIsForgotten`.
- `RInv` (theorem `ReportInvariant`) has three parts. `Placed`: the scanner's line and column
  are those of the rune it stands at in the renderer's division of the text. `Tallied`: of the tabs
  behind the scanner, and of no others, each line's number and first one are tallied, in
  the order of the lines. `Phases`: what is accumulated is the summary of that tally, or one
  diagnostic for a key, of which at most one says that the key is unknown. The properties
  speak only of the finished report and are far from inductive: that a caret stands right
  needs the place of every rune scanned before.
- Three divisions of the text have to agree, and each is related to `LineStarts`, where the lines
  begin: the scanner's steps by `ScanBreakStep` and `WithinLine`, the parser's places by
  `PlaceFacts`, and the renderer's lines, which drop an empty last one, by `RawFacts`. An empty last
  line holds neither tab nor key, so it is never asked for.
- `OrderIsForgotten`: `Sorted` gives each diagnostic the place that its rank says
  (`SortedFacts`), ranks do not depend on where an element was, and elements of one rank are
  equal (`TiesAreOne`), which is what fails when the order compares too little. That holds
  because the message is compared last and no other check has the message of an unknown key.
- Assumptions: a text is a sequence, no letter breaks a line, tab and the two breaks differ
  (`TextAssumption`); messages are numbered from 1, as 0 is that of an unknown key
  (`MessageAssumption`).

`DdlProofs`, for any accepted schemas, words, limit and hash:

- `TypeCorrect`, `MigrationInOrder`, `IndexNamesNeverMeet`, `SeeksServed`.
- `IInv` says what the file has so far: a table for each entity passed and no other,
  all of them before the first foreign key (`TablesFirst`); an index for each list passed,
  under a name recorded in the table of names (`NamesKept`, `PastServed`), at most one for a
  list (`NoneTwice`); and that the database is what the statements up to here make
  of an empty one (`Applied`). That a free name is always found is a count: the salts are
  more than the other indexes, and each salt gives a name of its own.
- Assumptions: accepted schemas have what `SchemaProofs` shows of them (`AcceptedSchemas`);
  different salts of one index hash differently and to no word `idx` (`HashAssumption`:
  without it the loop of `indexName` need not end); `MaxSalt` bounds the
  number of indexes of a schema.

`SchemaProofs`, for any set of schema files and any names:

- `TypeCorrect`, `FreezeSucceeds`, `ForeignKeysTyped`, `KeysetSound`,
  `NotNullColumnsFilled`, `MovesWarned`, `NamesNeverClash`.
- `IInv` (theorem `Invariant`) describes the entities after each pass in terms of the
  document (`Shape`, `RelationsHold`, `ReferencesHold`), says that an entity is missing or
  unresolved only if a diagnostic says so (`Complete`), and which rules of the
  validator a schema without diagnostics obeys (`Judged`, `Passed`). It is what carries the
  rule books of three packages to the point where a property needs two of them: for
  instance, that a sort key is never NULL needs the validator's rule about nullable
  fields, and the resolver's that the reference points at a field of this entity.
- Assumptions: a mapping has no key twice (`DocsAssumption`: goccy refuses it); the
  byte order is total (`RankAssumption`); what `goName` finds in a name is a sequence
  of words (`GoNameAssumption`).

`GenerateProofs`, for the same schema files:

- `ImplementsSchema`: `GenSpec => Spec`, so all that is proved of `Schema` holds here.
- `GenTypeCorrect`, `ImportsAreExact`, `InputsAsFlagged`, `FailuresExplained`,
  `PredictionHolds`, `CompilesUnlessNamed`.
- `GInv` (theorem `GenInvariant`) is `IInv` with `Stages` (nothing is kept of a run that gave
  up, and it gave up because of a planned file) and `Underway` (each planned file is
  either still in the list or in the map, whole, under a path of its own). The rest of the
  argument is about the templates: what each declares and refers to, and
  which two names can meet. The accounts are compared as sets of words:
  a name is split at its last word, as a reader of the text would.
- The attempt to prove `CompilesUnless` failed, rightly, for an entity with an enum key called
  `hooks`: the unqualified type is then, by accident, the name of the hooks interface, and
  the reference has a declaration. The property said that it had none; it was corrected,
  and the schema is now among those of run `pipeline`.
- Assumptions: the words the templates put in front of a name begin with no digit
  (`DigitAssumption`), and no Go name has a dot (`WordAssumption`).

`DataLemmas` has what these proofs share. The provers cannot use an induction theorem that
takes a predicate as a parameter, so an induction is stated of a set of numbers
(`NatByInduction`, from the least number not in it), and a recursive function is first
shown to exist, being the largest of its prefixes (`OutsideExists`, `FlattenExists`). For the
same reason filtered sequences are `Outside(s, X)` of `SeqFilter` and not
`SelectSeq`, whose second argument is an operator.

Only model-checked: liveness (`RunEnds`, `TreeReturns`, `Terminates`), since the provers
handle neither fairness nor ENABLED, and that the assumptions on the constants hold of the
instances. Every other property of the passing runs is a theorem.

## 5. Findings

Each is a run that is expected to fail, with a property that states what the
repository says.

- `write_stale_lock`: of a generated entry, "its checksum is the file as written" and "a
  mismatch means a hand edit is about to be destroyed" (`lock.go:43`). A process that
  dies after the swap and before the lock is saved leaves the checksums of the run
  before: the next run takes lapigo's own file for a hand edit and stops, or, if the
  file has no entry yet, stops on it even under `--force`. A version that `marshal`
  refuses leaves the same state without a crash.
- `write_revived`: "a leftover .lapigo-old is cosmetic" (`write.go:212`). When it
  could not be removed, and the user then removes `internal/gen`, `Recover` takes
  the leftover for an interrupted swap, restores it, and the run stops on it.
- `write_race`: "never to delete their work" (the core design, section 5.5). A file
  saved between the check and the first rename is put aside and deleted.
- `schema_enum`: a foreign key to an enum key gets the type enum but no enum Go
  name; two of them are rejected as both producing the identifier `""`
  (`validate/names.go:183`).
- `ddl_names`: index and constraint names are not quoted, so Postgres folds their
  case, and it keeps key and unique constraints with the indexes, where `indexName`
  does not look. Tables `a` and `A` are accepted and their migration is refused.
- `generate_names`: collisions "are validation errors with a position" and "generated
  code compiles" (the core design, 5.6 and 8). The validator compares the names of
  entities, enum types and constants and nothing derived from them: an entity
  `Optional`, or `article` beside `article_create_input`, is accepted, and the package
  declares a name twice. `CompilesUnless` has the exact list, with the delete hook of
  an enum key, whose type `hooks.go:70` prints without its package; when that key is
  called `hooks`, the name printed is by accident one that package hooks declares.

Seen and not made a run: an accepted entity called `optional` (or `error`, with a write
endpoint) makes two templates claim one path, which `gen.go:98` calls a generator bug,
and an entity called `_1`, whose Go name is `1`, fails in the formatter without a position,
though "a leading digit" is the resolver's or the validator's to reject
(`parse/names.go:117`; the core design, 5.6). `FailsOnlyFor` names both.
`emitter.indexes` skips the primary key's index only (`ddl.go:216`): a sort by one column
marked `unique` gets a CREATE INDEX beside the constraint's own. The summary of `CheckNoTabs` ("and N more line(s)") is
called final (`diag/tabs.go:26`) and is the last diagnostic returned, but it has no position
and so is the first one rendered. `OnlyStuckReported` is exact about who is reported
in a cycle of keys; the message says "is part of a cycle" (`relation.go:217`), also to
a relation that only leads to one.

## 6. Not modelled

- The text of templates and messages, quoting, comments and struct tags; the YAML
  parser and `go/format`, external libraries of which only the verdict is used.
- SQL, wire and default-literal tables: one value per type, which no other rule reads.
- `sqlsafety`: a pure checker the tests apply to SQL text.
- Names as characters: the 63-byte limit on a derived column or table name, file names
  such as `x_test.go` or two that differ only in case. Names here are words, and
  a property about bytes would restate the check that is missing.
- Two writers in one directory: nothing in the code excludes them and nothing in the
  repository says what should hold.
- The generated server: its store and handlers are not in the source yet, so lost
  updates and version checks have no code to be held to.
- Paths with exotic white space in the lock, where `strings.Fields` splits at more
  than `marshal` refuses: paths are made of identifiers, so none occurs.
