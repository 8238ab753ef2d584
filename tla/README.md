# dryft in TLA+

dryft turns a Prisma schema into versioned SQL migrations for PostgreSQL without
connecting to a database: `dryft migration create` rebuilds the previous schema
by replaying the Up sections of the migration files it wrote before, diffs it
with the Prisma file, orders the operations, refuses destructive ones unless it
is told `--allow-destructive`, and writes one more file with an Up and a Down
section. goose applies the files. The tool also pulls a database into a Prisma
file (`dryft db pull`).

Everything therefore hangs on one claim that no unit test states: *what the
generator writes, the builder reads back, PostgreSQL accepts, and all three mean
the same schema*, at every point of a long sequence of edits, refused runs,
rollbacks and migrations. That claim is what the modules below check.

## 1. The system

| Component | Source | State it keeps | Operations | Talks to |
|---|---|---|---|---|
| Schema representation | `internal/schema` | none; values: tables, columns, types, defaults, keys, indexes, enums | constructors, `Validate` | every other part |
| Differ | `internal/diff/differ.go`, `normalize.go`, `operation.go` | none (pure) | `Diff(before, after, hints)` gives a list of operations | called by `migration create` |
| Planner | `internal/diff/planner.go` | a graph per call, which never gets an edge | `Plan`: order by priority, collect the destructive ones | called by `migration create` |
| SQL generator | `internal/sql/postgres` | none | `Generate`: Up statements in plan order, Down statements in reverse order | its text is the only memory between two runs |
| Migration parser | `internal/migration/parser.go`, `type_mapping.go` | none | statements from text | feeds the builder |
| Schema builder | `internal/migration/builder.go` | a schema under construction | `Apply(statement)`, `Build` | called by the loader |
| Files and loader | `internal/migration/loader.go`, `goose.go` | the migrations directory | list, sort, replay Up; name and format a file | read and written by `migration create`, read by goose |
| `migration create` | `internal/cli/migration.go` | none between runs | one run: read, replay, diff, plan, gate, generate, write | all of the above |
| Prisma lexer, parser, converter | `internal/prisma` | cursors | text to schema | `migration create`, `validate` |
| Prisma writer | `internal/prisma/writer.go`, `relations.go`, `naming.go`, `format.go` | none | schema to text | `db pull` |
| Introspection | `internal/introspect/postgres` | a connection pool | a schema from the catalog, one query per aspect and table | `db pull` |
| Configuration, `init`, `validate`, `db pull` | `internal/config`, `internal/cli` | the configuration and Prisma files | load, check, write | the file system |
| PostgreSQL and goose | outside the repository | catalog, list of applied files | up one file, down one file, each in one transaction | read the migration files |

How they interact: `migration create` is sequential, and nothing it calls keeps
state from one run to the next; the parts are coupled through *files*. The
Prisma file is edited by a developer at any time, the migrations directory is
appended to by runs, and goose moves a database up and down that directory with
no one telling the tool. The tool's picture of the database is only ever the
replay of its own output.

What is hard:

* **Reading back one's own writing.** Generator, parser, builder and PostgreSQL
  are four interpretations of the same statements, written separately.
* **Interleaving and staleness.** Edits, runs, and goose up and down overlap; a
  run works with a Prisma file that may have changed since it read it.
* **Order.** The plan is built by iterating over Go maps and sorted by priority
  alone with an unstable sort; any order of equal priorities may come out, and
  has to work in both directions.
* **Partial failure.** A plan mixes safe and destructive operations, and the
  gate judges operations while the database sees SQL.
* **Convergence.** Two runs with nothing in between must come to rest.
* **Files.** One-second resolution of names, creation in place, two developers.
* **Text.** The history is text that the tool cuts up again by searching for
  names, counting parentheses and splitting at blanks.
* **A moving catalog.** `db pull` puts a schema together from queries that do not
  share a transaction, and asks some of them while the rows of another are open.
* **Error recovery.** The Prisma parser goes on after an error, so every error
  path has to record it, to advance, and to lose nothing.

What makes each component correct:

* *Differ*: its answer is empty exactly when nothing that matters differs.
* *Planner*: any order it may return can be executed; what is lossy is in
  `Destructive`.
* *Generator*: executing the Up section of a plan takes the old schema to the
  new one; executing Down takes it back, or the file carries a warning.
* *Parser and builder*: replaying a file does to the rebuilt schema what
  executing it does to the database.
* *`migration create`*: one file per accepted run, for the schema the run read,
  none without the flag if anything is lost; a second run has nothing to do.
* *The loop*: the database reaches what the developer wrote.
* *Files*: what a run answers is true of the directory, whatever happened to the
  files before.
* *Prisma parser*: it stops, and what it accepts it has read.
* *Introspection, writer and converter*: a pull gives a file that reads back as
  the database, or an error and the old file.

`PROJECT.json` lists the hazards behind these, each at its line, with the
properties that would catch it.

## 2. The modules

```
SchemaIR                the schema representation as values
  Differ                Diff, rename hints, normalisation of defaults
    Planner             priorities, destructive levels
      Generator         Up and Down statements of each operation
        SchemaBuilder   a statement read back and applied to the rebuilt schema
          MigrationCreate   the command: edits, runs, replay, gate, files
          Postgres          the same statement executed on a catalog (external)
            MigrationLoop   MigrationCreate with goose and PostgreSQL
          ReplayableSchemas   which schemas a history of can be read back
            MigratableSchemas   and which of those a database can be migrated to
SchemaEvolution         the abstract specification; MigrationCreate and
                        MigrationLoop implement it
SqlParser               the text of a migration, written and read back
MigrationFiles          the directory under overlapping runs, faults and clocks
PrismaParser            lexer and parser of the Prisma file
PrismaWriter            naming, relations and writer: a schema as a document
  PrismaConverter       a document back to a schema
    DatabasePull        db pull: connect, introspect, validate, write
MC*                     instances for TLC
*_proofs                theorems
```

| Module | Models | How it corresponds |
|---|---|---|
| `SchemaIR` | `schema.go`, `column.go`, `constraint.go`, `index.go`, `types.go` | A schema is a record of two functions, tables by name and enums by name, `Absent` where there is none. A table has columns, primary key, unique sets, indexes, foreign keys. The names of the primary key and unique constraints, comments, precision and scale are left out. |
| `Differ` | `Differ.Diff` and everything it calls | One operator per method of the code. Sets of operations: the code ranges over maps, so their order carries nothing. |
| `Planner` | `planner.go`, `IsDestructive` | `First(todo)` is the set of operations that may come next: those of the lowest priority, any of them. |
| `Generator` | `generator.go`, `mapping.go` | `GenerateOperation(op)` and `GenerateReverseOperation(op)` are sequences of statements; a statement is a record with the fields its text carries. Defaults are *formatted*, which is where a sequence default loses its text. Generated names are tuples of words. |
| `SchemaBuilder` | `parser.go`, `builder.go`, `type_mapping.go` | `Applied(stmt, schema)` is the set of schemas the builder may end in: empty for an error, several where it takes the first hit in a Go map. What the parser loses or changes is part of it: call parentheses after `SET DEFAULT`, double precision, statements with no case. |
| `MigrationCreate` | `cli/migration.go`, `loader.go`, `goose.go` | `Start` reads the Prisma file; `ReplayStatement`, `ReplayError`, `NextFile` are the loader; `NoChanges`, `Refuse`, `Proceed` are the three ways out of the gate; `Generate(op)` extends both sections by one operation; `WriteFile` writes them. `Edit` is the developer. |
| `Postgres` | external: statements as the end-to-end tests (`tests/e2e_roundtrip_test.go`) expect the server to take them | `Executed(stmt, catalog)`: the catalog afterwards, or none if the server refuses; `Execute(stmts, catalog)` for a section. Dropping a column drops indexes and constraints on it; types, labels, tables and columns must exist; a type change needs an assignment cast. |
| `ReplayableSchemas`, `MigratableSchemas` | what `generator.go`, `parser.go`, `builder.go` and `differ.go` are known to lose or not to compare | Predicates on a set of schemas, one part for each loss; the hypotheses of the theorems, of which TLC says for which sets of schemas they are true. |
| `MigrationLoop` | goose with the two above | `GooseUp` and `GooseDown` execute one section as one transaction. `clean` is a ghost: false once a file that carries an irreversible warning was rolled back. |
| `SqlParser` | `generator.go`, `mapping.go` (quoting), `goose.go`, `loader.go` and `parser.go` at the level of text | A text is a sequence of symbols: keywords, words of a name, numerals, punctuation, blanks. `Spell` writes a statement; `StatementEnd`, `tokenize`, `extractParentheses`, `splitByComma` and the `parse*` operators take it apart as the code does, with the quotes, parentheses and searches they heed or ignore; errors the builder makes of a statement whatever the schema (`mapSQLType`, `ALTER TYPE`, an action without a case) are part of them. `ReadStatement` takes the next statement off the file, `ReadEnd` is the end of it. |
| `MigrationFiles` | `loader.go`, `goose.go`, `cli/migration.go` from listing the directory to `os.WriteFile` | Each run of `Runs` is a process: it lists the names, reads file after file, replays, answers or names its file by the clock, creates it empty and fills it. What a plan holds is abstracted to tables that come and go. `ShortWrite` is a full disk, `Kill` the end of the process at any point, and `Read` lets the clock stand still or go back. `stale` is a ghost: another run wrote since this one read the names. |
| `PrismaParser` | `lexer.go`, `token.go`, `parser.go` of `internal/prisma` | The recursive descent as a machine: `stack` holds the parse functions under way, each action is what one of them does with the current token, `Accept`, `Skip` and `Error` are `nextToken` and `addError`. The syntax tree is abstracted to the tokens that went into it. |
| `PrismaWriter` | `naming.go`, `relations.go`, `writer.go`, `schema/mapping.go` | A document is a set of enums and models with fields. Names keep their text, as chunks, because everything there is about names that meet. `WriteFails` collects the errors of `Write`. |
| `PrismaConverter` | `converter.go` | One operator per method. `Accepted(doc)`: the parser and the converter take the document; `Converted(doc)`: the schema. |
| `DatabasePull` | `cli/db.go`, `internal/introspect/postgres` | One action per query, in the order of `IntrospectTable`, and per step of `cmdDbPull`. `held` counts the connections out of the pool; the rows of the columns keep theirs while `IsEnumType` and `DetectSequence` need another. `Change` is another session that commits. |
| `SchemaEvolution` | the promise: README "Workflow", `docs/prd.md` | A wish, a draft taken from it, a log of versions that only grows, a database at a position of the log. |

Design decisions a reader should know:

* **Text is abstracted to statements,** except in `SqlParser`. The modules of the
  migration loop never spell SQL; what the parser does to a statement of the
  generator is stated there as a function of the statement, and `SqlParser`
  says for which statements that function is what the text gives. Statements
  only a person would write are not modelled.
* **Names are words in one module and text in another.** Only `PrismaWriter`,
  `PrismaConverter`, `DatabasePull` and `SqlParser` look inside a name.
* **A refused or failed command is an exit**, recorded in `exit`; `job` goes back
  to `Idle` and nothing is written, as in the code's early returns.
* **Reading the Prisma file is atomic, the run is not.** The code reads it once
  with one call; edits interleave with every later step.
* **Nondeterminism in the code stays nondeterminism**: plan order and map
  iteration in the builder are sets of outcomes.
* **Ghosts** exist for properties only, and no guard reads them: `desired` and
  `allowed` in a file record, `clean` in `MigrationLoop`, `stale` in
  `MigrationFiles`, `changed` in `DatabasePull`.
* **Panics are outcomes.** A string that ends the Prisma file after a backslash
  makes the lexer slice past its input; the status is then `panicked`.

## 3. What is model-checked

The runs of the migration loop check deadlock too: from any state some edit, run
or goose step is possible, also in a history that cannot be read back. The
runs `prisma_parser`, `pull`, `files` and `sql_parser` do not, since what they
model really stops: a parser at the end of its text, a command when it is done.
That it stops, and not before, is what `ParserStops` and `PullEnds` are about.

| Run | Question | Properties |
|---|---|---|
| `create_typical` | Does the command alone keep its promises? | `TypeOK`, `JobGated`, `DestructiveGated`, `SecondRunIsQuiet`, `NotNullGated`, `AuthoringSpec` |
| `loop` | With goose moving up and down at any time, does the database go from one wanted schema to the next, is every file accepted and undone, and is the offline picture the database's? | `UpAccepted`, `DownRestores`, `HistoryIsCatalog`, `AppliedIsWanted`, `NoHiddenDrift`, `HistoryLoads`, `EvolutionSpec` |
| `loop_rich` | Up to the point where the history cannot be read back (foreign keys, enum labels, double precision), do the files still work? | `DestructiveGated`, `UpAccepted`, `DownRestores` |
| `loop_forward` | Does the database end up as the developer's last edit? | `RoundTrip` |
| `evolution` | Is the abstract specification sane? | `TypeOK`, `LiveIsVersion`, `LogOnlyGrows` |
| `sql_parser` | Which files lose statements to an open quote, which statements survive being written as text and read back, and which make the history unreadable? | `TypeOK`, `EachAlone`, `ReadBack`, `RefusalsAreKnown` |
| `files` | Do overlapping runs, torn files and a clock that goes back make a run say something false? | `TypeOK`, `ReadIsDir`, `AnswerIsTrue` |
| `prisma_parser` | Does the parser stop on every text, and is what it accepts what it was given? | `TypeOK`, `AcceptedIsKept`, `AcceptedIsBalanced`, `WholeFileAccepted`, `ParserStops` |
| `pull` | Do introspection, naming, writer, parser and converter fit together, under failures and a catalog that moves? | `TypeOK`, `PulledIsView`, `ReadIsSnapshot`, `ForeignKeysKept`, `PoolSuffices`, `FileGuarded`, `PullEnds` |

The properties in words:

* `SecondRunIsQuiet`: after a run wrote a file for a schema, a later run that
  reads the same schema finds nothing to do. It relates differ, generator,
  parser and builder over the whole history.
* `HistoryIsCatalog`: what is rebuilt offline equals the catalog of a database
  that was given all files.
* `EvolutionSpec`, `AuthoringSpec`: refinements of `SchemaEvolution`. The mapping
  takes the log to be the schemas that the runs read, the draft to be the
  schema of the run in progress, and the live schema to be the catalog, seen
  through `View` (what the differ compares), or unknown after an irreversible
  file was rolled back.
* `DestructiveGated` is about SQL, the gate about operations: the two are
  connected by `JobGated`.
* `DownRestores`: rolling back a file without a warning restores the catalog to
  the letter, index names included.
* `NoHiddenDrift`, `AppliedIsWanted`: `Meaning` compares everything, keys,
  uniqueness, referential actions and defaults included, and not only what the
  differ looks at.
* `EachAlone`: as long as the statements of a file close their quotes, each is read as
  it is when it is alone there, and the file is refused at the first one that is an
  error alone: no semicolon in a string, no quoted name and no other statement moves
  the place where the loader ends one. The condition is needed, and about the code:
  the converter puts the text of a string default between apostrophes without
  doubling those within, so `@default("it's")` is written `'it's'`, which leaves a
  string open, and the loader takes the statements behind it for a part of it. The
  files of the run hold such defaults too, and `ReadBack` says that whenever one
  opens a string in a statement that is not the last, the file is not read back.
* `ReadBack`: a file whose strings are well quoted is read back as it was written *if
  and only if* each of its statements is `Readable`. The definition of `Readable` is
  the result. It says of a default what a parser that takes one token and one group
  of parentheses can keep: there is no blank outside of quotes and parentheses, and
  it breaks into tokens at most once (`Breaks`). `lower(a)` and `(now() + 9)` are
  kept, `lower(trim(a))` loses what follows its inner group, `now()::date` its cast,
  `(9 + 9)` its parentheses, and `SET DEFAULT` keeps no call at all. A type of two
  words loses the second, one with brackets after its parentheses the brackets.
  Everything else survives: commas, semicolons, quotes of the other kind and keywords
  inside strings and names, and no statement disturbs the one after it.
* `RefusalsAreKnown` says which of the losses stop the command: `ADD CONSTRAINT`,
  `DROP CONSTRAINT` and `ADD VALUE`, for which the builder has no case; `DOUBLE`,
  which `mapSQLType` does not know; an index over a column that holds the name of its
  table; an enum without labels or called `as`; a column of `CREATE TABLE` that begins
  like a constraint; a parenthesis a string leaves open. The others go unnoticed, a
  column called exactly `check` or `unique` among them: it is read as a constraint
  over no columns.
* `AnswerIsTrue`: if goose accepts the directory, "no changes" and a file that was
  written both mean that the directory makes of an empty database what the run
  read in the Prisma file. Torn and overwritten files need no exception: the
  replay reads them as they are, and the run repairs what they lack. Exceptions
  are a run during which another one wrote, and a file whose name does not sort
  last.
* `AcceptedIsKept`: each symbol of an accepted file, up to where the parser
  stopped, went into the tree or is a comment. It fails as soon as one of the
  parser's dozen error paths forgets `addError`.
* `PulledIsView`: a pull during which the catalog stood still writes a file that
  the parser and the converter accept and that stands for `View` of the catalog:
  what Prisma has words for. A narrower type is read back wider, a unique index
  over several columns is lost, enums take the names of their blocks; `Plain`
  excludes the names and defaults the file cannot carry, `Kept` being the part of it
  on defaults. An index over an expression is read without columns and pulled as one.
* `ReadIsSnapshot`: the queries of a pull run one by one outside of a transaction,
  and columns may ask further ones between two rows. If no other session commits
  meanwhile they still add up to the catalog: every table and column, the index of
  a unique constraint read once and not twice.
* `ForeignKeysKept`: also when tables come and go between the queries, a key that
  was read has both its relation fields in the file, or there is no file.

### Bounds

`MaxEdits` and `MaxFiles` bound the edits and the length of the history; runs
that write nothing are not counted. The schemas a developer may write
(`Desired`) are a hand-picked set per run: TLC explores every path through them,
so a set of n schemas gives every ordered pair as one migration, and with two or
three edits every chain of three or four. `TypicalSchemas` (8 schemas)
together make the differ produce every operation it can produce without
foreign keys and label changes: a table comes and goes; a column comes, widens,
loses its nullability, gains a literal and an expression default, and goes; a
named and an unnamed index, one over two columns; an enum with an index on its
column. `RichSchemas` adds foreign keys, labels and double precision.
Two tables, three columns and one enum are enough because no code relates more
than two tables (a foreign key) or two columns of one (an index). Three or four
files are enough for a file to depend on two before it (created, altered,
dropped, created again), which is the longest dependency the builder has: it
keeps no trace of a dropped object other than the enum it forgets to drop, and
that case (drop and recreate a table with an enum) occurs within three files.
`MaxLog` of the abstract run is 3.

`create_typical` takes three edits among `TypicalSchemas` and one schema with a
foreign key, so that runs that cannot read the history are among its behaviours; `loop_forward` takes two edits
among `TypicalSchemas`; `loop` takes three edits among the five schemas of `ShortSchemas`, which
keep one of each kind of change, because rollbacks multiply its states.

`sql_parser`: 2 700 files, of one statement or two. Every kind of statement with names
that are reserved, capitalized, keywords of the parser (`on`, `to`, `add`, `as`), are
or begin like a constraint, or hold another name; every shape of type; as defaults all
strings of up to two symbols (`StringLength`) among a word, an apostrophe, parentheses,
a semicolon, a comma and a blank, all expressions of up to four (`ExpressionLength`), and
longer ones by hand: casts, calls in calls, calls in parentheses; two columns with and
without keys; and pairs, the first of which may hold a semicolon, an apostrophe or an
unclosed parenthesis. Two symbols are enough to open a string and end a statement or
close a group in it; an expression needs three to hold a group and a fourth to have
something before or behind it. That pairs are enough for any file is proved
(`EachAloneHolds`). Words are whole: a name inside a longer word, as `user` in `users`,
is represented by a name inside a longer name.

`files`: two runs at a time, three in all, two tables, two names, three seconds
(`MaxTime` = 2), one fault (`MaxFaults`: the clock goes back or the disk is
full), and kills without a bound. Two files with one version, one overwritten
and one sorted before an older one need no more; two faults only combine what
one does to a directory that may already be in any order.

`prisma_parser`: three files, which between them take every path of the parser
that does not end in an error, and every text that is one of them with one
symbol left out, replaced, put in, or cut off after it: about four thousand.
One wrong symbol reaches every error path; the functions keep no count, so a
second one meets the parser in a state a shorter text reaches too.

`pull`: twelve databases, among them keys over two columns, a key into its own
table, two keys between one pair of tables, a key over `type_id`, an index over an
expression, defaults the writer cuts short, names the writer refuses and names
the lookups do not find; pools of one and two (`PoolSizes`), one change by
another session (`MaxChanges`), two pulls (`MaxPulls`), so that the second meets
the file the first has torn. One change is enough to separate any two queries;
a nested query needs two connections, so two is the largest pool that matters.

### Fairness

`ForwardSpec` is about a developer who has stopped rolling back and, once the
bound on edits is reached or earlier, stops editing. It assumes

* `WF(Run)`: a run that started is a sequential program and goes on;
* `SF(Start(TRUE))`: someone again and again runs the command with the flag.
  It has to be strong, because starting is disabled while another run, perhaps
  without the flag, is in progress. Nothing in dryft schedules this; it is the
  workflow the README describes, and without it the database just stays behind;
* `WF(GooseUp)`: pending files are applied.

`PrismaParser` assumes `WF(Next)`: the parser is one thread in a loop. `DatabasePull`
assumes `WF(Pull)`: the command is one thread, and each thing it waits for,
connections of the pool included, has a timeout (`connection.go:12-13`), after
which it takes its error path. Nothing is assumed of failures, kills, restarts
or the other session.

No fairness is assumed of `Edit`, of `Start(FALSE)` or of `GooseDown` (which the
behaviours of `ForwardSpec` do not contain). `MaxFiles` does not cut the
argument short: with two edits, at most two files are written and the run that
would find nothing to do is still allowed to start.

### Where code and documents disagree

Each run below checks one property that a document of the repository states, and
TLC finds a behaviour of the code that breaks it. The schemas are one edit each.

| Run | Property | What happens |
|---|---|---|
| `foreign_key_history` | `HistoryLoads` | `ADD CONSTRAINT ... FOREIGN KEY`, which the generator writes for every relation, is an "unsupported alter action" for the builder: no run after it succeeds. |
| `key_drift` | `NoHiddenDrift` | A column that becomes unique, or a changed primary key, is "no changes". |
| `torn_schema` | `AcceptedIsWhole` | A character the lexer does not know ends the file without an error: what follows it is not in the schema, and `migration create` plans to drop it. |

More divergences follow from the same definitions and have no run of their own.

In the migration loop:

* `ALTER TYPE ... ADD VALUE` is parsed, and the builder has no case for it: the
  history is unreadable after the first added label.
* An `autoincrement()` default counts as a default and has no SQL, so `ADD COLUMN
  ... NOT NULL` passes the gate as safe, against `docs/prd.md:785-788`, and the
  column has no default in the database either.
* `SET DEFAULT now()` is read back as `now`: every run writes the change again.
* `AlterEnum` is planned after `AlterColumn`: a default that uses a new label is
  set before the label is added.
* The Down section recreates the index of a dropped column without the column:
  the file can be applied and not rolled back.
* Operations of equal priority come in the order of a Go map, against "same
  ordering" (`docs/prd.md:1030-1036`), which is `First` having more than one
  member.
* A change of type without an assignment cast, text to integer say, is written
  without `USING`, which `Postgres` refuses.

In the files:

* A second run of the same name within the same second truncates and replaces the
  file of the first (`goose.go:57`, `cli/migration.go:155`), against
  `docs/prd.md:1064-1066`, "Existing migration files must never be modified
  automatically".

In the text, all of them outside of `Readable`, and those that cannot be read back in
`Refused`:

* an index whose table is named inside one of its columns (table `user`, column
  `user_id`) cannot be read back, and neither can a table with a column that
  starts with `check_`, `unique_` or `constraint_`; a column called `check` or `unique`
  is lost without an error;
* `)` in a string default of `CREATE TABLE` silently ends the statement there, `(`
  makes it unreadable;
* `VARCHAR(9)[]` loses its brackets, `DOUBLE PRECISION` its second word;
* an expression that starts with a quote, `'a'::text`, comes back as a literal, and a
  default with a call in a call or something behind its parentheses is cut off;
* an apostrophe in a string default, `@default("it's")`, opens a string that takes the
  statements behind it along.

In the Prisma file:

* a date column pulled and migrated becomes a timestamp, as varchar, char and real
  become text and double precision (`Wider`);
* the converter puts string defaults between quotes without doubling the quotes
  inside, and writes floats with six decimals;
* a relation field is named after its column without `_id`: a foreign key over
  `type_id` gives a field `type`, which `IsReservedFieldName` (`naming.go:60`) does
  not refuse and the parser takes for a keyword (`token.go:116`), so no command
  reads the file that `db pull` wrote. The same goes for a column called `type`.
  `Plain` excludes both; without the part of it on keys, the database `Typed` of the
  run violates `PulledIsView`;
* an expression is known by how its text begins (`writer.go:312-318`): `now() +
  '1 day'::interval` is pulled as `now()`, `CURRENT_TIMESTAMP(3)` without its
  precision;
* a string or an expression that holds a double quote is written as it is, closes its
  own string, and the file does not parse;
* an index over an expression is read without its expression (`indexes.go:27`) and
  written as `@@index([])`;
* `Schema.Validate` does not call `Table.Validate`, so a pull torn by a concurrent
  change may write keys over columns the file does not have.

The passing runs keep these inputs out of their `Desired` sets where a property
would only repeat the finding: `TypicalSchemas` has no foreign key, no added
label, no sequence default, no call as the new default of an existing column, no
change of uniqueness alone and no change of type without a cast. Everything they do contain is checked with no
exception in the properties.

### Mutants

`PROJECT.json` names, for every property of every passing run, a mutated
definition, in the module next to the definition it replaces and marked
*Mutant*, and each makes TLC report that property: a rename of indexes compared
by name instead of columns, Down in the order of Up, `DROP INDEX` planned last,
a gate that prints and proceeds, a run that reads the Prisma file twice, and so
on. Each is one plausible slip in the function it replaces.

## 4. What is proved

The eight `*_proofs` modules are checked by TLAPS: for all tables, columns, enums,
literals and index names, every set `Desired` of schemas within the hypothesis of
the theorem, any number of runs and files, and all bounds.

| Module | About |
|---|---|
| `Induction_proofs` | induction over the naturals in a form that can be cited |
| `MigrationCreate_proofs` | what the operators from the differ to the builder return, one operation of a plan read back by the builder, and the command: types, gates, refinement, history |
| `MigrationLoop_proofs` | one operation of a plan executed by the server and undone, and the command with goose and the server |
| `SchemaEvolution_proofs` | the abstract specification |
| `MigrationFiles_proofs` | the directory under overlapping runs and faults |
| `DatabasePull_proofs` | `db pull` |
| `PrismaParser_proofs` | lexer and parser of the Prisma file |
| `SqlParser_proofs` | the text of a migration, cut into its statements |

The assumptions on the constants are named in the modules that declare them:
`LiteralsAssumption` (finitely many literals, so that the labels an `AlterEnum`
adds can be listed), `FoldCaseAssumption` (the folded literal is a literal),
`AbsentAssumption` (the value for "none" is not a table, a column or a set of
labels), `DesiredAssumption` (developers write schemas, the empty one is among
them), `NoRunAssumption`, `BoundsAssumption`, `UnknownAssumption` of
`MigrationLoop` (the two marks of the refinement, no draft and an unknown
catalog, are not what a schema looks like), `VersionsAssumption` of the abstract
module, `ColumnsAssumption` of `DatabasePull` (a table has finitely many
columns), its `CatalogsAssumption` (what PostgreSQL guarantees of its catalogs: names
and types are not empty, keys and indexes are over columns of their table, a foreign
key refers to columns of the table it names), `PoolSizesAssumption` (a pool has at
least one connection), `LettersAssumption` of `PrismaConverter` (a capital is a letter,
and punctuation has none), and `TablesAssumption`, `DesiredAssumption`, `BoundsAssumption` of
`MigrationFiles` (finitely many tables, a plan being a sequence of what is to be
done), and `InputsAssumption`, `WordsAssumption` of `PrismaParser` (a text is a
sequence of symbols, and a word or a numeral is not one of the symbols that have a
name of their own), and `UppersAssumption`, `FilesAssumption` of `SqlParser` (a keyword
in capitals is its own upper case; a file is a sequence of statements, whose names are words
without quotes, blanks, commas, semicolons and parentheses, whose types and expressions close their
quotes and match their parentheses, and whose string defaults are any text between two
apostrophes) and its `NumeralsAssumption` (numerals are strings). The catalogs of a pull are otherwise arbitrary, and so are the runs, names
and clocks of the directory.

| Theorem | Statement | Argument |
|---|---|---|
| `TypeCorrect` | `Spec => []TypeOK` | Not a formality here: `job.schema` is in `Schema` after every statement the builder accepts (`AppliedType`), the plan holds operations (`DiffType`), and both sections hold statements (`GenerateOperationType`, `GenerateReverseOperationType`). It means that no path through differ, generator and builder, rename hints included, refers to a column, index or enum that is not there or loses a field another part reads. |
| `JobCorrect`, `Gated` | `Spec => []JobGated`, `[]DestructiveGated` | The gate, below. |
| `GatesNotNull` | if every desired schema `WritesDefaults`: `Spec => []NotNullGated` | The gate on NOT NULL columns, below. |
| `Implements` | `Spec => AuthoringSpec` | Step simulation of `SchemaEvolution`: `Edit` is Edit, `Start` is Begin, the exits without a file are Abandon, `WriteFile` is Commit, the rest stutters. `TypeOK` supplies that the schema of a run is one a developer may write. |
| `OperationIsDone` | for replayable schemas, an operation the planner may take next is read back, by a builder with no choice, and the difference that is left is the old one without that operation | One lemma per kind of operation, over `DiffByTable` and `DiffByColumn`: a difference is a sum over tables and columns, and a statement touches one of them. |
| `HistoryIsReadable`, `SecondRunFindsNothing` | if `Replayable(Desired)`: `Spec => []HistoryLoads`, `[]SecondRunIsQuiet` | `ReplayInvHolds`; the history, below. |
| `OperationIsExecuted` | for migratable schemas, PostgreSQL accepts the SQL of an operation the planner may take next, does what the builder does, and the SQL for the way back restores the catalog to the letter unless the generator warned | One lemma per kind of operation, and `SettledStep`: a catalog keeps the keys and enums the next operation relies on. |
| `EveryUpIsAccepted`, `EveryDownRestores`, `HistoryIsTheCatalog`, `LastFileIsWanted`, `NothingIsHidden` | if `Migratable(Desired)`: `LoopSpec => []UpAccepted`, `[]DownRestores`, `[]HistoryIsCatalog`, `[]AppliedIsWanted`, `[]NoHiddenDrift` | `LoopInvHolds`; the server and the loop, below. |
| `LoopEvolves` | if `Migratable(Desired)`: `LoopSpec => EvolutionSpec` | Step simulation through `View`, under `LoopInv`: a step up or down of goose moves the abstract position and sets the live schema to the version there, or to unknown. |
| `LoopImplements`, and with it `LoopGated`, `LoopGatesNotNull`, `LoopHistoryIsReadable`, `LoopSecondRunFindsNothing`, `LoopAuthors` | `LoopSpec => Spec`, and the properties of the command hold in the whole loop | goose and the database leave the variables of the command alone: a step of theirs is a stutter of `MigrationCreate`. |
| `LiveCorrect`, `LogGrows`, `TypeCorrect` | abstract `Spec => []LiveIsVersion`, `LogOnlyGrows`, `[]TypeOK` | Inductive together; only Commit changes the log, and it appends. |
| `ReadCorrect` | `MigrationFiles`: `Spec => []ReadIsDir` | Inductive with the form of a job: a run reads names once and each file once, and every step that changes the directory marks the others stale. |
| `TypeCorrect`, `AnswerCorrect` | `MigrationFiles`: `Spec => []TypeOK`, `AnswerIsTrue` | `AnswerInvHolds`; the directory, below. |
| `TypeCorrect`, `PoolCorrect` | `DatabasePull`: `Spec => []TypeOK`, `[]PoolSuffices` | `PoolInv`: how many connections are out is a function of the step the run is at, on every path, error paths included. |
| `FileCorrect` | `DatabasePull`: `Spec => FileGuarded` | `FileInv`: from `validate` on nothing is left to read, what passed is valid, and from `truncate` on it can be written. |
| `SnapshotRead` | `DatabasePull`: `Spec => []ReadIsSnapshot` | `SnapInv`: at each step `read` is the catalog's tables that are done, plus of the one at hand the parts whose queries are over; in the loop over the rows every column is built or still among them. |
| `TypedHolds` | `DatabasePull`: `Spec => []TypedInv` | With `SnapInv`: a column is built after the type of its row was looked up, and a type that is neither mapped nor an enum ends the pull. |
| `LegibleRoundTrip` | the parser and the converter accept what the writer writes of a `Legible` schema, and read back its view | A definition at a time, from names and types to defaults, fields, keys and blocks; the round trip, below. |
| `PullRoundTrip` | `DatabasePull`: `Spec => []PulledIsView` | `SnapInv` and `TypedInv` say what a pull has read, `PlainIsLegible` that the writer can write it, `LegibleRoundTrip` what comes back. |
| `KeysKept` | `DatabasePull`: `Spec => []ForeignKeysKept` | `FileInv` says the finished file is `Write(read)` of a valid schema; `BothFields` that the relation plan of a valid schema has two fields for each key, the one on the table and the other on the table it refers to. |
| `EachAloneHolds` | `SqlParser`: `Spec => []EachAlone` | `TextIsRest`: as long as statements close their quotes, the text that is left is the Up section of the statements that are left; the text, below. |
| `ClosingDefaultsSelfContained` | a statement whose defaults close their quotes closes its own, and has its semicolons in quotes | A lemma for each piece a statement is spelled from. It says of `EachAlone` which files it is about: all but those with a default that leaves a string open. |
| `OfNamesAlone` | `SqlParser`: `Alone(v)` for each statement `v` that is made of names | Every part of such a statement is one token, and `tokenize` of a sentence of tokens is its parts; the text, below. |
| `NamesKept` | `SqlParser`: `Spec => []` (a statement of names that was read was read as it was written, if the statements up to it close their quotes) | `EachAloneHolds` and `OfNamesAlone`: the other statements of the file can be anything. |
| `NamesReadBack` | `SqlParser`: `Spec => []` (`TypeOK`, `ReadBack` and `RefusalsAreKnown`, if all statements are made of names) | The same, and `ClosingDefaultsSelfContained`: without defaults, nothing opens a string. |
| `TypeCorrect`, `AcceptedKept`, `AcceptedBalanced` | `PrismaParser`: `Spec => []TypeOK`, `[]AcceptedIsKept`, `[]AcceptedIsBalanced` | `InvHolds`; the parser, below. |

**The gate.** `DestructiveGated` says of files what the gate enforces of
operations, two phases earlier. It is not inductive: `WriteFile` copies
`job.up`, about which it says nothing. The inductive invariant is

    GateInv == TypeOK /\ JobGated /\ DestructiveGated

where `JobGated` says that a run without the flag has no destructive operation
left to generate *and* no lossy statement generated. `Proceed` establishes the
first half; `Generate` keeps the second by `GateLemma`: an operation that is not
in `DestructiveOps` generates no lossy statement, for each of the twelve kinds
of operation. The lemma needs the type invariant, since what `AlterColumn`
generates depends on what its fields may be. TLC checks `JobGated` too, in
`create_typical`.

**The gate on NOT NULL columns** has the same shape, `NotNullInv`, but the
operation and the statement do not agree by themselves: the gate looks whether
the new column has a default, and an `autoincrement()` counts as one and is never
written. `AddsWritten` carries through the run that no new NOT NULL column has such
a default, and `WritesDefaults` is the hypothesis that no desired schema has one.
Without it the theorem is false, and section 3 says so.

**The history.** Neither `HistoryLoads` nor `SecondRunIsQuiet` is inductive: they
say of the next run what the files will do when they are read. `ReplayInv` says
what each file does. There is a schema `h[n]` for each number of files, `h[0]` the
empty one, such that the Up section of file n leads from `h[n-1]` to `h[n]` and
to nothing else, and `h[n]` does not differ from the schema file n was written
for. A run that replays is on that path, and has the rest of it before it. A
run that generates has written a section that leads from the last `h` to a schema
whose difference to the desired one is exactly the operations still to be
generated: this is what `OperationIsDone` keeps, whichever operation the unstable
sort takes. When nothing is left, the schema reached does not differ from the
desired one, and `WriteFile` makes it the next `h`. `Known` is what every `h` must
be for an operation to be read back: it holds columns, indexes and labels some
desired schema has, under the names the generator gives.

`Replayable(Desired)` is the class of schemas for which this is true, and each part
of it is a loss in the code: no foreign key (`ADD CONSTRAINT` cannot be read
back), no double precision and no `autoincrement()` (neither survives as
text), the same labels of an enum in all schemas (`ADD VALUE` cannot be read
back), of a column that changes no new call as default and no new type of the
same kind (`SET DEFAULT now()` loses its parentheses; array depth and enum are
not compared), and index names that are distinct where columns are. The hypothesis is on
pairs of schemas because developers may go from any to any.

**The server and the loop.** `LoopInv` takes the same `h` and adds that `h[n]` is
the catalog of a database that was given n files: the Up section *executes* from
`h[n-1]` to `h[n]`, the Down section of a file without a warning back, and
`db = h[applied]` as long as `clean`. `UpAccepted`, `DownRestores` and
`HistoryIsCatalog` are read off it; `AppliedIsWanted` and `NoHiddenDrift` follow by
`NothingDiffers`: an empty difference of a known and settled catalog to a
desired schema means the same `Meaning`, keys, uniqueness and defaults
included, and so the same `View`. The way back needs
an induction of its own: Down is written in reverse, one operation in front of
the others, so the statement for a run that generates is about the section so
far (`FileExecutes`). `Settled` says what a statement relies on and no statement
of the plan mentions: keys on columns that exist, enums that exist.

`Migratable(Desired)` adds to `Replayable` what the differ does not compare (keys,
uniqueness of an index, defaults up to case), what the server refuses (a type
change without an assignment cast, a default that does not fit) and what a schema
that passes `dryft validate` has anyway (keys and indexes on columns that exist, no
optional column in a primary key, enums that exist).

Both hypotheses are true of the sets that the runs `create_typical` and `loop`
share, `TypicalSchemas` and `ShortSchemas`, and false of those of the runs that
show a divergence; the ASSUMEs of `MCMigrationCreate` and `MCMigrationLoop` let
TLC decide it. `KeySchemas` is replayable and not migratable: its history is
read back, and `key_drift` shows that the database is not what was asked for.

**The directory.** `AnswerIsTrue` compares two things a run does not hold at the
same time: what it read in the Prisma file, and what goose will do with a
directory that has one file more. `AnswerInv` says of a run past the gate that it
holds a plan (`IsPlan`): there is an order of the files it has read, sorted by
timestamps, a result `h` of replaying them in that order, and `job.up` is one of
the plans from `h` to what was desired. While it writes, and no other run did,
the directory is what it has read and its own file. Then `OneOrder` (files of
distinct versions, which is when goose accepts them, have one order, so the
loader and goose agree), `ReplayOne` (statements lead to one schema at most),
`AppendSorted` (a file that is later than all comes last) and `PlanLeads` (the
history and after it the plan lead to exactly what was desired) give the
property. Nothing is assumed of how files came to be: torn, empty and overwritten ones are
replayed as they are.

**The pull.** `PullInv == TypeOK /\ PoolInv /\ FileInv`. `PoolSuffices` is not
inductive: that the loop over the rows finds one connection out depends on every
query before it having given its own back. `FileGuarded` says of the moment the
file is opened what `ValidateSchema` and `WriteSchema` checked one and two steps
earlier, so `FileInv` carries it there. Another session's changes disturb
neither, since the invariant speaks of what was read and never of the catalog.
`SnapInv` does compare the two, for runs that no one disturbed (`~changed`), and is
an equation for `read` at each step: `Complete` between two tables, `Shown` with a
`Part` of the table at hand within one, and in the loop over the rows the columns
that are `Built`. That the rows name every column rests on `SetToSeq` being onto
(`RowsBegin`), which needs a table to have finitely many of them;
`ConstraintOnce` shows that `View` puts the index rows of a unique constraint and the
constraint itself back together. Names that do not fold to themselves are excluded
because `regclass` does not find them again: the pull then fails, or reads the wrong
table when both spellings exist.

**The round trip.** `PulledIsView` compares a document with a catalog, three
translations apart. `TypedInv` is what `SnapInv` lacks for it: that a pull which got as
far as `validate` has found each type, and so writes no field the converter would take
for a relation. `Legible` is what a schema must be to survive the rest, and a
conclusion and not a hypothesis: `PlainIsLegible` derives it from `Plain`, from the
checks the pull itself makes (`Validate`, `WriteFails`), and from what the server
guarantees. Then the document is followed back part by part, each with a lemma that
ends in `LeadBack` or `LeadsBack`. The naming folds of the writer are
proved position by position, since the parser looks at the first character a name gets
and the converter at whether it is a capital; types go through the two tables of names
(`TypeLeadsBack`), defaults form by form (`DefaultLeadsBack`).
A field leads back to its column and a block to its table because `WriteFails` has
refused two with one name. The hard part is telling relation fields from columns: the
converter knows no keys, only a type with a capital that is no enum (`ColumnIsScalar`,
`SideIsRelation`), and of the two sides of a key it must build the key from the one that
carries it (`ActiveAre`), self relations and several keys between one pair included. The statement
contains no bound: any number of tables, columns, keys and enums.

**The parser.** Both properties speak of the moment a file is accepted and depend on
every step before it. The invariant has two halves. Of the lexer it says `IsLine`:
the tokens still to come follow one another, between two of them there is nothing
but newlines and comments, and the last one is the end of the file or a panic. It
is established once, for `TokensOf` of any text (`TokensAreLexed`, by induction from
the end of the text), and a step of the parser takes the first token off.
`KeptInv` then says that, as long as no error was noted, each symbol before the
current token was accepted or is hidden. Of the parser it says what each function
under way owes: a declaration in its body a closing brace, `parseArguments` a
parenthesis, an array or a field that has read `[` a bracket. `BalanceInv`: without
an error, as many were opened as were closed and are owed. Each of the 24 actions
other than `Finish` puts at most two frames in the place of the innermost one and
accepts one token or none (`Moves`), and `Even` is the arithmetic of that step;
`ArgumentColon`, which accepts without looking, needs `ColonInv`: the colon it takes
was seen by the step before. `Finish` accepts in the outermost frame, where no
other is left and nothing is owed (`StackInv`). A token is counted once, since the
accepted ones begin before the current one (`UsedInv`).

**The text.** The loader cuts a file at the semicolons that are outside of quotes, and
the parser is handed what is between two of them. `EachAlone` is not inductive,
because what the next statement is read as depends on where the text begins; the
invariant adds `TextIsRest`: up to the first statement that leaves a quote open, the
text is the Up section of the statements that are still to come, but for the newline
the loader trims. A step keeps it if the first semicolon outside of quotes is the one
the generator wrote after the first of these. The quotes that are open after a
concatenation are those after the first part, and after the second one on its own
where the first closes its quotes (`Closes`). So each of the pieces a statement is
spelled from needs one lemma: a keyword, a quoted name, a list in parentheses, a
column, a label. Each closes its quotes and has no semicolon outside of them, but for a
default that is a string; so a statement whose defaults do so does
(`ClosingDefaultsSelfContained`), wherever its strings have their semicolons and
parentheses.

What a statement is read as when it is alone is proved for the eleven kinds made of
keywords, names, labels and lists of names (`IsOfNames`): those that drop something,
`RENAME COLUMN`, `SET NOT NULL`, `ADD VALUE`, `ADD CONSTRAINT`. The tokenizer is
described by its state after a text. A text `Goes` on if it is only added to the token at
hand, so many parentheses deep, and it is a `Token` if, begun between two tokens, it
gives one. A keyword, a name, a quoted name, a label and a list in parentheses
are tokens, so `tokenize` of a sentence of them is these again (`SentenceTokens`, by
induction), and the parser looks for each part at its number. No keyword is mistaken
for another, and no name for a keyword, since the keywords are looked for where the
generator puts no name. For the other kinds, `CREATE TABLE`, `CREATE INDEX`,
`CREATE TYPE`, `ADD COLUMN`, `ALTER TYPE` and `SET DEFAULT`, whose parts are searched for
or cut at commas, `Alone` is what the run checks of its files of one statement.

**Induction over statements.** A section is executed, a history replayed and a
directory flattened by folds of the community modules, and the induction theorems
of the library cannot be instantiated. `SetInduction` is the form of induction
used (`Induction_proofs`): a set that holds 0 and with n also n + 1 holds the
naturals, proved from the well-foundedness of `<`. For each fold there is a lemma
that the function the fold chooses exists (`IterExists`, `FlatExists`) and one on
what it does with one statement more; no later proof looks inside. The recursive
function of the lexer is treated alike (`FromExists`), and so are the folds over the
text of a migration (`FoldExists`, `FlattenRun`).

**Only model-checked.** `RoundTrip`, `PullEnds` and `ParserStops` are liveness, which
TLAPS does not do. What the parser makes of one statement with a type, a default
or a list of its own that is alone, and with it `ReadBack` and `RefusalsAreKnown` of files that have one, and `WholeFileAccepted` of the Prisma parser say what
folds and searches over a text compute, case by case over the texts of the run. The theorems on the history and the loop hold
for the two classes of schemas above; that the files still work for
`RichSchemas` up to the point where the history cannot be read (`loop_rich`) is
checked and not proved.

## 5. What is not modelled

| Part | Why |
|---|---|
| Names longer than 63 bytes, names that are generated alike | The model's names are tuples of words. |
| Statements written by hand into a migration | The tool promises to read its own files. |
| Files in the directory with names of another form | `MigrationFiles` holds the files the tool names. |
| Primary key and unique constraint names, comments, numeric precision, partial indexes | The generator does not carry them through a diff, or they have no influence on control. |
| Rename hints in the command | `Differ` and the proofs have them; the command always passes none. |
| `RenameTable` | Declared; no code produces it. |
| Converter errors for documents only a person writes | `PrismaConverter` is defined over what the writer writes; what a person may write is read by `PrismaParser`, whose tree keeps no values. |
| Positions, escapes and values of Prisma tokens | They end up in messages, or are looked at by the converter only. |
| The spelling of types in SQL | Type names are symbols; which shapes of them survive is what `SqlParser` asks. |
| Names with punctuation or blanks (`@map`), expressions in `dbgenerated` that are not well-formed SQL | A name is made of words in `SqlParser`, and what such an expression does to the server is no matter of the text. |
| Line breaks in a string default, and with them lines that begin with `--` or a marker of goose | A text has one kind of blank, and the Up section is taken as it was put between its markers. |
| `IF EXISTS`, `CASCADE`, `CONCURRENTLY`, `USING`, inline constraints, a second clause of `ALTER COLUMN` in the SQL parser | Written by people, not by the generator. |
| Two indexes or foreign keys of one table over the same columns, a column renamed to one that exists | The differ keys them by columns and keeps one, `ApplyRenameColumn` keeps both columns; no file of the generator has the second, and no instance the first. |
| The text of string defaults in a pull | `ViewDefault` compares that there is a string, not which one. |
| `snake_case` naming, materialized sequences, check constraints in a pull | No code passes the first; the writer drops the other two. |
| Configuration, `init`, `validate`, `db inspect` | Sequential handling of one file with nothing to interleave. |
| Rows, locks, privileges, several databases | Outside what the repository decides. |

## 6. Plan

Done, in this order: `SchemaIR`, `Differ`, `Planner`, `Generator`,
`SchemaBuilder`, `MigrationCreate`, `Postgres`, `SchemaEvolution`,
`MigrationLoop`; `PrismaParser`, `PrismaWriter`, `PrismaConverter`,
`DatabasePull`, `MigrationFiles`, `SqlParser`; their instances, and the proofs of
section 4.

What is left, modelling:

1. A plan against the catalog without a history: order of dropped tables linked
   by foreign keys, dropped constraints, array depth and enum changes that
   generate no SQL, letter case of literals.
2. Inline and hand-written SQL in `SqlParser`, with an abstract grammar as the
   reference instead of the generator.
3. Documents a person writes in `PrismaConverter`, joined to the tree of
   `PrismaParser`.

What is left, proofs:

1. `Alone` of `SqlParser` for the statements with columns, defaults or labels in a
   list, instead of case by case over those of the run. With it `ReadBack` and
   `RefusalsAreKnown` follow for every file, as for statements of names.
2. The converse of `NothingDiffers`: schemas with the same meaning have an empty
   difference, up to what the differ is known to compare too closely.
3. The part of `HistoryIsCatalog` that holds beyond migratable schemas, up to
   the first file that cannot be read back.

## 7. Running it

In this directory, with `TLA2Tools` and the community modules on the path:

    tlc -workers 2 -config CreateTypical.cfg MCMigrationCreate
    tlc -workers 2 -config Loop.cfg MCMigrationLoop
    tlc -workers 2 -config DatabasePull.cfg MCDatabasePull
    tlc -workers 2 -config MigrationFiles.cfg MCMigrationFiles
    tlapm MigrationCreate_proofs.tla
    tlapm PrismaParser_proofs.tla

`PROJECT.json` lists every run with its module and configuration.
