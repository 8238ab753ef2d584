----------------------------- MODULE DatabasePull -----------------------------
(***************************************************************************)
(* `dryft db pull`: connect, read the catalogs query by query, validate,   *)
(* write the Prisma file.                                                  *)
(*                                                                         *)
(* The queries run one after the other on a pool of connections and in no  *)
(* transaction: another session may commit a change between any two of     *)
(* them.  While the rows of a table's columns are read, their connection   *)
(* stays out of the pool, and a column may need a second query.            *)
(***************************************************************************)
EXTENDS PrismaConverter

CONSTANTS
  Catalogs,    \* the catalogs the database may have
  PoolSizes,   \* the values of pool_max_conns
  MaxChanges,  \* bound: changes by the other session
  MaxPulls     \* bound: runs of db pull

ASSUME PoolSizesAssumption == PoolSizes \subseteq Nat \ {0}
ASSUME BoundsAssumption    == MaxChanges \in Nat /\ MaxPulls \in Nat
\* A table has finitely many columns.
ASSUME ColumnsAssumption ==
  \A c \in Catalogs : \A t \in DOMAIN c.tables : IsFiniteSet(DOMAIN c.tables[t].cols)

\* pg_constraint.confupdtype and confdeltype
mapReferentialAction ==
  [a |-> "NoAction", r |-> "Restrict", c |-> "Cascade", n |-> "SetNull", d |-> "SetDefault"]

(***************************************************************************)
(* What PostgreSQL guarantees of its catalogs: names and types are not     *)
(* empty, keys have columns of their table, a foreign key refers to        *)
(* columns of the table it names.  An index over an expression has none.   *)
(***************************************************************************)
Text == Seq(STRING) \ {<< >>}

IsTable(t) ==
  LET list == Seq(DOMAIN t.cols) \ {<< >>}
  IN  /\ DOMAIN t.cols \subseteq Text
      /\ \A x \in DOMAIN t.cols : t.cols[x].type \in Text /\ t.cols[x].expr \in Seq(STRING)
      /\ t.pk \in Seq(DOMAIN t.cols) /\ t.uniques \subseteq list
      /\ t.indexes \subseteq [cols : Seq(DOMAIN t.cols), unique : BOOLEAN]
      /\ t.fks \subseteq [cols : list, refTable : Text, refCols : Seq(Text),
                         onDelete : DOMAIN mapReferentialAction,
                         onUpdate : DOMAIN mapReferentialAction]

ASSUME CatalogsAssumption ==
  \A c \in Catalogs :
    /\ DOMAIN c.tables \cup DOMAIN c.enums \subseteq Text
    /\ \A t \in DOMAIN c.tables :
         /\ IsTable(c.tables[t])
         /\ \A fk \in c.tables[t].fks : fk.refTable \in DOMAIN c.tables =>
              ToSet(fk.refCols) \subseteq DOMAIN c.tables[fk.refTable].cols

VARIABLES
  catalog,  \* the database
  changes,  \* how often another session changed it
  changed,  \* it did so during this run
  pulls,    \* the runs so far
  maxConns, \* the size of the pool
  held,     \* the connections that are out of the pool
  step,     \* where the run is
  read,     \* the schema read so far
  todo,     \* the tables still to read
  table,    \* the table that is read
  rows,     \* its columns still to build
  file      \* the Prisma file

server == <<catalog, changes, changed>>
run    == <<held, step, read, todo, table, rows>>
vars   == <<server, run, pulls, maxConns, file>>
-----------------------------------------------------------------------------
(***************************************************************************)
(* What the catalogs say.  A table has columns [type, notNull, identity,   *)
(* expr] by name, with the name of the type in pg_type and the text of the *)
(* default, and the keys and indexes of PrismaWriter.                      *)
(***************************************************************************)
NoTable == << >>

NoSchema == [tables |-> << >>, enums |-> << >>]

\* ('public' || '.' || name)::regclass folds the case of a name.
Relation(name) == Lower(name)

Exists(name) == Relation(name) \in DOMAIN catalog.tables

Of(name) == catalog.tables[Relation(name)]

\* PostgreSQLToInternal, for the names pg_type has
PostgreSQLToInternal ==
  [uuid |-> "uuid", text |-> "text", varchar |-> "varchar", char |-> "char", bpchar |-> "char",
   int4 |-> "int32", int2 |-> "int32", int8 |-> "int64", bool |-> "bool", float4 |-> "float32",
   float8 |-> "float64", numeric |-> "numeric", timestamp |-> "timestamp",
   timestamptz |-> "timestamptz", date |-> "date", json |-> "json", jsonb |-> "jsonb",
   bytea |-> "bytes"]

IsList(type) == type[1] = "_"

BaseName(type) == IF IsList(type) THEN Tail(type) ELSE type

IsMapped(type) == Len(BaseName(type)) = 1 /\ BaseName(type)[1] \in DOMAIN PostgreSQLToInternal

\* mapType, for a type of the map or else an enum
mapType(type) ==
  [kind |-> IF IsMapped(type) THEN PostgreSQLToInternal[BaseName(type)[1]] ELSE "enum",
   enum |-> IF IsMapped(type) THEN << >> ELSE BaseName(type), list |-> IsList(type)]

containsNextval(expr) == Contains(expr, "nextval")

isExpression(expr) ==
  \/ Contains(expr, "()") \/ (Contains(expr, "(") /\ Contains(expr, ")"))
  \/ Contains(expr, "CURRENT_TIMESTAMP")

parseDefault(expr) ==
  LET sequence == containsNextval(expr) /\ Contains(expr, "'")
  IN  CASE sequence -> Argument("sequence", << >>)
        [] ~sequence /\ (containsNextval(expr) \/ isExpression(expr)) -> Argument("expression", expr)
        [] OTHER -> Argument("literal", expr)

Default(col) ==
  CASE col.identity -> Argument("sequence", << >>)
    [] ~col.identity /\ col.expr = << >> -> NoDefault
    [] OTHER -> parseDefault(col.expr)

buildColumn(col) ==
  [type |-> mapType(col.type), nullable |-> ~col.notNull, default |-> Default(col)]

\* The index of a unique constraint is in pg_index too.
IndexRows(t) == t.indexes \cup {[cols |-> u, unique |-> TRUE] : u \in t.uniques}

ForeignKeyRows(t) ==
  {[fk EXCEPT !.onDelete = mapReferentialAction[@], !.onUpdate = mapReferentialAction[@]] :
     fk \in t.fks}

\* Schema.Validate; the names of tables and of enums come from queries that
\* repeat none.
Validate(s) ==
  \A t \in DOMAIN s.tables : \A fk \in s.tables[t].fks : fk.refTable \in DOMAIN s.tables
-----------------------------------------------------------------------------
File == {"old", "torn", "written"}

OldFile  == [is |-> "old", doc |-> << >>]
TornFile == [is |-> "torn", doc |-> << >>]

Connecting == {"connect", "version", "schemas"}
Single     == {"tables", "enums", "pk", "fks", "indexes", "checks", "uniques"}
Nested     == {"isEnum", "sequence"}
Running    == Connecting \cup Single \cup Nested \cup {"columns", "rows", "validate", "write", "truncate", "flush"}
Failures   == {"unreachable", "query", "unsupported", "invalid", "refused", "full"}
Ended      == Failures \cup {"done", "killed"}

Init ==
  /\ catalog \in Catalogs /\ changes = 0 /\ changed = FALSE
  /\ pulls = 1 /\ maxConns \in PoolSizes
  /\ held = 0 /\ step = "connect" /\ read = NoSchema /\ todo = {}
  /\ table = NoTable /\ rows = << >>
  /\ file = OldFile

\* The run moves on; what its query returned is in read.
To(next) == step' = next /\ UNCHANGED <<server, pulls, maxConns, file>>

\* The deferred calls close the rows and the pool.
Fail(why) == To(why) /\ held' = 0 /\ UNCHANGED <<read, todo, table, rows>>

(***************************************************************************)
(* createPool, checkVersion and checkMultiSchema.  The last one only warns *)
(* when its query fails.                                                   *)
(***************************************************************************)
Connect ==
  /\ step = "connect"
  /\ \/ To("version") /\ UNCHANGED <<held, read, todo, table, rows>>
     \/ Fail("unreachable")

CheckVersion ==
  /\ step = "version"
  /\ \/ To("schemas") /\ UNCHANGED <<held, read, todo, table, rows>>
     \/ Fail("unreachable")

CheckMultiSchema ==
  /\ step = "schemas"
  /\ To("tables") /\ UNCHANGED <<held, read, todo, table, rows>>

ListTables ==
  /\ step = "tables"
  /\ todo' = DOMAIN catalog.tables
  /\ To("enums") /\ UNCHANGED <<held, read, table, rows>>

\* The next table of the list, or the schema is complete.
NextTable(rest) ==
  /\ todo' = rest
  /\ IF rest = {} THEN step' = "validate" /\ table' = NoTable
     ELSE step' = "columns" /\ table' = CHOOSE t \in rest : TRUE

listEnums ==
  /\ step = "enums"
  /\ read' = [read EXCEPT !.enums = catalog.enums]
  /\ NextTable(todo)
  /\ UNCHANGED <<server, pulls, maxConns, file, held, rows>>

(***************************************************************************)
(* IntrospectColumns and buildColumn.  Each row that is not of a known     *)
(* type asks whether it is an enum, each nextval default for the           *)
(* dependency of the sequence: with a connection of its own.               *)
(***************************************************************************)
Put(f, x, v) == [y \in DOMAIN f \cup {x} |-> IF y = x THEN v ELSE f[y]]

NewTable == [cols |-> << >>, pk |-> << >>, uniques |-> {}, indexes |-> {}, fks |-> {}]

QueryColumns ==
  /\ step = "columns"
  /\ \/ /\ Exists(table)
        /\ held' = held + 1
        /\ rows' = LET cols == Of(table).cols
                   IN  SetToSeq({[name |-> c, col |-> cols[c]] : c \in DOMAIN cols})
        /\ read' = [read EXCEPT !.tables = Put(@, table, NewTable)]
        /\ To("rows") /\ UNCHANGED <<todo, table>>
     \/ ~Exists(table) /\ Fail("query")

row == Head(rows)

Question ==
  LET known == IsMapped(row.col.type)
  IN  CASE ~known -> "isEnum"
        [] known /\ ~row.col.identity /\ containsNextval(row.col.expr) -> "sequence"
        [] OTHER -> "none"

AppendColumn ==
  /\ read' = [read EXCEPT !.tables[table].cols = Put(@, row.name, buildColumn(row.col))]
  /\ rows' = Tail(rows)
  /\ To("rows") /\ UNCHANGED <<todo, table>>

\* The nested query is over; its connection is free again.
Answered == AppendColumn /\ held' = held - 1

BuildColumn ==
  /\ step = "rows" /\ rows # << >> /\ Question = "none"
  /\ AppendColumn /\ UNCHANGED held

\* pool.QueryRow inside the loop over the rows
Acquire ==
  /\ step = "rows" /\ rows # << >> /\ Question # "none"
  /\ held < maxConns
  /\ held' = held + 1
  /\ To(Question) /\ UNCHANGED <<read, todo, table, rows>>

\* An error of this query counts as no.
IsEnumType ==
  /\ step = "isEnum"
  /\ \/ BaseName(row.col.type) \in DOMAIN catalog.enums /\ Answered
     \/ BaseName(row.col.type) \notin DOMAIN catalog.enums /\ Fail("unsupported")

\* Mutant: the loop goes on to the next row after the query of the sequence.
DetectSequenceSkips ==
  /\ step = "sequence"
  /\ \/ /\ Exists(table)
        /\ held' = held - 1 /\ rows' = Tail(rows)
        /\ To("rows") /\ UNCHANGED <<read, todo, table>>
     \/ ~Exists(table) /\ Fail("query")

\* The answer says whether the column owns the sequence, which no one reads.
DetectSequence ==
  /\ step = "sequence"
  /\ \/ Exists(table) /\ Answered
     \/ ~Exists(table) /\ Fail("query")

\* Mutant: the query has no timeout.
NestedWait ==
  /\ step = "rows" /\ rows # << >> /\ Question # "none"
  /\ held = maxConns
  /\ UNCHANGED vars

\* The pool has no connection for the nested query within its 30 seconds.
NestedTimeout ==
  /\ step = "rows" /\ rows # << >> /\ Question # "none"
  /\ held = maxConns
  /\ Fail(IF Question = "isEnum" THEN "unsupported" ELSE "query")

\* Mutant: the rows are closed by hand and once more by the deferred call.
ColumnsEndTwice ==
  /\ step = "rows" /\ rows = << >>
  /\ held' = held - 2
  /\ To("pk") /\ UNCHANGED <<read, todo, table, rows>>

\* Mutant: the rows stay open until the command returns.
ColumnsEndOpen ==
  /\ step = "rows" /\ rows = << >>
  /\ To("pk") /\ UNCHANGED <<held, read, todo, table, rows>>

ColumnsEnd ==
  /\ step = "rows" /\ rows = << >>
  /\ held' = held - 1
  /\ To("pk") /\ UNCHANGED <<read, todo, table, rows>>

(***************************************************************************)
(* The other queries of IntrospectTable.                                   *)
(***************************************************************************)
Query(part, next, schema) ==
  /\ step = part
  /\ \/ Exists(table) /\ read' = schema /\ To(next) /\ UNCHANGED <<held, todo, table, rows>>
     \/ ~Exists(table) /\ Fail("query")

IntrospectPrimaryKey ==
  Query("pk", "fks", [read EXCEPT !.tables[table].pk = Of(table).pk])

IntrospectForeignKeys ==
  Query("fks", "indexes", [read EXCEPT !.tables[table].fks = ForeignKeyRows(Of(table))])

IntrospectIndexes ==
  Query("indexes", "checks", [read EXCEPT !.tables[table].indexes = IndexRows(Of(table))])

\* The constraints are read, the writer leaves them out.
IntrospectCheckConstraints == Query("checks", "uniques", read)

IntrospectUniqueConstraints ==
  /\ step = "uniques"
  /\ \/ /\ Exists(table)
        /\ read' = [read EXCEPT !.tables[table].uniques = Of(table).uniques]
        /\ NextTable(todo \ {table})
        /\ UNCHANGED <<server, pulls, maxConns, file, held, rows>>
     \/ ~Exists(table) /\ Fail("query")

\* The server or the network fails a query, or its time is over.
QueryFails ==
  \/ step \in Single \cup {"columns", "rows", "sequence"} /\ Fail("query")
  \/ step = "isEnum" /\ Fail("unsupported")
-----------------------------------------------------------------------------
(***************************************************************************)
(* The rest of Introspect and of cmdDbPull.                                *)
(***************************************************************************)
\* Mutant: the schema is not validated.
ValidateNothing ==
  /\ step = "validate"
  /\ To("write") /\ UNCHANGED <<held, read, todo, table, rows>>

ValidateSchema ==
  /\ step = "validate"
  /\ \/ Validate(read) /\ To("write") /\ UNCHANGED <<held, read, todo, table, rows>>
     \/ ~Validate(read) /\ Fail("invalid")

\* Mutant: the file is opened before the schema is rendered.
WriteSchemaLate ==
  /\ step = "write"
  /\ To("truncate") /\ UNCHANGED <<held, read, todo, table, rows>>

WriteSchema ==
  /\ step = "write"
  /\ \/ ~WriteFails(read) /\ To("truncate") /\ UNCHANGED <<held, read, todo, table, rows>>
     \/ WriteFails(read) /\ Fail("refused")

\* os.MkdirAll, and os.WriteFile, which opens and empties the file and fills it.
Truncate ==
  /\ step = "truncate"
  /\ \/ /\ step' = "flush" /\ file' = TornFile
        /\ UNCHANGED <<server, pulls, maxConns, held, read, todo, table, rows>>
     \/ Fail("full")

Flush ==
  /\ step = "flush"
  /\ \/ step' = "done" /\ file' = [is |-> "written", doc |-> Write(read)]
     \/ step' = "full" /\ UNCHANGED file
  /\ UNCHANGED <<server, pulls, maxConns, held, read, todo, table, rows>>
-----------------------------------------------------------------------------
\* Ctrl-C, or the process dies.
Kill == step \in Running /\ Fail("killed")

Rerun ==
  /\ step \in Ended /\ pulls < MaxPulls
  /\ pulls' = pulls + 1 /\ changed' = FALSE
  /\ held' = 0 /\ step' = "connect" /\ read' = NoSchema /\ todo' = {}
  /\ table' = NoTable /\ rows' = << >>
  /\ UNCHANGED <<catalog, changes, maxConns, file>>

\* Another session commits.
Change ==
  /\ step \in Running /\ changes < MaxChanges
  /\ \E c \in Catalogs \ {catalog} : catalog' = c
  /\ changes' = changes + 1 /\ changed' = TRUE
  /\ UNCHANGED <<run, pulls, maxConns, file>>

ConnectSteps == Connect \/ CheckVersion \/ CheckMultiSchema
ColumnSteps  == \/ QueryColumns \/ BuildColumn \/ Acquire \/ IsEnumType \/ DetectSequence
                \/ NestedTimeout \/ ColumnsEnd
TableSteps   == \/ IntrospectPrimaryKey \/ IntrospectForeignKeys \/ IntrospectIndexes
                \/ IntrospectCheckConstraints \/ IntrospectUniqueConstraints
FileSteps    == ValidateSchema \/ WriteSchema \/ Truncate \/ Flush

Pull == ConnectSteps \/ ListTables \/ listEnums \/ ColumnSteps \/ TableSteps \/ FileSteps

Next == Pull \/ QueryFails \/ Kill \/ Rerun \/ Change

\* One thread runs the command, and each of its waits has a timeout.
Spec == Init /\ [][Next]_vars /\ WF_vars(Pull)
-----------------------------------------------------------------------------
\* Types, and that no path gives back a connection it does not have.
TypeOK ==
  /\ catalog \in Catalogs /\ changes \in 0..MaxChanges /\ changed \in BOOLEAN
  /\ pulls \in Nat /\ maxConns \in PoolSizes /\ held \in Nat
  /\ step \in Running \cup Ended
  /\ file.is \in File

(***************************************************************************)
(* What the file should say: the schema of one snapshot of the database,   *)
(* as far as Prisma's types and attributes have words for it.              *)
(***************************************************************************)
Whole(c) ==
  [tables |-> [n \in DOMAIN c.tables |->
     LET t == c.tables[n]
     IN  [cols |-> [x \in DOMAIN t.cols |-> buildColumn(t.cols[x])], pk |-> t.pk,
          uniques |-> t.uniques, indexes |-> t.indexes, fks |-> ForeignKeyRows(t)]],
   enums |-> c.enums]

Wider == [varchar |-> "text", char |-> "text", date |-> "timestamp", float32 |-> "float64"]

\* An enum takes the name of its block.  A string constant is only known to be
\* one: the file adds a quote after the cast that the catalog ends it with.
ViewType(type) ==
  [type EXCEPT !.kind = IF @ \in DOMAIN Wider THEN Wider[@] ELSE @,
               !.enum = TransformModelName(@)]

ViewDefault(d) ==
  CASE Contains(d.text, "'") /\ d.form = "literal" -> Argument("literal", <<"'">>)
    [] d.text = <<"CURRENT_TIMESTAMP">> -> Argument("expression", <<"now", "()">>)
    [] OTHER -> d

ViewColumn(col) == [col EXCEPT !.type = ViewType(@), !.default = ViewDefault(@)]

\* A unique index over one column reads as a constraint, over more it is lost.
ViewTable(t) ==
  [cols    |-> [c \in DOMAIN t.cols |-> ViewColumn(t.cols[c])],
   pk      |-> t.pk,
   uniques |-> t.uniques \cup {l \in {i.cols : i \in {j \in t.indexes : j.unique}} : Len(l) = 1},
   indexes |-> {i \in t.indexes : ~i.unique},
   fks     |-> t.fks]

View(s) ==
  [tables |-> [t \in DOMAIN s.tables |-> ViewTable(s.tables[t])],
   enums  |-> [n \in {TransformModelName(e) : e \in DOMAIN s.enums} |->
                 s.enums[CHOOSE e \in DOMAIN s.enums : TransformModelName(e) = n]]]

\* Names the lookups find again, and that the parser takes for identifiers, those of
\* the relation fields among them; no enum with the block name of another or of a
\* table; defaults that can be read, and that the writer does not cut short.
Kept(d) ==
  LET written == formatDefault(d)
  IN  /\ DefaultParses(written)
      /\ written.form = "bare" => ~IsIdentifier(d.text)
      /\ written.form = "function" /\ d.form = "expression" =>
           d.text \in {<<"now", "()">>, <<"CURRENT_TIMESTAMP">>, <<"gen_random_uuid", "()">>}

Plain(c) ==
  LET columns == UNION {DOMAIN c.tables[t].cols : t \in DOMAIN c.tables}
      blocks(S) == {TransformModelName(n) : n \in S}
  IN  /\ \A n \in DOMAIN c.tables \cup DOMAIN c.enums \cup columns :
           IsIdentifier(TransformFieldName(n))
      /\ \A t \in DOMAIN c.tables : Lower(t) = t /\ IsCapital(TransformModelName(t)[1])
      /\ \A e \in DOMAIN c.enums : \A l \in ToSet(c.enums[e]) : IsIdentifier(l)
      /\ blocks(DOMAIN c.tables) \cap blocks(DOMAIN c.enums) = {}
      /\ ~Collides(TransformModelName, DOMAIN c.enums)
      /\ \A t \in DOMAIN c.tables :
           /\ \A fk \in c.tables[t].fks : IsIdentifier(forwardRelationFieldName(fk))
           /\ \A x \in DOMAIN c.tables[t].cols : Kept(Default(c.tables[t].cols[x]))

\* The queries of a pull during which nothing changed add up to one snapshot of
\* the database: every table and column once, whichever nested queries they asked
\* for, with the rows a unique constraint has in two catalogs told apart.
ReadIsSnapshot ==
  step \in {"validate", "write", "truncate", "flush", "done"} /\ ~changed
  /\ (\A n \in DOMAIN catalog.tables : Lower(n) = n) =>
    View(read) = View(Whole(catalog))

\* A pull during which nothing changed gives a file that parses and converts to
\* that view of the database, also after a crash or a full disk tore the file:
\* introspection, naming, writer, parser and converter fit together.
PulledIsView ==
  step = "done" /\ ~changed /\ Plain(catalog) =>
    /\ Accepted(file.doc)
    /\ LET got == Converted(file.doc)
       IN  [got EXCEPT !.tables = [t \in DOMAIN @ |-> ViewTable(@[t])]] = View(Whole(catalog))

\* Each foreign key that was read has its two relation fields in the file, also
\* when tables came and went between the queries: Validate rejects a key into a
\* table that was not read, which relations.go would leave out without a word.
ForeignKeysKept ==
  step = "done" =>
    \A t \in DOMAIN read.tables : \A fk \in read.tables[t].fks :
      /\ \E m \in file.doc.models :
           m.map = t /\ forwardRelationField(read, t, fk) \in m.fields
      /\ \E m \in file.doc.models :
           m.map = fk.refTable /\ backRelationField(read, t, fk) \in m.fields

\* A nested query waits for a connection only in a pool of one: the rows of the
\* columns are closed before the next query, so no two tables hold one each.
PoolSuffices == maxConns > 1 => ~(step = "rows" /\ held >= maxConns)

\* The file changes only for a schema that is complete, valid and writable.
FileGuarded ==
  [][file' # file => todo = {} /\ Validate(read) /\ ~WriteFails(read) /\ held = 0]_vars

\* Each run ends, also one that waits for a connection it holds itself.
PullEnds == (step \in Running) ~> (step \in Ended)
=============================================================================
