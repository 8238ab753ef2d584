------------------------------- MODULE Postgres -------------------------------
(***************************************************************************)
(* PostgreSQL's catalog, as far as the statements dryft writes can tell:   *)
(* external, modelled from the SQL of internal/sql/postgres.  A catalog    *)
(* has the shape of a Schema.                                              *)
(*                                                                         *)
(* Executed(v, c) is the set of catalogs statement v can turn c into,      *)
(* empty when the server rejects it.  Rows are not modelled, so a          *)
(* statement is rejected for what the catalog says, never for the data.    *)
(***************************************************************************)
EXTENDS SchemaBuilder

Integral == {"int32", "int64"}
Numeric  == Integral \cup {"float32", "float64", "numeric"}
Temporal == {"timestamp", "timestamptz", "date"}
Textual  == {"text", "varchar", "char"}

\* ALTER COLUMN TYPE without USING needs an assignment cast.
Castable(from, to) ==
  \/ from = to
  \/ /\ from.depth = to.depth
     /\ \E group \in {Numeric, Temporal, Textual, {"json", "jsonb"}} :
          {from.kind, to.kind} \subseteq group
  \/ to.depth = 0 /\ to.kind \in Textual

TypeExists(type, c) == type.kind = "enum" => c.enums[type.enum] # Absent

\* A literal default of an enum column has to be one of the enum's labels.
DefaultFits(type, d, c) ==
  type.kind = "enum" /\ d.kind = "literal" => d.text \in c.enums[type.enum]

ColumnFits(coldef, c) ==
  TypeExists(coldef.type, c) /\ DefaultFits(coldef.type, coldef.default, c)

\* Foreign keys of other tables that point at table t.
Referencing(c, t) ==
  UNION {{k \in c.tables[u].fks : k.refTable = t} : u \in Present(c.tables) \ {t}}

UsesEnum(c, e) ==
  \E t \in Present(c.tables) : \E x \in Present(c.tables[t].cols) :
    c.tables[t].cols[x].type.enum = e

\* Primary key columns are NOT NULL whatever the statement says.
WithKey(tabledef) ==
  [tabledef EXCEPT !.cols = [x \in Columns |->
     IF x \in tabledef.pk THEN [tabledef.cols[x] EXCEPT !.nullable = FALSE]
     ELSE tabledef.cols[x]]]

\* Whatever the column is part of goes with it.
WithoutColumn(tabledef, x) ==
  [cols |-> [tabledef.cols EXCEPT ![x] = Absent],
   pk |-> IF x \in tabledef.pk THEN {} ELSE tabledef.pk,
   uniques |-> {u \in tabledef.uniques : x \notin u},
   indexes |-> {i \in tabledef.indexes : x \notin Range(i.cols)},
   fks |-> {k \in tabledef.fks : x \notin Range(k.cols)}]
-----------------------------------------------------------------------------
ExecuteCreateTable(v, c) ==
  When(/\ ~HasTable(c, v.table)
       /\ \A x \in Present(v.tabledef.cols) : ColumnFits(v.tabledef.cols[x], c),
       SetTable(c, v.table, WithKey(v.tabledef)))

ExecuteDropTable(v, c) ==
  When(HasTable(c, v.table) /\ Referencing(c, v.table) = {},
       SetTable(c, v.table, Absent))

ExecuteAddColumn(v, c) ==
  When(/\ HasTable(c, v.table)
       /\ ~HasColumn(c, v.table, v.column)
       /\ ColumnFits(v.coldef, c),
       SetColumn(c, v.table, v.column, v.coldef))

ExecuteDropColumn(v, c) ==
  When(/\ HasColumn(c, v.table, v.column)
       /\ \A k \in Referencing(c, v.table) : v.column \notin Range(k.refCols),
       SetTable(c, v.table, WithoutColumn(c.tables[v.table], v.column)))

MayAlter(v, c) ==
  LET tabledef == c.tables[v.table]
      old == tabledef.cols[v.column]
  IN  CASE v.stmt = "ALTER TYPE" ->
             /\ Castable(old.type, v.type)
             /\ TypeExists(v.type, c)
        [] v.stmt = "DROP NOT NULL" -> v.column \notin tabledef.pk
        [] v.stmt = "SET DEFAULT"   -> DefaultFits(old.type, v.default, c)
        [] OTHER -> TRUE

\* Unlike the parser, the server keeps a default as it was written.
ExecuteAlterColumn(v, c) ==
  LET old == c.tables[v.table].cols[v.column]
  IN  When(HasColumn(c, v.table, v.column) /\ MayAlter(v, c),
           SetColumn(c, v.table, v.column,
                     IF v.stmt = "SET DEFAULT" THEN [old EXCEPT !.default = v.default]
                     ELSE AlteredColumn(v, old)))

\* Index names share one namespace.
ExecuteCreateIndex(v, c) ==
  When(/\ HasTable(c, v.table)
       /\ \A x \in Range(v.index.cols) : HasColumn(c, v.table, x)
       /\ \A t \in Present(c.tables) : v.index.name \notin IndexNamesOf(c, t),
       SetIndexes(c, v.table, c.tables[v.table].indexes \cup {v.index}))

\* The referenced columns have to be a primary key or unique.
ExecuteAddConstraint(v, c) ==
  When(/\ \A x \in Range(v.fk.cols) : HasColumn(c, v.table, x)
       /\ HasTable(c, v.fk.refTable)
       /\ Range(v.fk.refCols) \in
            c.tables[v.fk.refTable].uniques \cup {c.tables[v.fk.refTable].pk}
       /\ \A k \in c.tables[v.table].fks : k.name # v.fk.name,
       [c EXCEPT !.tables[v.table].fks = @ \cup {v.fk}])

ExecuteDropConstraint(v, c) ==
  When(/\ HasTable(c, v.table)
       /\ \E k \in c.tables[v.table].fks : k.name = v.name,
       [c EXCEPT !.tables[v.table].fks = {k \in @ : k.name # v.name}])

ExecuteAddValue(v, c) ==
  When(c.enums[v.enum] # Absent /\ v.value \notin c.enums[v.enum],
       [c EXCEPT !.enums[v.enum] = @ \cup {v.value}])

ExecuteDropType(v, c) ==
  When(c.enums[v.enum] # Absent /\ ~UsesEnum(c, v.enum),
       [c EXCEPT !.enums[v.enum] = Absent])

\* RENAME COLUMN has no arm: the command line never passes rename hints.
Executed(v, c) ==
  CASE v.stmt = "CREATE TABLE"    -> ExecuteCreateTable(v, c)
    [] v.stmt = "DROP TABLE"      -> ExecuteDropTable(v, c)
    [] v.stmt = "ADD COLUMN"      -> ExecuteAddColumn(v, c)
    [] v.stmt = "DROP COLUMN"     -> ExecuteDropColumn(v, c)
    [] v.stmt = "CREATE INDEX"    -> ExecuteCreateIndex(v, c)
    [] v.stmt = "DROP INDEX"      -> ApplyDropIndex(v, c)
    [] v.stmt = "ADD CONSTRAINT"  -> ExecuteAddConstraint(v, c)
    [] v.stmt = "DROP CONSTRAINT" -> ExecuteDropConstraint(v, c)
    [] v.stmt = "CREATE TYPE"     -> ApplyCreateType(v, c)
    [] v.stmt = "ADD VALUE"       -> ExecuteAddValue(v, c)
    [] v.stmt = "DROP TYPE"       -> ExecuteDropType(v, c)
    [] v.stmt \in {"SET NOT NULL", "DROP NOT NULL", "SET DEFAULT",
                   "DROP DEFAULT", "ALTER TYPE"} -> ExecuteAlterColumn(v, c)

\* The catalogs a sequence of statements can turn c into, empty on an error.
Execute(stmts, c) ==
  FoldLeft(LAMBDA cs, v : UNION {Executed(v, x) : x \in cs}, {c}, stmts)
=============================================================================
