---------------------------- MODULE SchemaBuilder -----------------------------
(***************************************************************************)
(* internal/migration: how the parser reads back a statement the generator *)
(* wrote, and how SchemaBuilder.Apply changes the schema being rebuilt.    *)
(*                                                                         *)
(* Applied(v, s) is the set of schemas statement v can turn s into: empty  *)
(* when the parser or the builder returns an error.  Statements a          *)
(* developer could write by hand but the generator never does (IF EXISTS,  *)
(* CASCADE, inline REFERENCES, CHECK) are left out.                        *)
(***************************************************************************)
EXTENDS Generator

When(condition, s) == IF condition THEN {s} ELSE {}

\* mapSQLType, after parseColumnDef took one token for the type: DOUBLE
\* PRECISION arrives as DOUBLE, which no case matches.
IsSupported(type, s) ==
  /\ type.kind # "float64"
  /\ type.kind = "enum" => type.enum \in Present(s.enums)

\* SET DEFAULT takes one token too, and a call's argument list is the next one.
WithoutCall(d) ==
  CASE d = Expression("now()")              -> Expression("now")
    [] d = Expression("gen_random_uuid()")  -> Expression("gen_random_uuid")
    [] d = Expression("uuid_generate_v4()") -> Expression("uuid_generate_v4")
    [] OTHER -> d
-----------------------------------------------------------------------------
SetTable(s, t, tabledef) == [s EXCEPT !.tables[t] = tabledef]

SetColumn(s, t, c, coldef) == [s EXCEPT !.tables[t].cols[c] = coldef]

SetIndexes(s, t, indexes) == [s EXCEPT !.tables[t].indexes = indexes]

HasTable(s, t) == s.tables[t] # Absent

HasColumn(s, t, c) == HasTable(s, t) /\ s.tables[t].cols[c] # Absent

IndexNamesOf(s, t) == {i.name : i \in s.tables[t].indexes}

(***************************************************************************)
(* The statements, one operator per function of the builder.               *)
(***************************************************************************)
ApplyCreateTable(v, s) ==
  When(/\ ~HasTable(s, v.table)
       /\ \A c \in Present(v.tabledef.cols) :
            IsSupported(v.tabledef.cols[c].type, s),
       SetTable(s, v.table, v.tabledef))

ApplyDropTable(v, s) ==
  When(HasTable(s, v.table), SetTable(s, v.table, Absent))

\* Mutant: NOT NULL is read in CREATE TABLE only.
ApplyAddNullable(v, s) ==
  When(/\ HasTable(s, v.table)
       /\ ~HasColumn(s, v.table, v.column)
       /\ IsSupported(v.coldef.type, s),
       SetColumn(s, v.table, v.column, [v.coldef EXCEPT !.nullable = TRUE]))

ApplyAddColumn(v, s) ==
  When(/\ HasTable(s, v.table)
       /\ ~HasColumn(s, v.table, v.column)
       /\ IsSupported(v.coldef.type, s),
       SetColumn(s, v.table, v.column, v.coldef))

\* The column's indexes, keys and constraints stay.
ApplyDropColumn(v, s) ==
  When(HasColumn(s, v.table, v.column),
       SetColumn(s, v.table, v.column, Absent))

\* A target that exists already, which would be there twice, is left out: the
\* generator renames to columns that are new.
ApplyRenameColumn(v, s) ==
  When(HasColumn(s, v.table, v.column),
       SetColumn(SetColumn(s, v.table, v.column, Absent), v.table, v.to,
                 s.tables[v.table].cols[v.column]))

AlteredColumn(v, col) ==
  CASE v.stmt = "SET NOT NULL"  -> [col EXCEPT !.nullable = FALSE]
    [] v.stmt = "DROP NOT NULL" -> [col EXCEPT !.nullable = TRUE]
    [] v.stmt = "SET DEFAULT"   -> [col EXCEPT !.default = WithoutCall(v.default)]
    [] v.stmt = "DROP DEFAULT"  -> [col EXCEPT !.default = NoDefault]
    [] v.stmt = "ALTER TYPE"    -> [col EXCEPT !.type = v.type]

ApplyAlterColumn(v, s) ==
  When(/\ HasColumn(s, v.table, v.column)
       /\ v.stmt = "ALTER TYPE" => IsSupported(v.type, s),
       SetColumn(s, v.table, v.column,
                 AlteredColumn(v, s.tables[v.table].cols[v.column])))

\* The columns are not looked up, and a name is unique within its table only.
ApplyCreateIndex(v, s) ==
  When(/\ HasTable(s, v.table)
       /\ v.index.name \notin IndexNamesOf(s, v.table),
       SetIndexes(s, v.table, s.tables[v.table].indexes \cup {v.index}))

\* Any table with an index of that name may be the one the map yields first.
ApplyDropIndex(v, s) ==
  {SetIndexes(s, t, {i \in s.tables[t].indexes : i.name # v.name}) :
     t \in {u \in Present(s.tables) : v.name \in IndexNamesOf(s, u)}}

ApplyCreateType(v, s) ==
  When(s.enums[v.enum] = Absent, [s EXCEPT !.enums[v.enum] = v.values])

ApplyDropType(v, s) ==
  When(s.enums[v.enum] # Absent, [s EXCEPT !.enums[v.enum] = Absent])

\* SchemaBuilder.Apply.  The parser gives ADD CONSTRAINT and DROP CONSTRAINT no
\* action and the builder has no case for ALTER TYPE: all three are errors.
Applied(v, s) ==
  CASE v.stmt = "CREATE TABLE"  -> ApplyCreateTable(v, s)
    [] v.stmt = "DROP TABLE"    -> ApplyDropTable(v, s)
    [] v.stmt = "ADD COLUMN"    -> ApplyAddColumn(v, s)
    [] v.stmt = "DROP COLUMN"   -> ApplyDropColumn(v, s)
    [] v.stmt = "RENAME COLUMN" -> ApplyRenameColumn(v, s)
    [] v.stmt = "CREATE INDEX"  -> ApplyCreateIndex(v, s)
    [] v.stmt = "DROP INDEX"    -> ApplyDropIndex(v, s)
    [] v.stmt = "CREATE TYPE"   -> ApplyCreateType(v, s)
    [] v.stmt = "DROP TYPE"     -> ApplyDropType(v, s)
    [] v.stmt \in {"SET NOT NULL", "DROP NOT NULL", "SET DEFAULT",
                   "DROP DEFAULT", "ALTER TYPE"} -> ApplyAlterColumn(v, s)
    [] v.stmt \in {"ADD CONSTRAINT", "DROP CONSTRAINT", "ADD VALUE"} -> {}
=============================================================================
