------------------------------ MODULE Generator -------------------------------
(***************************************************************************)
(* internal/sql/postgres: the SQL statements of an operation, forward and  *)
(* in reverse.  A statement is a record tagged with what it says; quoting  *)
(* and layout are left out, because unquoteIdentifier undoes the first and *)
(* the loader's splitting undoes the second.                               *)
(***************************************************************************)
EXTENDS Planner, SequencesExt

(***************************************************************************)
(* The statements, one set of records per shape.                           *)
(***************************************************************************)
TableStmts      == [stmt : {"DROP TABLE"}, table : Tables]
CreateTableStmts == [stmt : {"CREATE TABLE"}, table : Tables, tabledef : Table]
ColumnStmts     == [stmt : {"DROP COLUMN", "SET NOT NULL", "DROP NOT NULL", "DROP DEFAULT"},
                    table : Tables, column : Columns]
AddColumnStmts  == [stmt : {"ADD COLUMN"}, table : Tables, column : Columns,
                    coldef : Column]
RenameStmts     == [stmt : {"RENAME COLUMN"}, table : Tables, column : Columns,
                    to : Columns]
TypeStmts       == [stmt : {"ALTER TYPE"}, table : Tables, column : Columns,
                    type : DataType]
DefaultStmts    == [stmt : {"SET DEFAULT"}, table : Tables, column : Columns,
                    default : DefaultValue]
CreateIndexStmts == [stmt : {"CREATE INDEX"}, table : Tables, index : Index]
DropIndexStmts  == [stmt : {"DROP INDEX"}, name : Name]
ForeignKeyStmts == [stmt : {"ADD CONSTRAINT"}, table : Tables, fk : ForeignKey]
DropKeyStmts    == [stmt : {"DROP CONSTRAINT"}, table : Tables, name : Name]
CreateTypeStmts == [stmt : {"CREATE TYPE"}, enum : Enums, values : SUBSET Literals]
AddValueStmts   == [stmt : {"ADD VALUE"}, enum : Enums, value : Literals]
DropTypeStmts   == [stmt : {"DROP TYPE"}, enum : Enums]

Statement ==
  TableStmts \cup CreateTableStmts \cup ColumnStmts \cup AddColumnStmts
    \cup RenameStmts \cup TypeStmts \cup DefaultStmts \cup CreateIndexStmts
    \cup DropIndexStmts \cup ForeignKeyStmts \cup DropKeyStmts
    \cup CreateTypeStmts \cup AddValueStmts \cup DropTypeStmts
-----------------------------------------------------------------------------
\* formatDefault: a sequence that names no sequence object has no SQL text, and
\* that is how every autoincrement() default arrives.
FormatDefault(d) == IF d.kind = "sequence" THEN NoDefault ELSE d

Format(coldef) == [coldef EXCEPT !.default = FormatDefault(coldef.default)]

IndexName(t, i) == IF i.name = NoName THEN <<"idx", t>> \o i.cols ELSE i.name

ForeignKeyName(t, k) == IF k.name = NoName THEN <<"fk", t>> \o k.cols ELSE k.name

OnColumn(stmt, op) == [stmt |-> stmt, table |-> op.table, column |-> op.column]

\* Columns, primary key and unique constraints; neither indexes nor foreign keys.
CreateTable(t, tabledef) ==
  [stmt |-> "CREATE TABLE", table |-> t,
   tabledef |-> [tabledef EXCEPT
     !.cols = [c \in Columns |-> IF tabledef.cols[c] = Absent THEN Absent
                                 ELSE Format(tabledef.cols[c])],
     !.indexes = {}, !.fks = {}]]

CreateIndex(t, i) ==
  [stmt |-> "CREATE INDEX", table |-> t,
   index |-> [i EXCEPT !.name = IndexName(t, i)]]

DropIndex(t, i) == [stmt |-> "DROP INDEX", name |-> IndexName(t, i)]

(***************************************************************************)
(* ALTER COLUMN.  The type is written only when the kind differs, and a    *)
(* default is compared here without the differ's normalisation.            *)
(***************************************************************************)
\* Mutant: the statement names the kind and forgets the rest of the type.
AlterColumnKind(op) ==
  IF op.old.type.kind = op.new.type.kind THEN << >>
  ELSE <<[stmt |-> "ALTER TYPE", table |-> op.table, column |-> op.column,
          type |-> [kind |-> op.new.type.kind]]>>

AlterColumnType(op) ==
  IF op.old.type.kind = op.new.type.kind THEN << >>
  ELSE <<[stmt |-> "ALTER TYPE", table |-> op.table, column |-> op.column,
          type |-> op.new.type]>>

\* Mutant: a column never becomes NOT NULL.
AlterColumnDropNull(op) ==
  IF op.new.nullable /\ ~op.old.nullable THEN <<OnColumn("DROP NOT NULL", op)>>
  ELSE << >>

AlterColumnNull(op) ==
  IF op.old.nullable = op.new.nullable THEN << >>
  ELSE IF op.new.nullable THEN <<OnColumn("DROP NOT NULL", op)>>
  ELSE <<OnColumn("SET NOT NULL", op)>>

AlterColumnDefault(op) ==
  IF op.old.default = op.new.default THEN << >>
  ELSE IF op.new.default = NoDefault THEN <<OnColumn("DROP DEFAULT", op)>>
  ELSE IF FormatDefault(op.new.default) = NoDefault THEN << >>
  ELSE <<[stmt |-> "SET DEFAULT", table |-> op.table, column |-> op.column,
          default |-> op.new.default]>>

AlterEnum(op) ==
  LET added == SetToSeq(op.add)
  IN  [i \in 1..Cardinality(op.add) |->
         [stmt |-> "ADD VALUE", enum |-> op.enum, value |-> added[i]]]
-----------------------------------------------------------------------------
\* Generator.generateOperation
GenerateOperation(op) ==
  CASE op.op = "CreateTable"  -> <<CreateTable(op.table, op.tabledef)>>
    [] op.op = "DropTable"    -> <<[stmt |-> "DROP TABLE", table |-> op.table]>>
    [] op.op = "AddColumn"    ->
         <<[stmt |-> "ADD COLUMN", table |-> op.table, column |-> op.column,
            coldef |-> Format(op.coldef)]>>
    [] op.op = "DropColumn"   -> <<OnColumn("DROP COLUMN", op)>>
    [] op.op = "RenameColumn" ->
         <<[stmt |-> "RENAME COLUMN", table |-> op.table, column |-> op.column,
            to |-> op.to]>>
    [] op.op = "AlterColumn"  ->
         AlterColumnType(op) \o AlterColumnNull(op) \o AlterColumnDefault(op)
    [] op.op = "CreateIndex"  -> <<CreateIndex(op.table, op.index)>>
    [] op.op = "DropIndex"    -> <<DropIndex(op.table, op.index)>>
    [] op.op = "CreateForeignKey" ->
         <<[stmt |-> "ADD CONSTRAINT", table |-> op.table,
            fk |-> [op.fk EXCEPT !.name = ForeignKeyName(op.table, op.fk)]]>>
    [] op.op = "DropForeignKey" ->
         <<[stmt |-> "DROP CONSTRAINT", table |-> op.table, name |-> op.name]>>
    [] op.op = "CreateEnum"   ->
         <<[stmt |-> "CREATE TYPE", enum |-> op.enum, values |-> op.values]>>
    [] op.op = "AlterEnum"    -> AlterEnum(op)

\* The operations generateReverseOperation answers with a warning alone.
IsIrreversible(op) ==
  op.op \in {"DropTable", "DropColumn", "AlterColumn", "DropForeignKey", "AlterEnum"}

\* Generator.generateReverseOperation
GenerateReverseOperation(op) ==
  CASE op.op = "CreateTable" -> <<[stmt |-> "DROP TABLE", table |-> op.table]>>
    [] op.op = "AddColumn"   -> <<OnColumn("DROP COLUMN", op)>>
    [] op.op = "RenameColumn" ->
         <<[stmt |-> "RENAME COLUMN", table |-> op.table, column |-> op.to,
            to |-> op.column]>>
    [] op.op = "CreateIndex" -> <<DropIndex(op.table, op.index)>>
    [] op.op = "DropIndex"   -> <<CreateIndex(op.table, op.index)>>
    [] op.op = "CreateForeignKey" ->
         <<[stmt |-> "DROP CONSTRAINT", table |-> op.table,
            name |-> ForeignKeyName(op.table, op.fk)]>>
    [] op.op = "CreateEnum"  -> <<[stmt |-> "DROP TYPE", enum |-> op.enum]>>
    [] IsIrreversible(op)    -> << >>
=============================================================================
