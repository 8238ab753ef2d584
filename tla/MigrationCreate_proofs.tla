------------------------ MODULE MigrationCreate_proofs ------------------------
(***************************************************************************)
(* `dryft migration create`: type correctness, the gates on destructive    *)
(* operations and on NOT NULL columns, and a history that can be read back *)
(* and says what it was written for, for every set of names and literals,  *)
(* every set of schemas a developer may write and any number of edits and  *)
(* files.  The history needs the schemas to be Replayable.                 *)
(*                                                                         *)
(* First the differ, the generator and the builder: what their operators   *)
(* return, and how they fit together.  When the schema being rebuilt       *)
(* differs from the desired one by a set of operations, the SQL of any     *)
(* operation the planner may take next is read back, and leaves the same   *)
(* operations but that one.                                                *)
(***************************************************************************)
EXTENDS MigrationCreate, ReplayableSchemas, FiniteSetTheorems, TLAPS

(***************************************************************************)
(* The statements of an operation are statements.                          *)
(***************************************************************************)
\* What an autoincrement default becomes is a default.
LEMMA FormatType ==
  ASSUME NEW coldef \in Column
  PROVE  Format(coldef) \in Column
BY DEF Format, FormatDefault, Column, DefaultValue, NoDefault

\* Generated index and constraint names are names.
LEMMA NameType ==
  ASSUME NEW t \in Tables, NEW cols \in Seq(Columns), NEW w \in {"idx", "fk"}
  PROVE  <<w, t>> \o cols \in Name
<1>1. <<w, t>> \in Seq(Words)
  BY DEF Words
<1>2. cols \in Seq(Words)
  BY DEF Words
<1> QED
  BY <1>1, <1>2 DEF Name

\* The name the generator gives an index without one is a name.
LEMMA IndexNameType ==
  ASSUME NEW t \in Tables, NEW i \in Index
  PROVE  IndexName(t, i) \in Name
<1>1. i.cols \in Seq(Columns) /\ i.name \in Name
  BY DEF Index
<1> QED
  BY <1>1, NameType DEF IndexName

\* And so is the name it gives a foreign key without one.
LEMMA ForeignKeyNameType ==
  ASSUME NEW t \in Tables, NEW k \in ForeignKey
  PROVE  ForeignKeyName(t, k) \in Name
<1>1. k.cols \in Seq(Columns) /\ k.name \in Name
  BY DEF ForeignKey
<1> QED
  BY <1>1, NameType DEF ForeignKeyName

\* A finite set can be listed, so SetToSeq lists members of it.
LEMMA SetToSeqType ==
  ASSUME NEW S, IsFiniteSet(S)
  PROVE  SetToSeq(S) \in [1..Cardinality(S) -> S]
<1>1. PICK f : f \in Bijection(1..Cardinality(S), S)
  BY FS_CardinalityType DEF ExistsBijection
<1>2. f \in [1..Cardinality(S) -> S] /\ IsInjective(f)
  BY <1>1 DEF Bijection, Injection, IsInjective
<1> QED
  BY <1>2 DEF SetToSeq
-----------------------------------------------------------------------------
\* The Up statements of each kind of operation.
LEMMA CreateTableType ==
  ASSUME NEW t \in Tables, NEW tabledef \in Table
  PROVE  CreateTable(t, tabledef) \in Statement
<1> DEFINE cols == [c \in Columns |-> IF tabledef.cols[c] = Absent THEN Absent
                                      ELSE Format(tabledef.cols[c])]
<1>1. cols \in [Columns -> {Absent} \cup Column]
  BY FormatType DEF Table
<1>2. [tabledef EXCEPT !.cols = cols, !.indexes = {}, !.fks = {}] \in Table
  BY <1>1 DEF Table
<1> QED
  BY <1>2 DEF CreateTable, Statement, CreateTableStmts

\* CREATE INDEX, under the name the generator chooses, is a statement.
LEMMA CreateIndexType ==
  ASSUME NEW t \in Tables, NEW i \in Index
  PROVE  CreateIndex(t, i) \in Statement
<1>1. [i EXCEPT !.name = IndexName(t, i)] \in Index
  BY IndexNameType DEF Index
<1> QED
  BY <1>1 DEF CreateIndex, Statement, CreateIndexStmts

\* DROP INDEX is a statement.
LEMMA DropIndexType ==
  ASSUME NEW t \in Tables, NEW i \in Index
  PROVE  DropIndex(t, i) \in Statement
BY IndexNameType DEF DropIndex, Statement, DropIndexStmts

\* The ALTER TABLE statements that name a column and nothing else.
LEMMA OnColumnType ==
  ASSUME NEW op, op.table \in Tables, op.column \in Columns,
         NEW w \in {"DROP COLUMN", "SET NOT NULL", "DROP NOT NULL", "DROP DEFAULT"}
  PROVE  OnColumn(w, op) \in Statement
BY DEF OnColumn, Statement, ColumnStmts

\* Sequences of none, one or n members of a set.
LEMMA SeqType ==
  ASSUME NEW S
  PROVE  /\ << >> \in Seq(S)
         /\ \A x \in S : <<x>> \in Seq(S)
         /\ \A n \in Nat : \A f \in [1..n -> S] : f \in Seq(S)
OBVIOUS

\* The three lists of statements an AlterColumn may give, type, null and
\* default, hold statements.
LEMMA AlterColumnsType ==
  ASSUME NEW op \in AlterColumns
  PROVE  /\ AlterColumnType(op) \in Seq(Statement)
         /\ AlterColumnNull(op) \in Seq(Statement)
         /\ AlterColumnDefault(op) \in Seq(Statement)
<1>1. /\ op.table \in Tables /\ op.column \in Columns
      /\ op.new.type \in DataType /\ op.new.default \in DefaultValue
  BY DEF AlterColumns, Column
<1>2. AlterColumnType(op) \in Seq(Statement)
  <2> DEFINE v == [stmt |-> "ALTER TYPE", table |-> op.table,
                   column |-> op.column, type |-> op.new.type]
  <2>1. v \in Statement
    BY <1>1 DEF Statement, TypeStmts
  <2>2. AlterColumnType(op) = << >> \/ AlterColumnType(op) = <<v>>
    BY Zenon DEF AlterColumnType
  <2> HIDE DEF v
  <2> QED
    BY <2>1, <2>2, SeqType, Zenon
<1>3. AlterColumnNull(op) \in Seq(Statement)
  <2>1. OnColumn("DROP NOT NULL", op) \in Statement
    BY <1>1, OnColumnType
  <2>2. OnColumn("SET NOT NULL", op) \in Statement
    BY <1>1, OnColumnType
  <2>3. \/ AlterColumnNull(op) = << >>
        \/ AlterColumnNull(op) = <<OnColumn("DROP NOT NULL", op)>>
        \/ AlterColumnNull(op) = <<OnColumn("SET NOT NULL", op)>>
    BY Zenon DEF AlterColumnNull
  <2> QED
    BY <2>1, <2>2, <2>3, SeqType, Zenon
<1>4. AlterColumnDefault(op) \in Seq(Statement)
  <2> DEFINE v == [stmt |-> "SET DEFAULT", table |-> op.table,
                   column |-> op.column, default |-> op.new.default]
  <2>1. OnColumn("DROP DEFAULT", op) \in Statement
    BY <1>1, OnColumnType
  <2>2. v \in Statement
    BY <1>1 DEF Statement, DefaultStmts
  <2>3. \/ AlterColumnDefault(op) = << >>
        \/ AlterColumnDefault(op) = <<OnColumn("DROP DEFAULT", op)>>
        \/ AlterColumnDefault(op) = <<v>>
    BY Zenon DEF AlterColumnDefault
  <2> HIDE DEF v
  <2> QED
    BY <2>1, <2>2, <2>3, SeqType, Zenon
<1> QED
  BY <1>2, <1>3, <1>4

\* ALTER TYPE ... ADD VALUE, one statement for each label, in order.
LEMMA AlterEnumType ==
  ASSUME NEW op \in AlterEnums
  PROVE  AlterEnum(op) \in Seq(Statement)
<1> DEFINE n == Cardinality(op.add)
           v(i) == [stmt |-> "ADD VALUE", enum |-> op.enum,
                    value |-> SetToSeq(op.add)[i]]
<1>1. op.enum \in Enums /\ op.add \subseteq Literals
  BY DEF AlterEnums
<1>2. IsFiniteSet(op.add)
  BY <1>1, LiteralsAssumption, FS_Subset
<1>3. SetToSeq(op.add) \in [1..n -> op.add]
  BY <1>2, SetToSeqType
<1>4. n \in Nat
  BY <1>2, FS_CardinalityType
<1>5. ASSUME NEW i \in 1..n PROVE v(i) \in Statement
  BY <1>1, <1>3 DEF Statement, AddValueStmts
<1>6. AlterEnum(op) = [i \in 1..n |-> v(i)]
  BY DEF AlterEnum
<1> HIDE DEF n, v
<1>7. [i \in 1..n |-> v(i)] \in [1..n -> Statement]
  BY <1>5
<1> QED
  BY <1>4, <1>6, <1>7, SeqType, Zenon
-----------------------------------------------------------------------------
\* Every operation has its tag, and the fields that go with it.
LEMMA OperationCases ==
  ASSUME NEW op \in Operation
  PROVE  \/ op \in CreateTables  /\ op.op = "CreateTable"
         \/ op \in DropTables    /\ op.op = "DropTable"
         \/ op \in AddColumns    /\ op.op = "AddColumn"
         \/ op \in DropColumns   /\ op.op = "DropColumn"
         \/ op \in RenameColumns /\ op.op = "RenameColumn"
         \/ op \in AlterColumns  /\ op.op = "AlterColumn"
         \/ op \in CreateIndexes /\ op.op = "CreateIndex"
         \/ op \in DropIndexes   /\ op.op = "DropIndex"
         \/ op \in CreateForeignKeys /\ op.op = "CreateForeignKey"
         \/ op \in DropForeignKeys   /\ op.op = "DropForeignKey"
         \/ op \in CreateEnums   /\ op.op = "CreateEnum"
         \/ op \in AlterEnums    /\ op.op = "AlterEnum"
BY DEF Operation, CreateTables, DropTables, AddColumns, DropColumns,
       RenameColumns, AlterColumns, CreateIndexes, DropIndexes,
       CreateForeignKeys, DropForeignKeys, CreateEnums, AlterEnums

\* The Up section of an operation is a sequence of statements.
LEMMA GenerateOperationType ==
  ASSUME NEW op \in Operation
  PROVE  GenerateOperation(op) \in Seq(Statement)
<1>1. CASE op \in CreateTables /\ op.op = "CreateTable"
  <2>1. op.table \in Tables /\ op.tabledef \in Table
    BY <1>1 DEF CreateTables
  <2>2. GenerateOperation(op) = <<CreateTable(op.table, op.tabledef)>>
    BY <1>1 DEF GenerateOperation
  <2> QED
    BY <2>1, <2>2, CreateTableType, SeqType, Zenon
<1>2. CASE op \in DropTables /\ op.op = "DropTable"
  <2>1. [stmt |-> "DROP TABLE", table |-> op.table] \in Statement
    BY <1>2 DEF DropTables, Statement, TableStmts
  <2>2. GenerateOperation(op) = <<[stmt |-> "DROP TABLE", table |-> op.table]>>
    BY <1>2 DEF GenerateOperation
  <2> QED
    BY <2>1, <2>2, SeqType, Zenon
<1>3. CASE op \in AddColumns /\ op.op = "AddColumn"
  <2> DEFINE v == [stmt |-> "ADD COLUMN", table |-> op.table,
                   column |-> op.column, coldef |-> Format(op.coldef)]
  <2>1. op.table \in Tables /\ op.column \in Columns /\ op.coldef \in Column
    BY <1>3 DEF AddColumns
  <2>2. Format(op.coldef) \in Column
    BY <2>1, FormatType
  <2>3. v \in Statement
    BY <2>1, <2>2 DEF Statement, AddColumnStmts
  <2>4. GenerateOperation(op) = <<v>>
    BY <1>3 DEF GenerateOperation
  <2> HIDE DEF v
  <2> QED
    BY <2>3, <2>4, SeqType, Zenon
<1>4. CASE op \in DropColumns /\ op.op = "DropColumn"
  <2>1. OnColumn("DROP COLUMN", op) \in Statement
    BY <1>4, OnColumnType DEF DropColumns
  <2>2. GenerateOperation(op) = <<OnColumn("DROP COLUMN", op)>>
    BY <1>4 DEF GenerateOperation
  <2> QED
    BY <2>1, <2>2, SeqType, Zenon
<1>5. CASE op \in RenameColumns /\ op.op = "RenameColumn"
  <2> DEFINE v == [stmt |-> "RENAME COLUMN", table |-> op.table,
                   column |-> op.column, to |-> op.to]
  <2>1. v \in Statement
    BY <1>5 DEF RenameColumns, Statement, RenameStmts
  <2>2. GenerateOperation(op) = <<v>>
    BY <1>5 DEF GenerateOperation
  <2> HIDE DEF v
  <2> QED
    BY <2>1, <2>2, SeqType, Zenon
<1>6. CASE op \in AlterColumns /\ op.op = "AlterColumn"
  <2>1. GenerateOperation(op)
          = AlterColumnType(op) \o AlterColumnNull(op) \o AlterColumnDefault(op)
    BY <1>6 DEF GenerateOperation
  <2>2. \A a, b, c \in Seq(Statement) : a \o b \o c \in Seq(Statement)
    OBVIOUS
  <2> QED
    BY <1>6, <2>1, <2>2, AlterColumnsType, Zenon
<1>7. CASE op \in CreateIndexes /\ op.op = "CreateIndex"
  <2>1. CreateIndex(op.table, op.index) \in Statement
    BY <1>7, CreateIndexType DEF CreateIndexes
  <2>2. GenerateOperation(op) = <<CreateIndex(op.table, op.index)>>
    BY <1>7 DEF GenerateOperation
  <2> QED
    BY <2>1, <2>2, SeqType, Zenon
<1>8. CASE op \in DropIndexes /\ op.op = "DropIndex"
  <2>1. DropIndex(op.table, op.index) \in Statement
    BY <1>8, DropIndexType DEF DropIndexes
  <2>2. GenerateOperation(op) = <<DropIndex(op.table, op.index)>>
    BY <1>8 DEF GenerateOperation
  <2> QED
    BY <2>1, <2>2, SeqType, Zenon
<1>9. CASE op \in CreateForeignKeys /\ op.op = "CreateForeignKey"
  <2> DEFINE fk == [op.fk EXCEPT !.name = ForeignKeyName(op.table, op.fk)]
             v  == [stmt |-> "ADD CONSTRAINT", table |-> op.table, fk |-> fk]
  <2>1. op.table \in Tables /\ op.fk \in ForeignKey
    BY <1>9 DEF CreateForeignKeys
  <2>2. fk \in ForeignKey
    BY <2>1, ForeignKeyNameType DEF ForeignKey
  <2>3. v \in Statement
    <3> HIDE DEF fk
    <3> QED
      BY <2>1, <2>2 DEF Statement, ForeignKeyStmts
  <2>4. GenerateOperation(op) = <<v>>
    BY <1>9 DEF GenerateOperation
  <2> HIDE DEF v
  <2> QED
    BY <2>3, <2>4, SeqType, Zenon
<1>10. CASE op \in DropForeignKeys /\ op.op = "DropForeignKey"
  <2> DEFINE v == [stmt |-> "DROP CONSTRAINT", table |-> op.table, name |-> op.name]
  <2>1. v \in Statement
    BY <1>10 DEF DropForeignKeys, Statement, DropKeyStmts
  <2>2. GenerateOperation(op) = <<v>>
    BY <1>10 DEF GenerateOperation
  <2> HIDE DEF v
  <2> QED
    BY <2>1, <2>2, SeqType, Zenon
<1>11. CASE op \in CreateEnums /\ op.op = "CreateEnum"
  <2> DEFINE v == [stmt |-> "CREATE TYPE", enum |-> op.enum, values |-> op.values]
  <2>1. v \in Statement
    BY <1>11 DEF CreateEnums, Statement, CreateTypeStmts
  <2>2. GenerateOperation(op) = <<v>>
    BY <1>11 DEF GenerateOperation
  <2> HIDE DEF v
  <2> QED
    BY <2>1, <2>2, SeqType, Zenon
<1>12. CASE op \in AlterEnums /\ op.op = "AlterEnum"
  <2>1. GenerateOperation(op) = AlterEnum(op)
    BY <1>12 DEF GenerateOperation
  <2> QED
    BY <1>12, <2>1, AlterEnumType
<1> QED
  BY <1>1, <1>2, <1>3, <1>4, <1>5, <1>6, <1>7, <1>8, <1>9, <1>10, <1>11,
     <1>12, OperationCases, ZenonT(40)

\* The Down section of an operation is a sequence of statements.
LEMMA GenerateReverseOperationType ==
  ASSUME NEW op \in Operation
  PROVE  GenerateReverseOperation(op) \in Seq(Statement)
<1>1. CASE op \in CreateTables /\ op.op = "CreateTable"
  <2>1. [stmt |-> "DROP TABLE", table |-> op.table] \in Statement
    BY <1>1 DEF CreateTables, Statement, TableStmts
  <2>2. GenerateReverseOperation(op)
          = <<[stmt |-> "DROP TABLE", table |-> op.table]>>
    BY <1>1 DEF GenerateReverseOperation, IsIrreversible
  <2> QED
    BY <2>1, <2>2, SeqType, Zenon
<1>2. CASE op \in AddColumns /\ op.op = "AddColumn"
  <2>1. OnColumn("DROP COLUMN", op) \in Statement
    BY <1>2, OnColumnType DEF AddColumns
  <2>2. GenerateReverseOperation(op) = <<OnColumn("DROP COLUMN", op)>>
    BY <1>2 DEF GenerateReverseOperation, IsIrreversible
  <2> QED
    BY <2>1, <2>2, SeqType, Zenon
<1>3. CASE op \in RenameColumns /\ op.op = "RenameColumn"
  <2> DEFINE v == [stmt |-> "RENAME COLUMN", table |-> op.table,
                   column |-> op.to, to |-> op.column]
  <2>1. v \in Statement
    BY <1>3 DEF RenameColumns, Statement, RenameStmts
  <2>2. GenerateReverseOperation(op) = <<v>>
    BY <1>3 DEF GenerateReverseOperation, IsIrreversible
  <2> HIDE DEF v
  <2> QED
    BY <2>1, <2>2, SeqType, Zenon
<1>4. CASE op \in CreateIndexes /\ op.op = "CreateIndex"
  <2>1. DropIndex(op.table, op.index) \in Statement
    BY <1>4, DropIndexType DEF CreateIndexes
  <2>2. GenerateReverseOperation(op) = <<DropIndex(op.table, op.index)>>
    BY <1>4 DEF GenerateReverseOperation, IsIrreversible
  <2> QED
    BY <2>1, <2>2, SeqType, Zenon
<1>5. CASE op \in DropIndexes /\ op.op = "DropIndex"
  <2>1. CreateIndex(op.table, op.index) \in Statement
    BY <1>5, CreateIndexType DEF DropIndexes
  <2>2. GenerateReverseOperation(op) = <<CreateIndex(op.table, op.index)>>
    BY <1>5 DEF GenerateReverseOperation, IsIrreversible
  <2> QED
    BY <2>1, <2>2, SeqType, Zenon
<1>6. CASE op \in CreateForeignKeys /\ op.op = "CreateForeignKey"
  <2> DEFINE v == [stmt |-> "DROP CONSTRAINT", table |-> op.table,
                   name |-> ForeignKeyName(op.table, op.fk)]
  <2>1. op.table \in Tables /\ op.fk \in ForeignKey
    BY <1>6 DEF CreateForeignKeys
  <2>2. v \in Statement
    BY <2>1, ForeignKeyNameType DEF Statement, DropKeyStmts
  <2>3. GenerateReverseOperation(op) = <<v>>
    BY <1>6 DEF GenerateReverseOperation, IsIrreversible
  <2> HIDE DEF v
  <2> QED
    BY <2>2, <2>3, SeqType, Zenon
<1>7. CASE op \in CreateEnums /\ op.op = "CreateEnum"
  <2>1. [stmt |-> "DROP TYPE", enum |-> op.enum] \in Statement
    BY <1>7 DEF CreateEnums, Statement, DropTypeStmts
  <2>2. GenerateReverseOperation(op) = <<[stmt |-> "DROP TYPE", enum |-> op.enum]>>
    BY <1>7 DEF GenerateReverseOperation, IsIrreversible
  <2> QED
    BY <2>1, <2>2, SeqType, Zenon
<1>8. CASE op.op \in {"DropTable", "DropColumn", "AlterColumn", "DropForeignKey",
                      "AlterEnum"}
  <2>1. GenerateReverseOperation(op) = << >>
    BY <1>8 DEF GenerateReverseOperation, IsIrreversible
  <2> QED
    BY <2>1, SeqType, Zenon
<1> QED
  BY <1>1, <1>2, <1>3, <1>4, <1>5, <1>6, <1>7, <1>8, OperationCases
-----------------------------------------------------------------------------
(***************************************************************************)
(* What the differ finds between two schemas are operations.               *)
(***************************************************************************)
\* Enums: what is there on either side is a set of labels.
LEMMA DiffEnumsType ==
  ASSUME NEW before \in [Enums -> {Absent} \cup SUBSET Literals],
         NEW after  \in [Enums -> {Absent} \cup SUBSET Literals]
  PROVE  DiffEnums(before, after) \subseteq Operation
<1>1. \A e \in Present(after) : e \in Enums /\ after[e] \in SUBSET Literals
  BY DEF Present
<1>2. \A e \in Present(before) : e \in Enums /\ before[e] \in SUBSET Literals
  BY DEF Present
<1>3. ASSUME NEW e \in Present(after)
      PROVE  [op |-> "CreateEnum", enum |-> e, values |-> after[e]] \in Operation
  BY <1>1 DEF Operation, CreateEnums
<1>4. ASSUME NEW e \in Present(after) \cap Present(before)
      PROVE  [op |-> "AlterEnum", enum |-> e, add |-> after[e] \ before[e],
              drop |-> before[e] \ after[e]] \in Operation
  <2>1. /\ e \in Enums
        /\ after[e] \ before[e] \in SUBSET Literals
        /\ before[e] \ after[e] \in SUBSET Literals
    BY <1>1, <1>2
  <2> QED
    BY <2>1 DEF Operation, AlterEnums
<1> QED
  BY <1>3, <1>4 DEF DiffEnums

\* The columns of one table, whatever the hints.
LEMMA DiffColumnsType ==
  ASSUME NEW t \in Tables,
         NEW before \in [Columns -> {Absent} \cup Column],
         NEW after  \in [Columns -> {Absent} \cup Column],
         NEW hints, hints \subseteq [from : Columns, to : Columns]
  PROVE  DiffColumns(t, before, after, hints) \subseteq Operation
<1>1. \A c \in Present(after) : c \in Columns /\ after[c] \in Column
  BY DEF Present
<1>2. \A c \in Present(before) : c \in Columns /\ before[c] \in Column
  BY DEF Present
<1>3. \A h \in Renames(before, after, hints) :
        h.from \in Present(before) /\ h.to \in Present(after)
  BY DEF Renames
<1>4. ASSUME NEW c \in Columns, NEW d \in Columns
      PROVE  [op |-> "RenameColumn", table |-> t, column |-> c, to |-> d]
               \in Operation
  BY DEF Operation, RenameColumns
<1>5. ASSUME NEW c \in Columns, NEW old \in Column, NEW new \in Column
      PROVE  AlterColumn(t, c, old, new) \in Operation
  BY DEF AlterColumn, Operation, AlterColumns
<1>6. ASSUME NEW c \in Columns, NEW coldef \in Column
      PROVE  [op |-> "AddColumn", table |-> t, column |-> c, coldef |-> coldef]
               \in Operation
  BY DEF Operation, AddColumns
<1>7. ASSUME NEW c \in Columns
      PROVE  [op |-> "DropColumn", table |-> t, column |-> c] \in Operation
  BY DEF Operation, DropColumns
<1> QED
  BY <1>1, <1>2, <1>3, <1>4, <1>5, <1>6, <1>7 DEF DiffColumns

\* An index or a foreign key on either side is one of its table's.
LEMMA DiffIndexesType ==
  ASSUME NEW t \in Tables,
         NEW before \in SUBSET Index, NEW after \in SUBSET Index
  PROVE  DiffIndexes(t, before, after) \subseteq Operation
<1>1. ASSUME NEW i \in Index
      PROVE  /\ [op |-> "CreateIndex", table |-> t, index |-> i] \in Operation
             /\ [op |-> "DropIndex", table |-> t, index |-> i] \in Operation
  BY DEF Operation, CreateIndexes, DropIndexes
<1> QED
  BY <1>1 DEF DiffIndexes, UnmatchedIndexes

\* Foreign keys of one table: what is created has the key, what is dropped its name.
LEMMA DiffForeignKeysType ==
  ASSUME NEW t \in Tables,
         NEW before \in SUBSET ForeignKey, NEW after \in SUBSET ForeignKey
  PROVE  DiffForeignKeys(t, before, after) \subseteq Operation
<1>1. ASSUME NEW k \in ForeignKey
      PROVE  [op |-> "CreateForeignKey", table |-> t, fk |-> k] \in Operation
  BY DEF Operation, CreateForeignKeys
<1>2. ASSUME NEW k \in ForeignKey
      PROVE  [op |-> "DropForeignKey", table |-> t, name |-> k.name] \in Operation
  BY DEF Operation, DropForeignKeys, ForeignKey
<1> QED
  BY <1>1, <1>2 DEF DiffForeignKeys, UnmatchedForeignKeys

\* A table on both sides yields operations.
LEMMA DiffTableType ==
  ASSUME NEW t \in Tables, NEW before \in Table, NEW after \in Table,
         NEW hints, hints \subseteq [from : Columns, to : Columns]
  PROVE  DiffTable(t, before, after, hints) \subseteq Operation
<1>1. DiffColumns(t, before.cols, after.cols, hints) \subseteq Operation
  BY DiffColumnsType DEF Table
<1>2. DiffIndexes(t, before.indexes, after.indexes) \subseteq Operation
  BY DiffIndexesType DEF Table
<1>3. DiffForeignKeys(t, before.fks, after.fks) \subseteq Operation
  BY DiffForeignKeysType DEF Table
<1> QED
  BY <1>1, <1>2, <1>3 DEF DiffTable

\* A new table yields its CreateTable, its indexes and its keys.
LEMMA NewTableType ==
  ASSUME NEW t \in Tables, NEW tabledef \in Table
  PROVE  NewTable(t, tabledef) \subseteq Operation
<1>1. [op |-> "CreateTable", table |-> t, tabledef |-> tabledef] \in Operation
  BY DEF Operation, CreateTables
<1>2. ASSUME NEW i \in tabledef.indexes
      PROVE  [op |-> "CreateIndex", table |-> t, index |-> i] \in Operation
  BY DEF Operation, CreateIndexes, Table
<1>3. ASSUME NEW k \in tabledef.fks
      PROVE  [op |-> "CreateForeignKey", table |-> t, fk |-> k] \in Operation
  BY DEF Operation, CreateForeignKeys, Table
<1> QED
  BY <1>1, <1>2, <1>3 DEF NewTable

\* Two whole schemas.
LEMMA DiffType ==
  ASSUME NEW before \in Schema, NEW after \in Schema,
         NEW hints, hints \subseteq [from : Columns, to : Columns]
  PROVE  Diff(before, after, hints) \subseteq Operation
<1> DEFINE b == before.tables
           a == after.tables
<1>1. DiffEnums(before.enums, after.enums) \subseteq Operation
  BY DiffEnumsType DEF Schema
<1>2. \A t \in Present(b) : t \in Tables /\ b[t] \in Table
  BY DEF Present, Schema
<1>3. \A t \in Present(a) : t \in Tables /\ a[t] \in Table
  BY DEF Present, Schema
<1>4. ASSUME NEW t \in Tables
      PROVE  [op |-> "DropTable", table |-> t] \in Operation
  BY DEF Operation, DropTables
<1> HIDE DEF a, b
<1>5. DiffTables(b, a, hints) \subseteq Operation
  <2>1. ASSUME NEW t \in Present(a) \ Present(b)
        PROVE  NewTable(t, a[t]) \subseteq Operation
    BY <1>3, NewTableType
  <2>2. ASSUME NEW t \in Present(a) \cap Present(b)
        PROVE  DiffTable(t, b[t], a[t], hints) \subseteq Operation
    BY <1>2, <1>3, DiffTableType
  <2>3. ASSUME NEW t \in Present(b) \ Present(a)
        PROVE  [op |-> "DropTable", table |-> t] \in Operation
    BY <1>2, <1>4
  <2> DEFINE new  == UNION {NewTable(t, a[t]) : t \in Present(a) \ Present(b)}
             both == UNION {DiffTable(t, b[t], a[t], hints) :
                              t \in Present(a) \cap Present(b)}
             gone == {[op |-> "DropTable", table |-> t] :
                        t \in Present(b) \ Present(a)}
  <2>4. new \subseteq Operation
    BY <2>1
  <2>5. both \subseteq Operation
    BY <2>2
  <2>6. gone \subseteq Operation
    BY <2>3
  <2>7. DiffTables(b, a, hints) = new \cup both \cup gone
    BY Zenon DEF DiffTables
  <2> HIDE DEF new, both, gone
  <2> QED
    BY <2>4, <2>5, <2>6, <2>7
<1> QED
  BY <1>1, <1>5 DEF Diff, a, b
-----------------------------------------------------------------------------
(***************************************************************************)
(* A statement the builder applies turns a schema into a schema.           *)
(***************************************************************************)
\* Every statement has its tag, and the fields that go with it.
LEMMA StatementCases ==
  ASSUME NEW v \in Statement
  PROVE  \/ v \in TableStmts       /\ v.stmt = "DROP TABLE"
         \/ v \in CreateTableStmts /\ v.stmt = "CREATE TABLE"
         \/ v \in ColumnStmts      /\ v.stmt = "DROP COLUMN"
         \/ v \in ColumnStmts      /\ v.stmt \in {"SET NOT NULL", "DROP NOT NULL",
                                                  "DROP DEFAULT"}
         \/ v \in AddColumnStmts   /\ v.stmt = "ADD COLUMN"
         \/ v \in RenameStmts      /\ v.stmt = "RENAME COLUMN"
         \/ v \in TypeStmts        /\ v.stmt = "ALTER TYPE"
         \/ v \in DefaultStmts     /\ v.stmt = "SET DEFAULT"
         \/ v \in CreateIndexStmts /\ v.stmt = "CREATE INDEX"
         \/ v \in DropIndexStmts   /\ v.stmt = "DROP INDEX"
         \/ v.stmt \in {"ADD CONSTRAINT", "DROP CONSTRAINT", "ADD VALUE"}
         \/ v \in CreateTypeStmts  /\ v.stmt = "CREATE TYPE"
         \/ v \in DropTypeStmts    /\ v.stmt = "DROP TYPE"
<1>1. CASE v \in TableStmts
  BY <1>1 DEF TableStmts
<1>2. CASE v \in CreateTableStmts
  BY <1>2 DEF CreateTableStmts
<1>3. CASE v \in ColumnStmts
  BY <1>3 DEF ColumnStmts
<1>4. CASE v \in AddColumnStmts
  BY <1>4 DEF AddColumnStmts
<1>5. CASE v \in RenameStmts
  BY <1>5 DEF RenameStmts
<1>6. CASE v \in TypeStmts
  BY <1>6 DEF TypeStmts
<1>7. CASE v \in DefaultStmts
  BY <1>7 DEF DefaultStmts
<1>8. CASE v \in CreateIndexStmts
  BY <1>8 DEF CreateIndexStmts
<1>9. CASE v \in DropIndexStmts
  BY <1>9 DEF DropIndexStmts
<1>10. CASE v \in ForeignKeyStmts
  BY <1>10 DEF ForeignKeyStmts
<1>11. CASE v \in DropKeyStmts
  BY <1>11 DEF DropKeyStmts
<1>12. CASE v \in CreateTypeStmts
  BY <1>12 DEF CreateTypeStmts
<1>13. CASE v \in AddValueStmts
  BY <1>13 DEF AddValueStmts
<1>14. CASE v \in DropTypeStmts
  BY <1>14 DEF DropTypeStmts
<1> QED
  BY <1>1, <1>2, <1>3, <1>4, <1>5, <1>6, <1>7, <1>8,
     <1>9, <1>10, <1>11, <1>12, <1>13, <1>14, Zenon DEF Statement

\* Replacing a table, a column or the indexes of a schema leaves a schema.
LEMMA SetTableType ==
  ASSUME NEW s \in Schema, NEW t \in Tables, NEW tabledef \in {Absent} \cup Table
  PROVE  SetTable(s, t, tabledef) \in Schema
BY DEF SetTable, Schema

\* A schema with one column set, added or removed is a schema.
LEMMA SetColumnType ==
  ASSUME NEW s \in Schema, NEW t \in Tables, s.tables[t] \in Table,
         NEW c \in Columns, NEW coldef \in {Absent} \cup Column
  PROVE  /\ SetColumn(s, t, c, coldef) \in Schema
         /\ SetColumn(s, t, c, coldef).tables[t] \in Table
<1> DEFINE tabledef == [s.tables[t] EXCEPT !.cols[c] = coldef]
<1>1. tabledef \in Table
  BY DEF Table
<1>2. SetColumn(s, t, c, coldef) = [s EXCEPT !.tables[t] = tabledef]
  BY DEF SetColumn
<1> HIDE DEF tabledef
<1> QED
  BY <1>1, <1>2 DEF Schema

\* A schema with the indexes of one table replaced is a schema.
LEMMA SetIndexesType ==
  ASSUME NEW s \in Schema, NEW t \in Tables, s.tables[t] \in Table,
         NEW indexes \in SUBSET Index
  PROVE  SetIndexes(s, t, indexes) \in Schema
<1> DEFINE tabledef == [s.tables[t] EXCEPT !.indexes = indexes]
<1>1. tabledef \in Table
  BY DEF Table
<1>2. SetIndexes(s, t, indexes) = [s EXCEPT !.tables[t] = tabledef]
  BY DEF SetIndexes
<1> HIDE DEF tabledef
<1> QED
  BY <1>1, <1>2 DEF Schema

\* What HasTable and HasColumn find are a table and a column.
LEMMA FoundType ==
  ASSUME NEW s \in Schema, NEW t \in Tables
  PROVE  /\ HasTable(s, t) => s.tables[t] \in Table
         /\ \A c \in Columns : HasColumn(s, t, c) =>
              s.tables[t] \in Table /\ s.tables[t].cols[c] \in Column
<1>1. HasTable(s, t) => s.tables[t] \in Table
  BY DEF HasTable, Schema
<1>2. ASSUME NEW c \in Columns, HasColumn(s, t, c)
      PROVE  s.tables[t] \in Table /\ s.tables[t].cols[c] \in Column
  BY <1>1, <1>2 DEF HasColumn, Table
<1> QED
  BY <1>1, <1>2

\* An altered column is a column, a default that lost its argument list included.
LEMMA AlteredColumnType ==
  ASSUME NEW v, NEW col \in Column,
         \/ v.stmt \in {"SET NOT NULL", "DROP NOT NULL", "DROP DEFAULT"}
         \/ v.stmt = "ALTER TYPE" /\ v.type \in DataType
         \/ v.stmt = "SET DEFAULT" /\ v.default \in DefaultValue
  PROVE  AlteredColumn(v, col) \in Column
<1>1. CASE v.stmt \in {"SET NOT NULL", "DROP NOT NULL", "DROP DEFAULT"}
  BY <1>1 DEF AlteredColumn, Column, DefaultValue, NoDefault
<1>2. CASE v.stmt = "ALTER TYPE" /\ v.type \in DataType
  BY <1>2 DEF AlteredColumn, Column
<1>3. CASE v.stmt = "SET DEFAULT" /\ v.default \in DefaultValue
  <2>1. WithoutCall(v.default) \in DefaultValue
    BY <1>3 DEF WithoutCall, Expression, DefaultValue, Expressions
  <2>2. AlteredColumn(v, col) = [col EXCEPT !.default = WithoutCall(v.default)]
    BY <1>3 DEF AlteredColumn
  <2> QED
    BY <2>1, <2>2 DEF Column
<1> QED
  BY <1>1, <1>2, <1>3

\* ALTER COLUMN, applied by the builder, gives a schema.
LEMMA ApplyAlterColumnType ==
  ASSUME NEW v, NEW s \in Schema, v.table \in Tables, v.column \in Columns,
         \/ v.stmt \in {"SET NOT NULL", "DROP NOT NULL", "DROP DEFAULT"}
         \/ v.stmt = "ALTER TYPE" /\ v.type \in DataType
         \/ v.stmt = "SET DEFAULT" /\ v.default \in DefaultValue
  PROVE  ApplyAlterColumn(v, s) \subseteq Schema
<1> SUFFICES ASSUME HasColumn(s, v.table, v.column)
             PROVE  SetColumn(s, v.table, v.column,
                      AlteredColumn(v, s.tables[v.table].cols[v.column])) \in Schema
  BY DEF ApplyAlterColumn, When
<1>1. /\ s.tables[v.table] \in Table
      /\ s.tables[v.table].cols[v.column] \in Column
  BY FoundType
<1>2. AlteredColumn(v, s.tables[v.table].cols[v.column]) \in Column
  BY <1>1, AlteredColumnType
<1> QED
  BY <1>1, <1>2, SetColumnType

\* Every statement the builder accepts turns a schema into a schema.
LEMMA AppliedType ==
  ASSUME NEW v \in Statement, NEW s \in Schema
  PROVE  Applied(v, s) \subseteq Schema
<1>1. CASE v \in TableStmts /\ v.stmt = "DROP TABLE"
  <2>1. SetTable(s, v.table, Absent) \in Schema
    BY <1>1, SetTableType DEF TableStmts
  <2>2. Applied(v, s) = ApplyDropTable(v, s)
    BY <1>1 DEF Applied
  <2> QED
    BY <2>1, <2>2 DEF ApplyDropTable, When
<1>2. CASE v \in CreateTableStmts /\ v.stmt = "CREATE TABLE"
  <2>1. SetTable(s, v.table, v.tabledef) \in Schema
    BY <1>2, SetTableType DEF CreateTableStmts
  <2>2. Applied(v, s) = ApplyCreateTable(v, s)
    BY <1>2 DEF Applied
  <2> QED
    BY <2>1, <2>2 DEF ApplyCreateTable, When
<1>3. CASE v \in ColumnStmts /\ v.stmt = "DROP COLUMN"
  <2>1. v.table \in Tables /\ v.column \in Columns
    BY <1>3 DEF ColumnStmts
  <2>2. HasColumn(s, v.table, v.column) =>
          SetColumn(s, v.table, v.column, Absent) \in Schema
    BY <2>1, FoundType, SetColumnType
  <2>3. Applied(v, s) = ApplyDropColumn(v, s)
    BY <1>3 DEF Applied
  <2> QED
    BY <2>2, <2>3 DEF ApplyDropColumn, When
<1>4. CASE /\ v \in ColumnStmts
           /\ v.stmt \in {"SET NOT NULL", "DROP NOT NULL", "DROP DEFAULT"}
  <2>1. v.table \in Tables /\ v.column \in Columns
    BY <1>4 DEF ColumnStmts
  <2>2. Applied(v, s) = ApplyAlterColumn(v, s)
    BY <1>4 DEF Applied
  <2> QED
    BY <1>4, <2>1, <2>2, ApplyAlterColumnType
<1>5. CASE v \in AddColumnStmts /\ v.stmt = "ADD COLUMN"
  <2>1. v.table \in Tables /\ v.column \in Columns /\ v.coldef \in Column
    BY <1>5 DEF AddColumnStmts
  <2>2. HasTable(s, v.table) =>
          SetColumn(s, v.table, v.column, v.coldef) \in Schema
    BY <2>1, FoundType, SetColumnType
  <2>3. Applied(v, s) = ApplyAddColumn(v, s)
    BY <1>5 DEF Applied
  <2> QED
    BY <2>2, <2>3 DEF ApplyAddColumn, When
<1>6. CASE v \in RenameStmts /\ v.stmt = "RENAME COLUMN"
  <2> DEFINE r == SetColumn(s, v.table, v.column, Absent)
             col == s.tables[v.table].cols[v.column]
  <2>1. v.table \in Tables /\ v.column \in Columns /\ v.to \in Columns
    BY <1>6 DEF RenameStmts
  <2>2. ASSUME HasColumn(s, v.table, v.column)
        PROVE  SetColumn(r, v.table, v.to, col) \in Schema
    <3>1. s.tables[v.table] \in Table /\ col \in Column
      BY <2>1, <2>2, FoundType
    <3>2. r \in Schema /\ r.tables[v.table] \in Table
      BY <2>1, <3>1, SetColumnType
    <3> HIDE DEF r, col
    <3> QED
      BY <2>1, <3>1, <3>2, SetColumnType
  <2>3. Applied(v, s) = ApplyRenameColumn(v, s)
    BY <1>6 DEF Applied
  <2> QED
    BY <2>2, <2>3 DEF ApplyRenameColumn, When
<1>7. CASE v \in TypeStmts /\ v.stmt = "ALTER TYPE"
  <2>1. v.table \in Tables /\ v.column \in Columns /\ v.type \in DataType
    BY <1>7 DEF TypeStmts
  <2>2. Applied(v, s) = ApplyAlterColumn(v, s)
    BY <1>7 DEF Applied
  <2> QED
    BY <1>7, <2>1, <2>2, ApplyAlterColumnType
<1>8. CASE v \in DefaultStmts /\ v.stmt = "SET DEFAULT"
  <2>1. v.table \in Tables /\ v.column \in Columns /\ v.default \in DefaultValue
    BY <1>8 DEF DefaultStmts
  <2>2. Applied(v, s) = ApplyAlterColumn(v, s)
    BY <1>8 DEF Applied
  <2> QED
    BY <1>8, <2>1, <2>2, ApplyAlterColumnType
<1>9. CASE v \in CreateIndexStmts /\ v.stmt = "CREATE INDEX"
  <2>1. v.table \in Tables /\ v.index \in Index
    BY <1>9 DEF CreateIndexStmts
  <2>2. ASSUME HasTable(s, v.table)
        PROVE  SetIndexes(s, v.table, s.tables[v.table].indexes \cup {v.index})
                 \in Schema
    <3>1. s.tables[v.table] \in Table
      BY <2>1, <2>2, FoundType
    <3>2. s.tables[v.table].indexes \cup {v.index} \in SUBSET Index
      BY <2>1, <3>1 DEF Table
    <3> QED
      BY <2>1, <3>1, <3>2, SetIndexesType
  <2>3. Applied(v, s) = ApplyCreateIndex(v, s)
    BY <1>9 DEF Applied
  <2> QED
    BY <2>2, <2>3 DEF ApplyCreateIndex, When
<1>10. CASE v \in DropIndexStmts /\ v.stmt = "DROP INDEX"
  <2>1. ASSUME NEW t \in Present(s.tables)
        PROVE  SetIndexes(s, t, {i \in s.tables[t].indexes : i.name # v.name})
                 \in Schema
    <3>1. t \in Tables /\ s.tables[t] \in Table
      BY <2>1 DEF Present, Schema
    <3>2. {i \in s.tables[t].indexes : i.name # v.name} \in SUBSET Index
      BY <3>1 DEF Table
    <3> QED
      BY <3>1, <3>2, SetIndexesType
  <2>2. Applied(v, s) = ApplyDropIndex(v, s)
    BY <1>10 DEF Applied
  <2> QED
    BY <2>1, <2>2 DEF ApplyDropIndex
<1>11. CASE v.stmt \in {"ADD CONSTRAINT", "DROP CONSTRAINT", "ADD VALUE"}
  <2>1. Applied(v, s) = {}
    BY <1>11 DEF Applied
  <2> QED
    BY <2>1
<1>12. CASE v \in CreateTypeStmts /\ v.stmt = "CREATE TYPE"
  <2>1. [s EXCEPT !.enums[v.enum] = v.values] \in Schema
    BY <1>12 DEF CreateTypeStmts, Schema
  <2>2. Applied(v, s) = ApplyCreateType(v, s)
    BY <1>12 DEF Applied
  <2> QED
    BY <2>1, <2>2 DEF ApplyCreateType, When
<1>13. CASE v \in DropTypeStmts /\ v.stmt = "DROP TYPE"
  <2>1. [s EXCEPT !.enums[v.enum] = Absent] \in Schema
    BY <1>13 DEF DropTypeStmts, Schema
  <2>2. Applied(v, s) = ApplyDropType(v, s)
    BY <1>13 DEF Applied
  <2> QED
    BY <2>1, <2>2 DEF ApplyDropType, When
<1> QED
  BY <1>1, <1>2, <1>3, <1>4, <1>5, <1>6, <1>7, <1>8, <1>9, <1>10, <1>11,
     <1>12, <1>13, StatementCases, ZenonT(40)
-----------------------------------------------------------------------------
(***************************************************************************)
(* The differ, table by table and column by column.                        *)
(***************************************************************************)
ColumnOps(t, x, before, after) ==
  IF after = Absent
    THEN IF before = Absent THEN {} ELSE {[op |-> "DropColumn", table |-> t, column |-> x]}
  ELSE IF before = Absent
    THEN {[op |-> "AddColumn", table |-> t, column |-> x, coldef |-> after]}
  ELSE IF ColumnsEqual(before, after) THEN {}
  ELSE {AlterColumn(t, x, before, after)}

TableOps(t, before, after) ==
  IF after = Absent
    THEN IF before = Absent THEN {} ELSE {[op |-> "DropTable", table |-> t]}
  ELSE IF before = Absent THEN NewTable(t, after)
  ELSE DiffTable(t, before, after, {})

\* Without rename hints, what the differ says of the columns of a table is what it
\* says of each one.
LEMMA DiffByColumn ==
  ASSUME NEW t, NEW b, DOMAIN b = Columns, NEW a, DOMAIN a = Columns
  PROVE  DiffColumns(t, b, a, {}) = UNION {ColumnOps(t, x, b[x], a[x]) : x \in Columns}
<1> DEFINE adds   == {[op |-> "AddColumn", table |-> t, column |-> x, coldef |-> a[x]] :
                        x \in Present(a) \ Present(b)}
           alters == {AlterColumn(t, x, b[x], a[x]) :
                        x \in {y \in Present(a) \cap Present(b) : ~ColumnsEqual(b[y], a[y])}}
           drops  == {[op |-> "DropColumn", table |-> t, column |-> x] :
                        x \in Present(b) \ Present(a)}
<1>1. DiffColumns(t, b, a, {}) = adds \cup alters \cup drops
  <2>1. Renames(b, a, {}) = {}
    BY DEF Renames
  <2>2. UNION {{h.from, h.to} : h \in Renames(b, a, {})} = {}
    BY <2>1
  <2> QED
    BY <2>1, <2>2 DEF DiffColumns
<1>2. ASSUME NEW o, o \in adds \cup alters \cup drops
      PROVE  \E x \in Columns : o \in ColumnOps(t, x, b[x], a[x])
  <2>1. CASE o \in adds
    <3>1. PICK x \in Present(a) \ Present(b) :
            o = [op |-> "AddColumn", table |-> t, column |-> x, coldef |-> a[x]]
      BY <2>1
    <3> QED
      BY <3>1 DEF Present, ColumnOps
  <2>2. CASE o \in alters
    <3>1. PICK x \in Present(a) \cap Present(b) :
            ~ColumnsEqual(b[x], a[x]) /\ o = AlterColumn(t, x, b[x], a[x])
      BY <2>2
    <3> QED
      BY <3>1 DEF Present, ColumnOps
  <2>3. CASE o \in drops
    <3>1. PICK x \in Present(b) \ Present(a) :
            o = [op |-> "DropColumn", table |-> t, column |-> x]
      BY <2>3
    <3> QED
      BY <3>1 DEF Present, ColumnOps
  <2> QED
    BY <1>2, <2>1, <2>2, <2>3
<1>3. ASSUME NEW x \in Columns
      PROVE  ColumnOps(t, x, b[x], a[x]) \subseteq adds \cup alters \cup drops
  <2>1. (x \in Present(b) <=> b[x] # Absent) /\ (x \in Present(a) <=> a[x] # Absent)
    BY DEF Present
  <2> QED
    BY <2>1 DEF ColumnOps
<1> QED
  BY <1>1, <1>2, <1>3

\* And what it says of the tables of a schema is what it says of each table.
LEMMA DiffByTable ==
  ASSUME NEW b, DOMAIN b = Tables, NEW a, DOMAIN a = Tables
  PROVE  DiffTables(b, a, {}) = UNION {TableOps(t, b[t], a[t]) : t \in Tables}
<1> DEFINE new   == UNION {NewTable(t, a[t]) : t \in Present(a) \ Present(b)}
           kept  == UNION {DiffTable(t, b[t], a[t], {}) : t \in Present(a) \cap Present(b)}
           drops == {[op |-> "DropTable", table |-> t] : t \in Present(b) \ Present(a)}
<1>1. DiffTables(b, a, {}) = new \cup kept \cup drops
  BY DEF DiffTables
<1>2. ASSUME NEW o, o \in new \cup kept \cup drops
      PROVE  \E t \in Tables : o \in TableOps(t, b[t], a[t])
  <2>1. CASE o \in new
    <3>1. PICK t \in Present(a) \ Present(b) : o \in NewTable(t, a[t])
      BY <2>1
    <3> QED
      BY <3>1 DEF Present, TableOps
  <2>2. CASE o \in kept
    <3>1. PICK t \in Present(a) \cap Present(b) : o \in DiffTable(t, b[t], a[t], {})
      BY <2>2
    <3> QED
      BY <3>1 DEF Present, TableOps
  <2>3. CASE o \in drops
    <3>1. PICK t \in Present(b) \ Present(a) : o = [op |-> "DropTable", table |-> t]
      BY <2>3
    <3> QED
      BY <3>1 DEF Present, TableOps
  <2> QED
    BY <1>2, <2>1, <2>2, <2>3
<1>3. ASSUME NEW t \in Tables
      PROVE  TableOps(t, b[t], a[t]) \subseteq new \cup kept \cup drops
  <2>1. (t \in Present(b) <=> b[t] # Absent) /\ (t \in Present(a) <=> a[t] # Absent)
    BY DEF Present
  <2> QED
    BY <2>1 DEF TableOps
<1> QED
  BY <1>1, <1>2, <1>3

\* What an operation on a column is about.
LEMMA ColumnOpsAbout ==
  ASSUME NEW t, NEW x, NEW b, NEW a, NEW o \in ColumnOps(t, x, b, a)
  PROVE  /\ o.op \in {"AddColumn", "AlterColumn", "DropColumn"}
         /\ o.table = t /\ o.column = x
BY DEF ColumnOps, AlterColumn

\* What an operation on an index is about.
LEMMA IndexOpsAbout ==
  ASSUME NEW t, NEW b, NEW a, NEW o \in DiffIndexes(t, b, a)
  PROVE  o.op \in {"CreateIndex", "DropIndex"} /\ o.table = t
BY DEF DiffIndexes

\* What an operation on a table is about.
LEMMA TableOpsAbout ==
  ASSUME NEW t, NEW b \in {Absent} \cup Table, NEW a \in {Absent} \cup Table,
         NEW o \in TableOps(t, b, a)
  PROVE  o.table = t /\ o.op \notin {"CreateEnum", "AlterEnum"}
<1>1. CASE b # Absent /\ a = Absent
  BY <1>1 DEF TableOps
<1>2. CASE b = Absent /\ a # Absent
  BY <1>2 DEF TableOps, NewTable
<1>3. CASE b # Absent /\ a # Absent
  <2>1. o \in DiffColumns(t, b.cols, a.cols, {}) \cup DiffIndexes(t, b.indexes, a.indexes)
               \cup DiffForeignKeys(t, b.fks, a.fks)
    BY <1>3 DEF TableOps, DiffTable
  <2>2. CASE o \in DiffColumns(t, b.cols, a.cols, {})
    <3>1. DOMAIN b.cols = Columns /\ DOMAIN a.cols = Columns
      BY <1>3 DEF Table
    <3>2. PICK x \in Columns : o \in ColumnOps(t, x, b.cols[x], a.cols[x])
      BY <2>2, <3>1, DiffByColumn
    <3> QED
      BY <3>2, ColumnOpsAbout
  <2>3. CASE o \in DiffIndexes(t, b.indexes, a.indexes)
    BY <2>3, IndexOpsAbout
  <2>4. CASE o \in DiffForeignKeys(t, b.fks, a.fks)
    BY <2>4 DEF DiffForeignKeys
  <2> QED
    BY <2>1, <2>2, <2>3, <2>4
<1> QED
  BY <1>1, <1>2, <1>3 DEF TableOps

\* What the differ says of enums creates one or adds labels to one.
LEMMA EnumOpsAbout ==
  ASSUME NEW b, NEW a, NEW o \in DiffEnums(b, a)
  PROVE  o.op \in {"CreateEnum", "AlterEnum"}
BY DEF DiffEnums
-----------------------------------------------------------------------------
(***************************************************************************)
(* A change of one table, column or index that takes one operation from    *)
(* its own part of the difference takes it from the whole.                 *)
(***************************************************************************)
LEMMA TableStep ==
  ASSUME NEW b \in Schema, NEW a \in Schema, NEW t \in Tables, NEW new \in {Absent} \cup Table,
         NEW o \in TableOps(t, b.tables[t], a.tables[t]),
         TableOps(t, new, a.tables[t]) = TableOps(t, b.tables[t], a.tables[t]) \ {o}
  PROVE  Diff(SetTable(b, t, new), a, {}) = Diff(b, a, {}) \ {o}
<1> DEFINE r == SetTable(b, t, new)
           ops(s, u) == TableOps(u, s.tables[u], a.tables[u])
<1>1. /\ r \in Schema /\ r.enums = b.enums
      /\ \A u \in Tables : r.tables[u] = IF u = t THEN new ELSE b.tables[u]
  <2>1. r \in Schema
    BY SetTableType
  <2>2. DOMAIN b.tables = Tables /\ DOMAIN b = {"enums", "tables"}
    BY DEF Schema
  <2>3. r = [b EXCEPT !.tables[t] = new]
    BY DEF SetTable
  <2> HIDE DEF r
  <2>4. r.enums = b.enums /\ r.tables = [b.tables EXCEPT ![t] = new]
    BY <2>2, <2>3
  <2> QED
    BY <2>1, <2>2, <2>4
<1>2. ASSUME NEW s \in Schema
      PROVE  Diff(s, a, {}) = DiffEnums(s.enums, a.enums) \cup UNION {ops(s, u) : u \in Tables}
  <2>1. DOMAIN s.tables = Tables /\ DOMAIN a.tables = Tables
    BY DEF Schema
  <2> QED
    BY <2>1, DiffByTable DEF Diff
<1>3. ASSUME NEW u \in Tables, u # t PROVE ops(r, u) = ops(b, u) /\ o \notin ops(b, u)
  <2>1. ops(r, u) = ops(b, u)
    BY <1>1, <1>3
  <2>2. \A w \in Tables : b.tables[w] \in {Absent} \cup Table /\ a.tables[w] \in {Absent} \cup Table
    BY DEF Schema
  <2>3. o.table = t /\ (o \in ops(b, u) => o.table = u)
    BY <2>2, TableOpsAbout
  <2> QED
    BY <1>3, <2>1, <2>3
<1>4. ops(r, t) = ops(b, t) \ {o}
  BY <1>1
<1>5. o \notin DiffEnums(b.enums, a.enums)
  <2>1. b.tables[t] \in {Absent} \cup Table /\ a.tables[t] \in {Absent} \cup Table
    BY DEF Schema
  <2> QED
    BY <2>1, TableOpsAbout, EnumOpsAbout
<1>6. UNION {ops(r, u) : u \in Tables} = (UNION {ops(b, u) : u \in Tables}) \ {o}
  <2> HIDE DEF ops
  <2> QED
    BY <1>3, <1>4
<1> HIDE DEF r, ops
<1>7. Diff(r, a, {}) = Diff(b, a, {}) \ {o}
  BY <1>1, <1>2, <1>5, <1>6
<1> QED
  BY <1>7 DEF r

\* An enum that comes to be takes its own operation from the difference.
LEMMA EnumStep ==
  ASSUME NEW b \in Schema, NEW a \in Schema, NEW e \in Enums, b.enums[e] = Absent,
         a.enums[e] # Absent
  PROVE  Diff([b EXCEPT !.enums[e] = a.enums[e]], a, {}) =
           Diff(b, a, {}) \ {[op |-> "CreateEnum", enum |-> e, values |-> a.enums[e]]}
<1> DEFINE r == [b EXCEPT !.enums[e] = a.enums[e]]
           o == [op |-> "CreateEnum", enum |-> e, values |-> a.enums[e]]
<1>1. /\ r.tables = b.tables
      /\ DOMAIN r.enums = Enums /\ DOMAIN b.enums = Enums
      /\ \A x \in Enums : r.enums[x] = IF x = e THEN a.enums[e] ELSE b.enums[x]
  BY DEF Schema
<1>2. o \notin DiffTables(b.tables, a.tables, {})
  <2>1. /\ DOMAIN b.tables = Tables /\ DOMAIN a.tables = Tables
        /\ \A t \in Tables : /\ b.tables[t] \in {Absent} \cup Table
                             /\ a.tables[t] \in {Absent} \cup Table
    BY DEF Schema
  <2>2. ASSUME o \in DiffTables(b.tables, a.tables, {}) PROVE FALSE
    <3>1. PICK t \in Tables : o \in TableOps(t, b.tables[t], a.tables[t])
      BY <2>1, <2>2, DiffByTable
    <3>2. o.op \notin {"CreateEnum", "AlterEnum"}
      BY <2>1, <3>1, TableOpsAbout
    <3> QED
      BY <3>2
  <2> QED
    BY <2>2
<1>3. /\ Present(r.enums) = Present(b.enums) \cup {e}
      /\ e \notin Present(b.enums) /\ e \in Present(a.enums)
  BY <1>1 DEF Present, Schema
<1>4. {[op |-> "CreateEnum", enum |-> x, values |-> a.enums[x]] :
         x \in Present(a.enums) \ Present(r.enums)}
      = {[op |-> "CreateEnum", enum |-> x, values |-> a.enums[x]] :
           x \in Present(a.enums) \ Present(b.enums)} \ {o}
  <2> HIDE DEF r
  <2> QED
    BY <1>3
<1>5. {x \in Present(a.enums) \cap Present(r.enums) : a.enums[x] # r.enums[x]}
      = {x \in Present(a.enums) \cap Present(b.enums) : a.enums[x] # b.enums[x]}
  <2>1. Present(a.enums) \subseteq Enums
    BY DEF Present, Schema
  <2> HIDE DEF r
  <2> QED
    BY <1>1, <1>3, <2>1
<1> DEFINE alter(s, x) == [op |-> "AlterEnum", enum |-> x, add |-> a.enums[x] \ s.enums[x],
                           drop |-> s.enums[x] \ a.enums[x]]
           changed(s) == {x \in Present(a.enums) \cap Present(s.enums) : a.enums[x] # s.enums[x]}
<1>6. {alter(r, x) : x \in changed(r)} = {alter(b, x) : x \in changed(b)} \ {o}
  <2>1. changed(r) = changed(b)
    BY <1>5
  <2>2. \A x \in changed(b) : alter(r, x) = alter(b, x) /\ alter(b, x) # o
    <3>1. \A x \in changed(b) : x \in Enums /\ x # e
      BY <1>1, <1>3 DEF Present
    <3> HIDE DEF r
    <3> QED
      BY <1>1, <3>1
  <2> HIDE DEF r, changed, alter
  <2> QED
    BY <2>1, <2>2
<1>7. DiffEnums(r.enums, a.enums) = DiffEnums(b.enums, a.enums) \ {o}
  BY <1>4, <1>6, Zenon DEF DiffEnums
<1> HIDE DEF r, o
<1>8. Diff(r, a, {}) = Diff(b, a, {}) \ {o}
  BY <1>1, <1>2, <1>7 DEF Diff
<1> QED
  BY <1>8 DEF r, o

WithColumn(b, x, q) == [b EXCEPT !.cols[x] = q]

WithIndexes(b, indexes) == [b EXCEPT !.indexes = indexes]

\* A column that becomes the desired one takes its own operation from the difference
\* of its table.
LEMMA ColumnStep ==
  ASSUME NEW t, NEW b \in Table, NEW a \in Table, NEW x \in Columns,
         NEW o \in ColumnOps(t, x, b.cols[x], a.cols[x])
  PROVE  /\ o \in TableOps(t, b, a)
         /\ TableOps(t, WithColumn(b, x, a.cols[x]), a) = TableOps(t, b, a) \ {o}
<1> DEFINE r == WithColumn(b, x, a.cols[x])
           ops(s, y) == ColumnOps(t, y, s.cols[y], a.cols[y])
<1>1. /\ r \in Table /\ r.indexes = b.indexes /\ r.fks = b.fks
      /\ \A y \in Columns : r.cols[y] = IF y = x THEN a.cols[x] ELSE b.cols[y]
  BY DEF Table, WithColumn
<1>2. ASSUME NEW s \in Table
      PROVE  TableOps(t, s, a) =
               (UNION {ops(s, y) : y \in Columns}) \cup DiffIndexes(t, s.indexes, a.indexes)
                 \cup DiffForeignKeys(t, s.fks, a.fks)
  <2>1. DOMAIN s.cols = Columns /\ DOMAIN a.cols = Columns
    BY DEF Table
  <2>2. DiffColumns(t, s.cols, a.cols, {}) = UNION {ops(s, y) : y \in Columns}
    BY <2>1, DiffByColumn
  <2>3. s # Absent /\ a # Absent
    BY AbsentAssumption
  <2> QED
    BY <2>2, <2>3 DEF TableOps, DiffTable
<1>3. o.op \in {"AddColumn", "AlterColumn", "DropColumn"} /\ o.column = x
  BY ColumnOpsAbout
<1>4. /\ o \notin DiffIndexes(t, b.indexes, a.indexes)
      /\ o \notin DiffForeignKeys(t, b.fks, a.fks)
  BY <1>3 DEF DiffIndexes, DiffForeignKeys
<1>5. ops(r, x) = ops(b, x) \ {o}
  <2>1. ops(b, x) = {o}
    BY DEF ColumnOps
  <2>2. ops(r, x) = {}
    BY <1>1 DEF ColumnOps, ColumnsEqual, DefaultsEqual
  <2> QED
    BY <2>1, <2>2
<1>6. ASSUME NEW y \in Columns, y # x PROVE ops(r, y) = ops(b, y) /\ o \notin ops(b, y)
  BY <1>1, <1>3, <1>6, ColumnOpsAbout
<1>7. UNION {ops(r, y) : y \in Columns} = (UNION {ops(b, y) : y \in Columns}) \ {o}
  <2> HIDE DEF ops
  <2> QED
    BY <1>5, <1>6
<1>8. o \in UNION {ops(b, y) : y \in Columns}
  OBVIOUS
<1> HIDE DEF r, ops
<1>9. o \in TableOps(t, b, a) /\ TableOps(t, r, a) = TableOps(t, b, a) \ {o}
  BY <1>1, <1>2, <1>4, <1>7, <1>8
<1> QED
  BY <1>9 DEF r
-----------------------------------------------------------------------------
(***************************************************************************)
(* Statements that lead from one schema to another and to no other.        *)
(***************************************************************************)
ReadsAs(v, s, r) == Applied(v, s) = {r}

Leads(stmts, s, r) ==
  \E path \in [1..Len(stmts) + 1 -> Schema] :
    /\ path[1] = s /\ path[Len(stmts) + 1] = r
    /\ \A i \in 1..Len(stmts) : ReadsAs(stmts[i], path[i], path[i + 1])

\* Reading no statement changes nothing.
LEMMA LeadsNowhere == ASSUME NEW s \in Schema PROVE Leads(<< >>, s, s)
<1> DEFINE path == [i \in 1..1 |-> s]
<1>1. Len(<< >>) = 0 /\ Len(<< >>) + 1 = 1
  OBVIOUS
<1>2. path \in [1..1 -> Schema] /\ path[1] = s
  OBVIOUS
<1> HIDE DEF path
<1>3. \A i \in 1..0 : ReadsAs(<< >>[i], path[i], path[i + 1])
  OBVIOUS
<1> QED
  BY <1>1, <1>2, <1>3, Zenon DEF Leads

\* Reading a section of one statement is reading that statement.
LEMMA LeadsByOne ==
  ASSUME NEW v, NEW s \in Schema, NEW r \in Schema, ReadsAs(v, s, r)
  PROVE  Leads(<<v>>, s, r)
<1> DEFINE path == [i \in 1..2 |-> IF i = 1 THEN s ELSE r]
<1>1. Len(<<v>>) = 1 /\ <<v>>[1] = v /\ Len(<<v>>) + 1 = 2
  OBVIOUS
<1>2. path \in [1..2 -> Schema] /\ path[1] = s /\ path[2] = r
  OBVIOUS
<1> HIDE DEF path
<1>3. \A i \in 1..1 : ReadsAs(<<v>>[i], path[i], path[i + 1])
  <2>1. \A i \in 1..1 : i = 1 /\ i + 1 = 2
    OBVIOUS
  <2> QED
    BY <1>1, <1>2, <2>1, Zenon
<1> QED
  BY <1>1, <1>2, <1>3, Zenon DEF Leads

\* What two sections read one after the other do, their concatenation does.
LEMMA LeadsOn ==
  ASSUME NEW S, NEW a \in Seq(S), NEW b \in Seq(S), NEW s, NEW r, NEW q,
         Leads(a, s, r), Leads(b, r, q)
  PROVE  Leads(a \o b, s, q)
<1>1. PICK p \in [1..Len(a) + 1 -> Schema] :
        /\ p[1] = s /\ p[Len(a) + 1] = r
        /\ \A i \in 1..Len(a) : ReadsAs(a[i], p[i], p[i + 1])
  BY DEF Leads
<1>2. PICK o \in [1..Len(b) + 1 -> Schema] :
        /\ o[1] = r /\ o[Len(b) + 1] = q
        /\ \A i \in 1..Len(b) : ReadsAs(b[i], o[i], o[i + 1])
  BY DEF Leads
<1> DEFINE path == [i \in 1..Len(a) + Len(b) + 1 |->
                      IF i <= Len(a) THEN p[i] ELSE o[i - Len(a)]]
<1>3. Len(a \o b) = Len(a) + Len(b) /\ Len(a) \in Nat /\ Len(b) \in Nat
  OBVIOUS
<1>4. path \in [1..Len(a \o b) + 1 -> Schema]
  BY <1>3
<1>5. path[1] = s /\ path[Len(a \o b) + 1] = q
  BY <1>1, <1>2, <1>3
<1>6. ASSUME NEW i \in 1..Len(a \o b)
      PROVE  ReadsAs((a \o b)[i], path[i], path[i + 1])
  <2>1. CASE i <= Len(a)
    <3>1. (a \o b)[i] = a[i] /\ path[i] = p[i]
      BY <1>3, <2>1
    <3>2. path[i + 1] = p[i + 1]
      BY <1>1, <1>2, <1>3, <2>1
    <3> QED
      BY <1>1, <1>3, <2>1, <3>1, <3>2
  <2>2. CASE i > Len(a)
    <3>1. /\ i - Len(a) \in 1..Len(b) /\ (a \o b)[i] = b[i - Len(a)]
          /\ path[i] = o[i - Len(a)] /\ path[i + 1] = o[(i - Len(a)) + 1]
      BY <1>3, <2>2
    <3> QED
      BY <1>2, <3>1
  <2> QED
    BY <1>3, <2>1, <2>2
<1> HIDE DEF path
<1> QED
  BY <1>4, <1>5, <1>6 DEF Leads

\* The builder has no choice, and no error, at the next statement.
LEMMA LeadsStep ==
  ASSUME NEW S, NEW stmts \in Seq(S), NEW s, NEW r, Leads(stmts, s, r), stmts # << >>
  PROVE  \E q \in Schema : ReadsAs(stmts[1], s, q) /\ Leads(Tail(stmts), q, r)
<1>1. PICK p \in [1..Len(stmts) + 1 -> Schema] :
        /\ p[1] = s /\ p[Len(stmts) + 1] = r
        /\ \A i \in 1..Len(stmts) : ReadsAs(stmts[i], p[i], p[i + 1])
  BY DEF Leads
<1>2. Len(stmts) \in Nat \ {0} /\ Len(Tail(stmts)) = Len(stmts) - 1
  OBVIOUS
<1> DEFINE path == [i \in 1..Len(Tail(stmts)) + 1 |-> p[i + 1]]
<1>3. path \in [1..Len(Tail(stmts)) + 1 -> Schema]
  BY <1>2
<1>4. path[1] = p[2] /\ path[Len(Tail(stmts)) + 1] = r
  BY <1>1, <1>2
<1>5. \A i \in 1..Len(Tail(stmts)) : ReadsAs(Tail(stmts)[i], path[i], path[i + 1])
  <2> SUFFICES ASSUME NEW i \in 1..Len(Tail(stmts))
               PROVE  ReadsAs(Tail(stmts)[i], path[i], path[i + 1])
    OBVIOUS
  <2>1. Tail(stmts)[i] = stmts[i + 1] /\ path[i] = p[i + 1] /\ path[i + 1] = p[(i + 1) + 1]
    BY <1>2
  <2> QED
    BY <1>1, <1>2, <2>1
<1> HIDE DEF path
<1>6. Leads(Tail(stmts), p[2], r)
  BY <1>3, <1>4, <1>5 DEF Leads
<1>7. p[2] \in Schema /\ ReadsAs(stmts[1], s, p[2])
  BY <1>1, <1>2
<1> QED
  BY <1>6, <1>7

\* A section that is read to its end leads where the reader is.
LEMMA LeadsEnd ==
  ASSUME NEW stmts, NEW s, NEW r, Leads(stmts, s, r), stmts = << >>
  PROVE  s = r
BY DEF Leads

\* A section that can be read leads from a schema to a schema.
LEMMA LeadsType ==
  ASSUME NEW S, NEW stmts \in Seq(S), NEW s, NEW r, Leads(stmts, s, r)
  PROVE  s \in Schema /\ r \in Schema
BY DEF Leads
-----------------------------------------------------------------------------
(***************************************************************************)
(* A schema that was rebuilt from files written for schemas of S holds     *)
(* columns, indexes and enums of S, under the names the generator gives.   *)
(***************************************************************************)
KnownTable(S, t, b) ==
  /\ b.fks = {}
  /\ \A x \in Columns : b.cols[x] # Absent => b.cols[x] \in ColumnsAt(S, t, x)
  /\ \A j \in b.indexes : \E i \in IndexesAt(S, t) : j = [i EXCEPT !.name = IndexName(t, i)]
  /\ \A i, j \in b.indexes : i.cols = j.cols => i = j

Known(S, c) ==
  /\ c \in Schema
  /\ \A t \in Tables : c.tables[t] # Absent => KnownTable(S, t, c.tables[t])
  /\ \A e \in Enums : c.enums[e] # Absent =>
       \E s \in S : s.enums[e] = c.enums[e]

\* The plan's next operation is read back and nothing but it is done.
IsDone(S, d, c, op) ==
  \E r \in Schema :
    /\ Leads(GenerateOperation(op), c, r)
    /\ Known(S, r)
    /\ Diff(r, d, {}) = Diff(c, d, {}) \ {op}

\* A known schema is still known when a table is exchanged for a known one.
LEMMA KnownStep ==
  ASSUME NEW S, NEW c, Known(S, c), NEW t \in Tables, NEW new \in {Absent} \cup Table,
         new # Absent => KnownTable(S, t, new)
  PROVE  SetTable(c, t, new) \in Schema /\ Known(S, SetTable(c, t, new))
<1> DEFINE r == SetTable(c, t, new)
<1>1. c \in Schema
  BY DEF Known
<1>2. /\ r \in Schema /\ r.enums = c.enums
      /\ \A u \in Tables : r.tables[u] = IF u = t THEN new ELSE c.tables[u]
  BY <1>1, SetTableType DEF SetTable, Schema
<1> HIDE DEF r
<1>3. Known(S, r)
  BY <1>2 DEF Known
<1> QED
  BY <1>2, <1>3 DEF r

\* What a schema of S says is known.
LEMMA DesiredIsKnown ==
  ASSUME NEW S, S \subseteq Schema, NEW d \in S, NEW t \in Tables, d.tables[t] # Absent
  PROVE  /\ d.tables[t] \in Table
         /\ \A x \in Columns : d.tables[t].cols[x] # Absent =>
              d.tables[t].cols[x] \in Column /\ d.tables[t].cols[x] \in ColumnsAt(S, t, x)
         /\ d.tables[t].indexes \subseteq IndexesAt(S, t)
<1>1. HasTable(d, t) /\ d.tables[t] \in Table
  BY DEF Schema, HasTable
<1>2. ASSUME NEW x \in Columns, d.tables[t].cols[x] # Absent
      PROVE  d.tables[t].cols[x] \in Column /\ d.tables[t].cols[x] \in ColumnsAt(S, t, x)
  <2>1. HasColumn(d, t, x)
    BY <1>1, <1>2 DEF HasColumn
  <2>2. d.tables[t].cols[x] \in Column
    BY <1>1, <1>2 DEF Table
  <2> QED
    BY <2>1, <2>2 DEF ColumnsAt
<1>3. d.tables[t].indexes \subseteq IndexesAt(S, t)
  BY <1>1 DEF IndexesAt
<1> QED
  BY <1>1, <1>2, <1>3

\* CreateEnum comes first: what may name an enum comes after every CreateEnum.
LEMMA EnumsReady ==
  ASSUME NEW S, S \subseteq Schema, Replayable(S), NEW d \in S, NEW c, Known(S, c),
         NEW op \in First(Diff(c, d, {})),
         op.op \in {"CreateTable", "AddColumn", "AlterColumn"}
  PROVE  \A e \in Enums : d.enums[e] # Absent => c.enums[e] # Absent
<1> SUFFICES ASSUME NEW e \in Enums, d.enums[e] # Absent, c.enums[e] = Absent
             PROVE  FALSE
  OBVIOUS
<1> DEFINE o == [op |-> "CreateEnum", enum |-> e, values |-> d.enums[e]]
<1>1. e \in Present(d.enums) \ Present(c.enums)
  BY DEF Known, Present, Schema
<1>2. o \in Diff(c, d, {})
  BY <1>1 DEF Diff, DiffEnums
<1>3. Priority[op.op] <= Priority[o.op]
  BY <1>2 DEF First
<1>4. Priority["CreateEnum"] = 1 /\ Priority["CreateTable"] = 4 /\ Priority["AddColumn"] = 5
      /\ Priority["AlterColumn"] = 6
  BY DEF Priority
<1> QED
  BY <1>3, <1>4

\* The columns of a schema of S have types and defaults that are written and read.
LEMMA ColumnReadable ==
  ASSUME NEW S, S \subseteq Schema, Replayable(S), NEW d \in S, NEW t \in Tables, NEW x \in Columns,
         HasColumn(d, t, x), NEW c \in Schema,
         \A e \in Enums : d.enums[e] # Absent => c.enums[e] # Absent
  PROVE  /\ Format(d.tables[t].cols[x]) = d.tables[t].cols[x]
         /\ IsSupported(d.tables[t].cols[x].type, c)
<1> DEFINE col == d.tables[t].cols[x]
<1>1. d \in Schema /\ d.tables[t] \in Table /\ col \in Column
  BY FoundType
<1>2. t \in Present(d.tables) /\ x \in Present(d.tables[t].cols)
  BY <1>1 DEF HasColumn, HasTable, Present, Schema, Table
<1>3. IsSupported(col.type, d) /\ col.default.kind # "sequence"
  BY <1>2 DEF Replayable, HasReadableColumns
<1>4. Format(col) = col
  BY <1>1, <1>3, SMTT(30) DEF Format, FormatDefault, Column
<1>5. IsSupported(col.type, c)
  BY <1>3 DEF IsSupported, Present, Schema
<1> QED
  BY <1>4, <1>5

\* CREATE TYPE is read back as the enum the differ missed.
LEMMA CreateEnumIsDone ==
  ASSUME NEW S, S \subseteq Schema, NEW d \in S, NEW c, Known(S, c), NEW e \in Enums,
         c.enums[e] = Absent, d.enums[e] # Absent
  PROVE  IsDone(S, d, c, [op |-> "CreateEnum", enum |-> e, values |-> d.enums[e]])
<1> DEFINE op == [op |-> "CreateEnum", enum |-> e, values |-> d.enums[e]]
           v == [stmt |-> "CREATE TYPE", enum |-> e, values |-> d.enums[e]]
           r == [c EXCEPT !.enums[e] = d.enums[e]]
<1>1. c \in Schema /\ d \in Schema
  BY DEF Known
<1>2. /\ r \in Schema /\ r.tables = c.tables
      /\ \A x \in Enums : r.enums[x] = IF x = e THEN d.enums[e] ELSE c.enums[x]
  BY <1>1 DEF Schema
<1>3. Known(S, r)
  <2> HIDE DEF r
  <2> QED
    BY <1>2 DEF Known
<1>4. GenerateOperation(op) = <<v>>
  BY DEF GenerateOperation
<1>5. ReadsAs(v, c, r)
  <2>1. Applied(v, c) = ApplyCreateType(v, c)
    BY DEF Applied
  <2> QED
    BY <2>1 DEF ReadsAs, ApplyCreateType, When
<1>6. Diff(r, d, {}) = Diff(c, d, {}) \ {op}
  BY <1>1, EnumStep
<1> HIDE DEF r, op, v
<1>7. IsDone(S, d, c, op)
  BY <1>1, <1>2, <1>3, <1>4, <1>5, <1>6, LeadsByOne DEF IsDone
<1> QED
  BY <1>7 DEF op

\* One table changes, and its difference loses the operation.
LEMMA TableIsDone ==
  ASSUME NEW S, S \subseteq Schema, NEW d \in S, NEW c, Known(S, c),
         NEW t \in Tables, NEW new \in {Absent} \cup Table, new # Absent => KnownTable(S, t, new),
         NEW op \in TableOps(t, c.tables[t], d.tables[t]),
         TableOps(t, new, d.tables[t]) = TableOps(t, c.tables[t], d.tables[t]) \ {op},
         Leads(GenerateOperation(op), c, SetTable(c, t, new))
  PROVE  IsDone(S, d, c, op)
<1>1. c \in Schema /\ d \in Schema
  BY DEF Known
<1>2. SetTable(c, t, new) \in Schema /\ Known(S, SetTable(c, t, new))
  BY KnownStep
<1>3. Diff(SetTable(c, t, new), d, {}) = Diff(c, d, {}) \ {op}
  BY <1>1, TableStep
<1> QED
  BY <1>2, <1>3, Zenon DEF IsDone

\* DROP TABLE finds the table.
LEMMA DropTableIsDone ==
  ASSUME NEW S, S \subseteq Schema, NEW d \in S, NEW c, Known(S, c), NEW t \in Tables,
         c.tables[t] # Absent, d.tables[t] = Absent
  PROVE  IsDone(S, d, c, [op |-> "DropTable", table |-> t])
<1> DEFINE op == [op |-> "DropTable", table |-> t]
           v == [stmt |-> "DROP TABLE", table |-> t]
<1>1. c \in Schema /\ SetTable(c, t, Absent) \in Schema
  BY KnownStep, ZenonT(40) DEF Known
<1>2. GenerateOperation(op) = <<v>>
  BY DEF GenerateOperation
<1>3. ReadsAs(v, c, SetTable(c, t, Absent))
  <2>1. Applied(v, c) = ApplyDropTable(v, c)
    BY DEF Applied
  <2> QED
    BY <2>1 DEF ReadsAs, ApplyDropTable, When, HasTable
<1>4. /\ op \in TableOps(t, c.tables[t], d.tables[t])
      /\ TableOps(t, Absent, d.tables[t]) = TableOps(t, c.tables[t], d.tables[t]) \ {op}
  BY DEF TableOps
<1> HIDE DEF op, v
<1>5. IsDone(S, d, c, op)
  BY <1>1, <1>2, <1>3, <1>4, LeadsByOne, TableIsDone
<1> QED
  BY <1>5 DEF op

\* CREATE TABLE says the columns and the keys as they are.
LEMMA CreateTableSays ==
  ASSUME NEW S, S \subseteq Schema, Replayable(S), NEW d \in S, NEW c \in Schema,
         NEW t \in Tables, d.tables[t] # Absent,
         \A e \in Enums : d.enums[e] # Absent => c.enums[e] # Absent,
         NEW new, new = [d.tables[t] EXCEPT !.indexes = {}, !.fks = {}]
  PROVE  /\ CreateTable(t, d.tables[t]) = [stmt |-> "CREATE TABLE", table |-> t, tabledef |-> new]
         /\ \A x \in Present(new.cols) : IsSupported(new.cols[x].type, c)
<1> DEFINE a == d.tables[t]
<1>1. d \in Schema /\ a \in Table
  BY DesiredIsKnown
<1>2. ASSUME NEW x \in Columns, a.cols[x] # Absent
      PROVE  Format(a.cols[x]) = a.cols[x] /\ IsSupported(a.cols[x].type, c)
  <2>1. HasColumn(d, t, x)
    BY <1>2 DEF HasColumn, HasTable
  <2> QED
    BY <2>1, ColumnReadable
<1>3. [x \in Columns |-> IF a.cols[x] = Absent THEN Absent ELSE Format(a.cols[x])] = a.cols
  BY <1>1, <1>2 DEF Table
<1>4. [a EXCEPT !.cols = a.cols, !.indexes = {}, !.fks = {}] = new
  BY <1>1 DEF Table
<1>5. CreateTable(t, a) = [stmt |-> "CREATE TABLE", table |-> t, tabledef |-> new]
  BY <1>3, <1>4, Zenon DEF CreateTable
<1>6. new.cols = a.cols
  BY <1>1 DEF Table
<1>7. \A x \in Present(new.cols) : IsSupported(new.cols[x].type, c)
  BY <1>1, <1>2, <1>6 DEF Present, Table
<1> QED
  BY <1>5, <1>7

\* CREATE TABLE gives the table without its indexes, which stay to be done.
LEMMA CreateTableIsDone ==
  ASSUME NEW S, S \subseteq Schema, Replayable(S), NEW d \in S, NEW c, Known(S, c),
         NEW t \in Tables, c.tables[t] = Absent, d.tables[t] # Absent,
         \A e \in Enums : d.enums[e] # Absent => c.enums[e] # Absent
  PROVE  IsDone(S, d, c, [op |-> "CreateTable", table |-> t, tabledef |-> d.tables[t]])
<1> DEFINE a == d.tables[t]
           op == [op |-> "CreateTable", table |-> t, tabledef |-> a]
           new == [a EXCEPT !.indexes = {}, !.fks = {}]
           v == [stmt |-> "CREATE TABLE", table |-> t, tabledef |-> new]
<1>1. c \in Schema /\ d \in Schema /\ a \in Table
  BY DesiredIsKnown DEF Known
<1>2. /\ new \in Table /\ new # Absent
      /\ new.cols = a.cols /\ new.indexes = {} /\ new.fks = {}
  BY <1>1, AbsentAssumption DEF Table
<1>3. KnownTable(S, t, new)
  BY <1>2, DesiredIsKnown DEF KnownTable
<1>4. CreateTable(t, a) = v /\ \A x \in Present(new.cols) : IsSupported(new.cols[x].type, c)
  BY <1>1, CreateTableSays
<1>5. GenerateOperation(op) = <<v>>
  <2>1. GenerateOperation(op) = <<CreateTable(t, a)>>
    BY DEF GenerateOperation
  <2> QED
    BY <1>4, <2>1, Zenon
<1>6. ReadsAs(v, c, SetTable(c, t, new))
  <2>1. Applied(v, c) = ApplyCreateTable(v, c)
    BY DEF Applied
  <2>2. ~HasTable(c, t)
    BY DEF HasTable
  <2> HIDE DEF new
  <2> QED
    BY <1>4, <2>1, <2>2 DEF ReadsAs, ApplyCreateTable, When
<1>7. /\ op \in TableOps(t, c.tables[t], a)
      /\ TableOps(t, new, a) = TableOps(t, c.tables[t], a) \ {op}
  <2>1. a.fks = {}
    BY <1>1 DEF Replayable, HasNoForeignKeys, Present, Schema
  <2>2. TableOps(t, c.tables[t], a) =
          {op} \cup {[op |-> "CreateIndex", table |-> t, index |-> i] : i \in a.indexes}
    BY <2>1 DEF TableOps, NewTable
  <2>3. DiffColumns(t, a.cols, a.cols, {}) = {}
    <3>1. DOMAIN a.cols = Columns
      BY <1>1 DEF Table
    <3>2. \A x \in Columns : ColumnOps(t, x, a.cols[x], a.cols[x]) = {}
      BY DEF ColumnOps, ColumnsEqual, DefaultsEqual
    <3> QED
      BY <3>1, <3>2, DiffByColumn
  <2>4. DiffIndexes(t, {}, a.indexes) =
          {[op |-> "CreateIndex", table |-> t, index |-> i] : i \in a.indexes}
    BY DEF DiffIndexes, UnmatchedIndexes
  <2>5. DiffForeignKeys(t, {}, {}) = {}
    BY DEF DiffForeignKeys, UnmatchedForeignKeys
  <2>6. TableOps(t, new, a) =
          {[op |-> "CreateIndex", table |-> t, index |-> i] : i \in a.indexes}
    <3> HIDE DEF new, a
    <3>1. TableOps(t, new, a) = DiffTable(t, new, a, {})
      BY <1>2 DEF TableOps, a
    <3>2. DiffTable(t, new, a, {}) = UNION {{}, DiffIndexes(t, {}, a.indexes), {}}
      BY <1>2, <2>1, <2>3, <2>5 DEF DiffTable
    <3> QED
      BY <2>4, <3>1, <3>2
  <2> QED
    BY <2>2, <2>6
<1> HIDE DEF op, v, new
<1>8. IsDone(S, d, c, op)
  BY <1>1, <1>2, <1>3, <1>5, <1>6, <1>7, KnownStep, LeadsByOne, TableIsDone
<1> QED
  BY <1>8 DEF op
-----------------------------------------------------------------------------
\* Setting a column is setting its table, and the last setting is the one that counts.
LEMMA SetColumnTwice ==
  ASSUME NEW s \in Schema, NEW t \in Tables, HasTable(s, t), NEW x \in Columns,
         NEW q \in {Absent} \cup Column
  PROVE  /\ SetColumn(s, t, x, q) = SetTable(s, t, WithColumn(s.tables[t], x, q))
         /\ SetColumn(s, t, x, q) \in Schema
         /\ HasTable(SetColumn(s, t, x, q), t)
         /\ SetColumn(s, t, x, q).tables[t].cols[x] = q
         /\ \A p \in {Absent} \cup Column :
              SetColumn(SetColumn(s, t, x, p), t, x, q) = SetColumn(s, t, x, q)
<1>1. s.tables[t] \in Table
  BY FoundType
<1> DEFINE with(y) == WithColumn(s.tables[t], x, y)
<1>2. ASSUME NEW y \in {Absent} \cup Column
      PROVE  /\ SetColumn(s, t, x, y) = SetTable(s, t, with(y))
             /\ SetColumn(s, t, x, y) \in Schema
             /\ SetColumn(s, t, x, y).tables[t] = with(y)
             /\ with(y) \in Table /\ with(y).cols[x] = y
  <2>1. SetColumn(s, t, x, y) = SetTable(s, t, with(y))
    BY DEF SetColumn, SetTable, WithColumn
  <2>2. with(y) \in Table /\ with(y).cols[x] = y
    BY <1>1 DEF Table, WithColumn
  <2> HIDE DEF with
  <2>3. SetTable(s, t, with(y)).tables[t] = with(y)
    BY DEF SetTable, Schema
  <2> QED
    BY <1>1, <2>1, <2>2, <2>3, SetColumnType
<1>3. ASSUME NEW p \in {Absent} \cup Column
      PROVE  SetColumn(SetColumn(s, t, x, p), t, x, q) = SetColumn(s, t, x, q)
  <2>1. WithColumn(with(p), x, q) = with(q)
    BY <1>1 DEF Table, WithColumn
  <2>2. SetColumn(SetColumn(s, t, x, p), t, x, q) =
          SetTable(SetTable(s, t, with(p)), t, WithColumn(with(p), x, q))
    BY <1>2 DEF SetColumn, SetTable, WithColumn
  <2> HIDE DEF with
  <2>3. SetTable(SetTable(s, t, with(p)), t, with(q)) = SetTable(s, t, with(q))
    BY DEF SetTable, Schema
  <2> QED
    BY <1>2, <2>1, <2>2, <2>3
<1>4. SetColumn(s, t, x, q).tables[t] # Absent
  <2> HIDE DEF with
  <2>1. SetColumn(s, t, x, q).tables[t] = with(q) /\ with(q) \in Table
    BY <1>2
  <2> QED
    BY <2>1, AbsentAssumption
<1>5. SetColumn(s, t, x, q).tables[t].cols[x] = q
  BY <1>2
<1>6. SetColumn(s, t, x, q) = SetTable(s, t, with(q)) /\ SetColumn(s, t, x, q) \in Schema
  BY <1>2
<1> QED
  BY <1>3, <1>4, <1>5, <1>6, Zenon DEF HasTable

\* One column changes, and its difference loses the operation.
LEMMA ColumnIsDone ==
  ASSUME NEW S, S \subseteq Schema, NEW d \in S, NEW c, Known(S, c),
         NEW t \in Tables, HasTable(c, t), HasTable(d, t), NEW x \in Columns,
         NEW new \in {Absent} \cup Column, new = d.tables[t].cols[x],
         NEW op \in ColumnOps(t, x, c.tables[t].cols[x], new),
         Leads(GenerateOperation(op), c, SetColumn(c, t, x, new))
  PROVE  IsDone(S, d, c, op)
<1> DEFINE b == c.tables[t]
           a == d.tables[t]
           r == WithColumn(b, x, new)
<1>1. c \in Schema /\ d \in Schema
  BY DEF Known
<1>2. b \in Table /\ a \in Table
  BY <1>1, FoundType
<1>3. KnownTable(S, t, b)
  BY DEF Known, HasTable
<1>4. r \in Table /\ KnownTable(S, t, r)
  <2>1. /\ r \in Table /\ r.fks = b.fks /\ r.indexes = b.indexes
        /\ \A y \in Columns : r.cols[y] = IF y = x THEN new ELSE b.cols[y]
    BY <1>2 DEF Table, WithColumn
  <2>2. new # Absent => new \in ColumnsAt(S, t, x)
    BY DesiredIsKnown DEF HasTable
  <2> HIDE DEF r, b
  <2> QED
    BY <1>3, <2>1, <2>2 DEF KnownTable
<1>5. op \in TableOps(t, b, a) /\ TableOps(t, r, a) = TableOps(t, b, a) \ {op}
  <2>1. op \in ColumnOps(t, x, b.cols[x], a.cols[x]) /\ r = WithColumn(b, x, a.cols[x])
    OBVIOUS
  <2> HIDE DEF a, b, r
  <2> QED
    BY <1>2, <2>1, ColumnStep, SMTT(60)
<1>6. SetColumn(c, t, x, new) = SetTable(c, t, r)
  BY <1>1, SetColumnTwice
<1> HIDE DEF r
<1> QED
  BY <1>4, <1>5, <1>6, TableIsDone

\* ADD COLUMN finds the table, and no column of that name.
LEMMA AddColumnIsDone ==
  ASSUME NEW S, S \subseteq Schema, Replayable(S), NEW d \in S, NEW c, Known(S, c),
         NEW t \in Tables, HasTable(c, t), NEW x \in Columns, HasColumn(d, t, x),
         c.tables[t].cols[x] = Absent,
         \A e \in Enums : d.enums[e] # Absent => c.enums[e] # Absent
  PROVE  IsDone(S, d, c, [op |-> "AddColumn", table |-> t, column |-> x,
                          coldef |-> d.tables[t].cols[x]])
<1> DEFINE new == d.tables[t].cols[x]
           op == [op |-> "AddColumn", table |-> t, column |-> x, coldef |-> new]
           v == [stmt |-> "ADD COLUMN", table |-> t, column |-> x, coldef |-> new]
<1>1. c \in Schema /\ d \in Schema
  BY DEF Known
<1>2. new \in Column /\ HasTable(d, t)
  BY <1>1, FoundType DEF HasColumn
<1>3. Format(new) = new /\ IsSupported(new.type, c)
  BY <1>1, ColumnReadable
<1>4. GenerateOperation(op) = <<v>>
  <2>1. GenerateOperation(op) =
          <<[stmt |-> "ADD COLUMN", table |-> t, column |-> x, coldef |-> Format(new)]>>
    BY DEF GenerateOperation
  <2> QED
    BY <1>3, <2>1, Zenon
<1>5. SetColumn(c, t, x, new) \in Schema
  BY <1>1, <1>2, SetColumnTwice
<1>6. ReadsAs(v, c, SetColumn(c, t, x, new))
  <2>1. Applied(v, c) = ApplyAddColumn(v, c)
    BY DEF Applied
  <2>2. ~HasColumn(c, t, x)
    BY DEF HasColumn
  <2> QED
    BY <1>3, <2>1, <2>2 DEF ReadsAs, ApplyAddColumn, When
<1>7. op \in ColumnOps(t, x, c.tables[t].cols[x], new)
  BY DEF ColumnOps, HasColumn
<1> HIDE DEF op, v
<1>8. IsDone(S, d, c, op)
  BY <1>1, <1>2, <1>4, <1>5, <1>6, <1>7, LeadsByOne, ColumnIsDone
<1> QED
  BY <1>8 DEF op

\* DROP COLUMN finds the column.
LEMMA DropColumnIsDone ==
  ASSUME NEW S, S \subseteq Schema, NEW d \in S, NEW c, Known(S, c),
         NEW t \in Tables, NEW x \in Columns, HasColumn(c, t, x), HasTable(d, t),
         d.tables[t].cols[x] = Absent
  PROVE  IsDone(S, d, c, [op |-> "DropColumn", table |-> t, column |-> x])
<1> DEFINE op == [op |-> "DropColumn", table |-> t, column |-> x]
           v == [stmt |-> "DROP COLUMN", table |-> t, column |-> x]
<1>1. c \in Schema /\ d \in Schema /\ HasTable(c, t)
  BY DEF Known, HasColumn
<1>2. GenerateOperation(op) = <<v>>
  BY DEF GenerateOperation, OnColumn
<1>3. SetColumn(c, t, x, Absent) \in Schema
  BY <1>1, SetColumnTwice
<1>4. ReadsAs(v, c, SetColumn(c, t, x, Absent))
  <2>1. Applied(v, c) = ApplyDropColumn(v, c)
    BY DEF Applied
  <2> QED
    BY <2>1 DEF ReadsAs, ApplyDropColumn, When
<1>5. op \in ColumnOps(t, x, c.tables[t].cols[x], Absent)
  BY DEF ColumnOps, HasColumn
<1> HIDE DEF op, v
<1>6. IsDone(S, d, c, op)
  BY <1>1, <1>2, <1>3, <1>4, <1>5, LeadsByOne, ColumnIsDone
<1> QED
  BY <1>6 DEF op

\* Setting a column to what it is changes nothing.
LEMMA SetColumnSame ==
  ASSUME NEW s \in Schema, NEW t \in Tables, NEW x \in Columns, HasColumn(s, t, x)
  PROVE  SetColumn(s, t, x, s.tables[t].cols[x]) = s
<1> DEFINE b == s.tables[t]
<1>1. b \in Table
  BY FoundType
<1>2. WithColumn(b, x, b.cols[x]) = b
  <2> HIDE DEF b
  <2> QED
    BY <1>1 DEF WithColumn, Table
<1>3. SetColumn(s, t, x, b.cols[x]) = SetTable(s, t, WithColumn(b, x, b.cols[x]))
  BY DEF SetColumn, SetTable, WithColumn
<1>4. SetTable(s, t, b) = s
  BY DEF SetTable, Schema
<1> HIDE DEF b
<1>5. SetColumn(s, t, x, b.cols[x]) = s
  BY <1>2, <1>3, <1>4
<1> QED
  BY <1>5 DEF b

\* The same of two columns, one after the other.
LEMMA SetTwoColumns ==
  ASSUME NEW c \in Schema, NEW t \in Tables, NEW x \in Columns, HasTable(c, t),
         NEW q \in Column, NEW p \in Column
  PROVE  /\ SetColumn(c, t, x, q) \in Schema
         /\ HasTable(SetColumn(c, t, x, q), t)
         /\ SetColumn(c, t, x, q).tables[t].cols[x] = q
         /\ SetColumn(c, t, x, p) \in Schema
         /\ SetColumn(SetColumn(c, t, x, q), t, x, p) = SetColumn(c, t, x, p)
<1>1. q \in {Absent} \cup Column /\ p \in {Absent} \cup Column
  OBVIOUS
<1> QED
  BY <1>1, SetColumnTwice

AltersColumn(v, t, x, s) ==
  /\ v.table = t /\ v.column = x
  /\ v.stmt \in {"SET NOT NULL", "DROP NOT NULL", "SET DEFAULT", "DROP DEFAULT", "ALTER TYPE"}
  /\ v.stmt = "ALTER TYPE" => IsSupported(v.type, s)

\* One statement of ALTER COLUMN finds its column.
LEMMA AlterReads ==
  ASSUME NEW c \in Schema, NEW t \in Tables, NEW x \in Columns, HasColumn(c, t, x),
         NEW q \in Column,
         NEW v, AltersColumn(v, t, x, c), AlteredColumn(v, q) \in Column
  PROVE  Leads(<<v>>, SetColumn(c, t, x, q), SetColumn(c, t, x, AlteredColumn(v, q)))
<1> DEFINE p == AlteredColumn(v, q)
           s == SetColumn(c, t, x, q)
           r == SetColumn(c, t, x, p)
<1>1. HasTable(c, t)
  BY DEF HasColumn
<1>2. /\ s \in Schema /\ HasTable(s, t) /\ s.tables[t].cols[x] = q
      /\ r \in Schema /\ SetColumn(s, t, x, p) = r
  BY <1>1, SetTwoColumns
<1>3. s.enums = c.enums
  BY DEF SetColumn, Schema
<1> HIDE DEF s, r, p
<1>4. HasColumn(s, t, x)
  BY <1>2, AbsentAssumption DEF HasColumn
<1>5. AltersColumn(v, t, x, s)
  BY <1>3 DEF AltersColumn, IsSupported
<1>6. ReadsAs(v, s, r)
  <2>1. Applied(v, s) = ApplyAlterColumn(v, s)
    BY <1>5 DEF Applied, AltersColumn
  <2>2. ApplyAlterColumn(v, s) = {SetColumn(s, t, x, p)}
    BY <1>2, <1>4, <1>5 DEF AltersColumn, ApplyAlterColumn, When, p
  <2> QED
    BY <1>2, <2>1, <2>2 DEF ReadsAs
<1> QED
  BY <1>2, <1>6, LeadsByOne DEF s, r, p

KeepsDefault(v, q, p) ==
  v.stmt = "SET DEFAULT" => v.default = p.default /\ q.default # p.default

\* A clause of ALTER COLUMN changes column q into column p: it is empty if they are
\* one, and otherwise a statement that says no more than the change.
IsClause(stmts, t, x, s, q, p) ==
  \/ stmts = << >> /\ q = p
  \/ \E v : /\ stmts = <<v>>
            /\ AltersColumn(v, t, x, s)
            /\ AlteredColumn(v, q) = p
            /\ KeepsDefault(v, q, p)

Retyped(old, new) == [old EXCEPT !.type = new.type]

Renulled(old, new) == [Retyped(old, new) EXCEPT !.nullable = new.nullable]

\* What is left to change after the type and the null is the default.
LEMMA RetypedType ==
  ASSUME NEW old \in Column, NEW new \in Column
  PROVE  /\ Retyped(old, new) \in Column /\ Renulled(old, new) \in Column
         /\ Retyped(old, new).type = new.type /\ Renulled(old, new).type = new.type
         /\ Retyped(old, new).nullable = old.nullable
         /\ Renulled(old, new).nullable = new.nullable
         /\ Retyped(old, new).default = old.default /\ Renulled(old, new).default = old.default
         /\ [Renulled(old, new) EXCEPT !.default = new.default] = new
BY DEF Retyped, Renulled, Column

\* The type, then the null, then the default: each clause changes its own part of the
\* column and leaves the others.
LEMMA AlterClauses ==
  ASSUME NEW t, NEW x, NEW s, NEW old \in Column, NEW new \in Column,
         IsReadableChange(old, new), IsSupported(new.type, s), new.default.kind # "sequence",
         NEW op, op = AlterColumn(t, x, old, new)
  PROVE  /\ IsClause(AlterColumnType(op), t, x, s, old, Retyped(old, new))
         /\ IsClause(AlterColumnNull(op), t, x, s, Retyped(old, new), Renulled(old, new))
         /\ IsClause(AlterColumnDefault(op), t, x, s, Renulled(old, new), new)
<1> DEFINE retyped == Retyped(old, new)
           renulled == Renulled(old, new)
<1>1. op.table = t /\ op.column = x /\ op.old = old /\ op.new = new
  BY DEF AlterColumn
<1>2. IsClause(AlterColumnType(op), t, x, s, old, retyped)
  <2>1. CASE old.type.kind = new.type.kind
    <3>1. retyped = old
      BY <2>1 DEF IsReadableChange, Column, Retyped
    <3>2. AlterColumnType(op) = << >>
      BY <1>1, <2>1 DEF AlterColumnType
    <3> QED
      BY <3>1, <3>2 DEF IsClause
  <2>2. CASE old.type.kind # new.type.kind
    <3> DEFINE v == [stmt |-> "ALTER TYPE", table |-> t, column |-> x, type |-> new.type]
    <3>1. AlterColumnType(op) = <<v>>
      BY <1>1, <2>2 DEF AlterColumnType
    <3>2. AlteredColumn(v, old) = retyped
      BY DEF AlteredColumn, Retyped
    <3>3. AltersColumn(v, t, x, s) /\ KeepsDefault(v, old, retyped)
      BY DEF AltersColumn, KeepsDefault
    <3> HIDE DEF v, retyped
    <3> QED
      BY <3>1, <3>2, <3>3 DEF IsClause
  <2> QED
    BY <2>1, <2>2
<1>3. IsClause(AlterColumnNull(op), t, x, s, retyped, renulled)
  <2>1. CASE old.nullable = new.nullable
    <3>1. renulled = retyped
      BY <2>1 DEF Column, Retyped, Renulled
    <3>2. AlterColumnNull(op) = << >>
      BY <1>1, <2>1 DEF AlterColumnNull
    <3> QED
      BY <3>1, <3>2 DEF IsClause
  <2>2. CASE old.nullable # new.nullable
    <3> DEFINE w == IF new.nullable THEN "DROP NOT NULL" ELSE "SET NOT NULL"
               v == [stmt |-> w, table |-> t, column |-> x]
    <3>1. AlterColumnNull(op) = <<v>>
      BY <1>1, <2>2 DEF AlterColumnNull, OnColumn
    <3>2. AlteredColumn(v, retyped) = renulled
      <4>1. CASE new.nullable
        BY <4>1 DEF AlteredColumn, Column, Retyped, Renulled
      <4>2. CASE ~new.nullable
        BY <4>2 DEF AlteredColumn, Column, Retyped, Renulled
      <4> QED
        BY <4>1, <4>2
    <3>3. AltersColumn(v, t, x, s) /\ KeepsDefault(v, retyped, renulled)
      BY DEF AltersColumn, KeepsDefault
    <3> HIDE DEF v, retyped, renulled
    <3> QED
      BY <3>1, <3>2, <3>3 DEF IsClause
  <2> QED
    BY <2>1, <2>2
<1>4. IsClause(AlterColumnDefault(op), t, x, s, renulled, new)
  <2>0. renulled.default = old.default /\ [renulled EXCEPT !.default = new.default] = new
    BY RetypedType
  <2>1. CASE old.default = new.default
    <3>1. renulled = new
      BY <2>1 DEF Column, Retyped, Renulled
    <3>2. AlterColumnDefault(op) = << >>
      BY <1>1, <2>1 DEF AlterColumnDefault
    <3> QED
      BY <3>1, <3>2 DEF IsClause
  <2>2. CASE old.default # new.default /\ new.default = NoDefault
    <3> DEFINE v == [stmt |-> "DROP DEFAULT", table |-> t, column |-> x]
    <3>1. AlterColumnDefault(op) = <<v>>
      BY <1>1, <2>2 DEF AlterColumnDefault, OnColumn
    <3>2. AlteredColumn(v, renulled) = new
      BY <2>0, <2>2 DEF AlteredColumn
    <3>3. AltersColumn(v, t, x, s) /\ KeepsDefault(v, renulled, new)
      BY DEF AltersColumn, KeepsDefault
    <3> HIDE DEF v, renulled
    <3> QED
      BY <3>1, <3>2, <3>3 DEF IsClause
  <2>3. CASE old.default # new.default /\ new.default # NoDefault
    <3> DEFINE v == [stmt |-> "SET DEFAULT", table |-> t, column |-> x, default |-> new.default]
    <3>1. AlterColumnDefault(op) = <<v>>
      BY <1>1, <2>3 DEF AlterColumnDefault, FormatDefault
    <3>2. AlteredColumn(v, renulled) = new
      <4>1. AlteredColumn(v, renulled) = [renulled EXCEPT !.default = WithoutCall(new.default)]
        BY DEF AlteredColumn
      <4>2. WithoutCall(new.default) = new.default
        BY <2>3 DEF IsReadableChange
      <4> HIDE DEF renulled
      <4> QED
        BY <2>0, <4>1, <4>2
    <3>3. AltersColumn(v, t, x, s)
      BY DEF AltersColumn
    <3>4. KeepsDefault(v, renulled, new)
      BY <2>0, <2>3 DEF KeepsDefault
    <3> HIDE DEF v, renulled
    <3> QED
      BY <3>1, <3>2, <3>3, <3>4 DEF IsClause
  <2> QED
    BY <2>1, <2>2, <2>3
<1> QED
  BY <1>2, <1>3, <1>4

\* A clause is read back as the change it is.
LEMMA ClauseLeads ==
  ASSUME NEW c \in Schema, NEW t \in Tables, NEW x \in Columns, HasColumn(c, t, x),
         NEW q \in Column, NEW p \in Column, NEW stmts, IsClause(stmts, t, x, c, q, p)
  PROVE  Leads(stmts, SetColumn(c, t, x, q), SetColumn(c, t, x, p))
<1>1. CASE stmts = << >> /\ q = p
  <2>1. SetColumn(c, t, x, q) \in Schema
    BY SetTwoColumns DEF HasColumn
  <2> QED
    BY <1>1, <2>1, LeadsNowhere
<1>2. CASE \E v : stmts = <<v>> /\ AltersColumn(v, t, x, c) /\ AlteredColumn(v, q) = p
  <2>1. PICK v : stmts = <<v>> /\ AltersColumn(v, t, x, c) /\ AlteredColumn(v, q) = p
    BY <1>2
  <2> QED
    BY <2>1, AlterReads
<1> QED
  BY <1>1, <1>2 DEF IsClause

\* A column to change is one of the project's, and so is what it has to become.
LEMMA ChangesAreKnown ==
  ASSUME NEW S, S \subseteq Schema, Replayable(S), NEW d \in S, NEW c, Known(S, c),
         NEW t \in Tables, NEW x \in Columns, HasColumn(c, t, x), HasColumn(d, t, x)
  PROVE  /\ c.tables[t].cols[x] \in Column /\ d.tables[t].cols[x] \in Column
         /\ c.tables[t].cols[x] \in ColumnsAt(S, t, x) /\ d.tables[t].cols[x] \in ColumnsAt(S, t, x)
         /\ d.tables[t].cols[x].default.kind # "sequence"
<1>1. c \in Schema /\ d \in Schema
  BY DEF Known
<1>2. c.tables[t].cols[x] \in ColumnsAt(S, t, x)
  <2>1. KnownTable(S, t, c.tables[t])
    BY DEF Known, HasColumn, HasTable
  <2> QED
    BY <2>1 DEF KnownTable, HasColumn
<1>3. d.tables[t].cols[x] \in ColumnsAt(S, t, x)
  BY <1>1 DEF ColumnsAt
<1>4. d.tables[t].cols[x].default.kind # "sequence"
  <2>1. t \in Present(d.tables) /\ x \in Present(d.tables[t].cols)
    BY <1>1, FoundType DEF HasColumn, HasTable, Present, Schema, Table
  <2> QED
    BY <2>1 DEF Replayable, HasReadableColumns
<1> QED
  BY <1>1, <1>2, <1>3, <1>4, FoundType

\* The clauses together are read back as the column that is wanted.
LEMMA AlterColumnLeads ==
  ASSUME NEW S, S \subseteq Schema, Replayable(S), NEW d \in S, NEW c, Known(S, c),
         NEW t \in Tables, NEW x \in Columns, HasColumn(c, t, x), HasColumn(d, t, x),
         \A e \in Enums : d.enums[e] # Absent => c.enums[e] # Absent,
         NEW op, op = AlterColumn(t, x, c.tables[t].cols[x], d.tables[t].cols[x])
  PROVE  Leads(GenerateOperation(op), c, SetColumn(c, t, x, d.tables[t].cols[x]))
<1> DEFINE old == c.tables[t].cols[x]
           new == d.tables[t].cols[x]
           at(q) == SetColumn(c, t, x, q)
<1>1. c \in Schema /\ d \in Schema
  BY DEF Known
<1>2. old \in Column /\ new \in Column /\ new.default.kind # "sequence"
  BY ChangesAreKnown
<1>3. IsSupported(new.type, c)
  BY <1>1, ColumnReadable
<1>4. IsReadableChange(old, new)
  BY ChangesAreKnown DEF Replayable
<1>5. op.op = "AlterColumn" /\ op \in AlterColumns
  BY <1>2 DEF AlterColumn, AlterColumns
<1>6. at(old) = c
  BY <1>1, SetColumnSame
<1> HIDE DEF old, new
<1>7. op = AlterColumn(t, x, old, new)
  BY DEF old, new
<1>8. /\ IsClause(AlterColumnType(op), t, x, c, old, Retyped(old, new))
      /\ IsClause(AlterColumnNull(op), t, x, c, Retyped(old, new), Renulled(old, new))
      /\ IsClause(AlterColumnDefault(op), t, x, c, Renulled(old, new), new)
  BY <1>2, <1>3, <1>4, <1>7, AlterClauses
<1>9. Retyped(old, new) \in Column /\ Renulled(old, new) \in Column
  BY <1>2, RetypedType
<1>10. /\ Leads(AlterColumnType(op), at(old), at(Retyped(old, new)))
       /\ Leads(AlterColumnNull(op), at(Retyped(old, new)), at(Renulled(old, new)))
       /\ Leads(AlterColumnDefault(op), at(Renulled(old, new)), at(new))
  BY <1>1, <1>2, <1>8, <1>9, ClauseLeads
<1> HIDE DEF at
<1>11. GenerateOperation(op) = (AlterColumnType(op) \o AlterColumnNull(op)) \o AlterColumnDefault(op)
  BY <1>5 DEF GenerateOperation
<1>12. /\ AlterColumnType(op) \in Seq(Statement) /\ AlterColumnNull(op) \in Seq(Statement)
       /\ AlterColumnDefault(op) \in Seq(Statement)
  BY <1>5, AlterColumnsType
<1>13. AlterColumnType(op) \o AlterColumnNull(op) \in Seq(Statement)
  BY <1>12
<1>14. Leads(AlterColumnType(op) \o AlterColumnNull(op), at(old), at(Renulled(old, new)))
  BY <1>10, <1>12, LeadsOn
<1>15. Leads(GenerateOperation(op), at(old), at(new))
  BY <1>10, <1>11, <1>12, <1>13, <1>14, LeadsOn
<1> QED
  BY <1>6, <1>15 DEF at, new

\* ALTER COLUMN finds its column.
LEMMA AlterColumnIsDone ==
  ASSUME NEW S, S \subseteq Schema, Replayable(S), NEW d \in S, NEW c, Known(S, c),
         NEW t \in Tables, NEW x \in Columns, HasColumn(c, t, x), HasColumn(d, t, x),
         ~ColumnsEqual(c.tables[t].cols[x], d.tables[t].cols[x]),
         \A e \in Enums : d.enums[e] # Absent => c.enums[e] # Absent
  PROVE  IsDone(S, d, c, AlterColumn(t, x, c.tables[t].cols[x], d.tables[t].cols[x]))
<1> DEFINE new == d.tables[t].cols[x]
           op == AlterColumn(t, x, c.tables[t].cols[x], new)
<1>1. HasTable(c, t) /\ HasTable(d, t) /\ new \in {Absent} \cup Column
  BY ChangesAreKnown DEF HasColumn
<1>2. op \in ColumnOps(t, x, c.tables[t].cols[x], new)
  BY DEF ColumnOps, HasColumn
<1>3. Leads(GenerateOperation(op), c, SetColumn(c, t, x, new))
  BY AlterColumnLeads
<1> HIDE DEF op
<1>4. IsDone(S, d, c, op)
  BY <1>1, <1>2, <1>3, ColumnIsDone
<1> QED
  BY <1>4 DEF op
-----------------------------------------------------------------------------
\* The indexes of one table change, and its difference loses the operation.
LEMMA IndexIsDone ==
  ASSUME NEW S, S \subseteq Schema, NEW d \in S, NEW c, Known(S, c),
         NEW t \in Tables, HasTable(c, t), HasTable(d, t), NEW new \in SUBSET Index,
         KnownTable(S, t, WithIndexes(c.tables[t], new)),
         NEW op \in DiffIndexes(t, c.tables[t].indexes, d.tables[t].indexes),
         DiffIndexes(t, new, d.tables[t].indexes) =
           DiffIndexes(t, c.tables[t].indexes, d.tables[t].indexes) \ {op},
         Leads(GenerateOperation(op), c, SetIndexes(c, t, new))
  PROVE  IsDone(S, d, c, op)
<1> DEFINE b == c.tables[t]
           a == d.tables[t]
           r == WithIndexes(b, new)
<1>1. c \in Schema /\ d \in Schema
  BY DEF Known
<1>2. b \in Table /\ a \in Table
  BY <1>1, FoundType
<1>3. r \in Table
  BY <1>2 DEF WithIndexes, Table
<1>4. op \in TableOps(t, b, a) /\ TableOps(t, r, a) = TableOps(t, b, a) \ {op}
  <2>1. /\ op \in DiffIndexes(t, b.indexes, a.indexes)
        /\ DiffIndexes(t, new, a.indexes) = DiffIndexes(t, b.indexes, a.indexes) \ {op}
    OBVIOUS
  <2>2. r.indexes = new /\ r.cols = b.cols /\ r.fks = b.fks
    BY <1>2 DEF Table, WithIndexes
  <2> HIDE DEF a, b, r
  <2>3. r # Absent /\ b # Absent /\ a # Absent
    BY <1>2, <1>3, AbsentAssumption
  <2>4. op.op \in {"CreateIndex", "DropIndex"}
    BY <2>1, IndexOpsAbout
  <2>5. ASSUME op \in DiffColumns(t, b.cols, a.cols, {}) PROVE FALSE
    <3>1. DOMAIN b.cols = Columns /\ DOMAIN a.cols = Columns
      BY <1>2 DEF Table
    <3>2. PICK x \in Columns : op \in ColumnOps(t, x, b.cols[x], a.cols[x])
      BY <2>5, <3>1, DiffByColumn
    <3> QED
      BY <2>4, <3>2, ColumnOpsAbout
  <2>6. op \notin DiffForeignKeys(t, b.fks, a.fks)
    BY <2>4 DEF DiffForeignKeys
  <2> QED
    BY <2>1, <2>2, <2>3, <2>5, <2>6, Zenon DEF TableOps, DiffTable
<1>5. SetIndexes(c, t, new) = SetTable(c, t, r)
  BY DEF SetIndexes, SetTable, WithIndexes
<1>6. KnownTable(S, t, r)
  OBVIOUS
<1> HIDE DEF r
<1> QED
  BY <1>3, <1>4, <1>5, <1>6, TableIsDone

\* A name leads to one table, and in it to one list of columns.
LEMMA NamesAreDistinct ==
  ASSUME NEW S, S \subseteq Schema, Replayable(S), NEW c, Known(S, c),
         NEW t \in Tables, NEW i \in IndexesAt(S, t),
         NEW u \in Tables, HasTable(c, u), NEW j \in c.tables[u].indexes, j.name = IndexName(t, i)
  PROVE  u = t /\ j.cols = i.cols
<1>1. KnownTable(S, u, c.tables[u])
  BY DEF Known, HasTable
<1>2. PICK k \in IndexesAt(S, u) : j = [k EXCEPT !.name = IndexName(u, k)]
  BY <1>1 DEF KnownTable
<1>3. k \in Index
  BY DEF IndexesAt, HasTable, Schema, Table
<1>4. j.name = IndexName(u, k) /\ j.cols = k.cols
  BY <1>2, <1>3 DEF Index
<1>5. u = t /\ k.cols = i.cols
  <2>1. HaveDistinctNames(S)
    BY DEF Replayable
  <2>2. IndexName(t, i) = IndexName(u, k)
    BY <1>4
  <2> QED
    BY <2>1, <2>2 DEF HaveDistinctNames
<1> QED
  BY <1>4, <1>5

\* CREATE INDEX comes after CREATE TABLE, and its name is free.
LEMMA CreateIndexIsDone ==
  ASSUME NEW S, S \subseteq Schema, Replayable(S), NEW d \in S, NEW c, Known(S, c),
         NEW t \in Tables, HasTable(c, t), HasTable(d, t), NEW i \in d.tables[t].indexes,
         i \in UnmatchedIndexes(d.tables[t].indexes, c.tables[t].indexes)
  PROVE  IsDone(S, d, c, [op |-> "CreateIndex", table |-> t, index |-> i])
<1> DEFINE b == c.tables[t]
           a == d.tables[t]
           op == [op |-> "CreateIndex", table |-> t, index |-> i]
           named == [i EXCEPT !.name = IndexName(t, i)]
           v == [stmt |-> "CREATE INDEX", table |-> t, index |-> named]
           new == b.indexes \cup {named}
<1>1. c \in Schema /\ d \in Schema
  BY DEF Known
<1>2. b \in Table /\ a \in Table /\ i \in Index
  BY <1>1, FoundType DEF Table
<1>3. named \in Index /\ named.cols = i.cols /\ named.name = IndexName(t, i)
  BY <1>2, IndexNameType DEF Index
<1>4. new \in SUBSET Index
  BY <1>2, <1>3 DEF Table
<1>5. i \in IndexesAt(S, t)
  BY DesiredIsKnown DEF HasTable
<1>6. \A j \in b.indexes : j.cols # i.cols
  BY DEF UnmatchedIndexes
<1>7. KnownTable(S, t, WithIndexes(b, new))
  <2>1. KnownTable(S, t, b)
    BY DEF Known, HasTable
  <2>2. /\ WithIndexes(b, new).fks = b.fks /\ WithIndexes(b, new).cols = b.cols
        /\ WithIndexes(b, new).indexes = new
    BY <1>2 DEF WithIndexes, Table
  <2>3. \A j \in new : \E k \in IndexesAt(S, t) : j = [k EXCEPT !.name = IndexName(t, k)]
    BY <1>5, <2>1 DEF KnownTable
  <2>4. \A j, k \in new : j.cols = k.cols => j = k
    BY <1>3, <1>6, <2>1 DEF KnownTable
  <2> HIDE DEF new, b
  <2> QED
    BY <2>1, <2>2, <2>3, <2>4 DEF KnownTable
<1>8. GenerateOperation(op) = <<v>>
  BY DEF GenerateOperation, CreateIndex
<1>9. ReadsAs(v, c, SetIndexes(c, t, new))
  <2>1. Applied(v, c) = ApplyCreateIndex(v, c)
    BY DEF Applied
  <2>2. IndexName(t, i) \notin IndexNamesOf(c, t)
    <3> SUFFICES ASSUME NEW j \in b.indexes, j.name = IndexName(t, i)
                 PROVE  FALSE
      BY DEF IndexNamesOf
    <3>1. j.cols = i.cols
      BY <1>5, NamesAreDistinct
    <3> QED
      BY <1>6, <3>1
  <2>3. v.index = named /\ v.table = t
    OBVIOUS
  <2> HIDE DEF v, named
  <2> QED
    BY <1>3, <2>1, <2>2, <2>3 DEF ReadsAs, ApplyCreateIndex, When
<1>10. SetIndexes(c, t, new) \in Schema
  BY <1>1, <1>2, <1>4, SetIndexesType
<1>11. op \in DiffIndexes(t, b.indexes, a.indexes)
  BY DEF DiffIndexes
<1>12. DiffIndexes(t, new, a.indexes) = DiffIndexes(t, b.indexes, a.indexes) \ {op}
  <2>1. \A k \in a.indexes : k.cols = i.cols => k = i
    <3>1. t \in Present(d.tables)
      BY <1>1 DEF HasTable, Present, Schema
    <3> QED
      BY <3>1 DEF Replayable, HasDistinctIndexes
  <2>2. UnmatchedIndexes(a.indexes, new) = UnmatchedIndexes(a.indexes, b.indexes) \ {i}
    BY <1>3, <2>1 DEF UnmatchedIndexes
  <2>3. UnmatchedIndexes(new, a.indexes) = UnmatchedIndexes(b.indexes, a.indexes)
    BY <1>3 DEF UnmatchedIndexes
  <2> HIDE DEF new, a, b
  <2> QED
    BY <2>2, <2>3 DEF DiffIndexes
<1> HIDE DEF op, v, new
<1>13. Leads(GenerateOperation(op), c, SetIndexes(c, t, new))
  BY <1>1, <1>8, <1>9, <1>10, LeadsByOne
<1>14. IsDone(S, d, c, op)
  BY <1>4, <1>7, <1>11, <1>12, <1>13, IndexIsDone
<1> QED
  BY <1>14 DEF op

\* DROP INDEX names one index of one table.
LEMMA DropIndexIsDone ==
  ASSUME NEW S, S \subseteq Schema, Replayable(S), NEW d \in S, NEW c, Known(S, c),
         NEW t \in Tables, HasTable(c, t), HasTable(d, t), NEW i \in c.tables[t].indexes,
         i \in UnmatchedIndexes(c.tables[t].indexes, d.tables[t].indexes)
  PROVE  IsDone(S, d, c, [op |-> "DropIndex", table |-> t, index |-> i])
<1> DEFINE b == c.tables[t]
           a == d.tables[t]
           op == [op |-> "DropIndex", table |-> t, index |-> i]
           v == [stmt |-> "DROP INDEX", name |-> IndexName(t, i)]
           new == b.indexes \ {i}
<1>1. c \in Schema /\ d \in Schema
  BY DEF Known
<1>2. b \in Table /\ a \in Table /\ i \in Index /\ new \in SUBSET Index
  BY <1>1, FoundType DEF Table
<1>3. KnownTable(S, t, b)
  BY DEF Known, HasTable
<1>4. PICK k \in IndexesAt(S, t) : i = [k EXCEPT !.name = IndexName(t, k)]
  BY <1>3 DEF KnownTable
<1>5. i.cols = k.cols /\ i.name = IndexName(t, k) /\ IndexName(t, i) = i.name
  <2>1. k \in Index
    BY DEF IndexesAt, HasTable, Schema, Table
  <2>2. i.cols = k.cols /\ i.name = IndexName(t, k)
    BY <1>4, <2>1 DEF Index
  <2>3. <<"idx", t>> \o k.cols # << >>
    BY <2>1 DEF Index
  <2>4. IndexName(t, k) # NoName
    BY <2>3 DEF IndexName, NoName
  <2> QED
    BY <2>2, <2>4 DEF IndexName
<1>6. KnownTable(S, t, WithIndexes(b, new))
  <2>1. /\ WithIndexes(b, new).fks = b.fks /\ WithIndexes(b, new).cols = b.cols
        /\ WithIndexes(b, new).indexes = new
    BY <1>2 DEF WithIndexes, Table
  <2>2. new \subseteq b.indexes
    OBVIOUS
  <2> HIDE DEF new, b
  <2> QED
    BY <1>3, <2>1, <2>2 DEF KnownTable
<1>7. GenerateOperation(op) = <<v>>
  BY DEF GenerateOperation, DropIndex
<1>8. ReadsAs(v, c, SetIndexes(c, t, new))
  <2>1. Applied(v, c) = ApplyDropIndex(v, c)
    BY DEF Applied
  <2>2. ASSUME NEW u \in Tables, HasTable(c, u), NEW j \in c.tables[u].indexes, j.name = v.name
        PROVE  u = t /\ j.cols = i.cols
    BY <1>4, <1>5, <2>2, NamesAreDistinct
  <2>3. {u \in Present(c.tables) : v.name \in IndexNamesOf(c, u)} = {t}
    <3>1. t \in Present(c.tables) /\ v.name \in IndexNamesOf(c, t)
      BY <1>1, <1>5 DEF Present, HasTable, Schema, IndexNamesOf
    <3>2. ASSUME NEW u \in Present(c.tables), v.name \in IndexNamesOf(c, u)
          PROVE  u = t
      <4>1. u \in Tables /\ HasTable(c, u)
        BY <1>1 DEF Present, HasTable, Schema
      <4>2. PICK j \in c.tables[u].indexes : j.name = v.name
        BY <3>2 DEF IndexNamesOf
      <4> QED
        BY <2>2, <4>1, <4>2
    <3> QED
      BY <3>1, <3>2
  <2>4. {j \in b.indexes : j.name # v.name} = new
    <3>1. \A j \in b.indexes : j.name = v.name => j = i
      BY <1>3, <2>2 DEF KnownTable
    <3> QED
      BY <1>5, <3>1
  <2> HIDE DEF v, new
  <2>5. ApplyDropIndex(v, c) = {SetIndexes(c, t, {j \in b.indexes : j.name # v.name})}
    BY <2>3 DEF ApplyDropIndex
  <2> QED
    BY <2>1, <2>4, <2>5 DEF ReadsAs
<1>9. SetIndexes(c, t, new) \in Schema
  BY <1>1, <1>2, SetIndexesType
<1>10. op \in DiffIndexes(t, b.indexes, a.indexes)
  BY DEF DiffIndexes
<1>11. DiffIndexes(t, new, a.indexes) = DiffIndexes(t, b.indexes, a.indexes) \ {op}
  <2>1. UnmatchedIndexes(a.indexes, new) = UnmatchedIndexes(a.indexes, b.indexes)
    BY DEF UnmatchedIndexes
  <2>2. UnmatchedIndexes(new, a.indexes) = UnmatchedIndexes(b.indexes, a.indexes) \ {i}
    BY DEF UnmatchedIndexes
  <2> HIDE DEF new, a, b
  <2> QED
    BY <2>1, <2>2 DEF DiffIndexes
<1> HIDE DEF op, v, new
<1>12. Leads(GenerateOperation(op), c, SetIndexes(c, t, new))
  BY <1>1, <1>7, <1>8, <1>9, LeadsByOne
<1>13. IsDone(S, d, c, op)
  BY <1>2, <1>6, <1>10, <1>11, <1>12, IndexIsDone
<1> QED
  BY <1>13 DEF op
-----------------------------------------------------------------------------
\* No table has foreign keys, on either side.
LEMMA NoForeignKeys ==
  ASSUME NEW S, S \subseteq Schema, Replayable(S), NEW d \in S, NEW c, Known(S, c), NEW t \in Tables
  PROVE  /\ d.tables[t] # Absent => d.tables[t].fks = {}
         /\ c.tables[t] # Absent => c.tables[t].fks = {}
<1>1. ASSUME d.tables[t] # Absent PROVE d.tables[t].fks = {}
  <2>1. t \in Present(d.tables)
    BY <1>1 DEF Present, Schema
  <2> QED
    BY <2>1 DEF Replayable, HasNoForeignKeys
<1>2. ASSUME c.tables[t] # Absent PROVE c.tables[t].fks = {}
  BY <1>2 DEF Known, KnownTable
<1> QED
  BY <1>1, <1>2

\* Enums only ever appear: no label changes.
LEMMA NewEnum ==
  ASSUME NEW S, S \subseteq Schema, Replayable(S), NEW d \in S, NEW c, Known(S, c),
         NEW op \in DiffEnums(c.enums, d.enums)
  PROVE  \E e \in Enums : /\ c.enums[e] = Absent /\ d.enums[e] # Absent
                         /\ op = [op |-> "CreateEnum", enum |-> e, values |-> d.enums[e]]
<1>1. c \in Schema /\ d \in Schema
  BY DEF Known
<1>2. \A e \in Present(d.enums) \cap Present(c.enums) : d.enums[e] = c.enums[e]
  <2> SUFFICES ASSUME NEW e \in Present(d.enums) \cap Present(c.enums)
               PROVE  d.enums[e] = c.enums[e]
    OBVIOUS
  <2>1. e \in Enums /\ c.enums[e] # Absent /\ d.enums[e] # Absent
    BY <1>1 DEF Present, Schema
  <2>2. PICK s \in S : s.enums[e] = c.enums[e]
    BY <2>1 DEF Known
  <2>3. e \in Present(s.enums) \cap Present(d.enums)
    BY <1>1, <2>1, <2>2 DEF Present, Schema
  <2> QED
    BY <2>2, <2>3 DEF Replayable, HaveSameLabels
<1>3. PICK e \in Present(d.enums) \ Present(c.enums) :
        op = [op |-> "CreateEnum", enum |-> e, values |-> d.enums[e]]
  BY <1>2 DEF DiffEnums
<1>4. e \in Enums /\ c.enums[e] = Absent /\ d.enums[e] # Absent
  BY <1>1 DEF Present, Schema
<1> QED
  BY <1>3, <1>4

\* A new table comes before its indexes.
LEMMA TableFirst ==
  ASSUME NEW S, S \subseteq Schema, Replayable(S), NEW d \in S, NEW c, Known(S, c),
         NEW op \in First(Diff(c, d, {})), NEW t \in Tables,
         c.tables[t] = Absent, d.tables[t] # Absent,
         op \in TableOps(t, c.tables[t], d.tables[t])
  PROVE  op = [op |-> "CreateTable", table |-> t, tabledef |-> d.tables[t]]
<1> DEFINE o == [op |-> "CreateTable", table |-> t, tabledef |-> d.tables[t]]
<1>1. DOMAIN c.tables = Tables /\ DOMAIN d.tables = Tables
  BY DEF Known, Schema
<1>2. NewTable(t, d.tables[t]) = TableOps(t, c.tables[t], d.tables[t])
  BY DEF TableOps
<1>3. o \in NewTable(t, d.tables[t])
  BY DEF NewTable
<1>4. o \in Diff(c, d, {})
  BY <1>1, <1>2, <1>3, DiffByTable DEF Diff
<1>5. op.op # "CreateIndex"
  <2>1. Priority[op.op] <= Priority[o.op]
    BY <1>4 DEF First
  <2>2. Priority["CreateTable"] = 4 /\ Priority["CreateIndex"] = 10
    BY DEF Priority
  <2> QED
    BY <2>1, <2>2
<1>6. d.tables[t].fks = {}
  BY NoForeignKeys
<1> QED
  BY <1>2, <1>5, <1>6 DEF NewTable

\* What is found of a table on both sides.
LEMMA KeptTableIsDone ==
  ASSUME NEW S, S \subseteq Schema, Replayable(S), NEW d \in S, NEW c, Known(S, c),
         NEW op \in First(Diff(c, d, {})), NEW t \in Tables, HasTable(c, t), HasTable(d, t),
         op \in DiffTable(t, c.tables[t], d.tables[t], {})
  PROVE  IsDone(S, d, c, op)
<1> DEFINE b == c.tables[t]
           a == d.tables[t]
<1>1. c \in Schema /\ d \in Schema
  BY DEF Known
<1>2. b \in Table /\ a \in Table
  BY <1>1, FoundType
<1>3. \/ op \in DiffColumns(t, b.cols, a.cols, {})
      \/ op \in DiffIndexes(t, b.indexes, a.indexes)
      \/ op \in DiffForeignKeys(t, b.fks, a.fks)
  BY DEF DiffTable
<1>4. CASE op \in DiffColumns(t, b.cols, a.cols, {})
  <2>1. PICK x \in Columns : op \in ColumnOps(t, x, b.cols[x], a.cols[x])
    <3>1. DOMAIN b.cols = Columns /\ DOMAIN a.cols = Columns
      BY <1>2 DEF Table
    <3> QED
      BY <1>4, <3>1, DiffByColumn
  <2>2. CASE a.cols[x] = Absent
    <3>1. b.cols[x] # Absent /\ op = [op |-> "DropColumn", table |-> t, column |-> x]
      BY <2>1, <2>2 DEF ColumnOps
    <3>2. HasColumn(c, t, x)
      BY <3>1 DEF HasColumn
    <3> QED
      BY <2>2, <3>1, <3>2, DropColumnIsDone
  <2>3. CASE a.cols[x] # Absent /\ b.cols[x] = Absent
    <3>1. op = [op |-> "AddColumn", table |-> t, column |-> x, coldef |-> a.cols[x]]
      BY <2>1, <2>3 DEF ColumnOps
    <3>2. \A e \in Enums : d.enums[e] # Absent => c.enums[e] # Absent
      BY <3>1, EnumsReady
    <3>3. HasColumn(d, t, x)
      BY <2>3 DEF HasColumn
    <3> QED
      BY <2>3, <3>1, <3>2, <3>3, AddColumnIsDone
  <2>4. CASE a.cols[x] # Absent /\ b.cols[x] # Absent
    <3>1. op = AlterColumn(t, x, b.cols[x], a.cols[x]) /\ ~ColumnsEqual(b.cols[x], a.cols[x])
      BY <2>1, <2>4 DEF ColumnOps
    <3>2. \A e \in Enums : d.enums[e] # Absent => c.enums[e] # Absent
      <4>1. op.op = "AlterColumn"
        BY <3>1 DEF AlterColumn
      <4> QED
        BY <4>1, EnumsReady
    <3>3. HasColumn(c, t, x) /\ HasColumn(d, t, x)
      BY <2>4 DEF HasColumn
    <3> QED
      BY <3>1, <3>2, <3>3, AlterColumnIsDone
  <2> QED
    BY <2>2, <2>3, <2>4
<1>5. CASE op \in DiffIndexes(t, b.indexes, a.indexes)
  <2>1. CASE \E i \in UnmatchedIndexes(a.indexes, b.indexes) :
               op = [op |-> "CreateIndex", table |-> t, index |-> i]
    <3>1. PICK i \in UnmatchedIndexes(a.indexes, b.indexes) :
            op = [op |-> "CreateIndex", table |-> t, index |-> i]
      BY <2>1
    <3>2. i \in a.indexes
      BY DEF UnmatchedIndexes
    <3> QED
      BY <3>1, <3>2, CreateIndexIsDone
  <2>2. CASE \E i \in UnmatchedIndexes(b.indexes, a.indexes) :
               op = [op |-> "DropIndex", table |-> t, index |-> i]
    <3>1. PICK i \in UnmatchedIndexes(b.indexes, a.indexes) :
            op = [op |-> "DropIndex", table |-> t, index |-> i]
      BY <2>2
    <3>2. i \in b.indexes
      BY DEF UnmatchedIndexes
    <3> QED
      BY <3>1, <3>2, DropIndexIsDone
  <2> QED
    BY <1>5, <2>1, <2>2 DEF DiffIndexes
<1>6. CASE op \in DiffForeignKeys(t, b.fks, a.fks)
  <2>1. b.fks = {} /\ a.fks = {}
    BY NoForeignKeys DEF HasTable
  <2> QED
    BY <1>6, <2>1 DEF DiffForeignKeys, UnmatchedForeignKeys
<1> QED
  BY <1>3, <1>4, <1>5, <1>6

\* Whichever operation of least priority the planner takes, its SQL is read back, by a
\* builder with no choice, into a known schema that differs from the desired one by what
\* is left of the plan.
THEOREM OperationIsDone ==
  ASSUME NEW S, S \subseteq Schema, Replayable(S), NEW d \in S, NEW c, Known(S, c),
         NEW op \in First(Diff(c, d, {}))
  PROVE  IsDone(S, d, c, op)
<1>1. c \in Schema /\ d \in Schema
  BY DEF Known
<1>2. op \in Diff(c, d, {})
  BY DEF First
<1>3. CASE op \in DiffEnums(c.enums, d.enums)
  <2>1. PICK e \in Enums : c.enums[e] = Absent /\ d.enums[e] # Absent
                           /\ op = [op |-> "CreateEnum", enum |-> e, values |-> d.enums[e]]
    BY <1>3, NewEnum
  <2> QED
    BY <2>1, CreateEnumIsDone
<1>4. CASE op \in DiffTables(c.tables, d.tables, {})
  <2>1. DOMAIN c.tables = Tables /\ DOMAIN d.tables = Tables
    BY <1>1 DEF Schema
  <2>2. PICK t \in Tables : op \in TableOps(t, c.tables[t], d.tables[t])
    BY <1>4, <2>1, DiffByTable
  <2>3. CASE d.tables[t] = Absent
    <3>1. c.tables[t] # Absent /\ op = [op |-> "DropTable", table |-> t]
      BY <2>2, <2>3 DEF TableOps
    <3> QED
      BY <2>3, <3>1, DropTableIsDone
  <2>4. CASE d.tables[t] # Absent /\ c.tables[t] # Absent
    <3>1. op \in DiffTable(t, c.tables[t], d.tables[t], {})
      BY <2>2, <2>4 DEF TableOps
    <3> QED
      BY <2>4, <3>1, KeptTableIsDone DEF HasTable
  <2>5. CASE d.tables[t] # Absent /\ c.tables[t] = Absent
    <3>1. op = [op |-> "CreateTable", table |-> t, tabledef |-> d.tables[t]]
      BY <2>2, <2>5, TableFirst
    <3>2. \A e \in Enums : d.enums[e] # Absent => c.enums[e] # Absent
      BY <3>1, EnumsReady
    <3> QED
      BY <2>5, <3>1, <3>2, CreateTableIsDone
  <2> QED
    BY <2>3, <2>4, <2>5
<1> QED
  BY <1>2, <1>3, <1>4 DEF Diff
-----------------------------------------------------------------------------
(***************************************************************************)
(* The SQL of an operation that passes the gate without the flag.          *)
(***************************************************************************)
\* No section without statements is lossy, and one with a single statement is
\* lossy only if that statement is.
LEMMA IsLossySingle ==
  /\ ~IsLossy(<< >>)
  /\ \A v : v.stmt \notin Lossy => ~IsLossy(<<v>>)
BY DEF IsLossy

\* A section made of two is lossy only if one of them is.
LEMMA IsLossyConcat ==
  ASSUME NEW a \in Seq(Statement), NEW b \in Seq(Statement), IsLossy(a \o b)
  PROVE  IsLossy(a) \/ IsLossy(b)
<1>1. PICK i \in 1..Len(a) + Len(b) : (a \o b)[i].stmt \in Lossy
  BY DEF IsLossy
<1>2. CASE i <= Len(a)
  <2>1. i \in DOMAIN a /\ (a \o b)[i] = a[i]
    BY <1>2
  <2> QED
    BY <1>1, <2>1, Zenon DEF IsLossy
<1>3. CASE i > Len(a)
  <2>1. i - Len(a) \in DOMAIN b /\ (a \o b)[i] = b[i - Len(a)]
    BY <1>3
  <2> QED
    BY <1>1, <2>1, Zenon DEF IsLossy
<1> QED
  BY <1>2, <1>3

\* An AlterColumn that keeps the kind and does not take NULL away.
LEMMA AlterColumnNotLossy ==
  ASSUME NEW op \in AlterColumns, op.old.type.kind = op.new.type.kind,
         ~(op.old.nullable /\ ~op.new.nullable)
  PROVE  ~IsLossy(AlterColumnType(op) \o AlterColumnNull(op) \o AlterColumnDefault(op))
<1>1. op.old.nullable \in BOOLEAN /\ op.new.nullable \in BOOLEAN
  BY DEF AlterColumns, Column
<1>2. AlterColumnType(op) = << >>
  BY DEF AlterColumnType
<1>3. ~IsLossy(AlterColumnNull(op))
  <2>1. \/ AlterColumnNull(op) = << >>
        \/ AlterColumnNull(op) = <<OnColumn("DROP NOT NULL", op)>>
    BY <1>1, Zenon DEF AlterColumnNull
  <2>2. OnColumn("DROP NOT NULL", op).stmt \notin Lossy
    BY DEF OnColumn, Lossy
  <2> QED
    BY <2>1, <2>2, IsLossySingle
<1>4. ~IsLossy(AlterColumnDefault(op))
  <2> DEFINE v == [stmt |-> "SET DEFAULT", table |-> op.table,
                   column |-> op.column, default |-> op.new.default]
  <2>1. \/ AlterColumnDefault(op) = << >>
        \/ AlterColumnDefault(op) = <<OnColumn("DROP DEFAULT", op)>>
        \/ AlterColumnDefault(op) = <<v>>
    BY Zenon DEF AlterColumnDefault
  <2>2. OnColumn("DROP DEFAULT", op).stmt \notin Lossy /\ v.stmt \notin Lossy
    BY DEF OnColumn, Lossy
  <2> HIDE DEF v
  <2> QED
    BY <2>1, <2>2, IsLossySingle
<1>5. /\ AlterColumnType(op) \in Seq(Statement)
      /\ AlterColumnNull(op) \in Seq(Statement)
      /\ AlterColumnDefault(op) \in Seq(Statement)
  BY AlterColumnsType
<1>6. AlterColumnType(op) \o AlterColumnNull(op) \in Seq(Statement)
  BY <1>5
<1> QED
  BY <1>2, <1>3, <1>4, <1>5, <1>6, IsLossyConcat, IsLossySingle

\* An operation that is at most risky has no lossy statement: the gate, which
\* looks at operations, bounds the SQL that comes out of them.
LEMMA GateLemma ==
  ASSUME NEW op \in Operation, ~(IsDestructive(op) >= PotentiallyDestructive)
  PROVE  ~IsLossy(GenerateOperation(op))
<1> USE DEF Safe, Risky, PotentiallyDestructive, Destructive
<1>1. op.op \notin {"DropTable", "DropColumn", "RenameColumn", "DropIndex"}
  BY DEF IsDestructive
<1>2. CASE op \in AlterColumns /\ op.op = "AlterColumn"
  <2>1. /\ op.old.type.kind = op.new.type.kind
        /\ ~(op.old.nullable /\ ~op.new.nullable)
    BY <1>2 DEF IsDestructive
  <2>2. GenerateOperation(op)
          = AlterColumnType(op) \o AlterColumnNull(op) \o AlterColumnDefault(op)
    BY <1>2 DEF GenerateOperation
  <2> QED
    BY <1>2, <2>1, <2>2, AlterColumnNotLossy
<1>3. CASE op \in AlterEnums /\ op.op = "AlterEnum"
  <2>1. GenerateOperation(op) = AlterEnum(op)
    BY <1>3 DEF GenerateOperation
  <2>2. \A i \in DOMAIN AlterEnum(op) : AlterEnum(op)[i].stmt = "ADD VALUE"
    BY DEF AlterEnum
  <2> QED
    BY <2>1, <2>2 DEF IsLossy, Lossy
<1>4. CASE op.op \in {"CreateTable", "AddColumn", "CreateIndex", "CreateForeignKey",
                      "DropForeignKey", "CreateEnum"}
  <2> DEFINE column == [stmt |-> "ADD COLUMN", table |-> op.table,
                        column |-> op.column, coldef |-> Format(op.coldef)]
             key == [stmt |-> "ADD CONSTRAINT", table |-> op.table,
                     fk |-> [op.fk EXCEPT !.name = ForeignKeyName(op.table, op.fk)]]
             noKey == [stmt |-> "DROP CONSTRAINT", table |-> op.table,
                       name |-> op.name]
             enum == [stmt |-> "CREATE TYPE", enum |-> op.enum, values |-> op.values]
  <2>1. /\ CreateTable(op.table, op.tabledef).stmt = "CREATE TABLE"
        /\ CreateIndex(op.table, op.index).stmt = "CREATE INDEX"
        /\ column.stmt = "ADD COLUMN" /\ key.stmt = "ADD CONSTRAINT"
        /\ noKey.stmt = "DROP CONSTRAINT" /\ enum.stmt = "CREATE TYPE"
    BY DEF CreateTable, CreateIndex
  <2>2. GenerateOperation(op) \in
          {<<CreateTable(op.table, op.tabledef)>>, <<CreateIndex(op.table, op.index)>>,
           <<column>>, <<key>>, <<noKey>>, <<enum>>}
    BY <1>4 DEF GenerateOperation
  <2> HIDE DEF column, key, noKey, enum
  <2> QED
    BY <2>1, <2>2, IsLossySingle DEF Lossy
<1> QED
  BY <1>1, <1>2, <1>3, <1>4, OperationCases
-----------------------------------------------------------------------------
(***************************************************************************)
(* Type correctness.                                                       *)
(***************************************************************************)
LEMMA IdleType == Idle \in Job
<1>1. EmptySchema \in Schema
  BY DEF EmptySchema, Schema
<1>2. EmptySchema \in Desired
  BY DesiredAssumption
<1> QED
  BY <1>1, <1>2 DEF Idle, Job

\* No file, no run and an empty Prisma file: the type invariant holds.
LEMMA InitType == Init => TypeOK
<1> SUFFICES ASSUME Init PROVE TypeOK
  OBVIOUS
<1>1. prisma \in Desired /\ edits \in 0..MaxEdits
  BY DesiredAssumption, BoundsAssumption DEF Init
<1>2. files \in Seq(File) /\ exit \in Exits
  BY DEF Init, Exits
<1> QED
  BY <1>1, <1>2, IdleType DEF Init, TypeOK

\* Every step of the command and of the developer keeps the type invariant.
LEMMA NextType ==
  ASSUME TypeOK, [Next]_vars
  PROVE  TypeOK'
<1> USE DEF TypeOK
<1>1. CASE UNCHANGED vars
  BY <1>1 DEF vars
<1>2. ASSUME NEW s \in Desired, Edit(s)
      PROVE  TypeOK'
  BY <1>2, BoundsAssumption DEF Edit
<1>3. ASSUME NEW allow \in BOOLEAN, Start(allow)
      PROVE  TypeOK'
  <2>1. job' \in Job
    BY <1>3, IdleType DEF Start, Job
  <2> QED
    BY <1>3, <2>1 DEF Start
<1>4. CASE ReplayStatement
  <2>1. NextStatement \in Statement
    <3>1. job.file \in 1..Len(files) /\ job.stmt \in 1..Len(files[job.file].up)
      BY <1>4 DEF ReplayStatement, AtStatement, InFile, Job
    <3>2. files[job.file] \in File
      BY <3>1
    <3>3. files[job.file].up \in Seq(Statement)
      BY <3>2 DEF File
    <3> QED
      BY <3>1, <3>3 DEF NextStatement
  <2>2. PICK s \in Applied(NextStatement, job.schema) :
          job' = [job EXCEPT !.schema = s, !.stmt = @ + 1]
    BY <1>4 DEF ReplayStatement
  <2>3. s \in Schema
    BY <2>1, <2>2, AppliedType DEF Job
  <2>4. job.stmt + 1 \in Nat \ {0}
    BY DEF Job
  <2>5. job' \in Job
    BY <2>2, <2>3, <2>4 DEF Job
  <2> QED
    BY <1>4, <2>5 DEF ReplayStatement
<1>5. CASE ReplayError
  BY <1>5, IdleType DEF ReplayError, Exit, Exits
<1>6. CASE NextFile
  <2>1. job.file + 1 \in Nat \ {0} /\ 1 \in Nat \ {0}
    BY DEF Job
  <2>2. \A f, n \in Nat \ {0} : [job EXCEPT !.file = f, !.stmt = n] \in Job
    BY DEF Job
  <2>3. job' \in Job
    BY <1>6, <2>1, <2>2, Zenon DEF NextFile
  <2> QED
    BY <1>6, <2>3 DEF NextFile
<1>7. CASE NoChanges
  BY <1>7, IdleType DEF NoChanges, Exit, Exits
<1>8. CASE Refuse
  BY <1>8, IdleType DEF Refuse, Exit, Exits
<1>9. CASE Proceed
  <2>1. job.schema \in Schema /\ job.desired \in Schema
    BY DesiredAssumption DEF Job
  <2>2. Operations \subseteq Operation
    BY <2>1, DiffType DEF Operations
  <2>3. job' \in Job
    BY <1>9, <2>2 DEF Proceed, Job
  <2> QED
    BY <1>9, <2>3 DEF Proceed
<1>10. ASSUME NEW op \in job.todo, Generate(op)
       PROVE  TypeOK'
  <2>1. op \in Operation
    BY <1>10 DEF Job
  <2>2. /\ GenerateOperation(op) \in Seq(Statement)
        /\ GenerateReverseOperation(op) \in Seq(Statement)
    BY <2>1, GenerateOperationType, GenerateReverseOperationType
  <2>3. /\ job.up \o GenerateOperation(op) \in Seq(Statement)
        /\ GenerateReverseOperation(op) \o job.down \in Seq(Statement)
    BY <2>2 DEF Job
  <2>4. (job.warned \/ IsIrreversible(op)) \in BOOLEAN
    OBVIOUS
  <2>5. job' \in Job
    BY <1>10, <2>3, <2>4 DEF Generate, Job
  <2> QED
    BY <1>10, <2>5 DEF Generate
<1>11. CASE WriteFile
  <2>1. [up |-> job.up, down |-> job.down, warned |-> job.warned,
         desired |-> job.desired, allowed |-> job.allow] \in File
    BY DEF Job, File
  <2>2. files' \in Seq(File)
    BY <1>11, <2>1 DEF WriteFile
  <2> QED
    BY <1>11, <2>2, IdleType DEF WriteFile, Exit, Exits
<1> QED
  BY <1>1, <1>2, <1>3, <1>4, <1>5, <1>6, <1>7, <1>8, <1>9, <1>10, <1>11
     DEF Next, Run

\* Whatever the schemas, the builder only ever rebuilds a schema, every plan
\* holds operations, and every file holds statements: no reader of one part is
\* handed something that the part before it could not have written.
THEOREM TypeCorrect == Spec => []TypeOK
<1>1. Init => TypeOK
  BY InitType
<1>2. TypeOK /\ [Next]_vars => TypeOK'
  BY NextType
<1> QED
  BY <1>1, <1>2, PTL DEF Spec
-----------------------------------------------------------------------------
(***************************************************************************)
(* The gate.  DestructiveGated says nothing of the run in progress;        *)
(* JobGated is what makes it inductive.                                    *)
(***************************************************************************)
\* The gate's invariant alone is not inductive: WriteFile copies the statements of
\* the job, so what the job holds has to be gated first.
GateInv == TypeOK /\ JobGated /\ DestructiveGated

\* A run that has just started, or is over, has nothing to be gated for.
LEMMA FreshJobGated ==
  ASSUME NEW j, j.todo = {}, j.up = << >>
  PROVE  DestructiveOps(j.todo) = {} /\ ~IsLossy(j.up)
BY IsLossySingle DEF DestructiveOps

\* The idle job and the empty directory satisfy the inductive invariant.
LEMMA InitGate == Init => GateInv
<1> SUFFICES ASSUME Init PROVE GateInv
  OBVIOUS
<1>1. job.todo = {} /\ job.up = << >>
  BY DEF Init, Idle
<1>2. JobGated
  BY <1>1, FreshJobGated DEF JobGated
<1>3. DestructiveGated
  BY DEF Init, DestructiveGated
<1> QED
  BY <1>2, <1>3, InitType DEF GateInv

\* No step of the developer or of a run breaks the gate on destructive operations.
LEMMA NextGate ==
  ASSUME GateInv, [Next]_vars
  PROVE  GateInv'
<1> USE DEF GateInv
<1>1. TypeOK'
  BY NextType
<1>2. ASSUME job' = Idle
      PROVE  JobGated'
  <2>1. Idle.todo = {} /\ Idle.up = << >>
    BY DEF Idle
  <2> QED
    BY <1>2, <2>1, FreshJobGated DEF JobGated
<1>3. ASSUME job'.allow = job.allow, job'.todo = job.todo, job'.up = job.up
      PROVE  JobGated'
  BY <1>3 DEF JobGated
<1>4. JobGated'
  <2>1. CASE UNCHANGED vars
    BY <1>3, <2>1 DEF vars
  <2>2. ASSUME NEW s \in Desired, Edit(s)
        PROVE  JobGated'
    BY <1>3, <2>2 DEF Edit
  <2>3. ASSUME NEW allow \in BOOLEAN, Start(allow)
        PROVE  JobGated'
    <3>1. job'.todo = {} /\ job'.up = << >>
      BY <2>3 DEF Start, Idle
    <3> QED
      BY <3>1, FreshJobGated DEF JobGated
  <2>4. CASE ReplayStatement
    <3>1. PICK s : job' = [job EXCEPT !.schema = s, !.stmt = @ + 1]
      BY <2>4 DEF ReplayStatement
    <3> QED
      BY <1>3, <3>1 DEF TypeOK, Job
  <2>5. CASE NextFile
    BY <1>3, <2>5 DEF NextFile, TypeOK, Job
  <2>6. CASE ReplayError \/ NoChanges \/ Refuse \/ WriteFile
    BY <1>2, <2>6 DEF ReplayError, NoChanges, Refuse, WriteFile, Exit
  <2>7. CASE Proceed
    <3>1. /\ job'.allow = job.allow
          /\ job'.up = job.up
          /\ job'.todo = Operations
      BY <2>7 DEF Proceed, TypeOK, Job
    <3> QED
      BY <2>7, <3>1 DEF Proceed, JobGated
  <2>8. ASSUME NEW op \in job.todo, Generate(op)
        PROVE  JobGated'
    <3>1. /\ job'.allow = job.allow
          /\ job'.todo \subseteq job.todo
          /\ job'.up = job.up \o GenerateOperation(op)
      BY <2>8 DEF Generate, TypeOK, Job
    <3> SUFFICES ASSUME DestructiveOps(job.todo) = {}, ~IsLossy(job.up)
                 PROVE  DestructiveOps(job'.todo) = {} /\ ~IsLossy(job'.up)
      BY <3>1 DEF JobGated
    <3>2. DestructiveOps(job'.todo) = {}
      BY <3>1 DEF DestructiveOps
    <3>3. op \in Operation /\ job.up \in Seq(Statement)
      BY DEF TypeOK, Job
    <3>4. ~(IsDestructive(op) >= PotentiallyDestructive)
      BY DEF DestructiveOps
    <3>5. ~IsLossy(GenerateOperation(op))
      BY <3>3, <3>4, GateLemma
    <3> QED
      BY <3>1, <3>2, <3>3, <3>5, GenerateOperationType, IsLossyConcat
  <2> QED
    BY <2>1, <2>2, <2>3, <2>4, <2>5, <2>6, <2>7, <2>8 DEF Next, Run
<1>5. DestructiveGated'
  <2>1. CASE UNCHANGED files
    BY <2>1 DEF DestructiveGated
  <2>2. CASE WriteFile
    <3> DEFINE f == [up |-> job.up, down |-> job.down, warned |-> job.warned,
                     desired |-> job.desired, allowed |-> job.allow]
    <3>1. files' = Append(files, f) /\ files \in Seq(File)
      BY <2>2 DEF WriteFile, TypeOK
    <3>2. IsLossy(f.up) => f.allowed
      BY DEF JobGated
    <3> HIDE DEF f
    <3> QED
      BY <3>1, <3>2 DEF DestructiveGated
  <2> QED
    BY <2>1, <2>2 DEF Next, Run, vars, Edit, Start, ReplayStatement, ReplayError,
                      NextFile, NoChanges, Refuse, Proceed, Generate
<1> QED
  BY <1>1, <1>4, <1>5

\* The inductive invariant holds for all schemas, edits, refusals and reruns.
THEOREM GateInvHolds == Spec => []GateInv
<1>1. Init => GateInv
  BY InitGate
<1>2. GateInv /\ [Next]_vars => GateInv'
  BY NextGate
<1> QED
  BY <1>1, <1>2, PTL DEF Spec

\* Whatever the schemas and however edits, refusals and reruns follow each other,
\* a file with a statement that drops or narrows something was written by a run
\* with --allow-destructive (cli/migration.go:116-125).
THEOREM Gated == Spec => []DestructiveGated
BY GateInvHolds, PTL DEF GateInv

\* Between the gate and the file, a run without the flag holds no destructive
\* operation and no lossy statement, in whatever order operations are generated
\* (planner.go:16-59, generator.go:23-58).
THEOREM JobCorrect == Spec => []JobGated
BY GateInvHolds, PTL DEF GateInv
-----------------------------------------------------------------------------
(***************************************************************************)
(* The gate on NOT NULL columns.  autoincrement() passes the gate as a     *)
(* default and is not written as one, so the columns that a plan adds have *)
(* to be followed from the schema they come from.                          *)
(***************************************************************************)
\* A statement that fails on a table with rows.
IsNotNull(v) == v.stmt = "ADD COLUMN" /\ ~v.coldef.nullable /\ v.coldef.default = NoDefault

AddsNotNull(stmts) == \E j \in DOMAIN stmts : IsNotNull(stmts[j])

AddsWritten(todo) == \A op \in todo : op.op = "AddColumn" => HasWrittenDefault(op.coldef)

\* What a run is about to write, gated: the part of the invariant on the job.
JobNotNull(j) ==
  /\ AddsWritten(j.todo)
  /\ j.allow \/ (DestructiveOps(j.todo) = {} /\ ~AddsNotNull(j.up))

NotNullInv == TypeOK /\ NotNullGated /\ JobNotNull(job)

\* No section without statements adds such a column, and one with a single statement
\* does only if that statement does.
LEMMA AddsSingle ==
  /\ ~AddsNotNull(<< >>)
  /\ \A v : ~IsNotNull(v) => ~AddsNotNull(<<v>>)
BY DEF AddsNotNull

\* A section made of two adds such a column only if one of them does.
LEMMA AddsConcat ==
  ASSUME NEW a \in Seq(Statement), NEW b \in Seq(Statement), AddsNotNull(a \o b)
  PROVE  AddsNotNull(a) \/ AddsNotNull(b)
<1>1. PICK i \in 1..Len(a) + Len(b) : IsNotNull((a \o b)[i])
  BY DEF AddsNotNull
<1>2. CASE i <= Len(a)
  <2>1. i \in DOMAIN a /\ (a \o b)[i] = a[i]
    BY <1>2
  <2> QED
    BY <1>1, <2>1, Zenon DEF AddsNotNull
<1>3. CASE i > Len(a)
  <2>1. i - Len(a) \in DOMAIN b /\ (a \o b)[i] = b[i - Len(a)]
    BY <1>3
  <2> QED
    BY <1>1, <2>1, Zenon DEF AddsNotNull
<1> QED
  BY <1>2, <1>3

\* ADD COLUMN comes from AddColumn alone.
LEMMA OnlyAddColumnAdds ==
  ASSUME NEW op \in Operation, op.op # "AddColumn"
  PROVE  ~AddsNotNull(GenerateOperation(op))
<1>1. ~AddsNotNull(<< >>) /\ \A v : v.stmt # "ADD COLUMN" => ~AddsNotNull(<<v>>)
  BY AddsSingle DEF IsNotNull
<1>2. \A w : OnColumn(w, op).stmt = w
  BY DEF OnColumn
<1>3. CASE op \in AlterColumns /\ op.op = "AlterColumn"
  <2> DEFINE type == [stmt |-> "ALTER TYPE", table |-> op.table, column |-> op.column,
                      type |-> op.new.type]
             default == [stmt |-> "SET DEFAULT", table |-> op.table, column |-> op.column,
                         default |-> op.new.default]
  <2>1. type.stmt # "ADD COLUMN" /\ default.stmt # "ADD COLUMN"
    OBVIOUS
  <2>2. AlterColumnType(op) \in {<< >>, <<type>>}
    BY DEF AlterColumnType
  <2>3. AlterColumnNull(op) \in {<< >>, <<OnColumn("DROP NOT NULL", op)>>, <<OnColumn("SET NOT NULL", op)>>}
    BY DEF AlterColumnNull
  <2>4. AlterColumnDefault(op) \in {<< >>, <<OnColumn("DROP DEFAULT", op)>>, <<default>>}
    BY DEF AlterColumnDefault
  <2> HIDE DEF type, default
  <2>5. /\ ~AddsNotNull(AlterColumnType(op)) /\ ~AddsNotNull(AlterColumnNull(op))
        /\ ~AddsNotNull(AlterColumnDefault(op))
    BY <1>1, <1>2, <2>1, <2>2, <2>3, <2>4
  <2>6. /\ AlterColumnType(op) \in Seq(Statement) /\ AlterColumnNull(op) \in Seq(Statement)
        /\ AlterColumnDefault(op) \in Seq(Statement)
        /\ AlterColumnType(op) \o AlterColumnNull(op) \in Seq(Statement)
    BY <1>3, AlterColumnsType
  <2>7. ~AddsNotNull((AlterColumnType(op) \o AlterColumnNull(op)) \o AlterColumnDefault(op))
    BY AddsConcat, <2>5, <2>6
  <2>8. GenerateOperation(op)
          = (AlterColumnType(op) \o AlterColumnNull(op)) \o AlterColumnDefault(op)
    BY <1>3 DEF GenerateOperation
  <2> QED
    BY <2>7, <2>8
<1>4. CASE op \in AlterEnums /\ op.op = "AlterEnum"
  <2>1. GenerateOperation(op) = AlterEnum(op)
    BY <1>4 DEF GenerateOperation
  <2>2. \A i \in DOMAIN AlterEnum(op) : AlterEnum(op)[i].stmt = "ADD VALUE"
    BY DEF AlterEnum
  <2> QED
    BY <2>1, <2>2 DEF AddsNotNull, IsNotNull
<1>5. CASE op.op \in {"CreateTable", "DropTable", "DropColumn", "RenameColumn", "CreateIndex",
                      "DropIndex", "CreateForeignKey", "DropForeignKey", "CreateEnum"}
  <2> DEFINE table == [stmt |-> "DROP TABLE", table |-> op.table]
             rename == [stmt |-> "RENAME COLUMN", table |-> op.table, column |-> op.column,
                        to |-> op.to]
             key == [stmt |-> "ADD CONSTRAINT", table |-> op.table,
                     fk |-> [op.fk EXCEPT !.name = ForeignKeyName(op.table, op.fk)]]
             noKey == [stmt |-> "DROP CONSTRAINT", table |-> op.table, name |-> op.name]
             enum == [stmt |-> "CREATE TYPE", enum |-> op.enum, values |-> op.values]
             column == OnColumn("DROP COLUMN", op)
             create == CreateTable(op.table, op.tabledef)
             index == CreateIndex(op.table, op.index)
             noIndex == DropIndex(op.table, op.index)
  <2>1. /\ table.stmt # "ADD COLUMN" /\ rename.stmt # "ADD COLUMN" /\ key.stmt # "ADD COLUMN"
        /\ noKey.stmt # "ADD COLUMN" /\ enum.stmt # "ADD COLUMN" /\ column.stmt # "ADD COLUMN"
        /\ create.stmt # "ADD COLUMN" /\ index.stmt # "ADD COLUMN" /\ noIndex.stmt # "ADD COLUMN"
    BY <1>2 DEF CreateTable, CreateIndex, DropIndex
  <2>2. GenerateOperation(op) \in
          {<<create>>, <<table>>, <<column>>, <<rename>>, <<index>>, <<noIndex>>, <<key>>,
           <<noKey>>, <<enum>>}
    BY <1>5 DEF GenerateOperation
  <2> HIDE DEF table, rename, key, noKey, enum, column, create, index, noIndex
  <2> QED
    BY <1>1, <2>1, <2>2
<1> QED
  BY <1>3, <1>4, <1>5, OperationCases

\* An AddColumn that passes the gate is written with a default or as nullable.
LEMMA NotNullLemma ==
  ASSUME NEW op \in Operation, ~(IsDestructive(op) >= PotentiallyDestructive),
         op.op = "AddColumn" => HasWrittenDefault(op.coldef)
  PROVE  ~AddsNotNull(GenerateOperation(op))
<1>1. CASE op.op # "AddColumn"
  BY <1>1, OnlyAddColumnAdds
<1>2. CASE op.op = "AddColumn"
  <2> DEFINE v == [stmt |-> "ADD COLUMN", table |-> op.table, column |-> op.column,
                   coldef |-> Format(op.coldef)]
  <2>1. op.coldef \in Column
    BY <1>2, OperationCases DEF AddColumns
  <2>2. op.coldef.nullable \/ op.coldef.default # NoDefault
    BY <1>2 DEF IsDestructive, Safe, PotentiallyDestructive
  <2>3. Format(op.coldef).nullable = op.coldef.nullable
    BY <2>1 DEF Format, Column
  <2>4. Format(op.coldef).default = FormatDefault(op.coldef.default)
    BY <2>1 DEF Format, Column
  <2>5. Format(op.coldef).nullable \/ Format(op.coldef).default # NoDefault
    BY <1>2, <2>2, <2>3, <2>4 DEF HasWrittenDefault, FormatDefault
  <2>6. GenerateOperation(op) = <<v>>
    BY <1>2 DEF GenerateOperation
  <2>7. ~IsNotNull(v)
    BY <2>5 DEF IsNotNull
  <2> HIDE DEF v
  <2> QED
    BY <2>6, <2>7, AddsSingle
<1> QED
  BY <1>1, <1>2

\* The columns that a plan adds are the desired schema's.
LEMMA AddedAreDesired ==
  ASSUME NEW b \in Schema, NEW a \in Schema, WritesDefaults(a)
  PROVE  AddsWritten(Diff(b, a, {}))
<1> SUFFICES ASSUME NEW op \in Diff(b, a, {}), op.op = "AddColumn"
             PROVE  HasWrittenDefault(op.coldef)
  BY DEF AddsWritten
<1>1. DOMAIN b.tables = Tables /\ DOMAIN a.tables = Tables
  BY DEF Schema
<1>2. PICK t \in Tables : op \in TableOps(t, b.tables[t], a.tables[t])
  BY <1>1, EnumOpsAbout, DiffByTable DEF Diff
<1>3. a.tables[t] # Absent /\ b.tables[t] # Absent
  BY <1>2 DEF TableOps, NewTable
<1>4. b.tables[t] \in Table /\ a.tables[t] \in Table
  BY <1>3 DEF Schema
<1>5. op \in DiffColumns(t, b.tables[t].cols, a.tables[t].cols, {})
  BY <1>2, <1>3, IndexOpsAbout DEF TableOps, DiffTable, DiffForeignKeys
<1>6. DOMAIN b.tables[t].cols = Columns /\ DOMAIN a.tables[t].cols = Columns
  BY <1>4 DEF Table
<1>7. PICK x \in Columns : op \in ColumnOps(t, x, b.tables[t].cols[x], a.tables[t].cols[x])
  BY <1>5, <1>6, DiffByColumn
<1>8. op.coldef = a.tables[t].cols[x] /\ a.tables[t].cols[x] # Absent
  BY <1>7 DEF ColumnOps, AlterColumn
<1>9. t \in Present(a.tables) /\ x \in Present(a.tables[t].cols)
  BY <1>1, <1>3, <1>6, <1>8 DEF Present
<1> QED
  BY <1>8, <1>9 DEF WritesDefaults

\* A run that has just started, or is over, adds no column.
LEMMA FreshJobNotNull ==
  ASSUME NEW j, j.todo = {}, j.up = << >>
  PROVE  AddsWritten(j.todo) /\ DestructiveOps(j.todo) = {} /\ ~AddsNotNull(j.up)
BY AddsSingle DEF AddsWritten, DestructiveOps

\* What NotNullGated says, file by file.
LEMMA NotNullByFile ==
  NotNullGated <=> \A i \in DOMAIN files : AddsNotNull(files[i].up) => files[i].allowed
BY DEF NotNullGated, AddsNotNull, IsNotNull

\* The idle job and the empty directory satisfy the inductive invariant.
LEMMA InitNotNull == Init => NotNullInv
<1> SUFFICES ASSUME Init PROVE NotNullInv
  OBVIOUS
<1>1. job.todo = {} /\ job.up = << >>
  BY DEF Init, Idle
<1>2. AddsWritten(job.todo) /\ DestructiveOps(job.todo) = {} /\ ~AddsNotNull(job.up)
  BY <1>1, FreshJobNotNull
<1>3. DOMAIN files = {}
  BY DEF Init
<1>4. NotNullGated
  BY <1>3, NotNullByFile
<1> QED
  BY <1>2, <1>4, InitType DEF NotNullInv, JobNotNull

\* No step of the developer or of a run breaks the gate on NOT NULL columns.
LEMMA NextNotNull ==
  ASSUME \A s \in Desired : WritesDefaults(s), NotNullInv, [Next]_vars
  PROVE  NotNullInv'
<1>1. TypeOK /\ NotNullGated /\ JobNotNull(job)
  BY DEF NotNullInv
<1>2. TypeOK'
  BY <1>1, NextType
<1>3. ASSUME job'.todo = {}, job'.up = << >>
      PROVE  JobNotNull(job')
  BY <1>3, FreshJobNotNull DEF JobNotNull
<1>4. ASSUME job'.allow = job.allow, job'.todo = job.todo, job'.up = job.up
      PROVE  JobNotNull(job')
  BY <1>1, <1>4 DEF JobNotNull
<1>5. JobNotNull(job')
  <2>1. CASE UNCHANGED vars
    BY <1>4, <2>1 DEF vars
  <2>2. ASSUME NEW s \in Desired, Edit(s)
        PROVE  JobNotNull(job')
    BY <1>4, <2>2 DEF Edit
  <2>3. ASSUME NEW allow \in BOOLEAN, Start(allow)
        PROVE  JobNotNull(job')
    <3>1. job'.todo = {} /\ job'.up = << >>
      BY <2>3 DEF Start, Idle
    <3> QED
      BY <1>3, <3>1
  <2>4. CASE ReplayStatement
    <3>1. PICK s : job' = [job EXCEPT !.schema = s, !.stmt = @ + 1]
      BY <2>4 DEF ReplayStatement
    <3> QED
      BY <1>1, <1>4, <3>1 DEF TypeOK, Job
  <2>5. CASE NextFile
    BY <1>1, <1>4, <2>5 DEF NextFile, TypeOK, Job
  <2>6. CASE ReplayError \/ NoChanges \/ Refuse \/ WriteFile
    <3>1. job' = Idle
      BY <2>6 DEF ReplayError, NoChanges, Refuse, WriteFile, Exit
    <3> QED
      BY <1>3, <3>1 DEF Idle
  <2>7. CASE Proceed
    <3>1. job.schema \in Schema /\ job.desired \in Schema /\ WritesDefaults(job.desired)
      BY <1>1, DesiredAssumption DEF TypeOK, Job
    <3>2. AddsWritten(Operations)
      BY <3>1, AddedAreDesired DEF Operations
    <3>3. /\ job'.allow = job.allow
          /\ job'.up = job.up
          /\ job'.todo = Operations
      BY <1>1, <2>7 DEF Proceed, TypeOK, Job
    <3>4. job.allow \/ DestructiveOps(Operations) = {}
      BY <2>7 DEF Proceed
    <3> QED
      BY <1>1, <3>2, <3>3, <3>4 DEF JobNotNull
  <2>8. ASSUME NEW op \in job.todo, Generate(op)
        PROVE  JobNotNull(job')
    <3>1. /\ job'.allow = job.allow
          /\ job'.todo \subseteq job.todo
          /\ job'.up = job.up \o GenerateOperation(op)
      BY <1>1, <2>8 DEF Generate, TypeOK, Job
    <3>2. AddsWritten(job'.todo)
      BY <1>1, <3>1 DEF JobNotNull, AddsWritten
    <3>3. ASSUME ~job.allow
          PROVE  DestructiveOps(job'.todo) = {} /\ ~AddsNotNull(job'.up)
      <4>1. DestructiveOps(job.todo) = {} /\ ~AddsNotNull(job.up)
        BY <1>1, <3>3 DEF JobNotNull
      <4>2. DestructiveOps(job'.todo) = {}
        BY <3>1, <4>1 DEF DestructiveOps
      <4>3. op \in Operation /\ job.up \in Seq(Statement)
        BY <1>1 DEF TypeOK, Job
      <4>4. ~(IsDestructive(op) >= PotentiallyDestructive)
        BY <4>1 DEF DestructiveOps
      <4>5. op.op = "AddColumn" => HasWrittenDefault(op.coldef)
        BY <1>1 DEF JobNotNull, AddsWritten
      <4>6. ~AddsNotNull(GenerateOperation(op))
        BY <4>3, <4>4, <4>5, NotNullLemma
      <4> QED
        BY <3>1, <4>1, <4>2, <4>3, <4>6, GenerateOperationType, AddsConcat
    <3> QED
      BY <3>1, <3>2, <3>3 DEF JobNotNull
  <2> QED
    BY <2>1, <2>2, <2>3, <2>4, <2>5, <2>6, <2>7, <2>8 DEF Next, Run
<1>6. NotNullGated'
  <2>1. CASE UNCHANGED files
    BY <1>1, <2>1 DEF NotNullGated
  <2>2. CASE WriteFile
    <3> DEFINE f == [up |-> job.up, down |-> job.down, warned |-> job.warned,
                     desired |-> job.desired, allowed |-> job.allow]
    <3>1. files' = Append(files, f) /\ files \in Seq(File)
      BY <1>1, <2>2 DEF WriteFile, TypeOK
    <3>2. AddsNotNull(f.up) => f.allowed
      BY <1>1 DEF JobNotNull
    <3>3. \A i \in DOMAIN files : AddsNotNull(files[i].up) => files[i].allowed
      BY <1>1, NotNullByFile
    <3> HIDE DEF f
    <3>4. \A i \in DOMAIN files' : AddsNotNull(files'[i].up) => files'[i].allowed
      BY <3>1, <3>2, <3>3
    <3> QED
      BY <3>4 DEF NotNullGated, AddsNotNull, IsNotNull
  <2> QED
    BY <2>1, <2>2 DEF Next, Run, vars, Edit, Start, ReplayStatement, ReplayError,
                      NextFile, NoChanges, Refuse, Proceed, Generate
<1> QED
  BY <1>2, <1>5, <1>6 DEF NotNullInv

\* Where no schema has a NOT NULL autoincrement() column, and in whatever order edits,
\* refusals and reruns come, a NOT NULL column without a default is only ever added by
\* a run with --allow-destructive (operation.go:148-154, cli/migration.go:116-125).
THEOREM GatesNotNull ==
  ASSUME \A s \in Desired : WritesDefaults(s)
  PROVE  Spec => []NotNullGated
<1>1. Init => NotNullInv
  BY InitNotNull
<1>2. NotNullInv /\ [Next]_vars => NotNullInv'
  BY NextNotNull
<1>3. NotNullInv => NotNullGated
  BY DEF NotNullInv
<1> QED
  BY <1>1, <1>2, <1>3, PTL DEF Spec
-----------------------------------------------------------------------------
(***************************************************************************)
(* The history.  What makes HistoryLoads and SecondRunIsQuiet inductive is *)
(* what the files rebuild, one schema per file, and how far the run is.    *)
(***************************************************************************)
\* h[n] is what the first n files rebuild, and it says what the last of them was
\* written for.
Rebuilds(h) ==
  /\ h[0] = EmptySchema
  /\ \A n \in 0..Len(files) : Known(Desired, h[n])
  /\ \A n \in 1..Len(files) :
       /\ Leads(files[n].up, h[n - 1], h[n])
       /\ Diff(h[n], files[n].desired, {}) = {}

\* What a run that replays has left to read.
Rest == SubSeq(files[job.file].up, job.stmt, Len(files[job.file].up))

IsReplaying(h) ==
  \/ /\ InFile
     /\ job.stmt <= Len(files[job.file].up) + 1
     /\ Leads(Rest, job.schema, h[job.file])
  \/ /\ job.file = Len(files) + 1
     /\ job.schema = h[Len(files)]

\* What a run that generates has written leads to a schema that lacks what is left.
GeneratesTo(h, c) ==
  /\ Leads(job.up, h[Len(files)], c)
  /\ Known(Desired, c)
  /\ job.todo = Diff(c, job.desired, {})

Follows(h) ==
  /\ job.pc = "replay" => job.up = << >> /\ IsReplaying(h)
  /\ job.pc = "generate" => \E c \in Schema : GeneratesTo(h, c)

ReplayInv ==
  /\ TypeOK
  /\ HistoryLoads
  /\ \E h \in [0..Len(files) -> Schema] : Rebuilds(h) /\ Follows(h)

\* The empty directory rebuilds the empty schema.
LEMMA InitReplay == Init => ReplayInv
<1> SUFFICES ASSUME Init PROVE ReplayInv
  OBVIOUS
<1>1. EmptySchema \in Schema /\ Known(Desired, EmptySchema)
  BY DEF EmptySchema, Schema, Known
<1> DEFINE h == [n \in 0..0 |-> EmptySchema]
<1>2. Len(files) = 0 /\ job.pc = "idle" /\ exit = "none"
  BY DEF Init, Idle
<1>3. h \in [0..Len(files) -> Schema] /\ \A n \in 0..Len(files) : h[n] = EmptySchema
  BY <1>1, <1>2
<1> HIDE DEF h
<1>4. Rebuilds(h)
  BY <1>1, <1>2, <1>3 DEF Rebuilds
<1>5. Follows(h)
  BY <1>2 DEF Follows
<1> QED
  BY <1>2, <1>3, <1>4, <1>5, InitType DEF ReplayInv, HistoryLoads

\* What is left of a sequence, and what is left of that.
LEMMA TailOfRest ==
  ASSUME NEW S, NEW s \in Seq(S), NEW n \in 1..Len(s)
  PROVE  /\ SubSeq(s, n, Len(s)) \in Seq(S) /\ SubSeq(s, n, Len(s)) # << >>
         /\ SubSeq(s, n, Len(s))[1] = s[n]
         /\ Tail(SubSeq(s, n, Len(s))) = SubSeq(s, n + 1, Len(s))
<1> DEFINE r == SubSeq(s, n, Len(s))
           q == SubSeq(s, n + 1, Len(s))
<1>1. r \in Seq(S) /\ Len(r) = Len(s) - n + 1 /\ \A i \in 1..Len(r) : r[i] = s[i + n - 1]
  OBVIOUS
<1>2. q \in Seq(S) /\ Len(q) = Len(s) - n /\ \A i \in 1..Len(q) : q[i] = s[i + n]
  OBVIOUS
<1> HIDE DEF r, q
<1>3. r # << >> /\ r[1] = s[n]
  BY <1>1
<1>4. Tail(r) \in Seq(S) /\ Len(Tail(r)) = Len(q) /\ \A i \in 1..Len(q) : Tail(r)[i] = q[i]
  <2>1. Tail(r) \in Seq(S) /\ Len(Tail(r)) = Len(r) - 1
    BY <1>1, <1>3
  <2>2. \A i \in 1..Len(q) : Tail(r)[i] = r[i + 1] /\ i + 1 \in 1..Len(r)
    BY <1>1, <1>2, <1>3
  <2>3. ASSUME NEW i \in 1..Len(q) PROVE Tail(r)[i] = q[i]
    <3>1. r[i + 1] = s[(i + 1) + n - 1] /\ q[i] = s[i + n]
      BY <1>1, <1>2, <2>2
    <3>2. (i + 1) + n - 1 = i + n
      OBVIOUS
    <3> QED
      BY <2>2, <3>1, <3>2
  <2>4. Len(r) - 1 = Len(q)
    BY <1>1, <1>2
  <2> QED
    BY <2>1, <2>3, <2>4
<1>5. Tail(r) = q
  BY <1>2, <1>4
<1> QED
  BY <1>1, <1>3, <1>5 DEF r, q

\* The next statement of a run that replays is read in one way, and the rest follows.
LEMMA RestStep ==
  ASSUME TypeOK, NEW h, job.pc = "replay", IsReplaying(h), AtStatement
  PROVE  \E q \in Schema :
           /\ Applied(NextStatement, job.schema) = {q}
           /\ Leads(SubSeq(files[job.file].up, job.stmt + 1, Len(files[job.file].up)), q, h[job.file])
<1> DEFINE up == files[job.file].up
<1>1. job.file \in 1..Len(files) /\ job.stmt \in 1..Len(up)
  BY DEF TypeOK, Job, AtStatement, InFile
<1>2. up \in Seq(Statement)
  <2>1. files[job.file] \in File
    BY <1>1 DEF TypeOK
  <2> QED
    BY <2>1 DEF File
<1>3. Leads(Rest, job.schema, h[job.file])
  BY <1>1 DEF IsReplaying, TypeOK
<1>4. /\ Rest \in Seq(Statement) /\ Rest # << >> /\ Rest[1] = up[job.stmt]
      /\ Tail(Rest) = SubSeq(up, job.stmt + 1, Len(up))
  <2>1. Rest = SubSeq(up, job.stmt, Len(up))
    BY DEF Rest
  <2> QED
    BY <1>1, <1>2, <2>1, TailOfRest, ZenonT(40)
<1>5. PICK q \in Schema : ReadsAs(Rest[1], job.schema, q) /\ Leads(Tail(Rest), q, h[job.file])
  BY <1>3, <1>4, LeadsStep
<1> QED
  BY <1>4, <1>5 DEF ReadsAs, NextStatement

\* A run that is over has nothing to follow.
LEMMA IdleFollows ==
  ASSUME job' = Idle, NEW h PROVE Follows(h)'
BY DEF Follows, Idle

\* A new run starts with the first file and the empty schema.
LEMMA StartReplay ==
  ASSUME TypeOK, TypeOK', NEW h \in [0..Len(files) -> Schema], Rebuilds(h),
         NEW allow \in BOOLEAN, Start(allow)
  PROVE  Follows(h)'
<1> USE DEF TypeOK
<1>1. /\ job'.pc = "replay" /\ job'.up = << >> /\ job'.file = 1 /\ job'.stmt = 1
      /\ job'.schema = EmptySchema /\ files' = files
  BY DEF Start, Idle
<1>2. CASE Len(files) = 0
  <2>1. IsReplaying(h)'
    BY <1>1, <1>2 DEF IsReplaying, Rebuilds
  <2> QED
    BY <1>1, <2>1 DEF Follows
<1>3. CASE Len(files) # 0
  <2> DEFINE up == files[1].up
  <2>1. 1 \in 1..Len(files) /\ files[1] \in File
    BY <1>3
  <2>2. up \in Seq(Statement)
    BY <2>1 DEF File
  <2>3. SubSeq(up, 1, Len(up)) = up
    BY <2>2
  <2>4. Leads(up, h[1 - 1], h[1]) /\ h[1 - 1] = EmptySchema
    BY <2>1 DEF Rebuilds
  <2>5. IsReplaying(h)'
    <3>1. Rest' = up
      BY <1>1, <2>3 DEF Rest
    <3>2. InFile' /\ 1 <= Len(up) + 1
      BY <1>1, <2>1, <2>2 DEF InFile
    <3> QED
      BY <1>1, <2>4, <3>1, <3>2 DEF IsReplaying
  <2> QED
    BY <1>1, <2>5 DEF Follows
<1> QED
  BY <1>2, <1>3

\* A statement is read as the history says.
LEMMA StatementReplay ==
  ASSUME TypeOK, TypeOK', NEW h \in [0..Len(files) -> Schema], Rebuilds(h), Follows(h),
         ReplayStatement
  PROVE  Follows(h)'
<1>1. TypeOK /\ AtStatement /\ job.pc = "replay" /\ files' = files
  BY DEF ReplayStatement, AtStatement
<1>2. job.up = << >> /\ IsReplaying(h)
  BY <1>1 DEF Follows
<1>3. PICK q \in Schema :
        /\ Applied(NextStatement, job.schema) = {q}
        /\ Leads(SubSeq(files[job.file].up, job.stmt + 1, Len(files[job.file].up)), q, h[job.file])
  BY <1>1, <1>2, RestStep
<1>4. job' = [job EXCEPT !.schema = q, !.stmt = @ + 1]
  <2>1. PICK s \in Applied(NextStatement, job.schema) :
          job' = [job EXCEPT !.schema = s, !.stmt = @ + 1]
    BY DEF ReplayStatement
  <2>2. s = q
    BY <1>3, <2>1
  <2> QED
    BY <2>1, <2>2
<1>5. /\ job'.pc = "replay" /\ job'.up = << >> /\ job'.file = job.file
      /\ job'.stmt = job.stmt + 1 /\ job'.schema = q
  BY <1>1, <1>2, <1>4 DEF TypeOK, Job
<1>6. IsReplaying(h)'
  <2>1. InFile' /\ job'.stmt <= Len(files'[job'.file].up) + 1
    <3>1. job.file \in 1..Len(files) /\ job.stmt <= Len(files[job.file].up) /\ job.stmt \in Nat
      BY <1>1 DEF AtStatement, InFile, TypeOK, Job
    <3>2. files[job.file] \in File
      BY <1>1, <3>1 DEF TypeOK
    <3>3. Len(files[job.file].up) \in Nat
      BY <3>2 DEF File
    <3> QED
      BY <1>1, <1>5, <3>1, <3>3 DEF InFile
  <2>2. Leads(Rest', job'.schema, h[job'.file])
    BY <1>1, <1>3, <1>5 DEF Rest
  <2> QED
    BY <2>1, <2>2 DEF IsReplaying
<1> QED
  BY <1>5, <1>6 DEF Follows

\* No statement of a history is refused.
LEMMA NoReplayError ==
  ASSUME TypeOK, NEW h, Follows(h) PROVE ~ReplayError
<1> SUFFICES ASSUME ReplayError PROVE FALSE
  OBVIOUS
<1>1. AtStatement /\ job.pc = "replay"
  BY DEF ReplayError, AtStatement
<1>2. IsReplaying(h)
  BY <1>1 DEF Follows
<1>3. Applied(NextStatement, job.schema) # {}
  BY <1>1, <1>2, RestStep
<1> QED
  BY <1>3 DEF ReplayError

\* The end of a file is where the history says.
LEMMA FileReplay ==
  ASSUME TypeOK, TypeOK', NEW h \in [0..Len(files) -> Schema], Rebuilds(h), Follows(h),
         NextFile
  PROVE  Follows(h)'
<1>1. /\ TypeOK /\ job.pc = "replay" /\ files' = files
      /\ job.file \in 1..Len(files) /\ job.stmt > Len(files[job.file].up)
  BY DEF NextFile, InFile, TypeOK, Job
<1>2. job.up = << >> /\ IsReplaying(h)
  BY <1>1 DEF Follows
<1>3. /\ job'.pc = "replay" /\ job'.up = << >> /\ job'.file = job.file + 1
      /\ job'.stmt = 1 /\ job'.schema = job.schema
  BY <1>1, <1>2 DEF NextFile, TypeOK, Job
<1>4. \A n \in 1..Len(files) : files[n].up \in Seq(Statement)
  <2>1. \A n \in 1..Len(files) : files[n] \in File
    BY <1>1 DEF TypeOK
  <2> QED
    BY <2>1 DEF File
<1>5. job.schema = h[job.file]
  <2>1. Leads(Rest, job.schema, h[job.file])
    BY <1>1, <1>2 DEF IsReplaying, TypeOK
  <2>2. Rest = << >>
    BY <1>1, <1>4, SMTT(30) DEF Rest, TypeOK, Job
  <2> QED
    BY <2>1, <2>2, LeadsEnd
<1>6. IsReplaying(h)'
  <2>1. CASE job.file = Len(files)
    BY <1>1, <1>3, <1>5, <2>1 DEF IsReplaying
  <2>2. CASE job.file # Len(files)
    <3> DEFINE n == job.file + 1
    <3>1. n \in 1..Len(files) /\ n - 1 = job.file
      BY <1>1, <2>2 DEF TypeOK
    <3>2. Leads(files[n].up, h[n - 1], h[n])
      BY <3>1 DEF Rebuilds
    <3>3. SubSeq(files[n].up, 1, Len(files[n].up)) = files[n].up /\ 1 <= Len(files[n].up) + 1
      BY <1>4, <3>1
    <3>4. Rest' = files[n].up /\ InFile'
      BY <1>1, <1>3, <3>1, <3>3 DEF Rest, InFile
    <3> QED
      BY <1>1, <1>3, <1>5, <3>1, <3>2, <3>3, <3>4 DEF IsReplaying
  <2> QED
    BY <2>1, <2>2
<1> QED
  BY <1>3, <1>6 DEF Follows

\* The plan is what the rebuilt schema lacks, and no statement is written yet.
LEMMA ProceedReplay ==
  ASSUME TypeOK, NEW h \in [0..Len(files) -> Schema], Rebuilds(h), Follows(h), Proceed
  PROVE  /\ job'.pc = "generate" /\ job'.up = << >> /\ job'.down = job.down
         /\ job'.warned = job.warned
         /\ \E c \in Schema : c = h[Len(files)] /\ GeneratesTo(h, c)'
<1>1. job.pc = "replay" /\ ~InFile /\ files' = files
  BY DEF Proceed, Replayed
<1>2. PICK c : c = job.schema
  OBVIOUS
<1>3. job.up = << >> /\ c = h[Len(files)] /\ Len(files) \in 0..Len(files)
  BY <1>1, <1>2 DEF Follows, IsReplaying, TypeOK
<1>4. /\ job'.pc = "generate" /\ job'.up = << >> /\ job'.desired = job.desired
      /\ job'.todo = Diff(c, job.desired, {})
      /\ job'.down = job.down /\ job'.warned = job.warned
  BY <1>1, <1>2, <1>3 DEF Proceed, Operations, TypeOK, Job
<1>5. c \in Schema /\ Leads(<< >>, c, c)
  BY <1>1, <1>2, LeadsNowhere DEF TypeOK, Job
<1>6. Known(Desired, c)
  BY <1>3 DEF Rebuilds
<1>7. GeneratesTo(h, c)'
  BY <1>1, <1>3, <1>4, <1>5, <1>6 DEF GeneratesTo
<1> QED
  BY <1>3, <1>4, <1>5, <1>7

\* The statements of one more operation lead to a schema that lacks the others.
LEMMA GenerateReplay ==
  ASSUME TypeOK, Replayable(Desired), NEW h, NEW c \in Schema, GeneratesTo(h, c),
         NEW op \in job.todo, Generate(op)
  PROVE  /\ job'.pc = "generate" /\ op \in First(Diff(c, job.desired, {}))
         /\ \E r \in Schema : Leads(GenerateOperation(op), c, r) /\ GeneratesTo(h, r)'
<1>1. job.pc = "generate" /\ op \in First(job.todo) /\ files' = files
  BY DEF Generate
<1>2. /\ Leads(job.up, h[Len(files)], c)
      /\ Known(Desired, c)
      /\ job.todo = Diff(c, job.desired, {})
  BY DEF GeneratesTo
<1>3. job.desired \in Desired /\ Desired \subseteq Schema
  BY DesiredAssumption DEF TypeOK, Job
<1>4. IsDone(Desired, job.desired, c, op)
  BY <1>1, <1>2, <1>3, OperationIsDone
<1>5. PICK r \in Schema : /\ Leads(GenerateOperation(op), c, r)
                          /\ Known(Desired, r)
                          /\ Diff(r, job.desired, {}) = Diff(c, job.desired, {}) \ {op}
  BY <1>4 DEF IsDone
<1>6. job.up \in Seq(Statement) /\ GenerateOperation(op) \in Seq(Statement)
  BY GenerateOperationType DEF TypeOK, Job
<1>7. Leads(job.up \o GenerateOperation(op), h[Len(files)], r)
  BY <1>2, <1>5, <1>6, LeadsOn
<1>8. /\ job'.pc = "generate" /\ job'.desired = job.desired
      /\ job'.todo = job.todo \ {op}
      /\ job'.up = job.up \o GenerateOperation(op)
  BY <1>1 DEF Generate, TypeOK, Job
<1>9. GeneratesTo(h, r)'
  BY <1>1, <1>2, <1>5, <1>7, <1>8 DEF GeneratesTo
<1> QED
  BY <1>1, <1>2, <1>5, <1>8, <1>9

\* One more schema for one more file.
LEMMA OneMore ==
  ASSUME NEW m \in Nat, NEW h \in [0..m -> Schema], NEW c \in Schema
  PROVE  \E g \in [0..m + 1 -> Schema] : g[m + 1] = c /\ \A n \in 0..m : g[n] = h[n]
<1> DEFINE g == [n \in 0..m + 1 |-> IF n = m + 1 THEN c ELSE h[n]]
<1>1. g \in [0..m + 1 -> Schema] /\ g[m + 1] = c /\ \A n \in 0..m : g[n] = h[n]
  OBVIOUS
<1> QED
  BY <1>1

\* What a run writes, added to the files.
LEMMA WriteAppends ==
  ASSUME TypeOK, WriteFile
  PROVE  /\ job.pc = "generate" /\ job.todo = {} /\ job' = Idle /\ exit' = "created"
         /\ Len(files') = Len(files) + 1
         /\ \A n \in 1..Len(files) : files'[n] = files[n]
         /\ files'[Len(files) + 1].up = job.up /\ files'[Len(files) + 1].down = job.down
         /\ files'[Len(files) + 1].warned = job.warned
         /\ files'[Len(files) + 1].desired = job.desired
<1> DEFINE f == [up |-> job.up, down |-> job.down, warned |-> job.warned,
                 desired |-> job.desired, allowed |-> job.allow]
<1>1. /\ job.pc = "generate" /\ job.todo = {} /\ job' = Idle /\ exit' = "created"
      /\ files' = Append(files, f)
  BY DEF WriteFile, Exit
<1>2. /\ f.up = job.up /\ f.down = job.down /\ f.warned = job.warned
      /\ f.desired = job.desired
  OBVIOUS
<1> HIDE DEF f
<1>3. /\ Len(files') = Len(files) + 1 /\ files'[Len(files) + 1] = f
      /\ \A n \in 1..Len(files) : files'[n] = files[n]
  BY <1>1 DEF TypeOK
<1> QED
  BY <1>1, <1>2, <1>3

\* The file that is written leads to a schema that lacks nothing.
LEMMA WriteReplay ==
  ASSUME TypeOK, WriteFile, NEW h, Rebuilds(h),
         NEW c, GeneratesTo(h, c), NEW m \in Nat, m = Len(files),
         NEW g, g[m + 1] = c, \A n \in 0..m : g[n] = h[n]
  PROVE  Rebuilds(g)'
<1>1. /\ Len(files') = m + 1 /\ \A n \in 1..m : files'[n] = files[n]
      /\ files'[m + 1].up = job.up /\ files'[m + 1].desired = job.desired
      /\ job.todo = {}
  BY WriteAppends
<1>2. Leads(job.up, h[m], c) /\ Known(Desired, c) /\ {} = Diff(c, job.desired, {})
  BY <1>1 DEF GeneratesTo
<1>3. g[0] = EmptySchema
  BY DEF Rebuilds
<1>4. ASSUME NEW n \in 0..m + 1 PROVE Known(Desired, g[n])
  <2>1. CASE n = m + 1
    BY <1>2, <2>1
  <2>2. CASE n # m + 1
    <3>1. n \in 0..m
      BY <2>2
    <3> QED
      BY <3>1 DEF Rebuilds
  <2> QED
    BY <2>1, <2>2
<1>5. ASSUME NEW n \in 1..m + 1
      PROVE  Leads(files'[n].up, g[n - 1], g[n]) /\ Diff(g[n], files'[n].desired, {}) = {}
  <2>1. CASE n = m + 1
    <3>1. n - 1 = m /\ m \in 0..m
      BY <2>1
    <3> QED
      BY <1>1, <1>2, <2>1, <3>1
  <2>2. CASE n # m + 1
    <3>1. n \in 1..m /\ n - 1 \in 0..m /\ n \in 0..m
      BY <2>2
    <3>2. Leads(files[n].up, h[n - 1], h[n]) /\ Diff(h[n], files[n].desired, {}) = {}
      BY <3>1 DEF Rebuilds
    <3> QED
      BY <1>1, <3>1, <3>2
  <2> QED
    BY <2>1, <2>2
<1>6. 0..Len(files') = 0..m + 1 /\ 1..Len(files') = 1..m + 1
  BY <1>1
<1> QED
  BY <1>3, <1>4, <1>5, <1>6, Zenon DEF Rebuilds

\* Every step keeps the history and the run together.
LEMMA NextReplay ==
  ASSUME ReplayInv, [Next]_vars, Replayable(Desired)
  PROVE  ReplayInv'
<1>1. TypeOK /\ TypeOK'
  BY NextType DEF ReplayInv
<1>2. PICK h \in [0..Len(files) -> Schema] : Rebuilds(h) /\ Follows(h)
  BY DEF ReplayInv
<1>3. ASSUME UNCHANGED files, Follows(h)', exit' # "unloadable" PROVE ReplayInv'
  <2>1. h \in [0..Len(files') -> Schema] /\ Rebuilds(h)'
    BY <1>2, <1>3 DEF Rebuilds
  <2> QED
    BY <1>1, <1>3, <2>1 DEF ReplayInv, HistoryLoads
<1>4. exit # "unloadable"
  BY DEF ReplayInv, HistoryLoads
<1>5. ASSUME UNCHANGED <<files, job, exit>> PROVE ReplayInv'
  <2>1. Follows(h)'
    BY <1>2, <1>5 DEF Follows, IsReplaying, GeneratesTo, InFile, Rest
  <2> QED
    BY <1>3, <1>4, <1>5, <2>1
<1>6. CASE UNCHANGED vars
  BY <1>5, <1>6 DEF vars
<1>7. ASSUME NEW s \in Desired, Edit(s) PROVE ReplayInv'
  BY <1>5, <1>7 DEF Edit
<1>8. ASSUME NEW allow \in BOOLEAN, Start(allow) PROVE ReplayInv'
  <2>1. Follows(h)'
    BY <1>1, <1>2, <1>8, StartReplay
  <2> QED
    BY <1>3, <1>4, <1>8, <2>1 DEF Start
<1>9. CASE ReplayStatement
  <2>1. Follows(h)'
    BY <1>1, <1>2, <1>9, StatementReplay
  <2> QED
    BY <1>3, <1>4, <1>9, <2>1 DEF ReplayStatement
<1>10. CASE ReplayError
  BY <1>1, <1>2, <1>10, NoReplayError
<1>11. CASE NextFile
  <2>1. Follows(h)'
    BY <1>1, <1>2, <1>11, FileReplay
  <2> QED
    BY <1>3, <1>4, <1>11, <2>1 DEF NextFile
<1>12. CASE NoChanges \/ Refuse
  <2>1. job' = Idle /\ UNCHANGED files /\ exit' # "unloadable"
    BY <1>12 DEF NoChanges, Refuse, Exit
  <2> QED
    BY <1>3, <2>1, IdleFollows
<1>13. CASE Proceed
  <2>1. Follows(h)'
    BY <1>1, <1>2, <1>13, ProceedReplay DEF Follows
  <2> QED
    BY <1>3, <1>4, <1>13, <2>1 DEF Proceed
<1>14. ASSUME NEW op \in job.todo, Generate(op) PROVE ReplayInv'
  <2>1. PICK c \in Schema : GeneratesTo(h, c)
    BY <1>2, <1>14 DEF Follows, Generate
  <2>2. Follows(h)'
    BY <1>1, <1>14, <2>1, GenerateReplay DEF Follows
  <2> QED
    BY <1>3, <1>4, <1>14, <2>2 DEF Generate
<1>15. CASE WriteFile
  <2>1. /\ job.pc = "generate" /\ job' = Idle /\ exit' = "created"
        /\ Len(files') = Len(files) + 1
    BY <1>1, <1>15, WriteAppends
  <2>2. PICK c \in Schema : GeneratesTo(h, c)
    BY <1>2, <2>1 DEF Follows
  <2>3. PICK m \in Nat : m = Len(files)
    BY <1>1 DEF TypeOK
  <2>4. PICK g \in [0..m + 1 -> Schema] : g[m + 1] = c /\ \A n \in 0..m : g[n] = h[n]
    BY <1>2, <2>2, <2>3, OneMore
  <2>5. Rebuilds(g)'
    BY <1>1, <1>2, <1>15, <2>2, <2>3, <2>4, WriteReplay
  <2>6. Follows(g)' /\ g \in [0..Len(files') -> Schema] /\ HistoryLoads'
    BY <2>1, <2>3, <2>4, IdleFollows DEF HistoryLoads
  <2> QED
    BY <1>1, <2>5, <2>6 DEF ReplayInv
<1> QED
  BY <1>6, <1>7, <1>8, <1>9, <1>10, <1>11, <1>12, <1>13, <1>14, <1>15 DEF Next, Run

\* The replay finds what the last file was written for.
LEMMA ReplayIsQuiet == ReplayInv => SecondRunIsQuiet
<1> SUFFICES ASSUME ReplayInv, Replayed, files # << >>, job.desired = Last(files).desired
             PROVE  Diff(job.schema, job.desired, {}) = {}
  BY DEF SecondRunIsQuiet, Operations
<1>1. TypeOK /\ job.pc = "replay" /\ ~InFile
  BY DEF ReplayInv, Replayed
<1>2. PICK h \in [0..Len(files) -> Schema] : Rebuilds(h) /\ Follows(h)
  BY DEF ReplayInv
<1>3. job.schema = h[Len(files)]
  BY <1>1, <1>2 DEF Follows, IsReplaying
<1>4. Len(files) \in 1..Len(files) /\ Last(files) = files[Len(files)]
  BY <1>1 DEF TypeOK, Last
<1>5. Diff(h[Len(files)], files[Len(files)].desired, {}) = {}
  BY <1>2, <1>4 DEF Rebuilds
<1> QED
  BY <1>3, <1>4, <1>5

\* The inductive invariant holds when the schemas of the project are replayable.
THEOREM ReplayInvHolds == Replayable(Desired) => (Spec => []ReplayInv)
<1> SUFFICES ASSUME Replayable(Desired) PROVE Spec => []ReplayInv
  OBVIOUS
<1>1. Init => ReplayInv
  BY InitReplay
<1>2. ReplayInv /\ [Next]_vars => ReplayInv'
  BY NextReplay
<1> QED
  BY <1>1, <1>2, PTL DEF Spec

\* However edits, refusals and reruns follow each other, `migration create` reads back
\* every file it wrote, if no schema of the project holds what the parser or the builder
\* is known to lose (loader.go:208-221).
THEOREM HistoryIsReadable == Replayable(Desired) => (Spec => []HistoryLoads)
<1> SUFFICES ASSUME Replayable(Desired) PROVE Spec => []HistoryLoads
  OBVIOUS
<1>1. ReplayInv => HistoryLoads
  BY DEF ReplayInv
<1> QED
  BY <1>1, ReplayInvHolds, PTL

\* And the schema it rebuilds from them says what the last one was written for, whatever
\* order the planner took: a second run with the same Prisma file has nothing to do
\* (cli/migration.go:96-106, planner.go:16-59, loader.go:194-225).
THEOREM SecondRunFindsNothing == Replayable(Desired) => (Spec => []SecondRunIsQuiet)
<1> SUFFICES ASSUME Replayable(Desired) PROVE Spec => []SecondRunIsQuiet
  OBVIOUS
<1>1. ReplayInv => SecondRunIsQuiet
  BY ReplayIsQuiet
<1> QED
  BY <1>1, ReplayInvHolds, PTL
-----------------------------------------------------------------------------
(***************************************************************************)
(* The command implements the abstract specification, as far as files go.  *)
(***************************************************************************)
Draft == IF job.pc = "idle" THEN NoRun ELSE job.desired

Log == [n \in DOMAIN files |-> files[n].desired]

\* The initial states map to initial states of SchemaEvolution.
LEMMA InitAuthoring == Init => Authoring!Init
<1> SUFFICES ASSUME Init PROVE Authoring!Init
  OBVIOUS
<1>1. Draft = NoRun
  BY DEF Init, Idle, Draft
<1>2. Log = << >>
  BY DEF Init, Log
<1> QED
  BY <1>1, <1>2 DEF Init, Authoring!Init, Draft, Log

\* Every step is a step of the abstract specification or a stutter.
LEMMA NextAuthoring ==
  ASSUME TypeOK, [Next]_vars
  PROVE  [Authoring!Next]_(Authoring!vars)
<1> USE DEF TypeOK
<1>1. ASSUME UNCHANGED <<prisma, files>>, Draft' = Draft
      PROVE  UNCHANGED Authoring!vars
  BY <1>1 DEF Authoring!vars, Draft
<1>2. ASSUME UNCHANGED <<prisma, files>>, job' = Idle
      PROVE  Authoring!Abandon
  <2>1. Draft' = NoRun
    BY <1>2 DEF Draft, Idle
  <2> QED
    BY <1>2, <2>1 DEF Authoring!Abandon, Draft
<1>3. CASE UNCHANGED vars
  <2>1. Draft' = Draft
    BY <1>3 DEF vars, Draft
  <2> QED
    BY <1>1, <1>3, <2>1 DEF vars
<1>4. ASSUME NEW s \in Desired, Edit(s)
      PROVE  Authoring!Edit
  <2>1. Draft' = Draft
    BY <1>4 DEF Edit, Draft
  <2> QED
    BY <1>4, <2>1 DEF Edit, Authoring!Edit, Draft
<1>5. ASSUME NEW allow \in BOOLEAN, Start(allow)
      PROVE  Authoring!Begin
  <2>1. Draft = NoRun
    BY <1>5 DEF Start, Draft
  <2>2. Draft' = prisma
    BY <1>5 DEF Start, Draft, Idle
  <2> QED
    BY <1>5, <2>1, <2>2 DEF Start, Authoring!Begin, Draft
<1>6. CASE ReplayStatement \/ NextFile \/ Proceed \/ \E op \in job.todo : Generate(op)
  <2>1. UNCHANGED <<prisma, files>>
    BY <1>6 DEF ReplayStatement, NextFile, Proceed, Generate
  <2>2. job.pc \in {"replay", "generate"}
    BY <1>6 DEF ReplayStatement, AtStatement, NextFile, Proceed, Replayed, Generate
  <2>3. job'.pc \in {"replay", "generate"} /\ job'.desired = job.desired
    <3>1. CASE ReplayStatement
      BY <2>2, <3>1 DEF ReplayStatement, Job
    <3>2. CASE NextFile
      BY <2>2, <3>2 DEF NextFile, Job
    <3>3. CASE Proceed
      BY <3>3 DEF Proceed, Job
    <3>4. ASSUME NEW op \in job.todo, Generate(op)
          PROVE  job'.pc \in {"replay", "generate"} /\ job'.desired = job.desired
      BY <2>2, <3>4 DEF Generate, Job
    <3> QED
      BY <1>6, <3>1, <3>2, <3>3, <3>4
  <2>4. Draft' = Draft
    BY <2>2, <2>3 DEF Draft
  <2> QED
    BY <1>1, <2>1, <2>4
<1>7. CASE ReplayError \/ NoChanges \/ Refuse
  BY <1>2, <1>7 DEF ReplayError, NoChanges, Refuse, Exit, Authoring!Next
<1>8. CASE WriteFile
  <2> DEFINE f == [up |-> job.up, down |-> job.down, warned |-> job.warned,
                   desired |-> job.desired, allowed |-> job.allow]
  <2>1. files' = Append(files, f) /\ files \in Seq(File) /\ f.desired = job.desired
    BY <1>8 DEF WriteFile
  <2>2. Draft = job.desired /\ job.desired # NoRun
    BY <1>8, NoRunAssumption DEF WriteFile, Draft, Job
  <2>3. Draft' = NoRun
    BY <1>8 DEF WriteFile, Exit, Draft, Idle
  <2>4. Log' = Append(Log, job.desired)
    <3> HIDE DEF f
    <3>1. /\ DOMAIN files' = 1..Len(files) + 1
          /\ \A n \in 1..Len(files) : files'[n] = files[n]
          /\ files'[Len(files) + 1] = f
      BY <2>1
    <3>2. Log \in Seq({files[n].desired : n \in DOMAIN files}) /\ Len(Log) = Len(files)
      BY <2>1 DEF Log
    <3>3. Append(Log, job.desired) =
            [n \in 1..Len(files) + 1 |->
               IF n = Len(files) + 1 THEN job.desired ELSE Log[n]]
      BY <3>2
    <3> QED
      BY <2>1, <3>1, <3>3 DEF Log
  <2>5. prisma' = prisma
    BY <1>8 DEF WriteFile
  <2> QED
    BY <2>2, <2>3, <2>4, <2>5 DEF Authoring!Commit, Authoring!Next, Draft, Log
<1> QED
  BY <1>3, <1>4, <1>5, <1>6, <1>7, <1>8 DEF Next, Run, Authoring!Next

\* Whatever the schemas and the interleaving of edits and runs, `migration
\* create` only ever appends a file for one snapshot of the Prisma schema
\* (cli/migration.go:75-157).
THEOREM Implements == Spec => AuthoringSpec
<1>1. Init => TypeOK /\ Authoring!Init
  BY InitType, InitAuthoring
<1>2. TypeOK /\ [Next]_vars => TypeOK'
  BY NextType
<1>3. TypeOK /\ [Next]_vars => [Authoring!Next]_(Authoring!vars)
  BY NextAuthoring
<1> QED
  BY <1>1, <1>2, <1>3, PTL DEF Spec, AuthoringSpec, Authoring!Spec
=============================================================================
