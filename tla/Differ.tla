-------------------------------- MODULE Differ --------------------------------
(***************************************************************************)
(* internal/diff: the operations and Differ.Diff, which compares the       *)
(* schema rebuilt from the migration history with the one the developer    *)
(* wrote and returns the operations that lead from the first to the second.*)
(*                                                                         *)
(* Diff returns a set: the program appends while ranging over Go maps, in  *)
(* an order the runtime randomises, and only the planner orders the result.*)
(***************************************************************************)
EXTENDS SchemaIR

(***************************************************************************)
(* The operations, one set of records per Go type.                         *)
(***************************************************************************)
CreateTables      == [op : {"CreateTable"}, table : Tables, tabledef : Table]
DropTables        == [op : {"DropTable"}, table : Tables]
AddColumns        == [op : {"AddColumn"}, table : Tables, column : Columns, coldef : Column]
DropColumns       == [op : {"DropColumn"}, table : Tables, column : Columns]
RenameColumns     == [op : {"RenameColumn"}, table : Tables, column : Columns, to : Columns]
AlterColumns      == [op : {"AlterColumn"}, table : Tables, column : Columns,
                      old : Column, new : Column]
CreateIndexes     == [op : {"CreateIndex"}, table : Tables, index : Index]
DropIndexes       == [op : {"DropIndex"}, table : Tables, index : Index]
CreateForeignKeys == [op : {"CreateForeignKey"}, table : Tables, fk : ForeignKey]
DropForeignKeys   == [op : {"DropForeignKey"}, table : Tables, name : Name]
CreateEnums       == [op : {"CreateEnum"}, enum : Enums, values : SUBSET Literals]
AlterEnums        == [op : {"AlterEnum"}, enum : Enums, add : SUBSET Literals,
                      drop : SUBSET Literals]

Operation ==
  CreateTables \cup DropTables \cup AddColumns \cup DropColumns
    \cup RenameColumns \cup AlterColumns \cup CreateIndexes \cup DropIndexes
    \cup CreateForeignKeys \cup DropForeignKeys \cup CreateEnums
    \cup AlterEnums
-----------------------------------------------------------------------------
(***************************************************************************)
(* Normalisation and equality of columns.                                  *)
(***************************************************************************)
NormalizeExpression(e) ==
  CASE e = "current_timestamp" -> "now()"
    [] e = "gen_random_uuid()" -> "uuid_generate_v4()"
    [] OTHER -> e

\* What the differ compares of a default: quotes and casts are gone, letter
\* case is folded, synonyms of an expression are one.
NormalizeDefault(d) ==
  CASE d.kind = "literal"    -> Literal(FoldCase[d.text])
    [] d.kind = "expression" -> Expression(NormalizeExpression(d.text))
    [] OTHER -> d

DefaultsEqual(a, b) == NormalizeDefault(a) = NormalizeDefault(b)

ColumnsEqual(a, b) ==
  /\ a.type = b.type
  /\ a.nullable = b.nullable
  /\ DefaultsEqual(a.default, b.default)
-----------------------------------------------------------------------------
(***************************************************************************)
(* Enums.  An enum that is gone from the schema yields no operation.       *)
(***************************************************************************)
DiffEnums(before, after) ==
  {[op |-> "CreateEnum", enum |-> e, values |-> after[e]] :
     e \in Present(after) \ Present(before)}
  \cup
  {[op |-> "AlterEnum", enum |-> e, add |-> after[e] \ before[e],
    drop |-> before[e] \ after[e]] :
     e \in {x \in Present(after) \cap Present(before) : after[x] # before[x]}}
-----------------------------------------------------------------------------
(***************************************************************************)
(* One table.  Indexes are matched by their columns and foreign keys by    *)
(* the referenced table and their columns; primary keys, unique            *)
(* constraints, index names, uniqueness and actions are never compared.    *)
(***************************************************************************)
AlterColumn(t, c, old, new) ==
  [op |-> "AlterColumn", table |-> t, column |-> c, old |-> old, new |-> new]

\* The pairs of columns that hints, a set of [from, to] records, renames.
Renames(before, after, hints) ==
  {h \in hints : h.from \in Present(before) /\ h.to \in Present(after)}

DiffColumns(t, before, after, hints) ==
  LET renames == Renames(before, after, hints)
      renamed == UNION {{h.from, h.to} : h \in renames}
  IN  {[op |-> "RenameColumn", table |-> t, column |-> h.from, to |-> h.to] :
         h \in renames}
      \cup
      {AlterColumn(t, h.to, before[h.from], after[h.to]) :
         h \in {r \in renames : ~ColumnsEqual(before[r.from], after[r.to])}}
      \cup
      {[op |-> "AddColumn", table |-> t, column |-> c, coldef |-> after[c]] :
         c \in (Present(after) \ Present(before)) \ renamed}
      \cup
      {AlterColumn(t, c, before[c], after[c]) :
         c \in {x \in (Present(after) \cap Present(before)) \ renamed :
                  ~ColumnsEqual(before[x], after[x])}}
      \cup
      {[op |-> "DropColumn", table |-> t, column |-> c] :
         c \in (Present(before) \ Present(after)) \ renamed}

\* Mutant: indexes are matched by name too.
UnmatchedByName(s, r) == {i \in s : \A j \in r : j # i}

\* Differ.indexKey and Differ.foreignKeyKey, and the members of s whose key no
\* member of r has.  Of two members of s with one key the code takes the last; that
\* a table has two is left out.
UnmatchedIndexes(s, r) == {i \in s : \A j \in r : j.cols # i.cols}

UnmatchedForeignKeys(s, r) ==
  {k \in s : \A l \in r : <<l.refTable, l.cols>> # <<k.refTable, k.cols>>}

\* Mutant: indexes that are gone are kept.
DiffNewIndexes(t, before, after) ==
  {[op |-> "CreateIndex", table |-> t, index |-> i] :
     i \in UnmatchedIndexes(after, before)}

DiffIndexes(t, before, after) ==
  {[op |-> "CreateIndex", table |-> t, index |-> i] :
     i \in UnmatchedIndexes(after, before)}
  \cup
  {[op |-> "DropIndex", table |-> t, index |-> i] :
     i \in UnmatchedIndexes(before, after)}

DiffForeignKeys(t, before, after) ==
  {[op |-> "CreateForeignKey", table |-> t, fk |-> k] :
     k \in UnmatchedForeignKeys(after, before)}
  \cup
  {[op |-> "DropForeignKey", table |-> t, name |-> k.name] :
     k \in UnmatchedForeignKeys(before, after)}

DiffTable(t, before, after, hints) ==
  UNION {DiffColumns(t, before.cols, after.cols, hints),
         DiffIndexes(t, before.indexes, after.indexes),
         DiffForeignKeys(t, before.fks, after.fks)}
-----------------------------------------------------------------------------
\* A new table's indexes and foreign keys are operations of their own, because
\* the CREATE TABLE statement carries neither.
NewTable(t, tabledef) ==
  {[op |-> "CreateTable", table |-> t, tabledef |-> tabledef]}
  \cup {[op |-> "CreateIndex", table |-> t, index |-> i] : i \in tabledef.indexes}
  \cup {[op |-> "CreateForeignKey", table |-> t, fk |-> k] : k \in tabledef.fks}

\* Mutant: tables that are gone are kept.
DiffLiveTables(before, after, hints) ==
  (UNION {NewTable(t, after[t]) : t \in Present(after) \ Present(before)})
  \cup
  (UNION {DiffTable(t, before[t], after[t], hints) :
            t \in Present(after) \cap Present(before)})

DiffTables(before, after, hints) ==
  (UNION {NewTable(t, after[t]) : t \in Present(after) \ Present(before)})
  \cup
  (UNION {DiffTable(t, before[t], after[t], hints) :
            t \in Present(after) \cap Present(before)})
  \cup
  {[op |-> "DropTable", table |-> t] : t \in Present(before) \ Present(after)}

Diff(before, after, hints) ==
  DiffEnums(before.enums, after.enums)
    \cup DiffTables(before.tables, after.tables, hints)
=============================================================================
