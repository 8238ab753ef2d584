------------------------------- MODULE Planner --------------------------------
(***************************************************************************)
(* internal/diff/planner.go: the order of a plan and its destructive part. *)
(*                                                                         *)
(* The nodes come out of a Go map in random order and sort.Slice is not    *)
(* stable, so any order in which priorities never decrease is a plan.  It  *)
(* is modelled by taking, again and again, any operation of the least      *)
(* priority among those that are left.                                     *)
(***************************************************************************)
EXTENDS Differ

\* Mutant: indexes are dropped when everything else is done.
PriorityDropIndexLast ==
  [CreateEnum |-> 1, DropForeignKey |-> 2, DropIndex |-> 12, CreateTable |-> 4,
   AddColumn |-> 5, AlterColumn |-> 6, RenameColumn |-> 7, DropColumn |-> 8,
   DropTable |-> 9, CreateIndex |-> 10, CreateForeignKey |-> 11,
   AlterEnum |-> 12]

\* Planner.getOperationPriority
Priority ==
  [CreateEnum |-> 1, DropForeignKey |-> 2, DropIndex |-> 3, CreateTable |-> 4,
   AddColumn |-> 5, AlterColumn |-> 6, RenameColumn |-> 7, DropColumn |-> 8,
   DropTable |-> 9, CreateIndex |-> 10, CreateForeignKey |-> 11,
   AlterEnum |-> 12]

\* Mutant: the nodes are not sorted.
FirstUnsorted(todo) == todo

First(todo) ==
  {op \in todo : \A o \in todo : Priority[op.op] <= Priority[o.op]}
-----------------------------------------------------------------------------
(***************************************************************************)
(* Operation.IsDestructive, with the levels of diff.DestructiveLevel.      *)
(***************************************************************************)
Safe == 0
Risky == 1
PotentiallyDestructive == 2
Destructive == 3

\* Mutant: only what drops a table or a column counts.
IsDestructiveDrop(op) ==
  IF op.op \in {"DropTable", "DropColumn"} THEN Destructive ELSE Safe

IsDestructive(op) ==
  CASE op.op \in {"DropTable", "DropColumn"} -> Destructive
    [] op.op \in {"RenameColumn", "DropIndex"} -> PotentiallyDestructive
    [] op.op \in {"CreateIndex", "CreateForeignKey"} -> Risky
    [] op.op = "AddColumn" ->
         IF ~op.coldef.nullable /\ op.coldef.default = NoDefault
           THEN PotentiallyDestructive ELSE Safe
    [] op.op = "AlterColumn" ->
         IF op.old.type.kind # op.new.type.kind THEN Destructive
         ELSE IF op.old.nullable /\ ~op.new.nullable THEN PotentiallyDestructive
         ELSE Safe
    [] op.op = "AlterEnum" -> IF op.drop # {} THEN Destructive ELSE Safe
    [] OTHER -> Safe

DestructiveOps(ops) == {op \in ops : IsDestructive(op) >= PotentiallyDestructive}
=============================================================================
