-------------------------- MODULE MCSchemaEvolution ---------------------------
(***************************************************************************)
(* A small instance of SchemaEvolution for TLC.                            *)
(***************************************************************************)
EXTENDS SchemaEvolution

CONSTANT MaxLog  \* bound: committed versions

ShortLog == Len(log) <= MaxLog
=============================================================================
