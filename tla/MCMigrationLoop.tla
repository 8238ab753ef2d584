--------------------------- MODULE MCMigrationLoop ----------------------------
(***************************************************************************)
(* Small instances of MigrationLoop for TLC, over the schemas of           *)
(* MCMigrationCreate.                                                      *)
(***************************************************************************)
EXTENDS MCMigrationCreate, MigrationLoop, MigratableSchemas

\* What the theorems on the loop suppose is true of the schemas with which TLC finds
\* that the database follows the files, and false where a key drifts unseen, although
\* that history is read back.
ASSUME MigratableAssumption ==
  /\ \A S \in {TypicalSchemas, ShortSchemas} : Migratable(S)
  /\ Replayable(KeySchemas) /\ ~Migratable(KeySchemas)
=============================================================================
