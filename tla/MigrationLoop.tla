----------------------------- MODULE MigrationLoop ----------------------------
(***************************************************************************)
(* The whole loop: the developer edits the Prisma schema, `migration       *)
(* create` writes files, and goose runs them against PostgreSQL, each at   *)
(* its own pace.  goose and the server are external: goose applies or      *)
(* rolls back one file in one transaction, in the order of the files.      *)
(***************************************************************************)
EXTENDS MigrationCreate, Postgres

CONSTANT Unknown  \* SchemaEvolution's Unknown

VARIABLES
  db,       \* the catalog
  applied,  \* how many files goose has applied
  clean     \* ghost: no file with a warning was ever rolled back

loop == <<db, applied, clean>>

loopVars == <<vars, loop>>

LoopInit ==
  /\ Init
  /\ db = EmptySchema
  /\ applied = 0
  /\ clean = TRUE

GooseUp ==
  /\ applied < Len(files)
  /\ db' \in Execute(files[applied + 1].up, db)
  /\ applied' = applied + 1
  /\ UNCHANGED <<vars, clean>>

GooseDown ==
  /\ applied > 0
  /\ db' \in Execute(files[applied].down, db)
  /\ applied' = applied - 1
  /\ clean' = (clean /\ ~files[applied].warned)
  /\ UNCHANGED vars

Command == Next /\ UNCHANGED loop

LoopNext == Command \/ GooseUp \/ GooseDown

LoopSpec == LoopInit /\ [][LoopNext]_loopVars
-----------------------------------------------------------------------------
(***************************************************************************)
(* What two schemas have to share to count as the same: what the differ    *)
(* compares, and the enums some column uses.                               *)
(***************************************************************************)
ViewColumn(coldef) == [coldef EXCEPT !.default = NormalizeDefault(coldef.default)]

ViewTable(tabledef) ==
  [cols |-> [x \in Columns |-> IF tabledef.cols[x] = Absent THEN Absent
                               ELSE ViewColumn(tabledef.cols[x])],
   indexes |-> {i.cols : i \in tabledef.indexes},
   fks |-> {<<k.refTable, k.cols>> : k \in tabledef.fks}]

View(s) ==
  [tables |-> [t \in Tables |-> IF s.tables[t] = Absent THEN Absent
                                ELSE ViewTable(s.tables[t])],
   enums |-> [e \in Enums |-> IF UsesEnum(s, e) THEN s.enums[e] ELSE Absent]]

\* Everything a schema says, except what indexes and constraints are called.
MeaningOf(tabledef) ==
  [cols |-> tabledef.cols, pk |-> tabledef.pk, uniques |-> tabledef.uniques,
   indexes |-> {<<i.cols, i.unique>> : i \in tabledef.indexes},
   fks |-> {<<k.cols, k.refTable, k.refCols, k.onDelete>> : k \in tabledef.fks}]

Meaning(s) ==
  [tables |-> [t \in Tables |-> IF s.tables[t] = Absent THEN Absent
                                ELSE MeaningOf(s.tables[t])],
   enums |-> [e \in Enums |-> IF UsesEnum(s, e) THEN s.enums[e] ELSE Absent]]

ASSUME UnknownAssumption == \A s \in Desired : View(s) \notin {NoRun, Unknown}

\* SchemaEvolution, with the files as its log.
Evolution == INSTANCE SchemaEvolution WITH
  Versions <- {View(s) : s \in Desired},
  Empty    <- View(EmptySchema),
  NoDraft  <- NoRun,
  want     <- View(prisma),
  draft    <- IF job.pc = "idle" THEN NoRun ELSE View(job.desired),
  log      <- [n \in DOMAIN files |-> View(files[n].desired)],
  pos      <- applied,
  live     <- IF clean THEN View(db) ELSE Unknown

\* Whatever the interleaving of edits, runs and goose, each file leads to the
\* schema its run read, and the database steps from one such schema to the
\* next or back.
EvolutionSpec == Evolution!Spec
-----------------------------------------------------------------------------
(***************************************************************************)
(* Properties.                                                             *)
(***************************************************************************)
\* PostgreSQL accepts the next file whenever goose runs it, whatever was rolled
\* back and applied again before, as long as no irreversible file was rolled
\* back (planner.go:61-121 orders the statements, generator.go:61-346 writes
\* them).
UpAccepted ==
  clean /\ applied < Len(files) => Execute(files[applied + 1].up, db) # {}

\* Rolling back a file the generator gave no warning about restores the catalog
\* to the letter, index names included (generator.go:349-429).
DownRestores ==
  \A c \in IF clean /\ applied < Len(files) /\ ~files[applied + 1].warned
             THEN Execute(files[applied + 1].up, db) ELSE {} :
    Execute(files[applied + 1].down, c) = {db}

\* What a run rebuilds offline from the files is the schema of the database
\* that was given all of them (loader.go:194-225, builder.go:26-450).
HistoryIsCatalog ==
  Replayed /\ clean /\ applied = Len(files) => View(job.schema) = View(db)

\* Once goose has applied every file, the database says what the schema of the
\* run that wrote the last one says, keys and constraints and the spelling of
\* defaults included (docs/prd.md:1155-1180).
AppliedIsWanted ==
  clean /\ applied = Len(files) /\ files # << >> =>
    Meaning(db) = Meaning(Last(files).desired)

\* A run that finds nothing to do tells the truth: the database that was given
\* every file says what the schema it read says (cli/migration.go:103-106).
NoHiddenDrift ==
  Replayed /\ Operations = {} /\ clean /\ applied = Len(files) =>
    Meaning(db) = Meaning(job.desired)
-----------------------------------------------------------------------------
(***************************************************************************)
(* Liveness.  A developer who goes on running `migration create` with the  *)
(* flag, and goose up, and has stopped editing and rolling back: a run     *)
(* that started ends, and one with the flag is started again and again     *)
(* although others without it may get in between.                          *)
(***************************************************************************)
ForwardSpec ==
  /\ LoopInit
  /\ [][Command \/ GooseUp]_loopVars
  /\ WF_loopVars(Run /\ UNCHANGED loop)
  /\ SF_loopVars(Start(TRUE) /\ UNCHANGED loop)
  /\ WF_loopVars(GooseUp)

\* Schema(DB1) == Schema(schema.prisma'): the database ends up being what the
\* developer wrote last (docs/prd.md:1155-1180).
RoundTrip == <>[](Meaning(db) = Meaning(prisma))
=============================================================================
