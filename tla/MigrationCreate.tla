--------------------------- MODULE MigrationCreate ----------------------------
(***************************************************************************)
(* `dryft migration create`: rebuild the schema from the migration files,  *)
(* diff it with the Prisma schema, plan, refuse what is destructive unless *)
(* it is allowed, generate both directions and write one more file.        *)
(*                                                                         *)
(* The developer edits the Prisma schema at any time; a run works on the   *)
(* content it read when it started.  Runs do not overlap, and each file    *)
(* sorts after the files before it.                                        *)
(***************************************************************************)
EXTENDS SchemaBuilder

CONSTANTS
  Desired,  \* the schemas a developer may write in the Prisma file
  NoRun,    \* stands for the schema of a run when there is none
  MaxEdits, \* bound: edits of the Prisma file
  MaxFiles  \* bound: no run starts once there are so many files

ASSUME DesiredAssumption  == Desired \subseteq Schema /\ EmptySchema \in Desired
ASSUME NoRunAssumption    == NoRun \notin Desired
ASSUME BoundsAssumption   == MaxEdits \in Nat /\ MaxFiles \in Nat

VARIABLES
  prisma,  \* the schema in the Prisma file
  edits,   \* how often it was edited
  files,   \* the migration files, oldest first
  job,     \* the run in progress
  exit     \* how the last run ended

vars == <<prisma, edits, files, job, exit>>

\* A migration file: its two sections and whether the generator warned that the
\* second cannot undo the first.  desired and allowed are ghosts: the schema and
\* the flag of the run that wrote it.
File == [up : Seq(Statement), down : Seq(Statement), warned : BOOLEAN,
         desired : Desired, allowed : BOOLEAN]

\* file and stmt point at the next statement to replay, schema is the builder's,
\* todo holds the operations of the plan that have no SQL yet.
Job == [pc : {"idle", "replay", "generate"}, allow : BOOLEAN, desired : Desired,
        file : Nat \ {0}, stmt : Nat \ {0}, schema : Schema, todo : SUBSET Operation,
        up : Seq(Statement), down : Seq(Statement), warned : BOOLEAN]

Idle == [pc |-> "idle", allow |-> FALSE, desired |-> EmptySchema, file |-> 1,
         stmt |-> 1, schema |-> EmptySchema, todo |-> {}, up |-> << >>,
         down |-> << >>, warned |-> FALSE]

Exits == {"none", "created", "no changes", "refused", "unloadable"}

TypeOK ==
  /\ prisma \in Desired
  /\ edits \in 0..MaxEdits
  /\ files \in Seq(File)
  /\ job \in Job
  /\ exit \in Exits

Init ==
  /\ prisma = EmptySchema
  /\ edits = 0
  /\ files = << >>
  /\ job = Idle
  /\ exit = "none"
-----------------------------------------------------------------------------
Edit(s) ==
  /\ edits < MaxEdits
  /\ s # prisma
  /\ prisma' = s
  /\ edits' = edits + 1
  /\ UNCHANGED <<files, job, exit>>

\* Steps 2 to 4 of migrationCreateAction: the Prisma file is read once.
Start(allow) ==
  /\ job.pc = "idle"
  /\ Len(files) < MaxFiles
  /\ job' = [Idle EXCEPT !.pc = "replay", !.allow = allow, !.desired = prisma]
  /\ UNCHANGED <<prisma, edits, files, exit>>

Exit(code) == job' = Idle /\ exit' = code

(***************************************************************************)
(* LoadSchemaFromMigrations: only the Up sections, statement by statement. *)
(***************************************************************************)
InFile == job.file <= Len(files)

AtStatement ==
  /\ job.pc = "replay"
  /\ InFile
  /\ job.stmt <= Len(files[job.file].up)

NextStatement == files[job.file].up[job.stmt]

ReplayStatement ==
  /\ AtStatement
  /\ \E s \in Applied(NextStatement, job.schema) :
       job' = [job EXCEPT !.schema = s, !.stmt = @ + 1]
  /\ UNCHANGED <<prisma, edits, files, exit>>

ReplayError ==
  /\ AtStatement
  /\ Applied(NextStatement, job.schema) = {}
  /\ Exit("unloadable")
  /\ UNCHANGED <<prisma, edits, files>>

NextFile ==
  /\ job.pc = "replay"
  /\ InFile
  /\ job.stmt > Len(files[job.file].up)
  /\ job' = [job EXCEPT !.file = @ + 1, !.stmt = 1]
  /\ UNCHANGED <<prisma, edits, files, exit>>

(***************************************************************************)
(* Steps 6 to 8: diff, plan, and the gate on destructive operations.       *)
(***************************************************************************)
Replayed == job.pc = "replay" /\ ~InFile

Operations == Diff(job.schema, job.desired, {})

NoChanges ==
  /\ Replayed
  /\ Operations = {}
  /\ Exit("no changes")
  /\ UNCHANGED <<prisma, edits, files>>

Refuse ==
  /\ Replayed
  /\ DestructiveOps(Operations) # {} /\ ~job.allow
  /\ Exit("refused")
  /\ UNCHANGED <<prisma, edits, files>>

\* Mutant: the plan's destructive operations are printed and no more.
ProceedAnyway ==
  /\ Replayed
  /\ Operations # {}
  /\ job' = [job EXCEPT !.pc = "generate", !.todo = Operations]
  /\ UNCHANGED <<prisma, edits, files, exit>>

\* Mutant: the Prisma file is read again to be diffed.
ProceedReread ==
  /\ Replayed
  /\ Operations # {}
  /\ DestructiveOps(Operations) = {} \/ job.allow
  /\ job' = [job EXCEPT !.pc = "generate", !.desired = prisma, !.todo = Operations]
  /\ UNCHANGED <<prisma, edits, files, exit>>

Proceed ==
  /\ Replayed
  /\ Operations # {}
  /\ DestructiveOps(Operations) = {} \/ job.allow
  /\ job' = [job EXCEPT !.pc = "generate", !.todo = Operations]
  /\ UNCHANGED <<prisma, edits, files, exit>>

(***************************************************************************)
(* Steps 9 to 11: Up in the plan's order, Down in the opposite order, and  *)
(* the file is written in one call.                                        *)
(***************************************************************************)
\* Mutant: Down in the order of Up.
GenerateInOrder(op) ==
  /\ job.pc = "generate"
  /\ op \in First(job.todo)
  /\ job' = [job EXCEPT !.todo = @ \ {op},
                        !.up = @ \o GenerateOperation(op),
                        !.down = @ \o GenerateReverseOperation(op),
                        !.warned = @ \/ IsIrreversible(op)]
  /\ UNCHANGED <<prisma, edits, files, exit>>

Generate(op) ==
  /\ job.pc = "generate"
  /\ op \in First(job.todo)
  /\ job' = [job EXCEPT !.todo = @ \ {op},
                        !.up = @ \o GenerateOperation(op),
                        !.down = GenerateReverseOperation(op) \o @,
                        !.warned = @ \/ IsIrreversible(op)]
  /\ UNCHANGED <<prisma, edits, files, exit>>

WriteFile ==
  /\ job.pc = "generate"
  /\ job.todo = {}
  /\ files' = Append(files, [up |-> job.up, down |-> job.down,
                             warned |-> job.warned, desired |-> job.desired,
                             allowed |-> job.allow])
  /\ Exit("created")
  /\ UNCHANGED <<prisma, edits>>

Run ==
  \/ ReplayStatement
  \/ ReplayError
  \/ NextFile
  \/ NoChanges
  \/ Refuse
  \/ Proceed
  \/ \E op \in job.todo : Generate(op)
  \/ WriteFile

Next ==
  \/ \E s \in Desired : Edit(s)
  \/ \E allow \in BOOLEAN : Start(allow)
  \/ Run

Spec == Init /\ [][Next]_vars

\* SchemaEvolution without a database: the runs that write its log.
Authoring == INSTANCE SchemaEvolution WITH
  Versions <- Desired,
  Empty    <- EmptySchema,
  NoDraft  <- NoRun,
  Unknown  <- NoRun,
  want     <- prisma,
  draft    <- IF job.pc = "idle" THEN NoRun ELSE job.desired,
  log      <- [n \in DOMAIN files |-> files[n].desired],
  pos      <- 0,
  live     <- EmptySchema

\* However edits and runs interleave, a run works from the schema as it was at
\* one moment, the file it may write is for that schema and comes after all the
\* others, and no run changes a file (cli/migration.go:75-157).
AuthoringSpec == Authoring!Spec
-----------------------------------------------------------------------------
(***************************************************************************)
(* Properties.                                                             *)
(***************************************************************************)
\* The statements that can lose data or fail on the data that is there.
Lossy == {"DROP TABLE", "DROP COLUMN", "ALTER TYPE", "SET NOT NULL", "DROP INDEX"}

IsLossy(stmts) == \E i \in DOMAIN stmts : stmts[i].stmt \in Lossy

\* Whatever the order of edits, refusals and reruns, a migration file whose Up
\* section drops or narrows something was written by a run that was given
\* --allow-destructive: the gate looks at operations, this looks at the SQL
\* that came out of them (cli/migration.go:116-125).
DestructiveGated ==
  \A i \in DOMAIN files : IsLossy(files[i].up) => files[i].allowed

\* A destructive operation still to be generated, or a lossy statement already
\* generated, only ever belongs to a run with the flag.
JobGated ==
  job.allow \/ (DestructiveOps(job.todo) = {} /\ ~IsLossy(job.up))

\* Once a run has written a file for a schema, the history says that schema: a
\* later run that reads the same schema, whatever was refused or edited in
\* between, finds nothing to do (cli/migration.go:96-106, loader.go:194-225).
SecondRunIsQuiet ==
  Replayed /\ files # << >> /\ job.desired = Last(files).desired => Operations = {}

\* A column that is NOT NULL and whose statement gives no default cannot be added
\* to a table with rows: only a run with the flag writes one (docs/prd.md:785-799,
\* operation.go:148-154).
NotNullGated ==
  \A i \in DOMAIN files : \A j \in DOMAIN files[i].up :
    LET v == files[i].up[j]
    IN  /\ v.stmt = "ADD COLUMN"
        /\ ~v.coldef.nullable
        /\ v.coldef.default = NoDefault
        => files[i].allowed

\* The history dryft wrote is a history dryft can read (loader.go:208-221).
HistoryLoads == exit # "unloadable"
=============================================================================
