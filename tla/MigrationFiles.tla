---------------------------- MODULE MigrationFiles ----------------------------
(***************************************************************************)
(* The migration directory under several runs of `dryft migration create`. *)
(*                                                                         *)
(* Runs may overlap, be killed, or find the disk full while they write; the *)
(* clock that names a file has a resolution of one second, may stand still *)
(* between two runs and, being the local time, goes back now and then.     *)
(* What the plan of a run holds is abstracted to tables that come and go.  *)
(***************************************************************************)
EXTENDS Integers, SequencesExt

CONSTANTS
  Runs,     \* the commands that may run at the same time
  Names,    \* the names they are given, as sequences of characters
  Lowers,   \* the lower case form of each capital
  Tables,
  Desired,  \* the sets of tables a developer may write in the Prisma file
  MaxTime,  \* bound: the last second of the clock
  MaxFaults, \* bound: how often the clock goes back or the disk is full
  MaxRuns   \* bound: how many runs are started

ASSUME TablesAssumption == IsFiniteSet(Tables)
ASSUME DesiredAssumption == Desired \subseteq SUBSET Tables
ASSUME BoundsAssumption ==
  MaxTime \in Nat /\ MaxFaults \in Nat /\ MaxRuns \in Nat

VARIABLES
  now,   \* the clock when it was last read
  faults, \* how often it went back or the disk was full
  dir,   \* the migration directory: the Up section of each file, by name
  job,   \* the runs in progress
  runs   \* how many were started

vars == <<now, faults, dir, job, runs>>
-----------------------------------------------------------------------------
(***************************************************************************)
(* Files.  A file that was not written to its end may have a last          *)
(* statement that is cut: before its last character, which ends it for     *)
(* goose and not for the loader, or earlier.                               *)
(***************************************************************************)
Letters == DOMAIN Lowers \cup {Lowers[c] : c \in DOMAIN Lowers}

Digits == {"0", "1", "2", "3", "4", "5", "6", "7", "8", "9"}

sanitizeName(name) ==
  LET underscored == [i \in DOMAIN name |-> IF name[i] \in {" ", "-"} THEN "_" ELSE name[i]]
      kept        == SelectSeq(underscored, LAMBDA c : c \in Letters \cup Digits \cup {"_"})
  IN  [i \in DOMAIN kept |-> IF kept[i] \in DOMAIN Lowers THEN Lowers[kept[i]] ELSE kept[i]]

\* Mutant: the name is taken as it is.
GenerateRawFilename(name, time) == [timestamp |-> time, name |-> name]

GenerateFilename(name, time) == [timestamp |-> time, name |-> sanitizeName(name)]

Filename == [timestamp : 0..MaxTime, name : {sanitizeName(n) : n \in Names}]

Cuts == {"whole", "unended", "unreadable"}

Statement == [stmt : {"CREATE TABLE", "DROP TABLE"}, table : Tables, cut : Cuts]

IsWhole(stmts) == \A i \in DOMAIN stmts : stmts[i].cut = "whole"

\* applyCreateTable and applyDropTable, as the set of what they may return
Applied(v, s) ==
  CASE v.cut = "unreadable" -> {}
    [] v.cut # "unreadable" /\ v.stmt = "CREATE TABLE" -> {s \cup {v.table}} \ {s}
    [] v.cut # "unreadable" /\ v.stmt = "DROP TABLE" -> {s \ {v.table}} \ {s}

Replay(stmts) ==
  FoldLeft(LAMBDA S, v : UNION {Applied(v, s) : s \in S}, {{}}, stmts)

\* The orders of a finite set that keep that of a rank.
Sorted(S, Rank(_)) ==
  {q \in SetToSeqs(S) : \A i, j \in DOMAIN q : i < j => Rank(q[i]) <= Rank(q[j])}

Timestamp(file) == file.timestamp

Statements(read, q) == FlattenSeq([i \in DOMAIN q |-> read[q[i]]])

\* Mutant: the first file is left out.
LoadTail(read) ==
  {Statements(read, IF q = << >> THEN q ELSE Tail(q)) : q \in Sorted(DOMAIN read, Timestamp)}

\* LoadAll sorts by the timestamp and by nothing else.
LoadOrders(read) == {Statements(read, q) : q \in Sorted(DOMAIN read, Timestamp)}

\* Diff and Plan: tables are created before others are dropped.
Rank(v) == IF v.stmt = "CREATE TABLE" THEN 4 ELSE 9

Operations(before, after) ==
  {[stmt |-> "CREATE TABLE", table |-> t, cut |-> "whole"] : t \in after \ before}
    \cup {[stmt |-> "DROP TABLE", table |-> t, cut |-> "whole"] : t \in before \ after}

Plans(before, after) == Sorted(Operations(before, after), Rank)
-----------------------------------------------------------------------------
NoFile == [timestamp |-> 0, name |-> << >>]

Idle == [pc |-> "idle", name |-> << >>, desired |-> {}, todo |-> {}, read |-> << >>,
         up |-> << >>, file |-> NoFile, stale |-> FALSE]

Init ==
  /\ now = 0 /\ faults = 0
  /\ dir = << >>
  /\ job = [r \in Runs |-> Idle] /\ runs = 0

At(r, pc) == job[r].pc = pc

Goto(r, state) == job' = [job EXCEPT ![r] = state]

\* The same, and the other runs that are past reading the names work from files
\* that are no longer there.
GotoAndChange(r, state) ==
  job' = [q \in Runs |->
            CASE q = r -> state
              [] q # r /\ job[q].pc \in {"idle", "list"} -> job[q]
              [] q # r /\ job[q].pc \notin {"idle", "list"} -> [job[q] EXCEPT !.stale = TRUE]]

Local == UNCHANGED <<now, faults, runs, dir>>

\* Steps 1 to 4: the Prisma file is read, which may have been edited since.
Start(r, name, desired) ==
  /\ At(r, "idle")
  /\ runs < MaxRuns
  /\ runs' = runs + 1
  /\ Goto(r, [Idle EXCEPT !.pc = "list", !.name = name, !.desired = desired])
  /\ UNCHANGED <<now, faults, dir>>

\* LoadAll: the names of one moment, then file by file in the order of names.
ReadDir(r) ==
  /\ At(r, "list")
  /\ Goto(r, [job[r] EXCEPT !.pc = "load", !.todo = DOMAIN dir])
  /\ Local

With(files, f, stmts) ==
  [g \in DOMAIN files \cup {f} |-> IF g = f THEN stmts ELSE files[g]]

Earliest(S) == {f \in S : \A g \in S : f.timestamp <= g.timestamp}

\* Mutant: a file without statements is left out.
ReadFileWithStatements(r) ==
  /\ At(r, "load")
  /\ \E f \in Earliest(job[r].todo) :
       IF dir[f] = << >> THEN Goto(r, [job[r] EXCEPT !.todo = @ \ {f}])
       ELSE Goto(r, [job[r] EXCEPT !.todo = @ \ {f}, !.read = With(@, f, dir[f])])
  /\ Local

ReadFile(r) ==
  /\ At(r, "load")
  /\ \E f \in Earliest(job[r].todo) :
       Goto(r, [job[r] EXCEPT !.todo = @ \ {f}, !.read = With(@, f, dir[f])])
  /\ Local

Loaded(r) == At(r, "load") /\ job[r].todo = {}

\* What the replay of the Up sections may give, and that it may fail.
Histories(r) == UNION {Replay(stmts) : stmts \in LoadOrders(job[r].read)}

ReplayError(r) ==
  /\ Loaded(r)
  /\ \E stmts \in LoadOrders(job[r].read) : Replay(stmts) = {}
  /\ Goto(r, Idle)
  /\ Local

NoChanges(r) ==
  /\ Loaded(r)
  /\ job[r].desired \in Histories(r)
  /\ Goto(r, Idle)
  /\ Local

\* A table is to be dropped and the flag is missing.
Refuse(r) ==
  /\ Loaded(r)
  /\ \E h \in Histories(r) : ~(h \subseteq job[r].desired)
  /\ Goto(r, Idle)
  /\ Local

Proceed(r) ==
  /\ Loaded(r)
  /\ \E h \in Histories(r) \ {job[r].desired} : \E up \in Plans(h, job[r].desired) :
       Goto(r, [job[r] EXCEPT !.pc = "name", !.up = up])
  /\ Local

\* The time goes on between two runs, stands still, or goes back: summer time
\* ends, or the other developer is in another place.
Read(time) ==
  /\ now' = time
  /\ \/ time >= now /\ UNCHANGED faults
     \/ time < now /\ faults < MaxFaults /\ faults' = faults + 1

NameFile(r) ==
  /\ At(r, "name")
  /\ \E time \in 0..MaxTime :
       /\ Read(time)
       /\ Goto(r, [job[r] EXCEPT !.pc = "open", !.file = GenerateFilename(job[r].name, time)])
  /\ UNCHANGED <<runs, dir>>

(***************************************************************************)
(* os.WriteFile: the file is created or emptied, then filled.  What another *)
(* run has put into it meanwhile, and is longer, ends up after the Down    *)
(* section.                                                                *)
(***************************************************************************)
OpenFile(r) ==
  /\ At(r, "open")
  /\ dir' = With(dir, job[r].file, << >>)
  /\ GotoAndChange(r, [job[r] EXCEPT !.pc = "write"])
  /\ UNCHANGED <<now, faults, runs>>

WriteFile(r) ==
  /\ At(r, "write")
  /\ dir' = With(dir, job[r].file, job[r].up)
  /\ GotoAndChange(r, Idle)
  /\ UNCHANGED <<now, faults, runs>>

\* What is on the disk when it is full.
Torn(up) ==
  {SubSeq(up, 1, n) : n \in 0..Len(up)}
    \cup {Append(SubSeq(up, 1, n - 1), [up[n] EXCEPT !.cut = c]) :
            n \in DOMAIN up, c \in Cuts \ {"whole"}}

ShortWrite(r) ==
  /\ At(r, "write") /\ faults < MaxFaults
  /\ faults' = faults + 1
  /\ \E stmts \in Torn(job[r].up) : dir' = With(dir, job[r].file, stmts)
  /\ GotoAndChange(r, Idle)
  /\ UNCHANGED <<now, runs>>

Kill(r) ==
  /\ ~At(r, "idle")
  /\ Goto(r, Idle)
  /\ Local
-----------------------------------------------------------------------------
Step(r) ==
  \/ \E name \in Names, desired \in Desired : Start(r, name, desired)
  \/ ReadDir(r) \/ ReadFile(r)
  \/ ReplayError(r) \/ NoChanges(r) \/ Refuse(r) \/ Proceed(r)
  \/ NameFile(r)
  \/ OpenFile(r) \/ WriteFile(r) \/ ShortWrite(r)
  \/ Kill(r)

Next == \E r \in Runs : Step(r)

Spec == Init /\ [][Next]_vars
-----------------------------------------------------------------------------
PCs == {"idle", "list", "load", "name", "open", "write"}

TypeOK ==
  /\ now \in 0..MaxTime /\ faults \in Nat
  /\ DOMAIN dir \subseteq Filename
  /\ \A f \in DOMAIN dir : dir[f] \in Seq(Statement)
  /\ \A r \in Runs :
       /\ job[r].pc \in PCs
       /\ job[r].desired \subseteq Tables
       /\ job[r].up \in Seq(Statement)

\* The files a run has read are those that are there, unless another run wrote
\* meanwhile: a kill, a full disk and the clock alone leave no run with a
\* history that is not on the disk (loader.go:37-82).
ReadIsDir ==
  \A r \in Runs :
    job[r].pc \in {"load", "name", "open"} /\ ~job[r].stale =>
      /\ job[r].todo \cap DOMAIN job[r].read = {}
      /\ job[r].todo \cup DOMAIN job[r].read = DOMAIN dir
      /\ \A f \in DOMAIN job[r].read : job[r].read[f] = dir[f]

(***************************************************************************)
(* goose: the files in the order of their versions, no two of which are    *)
(* the same, and no statement without its end.                             *)
(***************************************************************************)
GooseRuns(d) ==
  /\ \A f, g \in DOMAIN d : f.timestamp = g.timestamp => f = g
  /\ \A f \in DOMAIN d : IsWhole(d[f])

GooseResult(d) == UNION {Replay(Statements(d, q)) : q \in Sorted(DOMAIN d, Timestamp)}

\* A run that finds nothing to do is right, and the file a run creates leads to
\* the schema it read, whatever files earlier runs overwrote, tore, repeated or
\* left empty: if goose accepts the directory, it makes of an empty database what
\* the run read in the Prisma file.  Only a run during which another one wrote,
\* and a file that is not later than all the others, are no such promise
\* (cli/migration.go:94-157).
AnswerIsTrue ==
  [][\A r \in Runs :
       /\ ~job[r].stale
       /\ GooseRuns(dir')
       /\ \/ NoChanges(r)
          \/ /\ WriteFile(r)
             /\ \A f \in DOMAIN job[r].read : f.timestamp < job[r].file.timestamp
       => GooseResult(dir') = {job[r].desired}]_vars
=============================================================================
