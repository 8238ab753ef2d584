---------------------------- MODULE SchemaEvolution ---------------------------
(***************************************************************************)
(* What dryft promises, without SQL, files or diffs.  The developer edits  *)
(* a schema; a run of `migration create` takes the schema as it is and may *)
(* commit it as the next version of a log; the database is migrated up and *)
(* down that log one version at a time.                                    *)
(*                                                                         *)
(* A version may be irreversible: going down from it is allowed, but what  *)
(* the database is afterwards is anyone's guess.                           *)
(***************************************************************************)
EXTENDS Naturals, Sequences

CONSTANTS
  Versions,  \* everything a developer may want
  Empty,     \* the version that has nothing in it
  NoDraft,   \* no run is in progress
  Unknown    \* what is left after an irreversible version was undone

ASSUME VersionsAssumption ==
  Empty \in Versions /\ NoDraft \notin Versions /\ Unknown \notin Versions

VARIABLES
  want,   \* what the developer has written
  draft,  \* what the run in progress took from it
  log,    \* the committed versions
  pos,    \* how many of them the database has been given
  live    \* what the database is

vars == <<want, draft, log, pos, live>>

Version(i) == IF i = 0 THEN Empty ELSE log[i]

TypeOK ==
  /\ want \in Versions
  /\ draft \in Versions \cup {NoDraft}
  /\ log \in Seq(Versions)
  /\ pos \in 0..Len(log)
  /\ live \in Versions \cup {Unknown}

Init ==
  /\ want = Empty
  /\ draft = NoDraft
  /\ log = << >>
  /\ pos = 0
  /\ live = Empty
-----------------------------------------------------------------------------
Edit ==
  /\ want' \in Versions
  /\ UNCHANGED <<draft, log, pos, live>>

Begin ==
  /\ draft = NoDraft
  /\ draft' = want
  /\ UNCHANGED <<want, log, pos, live>>

Abandon ==
  /\ draft' = NoDraft
  /\ UNCHANGED <<want, log, pos, live>>

\* Mutant: the newest version is overwritten.
CommitOver ==
  /\ draft # NoDraft
  /\ log' = IF log = << >> THEN <<draft>> ELSE [log EXCEPT ![Len(log)] = draft]
  /\ draft' = NoDraft
  /\ UNCHANGED <<want, pos, live>>

Commit ==
  /\ draft # NoDraft
  /\ log' = Append(log, draft)
  /\ draft' = NoDraft
  /\ UNCHANGED <<want, pos, live>>

Known(version) == IF live = Unknown THEN Unknown ELSE version

\* Mutant: a version is skipped.
UpTwice ==
  /\ pos < Len(log)
  /\ pos' = pos + 2
  /\ live' = Known(Version(pos + 1))
  /\ UNCHANGED <<want, draft, log>>

Up ==
  /\ pos < Len(log)
  /\ pos' = pos + 1
  /\ live' = Known(Version(pos + 1))
  /\ UNCHANGED <<want, draft, log>>

\* Mutant: the database stays as it is and is believed to have moved.
DownInPlace ==
  /\ pos > 0
  /\ pos' = pos - 1
  /\ live' = live
  /\ UNCHANGED <<want, draft, log>>

Down ==
  /\ pos > 0
  /\ pos' = pos - 1
  /\ live' \in {Unknown, Known(Version(pos - 1))}
  /\ UNCHANGED <<want, draft, log>>

Next == Edit \/ Begin \/ Abandon \/ Commit \/ Up \/ Down

Spec == Init /\ [][Next]_vars
-----------------------------------------------------------------------------
\* Unless an irreversible version was undone, the database is exactly the
\* version its position in the log names, whatever the developer wants by then.
LiveIsVersion == live # Unknown => live = Version(pos)

\* A committed version is never changed or taken back.
LogOnlyGrows == [][SubSeq(log', 1, Len(log)) = log]_vars
=============================================================================
