------------------------ MODULE SchemaEvolution_proofs ------------------------
(***************************************************************************)
(* The abstract specification keeps its own promises, for every set of     *)
(* versions and a log of any length.                                       *)
(***************************************************************************)
EXTENDS SchemaEvolution, TLAPS

\* A log that got longer kept what it had.
LEMMA AppendKeeps ==
  ASSUME NEW S, NEW s \in Seq(S), NEW x \in S
  PROVE  /\ Append(s, x) \in Seq(S)
         /\ Len(Append(s, x)) = Len(s) + 1
         /\ \A i \in 1..Len(s) : Append(s, x)[i] = s[i]
         /\ SubSeq(Append(s, x), 1, Len(s)) = s
         /\ SubSeq(s, 1, Len(s)) = s
OBVIOUS

\* Every position of the log names a version.
LEMMA VersionType ==
  ASSUME TypeOK, NEW i \in 0..Len(log)
  PROVE  Version(i) \in Versions
<1>1. CASE i = 0
  BY <1>1, VersionsAssumption DEF Version
<1>2. CASE i # 0
  BY <1>2 DEF Version, TypeOK
<1> QED
  BY <1>1, <1>2

\* No version was committed: the type invariant holds.
LEMMA InitType == Init => TypeOK
BY VersionsAssumption DEF Init, TypeOK

\* Every step keeps the type invariant.
LEMMA NextType ==
  ASSUME TypeOK, [Next]_vars
  PROVE  TypeOK'
<1>1. CASE UNCHANGED vars
  BY <1>1 DEF vars, TypeOK
<1>2. CASE Edit
  BY <1>2 DEF Edit, TypeOK
<1>3. CASE Begin
  BY <1>3 DEF Begin, TypeOK
<1>4. CASE Abandon
  BY <1>4 DEF Abandon, TypeOK
<1>5. CASE Commit
  <2>1. draft \in Versions /\ log \in Seq(Versions)
    BY <1>5 DEF Commit, TypeOK
  <2>2. log' \in Seq(Versions) /\ Len(log') = Len(log) + 1
    BY <1>5, <2>1, AppendKeeps DEF Commit
  <2>3. pos' \in 0..Len(log')
    BY <1>5, <2>2 DEF Commit, TypeOK
  <2> QED
    BY <1>5, <2>2, <2>3 DEF Commit, TypeOK
<1>6. CASE Up
  <2>1. pos + 1 \in 0..Len(log)
    BY <1>6 DEF Up, TypeOK
  <2>2. live' \in Versions \cup {Unknown}
    BY <1>6, <2>1, VersionType DEF Up, Known
  <2> QED
    BY <1>6, <2>1, <2>2 DEF Up, TypeOK
<1>7. CASE Down
  <2>1. pos - 1 \in 0..Len(log)
    BY <1>7 DEF Down, TypeOK
  <2>2. live' \in Versions \cup {Unknown}
    BY <1>7, <2>1, VersionType DEF Down, Known
  <2> QED
    BY <1>7, <2>1, <2>2 DEF Down, TypeOK
<1> QED
  BY <1>1, <1>2, <1>3, <1>4, <1>5, <1>6, <1>7 DEF Next
-----------------------------------------------------------------------------
\* The types hold for every set of versions and a log of any length.
THEOREM TypeCorrect == Spec => []TypeOK
BY InitType, NextType, PTL DEF Spec

LiveInv == TypeOK /\ LiveIsVersion

\* Every step keeps the live schema the version its position names.
LEMMA NextLive ==
  ASSUME LiveInv, [Next]_vars
  PROVE  LiveInv'
<1> USE DEF LiveInv
<1>1. TypeOK'
  BY NextType
<1>2. LiveIsVersion'
  <2>1. CASE UNCHANGED vars \/ Edit \/ Begin \/ Abandon
    BY <2>1 DEF vars, Edit, Begin, Abandon, LiveIsVersion, Version
  <2>2. CASE Commit
    <3>1. draft \in Versions /\ log \in Seq(Versions) /\ pos \in 0..Len(log)
      BY <2>2 DEF Commit, TypeOK
    <3>2. \A i \in 1..Len(log) : log'[i] = log[i]
      BY <2>2, <3>1, AppendKeeps DEF Commit
    <3>3. Version(pos)' = Version(pos)
      BY <2>2, <3>1, <3>2 DEF Commit, Version
    <3> QED
      BY <2>2, <3>3 DEF Commit, LiveIsVersion
  <2>3. CASE Up
    BY <2>3 DEF Up, Known, LiveIsVersion, Version
  <2>4. CASE Down
    BY <2>4 DEF Down, Known, LiveIsVersion, Version
  <2> QED
    BY <2>1, <2>2, <2>3, <2>4 DEF Next
<1> QED
  BY <1>1, <1>2

\* Whatever is edited, committed, applied and rolled back, a database from which
\* no irreversible version was rolled back is the version its position names.
THEOREM LiveCorrect == Spec => []LiveIsVersion
<1>1. Init => LiveInv
  BY InitType DEF Init, LiveInv, LiveIsVersion, Version
<1>2. LiveInv /\ [Next]_vars => LiveInv'
  BY NextLive
<1>3. LiveInv => LiveIsVersion
  BY DEF LiveInv
<1> QED
  BY <1>1, <1>2, <1>3, PTL DEF Spec

\* No step changes a version that was committed before it.
THEOREM LogGrows == Spec => LogOnlyGrows
<1>1. Init => TypeOK
  BY InitType
<1>2. TypeOK /\ [Next]_vars => TypeOK'
  BY NextType
<1>3. ASSUME TypeOK, [Next]_vars
      PROVE  [SubSeq(log', 1, Len(log)) = log]_vars
  <2>1. CASE UNCHANGED log
    BY <1>3, <2>1, VersionsAssumption, AppendKeeps DEF TypeOK
  <2>2. CASE Commit
    <3>1. draft \in Versions /\ log \in Seq(Versions)
      BY <1>3, <2>2 DEF Commit, TypeOK
    <3> QED
      BY <2>2, <3>1, AppendKeeps DEF Commit
  <2> QED
    BY <1>3, <2>1, <2>2 DEF Next, vars, Edit, Begin, Abandon, Up, Down
<1> QED
  BY <1>1, <1>2, <1>3, PTL DEF Spec, LogOnlyGrows
=============================================================================
