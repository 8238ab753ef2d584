------------------------- MODULE MigrationFiles_proofs -------------------------
(***************************************************************************)
(* What a run has read is what is there: for every number of runs, files,  *)
(* names and faults, and every order of their steps.                       *)
(***************************************************************************)
EXTENDS MigrationFiles, FiniteSetTheorems, Induction_proofs, TLAPS

\* The fields of a run, whatever they hold.
Fields == {"pc", "name", "desired", "todo", "read", "up", "file", "stale"}

IsJob(j) == j = [x \in Fields |-> j[x]]

IsFresh(j) ==
  /\ j.pc = "list" => DOMAIN j.read = {}
  /\ j.pc \in {"load", "name", "open"} /\ ~j.stale =>
       /\ j.todo \cap DOMAIN j.read = {}
       /\ j.todo \cup DOMAIN j.read = DOMAIN dir
       /\ \A f \in DOMAIN j.read : j.read[f] = dir[f]

FilesInv ==
  /\ job = [r \in Runs |-> job[r]]
  /\ \A r \in Runs : IsJob(job[r]) /\ IsFresh(job[r])

\* The invariant says of every run what the property says.
LEMMA FreshIsRead == FilesInv => ReadIsDir
BY DEF FilesInv, IsFresh, ReadIsDir

\* A run moves on and the files stay.
LEMMA GotoKeeps ==
  ASSUME FilesInv, NEW r \in Runs, NEW j, IsJob(j), IsFresh(j), Goto(r, j), UNCHANGED dir
  PROVE  FilesInv'
<1>1. job' = [job EXCEPT ![r] = j]
  BY DEF Goto
<1>2. job' = [q \in Runs |-> IF q = r THEN j ELSE job[q]]
  BY <1>1 DEF FilesInv
<1>3. job' = [q \in Runs |-> job'[q]]
  BY <1>2
<1>4. ASSUME NEW q \in Runs PROVE IsJob(job'[q]) /\ IsFresh(job[q])'
  <2>1. CASE q = r
    BY <1>2, <2>1 DEF IsFresh
  <2>2. CASE q # r
    BY <1>2, <2>2 DEF FilesInv, IsFresh
  <2> QED
    BY <2>1, <2>2
<1> QED
  BY <1>3, <1>4 DEF FilesInv, IsJob

\* A run moves on to where it reads no more, and the files change.
LEMMA ChangeKeeps ==
  ASSUME FilesInv, NEW r \in Runs, NEW j, IsJob(j), j.pc \in {"write", "idle"},
         GotoAndChange(r, j)
  PROVE  FilesInv'
<1> DEFINE Early == {"idle", "list"}
<1>2. job' = [q \in Runs |->
                CASE q = r -> j
                  [] q # r /\ job[q].pc \in Early -> job[q]
                  [] q # r /\ job[q].pc \notin Early -> [job[q] EXCEPT !.stale = TRUE]]
  BY DEF GotoAndChange
<1>3. job' = [q \in Runs |-> job'[q]]
  BY <1>2
<1>4. ASSUME NEW q \in Runs PROVE IsJob(job'[q]) /\ IsFresh(job[q])'
  <2>1. CASE q = r
    BY <1>2, <2>1 DEF IsFresh
  <2>2. CASE q # r /\ job[q].pc \in Early
    BY <1>2, <2>2 DEF FilesInv, IsFresh
  <2>3. CASE q # r /\ job[q].pc \notin Early
    <3>1. job'[q] = [job[q] EXCEPT !.stale = TRUE]
      BY <1>2, <2>3
    <3>2. IsJob(job[q])
      BY DEF FilesInv
    <3>3. job'[q].stale = TRUE /\ job'[q].pc = job[q].pc /\ IsJob(job'[q])
      BY <3>1, <3>2 DEF IsJob, Fields
    <3> QED
      BY <2>3, <3>3 DEF IsFresh
  <2> QED
    BY <2>1, <2>2, <2>3
<1> QED
  BY <1>3, <1>4 DEF FilesInv, IsJob

\* A run that is over reads nothing and works from nothing.
LEMMA IdleJob == IsJob(Idle) /\ IsFresh(Idle) /\ Idle.pc = "idle"
BY DEF Idle, IsJob, IsFresh, Fields

\* Every step of every run keeps the invariant.
LEMMA StepKeeps == ASSUME FilesInv, NEW r \in Runs, Step(r) PROVE FilesInv'
<1> DEFINE j == job[r]
<1>0. IsJob(j) /\ IsFresh(j)
  BY DEF FilesInv
<1>1. ASSUME NEW name \in Names, NEW desired \in Desired, Start(r, name, desired) PROVE FilesInv'
  <2> DEFINE new == [Idle EXCEPT !.pc = "list", !.name = name, !.desired = desired]
  <2>1. IsJob(new) /\ new.pc = "list" /\ new.read = << >>
    BY DEF Idle, IsJob, Fields
  <2>2. IsFresh(new)
    <3>1. DOMAIN << >> = {}
      OBVIOUS
    <3> QED
      BY <2>1, <3>1 DEF IsFresh
  <2>3. Goto(r, new) /\ UNCHANGED dir
    BY <1>1 DEF Start
  <2> QED
    BY <2>1, <2>2, <2>3, GotoKeeps
<1>2. CASE ReadDir(r)
  <2> DEFINE new == [j EXCEPT !.pc = "load", !.todo = DOMAIN dir]
  <2>1. IsJob(new) /\ new.pc = "load" /\ new.todo = DOMAIN dir /\ new.read = j.read
    BY <1>0 DEF IsJob, Fields
  <2>2. IsFresh(new)
    BY <1>0, <1>2, <2>1 DEF ReadDir, At, IsFresh
  <2>3. Goto(r, new) /\ UNCHANGED dir
    BY <1>2 DEF ReadDir, Local
  <2> QED
    BY <2>1, <2>2, <2>3, GotoKeeps
<1>3. CASE ReadFile(r)
  <2>1. PICK f \in j.todo : Goto(r, [j EXCEPT !.todo = @ \ {f}, !.read = With(@, f, dir[f])])
    BY <1>3 DEF ReadFile, Earliest
  <2> DEFINE new == [j EXCEPT !.todo = @ \ {f}, !.read = With(@, f, dir[f])]
  <2>2. /\ IsJob(new) /\ new.pc = j.pc /\ new.stale = j.stale /\ new.todo = j.todo \ {f}
        /\ new.read = With(j.read, f, dir[f])
    BY <1>0 DEF IsJob, Fields
  <2>3. /\ DOMAIN new.read = {f} \cup DOMAIN j.read
        /\ \A g \in DOMAIN new.read : new.read[g] = IF g = f THEN dir[f] ELSE j.read[g]
    BY <2>2 DEF With
  <2>4. IsFresh(new)
    BY <1>0, <1>3, <2>2, <2>3 DEF ReadFile, At, IsFresh
  <2>5. UNCHANGED dir
    BY <1>3 DEF ReadFile, Local
  <2> QED
    BY <2>1, <2>2, <2>4, <2>5, GotoKeeps
<1>4. CASE ReplayError(r) \/ NoChanges(r) \/ Refuse(r) \/ Kill(r)
  <2>1. Goto(r, Idle) /\ UNCHANGED dir
    BY <1>4 DEF ReplayError, NoChanges, Refuse, Kill, Local
  <2> QED
    BY <2>1, IdleJob, GotoKeeps
<1>5. CASE Proceed(r)
  <2>1. PICK up : Goto(r, [j EXCEPT !.pc = "name", !.up = up])
    BY <1>5 DEF Proceed
  <2> DEFINE new == [j EXCEPT !.pc = "name", !.up = up]
  <2>2. /\ IsJob(new) /\ new.pc = "name" /\ new.stale = j.stale /\ new.todo = j.todo
        /\ new.read = j.read
    BY <1>0 DEF IsJob, Fields
  <2>3. IsFresh(new)
    BY <1>0, <1>5, <2>2 DEF Proceed, Loaded, At, IsFresh
  <2>4. UNCHANGED dir
    BY <1>5 DEF Proceed, Local
  <2> QED
    BY <2>1, <2>2, <2>3, <2>4, GotoKeeps
<1>6. CASE NameFile(r)
  <2>1. PICK time : Goto(r, [j EXCEPT !.pc = "open", !.file = GenerateFilename(j.name, time)])
    BY <1>6 DEF NameFile
  <2> DEFINE new == [j EXCEPT !.pc = "open", !.file = GenerateFilename(j.name, time)]
  <2>2. /\ IsJob(new) /\ new.pc = "open" /\ new.stale = j.stale /\ new.todo = j.todo
        /\ new.read = j.read
    BY <1>0 DEF IsJob, Fields
  <2>3. IsFresh(new)
    BY <1>0, <1>6, <2>2 DEF NameFile, At, IsFresh
  <2>4. UNCHANGED dir
    BY <1>6 DEF NameFile
  <2> QED
    BY <2>1, <2>2, <2>3, <2>4, GotoKeeps
<1>7. CASE OpenFile(r)
  <2> DEFINE new == [j EXCEPT !.pc = "write"]
  <2>1. IsJob(new) /\ new.pc = "write"
    BY <1>0 DEF IsJob, Fields
  <2>2. GotoAndChange(r, new)
    BY <1>7 DEF OpenFile
  <2> QED
    BY <2>1, <2>2, ChangeKeeps
<1>8. CASE WriteFile(r) \/ ShortWrite(r)
  <2>1. GotoAndChange(r, Idle)
    BY <1>8 DEF WriteFile, ShortWrite
  <2> QED
    BY <2>1, IdleJob, ChangeKeeps
<1> QED
  BY <1>1, <1>2, <1>3, <1>4, <1>5, <1>6, <1>7, <1>8 DEF Step

\* What a run has read stays what is there until another run writes: for any number
\* of runs and files.
THEOREM FilesInvHolds == Spec => []FilesInv
<1>1. Init => FilesInv
  BY IdleJob DEF Init, FilesInv
<1>2. FilesInv /\ [Next]_vars => FilesInv'
  <2>1. FilesInv /\ Next => FilesInv'
    BY StepKeeps DEF Next
  <2>2. FilesInv /\ UNCHANGED vars => FilesInv'
    BY ZenonT(40) DEF FilesInv, IsJob, IsFresh, vars
  <2> QED
    BY <2>1, <2>2
<1> QED
  BY <1>1, <1>2, PTL DEF Spec

\* Whatever overlaps, is killed or torn, a run during which no other run wrote
\* works from the files as they are on the disk.
THEOREM ReadCorrect == Spec => []ReadIsDir
BY FreshIsRead, FilesInvHolds, PTL
-----------------------------------------------------------------------------
(***************************************************************************)
(* What a replay does: a fold over the statements, one after the other.    *)
(***************************************************************************)
\* The sets of tables that statement v can turn the sets of S into.
After(v, S) == UNION {Applied(v, s) : s \in S}

\* What FoldLeft chooses: a function from the sets of positions that are done.
IsIter(g, stmts, D) ==
  g = [s \in SUBSET D |-> IF s = {} THEN {{}} ELSE After(stmts[Max(s)], g[s \ {Max(s)}])]

\* Replay is the value of such a function where all positions are done.
LEMMA ReplayIsIter ==
  ASSUME NEW stmts
  PROVE  Replay(stmts) = (CHOOSE g : IsIter(g, stmts, DOMAIN stmts))[DOMAIN stmts]
BY Zenon DEF Replay, FoldLeft, MapThenFoldSet, IsIter, After

\* There is such a function for every number of positions.
LEMMA IterExists ==
  ASSUME NEW stmts, NEW m \in Nat
  PROVE  \E g : IsIter(g, stmts, 1..m)
<1> DEFINE S == {n \in Nat : \E g : IsIter(g, stmts, 1..n)}
<1>1. 0 \in S
  <2>1. SUBSET (1..0) = {{}}
    OBVIOUS
  <2> DEFINE g == [s \in {{}} |-> {{}}]
  <2>2. g = [s \in {{}} |-> IF s = {} THEN {{}} ELSE After(stmts[Max(s)], g[s \ {Max(s)}])]
    OBVIOUS
  <2>3. IsIter(g, stmts, 1..0)
    BY <2>1, <2>2 DEF IsIter
  <2> QED
    BY <2>3
<1>2. ASSUME NEW n \in Nat, n \in S PROVE n + 1 \in S
  <2>1. PICK g : IsIter(g, stmts, 1..n)
    BY <1>2
  <2> DEFINE h == [s \in SUBSET (1..n + 1) |->
                     IF n + 1 \in s THEN After(stmts[n + 1], g[s \ {n + 1}]) ELSE g[s]]
  <2>2. ASSUME NEW s \in SUBSET (1..n + 1)
        PROVE  h[s] = IF s = {} THEN {{}} ELSE After(stmts[Max(s)], h[s \ {Max(s)}])
    <3>1. CASE n + 1 \in s
      <4>1. Max(s) = n + 1 /\ s # {}
        BY <3>1, MaxUpTo
      <4>2. s \ {n + 1} \in SUBSET (1..n + 1) /\ n + 1 \notin s \ {n + 1}
        OBVIOUS
      <4>3. h[s \ {n + 1}] = g[s \ {n + 1}]
        BY <4>2
      <4> QED
        BY <3>1, <4>1, <4>3
    <3>2. CASE n + 1 \notin s
      <4>1. s \in SUBSET (1..n)
        BY <3>2, MaxUpTo
      <4>2. g[s] = IF s = {} THEN {{}} ELSE After(stmts[Max(s)], g[s \ {Max(s)}])
        BY <2>1, <4>1, Zenon DEF IsIter
      <4>3. s \ {Max(s)} \in SUBSET (1..n + 1) /\ n + 1 \notin s \ {Max(s)}
        BY <3>2
      <4>4. h[s \ {Max(s)}] = g[s \ {Max(s)}]
        BY <4>3
      <4>5. h[s] = g[s]
        BY <3>2
      <4> QED
        BY <4>2, <4>4, <4>5
    <3> QED
      BY <3>1, <3>2
  <2>3. IsIter(h, stmts, 1..n + 1)
    <3>1. h = [s \in SUBSET (1..n + 1) |-> h[s]]
      OBVIOUS
    <3> HIDE DEF h
    <3> QED
      BY <2>2, <3>1, Zenon DEF IsIter
  <2> QED
    BY <2>3
<1>3. m \in S
  BY <1>1, <1>2, SetInduction
<1> QED
  BY <1>3

\* f[n] is what the first n statements make of the empty set.
IsRun(f, stmts) ==
  /\ f[0] = {{}}
  /\ \A n \in 1..Len(stmts) : f[n] = After(stmts[n], f[n - 1])

\* Replay goes through the statements in their order.
LEMMA RunExists ==
  ASSUME NEW T, NEW stmts \in Seq(T)
  PROVE  \E f : IsRun(f, stmts) /\ Replay(stmts) = f[Len(stmts)]
<1> DEFINE g == CHOOSE h : IsIter(h, stmts, DOMAIN stmts)
           f == [n \in 0..Len(stmts) |-> g[1..n]]
<1>1. DOMAIN stmts = 1..Len(stmts) /\ Len(stmts) \in Nat
  OBVIOUS
<1>2. IsIter(g, stmts, DOMAIN stmts)
  BY <1>1, IterExists, Zenon
<1>3. Replay(stmts) = g[DOMAIN stmts]
  BY ReplayIsIter
<1> HIDE DEF g
<1>4. \A s \in SUBSET (1..Len(stmts)) :
        g[s] = IF s = {} THEN {{}} ELSE After(stmts[Max(s)], g[s \ {Max(s)}])
  BY <1>1, <1>2, Zenon DEF IsIter
<1>5. f[0] = {{}}
  <2>1. f[0] = g[{}]
    BY <1>1
  <2> QED
    BY <1>4, <2>1
<1>6. ASSUME NEW n \in 1..Len(stmts) PROVE f[n] = After(stmts[n], f[n - 1])
  <2>0. n \in Nat /\ n - 1 \in Nat /\ (n - 1) + 1 = n
    BY <1>1
  <2>1. 1..n \in SUBSET (1..Len(stmts)) /\ 1..n # {} /\ n \in 1..n
    <3>1. Len(stmts) \in Nat /\ n <= Len(stmts) /\ 1 <= n
      BY <1>1, <2>0
    <3>2. n \in 1..n
      BY <2>0, <3>1
    <3>3. \A i \in 1..n : i \in 1..Len(stmts)
      BY <2>0, <3>1
    <3> QED
      BY <3>2, <3>3
  <2>2. Max(1..n) = n
    <3>1. 1..n \in SUBSET (1..(n - 1) + 1)
      BY <2>0
    <3> QED
      BY <2>0, <2>1, <3>1, MaxUpTo
  <2>3. (1..n) \ {n} = 1..n - 1
    OBVIOUS
  <2>4. f[n] = g[1..n] /\ f[n - 1] = g[1..n - 1]
    BY <1>1
  <2> QED
    BY <1>4, <2>1, <2>2, <2>3, <2>4
<1>7. f[Len(stmts)] = g[DOMAIN stmts]
  BY <1>1
<1> QED
  BY <1>3, <1>5, <1>6, <1>7 DEF IsRun

\* A statement is read in one way at most, and only its table comes or goes.
LEMMA AppliedOne ==
  ASSUME NEW v \in Statement, NEW s
  PROVE  /\ \E r : Applied(v, s) \subseteq {r}
         /\ \A r \in Applied(v, s) : r \subseteq s \cup {v.table}
         /\ v.table \in Tables
<1>1. v.stmt \in {"CREATE TABLE", "DROP TABLE"} /\ v.cut \in Cuts /\ v.table \in Tables
  BY DEF Statement
<1>2. CASE v.cut = "unreadable"
  BY <1>1, <1>2 DEF Applied
<1>3. CASE v.cut # "unreadable" /\ v.stmt = "CREATE TABLE"
  <2>1. Applied(v, s) = {s \cup {v.table}} \ {s}
    BY <1>3 DEF Applied
  <2> QED
    BY <1>1, <2>1
<1>4. CASE v.cut # "unreadable" /\ v.stmt = "DROP TABLE"
  <2>1. Applied(v, s) = {s \ {v.table}} \ {s}
    BY <1>4 DEF Applied
  <2> QED
    BY <1>1, <2>1
<1> QED
  BY <1>1, <1>2, <1>3, <1>4

\* One set of tables at most.
AtMostOne(S) == \E r : r \subseteq Tables /\ S \subseteq {r}

\* A replay fails, or ends in one set of tables.
LEMMA ReplayOne == ASSUME NEW stmts \in Seq(Statement) PROVE AtMostOne(Replay(stmts))
<1>1. PICK f : IsRun(f, stmts) /\ Replay(stmts) = f[Len(stmts)]
  BY RunExists
<1> DEFINE N == {n \in Nat : n <= Len(stmts) => AtMostOne(f[n])}
<1>2. 0 \in N
  BY <1>1 DEF IsRun, AtMostOne
<1>3. ASSUME NEW n \in Nat, n \in N, n + 1 <= Len(stmts) PROVE AtMostOne(f[n + 1])
  <2>1. n + 1 \in 1..Len(stmts) /\ (n + 1) - 1 = n /\ n <= Len(stmts)
    BY <1>3
  <2>2. PICK s : s \subseteq Tables /\ f[n] \subseteq {s}
    BY <1>3, <2>1 DEF AtMostOne
  <2>3. f[n + 1] = After(stmts[n + 1], f[n]) /\ stmts[n + 1] \in Statement
    BY <1>1, <2>1 DEF IsRun
  <2>4. f[n + 1] \subseteq Applied(stmts[n + 1], s)
    BY <2>2, <2>3 DEF After
  <2>5. /\ \E r : Applied(stmts[n + 1], s) \subseteq {r}
        /\ \A r \in Applied(stmts[n + 1], s) : r \subseteq Tables
    <3>1. /\ \E r : Applied(stmts[n + 1], s) \subseteq {r}
          /\ \A r \in Applied(stmts[n + 1], s) : r \subseteq s \cup {stmts[n + 1].table}
          /\ stmts[n + 1].table \in Tables
      BY <2>3, AppliedOne
    <3> QED
      BY <2>2, <3>1
  <2>6. PICK r : Applied(stmts[n + 1], s) \subseteq {r}
    BY <2>5
  <2>7. CASE r \in Applied(stmts[n + 1], s)
    BY <2>4, <2>5, <2>6, <2>7 DEF AtMostOne
  <2>8. CASE r \notin Applied(stmts[n + 1], s)
    <3>1. f[n + 1] = {}
      BY <2>4, <2>6, <2>8
    <3> QED
      BY <3>1 DEF AtMostOne
  <2> QED
    BY <2>7, <2>8
<1>4. ASSUME NEW n \in Nat, n \in N PROVE n + 1 \in N
  BY <1>3, <1>4
<1> HIDE DEF N
<1>5. Nat \subseteq N
  BY <1>2, <1>4, SetInduction
<1>6. Len(stmts) \in N
  BY <1>5
<1> QED
  BY <1>1, <1>6 DEF N
-----------------------------------------------------------------------------
(***************************************************************************)
(* The statements of several files, one file after the other.              *)
(***************************************************************************)
IsFlat(g, seqs, n) == g = [i \in 1..n |-> IF i = 1 THEN seqs[i] ELSE g[i - 1] \o seqs[i]]

\* What FlattenSeq chooses.
LEMMA FlattenIsFlat ==
  ASSUME NEW seqs, Len(seqs) # 0
  PROVE  FlattenSeq(seqs) = (CHOOSE g : IsFlat(g, seqs, Len(seqs)))[Len(seqs)]
BY Zenon DEF FlattenSeq, IsFlat

\* There is one.
LEMMA FlatExists ==
  ASSUME NEW seqs, NEW m \in Nat
  PROVE  \E g : IsFlat(g, seqs, m)
<1> DEFINE S == {n \in Nat : \E g : IsFlat(g, seqs, n)}
<1>1. 0 \in S
  <2> DEFINE g == [i \in 1..0 |-> << >>]
  <2>1. g = [i \in 1..0 |-> IF i = 1 THEN seqs[i] ELSE g[i - 1] \o seqs[i]]
    OBVIOUS
  <2> QED
    BY <2>1 DEF IsFlat
<1>2. ASSUME NEW n \in Nat, n \in S PROVE n + 1 \in S
  <2>1. PICK g : IsFlat(g, seqs, n)
    BY <1>2
  <2> DEFINE h == [i \in 1..n + 1 |->
                     IF i <= n THEN g[i]
                     ELSE IF i = 1 THEN seqs[i] ELSE g[i - 1] \o seqs[i]]
  <2>2. ASSUME NEW i \in 1..n + 1
        PROVE  h[i] = IF i = 1 THEN seqs[i] ELSE h[i - 1] \o seqs[i]
    <3>1. i # 1 => h[i - 1] = g[i - 1]
      OBVIOUS
    <3>2. CASE i <= n
      <4>1. g[i] = IF i = 1 THEN seqs[i] ELSE g[i - 1] \o seqs[i]
        <5>1. i \in 1..n
          BY <3>2
        <5> QED
          BY <2>1, <5>1, Zenon DEF IsFlat
      <4> QED
        BY <3>1, <3>2, <4>1
    <3>3. CASE ~(i <= n)
      BY <3>1, <3>3
    <3> QED
      BY <3>2, <3>3
  <2>3. h = [i \in 1..n + 1 |-> h[i]]
    OBVIOUS
  <2> HIDE DEF h
  <2>4. IsFlat(h, seqs, n + 1)
    BY <2>2, <2>3, Zenon DEF IsFlat
  <2> QED
    BY <2>4
<1>3. m \in S
  BY <1>1, <1>2, SetInduction
<1> QED
  BY <1>3

\* Flattening goes through the sequences in their order.
LEMMA FlattenRun ==
  ASSUME NEW T, NEW seqs \in Seq(Seq(T)), Len(seqs) # 0
  PROVE  \E g : /\ g[1] = seqs[1]
                /\ \A i \in 2..Len(seqs) : g[i] = g[i - 1] \o seqs[i]
                /\ FlattenSeq(seqs) = g[Len(seqs)]
<1>1. PICK g : g = CHOOSE x : IsFlat(x, seqs, Len(seqs))
  OBVIOUS
<1>2. IsFlat(g, seqs, Len(seqs)) /\ FlattenSeq(seqs) = g[Len(seqs)]
  <2>1. Len(seqs) \in Nat
    OBVIOUS
  <2> QED
    BY <1>1, <2>1, FlatExists, FlattenIsFlat, Zenon
<1>3. \A i \in 1..Len(seqs) : g[i] = IF i = 1 THEN seqs[i] ELSE g[i - 1] \o seqs[i]
  BY <1>2, Zenon DEF IsFlat
<1>4. 1 \in 1..Len(seqs) /\ \A i \in 2..Len(seqs) : i \in 1..Len(seqs) /\ i # 1
  OBVIOUS
<1> QED
  BY <1>2, <1>3, <1>4

\* Sequences of statements flatten to statements.
LEMMA FlattenType ==
  ASSUME NEW T, NEW seqs \in Seq(Seq(T))
  PROVE  FlattenSeq(seqs) \in Seq(T)
<1>1. CASE Len(seqs) = 0
  <2>1. FlattenSeq(seqs) = seqs /\ seqs = << >>
    BY <1>1 DEF FlattenSeq
  <2> QED
    BY <2>1
<1>2. CASE Len(seqs) # 0
  <2>1. PICK g : /\ g[1] = seqs[1]
                 /\ \A i \in 2..Len(seqs) : g[i] = g[i - 1] \o seqs[i]
                 /\ FlattenSeq(seqs) = g[Len(seqs)]
    BY <1>2, FlattenRun
  <2> DEFINE N == {n \in Nat : n + 1 <= Len(seqs) => g[n + 1] \in Seq(T)}
  <2>2. 0 \in N
    BY <1>2, <2>1
  <2>3. ASSUME NEW n \in Nat, n \in N, (n + 1) + 1 <= Len(seqs) PROVE g[(n + 1) + 1] \in Seq(T)
    <3>1. (n + 1) + 1 \in 2..Len(seqs) /\ ((n + 1) + 1) - 1 = n + 1 /\ n + 1 <= Len(seqs)
      BY <2>3
    <3>2. g[n + 1] \in Seq(T) /\ seqs[(n + 1) + 1] \in Seq(T)
      BY <2>3, <3>1
    <3>3. g[(n + 1) + 1] = g[n + 1] \o seqs[(n + 1) + 1]
      BY <2>1, <3>1
    <3> QED
      BY <3>2, <3>3
  <2>4. \A n \in Nat : n \in N => n + 1 \in N
    BY <2>3
  <2> HIDE DEF N
  <2>5. Nat \subseteq N
    BY <2>2, <2>4, SetInduction
  <2>6. Len(seqs) - 1 \in N /\ (Len(seqs) - 1) + 1 = Len(seqs)
    BY <1>2, <2>5
  <2> QED
    BY <2>1, <2>6 DEF N
<1> QED
  BY <1>1, <1>2

\* The statements of one file more come after the others.
LEMMA FlattenAppend ==
  ASSUME NEW T, NEW seqs \in Seq(Seq(T)), NEW x \in Seq(T)
  PROVE  FlattenSeq(Append(seqs, x)) = FlattenSeq(seqs) \o x
<1> DEFINE more == Append(seqs, x)
<1>1. /\ more \in Seq(Seq(T)) /\ Len(more) = Len(seqs) + 1 /\ Len(more) # 0
      /\ more[Len(seqs) + 1] = x /\ \A i \in 1..Len(seqs) : more[i] = seqs[i]
      /\ Len(seqs) \in Nat
  OBVIOUS
<1> HIDE DEF more
<1>2. PICK h : /\ h[1] = more[1]
               /\ \A i \in 2..Len(more) : h[i] = h[i - 1] \o more[i]
               /\ FlattenSeq(more) = h[Len(more)]
  BY <1>1, FlattenRun
<1>3. CASE Len(seqs) = 0
  <2>1. FlattenSeq(seqs) = << >>
    BY <1>3 DEF FlattenSeq
  <2>2. FlattenSeq(more) = x
    BY <1>1, <1>2, <1>3
  <2>3. << >> \o x = x
    OBVIOUS
  <2> QED
    BY <2>1, <2>2, <2>3 DEF more
<1>4. CASE Len(seqs) # 0
  <2>1. PICK g : /\ g[1] = seqs[1]
                 /\ \A i \in 2..Len(seqs) : g[i] = g[i - 1] \o seqs[i]
                 /\ FlattenSeq(seqs) = g[Len(seqs)]
    BY <1>4, FlattenRun
  <2> DEFINE N == {n \in Nat : n + 1 <= Len(seqs) => h[n + 1] = g[n + 1]}
  <2>2. 0 \in N
    BY <1>1, <1>2, <1>4, <2>1
  <2>3. ASSUME NEW n \in Nat, n \in N, (n + 1) + 1 <= Len(seqs)
        PROVE  h[(n + 1) + 1] = g[(n + 1) + 1]
    <3>1. /\ (n + 1) + 1 \in 2..Len(seqs) /\ (n + 1) + 1 \in 2..Len(more)
          /\ (n + 1) + 1 \in 1..Len(seqs)
          /\ ((n + 1) + 1) - 1 = n + 1 /\ n + 1 <= Len(seqs)
      BY <1>1, <2>3
    <3>2. h[n + 1] = g[n + 1]
      BY <2>3, <3>1
    <3>3. /\ g[(n + 1) + 1] = g[n + 1] \o seqs[(n + 1) + 1]
          /\ h[(n + 1) + 1] = h[n + 1] \o more[(n + 1) + 1]
      BY <1>2, <2>1, <3>1
    <3>4. more[(n + 1) + 1] = seqs[(n + 1) + 1]
      BY <1>1, <3>1
    <3> QED
      BY <3>2, <3>3, <3>4
  <2>4. \A n \in Nat : n \in N => n + 1 \in N
    BY <2>3
  <2> HIDE DEF N
  <2>5. Nat \subseteq N
    BY <2>2, <2>4, SetInduction
  <2>6. Len(seqs) - 1 \in N /\ (Len(seqs) - 1) + 1 = Len(seqs)
    BY <1>1, <1>4, <2>5
  <2>7. h[Len(seqs)] = g[Len(seqs)]
    BY <2>6 DEF N
  <2>8. h[Len(seqs) + 1] = h[Len(seqs)] \o x
    <3>1. Len(seqs) + 1 \in 2..Len(more) /\ (Len(seqs) + 1) - 1 = Len(seqs)
      BY <1>1, <1>4
    <3> QED
      BY <1>1, <1>2, <3>1
  <2> QED
    BY <1>1, <1>2, <2>1, <2>7, <2>8 DEF more
<1> QED
  BY <1>3, <1>4

\* What is read of the files in one order.
LEMMA StatementsType ==
  ASSUME NEW S, NEW q \in Seq(S), NEW read, \A f \in S : read[f] \in Seq(Statement)
  PROVE  /\ Statements(read, q) \in Seq(Statement)
         /\ [i \in DOMAIN q |-> read[q[i]]] \in Seq(Seq(Statement))
<1> DEFINE seqs == [i \in DOMAIN q |-> read[q[i]]]
<1>1. seqs \in Seq(Seq(Statement))
  <2>1. \A i \in 1..Len(q) : read[q[i]] \in Seq(Statement)
    OBVIOUS
  <2>2. seqs = [i \in 1..Len(q) |-> read[q[i]]] /\ Len(q) \in Nat
    OBVIOUS
  <2> QED
    BY <2>1, <2>2
<1> HIDE DEF seqs
<1>2. FlattenSeq(seqs) \in Seq(Statement)
  BY <1>1, FlattenType
<1> QED
  BY <1>1, <1>2 DEF Statements, seqs

\* One file more, when the others have not changed.
IsMore(d, read, q, g) ==
  /\ q \in Seq(DOMAIN read)
  /\ \A f \in DOMAIN read : read[f] \in Seq(Statement) /\ d[f] = read[f]
  /\ d[g] \in Seq(Statement)

\* Its statements come after those of the others.
LEMMA StatementsAppend ==
  ASSUME NEW d, NEW read, NEW q, NEW g, IsMore(d, read, q, g)
  PROVE  Statements(d, Append(q, g)) = Statements(read, q) \o d[g]
<1>0. /\ q \in Seq(DOMAIN read) /\ d[g] \in Seq(Statement)
      /\ \A f \in DOMAIN read : read[f] \in Seq(Statement) /\ d[f] = read[f]
  BY DEF IsMore
<1> DEFINE seqs == [i \in DOMAIN q |-> read[q[i]]]
           more == [i \in DOMAIN Append(q, g) |-> d[Append(q, g)[i]]]
<1>1. seqs \in Seq(Seq(Statement))
  BY <1>0, StatementsType
<1>2. more = Append(seqs, d[g])
  <2>1. /\ DOMAIN Append(q, g) = 1..Len(q) + 1 /\ Len(q) \in Nat
        /\ \A i \in 1..Len(q) : Append(q, g)[i] = q[i] /\ q[i] \in DOMAIN read
        /\ Append(q, g)[Len(q) + 1] = g
    BY <1>0
  <2>2. Len(seqs) = Len(q) /\ \A i \in 1..Len(q) : seqs[i] = read[q[i]]
    <3>1. DOMAIN q = 1..Len(q) /\ Len(q) \in Nat
      BY <1>0
    <3> QED
      BY <3>1
  <2>3. Append(seqs, d[g]) =
          [i \in 1..Len(q) + 1 |-> IF i = Len(q) + 1 THEN d[g] ELSE seqs[i]]
    <3> HIDE DEF seqs
    <3> QED
      BY <1>1, <2>2
  <2>4. more = [i \in 1..Len(q) + 1 |-> d[Append(q, g)[i]]]
    BY <2>1
  <2>5. \A i \in 1..Len(q) + 1 :
          d[Append(q, g)[i]] = IF i = Len(q) + 1 THEN d[g] ELSE seqs[i]
    BY <1>0, <2>1, <2>2
  <2> HIDE DEF seqs, more
  <2> QED
    BY <2>3, <2>4, <2>5
<1> HIDE DEF seqs, more
<1>3. FlattenSeq(more) = FlattenSeq(seqs) \o d[g]
  BY <1>0, <1>1, <1>2, FlattenAppend
<1> QED
  BY <1>3 DEF Statements, seqs, more
-----------------------------------------------------------------------------
(***************************************************************************)
(* The order of the files is one when no two have the same timestamp.      *)
(***************************************************************************)
\* An order of a set is a sequence of its elements, each of them once.
LEMMA OrderIs ==
  ASSUME NEW S, IsFiniteSet(S), NEW q \in SetToSeqs(S)
  PROVE  /\ q \in Seq(S) /\ Len(q) = Cardinality(S) /\ Cardinality(S) \in Nat
         /\ DOMAIN q = 1..Cardinality(S)
         /\ \A i, j \in DOMAIN q : q[i] = q[j] => i = j
         /\ \A x \in S : \E i \in DOMAIN q : q[i] = x
<1> DEFINE D == 1..Cardinality(S)
<1>1. q \in [D -> S] /\ \A i, j \in D : i # j => q[i] # q[j]
  BY DEF SetToSeqs
<1>2. Cardinality(S) \in Nat
  BY FS_CardinalityType
<1>3. q \in Seq(S) /\ Len(q) = Cardinality(S)
  BY <1>1, <1>2
<1>4. \A x \in S : \E i \in D : q[i] = x
  <2>1. IsFiniteSet(D) /\ Cardinality(D) = Cardinality(S)
    BY <1>2, FS_Interval
  <2>2. q \in Injection(D, S)
    BY <1>1 DEF Injection, IsInjective
  <2> HIDE DEF D
  <2>3. q \in Surjection(D, S)
    BY <2>1, <2>2, FS_Injection
  <2> QED
    BY <2>3 DEF Surjection
<1> QED
  BY <1>1, <1>2, <1>3, <1>4

\* An order of the files, by their timestamps.
LEMMA SortedIs ==
  ASSUME NEW S, NEW q
  PROVE  q \in Sorted(S, Timestamp) <=>
           /\ q \in SetToSeqs(S)
           /\ \A i, j \in DOMAIN q : i < j => q[i].timestamp <= q[j].timestamp
BY DEF Sorted, Timestamp

\* Where two orders agree so far, neither goes on with a later file.
LEMMA NextIsLeast ==
  ASSUME NEW S, IsFiniteSet(S), \A f \in S : f.timestamp \in Nat,
         NEW p \in Sorted(S, Timestamp), NEW q \in Sorted(S, Timestamp),
         NEW n \in Nat, n + 1 <= Cardinality(S), \A i \in 1..n : p[i] = q[i]
  PROVE  q[n + 1].timestamp <= p[n + 1].timestamp
<1>0. p \in SetToSeqs(S) /\ q \in SetToSeqs(S)
  BY SortedIs
<1>1. /\ Cardinality(S) \in Nat /\ DOMAIN p = 1..Cardinality(S) /\ p \in Seq(S)
      /\ \A i, j \in DOMAIN p : p[i] = p[j] => i = j
  BY <1>0, OrderIs
<1>2. /\ DOMAIN q = 1..Cardinality(S) /\ q \in Seq(S)
      /\ \A x \in S : \E i \in DOMAIN q : q[i] = x
  BY <1>0, OrderIs
<1>3. n + 1 \in DOMAIN p /\ p[n + 1] \in S
  BY <1>1
<1>4. PICK j \in DOMAIN q : q[j] = p[n + 1]
  BY <1>2, <1>3
<1>5. j \notin 1..n
  <2>1. SUFFICES ASSUME j \in 1..n PROVE FALSE
    OBVIOUS
  <2>2. p[j] = p[n + 1]
    BY <1>4, <2>1
  <2>3. j \in DOMAIN p
    BY <1>1, <1>2
  <2>4. j = n + 1
    BY <1>1, <1>3, <2>2, <2>3
  <2> QED
    BY <2>1, <2>4
<1>6. j \in Nat /\ n + 1 <= j
  <2>1. PICK c \in Nat : c = Cardinality(S)
    BY <1>1
  <2>2. j \in 1..c
    BY <1>2, <2>1
  <2> QED
    BY <1>5, <2>2
<1>7. CASE j = n + 1
  BY <1>3, <1>4, <1>7
<1>8. CASE n + 1 < j
  <2>1. n + 1 \in DOMAIN q
    BY <1>1, <1>2, <1>3
  <2> QED
    BY <1>4, <1>8, <2>1, SortedIs
<1> QED
  BY <1>6, <1>7, <1>8

\* No two files have the same version.
Distinct(S) == \A f, g \in S : f.timestamp = g.timestamp => f = g

\* Files of distinct versions have one order: LoadAll and goose agree on it.
LEMMA OneOrder ==
  ASSUME NEW S, IsFiniteSet(S), \A f \in S : f.timestamp \in Nat, Distinct(S),
         NEW p \in Sorted(S, Timestamp), NEW q \in Sorted(S, Timestamp)
  PROVE  p = q
<1>0. p \in SetToSeqs(S) /\ q \in SetToSeqs(S)
  BY SortedIs
<1>1. /\ Cardinality(S) \in Nat /\ DOMAIN p = 1..Cardinality(S) /\ p \in Seq(S)
      /\ Len(p) = Cardinality(S)
  BY <1>0, OrderIs
<1>2. DOMAIN q = 1..Cardinality(S) /\ q \in Seq(S) /\ Len(q) = Cardinality(S)
  BY <1>0, OrderIs
<1> DEFINE N == {n \in Nat : n <= Cardinality(S) => \A i \in 1..n : p[i] = q[i]}
<1>3. 0 \in N
  OBVIOUS
<1>4. ASSUME NEW n \in Nat, n \in N, n + 1 <= Cardinality(S) PROVE p[n + 1] = q[n + 1]
  <2>1. \A i \in 1..n : p[i] = q[i]
    BY <1>1, <1>4
  <2>2. q[n + 1].timestamp <= p[n + 1].timestamp
    BY <1>4, <2>1, NextIsLeast
  <2>3. \A i \in 1..n : q[i] = p[i]
    BY <2>1
  <2>4. p[n + 1].timestamp <= q[n + 1].timestamp
    BY <1>4, <2>3, NextIsLeast
  <2>5. p[n + 1] \in S /\ q[n + 1] \in S
    BY <1>1, <1>2, <1>4
  <2>6. p[n + 1].timestamp \in Nat /\ q[n + 1].timestamp \in Nat
    BY <2>5
  <2>7. p[n + 1].timestamp = q[n + 1].timestamp
    BY <2>2, <2>4, <2>6
  <2> QED
    BY <2>5, <2>7 DEF Distinct
<1>5. ASSUME NEW n \in Nat, n \in N PROVE n + 1 \in N
  <2>1. SUFFICES ASSUME n + 1 <= Cardinality(S), NEW i \in 1..n + 1 PROVE p[i] = q[i]
    OBVIOUS
  <2>2. n <= Cardinality(S)
    BY <1>1, <2>1
  <2>3. i \in 1..n \/ i = n + 1
    OBVIOUS
  <2>4. p[n + 1] = q[n + 1]
    BY <1>4, <1>5, <2>1
  <2> QED
    BY <1>5, <2>2, <2>3, <2>4
<1> HIDE DEF N
<1>6. Nat \subseteq N
  BY <1>3, <1>5, SetInduction
<1>7. Cardinality(S) \in N
  BY <1>1, <1>6
<1>8. \A i \in 1..Cardinality(S) : p[i] = q[i]
  BY <1>1, <1>7 DEF N
<1> QED
  BY <1>1, <1>2, <1>8

\* A file that is not earlier than the others may come last.
LEMMA AppendSorted ==
  ASSUME NEW S, IsFiniteSet(S), NEW q \in Sorted(S, Timestamp), NEW f, f \notin S,
         \A g \in S : g.timestamp <= f.timestamp
  PROVE  Append(q, f) \in Sorted(S \cup {f}, Timestamp)
<1> DEFINE c == Cardinality(S)
           a == Append(q, f)
<1>0. q \in SetToSeqs(S)
  BY SortedIs
<1>1. /\ q \in Seq(S) /\ Len(q) = c /\ c \in Nat /\ DOMAIN q = 1..c
      /\ \A i, j \in DOMAIN q : q[i] = q[j] => i = j
  BY <1>0, OrderIs
<1>2. Cardinality(S \cup {f}) = c + 1
  BY FS_AddElement
<1>3. /\ DOMAIN a = 1..c + 1 /\ a[c + 1] = f
      /\ \A i \in 1..c : a[i] = q[i] /\ q[i] \in S
      /\ a \in [1..c + 1 -> S \cup {f}]
  <2>1. q \in Seq(S \cup {f})
    BY <1>1
  <2>2. a \in Seq(S \cup {f}) /\ Len(a) = c + 1
    BY <1>1, <2>1
  <2>3. \A i \in 1..c : a[i] = q[i] /\ q[i] \in S
    BY <1>1
  <2>4. a[c + 1] = f
    BY <1>1
  <2> HIDE DEF a
  <2>5. DOMAIN a = 1..c + 1 /\ a \in [1..c + 1 -> S \cup {f}]
    BY <1>1, <2>2
  <2> QED
    BY <2>3, <2>4, <2>5
<1> HIDE DEF a
<1>4. ASSUME NEW i \in 1..c + 1, NEW j \in 1..c + 1, i # j PROVE a[i] # a[j]
  <2>1. CASE i = c + 1
    BY <1>1, <1>3, <1>4, <2>1
  <2>2. CASE j = c + 1
    BY <1>1, <1>3, <1>4, <2>2
  <2>3. CASE i # c + 1 /\ j # c + 1
    <3>1. i \in 1..c /\ j \in 1..c
      BY <1>1, <2>3
    <3> QED
      BY <1>1, <1>3, <1>4, <3>1
  <2> QED
    BY <2>1, <2>2, <2>3
<1>5. a \in SetToSeqs(S \cup {f})
  BY <1>2, <1>3, <1>4 DEF SetToSeqs
<1>6. ASSUME NEW i \in DOMAIN a, NEW j \in DOMAIN a, i < j
      PROVE  a[i].timestamp <= a[j].timestamp
  <2>1. i \in 1..c
    BY <1>1, <1>3, <1>6
  <2>2. CASE j = c + 1
    BY <1>3, <2>1, <2>2
  <2>3. CASE j # c + 1
    <3>1. j \in 1..c
      BY <1>1, <1>3, <2>3
    <3>2. q[i].timestamp <= q[j].timestamp
      BY <1>1, <1>6, <2>1, <3>1, SortedIs
    <3> QED
      BY <1>3, <2>1, <3>1, <3>2
  <2> QED
    BY <2>2, <2>3
<1> QED
  BY <1>5, <1>6, SortedIs DEF a
-----------------------------------------------------------------------------
(***************************************************************************)
(* A plan leads from what the history holds to what is desired.            *)
(***************************************************************************)
\* What the operations of ops make of h.
Done(h, ops) ==
  (h \cup {t \in Tables : \E v \in ops : v.stmt = "CREATE TABLE" /\ v.table = t})
    \ {t \in Tables : \E v \in ops : v.stmt = "DROP TABLE" /\ v.table = t}

\* An operation is a whole statement about a table.
LEMMA OperationsType ==
  ASSUME NEW h \in SUBSET Tables, NEW desired \in SUBSET Tables,
         NEW v \in Operations(h, desired)
  PROVE  v \in Statement /\ v.cut = "whole" /\ v.table \in Tables
<1>1. CASE \E t \in desired \ h : v = [stmt |-> "CREATE TABLE", table |-> t, cut |-> "whole"]
  <2>1. PICK t \in desired \ h : v = [stmt |-> "CREATE TABLE", table |-> t, cut |-> "whole"]
    BY <1>1
  <2>2. v \in Statement
    BY <2>1 DEF Statement, Cuts
  <2> QED
    BY <2>1, <2>2
<1>2. CASE \E t \in h \ desired : v = [stmt |-> "DROP TABLE", table |-> t, cut |-> "whole"]
  <2>1. PICK t \in h \ desired : v = [stmt |-> "DROP TABLE", table |-> t, cut |-> "whole"]
    BY <1>2
  <2>2. v \in Statement
    BY <2>1 DEF Statement, Cuts
  <2> QED
    BY <2>1, <2>2
<1> QED
  BY <1>1, <1>2, Zenon DEF Operations

\* It creates a table that is missing, or drops one that is not wanted.
LEMMA OperationsAre ==
  ASSUME NEW h, NEW desired, NEW v \in Operations(h, desired)
  PROVE  \/ v.stmt = "CREATE TABLE" /\ v.table \in desired \ h
         \/ v.stmt = "DROP TABLE" /\ v.table \in h \ desired
<1>1. CASE \E t \in desired \ h : v = [stmt |-> "CREATE TABLE", table |-> t, cut |-> "whole"]
  <2>1. PICK t \in desired \ h : v = [stmt |-> "CREATE TABLE", table |-> t, cut |-> "whole"]
    BY <1>1
  <2> QED
    BY <2>1
<1>2. CASE \E t \in h \ desired : v = [stmt |-> "DROP TABLE", table |-> t, cut |-> "whole"]
  <2>1. PICK t \in h \ desired : v = [stmt |-> "DROP TABLE", table |-> t, cut |-> "whole"]
    BY <1>2
  <2> QED
    BY <2>1
<1> QED
  BY <1>1, <1>2, Zenon DEF Operations

\* One operation of each kind on a table.
LEMMA SameOperation ==
  ASSUME NEW h, NEW desired, NEW v \in Operations(h, desired), NEW w \in Operations(h, desired),
         v.stmt = w.stmt, v.table = w.table
  PROVE  v = w
<1>1. ASSUME NEW x \in Operations(h, desired)
      PROVE  \E stmt, t : x = [stmt |-> stmt, table |-> t, cut |-> "whole"]
  BY <1>1, Zenon DEF Operations
<1>2. PICK stmt, t : v = [stmt |-> stmt, table |-> t, cut |-> "whole"]
  BY <1>1
<1>3. PICK stmt2, t2 : w = [stmt |-> stmt2, table |-> t2, cut |-> "whole"]
  BY <1>1
<1>4. stmt = stmt2 /\ t = t2
  BY <1>2, <1>3
<1> QED
  BY <1>2, <1>3, <1>4

\* There are finitely many tables, and two operations a table at most.
LEMMA OperationsFinite ==
  ASSUME NEW h \in SUBSET Tables, NEW desired \in SUBSET Tables
  PROVE  IsFiniteSet(Operations(h, desired))
<1> DEFINE create == {[stmt |-> "CREATE TABLE", table |-> t, cut |-> "whole"] : t \in desired \ h}
           drop   == {[stmt |-> "DROP TABLE", table |-> t, cut |-> "whole"] : t \in h \ desired}
<1>1. IsFiniteSet(desired \ h) /\ IsFiniteSet(h \ desired)
  <2>1. desired \ h \in SUBSET Tables /\ h \ desired \in SUBSET Tables
    OBVIOUS
  <2> QED
    BY <2>1, TablesAssumption, FS_Subset
<1>2. IsFiniteSet(create)
  <2> DEFINE f == [t \in desired \ h |-> [stmt |-> "CREATE TABLE", table |-> t, cut |-> "whole"]]
  <2>1. f \in Surjection(desired \ h, create)
    BY DEF Surjection
  <2> QED
    BY <1>1, <2>1, FS_Surjection
<1>3. IsFiniteSet(drop)
  <2> DEFINE f == [t \in h \ desired |-> [stmt |-> "DROP TABLE", table |-> t, cut |-> "whole"]]
  <2>1. f \in Surjection(h \ desired, drop)
    BY DEF Surjection
  <2> QED
    BY <1>1, <2>1, FS_Surjection
<1>4. Operations(h, desired) = create \cup drop
  BY Zenon DEF Operations
<1> QED
  BY <1>2, <1>3, <1>4, FS_Union

\* One operation more, whatever the order: it finds its table as it expects it.
LEMMA OneMore ==
  ASSUME NEW h \in SUBSET Tables, NEW desired \in SUBSET Tables,
         NEW ops \in SUBSET Operations(h, desired),
         NEW v \in Operations(h, desired), v \notin ops
  PROVE  Applied(v, Done(h, ops)) = {Done(h, ops \cup {v})}
<1> DEFINE new(w) == {t \in Tables : \E x \in w : x.stmt = "CREATE TABLE" /\ x.table = t}
           old(w) == {t \in Tables : \E x \in w : x.stmt = "DROP TABLE" /\ x.table = t}
<1>0. \A w \in SUBSET Operations(h, desired) :
        /\ new(w) \subseteq desired \ h
        /\ old(w) \subseteq h \ desired
        /\ Done(h, w) = (h \cup new(w)) \ old(w)
  <2>1. SUFFICES ASSUME NEW w \in SUBSET Operations(h, desired)
                 PROVE  new(w) \subseteq desired \ h /\ old(w) \subseteq h \ desired
    BY Zenon DEF Done
  <2>2. ASSUME NEW x \in w
        PROVE  \/ x.stmt = "CREATE TABLE" /\ x.table \in desired \ h
               \/ x.stmt = "DROP TABLE" /\ x.table \in h \ desired
    BY OperationsAre
  <2> QED
    BY <2>2
<1>1. /\ v.cut = "whole" /\ v.table \in Tables
      /\ \/ v.stmt = "CREATE TABLE" /\ v.table \in desired \ h
         \/ v.stmt = "DROP TABLE" /\ v.table \in h \ desired
  <2>1. v.cut = "whole" /\ v.table \in Tables
    BY OperationsType, Zenon
  <2>2. \/ v.stmt = "CREATE TABLE" /\ v.table \in desired \ h
        \/ v.stmt = "DROP TABLE" /\ v.table \in h \ desired
    BY OperationsAre, Zenon
  <2> QED
    BY <2>1, <2>2
<1>2. CASE v.stmt = "CREATE TABLE"
  <2>1. v.table \in desired \ h
    BY <1>1, <1>2
  <2>2. v.table \notin new(ops)
    <3>1. SUFFICES ASSUME NEW x \in ops, x.stmt = "CREATE TABLE", x.table = v.table PROVE FALSE
      OBVIOUS
    <3>2. x = v
      <4>1. x \in Operations(h, desired)
        OBVIOUS
      <4> QED
        BY <1>2, <3>1, <4>1, SameOperation
    <3> QED
      BY <3>2
  <2>3. new(ops \cup {v}) = new(ops) \cup {v.table} /\ old(ops \cup {v}) = old(ops)
    BY <1>1, <1>2
  <2> HIDE DEF new, old
  <2>4. Applied(v, Done(h, ops)) = {Done(h, ops) \cup {v.table}} \ {Done(h, ops)}
    BY <1>1, <1>2 DEF Applied
  <2>5. /\ Done(h, ops) = (h \cup new(ops)) \ old(ops) /\ old(ops) \subseteq h \ desired
        /\ Done(h, ops \cup {v}) = (h \cup new(ops \cup {v})) \ old(ops \cup {v})
    BY <1>0
  <2>6. v.table \notin Done(h, ops) /\ Done(h, ops \cup {v}) = Done(h, ops) \cup {v.table}
    BY <2>1, <2>2, <2>3, <2>5
  <2> QED
    BY <2>4, <2>6
<1>3. CASE v.stmt = "DROP TABLE"
  <2>1. v.table \in h \ desired
    BY <1>1, <1>3
  <2>2. v.table \notin old(ops)
    <3>1. SUFFICES ASSUME NEW x \in ops, x.stmt = "DROP TABLE", x.table = v.table PROVE FALSE
      OBVIOUS
    <3>2. x = v
      <4>1. x \in Operations(h, desired)
        OBVIOUS
      <4> QED
        BY <1>3, <3>1, <4>1, SameOperation
    <3> QED
      BY <3>2
  <2>3. old(ops \cup {v}) = old(ops) \cup {v.table} /\ new(ops \cup {v}) = new(ops)
    BY <1>1, <1>3
  <2> HIDE DEF new, old
  <2>4. Applied(v, Done(h, ops)) = {Done(h, ops) \ {v.table}} \ {Done(h, ops)}
    BY <1>1, <1>3 DEF Applied
  <2>5. /\ Done(h, ops) = (h \cup new(ops)) \ old(ops)
        /\ Done(h, ops \cup {v}) = (h \cup new(ops \cup {v})) \ old(ops \cup {v})
    BY <1>0
  <2>6. v.table \in Done(h, ops) /\ Done(h, ops \cup {v}) = Done(h, ops) \ {v.table}
    BY <2>1, <2>2, <2>3, <2>5
  <2> QED
    BY <2>4, <2>6
<1> QED
  BY <1>1, <1>2, <1>3

\* All operations, and none.
LEMMA AllDone ==
  ASSUME NEW h \in SUBSET Tables, NEW desired \in SUBSET Tables
  PROVE  Done(h, {}) = h /\ Done(h, Operations(h, desired)) = desired
<1> DEFINE ops == Operations(h, desired)
<1>1. ASSUME NEW t \in desired \ h
      PROVE  \E v \in ops : v.stmt = "CREATE TABLE" /\ v.table = t
  <2> DEFINE v == [stmt |-> "CREATE TABLE", table |-> t, cut |-> "whole"]
  <2>1. v \in ops
    BY Zenon DEF Operations
  <2>2. v.stmt = "CREATE TABLE" /\ v.table = t
    OBVIOUS
  <2> QED
    BY <2>1, <2>2
<1>2. ASSUME NEW t \in h \ desired
      PROVE  \E v \in ops : v.stmt = "DROP TABLE" /\ v.table = t
  <2> DEFINE v == [stmt |-> "DROP TABLE", table |-> t, cut |-> "whole"]
  <2>1. v \in ops
    BY Zenon DEF Operations
  <2>2. v.stmt = "DROP TABLE" /\ v.table = t
    OBVIOUS
  <2> QED
    BY <2>1, <2>2
<1>3. ASSUME NEW v \in ops
      PROVE  \/ v.stmt = "CREATE TABLE" /\ v.table \in desired \ h
             \/ v.stmt = "DROP TABLE" /\ v.table \in h \ desired
  BY OperationsAre, Zenon
<1> HIDE DEF ops
<1>4. \A t \in Tables :
        (\E v \in ops : v.stmt = "CREATE TABLE" /\ v.table = t) <=> t \in desired \ h
  BY <1>1, <1>3
<1>5. \A t \in Tables :
        (\E v \in ops : v.stmt = "DROP TABLE" /\ v.table = t) <=> t \in h \ desired
  BY <1>2, <1>3
<1>6. Done(h, ops) = desired
  BY <1>4, <1>5 DEF Done
<1>7. Done(h, {}) = h
  BY DEF Done
<1> QED
  BY <1>6, <1>7 DEF ops

\* A plan for what the statements a make of an empty database.
IsPlanAfter(a, h, desired, up) ==
  /\ a \in Seq(Statement) /\ Replay(a) = {h} /\ h \in SUBSET Tables
  /\ desired \in SUBSET Tables /\ up \in Plans(h, desired)

\* The history, and then the plan: what was desired, and nothing else.
LEMMA PlanLeads ==
  ASSUME NEW a, NEW h, NEW desired, NEW up, IsPlanAfter(a, h, desired, up)
  PROVE  up \in Seq(Statement) /\ Replay(a \o up) = {desired}
<1>0. /\ a \in Seq(Statement) /\ Replay(a) = {h} /\ h \in SUBSET Tables
      /\ desired \in SUBSET Tables /\ up \in Plans(h, desired)
  BY DEF IsPlanAfter
<1> DEFINE ops == Operations(h, desired)
<1>1. IsFiniteSet(ops) /\ up \in SetToSeqs(ops)
  BY <1>0, OperationsFinite DEF Plans, Sorted
<1>2. /\ up \in Seq(ops) /\ DOMAIN up = 1..Len(up) /\ Len(up) \in Nat
      /\ \A i, j \in DOMAIN up : up[i] = up[j] => i = j
      /\ \A v \in ops : \E i \in DOMAIN up : up[i] = v
  <2> HIDE DEF ops
  <2> QED
    BY <1>1, OrderIs
<1>3. ops \subseteq Statement
  BY <1>0, OperationsType
<1> HIDE DEF ops
<1>4. up \in Seq(Statement)
  BY <1>2, <1>3
<1> DEFINE b == a \o up
<1>5. /\ b \in Seq(Statement) /\ Len(b) = Len(a) + Len(up) /\ Len(a) \in Nat
      /\ \A i \in 1..Len(a) : b[i] = a[i]
      /\ \A i \in 1..Len(up) : b[Len(a) + i] = up[i]
  BY <1>0, <1>2, <1>4
<1> HIDE DEF b
<1>6. PICK g : IsRun(g, a) /\ Replay(a) = g[Len(a)]
  BY <1>0, RunExists
<1>7. PICK f : IsRun(f, b) /\ Replay(b) = f[Len(b)]
  BY <1>5, RunExists
<1>8. f[Len(a)] = {h}
  <2> DEFINE N == {n \in Nat : n <= Len(a) => f[n] = g[n]}
  <2>1. 0 \in N
    BY <1>6, <1>7 DEF IsRun
  <2>2. ASSUME NEW n \in Nat, n \in N, n + 1 <= Len(a) PROVE f[n + 1] = g[n + 1]
    <3>1. n + 1 \in 1..Len(a) /\ n + 1 \in 1..Len(b) /\ (n + 1) - 1 = n /\ n <= Len(a)
      BY <1>2, <1>5, <2>2
    <3>2. f[n + 1] = After(b[n + 1], f[n]) /\ g[n + 1] = After(a[n + 1], g[n])
      BY <1>6, <1>7, <3>1 DEF IsRun
    <3> QED
      BY <1>5, <2>2, <3>1, <3>2
  <2>3. \A n \in Nat : n \in N => n + 1 \in N
    BY <2>2
  <2> HIDE DEF N
  <2>4. Nat \subseteq N
    BY <2>1, <2>3, SetInduction
  <2>5. Len(a) \in N
    BY <1>5, <2>4
  <2>6. f[Len(a)] = Replay(a)
    BY <1>5, <1>6, <2>5 DEF N
  <2> QED
    BY <1>0, <2>6
<1> DEFINE first(n) == {up[i] : i \in 1..n}
           Reached(n) == f[Len(a) + n] = {Done(h, first(n))}
           M == {n \in Nat : n <= Len(up) => Reached(n)}
<1>9. 0 \in M
  <2>1. first(0) = {} /\ Len(a) + 0 = Len(a)
    BY <1>5
  <2>2. Done(h, {}) = h
    BY <1>0, AllDone
  <2> QED
    BY <1>8, <2>1, <2>2
<1>10. ASSUME NEW n \in Nat, n \in M, n + 1 <= Len(up)
       PROVE  Reached(n + 1)
  <2>1. /\ Len(a) + (n + 1) \in 1..Len(b) /\ (Len(a) + (n + 1)) - 1 = Len(a) + n
        /\ n + 1 \in 1..Len(up) /\ n <= Len(up)
    BY <1>2, <1>5, <1>10
  <2>2. f[Len(a) + (n + 1)] = After(up[n + 1], f[Len(a) + n])
    <3>1. f[Len(a) + (n + 1)] = After(b[Len(a) + (n + 1)], f[(Len(a) + (n + 1)) - 1])
      BY <1>7, <2>1 DEF IsRun
    <3> QED
      BY <1>5, <2>1, <3>1
  <2>3. f[Len(a) + n] = {Done(h, first(n))}
    BY <1>10, <2>1
  <2>4. up[n + 1] \in ops /\ first(n) \in SUBSET ops
    <3>1. \A i \in 1..n : i \in 1..Len(up)
      BY <1>2, <2>1
    <3> QED
      BY <1>2, <2>1, <3>1
  <2>5. up[n + 1] \notin first(n)
    <3>1. \A i \in 1..n : i \in DOMAIN up /\ i # n + 1
      BY <1>2, <2>1
    <3>2. n + 1 \in DOMAIN up
      BY <1>2, <2>1
    <3> QED
      BY <1>2, <3>1, <3>2
  <2>6. first(n + 1) = first(n) \cup {up[n + 1]}
    <3>1. \A i : i \in 1..n + 1 <=> i \in 1..n \/ i = n + 1
      OBVIOUS
    <3> QED
      BY <3>1
  <2> HIDE DEF first
  <2>7. Applied(up[n + 1], Done(h, first(n))) = {Done(h, first(n) \cup {up[n + 1]})}
    BY <1>0, <2>4, <2>5, OneMore DEF ops
  <2>8. After(up[n + 1], {Done(h, first(n))}) = Applied(up[n + 1], Done(h, first(n)))
    BY DEF After
  <2> QED
    BY <2>2, <2>3, <2>6, <2>7, <2>8
<1> HIDE DEF first, Reached
<1>11. ASSUME NEW n \in Nat, n \in M PROVE n + 1 \in M
  BY <1>10, <1>11
<1> HIDE DEF M
<1>12. Nat \subseteq M
  BY <1>9, <1>11, SetInduction
<1>13. Len(up) \in M
  BY <1>2, <1>12
<1>14. f[Len(b)] = {Done(h, first(Len(up)))}
  BY <1>2, <1>5, <1>13 DEF M, Reached
<1>15. first(Len(up)) = ops
  <2>1. \A i \in 1..Len(up) : up[i] \in ops
    BY <1>2
  <2>2. \A v \in ops : \E i \in 1..Len(up) : up[i] = v
    BY <1>2
  <2> QED
    BY <2>1, <2>2 DEF first
<1>16. Done(h, ops) = desired
  BY <1>0, AllDone DEF ops
<1> QED
  BY <1>4, <1>7, <1>14, <1>15, <1>16 DEF b
-----------------------------------------------------------------------------
(***************************************************************************)
(* What a run holds beside the files it has read: once it is past the gate, *)
(* a plan for the history those files give.  While it writes, and no other *)
(* run did, its file is the only one that it has not read.                 *)
(***************************************************************************)
IsPlanOf(read, q, h, desired, up) ==
  /\ q \in Sorted(DOMAIN read, Timestamp)
  /\ h \in Replay(Statements(read, q))
  /\ up \in Plans(h, desired)

IsPlan(read, desired, up) == \E q, h : IsPlanOf(read, q, h, desired, up)

IsRead(read) ==
  IsFiniteSet(DOMAIN read) /\ \A f \in DOMAIN read : read[f] \in Seq(Statement)

IsFiles(d) ==
  /\ DOMAIN d \subseteq Filename /\ IsFiniteSet(DOMAIN d)
  /\ \A f \in DOMAIN d : d[f] \in Seq(Statement)

IsOthers(j) ==
  /\ DOMAIN dir = DOMAIN j.read \cup {j.file}
  /\ \A f \in DOMAIN j.read \ {j.file} : j.read[f] = dir[f]

JobInv(j) ==
  /\ j.pc \in PCs /\ j.desired \subseteq Tables /\ j.up \in Seq(Statement)
  /\ j.pc # "idle" => j.name \in Names
  /\ j.pc \in {"open", "write"} => j.file \in Filename
  /\ j.todo \subseteq DOMAIN dir /\ DOMAIN j.read \subseteq DOMAIN dir
  /\ \A f \in DOMAIN j.read : j.read[f] \in Seq(Statement)
  /\ j.pc \in {"name", "open", "write"} => j.todo = {} /\ IsPlan(j.read, j.desired, j.up)
  /\ j.pc = "write" /\ ~j.stale => IsOthers(j)

AnswerInv ==
  /\ now \in 0..MaxTime /\ faults \in Nat
  /\ IsFiles(dir)
  /\ \A r \in Runs : JobInv(job[r])

\* The invariant has the types in it.
LEMMA AnswerIsTyped == AnswerInv => TypeOK
BY DEF AnswerInv, IsFiles, JobInv, TypeOK

\* A file more, or another text in it.
IsWritten(e, d, f, x) ==
  IsFiles(d) /\ f \in Filename /\ x \in Seq(Statement) /\ e = With(d, f, x)

\* The file is there, and the other files stay.
IsChanged(e, d, f, x) ==
  /\ IsFiles(e) /\ DOMAIN e = DOMAIN d \cup {f} /\ e[f] = x
  /\ \A g \in DOMAIN d \ {f} : e[g] = d[g]

\* Writing a file leaves a directory of files, with one text changed.
LEMMA WithIsFiles ==
  ASSUME NEW e, NEW d, NEW f, NEW x, IsWritten(e, d, f, x)
  PROVE  IsChanged(e, d, f, x)
<1>1. /\ DOMAIN e = DOMAIN d \cup {f}
      /\ \A g \in DOMAIN e : e[g] = IF g = f THEN x ELSE d[g]
  BY DEF With, IsWritten
<1>2. IsFiniteSet(DOMAIN d \cup {f})
  BY FS_AddElement DEF IsFiles, IsWritten
<1>3. IsFiles(e)
  BY <1>1, <1>2 DEF IsFiles, IsWritten
<1> QED
  BY <1>1, <1>3 DEF IsChanged

\* What a full disk leaves of statements is statements.
LEMMA TornType == ASSUME NEW up \in Seq(Statement), NEW x \in Torn(up) PROVE x \in Seq(Statement)
<1> DEFINE cutOff(n, c) == Append(SubSeq(up, 1, n - 1), [up[n] EXCEPT !.cut = c])
           Short == {SubSeq(up, 1, n) : n \in 0..Len(up)}
           Cut   == {cutOff(n, c) : n \in DOMAIN up, c \in Cuts \ {"whole"}}
<1>0. Len(up) \in Nat /\ DOMAIN up = 1..Len(up)
  OBVIOUS
<1>1. ASSUME NEW n \in 0..Len(up) PROVE SubSeq(up, 1, n) \in Seq(Statement)
  BY <1>0
<1>2. ASSUME NEW n \in DOMAIN up, NEW c \in Cuts PROVE cutOff(n, c) \in Seq(Statement)
  <2>1. up[n] \in Statement /\ n - 1 \in 0..Len(up)
    BY <1>0
  <2>2. [up[n] EXCEPT !.cut = c] \in Statement
    BY <2>1 DEF Statement
  <2>3. SubSeq(up, 1, n - 1) \in Seq(Statement)
    BY <1>1, <2>1
  <2> QED
    BY <2>2, <2>3
<1>3. x \in Short \/ x \in Cut
  <2>1. Torn(up) = Short \cup Cut
    BY DEF Torn
  <2> HIDE DEF Short, Cut
  <2> QED
    BY <2>1
<1> HIDE DEF cutOff
<1>4. CASE x \in Short
  <2>1. PICK n \in 0..Len(up) : x = SubSeq(up, 1, n)
    BY <1>4
  <2> QED
    BY <1>1, <2>1
<1>5. CASE x \in Cut
  <2>1. PICK n \in DOMAIN up, c \in Cuts : x = cutOff(n, c)
    BY <1>5
  <2> QED
    BY <1>2, <2>1
<1> HIDE DEF Short, Cut
<1> QED
  BY <1>3, <1>4, <1>5

\* A run moves on and the files stay.
LEMMA GotoJob ==
  ASSUME FilesInv, AnswerInv, NEW r \in Runs, NEW j, JobInv(j), Goto(r, j), UNCHANGED dir
  PROVE  \A q \in Runs : JobInv(job[q])'
<1>1. job' = [q \in Runs |-> IF q = r THEN j ELSE job[q]]
  BY DEF Goto, FilesInv
<1>2. ASSUME NEW q \in Runs PROVE JobInv(job[q])'
  <2>1. CASE q = r
    BY <1>1, <2>1 DEF JobInv, IsOthers
  <2>2. CASE q # r
    BY <1>1, <2>2 DEF AnswerInv, JobInv, IsOthers
  <2> QED
    BY <2>1, <2>2
<1> QED
  BY <1>2

\* A run moves on, and a file changes: the other runs have read what they read.
LEMMA ChangeJob ==
  ASSUME FilesInv, AnswerInv, NEW r \in Runs, NEW j, JobInv(j)', GotoAndChange(r, j),
         DOMAIN dir \subseteq DOMAIN dir'
  PROVE  \A q \in Runs : JobInv(job[q])'
<1> DEFINE Early == {"idle", "list"}
<1>1. job' = [q \in Runs |->
                CASE q = r -> j
                  [] q # r /\ job[q].pc \in Early -> job[q]
                  [] q # r /\ job[q].pc \notin Early -> [job[q] EXCEPT !.stale = TRUE]]
  BY DEF GotoAndChange
<1>2. ASSUME NEW q \in Runs PROVE JobInv(job[q])'
  <2>0. JobInv(job[q]) /\ IsJob(job[q])
    BY DEF AnswerInv, FilesInv
  <2>1. CASE q = r
    BY <1>1, <2>1 DEF JobInv, IsOthers
  <2>2. CASE q # r /\ job[q].pc \in Early
    <3>1. job'[q] = job[q] /\ job[q].pc # "write"
      BY <1>1, <2>2
    <3> QED
      BY <2>0, <3>1 DEF JobInv
  <2>3. CASE q # r /\ job[q].pc \notin Early
    <3>1. job'[q] = [job[q] EXCEPT !.stale = TRUE]
      BY <1>1, <2>3
    <3>2. /\ job'[q].stale = TRUE /\ job'[q].pc = job[q].pc /\ job'[q].name = job[q].name
          /\ job'[q].desired = job[q].desired /\ job'[q].todo = job[q].todo
          /\ job'[q].read = job[q].read /\ job'[q].up = job[q].up
          /\ job'[q].file = job[q].file
      BY <2>0, <3>1 DEF IsJob, Fields
    <3> QED
      BY <2>0, <3>2 DEF JobInv
  <2> QED
    BY <2>1, <2>2, <2>3
<1> QED
  BY <1>2

\* A run that is over holds no plan.
LEMMA IdleIsJob == JobInv(Idle) /\ JobInv(Idle)'
<1>1. DOMAIN << >> = {} /\ << >> \in Seq(Statement)
  OBVIOUS
<1>2. JobInv(Idle)
  BY <1>1 DEF JobInv, Idle, PCs
<1>3. JobInv(Idle)'
  BY <1>1 DEF JobInv, Idle, PCs
<1> QED
  BY <1>2, <1>3
-----------------------------------------------------------------------------
\* A plan is statements, whatever the order of the files, and leads from what
\* they give to what was desired.
LEMMA PlanType ==
  ASSUME NEW read, IsRead(read), NEW desired \in SUBSET Tables,
         NEW q, NEW h, NEW up, IsPlanOf(read, q, h, desired, up)
  PROVE  up \in Seq(Statement) /\ Replay(Statements(read, q) \o up) = {desired}
<1> DEFINE a == Statements(read, q)
<1>0. /\ q \in Sorted(DOMAIN read, Timestamp) /\ h \in Replay(a)
      /\ up \in Plans(h, desired)
  BY DEF IsPlanOf
<1>1. q \in Seq(DOMAIN read)
  <2>1. q \in SetToSeqs(DOMAIN read) /\ IsFiniteSet(DOMAIN read)
    BY <1>0, SortedIs DEF IsRead
  <2> QED
    BY <2>1, OrderIs
<1>2. a \in Seq(Statement)
  BY <1>1, StatementsType DEF IsRead
<1> HIDE DEF a
<1>3. h \in SUBSET Tables /\ Replay(a) = {h}
  <2>1. PICK r : r \subseteq Tables /\ Replay(a) \subseteq {r}
    BY <1>2, ReplayOne DEF AtMostOne
  <2> QED
    BY <1>0, <2>1
<1>4. IsPlanAfter(a, h, desired, up)
  BY <1>0, <1>2, <1>3 DEF IsPlanAfter
<1>5. up \in Seq(Statement) /\ Replay(a \o up) = {desired}
  BY <1>4, PlanLeads
<1> QED
  BY <1>5 DEF a

\* Every step of every run keeps it: a plan stays one for what the run has read,
\* and a file is put next to what it was planned for.
LEMMA AnswerStep ==
  ASSUME FilesInv, AnswerInv, NEW r \in Runs, Step(r)
  PROVE  AnswerInv'
<1> DEFINE j == job[r]
<1>0. IsJob(j) /\ IsFresh(j) /\ JobInv(j) /\ IsFiles(dir) /\ now \in 0..MaxTime /\ faults \in Nat
  BY DEF FilesInv, AnswerInv
<1>1. ASSUME NEW name \in Names, NEW desired \in Desired, Start(r, name, desired) PROVE AnswerInv'
  <2> DEFINE new == [Idle EXCEPT !.pc = "list", !.name = name, !.desired = desired]
  <2>1. /\ new.pc = "list" /\ new.name = name /\ new.desired = desired /\ new.todo = {}
        /\ new.read = << >> /\ new.up = << >>
    BY DEF Idle
  <2>2. DOMAIN << >> = {} /\ << >> \in Seq(Statement) /\ desired \subseteq Tables
    BY DesiredAssumption
  <2> HIDE DEF new
  <2>3. JobInv(new)
    BY <2>1, <2>2 DEF JobInv, PCs
  <2>4. Goto(r, new) /\ UNCHANGED <<now, faults, dir>>
    BY <1>1 DEF Start, new
  <2>5. \A q \in Runs : JobInv(job[q])'
    BY <2>3, <2>4, GotoJob
  <2> QED
    BY <1>0, <2>4, <2>5 DEF AnswerInv
<1>2. CASE ReadDir(r)
  <2> DEFINE new == [j EXCEPT !.pc = "load", !.todo = DOMAIN dir]
  <2>1. /\ new.pc = "load" /\ new.name = j.name /\ new.desired = j.desired
        /\ new.todo = DOMAIN dir /\ new.read = j.read /\ new.up = j.up
    BY <1>0 DEF IsJob, Fields
  <2>2. j.pc = "list"
    BY <1>2 DEF ReadDir, At
  <2> HIDE DEF new
  <2>3. JobInv(new)
    BY <1>0, <2>1, <2>2 DEF JobInv, PCs
  <2>4. Goto(r, new) /\ UNCHANGED <<now, faults, dir>>
    BY <1>2 DEF ReadDir, Local, new
  <2>5. \A q \in Runs : JobInv(job[q])'
    BY <2>3, <2>4, GotoJob
  <2> QED
    BY <1>0, <2>4, <2>5 DEF AnswerInv
<1>3. CASE ReadFile(r)
  <2>1. PICK f \in j.todo : Goto(r, [j EXCEPT !.todo = @ \ {f}, !.read = With(@, f, dir[f])])
    BY <1>3 DEF ReadFile, Earliest
  <2> DEFINE new == [j EXCEPT !.todo = @ \ {f}, !.read = With(@, f, dir[f])]
  <2>2. /\ new.pc = j.pc /\ new.name = j.name /\ new.desired = j.desired
        /\ new.todo = j.todo \ {f} /\ new.up = j.up /\ new.read = With(j.read, f, dir[f])
    BY <1>0 DEF IsJob, Fields
  <2>3. /\ DOMAIN new.read = {f} \cup DOMAIN j.read
        /\ \A g \in DOMAIN new.read : new.read[g] = IF g = f THEN dir[f] ELSE j.read[g]
    BY <2>2 DEF With
  <2>4. j.pc = "load"
    BY <1>3 DEF ReadFile, At
  <2>5. f \in DOMAIN dir /\ dir[f] \in Seq(Statement)
    BY <1>0, <2>1 DEF JobInv, IsFiles
  <2> HIDE DEF new
  <2>6. JobInv(new)
    BY <1>0, <2>2, <2>3, <2>4, <2>5 DEF JobInv
  <2>7. Goto(r, new) /\ UNCHANGED <<now, faults, dir>>
    BY <1>3, <2>1 DEF ReadFile, Local, new
  <2>8. \A q \in Runs : JobInv(job[q])'
    BY <2>6, <2>7, GotoJob
  <2> QED
    BY <1>0, <2>7, <2>8 DEF AnswerInv
<1>4. CASE ReplayError(r) \/ NoChanges(r) \/ Refuse(r) \/ Kill(r)
  <2>1. Goto(r, Idle) /\ UNCHANGED <<now, faults, dir>>
    BY <1>4 DEF ReplayError, NoChanges, Refuse, Kill, Local
  <2>2. \A q \in Runs : JobInv(job[q])'
    BY <2>1, IdleIsJob, GotoJob
  <2> QED
    BY <1>0, <2>1, <2>2 DEF AnswerInv
<1>5. CASE Proceed(r)
  <2>1. PICK h \in Histories(r) :
          \E up \in Plans(h, j.desired) : Goto(r, [j EXCEPT !.pc = "name", !.up = up])
    BY <1>5, Zenon DEF Proceed
  <2>2. PICK up \in Plans(h, j.desired) : Goto(r, [j EXCEPT !.pc = "name", !.up = up])
    BY <2>1
  <2>3. PICK q \in Sorted(DOMAIN j.read, Timestamp) : h \in Replay(Statements(j.read, q))
    BY <2>1, Zenon DEF Histories, LoadOrders
  <2> DEFINE new == [j EXCEPT !.pc = "name", !.up = up]
  <2>4. /\ new.pc = "name" /\ new.name = j.name /\ new.desired = j.desired
        /\ new.todo = j.todo /\ new.read = j.read /\ new.up = up
    BY <1>0 DEF IsJob, Fields
  <2>5. j.pc = "load" /\ j.todo = {}
    BY <1>5 DEF Proceed, Loaded, At
  <2>6. up \in Seq(Statement)
    <3>1. IsFiniteSet(DOMAIN j.read) /\ j.desired \in SUBSET Tables
      BY <1>0, FS_Subset DEF JobInv, IsFiles
    <3>2. IsRead(j.read)
      BY <1>0, <3>1 DEF JobInv, IsRead
    <3>3. IsPlanOf(j.read, q, h, j.desired, up)
      BY <2>2, <2>3 DEF IsPlanOf
    <3> QED
      BY <3>1, <3>2, <3>3, PlanType
  <2>7. IsPlan(j.read, j.desired, up)
    BY <2>2, <2>3 DEF IsPlan, IsPlanOf
  <2> HIDE DEF new
  <2>8. JobInv(new)
    BY <1>0, <2>4, <2>5, <2>6, <2>7 DEF JobInv, PCs
  <2>9. Goto(r, new) /\ UNCHANGED <<now, faults, dir>>
    BY <1>5, <2>2 DEF Proceed, Local, new
  <2>10. \A s \in Runs : JobInv(job[s])'
    BY <2>8, <2>9, GotoJob
  <2> QED
    BY <1>0, <2>9, <2>10 DEF AnswerInv
<1>6. CASE NameFile(r)
  <2>1. PICK time \in 0..MaxTime :
          Read(time) /\ Goto(r, [j EXCEPT !.pc = "open", !.file = GenerateFilename(j.name, time)])
    BY <1>6 DEF NameFile
  <2> DEFINE file == GenerateFilename(j.name, time)
             new  == [j EXCEPT !.pc = "open", !.file = file]
  <2>2. j.pc = "name"
    BY <1>6 DEF NameFile, At
  <2>3. file \in Filename
    BY <1>0, <2>2 DEF JobInv, GenerateFilename, Filename
  <2> HIDE DEF file
  <2>4. /\ new.pc = "open" /\ new.name = j.name /\ new.desired = j.desired
        /\ new.todo = j.todo /\ new.read = j.read /\ new.up = j.up /\ new.file = file
    BY <1>0 DEF IsJob, Fields
  <2> HIDE DEF new
  <2>5. JobInv(new)
    BY <1>0, <2>2, <2>3, <2>4 DEF JobInv, PCs
  <2>6. Goto(r, new) /\ UNCHANGED dir
    BY <1>6, <2>1 DEF NameFile, new, file
  <2>7. \A q \in Runs : JobInv(job[q])'
    BY <2>5, <2>6, GotoJob
  <2>8. now' \in 0..MaxTime /\ faults' \in Nat
    BY <1>0, <2>1 DEF Read
  <2> QED
    BY <1>0, <2>6, <2>7, <2>8 DEF AnswerInv
<1>7. CASE OpenFile(r)
  <2>0. PICK new : new = [j EXCEPT !.pc = "write"]
    OBVIOUS
  <2>1. /\ new.pc = "write" /\ new.name = j.name /\ new.desired = j.desired
        /\ new.todo = j.todo /\ new.read = j.read /\ new.up = j.up /\ new.file = j.file
        /\ new.stale = j.stale
    BY <1>0, <2>0 DEF IsJob, Fields
  <2>2. j.pc = "open"
    BY <1>7 DEF OpenFile, At
  <2>3. /\ dir' = With(dir, j.file, << >>) /\ GotoAndChange(r, new)
        /\ now' = now /\ faults' = faults
    BY <1>7, <2>0 DEF OpenFile
  <2>4. j.file \in Filename /\ << >> \in Seq(Statement)
    BY <1>0, <2>2 DEF JobInv
  <2>5. PICK d : d = With(dir, j.file, << >>)
    OBVIOUS
  <2>6. IsChanged(d, dir, j.file, << >>)
    <3>1. IsWritten(d, dir, j.file, << >>)
      BY <1>0, <2>4, <2>5 DEF IsWritten
    <3> QED
      BY <3>1, WithIsFiles
  <2>7. dir' = d
    BY <2>3, <2>5
  <2>8. ASSUME ~j.stale
        PROVE  /\ DOMAIN d = DOMAIN j.read \cup {j.file}
               /\ \A f \in DOMAIN j.read \ {j.file} : j.read[f] = d[f]
    <3>1. /\ j.todo \cup DOMAIN j.read = DOMAIN dir /\ j.todo = {}
          /\ \A f \in DOMAIN j.read : j.read[f] = dir[f]
      BY <1>0, <2>2, <2>8 DEF IsFresh, JobInv
    <3> QED
      BY <2>6, <3>1 DEF IsChanged
  <2>9. JobInv(new)'
    <3>1. ~new.stale => IsOthers(new)'
      BY <2>1, <2>7, <2>8 DEF IsOthers
    <3>2. j.todo \subseteq DOMAIN d /\ DOMAIN j.read \subseteq DOMAIN d /\ j.todo = {}
      BY <1>0, <2>2, <2>6 DEF JobInv, IsChanged
    <3> QED
      BY <1>0, <2>1, <2>2, <2>4, <2>7, <3>1, <3>2 DEF JobInv, PCs
  <2>10. \A q \in Runs : JobInv(job[q])'
    <3>1. DOMAIN dir \subseteq DOMAIN dir'
      BY <2>6, <2>7 DEF IsChanged
    <3> QED
      BY <2>3, <2>9, <3>1, ChangeJob
  <2> QED
    BY <1>0, <2>3, <2>6, <2>7, <2>10 DEF AnswerInv, IsChanged
<1>8. CASE WriteFile(r) \/ ShortWrite(r)
  <2>1. /\ GotoAndChange(r, Idle) /\ now' = now /\ faults' \in Nat /\ j.pc = "write"
        /\ \E x \in Torn(j.up) \cup {j.up} : dir' = With(dir, j.file, x)
    BY <1>0, <1>8, BoundsAssumption DEF WriteFile, ShortWrite, At
  <2>2. PICK x \in Torn(j.up) \cup {j.up} : dir' = With(dir, j.file, x)
    BY <2>1
  <2>3. j.file \in Filename /\ j.up \in Seq(Statement)
    BY <1>0, <2>1 DEF JobInv
  <2>4. x \in Seq(Statement)
    BY <2>3, TornType
  <2>5. PICK d : d = With(dir, j.file, x)
    OBVIOUS
  <2>6. IsChanged(d, dir, j.file, x)
    <3>1. IsWritten(d, dir, j.file, x)
      BY <1>0, <2>3, <2>4, <2>5 DEF IsWritten
    <3> QED
      BY <3>1, WithIsFiles
  <2>7. dir' = d
    BY <2>2, <2>5
  <2>8. \A q \in Runs : JobInv(job[q])'
    <3>1. DOMAIN dir \subseteq DOMAIN dir'
      BY <2>6, <2>7 DEF IsChanged
    <3> QED
      BY <2>1, <3>1, IdleIsJob, ChangeJob
  <2> QED
    BY <1>0, <2>1, <2>6, <2>7, <2>8 DEF AnswerInv, IsChanged
<1> QED
  BY <1>1, <1>2, <1>3, <1>4, <1>5, <1>6, <1>7, <1>8 DEF Step

\* Every run that is past the gate holds a plan for what it has read: for any
\* number of runs, names, tables and faults.
THEOREM AnswerInvHolds == Spec => []AnswerInv
<1>1. Init => AnswerInv
  <2>1. SUFFICES ASSUME Init PROVE AnswerInv
    OBVIOUS
  <2>2. DOMAIN << >> = {} /\ dir = << >> /\ now = 0 /\ faults = 0
    BY <2>1 DEF Init
  <2>3. IsFiles(dir)
    BY <2>2, FS_EmptySet DEF IsFiles
  <2>4. \A r \in Runs : JobInv(job[r])
    BY <2>1, IdleIsJob DEF Init
  <2> QED
    BY <2>2, <2>3, <2>4, BoundsAssumption DEF AnswerInv
<1>2. FilesInv /\ AnswerInv /\ [Next]_vars => AnswerInv'
  <2>1. FilesInv /\ AnswerInv /\ Next => AnswerInv'
    BY AnswerStep DEF Next
  <2>2. AnswerInv /\ UNCHANGED vars => AnswerInv'
    BY SMTT(30) DEF AnswerInv, JobInv, IsOthers, vars
  <2> QED
    BY <2>1, <2>2
<1> QED
  BY <1>1, <1>2, FilesInvHolds, PTL DEF Spec

\* Times, files, statements and runs stay what they are, for every number of
\* runs, names, tables and faults.
THEOREM TypeCorrect == Spec => []TypeOK
BY AnswerIsTyped, AnswerInvHolds, PTL
-----------------------------------------------------------------------------
\* goose has one order to run the files in.
LEMMA OneResult ==
  ASSUME NEW d, IsFiles(d), GooseRuns(d), NEW q \in Sorted(DOMAIN d, Timestamp)
  PROVE  GooseResult(d) = Replay(Statements(d, q))
<1>1. \A f \in DOMAIN d : f.timestamp \in Nat
  BY BoundsAssumption DEF IsFiles, Filename
<1>2. Distinct(DOMAIN d) /\ IsFiniteSet(DOMAIN d)
  BY DEF GooseRuns, IsFiles, Distinct
<1>3. \A p \in Sorted(DOMAIN d, Timestamp) : p = q
  BY <1>1, <1>2, OneOrder
<1> QED
  BY <1>3 DEF GooseResult

\* The same files have the same statements.
LEMMA SameStatements ==
  ASSUME NEW read, NEW d, DOMAIN read = DOMAIN d, \A f \in DOMAIN d : read[f] = d[f],
         NEW q \in Seq(DOMAIN d)
  PROVE  Statements(read, q) = Statements(d, q)
<1>1. \A i \in DOMAIN q : read[q[i]] = d[q[i]]
  OBVIOUS
<1>2. [i \in DOMAIN q |-> read[q[i]]] = [i \in DOMAIN q |-> d[q[i]]]
  BY <1>1
<1> QED
  BY <1>2, Zenon DEF Statements

\* A run that finds nothing to do is right.
LEMMA NothingIsRight ==
  ASSUME FilesInv, AnswerInv, NEW r \in Runs, ~job[r].stale, GooseRuns(dir), NoChanges(r)
  PROVE  GooseResult(dir) = {job[r].desired}
<1> DEFINE j == job[r]
<1>1. /\ j.todo = {} /\ j.pc = "load" /\ JobInv(j) /\ IsFresh(j) /\ IsFiles(dir)
      /\ j.desired \in Histories(r)
  BY DEF NoChanges, Loaded, At, FilesInv, AnswerInv
<1>2. DOMAIN j.read = DOMAIN dir /\ \A f \in DOMAIN dir : j.read[f] = dir[f]
  BY <1>1 DEF IsFresh
<1>3. PICK q \in Sorted(DOMAIN j.read, Timestamp) : j.desired \in Replay(Statements(j.read, q))
  BY <1>1, Zenon DEF Histories, LoadOrders
<1> HIDE DEF j
<1>4. q \in Sorted(DOMAIN dir, Timestamp) /\ q \in Seq(DOMAIN dir)
  <2>1. q \in Sorted(DOMAIN dir, Timestamp)
    BY <1>2, <1>3
  <2>2. q \in SetToSeqs(DOMAIN dir) /\ IsFiniteSet(DOMAIN dir)
    BY <1>1, <2>1, SortedIs DEF IsFiles
  <2> QED
    BY <2>1, <2>2, OrderIs
<1>5. Statements(j.read, q) = Statements(dir, q)
  BY <1>2, <1>4, SameStatements
<1>6. Statements(dir, q) \in Seq(Statement)
  BY <1>1, <1>4, StatementsType DEF IsFiles
<1>7. PICK s : Replay(Statements(dir, q)) \subseteq {s}
  BY <1>6, ReplayOne DEF AtMostOne
<1>8. Replay(Statements(dir, q)) = {j.desired}
  BY <1>3, <1>5, <1>7
<1>9. GooseResult(dir) = Replay(Statements(dir, q))
  BY <1>1, <1>4, OneResult
<1> QED
  BY <1>8, <1>9 DEF j

\* The file a run writes, after all the others, leads to what the run had read.
LEMMA FileIsRight ==
  ASSUME AnswerInv, NEW r \in Runs, ~job[r].stale, At(r, "write"),
         \A f \in DOMAIN job[r].read : f.timestamp < job[r].file.timestamp,
         NEW d, d = With(dir, job[r].file, job[r].up), GooseRuns(d)
  PROVE  GooseResult(d) = {job[r].desired}
<1> DEFINE j == job[r]
<1>1. /\ j.pc = "write" /\ JobInv(j) /\ IsFiles(dir) /\ IsOthers(j) /\ IsPlan(j.read, j.desired, j.up)
  BY DEF At, AnswerInv, JobInv
<1>2. j.file \in Filename /\ j.up \in Seq(Statement) /\ j.desired \in SUBSET Tables
  BY <1>1 DEF JobInv
<1>3. PICK g : g = j.file
  OBVIOUS
<1>4. PICK read : read = j.read
  OBVIOUS
<1>5. IsChanged(d, dir, g, j.up)
  <2>1. IsWritten(d, dir, g, j.up)
    BY <1>1, <1>2, <1>3 DEF IsWritten
  <2> QED
    BY <2>1, WithIsFiles
<1>6. DOMAIN dir = DOMAIN read \cup {g} /\ \A f \in DOMAIN read \ {g} : read[f] = dir[f]
  BY <1>1, <1>3, <1>4 DEF IsOthers
<1>7. \A f \in DOMAIN read : f.timestamp < g.timestamp /\ f.timestamp \in Nat
  <2>1. \A f \in DOMAIN dir : f.timestamp \in Nat
    BY <1>1, BoundsAssumption DEF IsFiles, Filename
  <2> QED
    BY <1>3, <1>4, <1>6, <2>1
<1>8. g \notin DOMAIN read
  <2>1. SUFFICES ASSUME g \in DOMAIN read PROVE FALSE
    OBVIOUS
  <2>2. g.timestamp < g.timestamp /\ g.timestamp \in Nat
    BY <1>7, <2>1
  <2> QED
    BY <2>2
<1>9. /\ IsFiniteSet(DOMAIN read) /\ DOMAIN d = DOMAIN read \cup {g}
      /\ \A f \in DOMAIN read : d[f] = read[f] /\ read[f] \in Seq(Statement)
  <2>1. IsFiniteSet(DOMAIN read)
    BY <1>1, <1>6, FS_Subset DEF IsFiles
  <2>2. \A f \in DOMAIN read : d[f] = read[f]
    BY <1>5, <1>6, <1>8 DEF IsChanged
  <2>3. \A f \in DOMAIN read : read[f] \in Seq(Statement)
    BY <1>1, <1>4 DEF JobInv
  <2> QED
    BY <1>5, <1>6, <2>1, <2>2, <2>3 DEF IsChanged
<1>10. PICK q, h : IsPlanOf(read, q, h, j.desired, j.up)
  BY <1>1, <1>4 DEF IsPlan
<1>11. q \in Sorted(DOMAIN read, Timestamp) /\ IsRead(read)
  BY <1>9, <1>10 DEF IsPlanOf, IsRead
<1> HIDE DEF j
<1>12. Replay(Statements(read, q) \o j.up) = {j.desired}
  BY <1>2, <1>10, <1>11, PlanType
<1>13. q \in Seq(DOMAIN read)
  <2>1. q \in SetToSeqs(DOMAIN read)
    BY <1>11, SortedIs
  <2> QED
    BY <1>9, <2>1, OrderIs
<1>14. Append(q, g) \in Sorted(DOMAIN d, Timestamp)
  <2>1. \A f \in DOMAIN read : f.timestamp <= g.timestamp
    <3>1. g.timestamp \in Nat
      BY <1>2, <1>3, BoundsAssumption DEF Filename
    <3> QED
      BY <1>7, <3>1
  <2>2. Append(q, g) \in Sorted(DOMAIN read \cup {g}, Timestamp)
    BY <1>8, <1>9, <1>11, <2>1, AppendSorted
  <2> QED
    BY <1>9, <2>2
<1>15. Statements(d, Append(q, g)) = Statements(read, q) \o j.up
  <2>1. d[g] \in Seq(Statement)
    BY <1>2, <1>5 DEF IsChanged
  <2>2. Statements(d, Append(q, g)) = Statements(read, q) \o d[g]
    <3>1. IsMore(d, read, q, g)
      BY <1>9, <1>13, <2>1 DEF IsMore
    <3> QED
      BY <3>1, StatementsAppend, SMTT(30)
  <2> QED
    BY <1>5, <2>2 DEF IsChanged
<1>16. GooseResult(d) = Replay(Statements(d, Append(q, g)))
  <2>1. IsFiles(d)
    BY <1>5 DEF IsChanged
  <2> QED
    BY <1>14, <2>1, OneResult
<1> QED
  BY <1>12, <1>15, <1>16 DEF j

\* What a run answers is true of the files, for every number of runs, files,
\* names, tables and faults: if goose accepts the directory, it makes of an empty
\* database what the run read in the Prisma file, unless another run wrote
\* meanwhile or the file is not the last.
THEOREM AnswerCorrect == Spec => AnswerIsTrue
<1>1. ASSUME FilesInv, AnswerInv, NEW r \in Runs, ~job[r].stale, GooseRuns(dir'),
             \/ NoChanges(r)
             \/ /\ WriteFile(r)
                /\ \A f \in DOMAIN job[r].read : f.timestamp < job[r].file.timestamp
      PROVE  GooseResult(dir') = {job[r].desired}
  <2>1. CASE NoChanges(r)
    <3>1. dir' = dir
      BY <2>1 DEF NoChanges, Local
    <3>2. GooseRuns(dir)
      BY <1>1, <3>1
    <3>3. GooseResult(dir) = {job[r].desired}
      BY <1>1, <2>1, <3>2, NothingIsRight
    <3> QED
      BY <3>1, <3>3
  <2>2. CASE /\ WriteFile(r)
             /\ \A f \in DOMAIN job[r].read : f.timestamp < job[r].file.timestamp
    <3>1. PICK d : d = With(dir, job[r].file, job[r].up)
      OBVIOUS
    <3>2. dir' = d /\ At(r, "write")
      BY <2>2, <3>1 DEF WriteFile
    <3>3. GooseRuns(d)
      BY <1>1, <3>2
    <3>4. GooseResult(d) = {job[r].desired}
      BY <1>1, <2>2, <3>1, <3>2, <3>3, FileIsRight
    <3> QED
      BY <3>2, <3>4
  <2> QED
    BY <1>1, <2>1, <2>2
<1>2. FilesInv /\ AnswerInv =>
        \A r \in Runs :
          /\ ~job[r].stale
          /\ GooseRuns(dir')
          /\ \/ NoChanges(r)
             \/ /\ WriteFile(r)
                /\ \A f \in DOMAIN job[r].read : f.timestamp < job[r].file.timestamp
          => GooseResult(dir') = {job[r].desired}
  BY <1>1
<1> QED
  BY <1>2, FilesInvHolds, AnswerInvHolds, PTL DEF AnswerIsTrue
=============================================================================
