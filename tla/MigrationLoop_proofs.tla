-------------------------- MODULE MigrationLoop_proofs -------------------------
(***************************************************************************)
(* The server, and the command with goose and the server.  PostgreSQL does *)
(* to its catalog what the builder does to the schema it rebuilds when     *)
(* both are given the statements of the planner's next operation, and the  *)
(* statements of the way back undo it.  In the loop, what the command      *)
(* guarantees it still guarantees, because neither goose nor the server    *)
(* touches what it reads; and when the schemas of the project are          *)
(* Migratable, the database follows the files, whatever the interleaving.  *)
(***************************************************************************)
EXTENDS MigrationLoop, MigratableSchemas, MigrationCreate_proofs, Induction_proofs

(***************************************************************************)
(* A section is executed as a fold over its statements.                    *)
(***************************************************************************)
\* The catalogs that statement v can turn the catalogs cs into.
After(v, cs) == UNION {Executed(v, x) : x \in cs}

\* What FoldLeft chooses: a function from the sets of positions that are done.
IsIter(g, stmts, c, D) ==
  g = [s \in SUBSET D |-> IF s = {} THEN {c} ELSE After(stmts[Max(s)], g[s \ {Max(s)}])]

\* Execute is the value of such a function where all positions are done.
LEMMA ExecuteIsIter ==
  ASSUME NEW stmts, NEW c
  PROVE  Execute(stmts, c) = (CHOOSE g : IsIter(g, stmts, c, DOMAIN stmts))[DOMAIN stmts]
BY Zenon DEF Execute, FoldLeft, MapThenFoldSet, IsIter, After

\* There is such a function for every number of positions.
LEMMA IterExists ==
  ASSUME NEW stmts, NEW c, NEW m \in Nat
  PROVE  \E g : IsIter(g, stmts, c, 1..m)
<1> DEFINE S == {n \in Nat : \E g : IsIter(g, stmts, c, 1..n)}
<1>1. 0 \in S
  <2>1. SUBSET (1..0) = {{}}
    OBVIOUS
  <2> DEFINE g == [s \in {{}} |-> {c}]
  <2>2. g = [s \in {{}} |-> IF s = {} THEN {c} ELSE After(stmts[Max(s)], g[s \ {Max(s)}])]
    OBVIOUS
  <2>3. IsIter(g, stmts, c, 1..0)
    BY <2>1, <2>2 DEF IsIter
  <2> QED
    BY <2>3
<1>2. ASSUME NEW n \in Nat, n \in S PROVE n + 1 \in S
  <2>1. PICK g : IsIter(g, stmts, c, 1..n)
    BY <1>2
  <2> DEFINE h == [s \in SUBSET (1..n + 1) |->
                     IF n + 1 \in s THEN After(stmts[n + 1], g[s \ {n + 1}]) ELSE g[s]]
  <2>2. ASSUME NEW s \in SUBSET (1..n + 1)
        PROVE  h[s] = IF s = {} THEN {c} ELSE After(stmts[Max(s)], h[s \ {Max(s)}])
    <3>1. CASE n + 1 \in s
      <4>1. Max(s) = n + 1 /\ s # {}
        BY <3>1, MaxUpTo
      <4>2. s \ {n + 1} \in SUBSET (1..n + 1) /\ n + 1 \notin s \ {n + 1}
        OBVIOUS
      <4>3. h[s \ {n + 1}] = g[s \ {n + 1}]
        BY <4>2
      <4> QED
        BY <3>1, <4>1, <4>3
    <3>2. CASE n + 1 \notin s
      <4>1. s \in SUBSET (1..n)
        BY <3>2, MaxUpTo
      <4>2. g[s] = IF s = {} THEN {c} ELSE After(stmts[Max(s)], g[s \ {Max(s)}])
        BY <2>1, <4>1, Zenon DEF IsIter
      <4>3. s \ {Max(s)} \in SUBSET (1..n + 1) /\ n + 1 \notin s \ {Max(s)}
        BY <3>2
      <4>4. h[s \ {Max(s)}] = g[s \ {Max(s)}]
        BY <4>3
      <4>5. h[s] = g[s]
        BY <3>2
      <4> QED
        BY <4>2, <4>4, <4>5
    <3> QED
      BY <3>1, <3>2
  <2>3. IsIter(h, stmts, c, 1..n + 1)
    <3>1. h = [s \in SUBSET (1..n + 1) |-> h[s]]
      OBVIOUS
    <3> HIDE DEF h
    <3> QED
      BY <2>2, <3>1, Zenon DEF IsIter
  <2> QED
    BY <2>3
<1>3. m \in S
  BY <1>1, <1>2, SetInduction
<1> QED
  BY <1>3

\* f[n] is what the first n statements make of c.
IsRun(f, stmts, c) ==
  /\ f[0] = {c}
  /\ \A n \in 1..Len(stmts) : f[n] = After(stmts[n], f[n - 1])

\* Execute goes through the statements in their order.
LEMMA RunExists ==
  ASSUME NEW T, NEW stmts \in Seq(T), NEW c
  PROVE  \E f : IsRun(f, stmts, c) /\ Execute(stmts, c) = f[Len(stmts)]
<1> DEFINE g == CHOOSE h : IsIter(h, stmts, c, DOMAIN stmts)
           f == [n \in 0..Len(stmts) |-> g[1..n]]
<1>1. DOMAIN stmts = 1..Len(stmts) /\ Len(stmts) \in Nat
  OBVIOUS
<1>2. IsIter(g, stmts, c, DOMAIN stmts)
  BY <1>1, IterExists, Zenon
<1>3. Execute(stmts, c) = g[DOMAIN stmts]
  BY ExecuteIsIter
<1> HIDE DEF g
<1>4. \A s \in SUBSET (1..Len(stmts)) :
        g[s] = IF s = {} THEN {c} ELSE After(stmts[Max(s)], g[s \ {Max(s)}])
  BY <1>1, <1>2, Zenon DEF IsIter
<1>5. f[0] = {c}
  <2>1. f[0] = g[{}]
    BY <1>1
  <2> QED
    BY <1>4, <2>1
<1>6. ASSUME NEW n \in 1..Len(stmts) PROVE f[n] = After(stmts[n], f[n - 1])
  <2>0. n \in Nat /\ n - 1 \in Nat /\ (n - 1) + 1 = n
    BY <1>1
  <2>1. 1..n \in SUBSET (1..Len(stmts)) /\ 1..n # {} /\ n \in 1..n
    <3>1. Len(stmts) \in Nat /\ n <= Len(stmts) /\ 1 <= n
      BY <1>1, <2>0
    <3>2. n \in 1..n
      BY <2>0, <3>1
    <3>3. \A i \in 1..n : i \in 1..Len(stmts)
      BY <2>0, <3>1
    <3> QED
      BY <3>2, <3>3
  <2>2. Max(1..n) = n
    <3>1. 1..n \in SUBSET (1..(n - 1) + 1)
      BY <2>0
    <3> QED
      BY <2>0, <2>1, <3>1, MaxUpTo
  <2>3. (1..n) \ {n} = 1..n - 1
    OBVIOUS
  <2>4. f[n] = g[1..n] /\ f[n - 1] = g[1..n - 1]
    BY <1>1
  <2> QED
    BY <1>4, <2>1, <2>2, <2>3, <2>4
<1>7. f[Len(stmts)] = g[DOMAIN stmts]
  BY <1>1
<1> QED
  BY <1>3, <1>5, <1>6, <1>7 DEF IsRun

\* The statements of b are those of a after the k-th.
Continues(a, k, b) == k + Len(b) <= Len(a) /\ \A n \in 1..Len(b) : a[k + n] = b[n]

\* A run is determined by its statements.
LEMMA RunOfAnother ==
  ASSUME NEW a, Len(a) \in Nat, NEW b, Len(b) \in Nat, NEW c, NEW r, NEW f, NEW g, NEW k \in Nat,
         IsRun(f, a, c), IsRun(g, b, r), f[k] = g[0],
         Continues(a, k, b)
  PROVE  f[k + Len(b)] = g[Len(b)]
<1> USE DEF Continues
<1> DEFINE S == {n \in Nat : n <= Len(b) => f[k + n] = g[n]}
<1>1. 0 \in S
  <2>1. k + 0 = k
    OBVIOUS
  <2> QED
    BY <2>1
<1>2. ASSUME NEW n \in Nat, n \in S, n + 1 <= Len(b) PROVE f[k + (n + 1)] = g[n + 1]
  <2>0. Len(a) \in Nat /\ Len(b) \in Nat
    OBVIOUS
  <2>1. n + 1 \in 1..Len(b) /\ k + (n + 1) \in 1..Len(a) /\ (n + 1) - 1 = n
        /\ (k + (n + 1)) - 1 = k + n
    BY <1>2, <2>0
  <2>2. f[k + n] = g[n]
    BY <1>2, <2>0
  <2>3. f[k + (n + 1)] = After(a[k + (n + 1)], f[k + n])
    BY <2>1 DEF IsRun
  <2>4. g[n + 1] = After(b[n + 1], g[n])
    BY <2>1 DEF IsRun
  <2> QED
    BY <2>1, <2>2, <2>3, <2>4
<1>3. \A n \in Nat : n \in S => n + 1 \in S
  BY <1>2
<1> HIDE DEF S
<1>4. Nat \subseteq S
  BY <1>1, <1>3, SetInduction
<1>5. Len(b) \in Nat /\ Len(b) \in S
  BY <1>4
<1> QED
  BY <1>5 DEF S

\* No statement changes nothing.
LEMMA ExecuteNone ==
  ASSUME NEW c PROVE Execute(<< >>, c) = {c}
<1>1. PICK f : IsRun(f, << >>, c) /\ Execute(<< >>, c) = f[Len(<< >>)]
  <2>1. << >> \in Seq({})
    OBVIOUS
  <2> QED
    BY <2>1, RunExists
<1> QED
  BY <1>1 DEF IsRun

\* A section of one statement does what the statement does.
LEMMA ExecuteOne ==
  ASSUME NEW v, NEW c PROVE Execute(<<v>>, c) = Executed(v, c)
<1>1. <<v>> \in Seq({v}) /\ Len(<<v>>) = 1 /\ <<v>>[1] = v
  OBVIOUS
<1>2. PICK f : IsRun(f, <<v>>, c) /\ Execute(<<v>>, c) = f[1]
  BY <1>1, RunExists
<1>3. 1 \in 1..Len(<<v>>) /\ 1 - 1 = 0
  BY <1>1
<1>4. f[1] = After(<<v>>[1], f[1 - 1]) /\ f[0] = {c}
  BY <1>2, <1>3 DEF IsRun
<1>5. f[1] = After(v, {c})
  BY <1>1, <1>3, <1>4
<1> QED
  BY <1>2, <1>5 DEF After

\* The statements are accepted and turn c into r and nothing else.
MustLead(stmts, c, r) == Execute(stmts, c) = {r}

\* Two sections one after the other.
LEMMA ExecuteOn ==
  ASSUME NEW T, NEW a \in Seq(T), NEW b \in Seq(T), NEW c, NEW r, NEW q,
         MustLead(a, c, r), MustLead(b, r, q)
  PROVE  MustLead(a \o b, c, q)
<1> USE DEF MustLead
<1> DEFINE ab == a \o b
<1>1. /\ ab \in Seq(T) /\ Len(ab) = Len(a) + Len(b)
      /\ Len(a) \in Nat /\ Len(b) \in Nat
      /\ \A n \in 1..Len(a) : ab[0 + n] = a[n]
      /\ \A n \in 1..Len(b) : ab[Len(a) + n] = b[n]
  OBVIOUS
<1> HIDE DEF ab
<1>2. PICK f : IsRun(f, ab, c) /\ Execute(ab, c) = f[Len(ab)]
  BY <1>1, RunExists
<1>3. PICK g : IsRun(g, a, c) /\ Execute(a, c) = g[Len(a)]
  BY RunExists
<1>4. PICK h : IsRun(h, b, r) /\ Execute(b, r) = h[Len(b)]
  BY RunExists
<1>5. f[0 + Len(a)] = g[Len(a)]
  <2>1. f[0] = g[0] /\ Continues(ab, 0, a)
    BY <1>1, <1>2, <1>3 DEF IsRun, Continues
  <2> QED
    BY <1>1, <1>2, <1>3, <2>1, RunOfAnother
<1>6. f[Len(a)] = {r}
  BY <1>1, <1>3, <1>5
<1>7. f[Len(a) + Len(b)] = h[Len(b)]
  <2>1. PICK k \in Nat : k = Len(a)
    BY <1>1
  <2>2. Continues(ab, k, b) /\ f[k] = h[0]
    <3>1. h[0] = {r}
      BY <1>4 DEF IsRun
    <3> QED
      BY <1>1, <1>6, <2>1, <3>1 DEF Continues
  <2>3. /\ IsRun(f, ab, c) /\ IsRun(h, b, r)
        /\ Len(ab) \in Nat /\ Len(b) \in Nat
    BY <1>1, <1>2, <1>4
  <2>4. f[k + Len(b)] = h[Len(b)]
    BY <2>2, <2>3, RunOfAnother
  <2> QED
    BY <2>1, <2>4
<1> QED
  BY <1>1, <1>2, <1>4, <1>7 DEF ab
-----------------------------------------------------------------------------
(***************************************************************************)
(* A section of one statement is read in one way only, and so is an ALTER  *)
(* COLUMN.                                                                 *)
(***************************************************************************)
\* What a section of one statement leads to is what the builder makes of it.
LEMMA LeadsOne ==
  ASSUME NEW v, NEW s, NEW r, Leads(<<v>>, s, r)
  PROVE  Applied(v, s) = {r}
<1>1. Len(<<v>>) = 1 /\ <<v>>[1] = v /\ Len(<<v>>) + 1 = 2
  OBVIOUS
<1>2. PICK p : /\ p[1] = s /\ p[Len(<<v>>) + 1] = r
               /\ \A i \in 1..Len(<<v>>) : ReadsAs(<<v>>[i], p[i], p[i + 1])
  BY DEF Leads
<1>3. 1 \in 1..Len(<<v>>) /\ 1 + 1 = 2
  BY <1>1
<1>4. ReadsAs(<<v>>[1], p[1], p[1 + 1])
  BY <1>2, <1>3
<1> QED
  BY <1>1, <1>2, <1>3, <1>4 DEF ReadsAs

\* A section leads to one schema at most.
LEMMA LeadsUnique ==
  ASSUME NEW T, NEW stmts \in Seq(T), NEW s, NEW r, NEW q,
         Leads(stmts, s, r), Leads(stmts, s, q)
  PROVE  r = q
<1>1. PICK p : /\ p[1] = s /\ p[Len(stmts) + 1] = r
               /\ \A i \in 1..Len(stmts) : ReadsAs(stmts[i], p[i], p[i + 1])
  BY DEF Leads
<1>2. PICK o : /\ o[1] = s /\ o[Len(stmts) + 1] = q
               /\ \A i \in 1..Len(stmts) : ReadsAs(stmts[i], o[i], o[i + 1])
  BY DEF Leads
<1> DEFINE N == {n \in Nat : n <= Len(stmts) => p[n + 1] = o[n + 1]}
<1>3. 0 \in N
  <2>1. 0 + 1 = 1
    OBVIOUS
  <2> QED
    BY <1>1, <1>2, <2>1
<1>4. ASSUME NEW n \in Nat, n \in N, n + 1 <= Len(stmts)
      PROVE  p[(n + 1) + 1] = o[(n + 1) + 1]
  <2>0. Len(stmts) \in Nat
    OBVIOUS
  <2>1. n + 1 \in 1..Len(stmts)
    BY <1>4, <2>0
  <2>2. p[n + 1] = o[n + 1]
    BY <1>4, <2>0
  <2>3. /\ ReadsAs(stmts[n + 1], p[n + 1], p[(n + 1) + 1])
        /\ ReadsAs(stmts[n + 1], o[n + 1], o[(n + 1) + 1])
    BY <1>1, <1>2, <2>1
  <2> QED
    BY <2>2, <2>3 DEF ReadsAs
<1>5. ASSUME NEW n \in Nat, n \in N PROVE n + 1 \in N
  <2>1. n + 1 \in Nat
    OBVIOUS
  <2> QED
    BY <1>4, <1>5, <2>1, Zenon
<1> HIDE DEF N
<1>6. Nat \subseteq N
  BY <1>3, <1>5, SetInduction
<1>7. Len(stmts) \in Nat /\ Len(stmts) \in N
  BY <1>6
<1> QED
  BY <1>1, <1>2, <1>7 DEF N
-----------------------------------------------------------------------------
(***************************************************************************)
(* A settled catalog has the keys the project agrees on, on columns that   *)
(* are there, and every enum its columns name.                             *)
(***************************************************************************)
SettledTable(S, enums, t, b) ==
  /\ \E s \in S : /\ HasTable(s, t)
                  /\ b.pk = s.tables[t].pk /\ b.uniques = s.tables[t].uniques
  /\ KeyColumns(b) \subseteq Present(b.cols)
  /\ \A i \in b.indexes : Range(i.cols) \subseteq Present(b.cols)
  /\ NamesEnums(b, enums)

Settled(S, c) ==
  \A t \in Tables : c.tables[t] # Absent => SettledTable(S, c.enums, t, c.tables[t])

\* The server does what the builder does with the operation, and undoes it.
ExecutesAs(op, c, r) ==
  /\ Execute(GenerateOperation(op), c) = {r}
  /\ ~IsIrreversible(op) => Execute(GenerateReverseOperation(op), r) = {c}

\* An exchange of one table keeps a catalog settled.
LEMMA SettledStep ==
  ASSUME NEW S, NEW c \in Schema, Settled(S, c), NEW t \in Tables, NEW new \in {Absent} \cup Table,
         new # Absent => SettledTable(S, c.enums, t, new)
  PROVE  Settled(S, SetTable(c, t, new))
<1> DEFINE r == SetTable(c, t, new)
<1>1. r.enums = c.enums /\ \A u \in Tables : r.tables[u] = IF u = t THEN new ELSE c.tables[u]
  BY DEF SetTable, Schema
<1> HIDE DEF r
<1>2. Settled(S, r)
  BY <1>1 DEF Settled
<1> QED
  BY <1>2 DEF r

\* No foreign key points at a table.
LEMMA NothingRefers ==
  ASSUME NEW S, NEW c, Known(S, c), NEW t \in Tables
  PROVE  Referencing(c, t) = {}
<1>1. \A u \in Present(c.tables) : u \in Tables /\ c.tables[u] # Absent
  BY DEF Known, Present, Schema
<1>2. \A u \in Present(c.tables) : c.tables[u].fks = {}
  BY <1>1 DEF Known, KnownTable
<1> QED
  BY <1>2 DEF Referencing

\* An enum on both sides has the same labels on both.
LEMMA LabelsAgree ==
  ASSUME NEW S, S \subseteq Schema, Replayable(S), NEW d \in S, NEW c, Known(S, c), NEW e \in Enums,
         c.enums[e] # Absent, d.enums[e] # Absent
  PROVE  c.enums[e] = d.enums[e]
<1>1. PICK s \in S : s.enums[e] = c.enums[e]
  BY DEF Known
<1>2. e \in Present(s.enums) \cap Present(d.enums)
  BY <1>1 DEF Present, Schema
<1> QED
  BY <1>1, <1>2 DEF Replayable, HaveSameLabels

\* What the project writes of a column, the server takes.
LEMMA ColumnIsTaken ==
  ASSUME NEW S, S \subseteq Schema, Migratable(S), NEW d \in S, NEW c, Known(S, c),
         NEW t \in Tables, NEW x \in Columns, HasColumn(d, t, x),
         \A e \in Enums : d.enums[e] # Absent => c.enums[e] # Absent
  PROVE  ColumnFits(d.tables[t].cols[x], c)
<1> DEFINE col == d.tables[t].cols[x]
<1>1. c \in Schema /\ d \in Schema /\ Replayable(S)
  BY DEF Known, Migratable
<1>2. IsSupported(col.type, c)
  BY <1>1, ColumnReadable
<1>3. TypeExists(col.type, c)
  BY <1>2 DEF IsSupported, TypeExists, Present
<1>4. t \in Present(d.tables) /\ x \in Present(d.tables[t].cols)
  BY <1>1, FoundType DEF HasColumn, HasTable, Present, Schema, Table
<1>5. IsSupported(col.type, d) /\ DefaultFits(col.type, col.default, d)
  BY <1>4 DEF Migratable, Replayable, HasReadableColumns, HasFittingDefaults
<1>6. ASSUME col.type.kind = "enum" PROVE c.enums[col.type.enum] = d.enums[col.type.enum]
  <2>1. col.type.enum \in Enums /\ d.enums[col.type.enum] # Absent /\ c.enums[col.type.enum] # Absent
    BY <1>1, <1>2, <1>5, <1>6 DEF IsSupported, Present, Schema
  <2> HIDE DEF col
  <2> QED
    BY <1>1, <2>1, LabelsAgree, Zenon
<1> HIDE DEF col
<1>7. DefaultFits(col.type, col.default, c)
  BY <1>5, <1>6 DEF DefaultFits
<1> QED
  BY <1>3, <1>7 DEF ColumnFits, col

\* The enums of a schema of the project are there once every CREATE TYPE is done.
LEMMA EnumsAreThere ==
  ASSUME NEW S, S \subseteq Schema, Migratable(S), NEW d \in S, NEW c,
         NEW t \in Tables, NEW x \in Columns, HasColumn(d, t, x),
         \A e \in Enums : d.enums[e] # Absent => c.enums[e] # Absent,
         d.tables[t].cols[x].type.enum \in Enums
  PROVE  c.enums[d.tables[t].cols[x].type.enum] # Absent
<1>1. t \in Present(d.tables) /\ x \in Present(d.tables[t].cols)
  BY FoundType DEF HasColumn, HasTable, Present, Schema, Table
<1> QED
  BY <1>1 DEF Migratable, NamesItsEnums, NamesEnums
-----------------------------------------------------------------------------
(***************************************************************************)
(* The operations, one by one: the statements the planner may take next    *)
(* are accepted, do what the builder thinks they do, and are undone by     *)
(* what the generator writes for the way back.                             *)
(***************************************************************************)
\* CREATE TYPE, and DROP TYPE back: no column names an enum that was not there.
LEMMA CreateEnumExecutes ==
  ASSUME NEW S, NEW c \in Schema, Settled(S, c), NEW e \in Enums, c.enums[e] = Absent,
         NEW values, values # Absent,
         NEW op, op = [op |-> "CreateEnum", enum |-> e, values |-> values],
         NEW r, Leads(GenerateOperation(op), c, r)
  PROVE  ExecutesAs(op, c, r) /\ Settled(S, r)
<1> DEFINE v == [stmt |-> "CREATE TYPE", enum |-> e, values |-> values]
           w == [stmt |-> "DROP TYPE", enum |-> e]
<1>1. GenerateOperation(op) = <<v>> /\ GenerateReverseOperation(op) = <<w>>
  <2>1. GenerateOperation(op) = <<v>>
    BY DEF GenerateOperation
  <2>2. GenerateReverseOperation(op) = <<w>>
    BY DEF GenerateReverseOperation, IsIrreversible
  <2> QED
    BY <2>1, <2>2
<1>2. r = [c EXCEPT !.enums[e] = values] /\ Executed(v, c) = {r}
  <2>1. Applied(v, c) = {r}
    <3>1. Leads(<<v>>, c, r)
      BY <1>1, Zenon
    <3> HIDE DEF v
    <3> QED
      BY <3>1, LeadsOne
  <2>2. Applied(v, c) = ApplyCreateType(v, c) /\ Executed(v, c) = ApplyCreateType(v, c)
    BY DEF Applied, Executed
  <2> QED
    BY <2>1, <2>2 DEF ApplyCreateType, When
<1>3. /\ r.tables = c.tables
      /\ \A x \in Enums : r.enums[x] = IF x = e THEN values ELSE c.enums[x]
      /\ [r EXCEPT !.enums[e] = Absent] = c
  BY <1>2 DEF Schema
<1>4. Settled(S, r)
  <2>1. ASSUME NEW b, NamesEnums(b, c.enums) PROVE NamesEnums(b, r.enums)
    BY <1>3, <2>1 DEF NamesEnums
  <2>2. ASSUME NEW t, NEW b, SettledTable(S, c.enums, t, b) PROVE SettledTable(S, r.enums, t, b)
    BY <2>1, <2>2 DEF SettledTable
  <2> QED
    BY <1>3, <2>2 DEF Settled
<1>5. ~UsesEnum(r, e)
  <2> SUFFICES ASSUME NEW t \in Present(c.tables), NEW x \in Present(c.tables[t].cols),
                      c.tables[t].cols[x].type.enum = e
               PROVE  FALSE
    BY <1>3 DEF UsesEnum
  <2>1. t \in Tables /\ c.tables[t] # Absent
    BY DEF Present, Schema
  <2>2. NamesEnums(c.tables[t], c.enums)
    BY <2>1 DEF Settled, SettledTable
  <2> QED
    BY <2>2 DEF NamesEnums
<1>6. Executed(w, r) = {c}
  <2>1. Executed(w, r) = ExecuteDropType(w, r)
    BY DEF Executed
  <2> QED
    BY <1>3, <1>5, <2>1 DEF ExecuteDropType, When
<1> HIDE DEF v, w
<1> QED
  BY <1>1, <1>2, <1>4, <1>6, ExecuteOne DEF ExecutesAs

\* DROP TABLE: nothing refers to the table.
LEMMA DropTableExecutes ==
  ASSUME NEW S, NEW c, Known(S, c), Settled(S, c), NEW t \in Tables,
         NEW op, op = [op |-> "DropTable", table |-> t],
         NEW r, Leads(GenerateOperation(op), c, r)
  PROVE  ExecutesAs(op, c, r) /\ Settled(S, r)
<1> DEFINE v == [stmt |-> "DROP TABLE", table |-> t]
<1>1. GenerateOperation(op) = <<v>> /\ IsIrreversible(op) /\ c \in Schema
  BY DEF GenerateOperation, IsIrreversible, Known
<1>2. HasTable(c, t) /\ r = SetTable(c, t, Absent)
  <2>1. Applied(v, c) = {r}
    <3>1. Leads(<<v>>, c, r)
      BY <1>1, Zenon
    <3> HIDE DEF v
    <3> QED
      BY <3>1, LeadsOne
  <2>2. Applied(v, c) = ApplyDropTable(v, c)
    BY DEF Applied
  <2> QED
    BY <2>1, <2>2 DEF ApplyDropTable, When
<1>3. Executed(v, c) = {r}
  <2>1. Executed(v, c) = ExecuteDropTable(v, c)
    BY DEF Executed
  <2> QED
    BY <1>2, <2>1, NothingRefers DEF ExecuteDropTable, When
<1>4. Settled(S, r)
  BY <1>1, <1>2, SettledStep
<1> HIDE DEF v
<1> QED
  BY <1>1, <1>3, <1>4, ExecuteOne DEF ExecutesAs

\* CREATE TABLE, and DROP TABLE back: no column of a primary key is optional, every enum
\* is there, and no foreign key points at the new table.
LEMMA CreateTableExecutes ==
  ASSUME NEW S, S \subseteq Schema, Migratable(S), NEW d \in S, NEW c, Known(S, c), Settled(S, c),
         NEW t \in Tables, c.tables[t] = Absent, d.tables[t] # Absent,
         \A e \in Enums : d.enums[e] # Absent => c.enums[e] # Absent,
         NEW op, op = [op |-> "CreateTable", table |-> t, tabledef |-> d.tables[t]],
         NEW r, Known(S, r), Leads(GenerateOperation(op), c, r)
  PROVE  ExecutesAs(op, c, r) /\ Settled(S, r)
<1> DEFINE a == d.tables[t]
           new == [a EXCEPT !.indexes = {}, !.fks = {}]
           v == [stmt |-> "CREATE TABLE", table |-> t, tabledef |-> new]
           w == [stmt |-> "DROP TABLE", table |-> t]
<1>1. c \in Schema /\ d \in Schema /\ a \in Table /\ Replayable(S)
  BY DesiredIsKnown DEF Known, Migratable
<1>2. /\ new \in Table /\ new # Absent /\ new.cols = a.cols /\ new.indexes = {}
      /\ new.pk = a.pk /\ new.uniques = a.uniques
  BY <1>1, AbsentAssumption DEF Table
<1>3. GenerateOperation(op) = <<v>> /\ GenerateReverseOperation(op) = <<w>>
  <2>1. CreateTable(t, a) = v
    BY <1>1, CreateTableSays
  <2>2. GenerateOperation(op) = <<CreateTable(t, a)>> /\ GenerateReverseOperation(op) = <<w>>
    <3>1. GenerateOperation(op) = <<CreateTable(t, a)>>
      BY DEF GenerateOperation
    <3>2. GenerateReverseOperation(op) = <<w>>
      BY DEF GenerateReverseOperation, IsIrreversible
    <3> QED
      BY <3>1, <3>2
  <2> QED
    BY <2>1, <2>2, Zenon
<1>4. r = SetTable(c, t, new)
  <2>1. Applied(v, c) = {r}
    <3>1. Leads(<<v>>, c, r)
      BY <1>3, Zenon
    <3> HIDE DEF v
    <3> QED
      BY <3>1, LeadsOne
  <2>2. Applied(v, c) = ApplyCreateTable(v, c)
    BY DEF Applied
  <2> QED
    BY <2>1, <2>2 DEF ApplyCreateTable, When
<1>5. HasSoundKeys(d) /\ t \in Present(d.tables)
  BY <1>1 DEF Migratable, Present, Schema
<1>6. WithKey(new) = new
  <2>1. ASSUME NEW x \in a.pk PROVE [a.cols[x] EXCEPT !.nullable = FALSE] = a.cols[x]
    <3>1. x \in Present(a.cols) /\ ~a.cols[x].nullable
      BY <1>5 DEF HasSoundKeys, KeyColumns
    <3>2. a.cols[x] \in Column
      BY <1>1, <3>1 DEF Present, Table
    <3> QED
      BY <3>1, <3>2 DEF Column
  <2> DEFINE cols == [x \in Columns |-> IF x \in new.pk THEN [new.cols[x] EXCEPT !.nullable = FALSE]
                                        ELSE new.cols[x]]
  <2>2. cols = a.cols
    BY <1>1, <1>2, <2>1 DEF Table
  <2>3. WithKey(new) = [new EXCEPT !.cols = cols]
    BY Zenon DEF WithKey
  <2> HIDE DEF cols, new
  <2> QED
    BY <1>2, <2>2, <2>3 DEF Table
<1>7. \A x \in Present(new.cols) : ColumnFits(new.cols[x], c)
  <2> SUFFICES ASSUME NEW x \in Present(a.cols) PROVE ColumnFits(a.cols[x], c)
    BY <1>2
  <2>1. x \in Columns /\ HasColumn(d, t, x)
    BY <1>1 DEF Present, Table, HasColumn, HasTable
  <2> QED
    BY <1>1, <2>1, ColumnIsTaken
<1>8. SettledTable(S, c.enums, t, new)
  <2>1. NamesEnums(new, c.enums)
    <3> SUFFICES ASSUME NEW x \in Present(a.cols), a.cols[x].type.enum \in Enums
                 PROVE  c.enums[a.cols[x].type.enum] # Absent
      BY <1>2 DEF NamesEnums
    <3>1. x \in Columns /\ HasColumn(d, t, x)
      BY <1>1 DEF Present, Table, HasColumn, HasTable
    <3> QED
      BY <3>1, EnumsAreThere, SMTT(30)
  <2>2. KeyColumns(new) \subseteq Present(new.cols)
    BY <1>2, <1>5 DEF HasSoundKeys, KeyColumns
  <2> HIDE DEF new
  <2> QED
    BY <1>2, <2>1, <2>2, SMTT(30) DEF SettledTable, HasTable
<1> HIDE DEF new
<1>9. Executed(v, c) = {r}
  <2>1. Executed(v, c) = ExecuteCreateTable(v, c)
    BY DEF Executed
  <2>2. ~HasTable(c, t)
    BY DEF HasTable
  <2> QED
    BY <1>4, <1>6, <1>7, <2>1, <2>2 DEF ExecuteCreateTable, When
<1>10. Executed(w, r) = {c}
  <2>1. Executed(w, r) = ExecuteDropTable(w, r)
    BY DEF Executed
  <2>2. Referencing(r, t) = {}
    BY NothingRefers
  <2>3. HasTable(r, t) /\ SetTable(r, t, Absent) = c
    BY <1>1, <1>2, <1>4 DEF HasTable, SetTable, Schema
  <2> QED
    BY <2>1, <2>2, <2>3 DEF ExecuteDropTable, When
<1>11. Settled(S, r)
  BY <1>1, <1>2, <1>4, <1>8, SettledStep
<1> HIDE DEF v, w
<1> QED
  BY <1>3, <1>9, <1>10, <1>11, ExecuteOne DEF ExecutesAs

\* On a table of both sides the keys are the same, and they and the indexes that are
\* wanted are on columns that are wanted.
LEMMA KeysAgree ==
  ASSUME NEW S, S \subseteq Schema, Migratable(S), NEW d \in S, NEW c, Settled(S, c),
         NEW t \in Tables, HasTable(c, t), HasTable(d, t)
  PROVE  /\ c.tables[t].pk = d.tables[t].pk /\ c.tables[t].uniques = d.tables[t].uniques
         /\ KeyColumns(c.tables[t]) \subseteq Present(d.tables[t].cols)
         /\ \A x \in c.tables[t].pk : ~d.tables[t].cols[x].nullable
         /\ \A i \in d.tables[t].indexes : Range(i.cols) \subseteq Present(d.tables[t].cols)
<1>1. PICK s \in S : /\ HasTable(s, t) /\ c.tables[t].pk = s.tables[t].pk
                     /\ c.tables[t].uniques = s.tables[t].uniques
  BY DEF Settled, SettledTable, HasTable
<1>2. t \in Present(s.tables) \cap Present(d.tables)
  BY <1>1 DEF HasTable, Present, Schema
<1>3. s.tables[t].pk = d.tables[t].pk /\ s.tables[t].uniques = d.tables[t].uniques
  BY <1>2 DEF Migratable, HaveSameKeys
<1>4. KeyColumns(c.tables[t]) = KeyColumns(d.tables[t])
  BY <1>1, <1>3 DEF KeyColumns
<1>5. HasSoundKeys(d)
  BY DEF Migratable
<1> QED
  BY <1>1, <1>2, <1>3, <1>4, <1>5 DEF HasSoundKeys

\* A column that no key and no index is on goes alone.
LEMMA NothingElseGoes ==
  ASSUME NEW b \in Table, b.fks = {}, NEW x \in Columns, x \notin KeyColumns(b),
         \A i \in b.indexes : x \notin Range(i.cols)
  PROVE  WithoutColumn(b, x) = WithColumn(b, x, Absent)
<1>1. WithoutColumn(b, x) =
        [cols |-> [b.cols EXCEPT ![x] = Absent], pk |-> b.pk, uniques |-> b.uniques,
         indexes |-> b.indexes, fks |-> b.fks]
  <2>1. x \notin b.pk /\ \A u \in b.uniques : x \notin u
    BY DEF KeyColumns
  <2>2. {u \in b.uniques : x \notin u} = b.uniques
    BY <2>1
  <2>3. {i \in b.indexes : x \notin Range(i.cols)} = b.indexes
    OBVIOUS
  <2>4. {k \in b.fks : x \notin Range(k.cols)} = b.fks
    OBVIOUS
  <2> QED
    BY <2>1, <2>2, <2>3, <2>4, Zenon DEF WithoutColumn
<1> QED
  BY <1>1 DEF WithColumn, Table

\* A column of a type that is there keeps a table settled.
LEMMA SettledColumn ==
  ASSUME NEW S, NEW enums, NEW t, NEW b \in Table, SettledTable(S, enums, t, b),
         NEW x \in Columns, NEW new \in Column,
         new.type.enum \in Enums => enums[new.type.enum] # Absent
  PROVE  SettledTable(S, enums, t, WithColumn(b, x, new))
<1> DEFINE r == WithColumn(b, x, new)
<1>1. /\ r.pk = b.pk /\ r.uniques = b.uniques /\ r.indexes = b.indexes
      /\ DOMAIN r.cols = Columns /\ DOMAIN b.cols = Columns
      /\ \A y \in Columns : r.cols[y] = IF y = x THEN new ELSE b.cols[y]
  BY DEF WithColumn, Table
<1>2. KeyColumns(r) = KeyColumns(b) /\ Present(b.cols) \subseteq Present(r.cols)
  BY <1>1, AbsentAssumption DEF KeyColumns, Present
<1>3. NamesEnums(r, enums)
  <2> SUFFICES ASSUME NEW y \in Present(r.cols), r.cols[y].type.enum \in Enums
               PROVE  enums[r.cols[y].type.enum] # Absent
    BY DEF NamesEnums
  <2>1. CASE y = x
    BY <1>1, <2>1
  <2>2. CASE y # x
    <3>1. y \in Present(b.cols) /\ r.cols[y] = b.cols[y]
      BY <1>1, <2>2 DEF Present
    <3> QED
      BY <3>1 DEF SettledTable, NamesEnums
  <2> QED
    BY <2>1, <2>2
<1> HIDE DEF r
<1>4. SettledTable(S, enums, t, r)
  BY <1>1, <1>2, <1>3 DEF SettledTable
<1> QED
  BY <1>4 DEF r

\* ADD COLUMN, and DROP COLUMN back: nothing is on the column yet.
LEMMA AddColumnExecutes ==
  ASSUME NEW S, S \subseteq Schema, Migratable(S), NEW d \in S, NEW c, Known(S, c), Settled(S, c),
         NEW t \in Tables, HasTable(c, t), NEW x \in Columns, HasColumn(d, t, x),
         c.tables[t].cols[x] = Absent,
         \A e \in Enums : d.enums[e] # Absent => c.enums[e] # Absent,
         NEW op, op = [op |-> "AddColumn", table |-> t, column |-> x,
                       coldef |-> d.tables[t].cols[x]],
         NEW r, Known(S, r), Leads(GenerateOperation(op), c, r)
  PROVE  ExecutesAs(op, c, r) /\ Settled(S, r)
<1> DEFINE b == c.tables[t]
           new == d.tables[t].cols[x]
           wide == WithColumn(b, x, new)
           v == [stmt |-> "ADD COLUMN", table |-> t, column |-> x, coldef |-> new]
           w == [stmt |-> "DROP COLUMN", table |-> t, column |-> x]
<1>1. c \in Schema /\ d \in Schema /\ Replayable(S)
  BY DEF Known, Migratable
<1>2. b \in Table /\ new \in Column /\ HasTable(d, t)
  BY <1>1, FoundType DEF HasColumn
<1>3. Format(new) = new
  BY <1>1, ColumnReadable
<1>4. GenerateOperation(op) = <<v>> /\ GenerateReverseOperation(op) = <<w>>
  <2>1. GenerateOperation(op) =
          <<[stmt |-> "ADD COLUMN", table |-> t, column |-> x, coldef |-> Format(new)]>>
    BY DEF GenerateOperation
  <2>2. GenerateReverseOperation(op) = <<w>>
    BY DEF GenerateReverseOperation, IsIrreversible, OnColumn
  <2> QED
    BY <1>3, <2>1, <2>2, Zenon
<1>5. r = SetColumn(c, t, x, new)
  <2>1. Applied(v, c) = {r}
    <3>1. Leads(<<v>>, c, r)
      BY <1>4, Zenon
    <3> HIDE DEF v
    <3> QED
      BY <3>1, LeadsOne
  <2>2. Applied(v, c) = ApplyAddColumn(v, c)
    BY DEF Applied
  <2> QED
    BY <2>1, <2>2 DEF ApplyAddColumn, When
<1>6. Executed(v, c) = {r}
  <2>1. Executed(v, c) = ExecuteAddColumn(v, c)
    BY DEF Executed
  <2>2. ~HasColumn(c, t, x)
    BY DEF HasColumn
  <2>3. ColumnFits(new, c)
    BY <1>1, ColumnIsTaken
  <2> QED
    BY <1>5, <2>1, <2>2, <2>3 DEF ExecuteAddColumn, When
<1>7. r = SetTable(c, t, wide) /\ r \in Schema
  BY <1>1, <1>2, <1>5, SetColumnTwice
<1>8. /\ wide \in Table /\ wide.pk = b.pk /\ wide.uniques = b.uniques
      /\ wide.indexes = b.indexes /\ wide.fks = b.fks
      /\ \A y \in Columns : wide.cols[y] = IF y = x THEN new ELSE b.cols[y]
  BY <1>2 DEF WithColumn, Table
<1>9. SettledTable(S, c.enums, t, b)
  BY DEF Settled, HasTable
<1>10. SettledTable(S, c.enums, t, wide)
  <2>1. new.type.enum \in Enums => c.enums[new.type.enum] # Absent
    BY EnumsAreThere, SMTT(30)
  <2> QED
    BY <1>2, <1>9, <2>1, SettledColumn, SMTT(30)
<1>11. Settled(S, r)
  BY <1>1, <1>7, <1>8, <1>10, SettledStep
<1>12. r.tables[t] = wide /\ SetTable(r, t, b) = c
  <2> HIDE DEF wide
  <2> QED
    BY <1>1, <1>7 DEF SetTable, Schema
<1>13. WithoutColumn(wide, x) = b
  <2>1. x \notin Present(b.cols)
    BY DEF Present
  <2>2. x \notin KeyColumns(wide) /\ \A i \in wide.indexes : x \notin Range(i.cols)
    BY <1>8, <1>9, <2>1, SMTT(30) DEF SettledTable, KeyColumns
  <2>3. wide.fks = {}
    BY <1>8 DEF Known, KnownTable, HasTable
  <2>4. WithoutColumn(wide, x) = WithColumn(wide, x, Absent)
    <3> HIDE DEF wide
    <3> QED
      BY <1>8, <2>2, <2>3, NothingElseGoes
  <2>5. WithColumn(wide, x, Absent) = b
    BY <1>2 DEF WithColumn, Table
  <2> QED
    BY <2>4, <2>5, Zenon
<1>14. Executed(w, r) = {c}
  <2>1. Executed(w, r) = ExecuteDropColumn(w, r)
    BY DEF Executed
  <2>2. Referencing(r, t) = {}
    BY NothingRefers
  <2>3. HasColumn(r, t, x)
    <3> HIDE DEF wide
    <3> QED
      BY <1>2, <1>8, <1>12, AbsentAssumption DEF HasColumn, HasTable
  <2> HIDE DEF wide
  <2> QED
    BY <1>12, <1>13, <2>1, <2>2, <2>3 DEF ExecuteDropColumn, When
<1> HIDE DEF v, w
<1> QED
  BY <1>4, <1>6, <1>11, <1>14, ExecuteOne DEF ExecutesAs

\* DROP COLUMN takes nothing with it: the keys are on columns that stay, and so are the
\* indexes, once those to be dropped are.
LEMMA DropColumnExecutes ==
  ASSUME NEW S, S \subseteq Schema, Migratable(S), NEW d \in S, NEW c, Known(S, c), Settled(S, c),
         NEW t \in Tables, NEW x \in Columns, HasColumn(c, t, x), HasTable(d, t),
         d.tables[t].cols[x] = Absent,
         \A i \in c.tables[t].indexes : \E j \in d.tables[t].indexes : j.cols = i.cols,
         NEW op, op = [op |-> "DropColumn", table |-> t, column |-> x],
         NEW r, Leads(GenerateOperation(op), c, r)
  PROVE  ExecutesAs(op, c, r) /\ Settled(S, r)
<1> DEFINE b == c.tables[t]
           narrow == WithColumn(b, x, Absent)
           v == [stmt |-> "DROP COLUMN", table |-> t, column |-> x]
<1>1. c \in Schema /\ d \in Schema /\ HasTable(c, t) /\ b \in Table
  BY FoundType DEF Known, HasColumn
<1>2. GenerateOperation(op) = <<v>> /\ IsIrreversible(op)
  BY DEF GenerateOperation, OnColumn, IsIrreversible
<1>3. r = SetColumn(c, t, x, Absent)
  <2>1. Applied(v, c) = {r}
    <3>1. Leads(<<v>>, c, r)
      BY <1>2, Zenon
    <3> HIDE DEF v
    <3> QED
      BY <3>1, LeadsOne
  <2>2. Applied(v, c) = ApplyDropColumn(v, c)
    BY DEF Applied
  <2> QED
    BY <2>1, <2>2 DEF ApplyDropColumn, When
<1>4. r = SetTable(c, t, narrow)
  BY <1>1, <1>3, SetColumnTwice
<1>5. /\ x \notin Present(d.tables[t].cols)
      /\ KeyColumns(b) \subseteq Present(d.tables[t].cols)
      /\ \A i \in d.tables[t].indexes : Range(i.cols) \subseteq Present(d.tables[t].cols)
  BY <1>1, KeysAgree DEF Present
<1>6. x \notin KeyColumns(b) /\ \A i \in b.indexes : x \notin Range(i.cols)
  <2>1. \A i \in b.indexes : Range(i.cols) \subseteq Present(d.tables[t].cols)
    BY <1>5, Zenon
  <2> QED
    BY <1>5, <2>1
<1>7. Executed(v, c) = {r}
  <2>1. Executed(v, c) = ExecuteDropColumn(v, c)
    BY DEF Executed
  <2>2. Referencing(c, t) = {}
    BY NothingRefers
  <2>3. b.fks = {}
    BY <1>1 DEF Known, KnownTable, HasTable
  <2>4. WithoutColumn(b, x) = narrow
    BY <1>1, <1>6, <2>3, NothingElseGoes
  <2> HIDE DEF narrow
  <2> QED
    BY <1>4, <2>1, <2>2, <2>4 DEF ExecuteDropColumn, When
<1>8. Settled(S, r)
  <2>1. /\ narrow \in Table /\ narrow.pk = b.pk /\ narrow.uniques = b.uniques
        /\ narrow.indexes = b.indexes
        /\ \A y \in Columns : narrow.cols[y] = IF y = x THEN Absent ELSE b.cols[y]
    BY <1>1 DEF WithColumn, Table
  <2>2. SettledTable(S, c.enums, t, b)
    BY <1>1 DEF Settled, HasTable
  <2> HIDE DEF narrow, b
  <2>3. Present(narrow.cols) = Present(b.cols) \ {x} /\ KeyColumns(narrow) = KeyColumns(b)
    BY <1>1, <2>1 DEF Present, Table, KeyColumns
  <2>4. NamesEnums(narrow, c.enums)
    <3>1. NamesEnums(b, c.enums)
      BY <2>2 DEF SettledTable
    <3>2. \A y \in Present(narrow.cols) : y \in Present(b.cols) /\ narrow.cols[y] = b.cols[y]
      BY <1>1, <2>1, <2>3 DEF Present, Table
    <3> QED
      BY <3>1, <3>2 DEF NamesEnums
  <2>5. SettledTable(S, c.enums, t, narrow)
    BY <1>6, <2>1, <2>2, <2>3, <2>4 DEF SettledTable
  <2> QED
    BY <1>1, <1>4, <2>1, <2>5, SettledStep
<1> HIDE DEF v
<1> QED
  BY <1>2, <1>7, <1>8, ExecuteOne DEF ExecutesAs

\* Other indexes on the same columns keep a table settled.
LEMMA SettledIndexes ==
  ASSUME NEW S, NEW enums, NEW t, NEW b \in Table, SettledTable(S, enums, t, b),
         NEW new \in SUBSET Index, \A i \in new : Range(i.cols) \subseteq Present(b.cols)
  PROVE  SettledTable(S, enums, t, WithIndexes(b, new))
<1> DEFINE r == WithIndexes(b, new)
<1>1. r.cols = b.cols /\ r.pk = b.pk /\ r.uniques = b.uniques /\ r.indexes = new
  BY DEF WithIndexes, Table
<1>2. KeyColumns(r) = KeyColumns(b)
  BY <1>1 DEF KeyColumns
<1>3. NamesEnums(r, enums)
  BY <1>1 DEF SettledTable, NamesEnums
<1> HIDE DEF r
<1>4. SettledTable(S, enums, t, r)
  BY <1>1, <1>2, <1>3 DEF SettledTable
<1> QED
  BY <1>4 DEF r

\* The table whose indexes are exchanged gets no others, and they can be put back.
LEMMA IndexesBack ==
  ASSUME NEW c \in Schema, NEW t \in Tables, HasTable(c, t), NEW new \in SUBSET Index
  PROVE  /\ SetIndexes(c, t, new) \in Schema
         /\ SetIndexes(c, t, new) = SetTable(c, t, WithIndexes(c.tables[t], new))
         /\ WithIndexes(c.tables[t], new) \in Table
         /\ HasTable(SetIndexes(c, t, new), t)
         /\ SetIndexes(c, t, new).tables[t].indexes = new
         /\ SetIndexes(c, t, new).tables[t].cols = c.tables[t].cols
         /\ SetIndexes(SetIndexes(c, t, new), t, c.tables[t].indexes) = c
<1> DEFINE b == c.tables[t]
           a == WithIndexes(b, new)
           r == SetIndexes(c, t, new)
<1>1. b \in Table
  BY FoundType
<1>2. r = SetTable(c, t, a)
  BY DEF SetIndexes, SetTable, WithIndexes
<1>3. a \in Table /\ a.cols = b.cols /\ a.indexes = new /\ WithIndexes(a, b.indexes) = b
  BY <1>1 DEF WithIndexes, Table
<1>4. SetTable(c, t, a).tables[t] = a /\ SetTable(SetTable(c, t, a), t, b) = c
  <2> HIDE DEF a
  <2> QED
    BY DEF SetTable, Schema
<1>5. SetIndexes(r, t, b.indexes) = SetTable(r, t, WithIndexes(r.tables[t], b.indexes))
  BY DEF SetIndexes, SetTable, WithIndexes
<1>6. r \in Schema
  BY <1>1, SetIndexesType
<1> HIDE DEF a, r
<1>7. r.tables[t] = a /\ a # Absent
  BY <1>2, <1>3, <1>4, AbsentAssumption
<1>8. SetIndexes(r, t, b.indexes) = c
  BY <1>2, <1>3, <1>4, <1>5, <1>7
<1> QED
  BY <1>2, <1>3, <1>6, <1>7, <1>8 DEF a, r, HasTable

IsOnlyNamed(c, t, j) ==
  \A u \in Tables : HasTable(c, u) =>
    \A i \in c.tables[u].indexes : i.name = j.name => u = t /\ i = j

IsFreeName(c, name) ==
  \A u \in Tables : HasTable(c, u) => \A i \in c.tables[u].indexes : i.name # name

\* DROP INDEX of a name that one index of one table has.
LEMMA DropIndexTakes ==
  ASSUME NEW c \in Schema, NEW t \in Tables, HasTable(c, t), NEW j \in c.tables[t].indexes,
         IsOnlyNamed(c, t, j),
         NEW v, v.name = j.name,
         NEW new, new = c.tables[t].indexes \ {j}
  PROVE  ApplyDropIndex(v, c) = {SetIndexes(c, t, new)}
<1>1. {u \in Present(c.tables) : v.name \in IndexNamesOf(c, u)} = {t}
  <2>1. t \in Present(c.tables) /\ v.name \in IndexNamesOf(c, t)
    BY DEF Present, HasTable, Schema, IndexNamesOf
  <2>2. ASSUME NEW u \in Present(c.tables), v.name \in IndexNamesOf(c, u)
        PROVE  u = t
    <3>1. u \in Tables /\ HasTable(c, u)
      BY DEF Present, HasTable, Schema
    <3>2. PICK i \in c.tables[u].indexes : i.name = v.name
      BY <2>2 DEF IndexNamesOf
    <3> QED
      BY <3>1, <3>2 DEF IsOnlyNamed
  <2> QED
    BY <2>1, <2>2
<1>2. {i \in c.tables[t].indexes : i.name # v.name} = new
  BY DEF IsOnlyNamed
<1>3. ApplyDropIndex(v, c) = {SetIndexes(c, t, {i \in c.tables[t].indexes : i.name # v.name})}
  BY <1>1 DEF ApplyDropIndex
<1> QED
  BY <1>2, <1>3

\* CREATE INDEX of a name that is free, on columns that are there.
LEMMA CreateIndexTakes ==
  ASSUME NEW c \in Schema, NEW t \in Tables, HasTable(c, t), NEW j \in Index,
         Range(j.cols) \subseteq Present(c.tables[t].cols),
         IsFreeName(c, j.name),
         NEW v, v.table = t, v.index = j,
         NEW new, new = c.tables[t].indexes \cup {j}
  PROVE  ExecuteCreateIndex(v, c) = {SetIndexes(c, t, new)}
<1>1. \A u \in Present(c.tables) : v.index.name \notin IndexNamesOf(c, u)
  BY DEF Present, HasTable, Schema, IndexNamesOf, IsFreeName
<1>2. \A x \in Range(v.index.cols) : HasColumn(c, v.table, x)
  BY DEF HasColumn, Present
<1> QED
  BY <1>1, <1>2, Zenon DEF ExecuteCreateIndex, When

\* CREATE INDEX comes after ADD COLUMN, and DROP INDEX back finds no other of the name.
LEMMA CreateIndexExecutes ==
  ASSUME NEW S, S \subseteq Schema, Migratable(S), NEW d \in S, NEW c, Known(S, c), Settled(S, c),
         NEW t \in Tables, HasTable(c, t), HasTable(d, t), NEW i \in d.tables[t].indexes,
         i \in UnmatchedIndexes(d.tables[t].indexes, c.tables[t].indexes),
         Present(d.tables[t].cols) \subseteq Present(c.tables[t].cols),
         NEW op, op = [op |-> "CreateIndex", table |-> t, index |-> i],
         NEW r, Leads(GenerateOperation(op), c, r)
  PROVE  ExecutesAs(op, c, r) /\ Settled(S, r)
<1> DEFINE b == c.tables[t]
           named == [i EXCEPT !.name = IndexName(t, i)]
           v == [stmt |-> "CREATE INDEX", table |-> t, index |-> named]
           w == [stmt |-> "DROP INDEX", name |-> named.name]
           new == b.indexes \cup {named}
<1>1. c \in Schema /\ d \in Schema /\ Replayable(S)
  BY DEF Known, Migratable
<1>2. b \in Table /\ i \in Index
  BY <1>1, FoundType DEF Table
<1>3. named \in Index /\ named.cols = i.cols /\ named.name = IndexName(t, i)
  BY <1>2, IndexNameType DEF Index
<1>4. new \in SUBSET Index
  BY <1>2, <1>3 DEF Table
<1>5. i \in IndexesAt(S, t)
  BY <1>1, DesiredIsKnown DEF HasTable
<1>6. \A j \in b.indexes : j.cols # i.cols
  BY DEF UnmatchedIndexes
<1>7. IsFreeName(c, named.name)
  <2> SUFFICES ASSUME NEW u \in Tables, HasTable(c, u), NEW j \in c.tables[u].indexes,
                      j.name = named.name
               PROVE  FALSE
    BY DEF IsFreeName
  <2>1. u = t /\ j.cols = i.cols
    BY <1>1, <1>3, <1>5, NamesAreDistinct
  <2> QED
    BY <1>6, <2>1
<1>8. Range(named.cols) \subseteq Present(b.cols)
  <2>1. Range(i.cols) \subseteq Present(d.tables[t].cols)
    BY KeysAgree
  <2> QED
    BY <1>3, <2>1
<1>9. GenerateOperation(op) = <<v>> /\ GenerateReverseOperation(op) = <<w>>
  <2>1. GenerateOperation(op) = <<v>>
    BY DEF GenerateOperation, CreateIndex
  <2>2. GenerateReverseOperation(op) = <<DropIndex(t, i)>>
    BY DEF GenerateReverseOperation, IsIrreversible
  <2> QED
    BY <1>3, <2>1, <2>2 DEF DropIndex
<1> HIDE DEF named
<1>10. r = SetIndexes(c, t, new)
  <2>1. Applied(v, c) = {r}
    <3>1. Leads(<<v>>, c, r)
      BY <1>9, Zenon
    <3> HIDE DEF v
    <3> QED
      BY <3>1, LeadsOne
  <2>2. Applied(v, c) = ApplyCreateIndex(v, c)
    BY DEF Applied
  <2> QED
    BY <2>1, <2>2 DEF ApplyCreateIndex, When
<1>11. Executed(v, c) = {r}
  <2>1. Executed(v, c) = ExecuteCreateIndex(v, c)
    BY DEF Executed
  <2>2. ExecuteCreateIndex(v, c) = {SetIndexes(c, t, new)}
    <3>1. /\ v.table = t /\ v.index = named
          /\ new = c.tables[t].indexes \cup {named}
      OBVIOUS
    <3> HIDE DEF v, new
    <3> QED
      BY <1>1, <1>3, <1>7, <1>8, <3>1, CreateIndexTakes
  <2> QED
    BY <1>10, <2>1, <2>2
<1>12. /\ r \in Schema /\ HasTable(r, t) /\ r.tables[t].indexes = new
       /\ r = SetTable(c, t, WithIndexes(b, new)) /\ WithIndexes(b, new) \in Table
       /\ SetIndexes(r, t, b.indexes) = c
  BY <1>1, <1>4, <1>10, IndexesBack
<1>13. Settled(S, r)
  <2>1. SettledTable(S, c.enums, t, b)
    BY DEF Settled, HasTable
  <2>2. \A j \in new : Range(j.cols) \subseteq Present(b.cols)
    BY <1>8, <2>1 DEF SettledTable
  <2>3. SettledTable(S, c.enums, t, WithIndexes(b, new))
    BY <1>2, <1>4, <2>1, <2>2, SettledIndexes
  <2> QED
    BY <1>1, <1>12, <2>3, SettledStep
<1>14. Executed(w, r) = {c}
  <2>1. Executed(w, r) = ApplyDropIndex(w, r)
    BY DEF Executed
  <2>2. named \in r.tables[t].indexes
    BY <1>12
  <2>3. IsOnlyNamed(r, t, named)
    <3> SUFFICES ASSUME NEW u \in Tables, HasTable(r, u), NEW j \in r.tables[u].indexes,
                        j.name = named.name
                 PROVE  u = t /\ j = named
      BY DEF IsOnlyNamed
    <3>1. CASE u = t
      BY <1>7, <1>12, <3>1 DEF IsFreeName
    <3>2. CASE u # t
      <4>1. r.tables[u] = c.tables[u]
        BY <1>1, <1>12, <3>2 DEF SetTable, Schema
      <4> QED
        BY <1>7, <4>1 DEF HasTable, IsFreeName
    <3> QED
      BY <3>1, <3>2
  <2>4. b.indexes = r.tables[t].indexes \ {named}
    BY <1>7, <1>12 DEF IsFreeName
  <2>5. ApplyDropIndex(w, r) = {SetIndexes(r, t, b.indexes)}
    <3>1. w.name = named.name
      OBVIOUS
    <3> HIDE DEF w, b, new
    <3> QED
      BY <1>12, <2>2, <2>3, <2>4, <3>1, DropIndexTakes
  <2> QED
    BY <1>12, <2>1, <2>5
<1> HIDE DEF v, w
<1> QED
  BY <1>9, <1>11, <1>13, <1>14, ExecuteOne DEF ExecutesAs

\* DROP INDEX, and CREATE INDEX back under the name it had.
LEMMA DropIndexExecutes ==
  ASSUME NEW S, S \subseteq Schema, Migratable(S), NEW c, Known(S, c), Settled(S, c),
         NEW t \in Tables, HasTable(c, t), NEW i \in c.tables[t].indexes,
         NEW op, op = [op |-> "DropIndex", table |-> t, index |-> i],
         NEW r, Leads(GenerateOperation(op), c, r)
  PROVE  ExecutesAs(op, c, r) /\ Settled(S, r)
<1> DEFINE b == c.tables[t]
           v == [stmt |-> "DROP INDEX", name |-> i.name]
           w == [stmt |-> "CREATE INDEX", table |-> t, index |-> i]
           new == b.indexes \ {i}
<1>1. c \in Schema /\ Replayable(S)
  BY DEF Known, Migratable
<1>2. b \in Table /\ i \in Index /\ new \in SUBSET Index
  BY <1>1, FoundType DEF Table
<1>3. KnownTable(S, t, b)
  BY DEF Known, HasTable
<1>4. PICK k \in IndexesAt(S, t) : i = [k EXCEPT !.name = IndexName(t, k)]
  BY <1>3 DEF KnownTable
<1>5. i.cols = k.cols /\ i.name = IndexName(t, k) /\ IndexName(t, i) = i.name
  <2>1. k \in Index
    BY DEF IndexesAt, HasTable, Schema, Table
  <2>2. i.cols = k.cols /\ i.name = IndexName(t, k)
    BY <1>4, <2>1 DEF Index
  <2>3. <<"idx", t>> \o k.cols # << >>
    BY <2>1 DEF Index
  <2>4. IndexName(t, k) # NoName
    BY <2>3 DEF IndexName, NoName
  <2> QED
    BY <2>2, <2>4 DEF IndexName
<1>6. IsOnlyNamed(c, t, i)
  <2> SUFFICES ASSUME NEW u \in Tables, HasTable(c, u), NEW j \in c.tables[u].indexes,
                      j.name = i.name
               PROVE  u = t /\ j = i
    BY DEF IsOnlyNamed
  <2>1. u = t /\ j.cols = i.cols
    BY <1>1, <1>5, NamesAreDistinct
  <2> QED
    BY <1>3, <2>1 DEF KnownTable
<1>7. GenerateOperation(op) = <<v>> /\ GenerateReverseOperation(op) = <<w>>
  <2>1. GenerateOperation(op) = <<DropIndex(t, i)>>
    BY DEF GenerateOperation
  <2>2. GenerateReverseOperation(op) = <<CreateIndex(t, i)>>
    BY DEF GenerateReverseOperation, IsIrreversible
  <2>3. DropIndex(t, i) = v
    BY <1>5 DEF DropIndex
  <2>4. [i EXCEPT !.name = i.name] = i
    BY <1>2 DEF Index
  <2>5. CreateIndex(t, i) = w
    BY <1>5, <2>4 DEF CreateIndex
  <2> QED
    BY <2>1, <2>2, <2>3, <2>5, Zenon
<1>8. ApplyDropIndex(v, c) = {SetIndexes(c, t, new)}
  <2>1. /\ v.name = i.name
        /\ new = c.tables[t].indexes \ {i}
    OBVIOUS
  <2> HIDE DEF v, new
  <2> QED
    BY <1>1, <1>6, <2>1, DropIndexTakes
<1>9. Executed(v, c) = {r} /\ r = SetIndexes(c, t, new)
  <2>1. Applied(v, c) = {r}
    <3>1. Leads(<<v>>, c, r)
      BY <1>7, Zenon
    <3> HIDE DEF v
    <3> QED
      BY <3>1, LeadsOne
  <2>2. Applied(v, c) = ApplyDropIndex(v, c) /\ Executed(v, c) = ApplyDropIndex(v, c)
    BY DEF Applied, Executed
  <2> QED
    BY <1>8, <2>1, <2>2
<1>10. /\ r \in Schema /\ HasTable(r, t) /\ r.tables[t].indexes = new
       /\ r.tables[t].cols = b.cols
       /\ r = SetTable(c, t, WithIndexes(b, new)) /\ WithIndexes(b, new) \in Table
       /\ SetIndexes(r, t, b.indexes) = c
  <2>1. new \in SUBSET Index
    BY <1>2
  <2> HIDE DEF new
  <2> QED
    BY <1>1, <1>9, <2>1, IndexesBack, ZenonT(40)
<1>11. SettledTable(S, c.enums, t, b)
  BY DEF Settled, HasTable
<1>12. Settled(S, r)
  <2>1. SettledTable(S, c.enums, t, WithIndexes(b, new))
    <3>1. \A j \in new : Range(j.cols) \subseteq Present(b.cols)
      BY <1>11 DEF SettledTable
    <3> QED
      BY <1>2, <1>11, <3>1, SettledIndexes
  <2> QED
    BY <1>1, <1>10, <2>1, SettledStep
<1>13. Executed(w, r) = {c}
  <2>1. Executed(w, r) = ExecuteCreateIndex(w, r)
    BY DEF Executed
  <2>2. IsFreeName(r, i.name)
    <3> SUFFICES ASSUME NEW u \in Tables, HasTable(r, u), NEW j \in r.tables[u].indexes,
                        j.name = i.name
                 PROVE  FALSE
      BY DEF IsFreeName
    <3>1. CASE u = t
      BY <1>6, <1>10, <3>1 DEF IsOnlyNamed
    <3>2. CASE u # t
      <4>1. r.tables[u] = c.tables[u]
        BY <1>1, <1>10, <3>2 DEF SetTable, Schema
      <4> QED
        BY <1>6, <3>2, <4>1 DEF HasTable, IsOnlyNamed
    <3> QED
      BY <3>1, <3>2
  <2>3. Range(i.cols) \subseteq Present(r.tables[t].cols)
    BY <1>10, <1>11 DEF SettledTable
  <2>4. b.indexes = r.tables[t].indexes \cup {i}
    BY <1>10
  <2>5. ExecuteCreateIndex(w, r) = {SetIndexes(r, t, b.indexes)}
    <3>1. w.table = t /\ w.index = i
      OBVIOUS
    <3> HIDE DEF w, b, new
    <3> QED
      BY <1>2, <1>10, <2>2, <2>3, <2>4, <3>1, CreateIndexTakes
  <2> QED
    BY <1>10, <2>1, <2>5
<1> HIDE DEF v, w
<1> QED
  BY <1>7, <1>9, <1>12, <1>13, ExecuteOne DEF ExecutesAs

\* What the server asks of a change of column x from q to p.
MayChange(c, t, x, q, p) ==
  /\ Castable(q.type, p.type)
  /\ p.nullable => x \notin c.tables[t].pk
  /\ q.default # p.default => DefaultFits(q.type, p.default, c)

\* One statement of ALTER COLUMN is accepted for what it changes.
LEMMA AlterTakes ==
  ASSUME NEW c \in Schema, NEW t \in Tables, NEW x \in Columns, HasColumn(c, t, x),
         NEW q \in Column, NEW p \in Column, MayChange(c, t, x, q, p),
         NEW v, AltersColumn(v, t, x, c), AlteredColumn(v, q) = p, KeepsDefault(v, q, p)
  PROVE  Executed(v, SetColumn(c, t, x, q)) = {SetColumn(c, t, x, p)}
<1> DEFINE s == SetColumn(c, t, x, q)
           r == SetColumn(c, t, x, p)
<1>1. HasTable(c, t) /\ c.tables[t] \in Table
  BY FoundType DEF HasColumn
<1>2. /\ s \in Schema /\ HasTable(s, t) /\ s.tables[t].cols[x] = q
      /\ SetColumn(s, t, x, p) = r
  BY <1>1, SetTwoColumns
<1>3. s.enums = c.enums /\ s.tables[t].pk = c.tables[t].pk
  BY <1>1 DEF SetColumn, Schema, Table
<1> HIDE DEF s, r
<1>4. HasColumn(s, t, x)
  BY <1>2, AbsentAssumption DEF HasColumn
<1>5. v.table = t /\ v.column = x
  BY DEF AltersColumn
<1>6. MayAlter(v, s)
  <2>1. CASE v.stmt = "ALTER TYPE"
    <3>1. p.type = v.type
      BY <2>1 DEF AlteredColumn, Column
    <3>2. TypeExists(v.type, s)
      BY <1>3, <2>1 DEF AltersColumn, IsSupported, TypeExists, Present
    <3> QED
      BY <1>2, <1>5, <2>1, <3>1, <3>2 DEF MayAlter, MayChange
  <2>2. CASE v.stmt = "DROP NOT NULL"
    <3>1. p.nullable
      BY <2>2 DEF AlteredColumn, Column
    <3> QED
      BY <1>3, <1>5, <2>2, <3>1 DEF MayAlter, MayChange
  <2>3. CASE v.stmt = "SET DEFAULT"
    <3>1. DefaultFits(q.type, v.default, c)
      BY <2>3 DEF KeepsDefault, MayChange
    <3>2. DefaultFits(q.type, v.default, s)
      BY <1>3, <3>1 DEF DefaultFits
    <3> QED
      BY <1>2, <1>5, <2>3, <3>2 DEF MayAlter
  <2>4. CASE v.stmt \in {"SET NOT NULL", "DROP DEFAULT"}
    BY <2>4 DEF MayAlter
  <2> QED
    BY <2>1, <2>2, <2>3, <2>4 DEF AltersColumn
<1>7. (IF v.stmt = "SET DEFAULT" THEN [q EXCEPT !.default = v.default] ELSE AlteredColumn(v, q)) = p
  <2>1. CASE v.stmt = "SET DEFAULT"
    <3>1. p = [q EXCEPT !.default = WithoutCall(v.default)]
      BY <2>1 DEF AlteredColumn
    <3>2. p.default = v.default
      BY <2>1 DEF KeepsDefault
    <3> QED
      BY <2>1, <3>1, <3>2 DEF Column
  <2> QED
    BY <2>1
<1>8. Executed(v, s) = ExecuteAlterColumn(v, s)
  BY DEF Executed, AltersColumn
<1>9. ExecuteAlterColumn(v, s) = {SetColumn(s, t, x, p)}
  BY <1>2, <1>4, <1>5, <1>6, <1>7, Zenon DEF ExecuteAlterColumn, When
<1> QED
  BY <1>2, <1>8, <1>9 DEF s, r

\* And a clause, whether it is empty or not.
LEMMA ClauseExecutes ==
  ASSUME NEW c \in Schema, NEW t \in Tables, NEW x \in Columns, HasColumn(c, t, x),
         NEW q \in Column, NEW p \in Column, MayChange(c, t, x, q, p),
         NEW stmts, IsClause(stmts, t, x, c, q, p)
  PROVE  MustLead(stmts, SetColumn(c, t, x, q), SetColumn(c, t, x, p))
<1> USE DEF MustLead
<1>1. CASE stmts = << >> /\ q = p
  BY <1>1, ExecuteNone
<1>2. CASE \E v : stmts = <<v>> /\ AltersColumn(v, t, x, c) /\ AlteredColumn(v, q) = p
                  /\ KeepsDefault(v, q, p)
  <2>1. PICK v : stmts = <<v>> /\ AltersColumn(v, t, x, c) /\ AlteredColumn(v, q) = p
                 /\ KeepsDefault(v, q, p)
    BY <1>2
  <2>2. Executed(v, SetColumn(c, t, x, q)) = {SetColumn(c, t, x, p)}
    BY <2>1, AlterTakes
  <2> QED
    BY <2>1, <2>2, ExecuteOne
<1> QED
  BY <1>1, <1>2 DEF IsClause

\* The type, then the null, then the default, each as the server asks.
LEMMA ChangesMayBe ==
  ASSUME NEW S, S \subseteq Schema, Migratable(S), NEW d \in S, NEW c, Known(S, c), Settled(S, c),
         NEW t \in Tables, NEW x \in Columns, HasColumn(c, t, x), HasColumn(d, t, x),
         \A e \in Enums : d.enums[e] # Absent => c.enums[e] # Absent,
         NEW old, old = c.tables[t].cols[x], NEW new, new = d.tables[t].cols[x]
  PROVE  /\ MayChange(c, t, x, old, Retyped(old, new))
         /\ MayChange(c, t, x, Retyped(old, new), Renulled(old, new))
         /\ MayChange(c, t, x, Renulled(old, new), new)
<1>1. c \in Schema /\ d \in Schema /\ Replayable(S) /\ HasTable(c, t) /\ HasTable(d, t)
  BY DEF Known, Migratable, HasColumn
<1>2. /\ old \in Column /\ new \in Column
      /\ old \in ColumnsAt(S, t, x) /\ new \in ColumnsAt(S, t, x)
  BY <1>1, ChangesAreKnown
<1>3. Castable(old.type, new.type) /\ Castable(new.type, new.type)
  BY <1>2, SMTT(30) DEF Migratable, IsExecutableChange, Castable
<1>4. DefaultFits(new.type, new.default, c)
  BY <1>1, ColumnIsTaken DEF ColumnFits
<1>5. ASSUME x \in c.tables[t].pk PROVE ~old.nullable /\ ~new.nullable
  <2>1. ~new.nullable /\ c.tables[t].pk = d.tables[t].pk
    BY <1>1, <1>5, KeysAgree
  <2>2. PICK s \in S : HasColumn(s, t, x) /\ old = s.tables[t].cols[x]
    BY <1>2 DEF ColumnsAt
  <2>3. t \in Present(s.tables) \cap Present(d.tables)
    BY <1>1, <2>2 DEF HasColumn, HasTable, Present, Schema
  <2>4. s.tables[t].pk = d.tables[t].pk
    BY <2>3 DEF Migratable, HaveSameKeys
  <2>5. HasSoundKeys(s)
    BY DEF Migratable
  <2> QED
    BY <1>5, <2>1, <2>2, <2>3, <2>4, <2>5 DEF HasSoundKeys
<1>6. /\ Retyped(old, new).type = new.type /\ Renulled(old, new).type = new.type
      /\ Retyped(old, new).nullable = old.nullable
      /\ Renulled(old, new).nullable = new.nullable
      /\ Retyped(old, new).default = old.default /\ Renulled(old, new).default = old.default
  BY <1>2, RetypedType, SMTT(30)
<1> QED
  BY <1>3, <1>4, <1>5, <1>6 DEF MayChange

\* ALTER COLUMN, clause by clause.
LEMMA AlterColumnExecutes ==
  ASSUME NEW S, S \subseteq Schema, Migratable(S), NEW d \in S, NEW c, Known(S, c), Settled(S, c),
         NEW t \in Tables, NEW x \in Columns, HasColumn(c, t, x), HasColumn(d, t, x),
         \A e \in Enums : d.enums[e] # Absent => c.enums[e] # Absent,
         NEW op, op = AlterColumn(t, x, c.tables[t].cols[x], d.tables[t].cols[x]),
         NEW r, Leads(GenerateOperation(op), c, r)
  PROVE  ExecutesAs(op, c, r) /\ Settled(S, r)
<1> DEFINE at(q) == SetColumn(c, t, x, q)
<1>1. c \in Schema /\ d \in Schema /\ Replayable(S) /\ HasTable(c, t)
  BY DEF Known, Migratable, HasColumn
<1>2. PICK old, new : old = c.tables[t].cols[x] /\ new = d.tables[t].cols[x]
  OBVIOUS
<1>3. old \in Column /\ new \in Column /\ new.default.kind # "sequence"
  BY <1>1, <1>2, ChangesAreKnown
<1>4. IsSupported(new.type, c)
  BY <1>1, <1>2, ColumnReadable
<1>5. IsReadableChange(old, new)
  BY <1>1, <1>2, ChangesAreKnown DEF Replayable
<1>6. at(old) = c
  BY <1>1, <1>2, SetColumnSame
<1>7. op = AlterColumn(t, x, old, new)
  BY <1>2
<1>8. op.op = "AlterColumn" /\ op \in AlterColumns /\ IsIrreversible(op)
  BY <1>3, <1>7 DEF AlterColumn, AlterColumns, IsIrreversible
<1>9. /\ IsClause(AlterColumnType(op), t, x, c, old, Retyped(old, new))
      /\ IsClause(AlterColumnNull(op), t, x, c, Retyped(old, new), Renulled(old, new))
      /\ IsClause(AlterColumnDefault(op), t, x, c, Renulled(old, new), new)
  BY <1>3, <1>4, <1>5, <1>7, AlterClauses
<1>10. /\ MayChange(c, t, x, old, Retyped(old, new))
       /\ MayChange(c, t, x, Retyped(old, new), Renulled(old, new))
       /\ MayChange(c, t, x, Renulled(old, new), new)
  BY <1>2, ChangesMayBe
<1>11. Retyped(old, new) \in Column /\ Renulled(old, new) \in Column
  BY <1>3, RetypedType
<1>12. /\ MustLead(AlterColumnType(op), at(old), at(Retyped(old, new)))
       /\ MustLead(AlterColumnNull(op), at(Retyped(old, new)), at(Renulled(old, new)))
       /\ MustLead(AlterColumnDefault(op), at(Renulled(old, new)), at(new))
  BY <1>1, <1>3, <1>9, <1>10, <1>11, ClauseExecutes
<1>13. GenerateOperation(op) = (AlterColumnType(op) \o AlterColumnNull(op)) \o AlterColumnDefault(op)
  BY <1>8 DEF GenerateOperation
<1>14. /\ AlterColumnType(op) \in Seq(Statement) /\ AlterColumnNull(op) \in Seq(Statement)
       /\ AlterColumnDefault(op) \in Seq(Statement)
  BY <1>8, AlterColumnsType
<1>15. AlterColumnType(op) \o AlterColumnNull(op) \in Seq(Statement)
  BY <1>14
<1>16. GenerateOperation(op) \in Seq(Statement)
  <2>1. \A a, b \in Seq(Statement) : a \o b \in Seq(Statement)
    OBVIOUS
  <2> QED
    BY <1>13, <1>14, <1>15, <2>1, Zenon
<1>17. r = at(new)
  <2>1. Leads(GenerateOperation(op), c, at(new))
    BY <1>1, <1>2, AlterColumnLeads
  <2> HIDE DEF at
  <2> QED
    BY <1>16, <2>1, LeadsUnique
<1>18. Settled(S, r)
  <2>1. at(new) = SetTable(c, t, WithColumn(c.tables[t], x, new))
    BY <1>1, <1>3, SetColumnTwice
  <2>2. SettledTable(S, c.enums, t, c.tables[t]) /\ c.tables[t] \in Table
    BY <1>1, FoundType DEF Settled, HasTable
  <2>3. new.type.enum \in Enums => c.enums[new.type.enum] # Absent
    BY <1>2, EnumsAreThere
  <2>4. SettledTable(S, c.enums, t, WithColumn(c.tables[t], x, new))
    BY <1>3, <2>2, <2>3, SettledColumn
  <2>5. WithColumn(c.tables[t], x, new) \in Table
    BY <1>3, <2>2 DEF WithColumn, Table
  <2> HIDE DEF at
  <2> QED
    BY <1>1, <1>17, <2>1, <2>4, <2>5, SettledStep
<1> HIDE DEF at
<1>19. MustLead(AlterColumnType(op) \o AlterColumnNull(op), at(old), at(Renulled(old, new)))
  BY <1>12, <1>14, ExecuteOn
<1>20. MustLead(GenerateOperation(op), at(old), at(new))
  BY <1>12, <1>13, <1>14, <1>15, <1>19, ExecuteOn
<1> QED
  BY <1>6, <1>8, <1>17, <1>18, <1>20 DEF ExecutesAs, MustLead

\* What the differ finds of a table on both sides it finds.
LEMMA FoundOfTable ==
  ASSUME NEW c \in Schema, NEW d \in Schema, NEW t \in Tables, HasTable(c, t), HasTable(d, t),
         NEW o \in DiffTable(t, c.tables[t], d.tables[t], {})
  PROVE  o \in Diff(c, d, {})
<1>1. DOMAIN c.tables = Tables /\ DOMAIN d.tables = Tables
  BY DEF Schema
<1>2. o \in TableOps(t, c.tables[t], d.tables[t])
  BY DEF TableOps, HasTable
<1>3. o \in DiffTables(c.tables, d.tables, {})
  BY <1>1, <1>2, DiffByTable
<1> QED
  BY <1>3 DEF Diff

\* DropIndex comes before DropColumn.
LEMMA IndexesAreGone ==
  ASSUME NEW c \in Schema, NEW d \in Schema, NEW t \in Tables, HasTable(c, t), HasTable(d, t),
         NEW op \in First(Diff(c, d, {})), op.op = "DropColumn"
  PROVE  \A i \in c.tables[t].indexes : \E j \in d.tables[t].indexes : j.cols = i.cols
<1> SUFFICES ASSUME NEW i \in c.tables[t].indexes, \A j \in d.tables[t].indexes : j.cols # i.cols
             PROVE  FALSE
  OBVIOUS
<1> DEFINE o == [op |-> "DropIndex", table |-> t, index |-> i]
<1>1. o \in DiffIndexes(t, c.tables[t].indexes, d.tables[t].indexes)
  BY DEF DiffIndexes, UnmatchedIndexes
<1>2. o \in DiffTable(t, c.tables[t], d.tables[t], {})
  BY <1>1 DEF DiffTable
<1>3. Priority[op.op] <= Priority[o.op]
  BY <1>2, FoundOfTable DEF First
<1>4. Priority["DropIndex"] = 3 /\ Priority["DropColumn"] = 8
  BY DEF Priority
<1> QED
  BY <1>3, <1>4

\* AddColumn comes before CreateIndex.
LEMMA ColumnsAreThere ==
  ASSUME NEW c \in Schema, NEW d \in Schema, NEW t \in Tables, HasTable(c, t), HasTable(d, t),
         NEW op \in First(Diff(c, d, {})), op.op = "CreateIndex"
  PROVE  Present(d.tables[t].cols) \subseteq Present(c.tables[t].cols)
<1>1. c.tables[t] \in Table /\ d.tables[t] \in Table
  BY FoundType
<1>2. DOMAIN c.tables[t].cols = Columns /\ DOMAIN d.tables[t].cols = Columns
  BY <1>1 DEF Table
<1> SUFFICES ASSUME NEW x \in Columns, d.tables[t].cols[x] # Absent, c.tables[t].cols[x] = Absent
             PROVE  FALSE
  BY <1>2 DEF Present
<1> DEFINE o == [op |-> "AddColumn", table |-> t, column |-> x, coldef |-> d.tables[t].cols[x]]
<1>3. o \in DiffColumns(t, c.tables[t].cols, d.tables[t].cols, {})
  <2>1. o \in ColumnOps(t, x, c.tables[t].cols[x], d.tables[t].cols[x])
    BY DEF ColumnOps
  <2> QED
    BY <1>2, <2>1, DiffByColumn
<1>4. o \in DiffTable(t, c.tables[t], d.tables[t], {})
  BY <1>3 DEF DiffTable
<1>5. Priority[op.op] <= Priority[o.op]
  BY <1>4, FoundOfTable DEF First
<1>6. Priority["AddColumn"] = 5 /\ Priority["CreateIndex"] = 10
  BY DEF Priority
<1> QED
  BY <1>5, <1>6

\* The operations on a table of both sides.
LEMMA KeptTableExecutes ==
  ASSUME NEW S, S \subseteq Schema, Migratable(S), NEW d \in S, NEW c, Known(S, c), Settled(S, c),
         NEW op \in First(Diff(c, d, {})), NEW t \in Tables, HasTable(c, t), HasTable(d, t),
         op \in DiffTable(t, c.tables[t], d.tables[t], {}),
         NEW r, Known(S, r), Leads(GenerateOperation(op), c, r)
  PROVE  ExecutesAs(op, c, r) /\ Settled(S, r)
<1> DEFINE b == c.tables[t]
           a == d.tables[t]
<1>1. c \in Schema /\ d \in Schema /\ Replayable(S)
  BY DEF Known, Migratable
<1>2. b \in Table /\ a \in Table
  BY <1>1, FoundType
<1>3. \/ op \in DiffColumns(t, b.cols, a.cols, {})
      \/ op \in DiffIndexes(t, b.indexes, a.indexes)
      \/ op \in DiffForeignKeys(t, b.fks, a.fks)
  BY DEF DiffTable
<1>4. CASE op \in DiffColumns(t, b.cols, a.cols, {})
  <2>1. PICK x \in Columns : op \in ColumnOps(t, x, b.cols[x], a.cols[x])
    <3>1. DOMAIN b.cols = Columns /\ DOMAIN a.cols = Columns
      BY <1>2 DEF Table
    <3> QED
      BY <1>4, <3>1, DiffByColumn
  <2>2. CASE a.cols[x] = Absent
    <3>1. b.cols[x] # Absent /\ op = [op |-> "DropColumn", table |-> t, column |-> x]
      BY <2>1, <2>2 DEF ColumnOps
    <3>2. HasColumn(c, t, x)
      BY <3>1 DEF HasColumn
    <3>3. \A i \in b.indexes : \E j \in a.indexes : j.cols = i.cols
      <4>1. op.op = "DropColumn"
        BY <3>1
      <4> QED
        BY <1>1, <4>1, IndexesAreGone
    <3> QED
      BY <2>2, <3>1, <3>2, <3>3, DropColumnExecutes
  <2>3. CASE a.cols[x] # Absent /\ b.cols[x] = Absent
    <3>1. op = [op |-> "AddColumn", table |-> t, column |-> x, coldef |-> a.cols[x]]
      BY <2>1, <2>3 DEF ColumnOps
    <3>2. \A e \in Enums : d.enums[e] # Absent => c.enums[e] # Absent
      BY <1>1, <3>1, EnumsReady
    <3>3. HasColumn(d, t, x)
      BY <2>3 DEF HasColumn
    <3> QED
      BY <2>3, <3>1, <3>2, <3>3, AddColumnExecutes
  <2>4. CASE a.cols[x] # Absent /\ b.cols[x] # Absent
    <3>1. op = AlterColumn(t, x, b.cols[x], a.cols[x])
      BY <2>1, <2>4 DEF ColumnOps
    <3>2. \A e \in Enums : d.enums[e] # Absent => c.enums[e] # Absent
      <4>1. op.op = "AlterColumn"
        BY <3>1 DEF AlterColumn
      <4> QED
        BY <1>1, <4>1, EnumsReady
    <3>3. HasColumn(c, t, x) /\ HasColumn(d, t, x)
      BY <2>4 DEF HasColumn
    <3> QED
      BY <3>1, <3>2, <3>3, AlterColumnExecutes
  <2> QED
    BY <2>2, <2>3, <2>4
<1>5. CASE op \in DiffIndexes(t, b.indexes, a.indexes)
  <2>1. CASE \E i \in UnmatchedIndexes(a.indexes, b.indexes) :
               op = [op |-> "CreateIndex", table |-> t, index |-> i]
    <3>1. PICK i \in UnmatchedIndexes(a.indexes, b.indexes) :
            op = [op |-> "CreateIndex", table |-> t, index |-> i]
      BY <2>1
    <3>2. i \in a.indexes
      BY DEF UnmatchedIndexes
    <3>3. Present(a.cols) \subseteq Present(b.cols)
      <4>1. op.op = "CreateIndex"
        BY <3>1
      <4> QED
        BY <1>1, <4>1, ColumnsAreThere
    <3> QED
      BY <3>1, <3>2, <3>3, CreateIndexExecutes
  <2>2. CASE \E i \in UnmatchedIndexes(b.indexes, a.indexes) :
               op = [op |-> "DropIndex", table |-> t, index |-> i]
    <3>1. PICK i \in UnmatchedIndexes(b.indexes, a.indexes) :
            op = [op |-> "DropIndex", table |-> t, index |-> i]
      BY <2>2
    <3>2. i \in b.indexes
      BY DEF UnmatchedIndexes
    <3> QED
      BY <3>1, <3>2, DropIndexExecutes
  <2> QED
    BY <1>5, <2>1, <2>2 DEF DiffIndexes
<1>6. CASE op \in DiffForeignKeys(t, b.fks, a.fks)
  <2>1. b.fks = {} /\ a.fks = {}
    BY <1>1, NoForeignKeys DEF HasTable
  <2> QED
    BY <1>6, <2>1 DEF DiffForeignKeys, UnmatchedForeignKeys
<1> QED
  BY <1>3, <1>4, <1>5, <1>6

\* Whichever operation of least priority the planner takes, PostgreSQL accepts its SQL,
\* does to the catalog what the builder does to the schema when it reads it back, and
\* undoes it to the letter with the SQL for the way back unless the generator warned.
THEOREM OperationIsExecuted ==
  ASSUME NEW S, S \subseteq Schema, Migratable(S), NEW d \in S, NEW c, Known(S, c), Settled(S, c),
         NEW op \in First(Diff(c, d, {})),
         NEW r, Known(S, r), Leads(GenerateOperation(op), c, r)
  PROVE  ExecutesAs(op, c, r) /\ Settled(S, r)
<1>1. c \in Schema /\ d \in Schema /\ Replayable(S)
  BY DEF Known, Migratable
<1>2. op \in Diff(c, d, {})
  BY DEF First
<1>3. CASE op \in DiffEnums(c.enums, d.enums)
  <2>1. PICK e \in Enums : c.enums[e] = Absent /\ d.enums[e] # Absent
                           /\ op = [op |-> "CreateEnum", enum |-> e, values |-> d.enums[e]]
    BY <1>1, <1>3, NewEnum
  <2> QED
    BY <1>1, <2>1, CreateEnumExecutes
<1>4. CASE op \in DiffTables(c.tables, d.tables, {})
  <2>1. DOMAIN c.tables = Tables /\ DOMAIN d.tables = Tables
    BY <1>1 DEF Schema
  <2>2. PICK t \in Tables : op \in TableOps(t, c.tables[t], d.tables[t])
    BY <1>4, <2>1, DiffByTable
  <2>3. CASE d.tables[t] = Absent
    <3>1. c.tables[t] # Absent /\ op = [op |-> "DropTable", table |-> t]
      BY <2>2, <2>3 DEF TableOps
    <3> QED
      BY <3>1, DropTableExecutes
  <2>4. CASE d.tables[t] # Absent /\ c.tables[t] # Absent
    <3>1. op \in DiffTable(t, c.tables[t], d.tables[t], {})
      BY <2>2, <2>4 DEF TableOps
    <3> QED
      BY <2>4, <3>1, KeptTableExecutes DEF HasTable
  <2>5. CASE d.tables[t] # Absent /\ c.tables[t] = Absent
    <3>1. op = [op |-> "CreateTable", table |-> t, tabledef |-> d.tables[t]]
      BY <1>1, <2>2, <2>5, TableFirst
    <3>2. \A e \in Enums : d.enums[e] # Absent => c.enums[e] # Absent
      BY <1>1, <3>1, EnumsReady
    <3> QED
      BY <2>5, <3>1, <3>2, CreateTableExecutes
  <2> QED
    BY <2>3, <2>4, <2>5
<1> QED
  BY <1>2, <1>3, <1>4 DEF Diff
-----------------------------------------------------------------------------
(***************************************************************************)
(* The loop has the guarantees of the command.                             *)
(***************************************************************************)
\* Every step of the loop is a step of the command or none of its business.
LEMMA LoopStep == ASSUME [LoopNext]_loopVars PROVE [Next]_vars
<1>1. CASE Command
  BY <1>1 DEF Command
<1>2. CASE GooseUp \/ GooseDown
  BY <1>2 DEF GooseUp, GooseDown
<1>3. CASE UNCHANGED loopVars
  BY <1>3 DEF loopVars
<1> QED
  BY <1>1, <1>2, <1>3 DEF LoopNext

\* The loop implements the command, whatever files, catalogs and schemas are.
THEOREM LoopImplements == LoopSpec => Spec
<1>1. LoopInit => Init
  BY DEF LoopInit
<1> QED
  BY <1>1, LoopStep, PTL DEF LoopSpec, Spec

\* However goose goes up and down between the runs, a file with a lossy
\* statement was written by a run with --allow-destructive.
THEOREM LoopGated == LoopSpec => []DestructiveGated
BY LoopImplements, Gated, PTL

\* However goose goes up and down between the runs, only a run with
\* --allow-destructive adds a NOT NULL column without a default.
THEOREM LoopGatesNotNull ==
  ASSUME \A s \in Desired : WritesDefaults(s)
  PROVE  LoopSpec => []NotNullGated
BY LoopImplements, GatesNotNull, PTL

\* However goose goes up and down between the runs, what they wrote can be read.
THEOREM LoopHistoryIsReadable ==
  ASSUME Replayable(Desired)
  PROVE  LoopSpec => []HistoryLoads
BY LoopImplements, HistoryIsReadable, PTL

\* However goose goes up and down between the runs, a second run for the schema of
\* the last file finds nothing to do.
THEOREM LoopSecondRunFindsNothing ==
  ASSUME Replayable(Desired)
  PROVE  LoopSpec => []SecondRunIsQuiet
BY LoopImplements, SecondRunFindsNothing, PTL

\* The loop keeps the promises of SchemaEvolution that concern the files.
THEOREM LoopAuthors == LoopSpec => AuthoringSpec
BY LoopImplements, Implements, PTL
-----------------------------------------------------------------------------
(***************************************************************************)
(* What the differ does not compare is the same in all the schemas of a    *)
(* project: a known and settled schema that does not differ from one of    *)
(* them says the same.                                                     *)
(***************************************************************************)
\* Columns that the differ finds equal are equal.
LEMMA SameColumns ==
  ASSUME NEW S, S \subseteq Schema, Migratable(S), NEW d \in S, NEW c, Known(S, c),
         NEW t \in Tables, HasTable(c, t), HasTable(d, t),
         DiffTable(t, c.tables[t], d.tables[t], {}) = {}
  PROVE  c.tables[t].cols = d.tables[t].cols
<1>1. c \in Schema /\ d \in Schema /\ Replayable(S)
  BY DEF Known, Migratable
<1>2. /\ c.tables[t] \in Table /\ d.tables[t] \in Table
      /\ DOMAIN c.tables[t].cols = Columns /\ DOMAIN d.tables[t].cols = Columns
  BY <1>1, FoundType DEF Table
<1>3. ASSUME NEW x \in Columns PROVE c.tables[t].cols[x] = d.tables[t].cols[x]
  <2>1. ColumnOps(t, x, c.tables[t].cols[x], d.tables[t].cols[x]) = {}
    <3>1. DiffColumns(t, c.tables[t].cols, d.tables[t].cols, {}) = {}
      BY DEF DiffTable
    <3> QED
      BY <1>2, <3>1, DiffByColumn
  <2>2. CASE c.tables[t].cols[x] # Absent /\ d.tables[t].cols[x] # Absent
    <3>1. PICK old, new : old = c.tables[t].cols[x] /\ new = d.tables[t].cols[x]
      OBVIOUS
    <3>2. HasColumn(c, t, x) /\ HasColumn(d, t, x)
      BY <2>2 DEF HasColumn
    <3>3. /\ old \in Column /\ new \in Column
          /\ old \in ColumnsAt(S, t, x) /\ new \in ColumnsAt(S, t, x)
      BY <1>1, <3>1, <3>2, ChangesAreKnown
    <3>4. ColumnsEqual(old, new)
      BY <2>1, <2>2, <3>1 DEF ColumnOps
    <3>5. IsExecutableChange(old, new)
      BY <3>3 DEF Migratable
    <3>6. old.default = new.default
      BY <3>4, <3>5 DEF ColumnsEqual, IsExecutableChange
    <3> QED
      BY <3>1, <3>3, <3>4, <3>6 DEF ColumnsEqual, Column
  <2>3. CASE c.tables[t].cols[x] = Absent \/ d.tables[t].cols[x] = Absent
    BY <2>1, <2>3 DEF ColumnOps
  <2> QED
    BY <2>2, <2>3
<1> QED
  BY <1>2, <1>3 DEF Table

\* Indexes that the differ matches say the same.
LEMMA SameIndexes ==
  ASSUME NEW S, S \subseteq Schema, Migratable(S), NEW d \in S, NEW c, Known(S, c),
         NEW t \in Tables, HasTable(c, t), HasTable(d, t),
         DiffTable(t, c.tables[t], d.tables[t], {}) = {}
  PROVE  {<<i.cols, i.unique>> : i \in c.tables[t].indexes} =
           {<<i.cols, i.unique>> : i \in d.tables[t].indexes}
<1> DEFINE b == c.tables[t].indexes
           a == d.tables[t].indexes
<1>1. DiffIndexes(t, b, a) = {}
  BY DEF DiffTable
<1>2. \A i \in a : \E j \in b : j.cols = i.cols
  <2> SUFFICES ASSUME NEW i \in a, \A j \in b : j.cols # i.cols PROVE FALSE
    OBVIOUS
  <2>1. [op |-> "CreateIndex", table |-> t, index |-> i] \in DiffIndexes(t, b, a)
    BY DEF DiffIndexes, UnmatchedIndexes
  <2> QED
    BY <1>1, <2>1
<1>3. \A j \in b : \E i \in a : i.cols = j.cols
  <2> SUFFICES ASSUME NEW j \in b, \A i \in a : i.cols # j.cols PROVE FALSE
    OBVIOUS
  <2>1. [op |-> "DropIndex", table |-> t, index |-> j] \in DiffIndexes(t, b, a)
    BY DEF DiffIndexes, UnmatchedIndexes
  <2> QED
    BY <1>1, <2>1
<1>4. ASSUME NEW j \in b, NEW i \in a, i.cols = j.cols PROVE i.unique = j.unique
  <2>1. KnownTable(S, t, c.tables[t])
    BY DEF Known, HasTable
  <2>2. PICK k \in IndexesAt(S, t) : j = [k EXCEPT !.name = IndexName(t, k)]
    BY <2>1 DEF KnownTable
  <2>3. k \in Index
    BY DEF IndexesAt, HasTable, Schema, Table
  <2>4. j.cols = k.cols /\ j.unique = k.unique
    BY <2>2, <2>3 DEF Index
  <2>5. i \in IndexesAt(S, t)
    BY DesiredIsKnown DEF HasTable
  <2> QED
    BY <1>4, <2>4, <2>5 DEF Migratable, HaveSameUniqueness
<1> QED
  BY <1>2, <1>3, <1>4

\* Tables that mean the same look the same.
LEMMA TableIsViewed ==
  ASSUME NEW b, NEW a, MeaningOf(b) = MeaningOf(a)
  PROVE  ViewTable(b) = ViewTable(a)
<1>1. /\ b.cols = a.cols
      /\ {<<i.cols, i.unique>> : i \in b.indexes} = {<<i.cols, i.unique>> : i \in a.indexes}
      /\ {<<k.cols, k.refTable, k.refCols, k.onDelete>> : k \in b.fks} =
         {<<k.cols, k.refTable, k.refCols, k.onDelete>> : k \in a.fks}
  BY DEF MeaningOf
<1>2. \A X, Y : {<<i.cols, i.unique>> : i \in X} = {<<i.cols, i.unique>> : i \in Y}
        => {i.cols : i \in X} = {i.cols : i \in Y}
  <2> SUFFICES ASSUME NEW X, NEW Y,
                      {<<i.cols, i.unique>> : i \in X} = {<<i.cols, i.unique>> : i \in Y}
               PROVE  {i.cols : i \in X} = {i.cols : i \in Y}
    OBVIOUS
  <2>1. \A i \in X : \E j \in Y : <<j.cols, j.unique>> = <<i.cols, i.unique>>
    OBVIOUS
  <2>2. \A j \in Y : \E i \in X : <<j.cols, j.unique>> = <<i.cols, i.unique>>
    OBVIOUS
  <2>3. /\ \A i \in X : \E j \in Y : j.cols = i.cols
        /\ \A j \in Y : \E i \in X : i.cols = j.cols
    BY <2>1, <2>2
  <2> QED
    BY <2>3
<1>3. \A X, Y : {<<k.cols, k.refTable, k.refCols, k.onDelete>> : k \in X} =
               {<<k.cols, k.refTable, k.refCols, k.onDelete>> : k \in Y}
        => {<<k.refTable, k.cols>> : k \in X} = {<<k.refTable, k.cols>> : k \in Y}
  <2> SUFFICES ASSUME NEW X, NEW Y,
                      {<<k.cols, k.refTable, k.refCols, k.onDelete>> : k \in X} =
                      {<<k.cols, k.refTable, k.refCols, k.onDelete>> : k \in Y}
               PROVE  {<<k.refTable, k.cols>> : k \in X} = {<<k.refTable, k.cols>> : k \in Y}
    OBVIOUS
  <2>1. ASSUME NEW i \in X
        PROVE  \E j \in Y : <<j.cols, j.refTable, j.refCols, j.onDelete>> =
                         <<i.cols, i.refTable, i.refCols, i.onDelete>>
    <3>1. <<i.cols, i.refTable, i.refCols, i.onDelete>> \in
            {<<k.cols, k.refTable, k.refCols, k.onDelete>> : k \in X}
      OBVIOUS
    <3>2. <<i.cols, i.refTable, i.refCols, i.onDelete>> \in
            {<<k.cols, k.refTable, k.refCols, k.onDelete>> : k \in Y}
      BY <3>1
    <3> QED
      BY <3>2
  <2>2. ASSUME NEW j \in Y
        PROVE  \E i \in X : <<j.cols, j.refTable, j.refCols, j.onDelete>> =
                         <<i.cols, i.refTable, i.refCols, i.onDelete>>
    <3>1. <<j.cols, j.refTable, j.refCols, j.onDelete>> \in
            {<<k.cols, k.refTable, k.refCols, k.onDelete>> : k \in Y}
      OBVIOUS
    <3>2. <<j.cols, j.refTable, j.refCols, j.onDelete>> \in
            {<<k.cols, k.refTable, k.refCols, k.onDelete>> : k \in X}
      BY <3>1
    <3> QED
      BY <3>2
  <2>3. /\ \A i \in X : \E j \in Y : j.cols = i.cols /\ j.refTable = i.refTable
        /\ \A j \in Y : \E i \in X : i.cols = j.cols /\ i.refTable = j.refTable
    BY <2>1, <2>2
  <2> QED
    BY <2>3
<1>4. /\ {i.cols : i \in b.indexes} = {i.cols : i \in a.indexes}
      /\ {<<k.refTable, k.cols>> : k \in b.fks} = {<<k.refTable, k.cols>> : k \in a.fks}
  BY <1>1, <1>2, <1>3
<1> QED
  BY <1>1, <1>4 DEF ViewTable

\* Nothing to do means that nothing differs, and that nothing looks different.
LEMMA NothingDiffers ==
  ASSUME NEW S, S \subseteq Schema, Migratable(S), NEW d \in S, NEW c, Known(S, c), Settled(S, c),
         Diff(c, d, {}) = {}
  PROVE  Meaning(c) = Meaning(d) /\ View(c) = View(d)
<1>1. c \in Schema /\ d \in Schema /\ Replayable(S)
  BY DEF Known, Migratable
<1>2. DOMAIN c.tables = Tables /\ DOMAIN d.tables = Tables
  BY <1>1 DEF Schema
<1>3. \A t \in Tables : TableOps(t, c.tables[t], d.tables[t]) = {}
  <2>1. DiffTables(c.tables, d.tables, {}) = {}
    BY DEF Diff
  <2>2. UNION {TableOps(t, c.tables[t], d.tables[t]) : t \in Tables} = {}
    BY <1>2, <2>1, DiffByTable
  <2> HIDE DEF TableOps
  <2> QED
    BY <2>2, SMTT(30)
<1>4. \A t \in Tables : HasTable(c, t) <=> HasTable(d, t)
  BY <1>3 DEF TableOps, NewTable, HasTable
<1>5. ASSUME NEW t \in Tables, HasTable(c, t), HasTable(d, t)
      PROVE  /\ c.tables[t].cols = d.tables[t].cols
             /\ MeaningOf(c.tables[t]) = MeaningOf(d.tables[t])
             /\ ViewTable(c.tables[t]) = ViewTable(d.tables[t])
  <2>1. DiffTable(t, c.tables[t], d.tables[t], {}) = {}
    BY <1>3, <1>5 DEF TableOps, HasTable
  <2>2. c.tables[t].cols = d.tables[t].cols
    BY <1>5, <2>1, SameColumns
  <2>3. c.tables[t].pk = d.tables[t].pk /\ c.tables[t].uniques = d.tables[t].uniques
    BY <1>5, KeysAgree
  <2>4. c.tables[t].fks = {} /\ d.tables[t].fks = {}
    BY <1>1, <1>5, NoForeignKeys DEF HasTable
  <2>5. {<<i.cols, i.unique>> : i \in c.tables[t].indexes} =
          {<<i.cols, i.unique>> : i \in d.tables[t].indexes}
    BY <1>5, <2>1, SameIndexes
  <2>6. MeaningOf(c.tables[t]) = MeaningOf(d.tables[t])
    BY <2>2, <2>3, <2>4, <2>5, Zenon DEF MeaningOf
  <2> QED
    BY <2>2, <2>6, TableIsViewed
<1>6. Present(c.tables) = Present(d.tables)
  BY <1>2, <1>4 DEF Present, HasTable
<1>7. \A t \in Present(c.tables) : t \in Tables /\ HasTable(c, t) /\ HasTable(d, t)
  BY <1>2, <1>4 DEF Present, HasTable
<1>8. ASSUME NEW e \in Enums
      PROVE  (UsesEnum(c, e) <=> UsesEnum(d, e)) /\ (UsesEnum(d, e) => c.enums[e] = d.enums[e])
  <2>1. UsesEnum(c, e) <=> UsesEnum(d, e)
    BY <1>5, <1>6, <1>7 DEF UsesEnum
  <2>2. ASSUME UsesEnum(d, e) PROVE c.enums[e] = d.enums[e]
    <3>1. PICK t \in Present(d.tables) : \E x \in Present(d.tables[t].cols) :
                 d.tables[t].cols[x].type.enum = e
      BY <2>2 DEF UsesEnum
    <3>2. d.enums[e] # Absent
      <4>1. NamesEnums(d.tables[t], d.enums)
        BY <3>1 DEF Migratable, NamesItsEnums
      <4> QED
        BY <3>1, <4>1 DEF NamesEnums
    <3>3. c.enums[e] # Absent
      <4>1. t \in Tables /\ HasTable(c, t)
        BY <1>6, <1>7, <3>1
      <4>2. NamesEnums(c.tables[t], c.enums)
        BY <4>1 DEF Settled, SettledTable, HasTable
      <4>3. c.tables[t].cols = d.tables[t].cols
        BY <1>5, <1>4, <4>1
      <4> QED
        BY <3>1, <4>2, <4>3 DEF NamesEnums
    <3> QED
      BY <1>1, <3>2, <3>3, LabelsAgree
  <2> QED
    BY <2>1, <2>2
<1>9. \A t \in Tables : (IF c.tables[t] = Absent THEN Absent ELSE MeaningOf(c.tables[t])) =
                        (IF d.tables[t] = Absent THEN Absent ELSE MeaningOf(d.tables[t]))
  BY <1>4, <1>5 DEF HasTable
<1>10. \A e \in Enums : (IF UsesEnum(c, e) THEN c.enums[e] ELSE Absent) =
                        (IF UsesEnum(d, e) THEN d.enums[e] ELSE Absent)
  BY <1>8
<1>11. [t \in Tables |-> IF c.tables[t] = Absent THEN Absent ELSE MeaningOf(c.tables[t])] =
       [t \in Tables |-> IF d.tables[t] = Absent THEN Absent ELSE MeaningOf(d.tables[t])]
  BY <1>9
<1>12. [e \in Enums |-> IF UsesEnum(c, e) THEN c.enums[e] ELSE Absent] =
       [e \in Enums |-> IF UsesEnum(d, e) THEN d.enums[e] ELSE Absent]
  BY <1>10
<1>13. Meaning(c) = Meaning(d)
  BY <1>11, <1>12, Zenon DEF Meaning
<1>14. \A t \in Tables : (IF c.tables[t] = Absent THEN Absent ELSE ViewTable(c.tables[t])) =
                         (IF d.tables[t] = Absent THEN Absent ELSE ViewTable(d.tables[t]))
  BY <1>4, <1>5 DEF HasTable
<1>15. [t \in Tables |-> IF c.tables[t] = Absent THEN Absent ELSE ViewTable(c.tables[t])] =
       [t \in Tables |-> IF d.tables[t] = Absent THEN Absent ELSE ViewTable(d.tables[t])]
  BY <1>14
<1>16. View(c) = View(d)
  BY <1>12, <1>15, Zenon DEF View
<1> QED
  BY <1>13, <1>16
-----------------------------------------------------------------------------
(***************************************************************************)
(* The inductive invariant of the loop.  Beside the schemas the files are  *)
(* read as, h[n] is the catalog of a database that was given n of them:    *)
(* it is settled, file n leads to it from h[n - 1], and back again if it   *)
(* has no warning.  A run has read nothing of the way back before it       *)
(* writes it, and what it has written so far executes in the same way.     *)
(***************************************************************************)
FileExecutes(f, c, r) ==
  /\ MustLead(f.up, c, r)
  /\ ~f.warned => MustLead(f.down, r, c)

Executes(h) ==
  /\ \A n \in 0..Len(files) : Settled(Desired, h[n])
  /\ \A n \in 1..Len(files) : FileExecutes(files[n], h[n - 1], h[n])

\* c is what the run that generates has reached.
Builds(h, c) ==
  /\ GeneratesTo(h, c)
  /\ Settled(Desired, c)
  /\ FileExecutes(job, h[Len(files)], c)

RunExecutes(h) ==
  /\ job.pc = "replay" => job.down = << >> /\ ~job.warned
  /\ job.pc = "generate" => \E c \in Schema : Builds(h, c)

LoopType ==
  /\ TypeOK
  /\ applied \in 0..Len(files)
  /\ clean \in BOOLEAN

Explains(h) ==
  /\ Rebuilds(h) /\ Follows(h)
  /\ Executes(h) /\ RunExecutes(h)
  /\ clean => db = h[applied]

LoopInv ==
  /\ LoopType
  /\ HistoryLoads
  /\ \E h \in [0..Len(files) -> Schema] : Explains(h)

\* No file, no run, an empty catalog.
LEMMA InitLoop == LoopInit => LoopInv
<1> SUFFICES ASSUME LoopInit PROVE LoopInv
  OBVIOUS
<1>1. Init /\ db = EmptySchema /\ applied = 0 /\ clean = TRUE
  BY DEF LoopInit
<1>2. ReplayInv
  BY <1>1, InitReplay
<1>3. Len(files) = 0 /\ job.pc = "idle"
  BY <1>1 DEF Init, Idle
<1>4. PICK h \in [0..Len(files) -> Schema] : Rebuilds(h) /\ Follows(h)
  BY <1>2 DEF ReplayInv
<1>5. h[0] = EmptySchema
  BY <1>4 DEF Rebuilds
<1>6. Settled(Desired, EmptySchema)
  BY DEF Settled, EmptySchema
<1>7. Executes(h)
  BY <1>3, <1>5, <1>6 DEF Executes
<1>8. Explains(h)
  BY <1>1, <1>3, <1>4, <1>5, <1>7 DEF Explains, RunExecutes
<1> QED
  BY <1>1, <1>2, <1>3, <1>4, <1>8 DEF LoopInv, LoopType, ReplayInv

\* One more operation: its SQL goes after what is written, the way back before.
LEMMA GenerateExecutes ==
  ASSUME TypeOK, Migratable(Desired), NEW h, NEW c \in Schema, Builds(h, c),
         NEW op \in job.todo, Generate(op)
  PROVE  \E r \in Schema : Builds(h, r)'
<1>1. /\ GeneratesTo(h, c) /\ Settled(Desired, c)
      /\ MustLead(job.up, h[Len(files)], c)
      /\ ~job.warned => MustLead(job.down, c, h[Len(files)])
  BY DEF Builds, FileExecutes
<1>2. Replayable(Desired) /\ Desired \subseteq Schema /\ job.desired \in Desired
      /\ Known(Desired, c)
  BY <1>1, DesiredAssumption DEF Migratable, TypeOK, Job, GeneratesTo
<1>3. /\ op \in First(Diff(c, job.desired, {}))
      /\ \E r \in Schema : Leads(GenerateOperation(op), c, r) /\ GeneratesTo(h, r)'
  BY <1>1, <1>2, GenerateReplay
<1>4. PICK r \in Schema : Leads(GenerateOperation(op), c, r) /\ GeneratesTo(h, r)'
  BY <1>3
<1>5. Known(Desired, r)
  BY <1>4 DEF GeneratesTo
<1>6. ExecutesAs(op, c, r) /\ Settled(Desired, r)
  BY <1>1, <1>2, <1>3, <1>4, <1>5, OperationIsExecuted
<1>7. /\ MustLead(GenerateOperation(op), c, r)
      /\ ~IsIrreversible(op) => MustLead(GenerateReverseOperation(op), r, c)
  BY <1>6 DEF ExecutesAs, MustLead
<1>8. op \in Operation /\ job.up \in Seq(Statement) /\ job.down \in Seq(Statement)
  BY DEF TypeOK, Job
<1>9. /\ GenerateOperation(op) \in Seq(Statement)
      /\ GenerateReverseOperation(op) \in Seq(Statement)
  BY <1>8, GenerateOperationType, GenerateReverseOperationType
<1>10. /\ job'.up = job.up \o GenerateOperation(op)
       /\ job'.down = GenerateReverseOperation(op) \o job.down
       /\ job'.warned = (job.warned \/ IsIrreversible(op))
       /\ files' = files
  BY DEF Generate, TypeOK, Job
<1>11. PICK s : s = h[Len(files)]
  OBVIOUS
<1>12. MustLead(job'.up, s, r)
  BY <1>1, <1>7, <1>8, <1>9, <1>10, <1>11, ExecuteOn
<1>13. ASSUME ~job'.warned PROVE MustLead(job'.down, r, s)
  <2>1. ~job.warned /\ ~IsIrreversible(op)
    BY <1>10, <1>13
  <2> QED
    BY <1>1, <1>7, <1>8, <1>9, <1>10, <1>11, <2>1, ExecuteOn
<1>14. FileExecutes(job, h[Len(files)], r)'
  BY <1>10, <1>11, <1>12, <1>13 DEF FileExecutes
<1> QED
  BY <1>4, <1>6, <1>14 DEF Builds

\* The file that is written executes as what the run had written.
LEMMA WriteExecutes ==
  ASSUME TypeOK, WriteFile, NEW h, Executes(h), NEW c, Builds(h, c),
         NEW m \in Nat, m = Len(files), NEW g, g[m + 1] = c, \A n \in 0..m : g[n] = h[n]
  PROVE  Executes(g)'
<1>1. /\ Len(files') = m + 1 /\ \A n \in 1..m : files'[n] = files[n]
      /\ files'[m + 1].up = job.up /\ files'[m + 1].down = job.down
      /\ files'[m + 1].warned = job.warned
  BY WriteAppends
<1>2. Settled(Desired, c) /\ FileExecutes(job, h[m], c)
  BY DEF Builds
<1>3. FileExecutes(files'[m + 1], h[m], c)
  BY <1>1, <1>2 DEF FileExecutes
<1>4. ASSUME NEW n \in 0..m + 1 PROVE Settled(Desired, g[n])
  <2>1. CASE n = m + 1
    BY <1>2, <2>1
  <2>2. CASE n # m + 1
    <3>1. n \in 0..m
      BY <2>2
    <3> QED
      BY <3>1 DEF Executes
  <2> QED
    BY <2>1, <2>2
<1>5. ASSUME NEW n \in 1..m + 1 PROVE FileExecutes(files'[n], g[n - 1], g[n])
  <2>1. CASE n = m + 1
    <3>1. n - 1 = m /\ m \in 0..m
      BY <2>1
    <3> QED
      BY <1>3, <2>1, <3>1
  <2>2. CASE n # m + 1
    <3>1. n \in 1..m /\ n - 1 \in 0..m /\ n \in 0..m
      BY <2>2
    <3>2. FileExecutes(files[n], h[n - 1], h[n])
      BY <3>1 DEF Executes
    <3> QED
      BY <1>1, <3>1, <3>2
  <2> QED
    BY <2>1, <2>2
<1>6. 0..Len(files') = 0..m + 1 /\ 1..Len(files') = 1..m + 1
  BY <1>1
<1> QED
  BY <1>4, <1>5, <1>6, Zenon DEF Executes, FileExecutes

\* Steps that leave the files, the catalog and goose alone.
LEMMA KeepsExplained ==
  ASSUME LoopInv, TypeOK', HistoryLoads', UNCHANGED <<files, loop>>,
         NEW h \in [0..Len(files) -> Schema], Explains(h),
         Follows(h)', RunExecutes(h)'
  PROVE  LoopInv'
<1>1. files' = files /\ db' = db /\ applied' = applied /\ clean' = clean
  BY DEF loop
<1>2. Rebuilds(h)' /\ Executes(h)'
  BY <1>1 DEF Explains, Rebuilds, Executes, FileExecutes
<1>3. Explains(h)'
  BY <1>1, <1>2 DEF Explains
<1>4. LoopType'
  BY <1>1 DEF LoopInv, LoopType
<1> QED
  BY <1>1, <1>3, <1>4 DEF LoopInv

\* A run that begins has written nothing, and one that reads on still has not.
LEMMA ReadingExecutes ==
  ASSUME TypeOK, NEW h, RunExecutes(h),
         \/ \E allow \in BOOLEAN : Start(allow)
         \/ ReplayStatement
         \/ NextFile
  PROVE  RunExecutes(h)'
<1>1. ASSUME NEW allow \in BOOLEAN, Start(allow) PROVE RunExecutes(h)'
  BY <1>1 DEF Start, Idle, RunExecutes
<1>2. CASE ReplayStatement
  BY <1>2, ZenonT(40) DEF ReplayStatement, AtStatement, RunExecutes, TypeOK, Job
<1>3. CASE NextFile
  BY <1>3 DEF NextFile, RunExecutes, TypeOK, Job
<1> QED
  BY <1>1, <1>2, <1>3

\* A run that goes on to generate starts from the catalog of all the files.
LEMMA ProceedExecutes ==
  ASSUME TypeOK, NEW h \in [0..Len(files) -> Schema], Explains(h), Proceed
  PROVE  RunExecutes(h)'
<1>1. /\ job'.pc = "generate" /\ job'.up = << >> /\ job'.down = job.down
      /\ job'.warned = job.warned
      /\ \E c \in Schema : c = h[Len(files)] /\ GeneratesTo(h, c)'
  BY ProceedReplay DEF Explains
<1>2. job.pc = "replay" /\ job.down = << >> /\ files' = files
  BY DEF Proceed, Replayed, Explains, RunExecutes
<1>3. PICK c \in Schema : c = h[Len(files)] /\ GeneratesTo(h, c)'
  BY <1>1
<1>4. Len(files) \in 0..Len(files)
  BY DEF TypeOK
<1>5. Settled(Desired, c)
  BY <1>3, <1>4 DEF Explains, Executes
<1>6. MustLead(<< >>, c, c)
  BY ExecuteNone DEF MustLead
<1>7. FileExecutes(job, h[Len(files)], c)'
  BY <1>1, <1>2, <1>3, <1>6 DEF FileExecutes
<1>8. Builds(h, c)'
  BY <1>3, <1>5, <1>7 DEF Builds
<1> QED
  BY <1>1, <1>8 DEF RunExecutes

\* Every step of the command and of the developer keeps the loop explained.
LEMMA CommandExplained ==
  ASSUME LoopInv, Command, Migratable(Desired)
  PROVE  LoopInv'
<1>1. TypeOK /\ Next /\ UNCHANGED loop /\ Replayable(Desired) /\ HistoryLoads
  BY DEF LoopInv, LoopType, Command, Migratable
<1>2. TypeOK'
  BY <1>1, NextType
<1>3. PICK h \in [0..Len(files) -> Schema] : Explains(h)
  BY DEF LoopInv
<1>4. Rebuilds(h) /\ Follows(h) /\ Executes(h) /\ RunExecutes(h)
  BY <1>3 DEF Explains
<1>5. ReplayInv
  BY <1>1, <1>4 DEF ReplayInv
<1>6. HistoryLoads'
  BY <1>1, <1>5, NextReplay DEF ReplayInv
<1>7. ASSUME UNCHANGED files, Follows(h)', RunExecutes(h)' PROVE LoopInv'
  BY <1>1, <1>2, <1>3, <1>6, <1>7, KeepsExplained
<1>8. ASSUME job' = Idle PROVE Follows(h)' /\ RunExecutes(h)'
  BY <1>8, IdleFollows DEF RunExecutes, Idle
<1>9. ASSUME NEW s \in Desired, Edit(s) PROVE LoopInv'
  <2>1. job' = job /\ files' = files
    BY <1>9 DEF Edit
  <2>2. Follows(h)' /\ RunExecutes(h)'
    BY <1>4, <2>1 DEF Follows, IsReplaying, GeneratesTo, InFile, Rest, RunExecutes, Builds,
                      FileExecutes
  <2> QED
    BY <1>7, <2>1, <2>2
<1>10. ASSUME NEW allow \in BOOLEAN, Start(allow) PROVE LoopInv'
  <2>1. Follows(h)' /\ files' = files
    BY <1>1, <1>2, <1>4, <1>10, StartReplay DEF Start
  <2> QED
    BY <1>1, <1>4, <1>7, <1>10, <2>1, ReadingExecutes
<1>11. CASE ReplayStatement
  <2>1. Follows(h)' /\ files' = files
    BY <1>1, <1>2, <1>4, <1>11, StatementReplay DEF ReplayStatement
  <2> QED
    BY <1>1, <1>4, <1>7, <1>11, <2>1, ReadingExecutes
<1>12. CASE ReplayError
  BY <1>1, <1>4, <1>12, NoReplayError
<1>13. CASE NextFile
  <2>1. Follows(h)' /\ files' = files
    BY <1>1, <1>2, <1>4, <1>13, FileReplay DEF NextFile
  <2> QED
    BY <1>1, <1>4, <1>7, <1>13, <2>1, ReadingExecutes
<1>14. CASE NoChanges \/ Refuse
  BY <1>7, <1>8, <1>14 DEF NoChanges, Refuse, Exit
<1>15. CASE Proceed
  <2>1. Follows(h)'
    BY <1>1, <1>4, <1>15, ProceedReplay DEF Follows
  <2>2. RunExecutes(h)' /\ files' = files
    BY <1>1, <1>3, <1>15, ProceedExecutes DEF Proceed
  <2> QED
    BY <1>7, <2>1, <2>2
<1>16. ASSUME NEW op \in job.todo, Generate(op) PROVE LoopInv'
  <2>1. PICK c \in Schema : Builds(h, c)
    BY <1>4, <1>16 DEF RunExecutes, Generate
  <2>2. PICK r \in Schema : Builds(h, r)'
    BY <1>1, <1>16, <2>1, GenerateExecutes
  <2>3. job'.pc = "generate" /\ files' = files
    BY <1>1, <1>16 DEF Generate, TypeOK, Job
  <2>4. Follows(h)' /\ RunExecutes(h)'
    BY <2>2, <2>3 DEF Follows, RunExecutes, Builds
  <2> QED
    BY <1>7, <2>3, <2>4
<1>17. CASE WriteFile
  <2>1. /\ job.pc = "generate" /\ job' = Idle
        /\ Len(files') = Len(files) + 1
    BY <1>1, <1>17, WriteAppends
  <2>2. PICK c \in Schema : Builds(h, c)
    BY <1>4, <2>1 DEF RunExecutes
  <2>3. PICK m \in Nat : m = Len(files)
    BY <1>1 DEF TypeOK
  <2>4. PICK g \in [0..m + 1 -> Schema] : g[m + 1] = c /\ \A n \in 0..m : g[n] = h[n]
    BY <1>3, <2>2, <2>3, OneMore
  <2>5. Rebuilds(g)'
    BY <1>1, <1>4, <1>17, <2>2, <2>3, <2>4, WriteReplay DEF Builds
  <2>6. Executes(g)'
    BY <1>1, <1>4, <1>17, <2>2, <2>3, <2>4, WriteExecutes
  <2>7. Follows(g)' /\ RunExecutes(g)'
    BY <2>1, IdleFollows DEF RunExecutes, Idle
  <2>8. /\ applied' = applied /\ clean' = clean /\ db' = db
        /\ applied \in 0..m /\ clean \in BOOLEAN
    BY <1>1, <2>3 DEF loop, LoopInv, LoopType
  <2>9. LoopType' /\ (clean => db = g[applied])'
    BY <1>2, <1>3, <2>1, <2>3, <2>4, <2>8 DEF LoopType, Explains
  <2>10. Explains(g)' /\ g \in [0..Len(files') -> Schema]
    BY <2>1, <2>3, <2>5, <2>6, <2>7, <2>9 DEF Explains
  <2> QED
    BY <1>6, <2>9, <2>10 DEF LoopInv
<1> QED
  BY <1>1, <1>9, <1>10, <1>11, <1>12, <1>13, <1>14, <1>15, <1>16, <1>17 DEF Next, Run

\* goose moves from the catalog of one number of files to that of the next, and back
\* as long as the file has no warning.
LEMMA GooseExplained ==
  ASSUME LoopInv, GooseUp \/ GooseDown
  PROVE  LoopInv'
<1>1. /\ UNCHANGED vars /\ TypeOK /\ HistoryLoads
      /\ applied \in 0..Len(files) /\ clean \in BOOLEAN
  BY DEF GooseUp, GooseDown, LoopInv, LoopType
<1>2. PICK h \in [0..Len(files) -> Schema] : Explains(h)
  BY DEF LoopInv
<1>3. TypeOK' /\ HistoryLoads' /\ files' = files
  BY <1>1 DEF vars, TypeOK, HistoryLoads
<1>4. Rebuilds(h)' /\ Follows(h)' /\ Executes(h)' /\ RunExecutes(h)'
  BY <1>1, <1>2 DEF vars, Explains, Rebuilds, Follows, IsReplaying, GeneratesTo, InFile, Rest,
                    Executes, FileExecutes, RunExecutes, Builds
<1>5. Len(files) \in Nat
  BY <1>1 DEF TypeOK
<1>6. /\ applied' \in 0..Len(files) /\ clean' \in BOOLEAN
      /\ clean' => db' = h[applied']
  <2>1. CASE GooseUp
    <3>1. /\ applied + 1 \in 1..Len(files) /\ (applied + 1) - 1 = applied
          /\ applied' = applied + 1 /\ clean' = clean
          /\ db' \in Execute(files[applied + 1].up, db)
      BY <1>1, <1>5, <2>1 DEF GooseUp
    <3>2. Execute(files[applied + 1].up, h[applied]) = {h[applied + 1]}
      BY <1>2, <3>1 DEF Explains, Executes, FileExecutes, MustLead
    <3> QED
      BY <1>1, <1>2, <3>1, <3>2 DEF Explains
  <2>2. CASE GooseDown
    <3>1. /\ applied \in 1..Len(files) /\ applied - 1 \in 0..Len(files)
          /\ applied' = applied - 1 /\ clean' = (clean /\ ~files[applied].warned)
          /\ db' \in Execute(files[applied].down, db)
      BY <1>1, <1>5, <2>2 DEF GooseDown
    <3>2. ~files[applied].warned => Execute(files[applied].down, h[applied]) = {h[applied - 1]}
      BY <1>2, <3>1 DEF Explains, Executes, FileExecutes, MustLead
    <3> QED
      BY <1>1, <1>2, <3>1, <3>2 DEF Explains
  <2> QED
    BY <2>1, <2>2
<1>7. LoopType' /\ Explains(h)'
  BY <1>3, <1>4, <1>6 DEF LoopType, Explains
<1> QED
  BY <1>2, <1>3, <1>7 DEF LoopInv

\* The inductive invariant of the loop, for every set of schemas that can be migrated.
THEOREM LoopInvHolds == Migratable(Desired) => (LoopSpec => []LoopInv)
<1> SUFFICES ASSUME Migratable(Desired) PROVE LoopSpec => []LoopInv
  OBVIOUS
<1>1. LoopInit => LoopInv
  BY InitLoop
<1>2. LoopInv /\ [LoopNext]_loopVars => LoopInv'
  <2> SUFFICES ASSUME LoopInv, [LoopNext]_loopVars PROVE LoopInv'
    OBVIOUS
  <2>1. CASE UNCHANGED loopVars
    <3>1. UNCHANGED vars /\ UNCHANGED loop
      BY <2>1 DEF loopVars
    <3> QED
      BY <3>1 DEF vars, loop, LoopInv, LoopType, TypeOK, HistoryLoads, Explains, Rebuilds, Follows,
                  IsReplaying, GeneratesTo, InFile, Rest, Executes, FileExecutes, RunExecutes, Builds
  <2> QED
    BY <2>1, CommandExplained, GooseExplained DEF LoopNext
<1> QED
  BY <1>1, <1>2, PTL DEF LoopSpec

\* What the invariant says of a catalog that no irreversible roll back has touched.
LEMMA CleanCatalog ==
  ASSUME LoopInv, clean
  PROVE  /\ applied < Len(files) =>
              /\ Execute(files[applied + 1].up, db) # {}
              /\ ~files[applied + 1].warned =>
                   \A c \in Execute(files[applied + 1].up, db) :
                     Execute(files[applied + 1].down, c) = {db}
         /\ applied = Len(files) /\ Replayed => job.schema = db
         /\ applied = Len(files) /\ files # << >> => Diff(db, Last(files).desired, {}) = {}
         /\ Known(Desired, db) /\ Settled(Desired, db)
<1>1. TypeOK /\ applied \in 0..Len(files) /\ Len(files) \in Nat
  BY DEF LoopInv, LoopType, TypeOK
<1>2. PICK h \in [0..Len(files) -> Schema] : Explains(h)
  BY DEF LoopInv
<1>3. db = h[applied]
  BY <1>2 DEF Explains
<1>4. ASSUME applied < Len(files)
      PROVE  /\ Execute(files[applied + 1].up, db) = {h[applied + 1]}
             /\ ~files[applied + 1].warned =>
                  Execute(files[applied + 1].down, h[applied + 1]) = {db}
  <2>1. applied + 1 \in 1..Len(files) /\ (applied + 1) - 1 = applied
    BY <1>1, <1>4
  <2> QED
    BY <1>2, <1>3, <2>1 DEF Explains, Executes, FileExecutes, MustLead
<1>5. ASSUME applied = Len(files), Replayed PROVE job.schema = db
  BY <1>2, <1>3, <1>5 DEF Explains, Follows, IsReplaying, Replayed
<1>6. ASSUME applied = Len(files), files # << >> PROVE Diff(db, Last(files).desired, {}) = {}
  <2>1. applied \in 1..Len(files) /\ Last(files) = files[applied]
    BY <1>1, <1>6 DEF TypeOK, Last
  <2> QED
    BY <1>2, <1>3, <2>1 DEF Explains, Rebuilds
<1>7. Known(Desired, db) /\ Settled(Desired, db)
  BY <1>1, <1>2, <1>3 DEF Explains, Rebuilds, Executes
<1> QED
  BY <1>4, <1>5, <1>6, <1>7

\* Whatever the developer edits and goose applies and rolls back, in whatever order and
\* as often as they like, PostgreSQL accepts the next file, if no file with a warning was
\* rolled back.
THEOREM EveryUpIsAccepted == Migratable(Desired) => (LoopSpec => []UpAccepted)
<1> SUFFICES ASSUME Migratable(Desired) PROVE LoopSpec => []UpAccepted
  OBVIOUS
<1>1. LoopInv => UpAccepted
  BY CleanCatalog DEF UpAccepted
<1> QED
  BY <1>1, LoopInvHolds, PTL

\* And a file without a warning, applied and rolled back, leaves the catalog as it was to
\* the letter, index names included.
THEOREM EveryDownRestores == Migratable(Desired) => (LoopSpec => []DownRestores)
<1> SUFFICES ASSUME Migratable(Desired) PROVE LoopSpec => []DownRestores
  OBVIOUS
<1>1. LoopInv => DownRestores
  BY CleanCatalog DEF DownRestores
<1> QED
  BY <1>1, LoopInvHolds, PTL

\* What a run rebuilds offline from the files is the database that was given all of them.
THEOREM HistoryIsTheCatalog == Migratable(Desired) => (LoopSpec => []HistoryIsCatalog)
<1> SUFFICES ASSUME Migratable(Desired) PROVE LoopSpec => []HistoryIsCatalog
  OBVIOUS
<1>1. LoopInv => HistoryIsCatalog
  BY CleanCatalog DEF HistoryIsCatalog
<1> QED
  BY <1>1, LoopInvHolds, PTL

\* The database that was given every file says what the run that wrote the last one read.
THEOREM LastFileIsWanted == Migratable(Desired) => (LoopSpec => []AppliedIsWanted)
<1> SUFFICES ASSUME Migratable(Desired) PROVE LoopSpec => []AppliedIsWanted
  OBVIOUS
<1>1. ASSUME LoopInv, clean, applied = Len(files), files # << >>
      PROVE  Meaning(db) = Meaning(Last(files).desired)
  <2>1. /\ Known(Desired, db) /\ Settled(Desired, db)
        /\ Diff(db, Last(files).desired, {}) = {}
    BY <1>1, CleanCatalog
  <2>2. Last(files).desired \in Desired
    <3>1. files \in Seq(File) /\ Len(files) \in DOMAIN files /\ Last(files) = files[Len(files)]
      BY <1>1 DEF LoopInv, LoopType, TypeOK, Last
    <3> QED
      <4>1. files[Len(files)] \in File
        BY <3>1
      <4> QED
        BY <3>1, <4>1 DEF File
  <2> QED
    BY <2>1, <2>2, NothingDiffers, DesiredAssumption
<1>2. LoopInv => AppliedIsWanted
  BY <1>1 DEF AppliedIsWanted
<1> QED
  BY <1>2, LoopInvHolds, PTL

\* A run that finds nothing to do has read what the database that was given every file
\* says: nothing the differ does not compare has drifted.
THEOREM NothingIsHidden == Migratable(Desired) => (LoopSpec => []NoHiddenDrift)
<1> SUFFICES ASSUME Migratable(Desired) PROVE LoopSpec => []NoHiddenDrift
  OBVIOUS
<1>1. ASSUME LoopInv, Replayed, Operations = {}, clean, applied = Len(files)
      PROVE  Meaning(db) = Meaning(job.desired)
  <2>1. Known(Desired, db) /\ Settled(Desired, db) /\ Diff(db, job.desired, {}) = {}
    BY <1>1, CleanCatalog DEF Operations
  <2>2. job.desired \in Desired
    BY <1>1 DEF LoopInv, LoopType, TypeOK, Job
  <2> QED
    BY <2>1, <2>2, NothingDiffers, DesiredAssumption
<1>2. LoopInv => NoHiddenDrift
  BY <1>1 DEF NoHiddenDrift
<1> QED
  BY <1>2, LoopInvHolds, PTL
-----------------------------------------------------------------------------
(***************************************************************************)
(* The loop implements SchemaEvolution, goose and the server included.     *)
(***************************************************************************)
ViewOfDraft == IF job.pc = "idle" THEN NoRun ELSE View(job.desired)

ViewOfLog == [n \in DOMAIN files |-> View(files[n].desired)]

ViewOfLive == IF clean THEN View(db) ELSE Unknown

\* No file, no run and an empty catalog are what SchemaEvolution starts from.
LEMMA InitEvolves == LoopInit => Evolution!Init
<1> SUFFICES ASSUME LoopInit PROVE Evolution!Init
  OBVIOUS
<1>1. ViewOfDraft = NoRun /\ ViewOfLog = << >>
  BY DEF LoopInit, Init, Idle, ViewOfDraft, ViewOfLog
<1> QED
  BY <1>1 DEF LoopInit, Init, Evolution!Init, ViewOfDraft, ViewOfLog

\* A function on the first m numbers is a sequence.
LEMMA IsSequence ==
  ASSUME NEW m \in Nat, NEW T, NEW f, f = [n \in 1..m |-> f[n]], \A n \in 1..m : f[n] \in T
  PROVE  f \in Seq(T) /\ Len(f) = m
OBVIOUS

\* A view of the log grows when the log does.
LEMMA AppendIsViewed ==
  ASSUME files \in Seq(File), files' \in Seq(File), NEW s \in Desired, Log' = Append(Log, s)
  PROVE  ViewOfLog' = Append(ViewOfLog, View(s))
<1> DEFINE V == {View(d) : d \in Desired}
<1>1. /\ \A n \in DOMAIN files : files[n].desired \in Desired
      /\ \A n \in DOMAIN files' : files'[n].desired \in Desired
  <2>1. /\ \A n \in DOMAIN files : files[n] \in File
        /\ \A n \in DOMAIN files' : files'[n] \in File
    OBVIOUS
  <2> QED
    BY <2>1 DEF File
<1>2. /\ Log \in Seq(Desired) /\ Len(Log) = Len(files)
      /\ Log' \in Seq(Desired) /\ Len(Log') = Len(files')
      /\ ViewOfLog \in Seq(V) /\ Len(ViewOfLog) = Len(files)
      /\ ViewOfLog' \in Seq(V) /\ Len(ViewOfLog') = Len(files')
  <2>1. \A n \in DOMAIN files : View(files[n].desired) \in V
    BY <1>1
  <2>2. \A n \in DOMAIN files' : View(files'[n].desired) \in V
    BY <1>1
  <2>4. /\ Len(files) \in Nat /\ DOMAIN files = 1..Len(files)
        /\ Len(files') \in Nat /\ DOMAIN files' = 1..Len(files')
    OBVIOUS
  <2> HIDE DEF V
  <2>5. Log \in Seq(Desired) /\ Len(Log) = Len(files)
    <3>1. Log = [n \in 1..Len(files) |-> Log[n]] /\ \A n \in 1..Len(files) : Log[n] \in Desired
      BY <1>1, <2>4 DEF Log
    <3> QED
      BY <2>4, <3>1, IsSequence
  <2>6. Log' \in Seq(Desired) /\ Len(Log') = Len(files')
    <3>1. PICK m, f : m = Len(files') /\ f = Log'
      OBVIOUS
    <3>2. f = [n \in 1..m |-> f[n]] /\ \A n \in 1..m : f[n] \in Desired
      BY <1>1, <2>4, <3>1 DEF Log
    <3>3. m \in Nat
      BY <2>4, <3>1
    <3>4. f \in Seq(Desired) /\ Len(f) = m
      BY <3>2, <3>3, IsSequence
    <3> QED
      BY <3>1, <3>4
  <2>7. ViewOfLog \in Seq(V) /\ Len(ViewOfLog) = Len(files)
    <3>1. /\ ViewOfLog = [n \in 1..Len(files) |-> ViewOfLog[n]]
          /\ \A n \in 1..Len(files) : ViewOfLog[n] \in V
      BY <2>1, <2>4 DEF ViewOfLog
    <3> QED
      BY <2>4, <3>1, IsSequence
  <2>8. ViewOfLog' \in Seq(V) /\ Len(ViewOfLog') = Len(files')
    <3>1. /\ ViewOfLog' = [n \in 1..Len(files') |-> ViewOfLog'[n]]
          /\ \A n \in 1..Len(files') : ViewOfLog'[n] \in V
      BY <2>2, <2>4 DEF ViewOfLog
    <3> QED
      BY <2>4, <3>1, IsSequence
  <2> QED
    BY <2>5, <2>6, <2>7, <2>8
<1>3. /\ \A n \in 1..Len(files) : Log[n] = files[n].desired
      /\ \A n \in 1..Len(files') : Log'[n] = files'[n].desired
      /\ \A n \in 1..Len(files) : ViewOfLog[n] = View(files[n].desired)
      /\ \A n \in 1..Len(files') : ViewOfLog'[n] = View(files'[n].desired)
  BY DEF Log, ViewOfLog
<1> HIDE DEF V
<1>4. /\ Len(files') = Len(files) + 1 /\ Log'[Len(files) + 1] = s
      /\ \A n \in 1..Len(files) : Log'[n] = Log[n]
  BY <1>2
<1>5. /\ ViewOfLog'[Len(files) + 1] = View(s)
      /\ \A n \in 1..Len(files) : ViewOfLog'[n] = ViewOfLog[n]
  <2>1. ASSUME NEW n \in 1..Len(files) PROVE ViewOfLog'[n] = ViewOfLog[n]
    <3>1. n \in 1..Len(files')
      BY <1>4
    <3>2. files'[n].desired = files[n].desired
      BY <1>3, <1>4, <3>1
    <3> QED
      BY <1>3, <3>1, <3>2
  <2>2. Len(files) + 1 \in 1..Len(files')
    BY <1>4
  <2>3. files'[Len(files) + 1].desired = s
    BY <1>3, <1>4, <2>2
  <2>4. ViewOfLog'[Len(files) + 1] = View(s)
    BY <1>3, <2>2, <2>3
  <2> QED
    BY <2>1, <2>4
<1>6. View(s) \in V
  BY DEF V
<1> QED
  BY <1>2, <1>4, <1>5, <1>6

\* What SchemaEvolution sees of the command is what it sees of schemas, seen through View.
LEMMA CommandEvolves ==
  ASSUME TypeOK, [Next]_vars, UNCHANGED loop
  PROVE  [Evolution!Next]_(Evolution!vars)
<1>1. [Authoring!Next]_(Authoring!vars)
  BY NextAuthoring
<1>2. UNCHANGED <<applied, ViewOfLive>>
  BY DEF loop, ViewOfLive
<1>3. job.desired \in Desired /\ prisma \in Desired /\ files \in Seq(File)
  BY DEF TypeOK, Job
<1>4. TypeOK'
  BY NextType
<1>5. job'.desired \in Desired /\ prisma' \in Desired /\ files' \in Seq(File)
  BY <1>4 DEF TypeOK, Job
<1>6. ASSUME Draft' = Draft PROVE ViewOfDraft' = ViewOfDraft
  BY <1>3, <1>5, <1>6, NoRunAssumption DEF Draft, ViewOfDraft
<1>7. ASSUME Log' = Log PROVE ViewOfLog' = ViewOfLog
  BY <1>7 DEF Log, ViewOfLog
<1>8. CASE UNCHANGED Authoring!vars
  <2>1. prisma' = prisma /\ Draft' = Draft /\ Log' = Log
    BY <1>8 DEF Authoring!vars, Draft, Log
  <2>2. UNCHANGED Evolution!vars
    BY <1>2, <1>6, <1>7, <2>1 DEF Evolution!vars, ViewOfDraft, ViewOfLog, ViewOfLive
  <2> QED
    BY <2>2
<1>9. CASE Authoring!Edit
  <2>1. Draft' = Draft /\ Log' = Log
    BY <1>9 DEF Authoring!Edit, Draft, Log
  <2>2. Evolution!Edit
    BY <1>2, <1>5, <1>6, <1>7, <2>1 DEF Evolution!Edit, ViewOfDraft, ViewOfLog, ViewOfLive
  <2> QED
    BY <2>2 DEF Evolution!Next
<1>10. CASE Authoring!Begin
  <2>1. prisma' = prisma /\ Draft = NoRun /\ Draft' = prisma /\ Log' = Log
    BY <1>10 DEF Authoring!Begin, Draft, Log
  <2>2. ViewOfDraft = NoRun /\ ViewOfDraft' = View(prisma)
    BY <1>3, <2>1, NoRunAssumption DEF Draft, ViewOfDraft
  <2>3. Evolution!Begin
    BY <1>2, <1>7, <2>1, <2>2 DEF Evolution!Begin, ViewOfDraft, ViewOfLog, ViewOfLive
  <2> QED
    BY <2>3 DEF Evolution!Next
<1>11. CASE Authoring!Abandon
  <2>1. prisma' = prisma /\ Draft' = NoRun /\ Log' = Log
    BY <1>11 DEF Authoring!Abandon, Draft, Log
  <2>2. ViewOfDraft' = NoRun
    BY <1>5, <2>1, NoRunAssumption DEF Draft, ViewOfDraft
  <2>3. Evolution!Abandon
    BY <1>2, <1>7, <2>1, <2>2 DEF Evolution!Abandon, ViewOfDraft, ViewOfLog, ViewOfLive
  <2> QED
    BY <2>3 DEF Evolution!Next
<1>12. CASE Authoring!Commit
  <2>1. prisma' = prisma /\ Draft # NoRun /\ Draft' = NoRun /\ Log' = Append(Log, Draft)
    BY <1>12 DEF Authoring!Commit, Draft, Log
  <2>2. Draft \in Desired /\ ViewOfDraft = View(Draft) /\ ViewOfDraft' = NoRun
    BY <1>3, <1>5, <2>1, NoRunAssumption DEF Draft, ViewOfDraft
  <2>3. ViewOfDraft # NoRun
    BY <2>2, UnknownAssumption
  <2>4. ViewOfLog' = Append(ViewOfLog, ViewOfDraft)
    BY <1>3, <1>5, <2>1, <2>2, AppendIsViewed
  <2>5. Evolution!Commit
    BY <1>2, <2>1, <2>2, <2>3, <2>4
       DEF Evolution!Commit, ViewOfDraft, ViewOfLog, ViewOfLive
  <2> QED
    BY <2>5 DEF Evolution!Next
<1>13. ~Authoring!Up /\ ~Authoring!Down
  BY DEF Authoring!Up, Authoring!Down
<1> QED
  BY <1>1, <1>8, <1>9, <1>10, <1>11, <1>12, <1>13 DEF Authoring!Next

\* In each state, the catalog looks like the version its position names.
LEMMA CatalogIsVersion ==
  ASSUME Migratable(Desired), LoopInv, clean
  PROVE  /\ applied = 0 => View(db) = View(EmptySchema)
         /\ applied # 0 => /\ applied \in DOMAIN files
                           /\ files[applied].desired \in Desired
                           /\ View(db) = View(files[applied].desired)
         /\ View(db) # Unknown
<1>1. TypeOK /\ applied \in 0..Len(files) /\ Len(files) \in Nat
  BY DEF LoopInv, LoopType, TypeOK
<1>2. PICK h \in [0..Len(files) -> Schema] : Explains(h)
  BY DEF LoopInv
<1>3. db = h[applied]
  BY <1>2 DEF Explains
<1>4. ASSUME applied = 0 PROVE View(db) = View(EmptySchema)
  BY <1>2, <1>3, <1>4 DEF Explains, Rebuilds
<1>5. ASSUME applied # 0
      PROVE  /\ applied \in DOMAIN files /\ files[applied].desired \in Desired
             /\ View(db) = View(files[applied].desired)
  <2>1. applied \in DOMAIN files /\ applied \in 1..Len(files)
    BY <1>1, <1>5 DEF TypeOK
  <2>2. files[applied].desired \in Desired
    <3>1. files[applied] \in File
      BY <1>1, <2>1 DEF TypeOK
    <3> QED
      BY <3>1 DEF File
  <2>3. /\ Known(Desired, db) /\ Settled(Desired, db)
        /\ Diff(db, files[applied].desired, {}) = {}
    BY <1>1, <1>2, <1>3, <2>1 DEF Explains, Rebuilds, Executes
  <2> QED
    BY <2>1, <2>2, <2>3, NothingDiffers, DesiredAssumption
<1>6. View(db) # Unknown
  BY <1>4, <1>5, UnknownAssumption, DesiredAssumption
<1> QED
  BY <1>4, <1>5, <1>6

\* What CatalogIsVersion says, of one state.
LatestVersion ==
  LoopInv /\ clean =>
    /\ applied = 0 => View(db) = View(EmptySchema)
    /\ applied # 0 => /\ applied \in DOMAIN files
                      /\ View(db) = View(files[applied].desired)

\* The catalog of an explained state is the latest version, also one step on.
LEMMA CatalogIsLatest == Migratable(Desired) => LatestVersion'
<1> SUFFICES ASSUME Migratable(Desired) PROVE LatestVersion'
  OBVIOUS
<1>1. LatestVersion
  BY CatalogIsVersion DEF LatestVersion
<1> QED
  BY <1>1, PTL

\* Goose takes SchemaEvolution up one version, or down one.
LEMMA GooseEvolves ==
  ASSUME Migratable(Desired), LoopInv, LoopInv', GooseUp \/ GooseDown
  PROVE  Evolution!Up \/ Evolution!Down
<1>1. /\ UNCHANGED vars /\ applied \in 0..Len(files) /\ Len(files) \in Nat
      /\ clean \in BOOLEAN
  BY DEF GooseUp, GooseDown, LoopInv, LoopType, TypeOK
<1>2. prisma' = prisma /\ files' = files /\ job' = job
  BY <1>1 DEF vars
<1>3. View(prisma)' = View(prisma) /\ ViewOfDraft' = ViewOfDraft /\ ViewOfLog' = ViewOfLog
  BY <1>2 DEF ViewOfDraft, ViewOfLog
<1>4. DOMAIN files = 1..Len(files) /\ Len(ViewOfLog) = Len(files)
  BY <1>1 DEF ViewOfLog, LoopInv, LoopType, TypeOK
<1>5. ViewOfLive = Unknown <=> ~clean
  BY <1>1, CatalogIsVersion DEF ViewOfLive
<1>6. ASSUME clean'
      PROVE  ViewOfLive' = IF applied' = 0 THEN View(EmptySchema) ELSE ViewOfLog[applied']
  <2>1. /\ applied' = 0 => View(db') = View(EmptySchema)
        /\ applied' # 0 => /\ applied' \in DOMAIN files
                           /\ View(db') = View(files[applied'].desired)
    BY <1>2, <1>6, CatalogIsLatest DEF LatestVersion
  <2> QED
    BY <1>6, <2>1 DEF ViewOfLive, ViewOfLog
<1>7. CASE GooseUp
  <2>1. applied < Len(files) /\ applied' = applied + 1 /\ clean' = clean
    BY <1>7 DEF GooseUp
  <2>2. applied + 1 # 0
    BY <1>1
  <2>3. ViewOfLive' = IF ViewOfLive = Unknown THEN Unknown ELSE ViewOfLog[applied + 1]
    <3>1. CASE clean
      BY <1>5, <1>6, <2>1, <2>2, <3>1
    <3>2. CASE ~clean
      BY <1>5, <2>1, <3>2 DEF ViewOfLive
    <3> QED
      BY <3>1, <3>2
  <2>4. Evolution!Up
    BY <1>2, <1>3, <1>4, <2>1, <2>2, <2>3
       DEF Evolution!Up, Evolution!Known, Evolution!Version, ViewOfDraft, ViewOfLog, ViewOfLive
  <2> QED
    BY <2>4
<1>8. CASE GooseDown
  <2>1. applied > 0 /\ applied' = applied - 1 /\ clean' = (clean /\ ~files[applied].warned)
    BY <1>8 DEF GooseDown
  <2>2. ViewOfLive' \in {Unknown,
          IF ViewOfLive = Unknown THEN Unknown
          ELSE IF applied - 1 = 0 THEN View(EmptySchema) ELSE ViewOfLog[applied - 1]}
    <3>1. CASE clean'
      BY <1>1, <1>5, <1>6, <2>1, <3>1
    <3>2. CASE ~clean'
      BY <3>2 DEF ViewOfLive
    <3> QED
      BY <3>1, <3>2
  <2>3. Evolution!Down
    BY <1>2, <1>3, <1>4, <2>1, <2>2
       DEF Evolution!Down, Evolution!Known, Evolution!Version, ViewOfDraft, ViewOfLog, ViewOfLive
  <2> QED
    BY <2>3
<1> QED
  BY <1>7, <1>8

\* However edits, runs and goose interleave, each file leads to the schema its run read,
\* and the database steps from one such schema to the next or back: the loop implements
\* SchemaEvolution.
THEOREM LoopEvolves == Migratable(Desired) => (LoopSpec => EvolutionSpec)
<1> SUFFICES ASSUME Migratable(Desired) PROVE LoopSpec => EvolutionSpec
  OBVIOUS
<1>1. LoopInit => Evolution!Init
  BY InitEvolves
<1>2. LoopInv /\ LoopInv' /\ [LoopNext]_loopVars => [Evolution!Next]_(Evolution!vars)
  <2> SUFFICES ASSUME LoopInv, LoopInv', [LoopNext]_loopVars
               PROVE  [Evolution!Next]_(Evolution!vars)
    OBVIOUS
  <2>1. TypeOK
    BY DEF LoopInv, LoopType
  <2>2. CASE Command \/ UNCHANGED loopVars
    <3>1. [Next]_vars /\ UNCHANGED loop
      BY <2>2 DEF Command, loopVars
    <3> QED
      BY <2>1, <3>1, CommandEvolves
  <2>3. CASE GooseUp \/ GooseDown
    BY <2>3, GooseEvolves DEF Evolution!Next
  <2> QED
    BY <2>2, <2>3 DEF LoopNext
<1> QED
  BY <1>1, <1>2, LoopInvHolds, PTL DEF LoopSpec, EvolutionSpec, Evolution!Spec
=============================================================================
