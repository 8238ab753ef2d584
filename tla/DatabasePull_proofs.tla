-------------------------- MODULE DatabasePull_proofs --------------------------
(***************************************************************************)
(* Proofs about DatabasePull, for any databases, pool sizes and bounds:    *)
(* its types, its use of the pool, when it touches the file, that no       *)
(* foreign key is left out, and that the file leads back to the database.  *)
(***************************************************************************)
EXTENDS DatabasePull, FiniteSetTheorems, SequenceTheorems, Induction_proofs, TLAPS

\* The connections out of the pool are known from where the run is.
HeldAt(s) == IF s = "rows" THEN 1 ELSE IF s \in Nested THEN 2 ELSE 0

PoolInv == held = HeldAt(step)

\* What each step has behind it.
Validated == {"write", "truncate", "flush", "done"}
Writable  == {"truncate", "flush", "done"}

FileInv ==
  /\ step \in {"validate"} \cup Validated => todo = {}
  /\ step \in Validated => Validate(read)
  /\ step \in Writable => ~WriteFails(read)
  /\ step = "done" => file.doc = Write(read)

PullInv == TypeOK /\ PoolInv /\ FileInv

\* A run that ends without success, from any of its steps, keeps the invariant.
LEMMA FailKeeps ==
  ASSUME PullInv, NEW why \in Failures \cup {"killed"}, Fail(why)
  PROVE  PullInv'
<1>1. TypeOK'
  BY DEF PullInv, TypeOK, Fail, To, server, Ended
<1>2. PoolInv'
  BY DEF PoolInv, HeldAt, Fail, To, Failures, Nested
<1>3. FileInv'
  BY DEF FileInv, Fail, To, Failures, Validated, Writable
<1> QED
  BY <1>1, <1>2, <1>3 DEF PullInv

\* Going on to the next table, or to the end of the list, keeps it.
LEMMA NextTableKeeps ==
  ASSUME PullInv, NEW rest, NextTable(rest), held = 0,
         UNCHANGED <<server, pulls, maxConns, file, held, rows>>
  PROVE  PullInv'
<1>1. TypeOK'
  BY DEF PullInv, TypeOK, NextTable, server, Running
<1>2. PoolInv'
  BY DEF PoolInv, HeldAt, NextTable, Nested
<1>3. FileInv'
  BY DEF FileInv, NextTable, Validated, Writable
<1> QED
  BY <1>1, <1>2, <1>3 DEF PullInv

\* A step that stays within the reading of the catalogs, with the right count.
LEMMA ReadKeeps ==
  ASSUME PullInv, NEW next \in Running \ ({"validate"} \cup Validated), To(next),
         held' = HeldAt(next)
  PROVE  PullInv'
<1>1. HeldAt(next) \in Nat
  BY DEF HeldAt
<1>2. TypeOK'
  BY <1>1 DEF PullInv, TypeOK, To, server
<1>3. PoolInv'
  BY DEF PoolInv, To
<1>4. FileInv'
  BY DEF FileInv, To, Validated, Writable
<1> QED
  BY <1>2, <1>3, <1>4 DEF PullInv

\* A pull that has not begun has seen nothing.
LEMMA InitKeeps == ASSUME Init PROVE PullInv
<1>1. changes \in 0..MaxChanges
  BY BoundsAssumption DEF Init
<1>2. file.is \in File
  BY DEF Init, OldFile, File
<1>3. step = "connect" /\ held = 0
  BY DEF Init
<1>4. changed \in BOOLEAN /\ pulls \in Nat /\ held \in Nat
  BY DEF Init
<1>5. catalog \in Catalogs /\ maxConns \in PoolSizes /\ step \in Running \cup Ended
  BY <1>3 DEF Init, Running, Connecting
<1>6. TypeOK
  BY <1>1, <1>2, <1>4, <1>5 DEF TypeOK
<1>7. PoolInv /\ FileInv
  BY <1>3 DEF PoolInv, HeldAt, Nested, FileInv, Validated, Writable
<1> QED
  BY <1>6, <1>7 DEF PullInv

\* A connection begins with the enums.
LEMMA ConnectKeeps == ASSUME PullInv, ConnectSteps \/ ListTables PROVE PullInv'
<1>1. CASE Connect
  BY <1>1, ReadKeeps, FailKeeps DEF Connect, PullInv, PoolInv, HeldAt, Nested, Running, Connecting,
     Failures, Validated
<1>2. CASE CheckVersion
  BY <1>2, ReadKeeps, FailKeeps DEF CheckVersion, PullInv, PoolInv, HeldAt, Nested, Running,
     Connecting, Failures, Validated
<1>3. CASE CheckMultiSchema
  BY <1>3, ReadKeeps DEF CheckMultiSchema, PullInv, PoolInv, HeldAt, Nested, Running, Single,
     Validated
<1>4. CASE ListTables
  BY <1>4, ReadKeeps DEF ListTables, PullInv, PoolInv, HeldAt, Nested, Running, Single, Validated
<1> QED
  BY <1>1, <1>2, <1>3, <1>4 DEF ConnectSteps

\* The enums are those of the moment they are read.
LEMMA EnumsKeep == ASSUME PullInv, listEnums PROVE PullInv'
<1>1. held = 0
  BY DEF listEnums, PullInv, PoolInv, HeldAt, Nested
<1> QED
  BY <1>1, NextTableKeeps DEF listEnums

\* An answer of a catalog query is put beside what was answered before.
LEMMA AnswerKeeps == ASSUME PullInv, Answered, step \in Nested PROVE PullInv'
<1>1. held' = 1 /\ To("rows")
  BY DEF Answered, AppendColumn, PullInv, PoolInv, HeldAt, Nested
<1> QED
  BY <1>1, ReadKeeps DEF HeldAt, Running, Validated

\* The columns of a table, with the types the mapping knows.
LEMMA ColumnsKeep == ASSUME PullInv, ColumnSteps PROVE PullInv'
<1>1. CASE QueryColumns
  <2>1. held = 0 /\ HeldAt("rows") = 1
    BY <1>1 DEF QueryColumns, PullInv, PoolInv, HeldAt, Nested
  <2>2. CASE Exists(table)
    BY <1>1, <2>1, <2>2, ReadKeeps DEF QueryColumns, Running, Validated
  <2>3. CASE ~Exists(table)
    BY <1>1, <2>3, FailKeeps DEF QueryColumns, Failures
  <2> QED
    BY <2>2, <2>3
<1>2. CASE BuildColumn
  <2>1. held' = HeldAt("rows") /\ To("rows")
    BY <1>2 DEF BuildColumn, AppendColumn, PullInv, PoolInv
  <2> QED
    BY <2>1, ReadKeeps DEF Running, Validated
<1>3. CASE Acquire
  <2>1. Question \in Nested /\ held' = 2 /\ To(Question)
    BY <1>3 DEF Acquire, Question, Nested, PullInv, PoolInv, HeldAt
  <2> QED
    BY <2>1, ReadKeeps DEF HeldAt, Running, Validated, Nested
<1>4. CASE IsEnumType
  BY <1>4, AnswerKeeps, FailKeeps DEF IsEnumType, Nested, Failures
<1>5. CASE DetectSequence
  BY <1>5, AnswerKeeps, FailKeeps DEF DetectSequence, Nested, Failures
<1>6. CASE NestedTimeout
  BY <1>6, FailKeeps DEF NestedTimeout, Failures
<1>7. CASE ColumnsEnd
  <2>1. held' = 0 /\ To("pk")
    BY <1>7 DEF ColumnsEnd, PullInv, PoolInv, HeldAt
  <2> QED
    BY <2>1, ReadKeeps DEF HeldAt, Running, Single, Nested, Validated
<1> QED
  BY <1>1, <1>2, <1>3, <1>4, <1>5, <1>6, <1>7 DEF ColumnSteps

\* Keys, indexes and foreign keys are added to the table at hand.
LEMMA QueryKeeps ==
  ASSUME PullInv, NEW part \in Single, NEW next \in Single, NEW schema, Query(part, next, schema)
  PROVE  PullInv'
<1>1. HeldAt(part) = 0 /\ HeldAt(next) = 0 /\ next \in Running \ ({"validate"} \cup Validated)
  BY DEF HeldAt, Single, Nested, Running, Validated
<1>2. CASE To(next) /\ UNCHANGED held
  BY <1>1, <1>2, ReadKeeps DEF Query, PullInv, PoolInv
<1>3. CASE Fail("query")
  BY <1>3, FailKeeps DEF Failures
<1> QED
  BY <1>2, <1>3 DEF Query

\* The names of the tables, and the first of them.
LEMMA TablesKeep == ASSUME PullInv, TableSteps PROVE PullInv'
<1>1. CASE IntrospectPrimaryKey
  BY <1>1, QueryKeeps DEF IntrospectPrimaryKey, Single
<1>2. CASE IntrospectForeignKeys
  BY <1>2, QueryKeeps DEF IntrospectForeignKeys, Single
<1>3. CASE IntrospectIndexes
  BY <1>3, QueryKeeps DEF IntrospectIndexes, Single
<1>4. CASE IntrospectCheckConstraints
  BY <1>4, QueryKeeps DEF IntrospectCheckConstraints, Single
<1>5. CASE IntrospectUniqueConstraints
  <2>1. held = 0
    BY <1>5 DEF IntrospectUniqueConstraints, PullInv, PoolInv, HeldAt, Nested
  <2>2. CASE Exists(table)
    BY <1>5, <2>1, <2>2, NextTableKeeps DEF IntrospectUniqueConstraints
  <2>3. CASE ~Exists(table)
    BY <1>5, <2>3, FailKeeps DEF IntrospectUniqueConstraints, Failures
  <2> QED
    BY <2>2, <2>3
<1> QED
  BY <1>1, <1>2, <1>3, <1>4, <1>5 DEF TableSteps

\* The file is written, or the pull is refused or fails.
LEMMA FileKeeps == ASSUME PullInv, FileSteps PROVE PullInv'
<1>1. CASE ValidateSchema
  <2>1. CASE Validate(read)
    BY <1>1, <2>1 DEF ValidateSchema, PullInv, TypeOK, PoolInv, HeldAt, Nested, FileInv, To, server,
       Running, Validated, Writable
  <2>2. CASE ~Validate(read)
    BY <1>1, <2>2, FailKeeps DEF ValidateSchema, Failures
  <2> QED
    BY <2>1, <2>2
<1>2. CASE WriteSchema
  <2>1. CASE WriteFails(read)
    BY <1>2, <2>1, FailKeeps DEF WriteSchema, Failures
  <2>2. CASE ~WriteFails(read)
    BY <1>2, <2>2 DEF WriteSchema, PullInv, TypeOK, PoolInv, HeldAt, Nested, FileInv, To, server,
       Running, Validated, Writable
  <2> QED
    BY <2>1, <2>2
<1>3. CASE Truncate
  <2>1. CASE Fail("full")
    BY <2>1, FailKeeps DEF Failures
  <2>2. CASE ~Fail("full")
    BY <1>3, <2>2 DEF Truncate, PullInv, TypeOK, PoolInv, HeldAt, Nested, FileInv, server, Running,
       Validated, Writable, TornFile, File
  <2> QED
    BY <2>1, <2>2
<1>4. CASE Flush
  BY <1>4 DEF Flush, PullInv, TypeOK, PoolInv, HeldAt, Nested, FileInv, server, Running, Ended,
     Failures, Validated, Writable, File
<1> QED
  BY <1>1, <1>2, <1>3, <1>4 DEF FileSteps

\* The catalog changes under the pull, and what was read does not.
LEMMA WorldKeeps == ASSUME PullInv, QueryFails \/ Kill \/ Rerun \/ Change PROVE PullInv'
<1>1. CASE QueryFails
  BY <1>1, FailKeeps DEF QueryFails, Failures
<1>2. CASE Kill
  BY <1>2, FailKeeps DEF Kill
<1>3. CASE Rerun
  <2>1. step' = "connect" /\ held' = 0
    BY <1>3 DEF Rerun
  <2>2. TypeOK'
    <3>1. changed' = FALSE /\ pulls' = pulls + 1
      BY <1>3 DEF Rerun
    <3>4. pulls \in Nat
      BY DEF PullInv, TypeOK
    <3>5. held' \in Nat /\ pulls' \in Nat
      BY <2>1, <3>1, <3>4
    <3>6. changed' \in BOOLEAN
      BY <3>1, Zenon
    <3>2. step' \in Running \cup Ended
      BY <2>1 DEF Running, Connecting
    <3>3. UNCHANGED <<catalog, changes, maxConns, file>>
      BY <1>3 DEF Rerun
    <3> QED
      BY <3>2, <3>3, <3>5, <3>6 DEF PullInv, TypeOK
  <2>3. PoolInv' /\ FileInv'
    BY <2>1 DEF PoolInv, HeldAt, Nested, FileInv, Validated, Writable
  <2> QED
    BY <2>2, <2>3 DEF PullInv
<1>4. CASE Change
  BY <1>4, BoundsAssumption DEF Change, PullInv, TypeOK, PoolInv, HeldAt, FileInv, run
<1> QED
  BY <1>1, <1>2, <1>3, <1>4

\* Nothing changes.
LEMMA StutterKeeps == ASSUME PullInv, UNCHANGED vars PROVE PullInv'
BY DEF PullInv, TypeOK, PoolInv, HeldAt, FileInv, vars, server, run

\* The invariant of the pull holds, whatever the catalog and its changes.
THEOREM PullInvHolds == Spec => []PullInv
<1>1. PullInv /\ [Next]_vars => PullInv'
  BY ConnectKeeps, EnumsKeep, ColumnsKeep, TablesKeep, FileKeeps, WorldKeeps, StutterKeeps
     DEF Next, Pull
<1> QED
  BY InitKeeps, <1>1, PTL DEF Spec

\* For every set of databases and of pool sizes.
THEOREM TypeCorrect == Spec => []TypeOK
BY PullInvHolds, PTL DEF PullInv

\* Unless there is one connection alone, a nested query finds one: whatever the
\* tables, their columns and the order of failures.
THEOREM PoolCorrect == Spec => []PoolSuffices
<1>1. PullInv => PoolSuffices
  BY PoolSizesAssumption DEF PullInv, TypeOK, PoolInv, HeldAt, PoolSuffices
<1> QED
  BY <1>1, PullInvHolds, PTL

\* The Prisma file is touched for a complete, valid and writable schema only,
\* with every connection back in the pool.
THEOREM FileCorrect == Spec => FileGuarded
<1> DEFINE Guard == todo = {} /\ Validate(read) /\ ~WriteFails(read) /\ held = 0
<1>1. ASSUME PullInv, [Next]_vars
      PROVE  [file' # file => Guard]_vars
  <2>1. CASE Truncate \/ Flush
    BY <1>1, <2>1 DEF Truncate, Flush, PullInv, PoolInv, HeldAt, Nested, FileInv, Validated, Writable,
       Fail, To
  <2>2. CASE ConnectSteps \/ ListTables \/ listEnums
    BY <2>2 DEF ConnectSteps, Connect, CheckVersion, CheckMultiSchema, ListTables, listEnums, To,
       Fail
  <2>3. CASE ColumnSteps
    BY <2>3 DEF ColumnSteps, QueryColumns, BuildColumn, Acquire, IsEnumType, DetectSequence,
       NestedTimeout, ColumnsEnd, Answered, AppendColumn, To, Fail
  <2>4. CASE TableSteps
    BY <2>4 DEF TableSteps, IntrospectPrimaryKey, IntrospectForeignKeys, IntrospectIndexes,
       IntrospectCheckConstraints, IntrospectUniqueConstraints, Query, To, Fail
  <2>5. CASE ValidateSchema \/ WriteSchema
    BY <2>5 DEF ValidateSchema, WriteSchema, To, Fail
  <2>6. CASE QueryFails \/ Kill \/ Rerun \/ Change
    BY <2>6 DEF QueryFails, Kill, Rerun, Change, To, Fail
  <2>7. CASE UNCHANGED vars
    BY <2>7 DEF vars
  <2> QED
    BY <1>1, <2>1, <2>2, <2>3, <2>4, <2>5, <2>6, <2>7 DEF Next, Pull, FileSteps
<1> QED
  BY <1>1, PullInvHolds, PTL DEF Spec, FileGuarded

\* What the writer makes of a key of a valid schema.
LEMMA BothFields ==
  ASSUME NEW s, Validate(s), NEW t \in DOMAIN s.tables, NEW fk \in s.tables[t].fks
  PROVE  /\ \E m \in Write(s).models : m.map = t /\ forwardRelationField(s, t, fk) \in m.fields
         /\ \E m \in Write(s).models :
              m.map = fk.refTable /\ backRelationField(s, t, fk) \in m.fields
<1>1. fk.refTable \in DOMAIN s.tables
  BY DEF Validate
<1>2. ASSUME NEW u \in DOMAIN s.tables, NEW r \in relationPlan(s, u)
      PROVE  /\ writeTable(s, u) \in Write(s).models
             /\ writeTable(s, u).map = u /\ r.field \in writeTable(s, u).fields
  BY DEF Write, writeTable
<1>3. [key |-> fk, of |-> t, field |-> forwardRelationField(s, t, fk)] \in relationPlan(s, t)
  BY <1>1 DEF relationPlan
<1>4. [key |-> fk, of |-> t, field |-> backRelationField(s, t, fk)]
        \in relationPlan(s, fk.refTable)
  BY <1>1 DEF relationPlan, Pair
<1> QED
  BY <1>1, <1>2, <1>3, <1>4

\* No foreign key that was read is missing from the file, whatever changed in
\* the database meanwhile.
THEOREM KeysKept == Spec => []ForeignKeysKept
<1>1. PullInv => ForeignKeysKept
  <2> SUFFICES ASSUME PullInv, step = "done", NEW t \in DOMAIN read.tables,
                      NEW fk \in read.tables[t].fks
               PROVE  /\ \E m \in file.doc.models :
                           m.map = t /\ forwardRelationField(read, t, fk) \in m.fields
                      /\ \E m \in file.doc.models :
                           m.map = fk.refTable /\ backRelationField(read, t, fk) \in m.fields
    BY DEF ForeignKeysKept
  <2>1. Validate(read) /\ file.doc = Write(read)
    BY DEF PullInv, FileInv, Validated
  <2> QED
    BY <2>1, BothFields
<1> QED
  BY <1>1, PullInvHolds, PTL
-----------------------------------------------------------------------------
(***************************************************************************)
(* What an undisturbed pull has read: the tables that are done, and of the *)
(* one at hand what its queries have returned so far.                      *)
(***************************************************************************)
Folds(c) == \A n \in DOMAIN c.tables : Lower(n) = n

RowsOf(t) == {[name |-> x, col |-> t.cols[x]] : x \in DOMAIN t.cols}

Columns(t) == [x \in DOMAIN t.cols |-> buildColumn(t.cols[x])]

Got(t) ==
  [cols |-> Columns(t), pk |-> t.pk, uniques |-> t.uniques, indexes |-> IndexRows(t),
   fks |-> ForeignKeyRows(t)]

Complete(c, rest) ==
  [tables |-> [n \in DOMAIN c.tables \ rest |-> Got(c.tables[n])], enums |-> c.enums]

Shown(c, rest, t, part) ==
  [tables |-> [n \in (DOMAIN c.tables \ rest) \cup {t} |->
                 IF n = t THEN part ELSE Got(c.tables[n])],
   enums |-> c.enums]

\* The table before the query of step s.
Part(t, cols, s) ==
  [cols |-> cols, pk |-> IF s \in {"rows", "pk"} THEN << >> ELSE t.pk, uniques |-> {},
   indexes |-> IF s \in {"checks", "uniques"} THEN IndexRows(t) ELSE {},
   fks |-> IF s \in {"rows", "pk", "fks"} THEN {} ELSE ForeignKeyRows(t)]

\* Each column is built, or among the rows.
Built(cols, rs, t) ==
  /\ rs \in Seq(RowsOf(t))
  /\ DOMAIN cols \cup {rs[i].name : i \in DOMAIN rs} = DOMAIN t.cols
  /\ cols = [x \in DOMAIN cols |-> buildColumn(t.cols[x])]

Before  == {"connect", "version", "schemas", "tables", "enums"}
InRows  == {"rows"} \cup Nested
InTable == Single \ {"tables", "enums"}

SnapAt ==
  /\ step \in Before => read = NoSchema
  /\ step = "enums" => todo = DOMAIN catalog.tables
  /\ step \in {"columns"} \cup InRows \cup InTable =>
       todo \subseteq DOMAIN catalog.tables /\ table \in todo
  /\ step \in Nested => rows # << >>
  /\ step = "columns" => read = Complete(catalog, todo)
  /\ step \in InRows =>
       \E cols : /\ read = Shown(catalog, todo, table, Part(catalog.tables[table], cols, "rows"))
                 /\ Built(cols, rows, catalog.tables[table])
  /\ step \in InTable =>
       LET t == catalog.tables[table]
       IN  read = Shown(catalog, todo, table, Part(t, Columns(t), step))
  /\ step \in {"validate"} \cup Validated => read = Complete(catalog, {})

SnapInv == ~changed /\ Folds(catalog) => SnapAt

\* One field of a schema is replaced.
LEMMA FieldSet ==
  ASSUME NEW s, NEW tables, NEW enums, s = [tables |-> tables, enums |-> enums], NEW v
  PROVE  /\ [s EXCEPT !.enums = v] = [tables |-> tables, enums |-> v]
         /\ [s EXCEPT !.tables = v] = [tables |-> v, enums |-> enums]
OBVIOUS

\* The schema with its enums only.
LEMMA EnumsRead ==
  ASSUME NEW c
  PROVE  [NoSchema EXCEPT !.enums = c.enums] = Complete(c, DOMAIN c.tables)
<1> DEFINE D == DOMAIN c.tables
<1>1. \A n \in 1..0 : FALSE
  OBVIOUS
<1>2. D \ D = 1..0
  BY <1>1
<1>3. [n \in D \ D |-> Got(c.tables[n])] = [n \in 1..0 |-> Got(c.tables[n])]
  BY <1>2
<1>4. /\ [n \in 1..0 |-> Got(c.tables[n])] \in Seq({})
      /\ Len([n \in 1..0 |-> Got(c.tables[n])]) = 0
  OBVIOUS
<1>5. << >> = [n \in D \ D |-> Got(c.tables[n])]
  BY <1>3, <1>4
<1>6. NoSchema = [tables |-> << >>, enums |-> << >>]
  BY DEF NoSchema
<1>7. [NoSchema EXCEPT !.enums = c.enums] = [tables |-> << >>, enums |-> c.enums]
  BY <1>6, FieldSet
<1> QED
  BY <1>5, <1>7 DEF Complete

\* A table is begun beside those that are done.
LEMMA TableBegun ==
  ASSUME NEW c, NEW rest, NEW t \in rest, NEW part
  PROVE  [Complete(c, rest) EXCEPT !.tables = Put(@, t, part)] = Shown(c, rest, t, part)
<1> DEFINE T == [n \in DOMAIN c.tables \ rest |-> Got(c.tables[n])]
           S == [n \in (DOMAIN c.tables \ rest) \cup {t} |->
                   IF n = t THEN part ELSE Got(c.tables[n])]
<1>1. Put(T, t, part) = S
  BY DEF Put
<1>2. Complete(c, rest) = [tables |-> T, enums |-> c.enums]
  BY DEF Complete
<1>3. Shown(c, rest, t, part) = [tables |-> S, enums |-> c.enums]
  BY DEF Shown
<1> HIDE DEF T, S
<1> QED
  BY <1>1, <1>2, <1>3

\* What a query returns is put into the table at hand.
LEMMA PartReplaced ==
  ASSUME NEW c, NEW rest, NEW t, NEW part, NEW q
  PROVE  /\ [Shown(c, rest, t, part) EXCEPT !.tables[t] = q] = Shown(c, rest, t, q)
         /\ Shown(c, rest, t, part).tables[t] = part
<1> DEFINE S(p) == [n \in (DOMAIN c.tables \ rest) \cup {t} |->
                      IF n = t THEN p ELSE Got(c.tables[n])]
<1>1. [S(part) EXCEPT ![t] = q] = S(q) /\ S(part)[t] = part
  OBVIOUS
<1>2. \A p : Shown(c, rest, t, p) = [tables |-> S(p), enums |-> c.enums]
  BY DEF Shown
<1> HIDE DEF S
<1> QED
  BY <1>1, <1>2

\* The last query makes the table one of those that are done.
LEMMA TableDone ==
  ASSUME NEW c, NEW rest, NEW t \in rest, t \in DOMAIN c.tables
  PROVE  Shown(c, rest, t, Got(c.tables[t])) = Complete(c, rest \ {t})
<1>1. (DOMAIN c.tables \ rest) \cup {t} = DOMAIN c.tables \ (rest \ {t})
  OBVIOUS
<1>2. [n \in (DOMAIN c.tables \ rest) \cup {t} |->
         IF n = t THEN Got(c.tables[t]) ELSE Got(c.tables[n])]
        = [n \in DOMAIN c.tables \ (rest \ {t}) |-> Got(c.tables[n])]
  BY <1>1
<1> QED
  BY <1>2 DEF Shown, Complete

\* The rows of a table name each of its columns.
LEMMA RowsBegin ==
  ASSUME NEW t, IsFiniteSet(DOMAIN t.cols)
  PROVE  Built(<< >>, SetToSeq(RowsOf(t)), t)
<1> DEFINE R == RowsOf(t)
           n == Cardinality(R)
           q == SetToSeq(R)
<1>0. [x \in DOMAIN t.cols |-> [name |-> x, col |-> t.cols[x]]] \in Surjection(DOMAIN t.cols, R)
  BY DEF RowsOf, Surjection
<1>1. IsFiniteSet(R)
  BY <1>0, FS_Surjection
<1>2. n \in Nat /\ ExistsBijection(1..n, R)
  BY <1>1, FS_CardinalityType
<1>3. \E f \in [1..n -> R] : IsInjective(f)
  BY <1>2 DEF ExistsBijection, Bijection, Injection, IsInjective
<1>4. q \in [1..n -> R] /\ IsInjective(q)
  BY <1>3 DEF SetToSeq
<1>5. q \in Injection(1..n, R)
  BY <1>4 DEF Injection, IsInjective
<1>6. IsFiniteSet(1..n) /\ Cardinality(1..n) = n
  BY <1>2, FS_Interval
<1>7. q \in Surjection(1..n, R)
  BY <1>1, <1>5, <1>6, FS_Injection
<1>8. q \in Seq(R) /\ DOMAIN q = 1..n
  BY <1>2, <1>4
<1>9. \A r \in R : \E i \in 1..n : q[i] = r
  BY <1>7 DEF Surjection
<1>10. {q[i].name : i \in DOMAIN q} = DOMAIN t.cols
  <2>1. ASSUME NEW x \in DOMAIN t.cols PROVE x \in {q[i].name : i \in DOMAIN q}
    <3>1. [name |-> x, col |-> t.cols[x]] \in R
      BY DEF RowsOf
    <3>2. PICK i \in 1..n : q[i] = [name |-> x, col |-> t.cols[x]]
      BY <1>9, <3>1
    <3> QED
      BY <1>8, <3>2
  <2>2. ASSUME NEW i \in DOMAIN q PROVE q[i].name \in DOMAIN t.cols
    <3>1. q[i] \in R
      BY <1>4
    <3>2. PICK x \in DOMAIN t.cols : q[i] = [name |-> x, col |-> t.cols[x]]
      BY <3>1 DEF RowsOf
    <3> QED
      BY <3>2
  <2> QED
    BY <2>1, <2>2
<1>11. DOMAIN << >> = {}
  OBVIOUS
<1>12. << >> = [x \in DOMAIN << >> |-> buildColumn(t.cols[x])]
  OBVIOUS
<1> HIDE DEF R, n, q
<1> QED
  BY <1>8, <1>10, <1>11, <1>12 DEF Built, R, q

\* The first row becomes a column.
LEMMA RowBuilt ==
  ASSUME NEW t, NEW cols, NEW rs, rs # << >>, Built(cols, rs, t)
  PROVE  Built(Put(cols, Head(rs).name, buildColumn(Head(rs).col)), Tail(rs), t)
<1> DEFINE r == Head(rs)
           more == Put(cols, r.name, buildColumn(r.col))
<1>1. rs \in Seq(RowsOf(t))
  BY DEF Built
<1>2. r \in RowsOf(t) /\ Tail(rs) \in Seq(RowsOf(t)) /\ r = rs[1] /\ 1 \in DOMAIN rs
  BY <1>1
<1>3. r.name \in DOMAIN t.cols /\ r.col = t.cols[r.name]
  BY <1>2 DEF RowsOf
<1>4. more = [x \in {r.name} \cup DOMAIN cols |->
                IF x = r.name THEN buildColumn(r.col) ELSE cols[x]]
  BY DEF Put
<1>5. DOMAIN more = {r.name} \cup DOMAIN cols
  BY <1>4
<1>6. \A x \in DOMAIN cols : cols[x] = buildColumn(t.cols[x])
  BY DEF Built
<1>7. more = [x \in DOMAIN more |-> buildColumn(t.cols[x])]
  BY <1>3, <1>4, <1>5, <1>6
<1>8. {rs[i].name : i \in DOMAIN rs} = {r.name} \cup {Tail(rs)[i].name : i \in DOMAIN Tail(rs)}
  <2>1. ASSUME NEW i \in DOMAIN rs, i # 1
        PROVE  i - 1 \in DOMAIN Tail(rs) /\ Tail(rs)[i - 1] = rs[i]
    BY <1>1, <2>1
  <2>2. ASSUME NEW i \in DOMAIN Tail(rs)
        PROVE  i + 1 \in DOMAIN rs /\ Tail(rs)[i] = rs[i + 1]
    BY <1>1, <1>2
  <2> DEFINE A == {rs[i].name : i \in DOMAIN rs}
             B == {Tail(rs)[i].name : i \in DOMAIN Tail(rs)}
  <2>3. ASSUME NEW i \in DOMAIN rs PROVE rs[i].name \in {r.name} \cup B
    <3>1. CASE i = 1
      BY <1>2, <3>1
    <3>2. CASE i # 1
      BY <2>1, <3>2
    <3> QED
      BY <3>1, <3>2
  <2>4. r.name \in A
    BY <1>2
  <2>5. ASSUME NEW i \in DOMAIN Tail(rs) PROVE Tail(rs)[i].name \in A
    BY <2>2
  <2> QED
    BY <2>3, <2>4, <2>5
<1>9. DOMAIN more \cup {Tail(rs)[i].name : i \in DOMAIN Tail(rs)} = DOMAIN t.cols
  BY <1>5, <1>8 DEF Built
<1> HIDE DEF r, more
<1> QED
  BY <1>2, <1>7, <1>9 DEF Built, r, more

\* Without a row left, all columns are built.
LEMMA RowsEnd ==
  ASSUME NEW t, NEW cols, Built(cols, << >>, t)
  PROVE  cols = Columns(t)
<1>1. DOMAIN cols = DOMAIN t.cols
  BY DEF Built
<1> QED
  BY <1>1 DEF Built, Columns

\* A unique constraint is in two catalogs, and read as one.
LEMMA ConstraintOnce ==
  ASSUME NEW t, NEW w, w = [cols |-> Columns(t), pk |-> t.pk, uniques |-> t.uniques,
                            indexes |-> t.indexes, fks |-> ForeignKeyRows(t)]
  PROVE  ViewTable(Got(t)) = ViewTable(w)
<1> DEFINE Single1(I) == {l \in {i.cols : i \in {j \in I : j.unique}} : Len(l) = 1}
<1>1. \A i \in IndexRows(t) :
        i \in t.indexes \/ (i.unique /\ i.cols \in t.uniques)
  BY DEF IndexRows
<1>2. t.indexes \subseteq IndexRows(t)
  BY DEF IndexRows
<1>3. {i \in IndexRows(t) : ~i.unique} = {i \in t.indexes : ~i.unique}
  BY <1>1, <1>2
<1>4. t.uniques \cup Single1(IndexRows(t)) = t.uniques \cup Single1(t.indexes)
  BY <1>1, <1>2
<1> HIDE DEF Single1
<1>5. ViewTable(Got(t)) =
        [cols |-> [c \in DOMAIN Columns(t) |-> ViewColumn(Columns(t)[c])], pk |-> t.pk,
         uniques |-> t.uniques \cup Single1(IndexRows(t)),
         indexes |-> {i \in IndexRows(t) : ~i.unique}, fks |-> ForeignKeyRows(t)]
  BY DEF ViewTable, Got, Single1
<1>6. ViewTable(w) =
        [cols |-> [c \in DOMAIN Columns(t) |-> ViewColumn(Columns(t)[c])], pk |-> t.pk,
         uniques |-> t.uniques \cup Single1(t.indexes),
         indexes |-> {i \in t.indexes : ~i.unique}, fks |-> ForeignKeyRows(t)]
  BY DEF ViewTable, Single1
<1> QED
  BY <1>3, <1>4, <1>5, <1>6

\* Everything read is the snapshot.
LEMMA CompleteIsWhole ==
  ASSUME NEW c
  PROVE  View(Complete(c, {})) = View(Whole(c))
<1> DEFINE W(t) == [cols |-> Columns(t), pk |-> t.pk, uniques |-> t.uniques,
                    indexes |-> t.indexes, fks |-> ForeignKeyRows(t)]
<1>1. Whole(c) = [tables |-> [n \in DOMAIN c.tables |-> W(c.tables[n])], enums |-> c.enums]
  BY DEF Whole, Columns
<1>2. \A t : ViewTable(Got(t)) = ViewTable(W(t))
  BY ConstraintOnce
<1> HIDE DEF W
<1> DEFINE D == DOMAIN c.tables
           w == Whole(c)
           g == Complete(c, {})
<1>3. DOMAIN w.tables = D /\ w.enums = c.enums /\ \A n \in D : w.tables[n] = W(c.tables[n])
  BY <1>1
<1>4. DOMAIN g.tables = D /\ g.enums = c.enums /\ \A n \in D : g.tables[n] = Got(c.tables[n])
  BY DEF Complete
<1> HIDE DEF w, g
<1>5. [n \in DOMAIN g.tables |-> ViewTable(g.tables[n])]
        = [n \in DOMAIN w.tables |-> ViewTable(w.tables[n])]
  BY <1>2, <1>3, <1>4
<1>6. View(g) = View(w)
  BY <1>3, <1>4, <1>5 DEF View
<1> QED
  BY <1>6 DEF w, g

\* A column is added to the table at hand.
LEMMA ColumnsRead ==
  ASSUME NEW c, NEW rest, NEW n, NEW t, NEW cols, NEW s,
         s = Shown(c, rest, n, Part(t, cols, "rows")), NEW v
  PROVE  [s EXCEPT !.tables[n].cols = v]
           = Shown(c, rest, n, Part(t, v, "rows"))
<1>0. PICK k : k = << >>
  OBVIOUS
<1>1. PICK p : p = Part(t, cols, "rows")
  OBVIOUS
<1>2. p = [cols |-> cols, pk |-> k, uniques |-> {}, indexes |-> {},
            fks |-> {}]
  BY <1>0, <1>1 DEF Part
<1>3. [p EXCEPT !.cols = v]
        = [cols |-> v, pk |-> k, uniques |-> {}, indexes |-> {},
            fks |-> {}]
  BY <1>2
<1>4. Part(t, v, "rows")
        = [cols |-> v, pk |-> k, uniques |-> {}, indexes |-> {},
            fks |-> {}]
  BY <1>0 DEF Part
<1>5. s.tables[n] = p /\ \A q : [s EXCEPT !.tables[n] = q] = Shown(c, rest, n, q)
  BY <1>1, PartReplaced
<1>6. [s EXCEPT !.tables[n].cols = v]
        = [s EXCEPT !.tables[n] = [s.tables[n] EXCEPT !.cols = v]]
  OBVIOUS
<1> QED
  BY <1>3, <1>4, <1>5, <1>6

\* Its primary key is read into it.
LEMMA KeyRead ==
  ASSUME NEW c, NEW rest, NEW n, NEW t, NEW cols, NEW s,
         s = Shown(c, rest, n, Part(t, cols, "pk"))
  PROVE  [s EXCEPT !.tables[n].pk = t.pk]
           = Shown(c, rest, n, Part(t, cols, "fks"))
<1>0. PICK k, v : k = << >> /\ v = t.pk
  OBVIOUS
<1>1. PICK p : p = Part(t, cols, "pk")
  OBVIOUS
<1>2. p = [cols |-> cols, pk |-> k, uniques |-> {}, indexes |-> {},
            fks |-> {}]
  BY <1>0, <1>1 DEF Part
<1>3. [p EXCEPT !.pk = v]
        = [cols |-> cols, pk |-> v, uniques |-> {}, indexes |-> {},
            fks |-> {}]
  BY <1>2
<1>4. Part(t, cols, "fks")
        = [cols |-> cols, pk |-> t.pk, uniques |-> {}, indexes |-> {},
            fks |-> {}]
  BY DEF Part
<1>5. s.tables[n] = p /\ \A q : [s EXCEPT !.tables[n] = q] = Shown(c, rest, n, q)
  BY <1>1, PartReplaced
<1>6. [s EXCEPT !.tables[n].pk = t.pk]
        = [s EXCEPT !.tables[n] = [s.tables[n] EXCEPT !.pk = t.pk]]
  OBVIOUS
<1> QED
  BY <1>0, <1>3, <1>4, <1>5, <1>6

\* Its foreign keys are.
LEMMA ForeignKeysRead ==
  ASSUME NEW c, NEW rest, NEW n, NEW t, NEW cols, NEW s,
         s = Shown(c, rest, n, Part(t, cols, "fks"))
  PROVE  [s EXCEPT !.tables[n].fks = ForeignKeyRows(t)]
           = Shown(c, rest, n, Part(t, cols, "indexes"))
<1>1. PICK p : p = Part(t, cols, "fks")
  OBVIOUS
<1>2. p = [cols |-> cols, pk |-> t.pk, uniques |-> {}, indexes |-> {},
            fks |-> {}]
  BY <1>1 DEF Part
<1>3. [p EXCEPT !.fks = ForeignKeyRows(t)]
        = [cols |-> cols, pk |-> t.pk, uniques |-> {}, indexes |-> {},
            fks |-> ForeignKeyRows(t)]
  BY <1>2
<1>4. Part(t, cols, "indexes")
        = [cols |-> cols, pk |-> t.pk, uniques |-> {}, indexes |-> {},
            fks |-> ForeignKeyRows(t)]
  BY DEF Part
<1>5. s.tables[n] = p /\ \A q : [s EXCEPT !.tables[n] = q] = Shown(c, rest, n, q)
  BY <1>1, PartReplaced
<1>6. [s EXCEPT !.tables[n].fks = ForeignKeyRows(t)]
        = [s EXCEPT !.tables[n] = [s.tables[n] EXCEPT !.fks = ForeignKeyRows(t)]]
  OBVIOUS
<1> QED
  BY <1>3, <1>4, <1>5, <1>6

\* Its indexes are, those of the unique constraints among them.
LEMMA IndexesRead ==
  ASSUME NEW c, NEW rest, NEW n, NEW t, NEW cols, NEW s,
         s = Shown(c, rest, n, Part(t, cols, "indexes"))
  PROVE  [s EXCEPT !.tables[n].indexes = IndexRows(t)]
           = Shown(c, rest, n, Part(t, cols, "checks"))
<1>1. PICK p : p = Part(t, cols, "indexes")
  OBVIOUS
<1>2. p = [cols |-> cols, pk |-> t.pk, uniques |-> {}, indexes |-> {},
            fks |-> ForeignKeyRows(t)]
  BY <1>1 DEF Part
<1>3. [p EXCEPT !.indexes = IndexRows(t)]
        = [cols |-> cols, pk |-> t.pk, uniques |-> {}, indexes |-> IndexRows(t),
            fks |-> ForeignKeyRows(t)]
  BY <1>2
<1>4. Part(t, cols, "checks")
        = [cols |-> cols, pk |-> t.pk, uniques |-> {}, indexes |-> IndexRows(t),
            fks |-> ForeignKeyRows(t)]
  BY DEF Part
<1>5. s.tables[n] = p /\ \A q : [s EXCEPT !.tables[n] = q] = Shown(c, rest, n, q)
  BY <1>1, PartReplaced
<1>6. [s EXCEPT !.tables[n].indexes = IndexRows(t)]
        = [s EXCEPT !.tables[n] = [s.tables[n] EXCEPT !.indexes = IndexRows(t)]]
  OBVIOUS
<1> QED
  BY <1>3, <1>4, <1>5, <1>6

\* With its unique constraints it is complete.
LEMMA UniquesRead ==
  ASSUME NEW c, NEW rest, NEW n, NEW t, NEW s,
         s = Shown(c, rest, n, Part(t, Columns(t), "uniques"))
  PROVE  [s EXCEPT !.tables[n].uniques = t.uniques]
           = Shown(c, rest, n, Got(t))
<1>1. PICK p : p = Part(t, Columns(t), "uniques")
  OBVIOUS
<1>2. p = [cols |-> Columns(t), pk |-> t.pk, uniques |-> {}, indexes |-> IndexRows(t),
            fks |-> ForeignKeyRows(t)]
  BY <1>1 DEF Part
<1>3. [p EXCEPT !.uniques = t.uniques]
        = [cols |-> Columns(t), pk |-> t.pk, uniques |-> t.uniques, indexes |-> IndexRows(t),
            fks |-> ForeignKeyRows(t)]
  BY <1>2
<1>4. Got(t)
        = [cols |-> Columns(t), pk |-> t.pk, uniques |-> t.uniques, indexes |-> IndexRows(t),
            fks |-> ForeignKeyRows(t)]
  BY DEF Got
<1>5. s.tables[n] = p /\ \A q : [s EXCEPT !.tables[n] = q] = Shown(c, rest, n, q)
  BY <1>1, PartReplaced
<1>6. [s EXCEPT !.tables[n].uniques = t.uniques]
        = [s EXCEPT !.tables[n] = [s.tables[n] EXCEPT !.uniques = t.uniques]]
  OBVIOUS
<1> QED
  BY <1>3, <1>4, <1>5, <1>6

\* What lies between two queries that fill no field.
LEMMA SameParts ==
  ASSUME NEW t, NEW cols
  PROVE  /\ NewTable = Part(t, << >>, "rows")
         /\ Part(t, cols, "rows") = Part(t, cols, "pk")
         /\ Part(t, cols, "checks") = Part(t, cols, "uniques")
BY DEF NewTable, Part

\* A run that has ended shows nothing.
LEMMA SnapFails ==
  ASSUME NEW why \in Failures \cup {"killed"}, Fail(why)
  PROVE  SnapAt'
BY DEF Fail, To, Failures, SnapAt, Before, InRows, InTable, Single, Nested, Validated

\* A table is done and the next one begins, or all are.
LEMMA SnapNext ==
  ASSUME NEW rest \in SUBSET DOMAIN catalog.tables, NextTable(rest),
         read' = Complete(catalog, rest), UNCHANGED server
  PROVE  SnapAt'
<1>1. catalog' = catalog /\ todo' = rest
  BY DEF server, NextTable
<1>2. CASE rest = {}
  <2>1. step' = "validate"
    BY <1>2 DEF NextTable
  <2> QED
    BY <1>1, <1>2, <2>1 DEF SnapAt, Before, InRows, InTable, Single, Nested, Validated
<1>3. CASE rest # {}
  <2>1. step' = "columns" /\ table' \in rest
    BY <1>3 DEF NextTable
  <2> QED
    BY <1>1, <2>1 DEF SnapAt, Before, InRows, InTable, Single, Nested, Validated
<1> QED
  BY <1>2, <1>3

\* The table at hand is found under its own name.
LEMMA Found ==
  ASSUME Folds(catalog), table \in DOMAIN catalog.tables
  PROVE  Exists(table) /\ Of(table) = catalog.tables[table]
BY DEF Folds, Exists, Of, Relation

\* Connecting reads nothing, and the enums come before the tables.
LEMMA SnapBefore ==
  ASSUME SnapAt, ConnectSteps \/ ListTables \/ listEnums
  PROVE  SnapAt'
<1>1. CASE Connect
  BY <1>1, SnapFails DEF Connect, To, server, Failures, SnapAt, Before, InRows, InTable, Single,
     Nested, Validated
<1>2. CASE CheckVersion
  BY <1>2, SnapFails DEF CheckVersion, To, server, Failures, SnapAt, Before, InRows, InTable,
     Single, Nested, Validated
<1>3. CASE CheckMultiSchema
  BY <1>3 DEF CheckMultiSchema, To, server, SnapAt, Before, InRows, InTable, Single, Nested,
     Validated
<1>4. CASE ListTables
  BY <1>4 DEF ListTables, To, server, SnapAt, Before, InRows, InTable, Single, Nested, Validated
<1>5. CASE listEnums
  <2>1. read = NoSchema /\ todo = DOMAIN catalog.tables
    BY <1>5 DEF listEnums, SnapAt, Before
  <2>2. read' = Complete(catalog, todo)
    BY <1>5, <2>1, EnumsRead DEF listEnums
  <2> QED
    BY <1>5, <2>1, <2>2, SnapNext DEF listEnums
<1> QED
  BY <1>1, <1>2, <1>3, <1>4, <1>5 DEF ConnectSteps

\* The first row is built, after a query of its own or without.
LEMMA SnapRow ==
  ASSUME SnapAt, step \in InRows, rows # << >>, AppendColumn
  PROVE  SnapAt'
<1> DEFINE t == catalog.tables[table]
<1>1. PICK cols : /\ read = Shown(catalog, todo, table, Part(t, cols, "rows"))
                  /\ Built(cols, rows, t)
  BY DEF SnapAt
<1>2. UNCHANGED <<catalog, todo, table>> /\ step' = "rows" /\ rows' = Tail(rows)
  BY DEF AppendColumn, To, server
<1> DEFINE more == Put(cols, row.name, buildColumn(row.col))
<1>3. read' = Shown(catalog, todo, table, Part(t, more, "rows"))
  <2>1. read.tables[table] = Part(t, cols, "rows")
    BY <1>1, PartReplaced
  <2>2. read.tables[table].cols = cols
    BY <2>1 DEF Part
  <2>3. read' = [read EXCEPT !.tables[table].cols = more]
    BY <2>2 DEF AppendColumn
  <2> HIDE DEF t, more
  <2> QED
    BY <1>1, <2>3, ColumnsRead
<1>4. Built(more, rows', t)
  BY <1>1, <1>2, RowBuilt DEF row
<1>5. table \in todo /\ todo \subseteq DOMAIN catalog.tables
  BY DEF SnapAt
<1> HIDE DEF more, t
<1>6. \E cs : read' = Shown(catalog, todo, table, Part(t, cs, "rows")) /\ Built(cs, rows', t)
  BY <1>3, <1>4
<1> QED
  BY <1>2, <1>5, <1>6 DEF SnapAt, Before, InRows, InTable, Single, Nested, Validated, t

\* Waiting for a connection changes nothing that was read.
LEMMA SnapWaits ==
  ASSUME SnapAt, step \in InRows, rows # << >>, NEW next \in InRows, To(next),
         UNCHANGED <<read, todo, table, rows>>
  PROVE  SnapAt'
BY DEF To, server, SnapAt, Before, InRows, InTable, Single, Nested, Validated

\* The columns of the table at hand, one by one.
LEMMA SnapColumns ==
  ASSUME SnapAt, Folds(catalog), catalog \in Catalogs, ColumnSteps
  PROVE  SnapAt'
<1> DEFINE t == catalog.tables[table]
<1>0. ASSUME step \in {"columns"} \cup InRows
      PROVE  /\ table \in todo /\ todo \subseteq DOMAIN catalog.tables
             /\ Exists(table) /\ Of(table) = t
  <2>1. table \in todo /\ todo \subseteq DOMAIN catalog.tables
    BY <1>0 DEF SnapAt
  <2> QED
    BY <2>1, Found
<1>1. CASE QueryColumns
  <2>1. step = "columns"
    BY <1>1 DEF QueryColumns
  <2>2. table \in todo /\ todo \subseteq DOMAIN catalog.tables /\ Exists(table) /\ Of(table) = t
    BY <1>0, <2>1
  <2>3. /\ read' = [read EXCEPT !.tables = Put(@, table, NewTable)]
        /\ rows' = SetToSeq(RowsOf(t))
        /\ step' = "rows" /\ UNCHANGED <<catalog, todo, table>>
    BY <1>1, <2>2 DEF QueryColumns, RowsOf, To, server
  <2>4. read = Complete(catalog, todo)
    BY <2>1 DEF SnapAt
  <2>5. read' = Shown(catalog, todo, table, Part(t, << >>, "rows"))
    <3>1. NewTable = Part(t, << >>, "rows")
      BY SameParts
    <3> QED
      BY <2>2, <2>3, <2>4, <3>1, TableBegun
  <2>6. Built(<< >>, rows', t)
    BY <2>2, <2>3, RowsBegin, ColumnsAssumption
  <2> HIDE DEF t
  <2>7. \E cs : read' = Shown(catalog, todo, table, Part(t, cs, "rows")) /\ Built(cs, rows', t)
    BY <2>5, <2>6
  <2> QED
    BY <2>2, <2>3, <2>7 DEF SnapAt, Before, InRows, InTable, Single, Nested, Validated, t
<1>2. CASE BuildColumn
  BY <1>2, SnapRow DEF BuildColumn, InRows
<1>3. CASE Acquire
  <2>1. Question \in InRows /\ step \in InRows
    BY <1>3 DEF Acquire, Question, InRows, Nested
  <2> QED
    BY <1>3, <2>1, SnapWaits DEF Acquire
<1>4. CASE IsEnumType
  BY <1>4, SnapRow, SnapFails DEF IsEnumType, Answered, SnapAt, InRows, Nested, Failures
<1>5. CASE DetectSequence
  BY <1>5, SnapRow, SnapFails DEF DetectSequence, Answered, SnapAt, InRows, Nested, Failures
<1>6. CASE NestedTimeout
  BY <1>6, SnapFails DEF NestedTimeout, Failures
<1>7. CASE ColumnsEnd
  <2>1. step \in InRows /\ rows = << >>
    BY <1>7 DEF ColumnsEnd, InRows
  <2>2. PICK cols : /\ read = Shown(catalog, todo, table, Part(t, cols, "rows"))
                    /\ Built(cols, rows, t)
    BY <2>1 DEF SnapAt
  <2>3. cols = Columns(t)
    BY <2>1, <2>2, RowsEnd
  <2>4. read = Shown(catalog, todo, table, Part(t, Columns(t), "pk"))
    <3>1. Part(t, cols, "rows") = Part(t, cols, "pk")
      BY SameParts
    <3> QED
      BY <2>2, <2>3, <3>1
  <2>5. step' = "pk" /\ UNCHANGED <<catalog, read, todo, table>>
    BY <1>7 DEF ColumnsEnd, To, server
  <2> QED
    BY <1>0, <2>1, <2>4, <2>5 DEF SnapAt, Before, InRows, InTable, Single, Nested, Validated
<1> QED
  BY <1>1, <1>2, <1>3, <1>4, <1>5, <1>6, <1>7 DEF ColumnSteps

\* The other queries of a table, one field each.
LEMMA SnapQuery ==
  ASSUME SnapAt, Folds(catalog), NEW part \in InTable \ {"uniques"}, NEW next \in InTable,
         NEW schema, Query(part, next, schema), table \in DOMAIN catalog.tables,
         schema = Shown(catalog, todo, table,
                        Part(catalog.tables[table], Columns(catalog.tables[table]), next))
  PROVE  SnapAt'
<1>1. step = part
  BY DEF Query
<1>2. CASE Fail("query")
  BY <1>2, SnapFails DEF Failures
<1>3. CASE read' = schema /\ To(next) /\ UNCHANGED <<held, todo, table, rows>>
  <2>1. table \in todo /\ todo \subseteq DOMAIN catalog.tables
    BY <1>1 DEF SnapAt
  <2> QED
    BY <1>3, <2>1 DEF To, server, SnapAt, Before, InRows, InTable, Single, Nested, Validated
<1> QED
  BY <1>2, <1>3 DEF Query

\* The keys, the indexes and the constraints of the table at hand.
LEMMA SnapTables ==
  ASSUME SnapAt, Folds(catalog), TableSteps
  PROVE  SnapAt'
<1> DEFINE t == catalog.tables[table]
<1>1. step \in InTable
  BY DEF TableSteps, IntrospectPrimaryKey, IntrospectForeignKeys, IntrospectIndexes,
     IntrospectCheckConstraints, IntrospectUniqueConstraints, Query, InTable, Single
<1>2. table \in todo /\ todo \subseteq DOMAIN catalog.tables
  BY <1>1 DEF SnapAt
<1>3. Exists(table) /\ Of(table) = t
  BY <1>2, Found
<1>4. read = Shown(catalog, todo, table, Part(t, Columns(t), step))
  BY <1>1 DEF SnapAt
<1> HIDE DEF t
<1>5. CASE IntrospectPrimaryKey
  <2>1. step = "pk"
    BY <1>5 DEF IntrospectPrimaryKey, Query
  <2>3. [read EXCEPT !.tables[table].pk = Of(table).pk]
          = Shown(catalog, todo, table, Part(t, Columns(t), "fks"))
    BY <1>3, <1>4, <2>1, KeyRead
  <2> QED
    BY <1>2, <1>5, <2>3, SnapQuery DEF IntrospectPrimaryKey, InTable, Single, t
<1>6. CASE IntrospectForeignKeys
  <2>1. step = "fks"
    BY <1>6 DEF IntrospectForeignKeys, Query
  <2>3. [read EXCEPT !.tables[table].fks = ForeignKeyRows(Of(table))]
          = Shown(catalog, todo, table, Part(t, Columns(t), "indexes"))
    BY <1>3, <1>4, <2>1, ForeignKeysRead
  <2> QED
    BY <1>2, <1>6, <2>3, SnapQuery DEF IntrospectForeignKeys, InTable, Single, t
<1>7. CASE IntrospectIndexes
  <2>1. step = "indexes"
    BY <1>7 DEF IntrospectIndexes, Query
  <2>3. [read EXCEPT !.tables[table].indexes = IndexRows(Of(table))]
          = Shown(catalog, todo, table, Part(t, Columns(t), "checks"))
    BY <1>3, <1>4, <2>1, IndexesRead
  <2> QED
    BY <1>2, <1>7, <2>3, SnapQuery DEF IntrospectIndexes, InTable, Single, t
<1>8. CASE IntrospectCheckConstraints
  <2>1. step = "checks"
    BY <1>8 DEF IntrospectCheckConstraints, Query
  <2>2. read = Shown(catalog, todo, table, Part(t, Columns(t), "uniques"))
    BY <1>4, <2>1, SameParts
  <2> QED
    BY <1>2, <1>8, <2>2, SnapQuery DEF IntrospectCheckConstraints, InTable, Single, t
<1>9. CASE IntrospectUniqueConstraints
  <2>1. step = "uniques"
    BY <1>9 DEF IntrospectUniqueConstraints
  <2>3. [read EXCEPT !.tables[table].uniques = Of(table).uniques]
          = Shown(catalog, todo, table, Got(t))
    BY <1>3, <1>4, <2>1, UniquesRead
  <2>4. Shown(catalog, todo, table, Got(t)) = Complete(catalog, todo \ {table})
    BY <1>2, TableDone DEF t
  <2>5. /\ read' = Complete(catalog, todo \ {table}) /\ NextTable(todo \ {table})
        /\ UNCHANGED server
    BY <1>3, <1>9, <2>3, <2>4 DEF IntrospectUniqueConstraints
  <2>6. todo \ {table} \in SUBSET DOMAIN catalog.tables
    BY <1>2
  <2> QED
    BY <2>5, <2>6, SnapNext
<1> QED
  BY <1>5, <1>6, <1>7, <1>8, <1>9 DEF TableSteps

\* What was read is complete, and stays as it is while the file is written.
LEMMA SnapFile ==
  ASSUME SnapAt, FileSteps
  PROVE  SnapAt'
<1>1. CASE ValidateSchema
  BY <1>1, SnapFails DEF ValidateSchema, To, server, Failures, SnapAt, Before, InRows, InTable,
     Single, Nested, Validated
<1>2. CASE WriteSchema
  BY <1>2, SnapFails DEF WriteSchema, To, server, Failures, SnapAt, Before, InRows, InTable,
     Single, Nested, Validated
<1>3. CASE Truncate
  <2>1. CASE Fail("full")
    BY <2>1, SnapFails DEF Failures
  <2>2. CASE ~Fail("full")
    BY <1>3, <2>2 DEF Truncate, server, SnapAt, Before, InRows, InTable, Single, Nested, Validated
  <2> QED
    BY <2>1, <2>2
<1>4. CASE Flush
  BY <1>4 DEF Flush, server, SnapAt, Before, InRows, InTable, Single, Nested, Validated
<1> QED
  BY <1>1, <1>2, <1>3, <1>4 DEF FileSteps

\* A pull that nobody disturbs has read, at each of its steps, what the catalog says.
THEOREM SnapHolds == Spec => []SnapInv
<1>1. Init => SnapInv
  BY DEF Init, SnapInv, SnapAt, Before, InRows, InTable, Single, Nested, Validated
<1>2. ASSUME TypeOK, SnapInv, [Next]_vars PROVE SnapInv'
  <2>1. CASE Pull \/ QueryFails \/ Kill
    <3>1. UNCHANGED server
      <4>1. CASE ConnectSteps \/ ListTables \/ listEnums
        BY <4>1 DEF ConnectSteps, Connect, CheckVersion, CheckMultiSchema, ListTables, listEnums,
           To, Fail
      <4>2. CASE ColumnSteps
        BY <4>2 DEF ColumnSteps, QueryColumns, BuildColumn, Acquire, IsEnumType, DetectSequence,
           NestedTimeout, ColumnsEnd, Answered, AppendColumn, To, Fail
      <4>3. CASE TableSteps
        BY <4>3 DEF TableSteps, IntrospectPrimaryKey, IntrospectForeignKeys, IntrospectIndexes,
           IntrospectCheckConstraints, IntrospectUniqueConstraints, Query, To, Fail
      <4>4. CASE FileSteps
        BY <4>4 DEF FileSteps, ValidateSchema, WriteSchema, Truncate, Flush, To, Fail
      <4>5. CASE QueryFails \/ Kill
        BY <4>5 DEF QueryFails, Kill, To, Fail
      <4> QED
        BY <2>1, <4>1, <4>2, <4>3, <4>4, <4>5 DEF Pull
    <3>2. SUFFICES ASSUME ~changed, Folds(catalog) PROVE SnapAt'
      BY <3>1 DEF SnapInv, server, Folds
    <3>3. SnapAt
      BY <1>2, <3>2 DEF SnapInv
    <3>4. CASE ConnectSteps \/ ListTables \/ listEnums
      BY <3>3, <3>4, SnapBefore
    <3>5. CASE ColumnSteps
      BY <1>2, <3>2, <3>3, <3>5, SnapColumns DEF TypeOK
    <3>6. CASE TableSteps
      BY <3>2, <3>3, <3>6, SnapTables
    <3>7. CASE FileSteps
      BY <3>3, <3>7, SnapFile
    <3>8. CASE QueryFails
      BY <3>8, SnapFails DEF QueryFails, Failures
    <3>9. CASE Kill
      BY <3>9, SnapFails DEF Kill
    <3> QED
      BY <2>1, <3>4, <3>5, <3>6, <3>7, <3>8, <3>9 DEF Pull
  <2>2. CASE Rerun
    BY <2>2 DEF Rerun, SnapInv, SnapAt, Before, InRows, InTable, Single, Nested, Validated
  <2>3. CASE Change
    BY <2>3 DEF Change, SnapInv
  <2>4. CASE UNCHANGED vars
    BY <1>2, <2>4 DEF vars, server, run, SnapInv, SnapAt, Folds
  <2> QED
    BY <1>2, <2>1, <2>2, <2>3, <2>4 DEF Next
<1> QED
  BY <1>1, <1>2, TypeCorrect, PTL DEF Spec

\* The queries of a pull run outside of a transaction, and still add up to one
\* snapshot when nobody commits meanwhile: for every database whose names fold to
\* themselves, with any tables, columns, enums and keys.
THEOREM SnapshotRead == Spec => []ReadIsSnapshot
<1>1. SnapInv => ReadIsSnapshot
  <2> SUFFICES ASSUME SnapInv, step \in {"validate"} \cup Validated, ~changed, Folds(catalog)
               PROVE  View(read) = View(Whole(catalog))
    BY DEF ReadIsSnapshot, Validated, Folds
  <2>1. read = Complete(catalog, {})
    BY DEF SnapInv, SnapAt
  <2> QED
    BY <2>1, CompleteIsWhole
<1> QED
  BY <1>1, SnapHolds, PTL
-----------------------------------------------------------------------------
(***************************************************************************)
(* The two folds of naming.go, over the chunks of a name and over its      *)
(* parts, position by position.                                            *)
(***************************************************************************)
Bar == "_"

AddChunk(parts, chunk) ==
  IF chunk = Bar THEN Append(parts, << >>)
  ELSE Append(Front(parts), Append(Last(parts), chunk))

FoldBase(k) == IF k = "split" THEN <<<< >>>> ELSE << >>

FoldStep(k, done, x) == IF k = "split" THEN AddChunk(done, x) ELSE done \o capitalize(x)

\* What a fold chooses: a function from the sets of positions that are done.
IsFold(k, g, seq, D) ==
  g = [s \in SUBSET D |->
         IF s = {} THEN FoldBase(k) ELSE FoldStep(k, g[s \ {Max(s)}], seq[Max(s)])]

\* f[n] is what the first n elements give.
IsRun(k, f, seq) ==
  /\ f[0] = FoldBase(k)
  /\ \A n \in 1..Len(seq) : f[n] = FoldStep(k, f[n - 1], seq[n])

IsSplit(g, seq, D) ==
  g = [s \in SUBSET D |-> IF s = {} THEN <<<< >>>> ELSE AddChunk(g[s \ {Max(s)}], seq[Max(s)])]

IsJoin(g, seq, D) ==
  g = [s \in SUBSET D |-> IF s = {} THEN << >> ELSE g[s \ {Max(s)}] \o capitalize(seq[Max(s)])]

\* Parts and Capitalized are values of such functions where all positions are done.
LEMMA PartsIsSplit ==
  ASSUME NEW n
  PROVE  Parts(n) = (CHOOSE g : IsSplit(g, n, DOMAIN n))[DOMAIN n]
BY Zenon DEF Parts, FoldLeft, MapThenFoldSet, IsSplit, AddChunk, Bar

\* Capitalized is a join of the parts.
LEMMA CapitalizedIsJoin ==
  ASSUME NEW ps
  PROVE  Capitalized(ps) = (CHOOSE g : IsJoin(g, ps, DOMAIN ps))[DOMAIN ps]
BY Zenon DEF Capitalized, FoldLeft, MapThenFoldSet, IsJoin

\* There is such a function for every number of positions.
LEMMA FoldExists ==
  ASSUME NEW k, NEW seq, NEW m \in Nat
  PROVE  \E g : IsFold(k, g, seq, 1..m)
<1> DEFINE S == {n \in Nat : \E g : IsFold(k, g, seq, 1..n)}
<1>1. 0 \in S
  <2>1. SUBSET (1..0) = {{}}
    OBVIOUS
  <2>2. PICK b : b = FoldBase(k)
    OBVIOUS
  <2> DEFINE g == [s \in {{}} |-> b]
  <2>3. \A s \in {{}} : g[s] = IF s = {} THEN FoldBase(k)
                               ELSE FoldStep(k, g[s \ {Max(s)}], seq[Max(s)])
    BY <2>2
  <2>4. g = [s \in {{}} |-> g[s]]
    OBVIOUS
  <2> HIDE DEF g
  <2>5. IsFold(k, g, seq, 1..0)
    BY <2>1, <2>3, <2>4, Zenon DEF IsFold
  <2> QED
    BY <2>5
<1>2. ASSUME NEW n \in Nat, n \in S PROVE n + 1 \in S
  <2>1. PICK g : IsFold(k, g, seq, 1..n)
    BY <1>2
  <2> DEFINE h == [s \in SUBSET (1..n + 1) |->
                     IF n + 1 \in s THEN FoldStep(k, g[s \ {n + 1}], seq[n + 1]) ELSE g[s]]
  <2>2. ASSUME NEW s \in SUBSET (1..n + 1)
        PROVE  h[s] = IF s = {} THEN FoldBase(k)
                      ELSE FoldStep(k, h[s \ {Max(s)}], seq[Max(s)])
    <3>1. CASE n + 1 \in s
      <4>1. Max(s) = n + 1 /\ s # {}
        BY <3>1, MaxUpTo
      <4>2. s \ {n + 1} \in SUBSET (1..n + 1) /\ n + 1 \notin s \ {n + 1}
        OBVIOUS
      <4>3. h[s \ {n + 1}] = g[s \ {n + 1}]
        BY <4>2
      <4> QED
        BY <3>1, <4>1, <4>3
    <3>2. CASE n + 1 \notin s
      <4>1. s \in SUBSET (1..n)
        BY <3>2, MaxUpTo
      <4>2. g[s] = IF s = {} THEN FoldBase(k) ELSE FoldStep(k, g[s \ {Max(s)}], seq[Max(s)])
        BY <2>1, <4>1, Zenon DEF IsFold
      <4>3. s \ {Max(s)} \in SUBSET (1..n + 1) /\ n + 1 \notin s \ {Max(s)}
        BY <3>2
      <4>4. h[s \ {Max(s)}] = g[s \ {Max(s)}]
        BY <4>3
      <4>5. h[s] = g[s]
        BY <3>2
      <4> QED
        BY <4>2, <4>4, <4>5
    <3> QED
      BY <3>1, <3>2
  <2>3. h = [s \in SUBSET (1..n + 1) |-> h[s]]
    OBVIOUS
  <2> HIDE DEF h
  <2>4. IsFold(k, h, seq, 1..n + 1)
    BY <2>2, <2>3, Zenon DEF IsFold
  <2> QED
    BY <2>4
<1>3. m \in S
  BY <1>1, <1>2, SetInduction
<1> QED
  BY <1>3

\* Such a function goes through the positions in their order.
LEMMA FoldRuns ==
  ASSUME NEW k, NEW T, NEW seq \in Seq(T), NEW g, IsFold(k, g, seq, DOMAIN seq)
  PROVE  \E f : IsRun(k, f, seq) /\ g[DOMAIN seq] = f[Len(seq)]
<1> DEFINE f == [n \in 0..Len(seq) |-> g[1..n]]
<1>1. DOMAIN seq = 1..Len(seq) /\ Len(seq) \in Nat
  OBVIOUS
<1>4. \A s \in SUBSET (1..Len(seq)) :
        g[s] = IF s = {} THEN FoldBase(k) ELSE FoldStep(k, g[s \ {Max(s)}], seq[Max(s)])
  BY <1>1, Zenon DEF IsFold
<1>5. f[0] = FoldBase(k)
  <2>1. f[0] = g[{}]
    BY <1>1
  <2> QED
    BY <1>4, <2>1
<1>6. ASSUME NEW n \in 1..Len(seq) PROVE f[n] = FoldStep(k, f[n - 1], seq[n])
  <2>0. n \in Nat /\ n - 1 \in Nat /\ (n - 1) + 1 = n
    BY <1>1
  <2>1. 1..n \in SUBSET (1..Len(seq)) /\ 1..n # {} /\ n \in 1..n
    <3>1. Len(seq) \in Nat /\ n <= Len(seq) /\ 1 <= n
      BY <1>1, <2>0
    <3>2. n \in 1..n
      BY <2>0, <3>1
    <3>3. \A i \in 1..n : i \in 1..Len(seq)
      BY <2>0, <3>1
    <3> QED
      BY <3>2, <3>3
  <2>2. Max(1..n) = n
    <3>1. 1..n \in SUBSET (1..(n - 1) + 1)
      BY <2>0
    <3> QED
      BY <2>0, <2>1, <3>1, MaxUpTo
  <2>3. (1..n) \ {n} = 1..n - 1
    OBVIOUS
  <2>4. f[n] = g[1..n] /\ f[n - 1] = g[1..n - 1]
    BY <1>1
  <2> QED
    BY <1>4, <2>1, <2>2, <2>3, <2>4
<1>7. f[Len(seq)] = g[DOMAIN seq]
  BY <1>1
<1> QED
  BY <1>5, <1>6, <1>7 DEF IsRun

\* Splitting goes through the chunks of a name in their order.
LEMMA PartsRun ==
  ASSUME NEW T, NEW n \in Seq(T)
  PROVE  \E f : /\ f[0] = <<<< >>>>
                /\ \A i \in 1..Len(n) : f[i] = AddChunk(f[i - 1], n[i])
                /\ Parts(n) = f[Len(n)]
<1>1. PICK g : g = CHOOSE x : IsSplit(x, n, DOMAIN n)
  OBVIOUS
<1>2. \A x, D : IsFold("split", x, n, D) <=> IsSplit(x, n, D)
  BY Zenon DEF IsFold, IsSplit, FoldBase, FoldStep
<1>3. DOMAIN n = 1..Len(n) /\ Len(n) \in Nat
  OBVIOUS
<1>4. IsSplit(g, n, DOMAIN n)
  BY <1>1, <1>2, <1>3, FoldExists, Zenon
<1>5. PICK f : IsRun("split", f, n) /\ g[DOMAIN n] = f[Len(n)]
  BY <1>2, <1>4, FoldRuns
<1> QED
  BY <1>1, <1>5, PartsIsSplit, Zenon DEF IsRun, FoldBase, FoldStep

\* Capitalizing goes through the parts of a name in their order.
LEMMA CapitalizedRun ==
  ASSUME NEW T, NEW ps \in Seq(T)
  PROVE  \E f : /\ f[0] = << >>
                /\ \A i \in 1..Len(ps) : f[i] = f[i - 1] \o capitalize(ps[i])
                /\ Capitalized(ps) = f[Len(ps)]
<1>1. PICK g : g = CHOOSE x : IsJoin(x, ps, DOMAIN ps)
  OBVIOUS
<1>2. \A x, D : IsFold("join", x, ps, D) <=> IsJoin(x, ps, D)
  BY Zenon DEF IsFold, IsJoin, FoldBase, FoldStep
<1>3. DOMAIN ps = 1..Len(ps) /\ Len(ps) \in Nat
  OBVIOUS
<1>4. IsJoin(g, ps, DOMAIN ps)
  BY <1>1, <1>2, <1>3, FoldExists, Zenon
<1>5. PICK f : IsRun("join", f, ps) /\ g[DOMAIN ps] = f[Len(ps)]
  BY <1>2, <1>4, FoldRuns
<1> QED
  BY <1>1, <1>5, CapitalizedIsJoin, Zenon DEF IsRun, FoldBase, FoldStep

\* What Append does.
LEMMA AppendIs ==
  ASSUME NEW S, NEW q \in Seq(S), NEW e \in S, NEW r, r = Append(q, e)
  PROVE  /\ r \in Seq(S) /\ Len(r) = Len(q) + 1
         /\ (\A j \in 1..Len(q) : r[j] = q[j]) /\ r[Len(q) + 1] = e
OBVIOUS

\* A chunk ends the last part, or goes to the end of it.
LEMMA AddIs ==
  ASSUME NEW S, NEW ps \in Seq(Seq(S)), Len(ps) >= 1, NEW x \in S \cup {Bar}
  PROVE  /\ AddChunk(ps, x) \in Seq(Seq(S)) /\ Len(AddChunk(ps, x)) >= Len(ps)
         /\ \A j \in 1..Len(ps) : j # Len(ps) => AddChunk(ps, x)[j] = ps[j]
         /\ x = Bar => AddChunk(ps, x)[Len(ps)] = ps[Len(ps)]
         /\ x # Bar => /\ Len(AddChunk(ps, x)) = Len(ps)
                       /\ AddChunk(ps, x)[Len(ps)] = Append(ps[Len(ps)], x)
<1>1. CASE x = Bar
  <2>1. AddChunk(ps, x) = Append(ps, << >>)
    BY <1>1, Zenon DEF AddChunk
  <2>2. << >> \in Seq(S)
    OBVIOUS
  <2> QED
    BY <1>1, <2>1, <2>2
<1>2. CASE x # Bar
  <2>1. AddChunk(ps, x) = Append(Front(ps), Append(Last(ps), x))
    BY <1>2, Zenon DEF AddChunk
  <2>2. /\ Front(ps) \in Seq(Seq(S)) /\ Len(Front(ps)) = Len(ps) - 1
        /\ \A j \in 1..Len(ps) - 1 : Front(ps)[j] = ps[j]
    <3>1. PICK k : k = Len(ps) - 1
      OBVIOUS
    <3>2. k \in Nat /\ \A j \in 1..k : j \in 1..Len(ps)
      BY <3>1
    <3>3. SubSeq(ps, 1, k) \in Seq(Seq(S)) /\ Len(SubSeq(ps, 1, k)) = k
      BY <3>1, <3>2
    <3>4. \A j \in 1..k : SubSeq(ps, 1, k)[j] = ps[j]
      BY <3>1, <3>2
    <3> QED
      BY <3>1, <3>3, <3>4 DEF Front
  <2>3. Last(ps) = ps[Len(ps)] /\ Last(ps) \in Seq(S)
    BY DEF Last
  <2>4. Append(Last(ps), x) \in Seq(S)
    BY <1>2, <2>3
  <2>5. PICK l : l = Append(Last(ps), x)
    OBVIOUS
  <2>6. PICK fr : fr = Front(ps)
    OBVIOUS
  <2>7. /\ Append(fr, l) \in Seq(Seq(S)) /\ Len(Append(fr, l)) = Len(ps)
        /\ \A j \in 1..Len(ps) - 1 : Append(fr, l)[j] = ps[j]
        /\ Append(fr, l)[Len(ps)] = l
    <3>0. Len(ps) \in Nat
      BY LenProperties, Zenon
    <3>1. PICK n, r : n = Len(ps) /\ n \in Nat /\ r = Append(fr, l)
      BY <3>0, Zenon
    <3>2. fr \in Seq(Seq(S)) /\ Len(fr) = n - 1 /\ \A j \in 1..n - 1 : fr[j] = ps[j]
      BY <2>2, <2>6, <3>1
    <3>3. l \in Seq(S)
      BY <2>4, <2>5
    <3>4. /\ r \in Seq(Seq(S)) /\ Len(r) = Len(fr) + 1
          /\ (\A j \in 1..Len(fr) : r[j] = fr[j]) /\ r[Len(fr) + 1] = l
      BY <3>1, <3>2, <3>3, AppendIs
    <3>5. Len(fr) + 1 = n
      BY <3>1, <3>2
    <3> QED
      BY <3>1, <3>2, <3>4, <3>5
  <2>8. \A j \in 1..Len(ps) : j # Len(ps) => j \in 1..Len(ps) - 1
    OBVIOUS
  <2> QED
    BY <1>2, <2>1, <2>3, <2>5, <2>6, <2>7, <2>8
<1> QED
  BY <1>1, <1>2

\* The parts of a name have the chunks of the name and no underscore; each chunk is in
\* one; a name without an underscore is its own part.
LEMMA PartsAre ==
  ASSUME NEW T, NEW n \in Seq(T)
  PROVE  /\ Parts(n) \in Seq(Seq(ToSet(n) \ {Bar})) /\ Len(Parts(n)) >= 1
         /\ \A x \in ToSet(n) \ {Bar} :
              \E j \in DOMAIN Parts(n) : x \in ToSet(Parts(n)[j])
         /\ Bar \notin ToSet(n) => Parts(n) = <<n>>
<1> DEFINE S == ToSet(n) \ {Bar}
<1>1. PICK f : /\ f[0] = <<<< >>>>
               /\ \A i \in 1..Len(n) : f[i] = AddChunk(f[i - 1], n[i])
               /\ Parts(n) = f[Len(n)]
  BY PartsRun
<1>2. \A i \in 1..Len(n) : n[i] \in S \cup {Bar}
  BY DEF ToSet
<1> HIDE DEF S
<1> DEFINE Typed(i) == f[i] \in Seq(Seq(S)) /\ Len(f[i]) >= 1
           Has(i, x) == \E j \in DOMAIN f[i] : \E b \in DOMAIN f[i][j] : f[i][j][b] = x
           Full(i) == \A a \in 1..i : n[a] # Bar => Has(i, n[a])
           Own(i) == Bar \notin ToSet(n) =>
                       /\ Len(f[i]) = 1 /\ Len(f[i][1]) = i
                       /\ \A a \in 1..i : f[i][1][a] = n[a]
           N == {i \in Nat : i <= Len(n) => Typed(i) /\ Full(i) /\ Own(i)}
<1>3. 0 \in N
  <2>1. Len(<< >>) = 0 /\ << >> \in Seq(S)
    OBVIOUS
  <2>2. Typed(0)
    BY <1>1, <2>1
  <2>3. Full(0)
    OBVIOUS
  <2>4. Own(0)
    BY <1>1, <2>1
  <2> QED
    BY <2>2, <2>3, <2>4
<1>4. ASSUME NEW i \in Nat, i \in N, i + 1 <= Len(n) PROVE Typed(i + 1) /\ Full(i + 1) /\ Own(i + 1)
  <2>1. i + 1 \in 1..Len(n) /\ i <= Len(n) /\ (i + 1) - 1 = i
    BY <1>4
  <2>2. f[i + 1] = AddChunk(f[i], n[i + 1])
    BY <1>1, <2>1
  <2>3. Typed(i) /\ Full(i) /\ Own(i)
    BY <1>4, <2>1
  <2>4. n[i + 1] \in S \cup {Bar}
    BY <1>2, <2>1
  <2>5. PICK ps, x : ps = f[i] /\ x = n[i + 1]
    OBVIOUS
  <2>6. PICK qs : qs = f[i + 1]
    OBVIOUS
  <2>7. /\ qs \in Seq(Seq(S)) /\ Len(qs) >= Len(ps) /\ ps \in Seq(Seq(S)) /\ Len(ps) >= 1
        /\ \A j \in 1..Len(ps) : j # Len(ps) => qs[j] = ps[j]
        /\ x = Bar => qs[Len(ps)] = ps[Len(ps)]
        /\ x # Bar => Len(qs) = Len(ps) /\ qs[Len(ps)] = Append(ps[Len(ps)], x)
    <3>1. qs = AddChunk(ps, x) /\ ps \in Seq(Seq(S)) /\ Len(ps) >= 1 /\ x \in S \cup {Bar}
      BY <2>2, <2>3, <2>4, <2>5, <2>6, Zenon
    <3> QED
      BY <3>1, AddIs
  <2>8. Typed(i + 1)
    BY <2>6, <2>7
  <2>9. \A y : Has(i, y) => Has(i + 1, y)
    <3>1. SUFFICES ASSUME NEW j \in DOMAIN ps, NEW b \in DOMAIN ps[j]
                   PROVE  \E jj \in DOMAIN qs : \E bb \in DOMAIN qs[jj] : qs[jj][bb] = ps[j][b]
      BY <2>5, <2>6
    <3>2. j \in DOMAIN qs /\ ps[j] \in Seq(S)
      BY <2>7
    <3>3. CASE qs[j] = ps[j]
      BY <3>2, <3>3
    <3>4. CASE qs[j] = Append(ps[j], x)
      <4>1. b \in DOMAIN qs[j] /\ qs[j][b] = ps[j][b]
        BY <3>2, <3>4
      <4> QED
        BY <3>2, <4>1
    <3>5. qs[j] = ps[j] \/ qs[j] = Append(ps[j], x)
      <4>1. j \in 1..Len(ps)
        BY <2>7
      <4> QED
        BY <2>7, <4>1
    <3> QED
      BY <3>3, <3>4, <3>5
  <2>10. Full(i + 1)
    <3>1. SUFFICES ASSUME NEW a \in 1..i + 1, n[a] # Bar PROVE Has(i + 1, n[a])
      OBVIOUS
    <3>2. CASE a \in 1..i
      BY <2>3, <2>9, <3>1, <3>2
    <3>3. CASE a = i + 1
      <4>1. Len(ps) \in DOMAIN qs /\ ps[Len(ps)] \in Seq(S) /\ qs[Len(ps)] = Append(ps[Len(ps)], x)
        BY <2>5, <2>7, <3>1, <3>3
      <4>2. Len(ps[Len(ps)]) + 1 \in DOMAIN qs[Len(ps)] /\ qs[Len(ps)][Len(ps[Len(ps)]) + 1] = x
        BY <4>1
      <4> QED
        BY <2>5, <2>6, <3>3, <4>1, <4>2
    <3> QED
      BY <3>2, <3>3
  <2>11. Own(i + 1)
    <3>1. SUFFICES ASSUME Bar \notin ToSet(n)
                   PROVE  /\ Len(qs) = 1 /\ Len(qs[1]) = i + 1
                          /\ \A a \in 1..i + 1 : qs[1][a] = n[a]
      BY <2>6
    <3>2. x # Bar
      BY <2>1, <2>5, <3>1 DEF ToSet
    <3>3. Len(ps) = 1 /\ Len(ps[1]) = i /\ \A a \in 1..i : ps[1][a] = n[a]
      BY <2>3, <2>5, <3>1
    <3>4. Len(qs) = 1 /\ qs[1] = Append(ps[1], x) /\ ps[1] \in Seq(S)
      BY <2>7, <3>2, <3>3
    <3> QED
      BY <2>5, <3>3, <3>4
  <2> QED
    BY <2>8, <2>10, <2>11
<1> HIDE DEF Typed, Full, Own
<1>5. \A i \in Nat : i \in N => i + 1 \in N
  BY <1>4
<1> HIDE DEF N
<1>6. Nat \subseteq N
  BY <1>3, <1>5, SetInduction
<1>7. Len(n) \in Nat
  OBVIOUS
<1>8. Typed(Len(n)) /\ Full(Len(n)) /\ Own(Len(n))
  BY <1>6, <1>7 DEF N
<1>9. Parts(n) \in Seq(Seq(S)) /\ Len(Parts(n)) >= 1
  BY <1>1, <1>8 DEF Typed
<1>10. ASSUME NEW x \in S PROVE \E j \in DOMAIN Parts(n) : x \in ToSet(Parts(n)[j])
  <2>1. PICK a \in 1..Len(n) : n[a] = x /\ n[a] # Bar
    BY <1>10 DEF S, ToSet
  <2>2. Has(Len(n), x)
    BY <1>8, <2>1 DEF Full
  <2> QED
    BY <1>1, <2>2 DEF ToSet
<1>11. ASSUME Bar \notin ToSet(n) PROVE Parts(n) = <<n>>
  <2>1. PICK p : p = Parts(n)
    OBVIOUS
  <2>2. p \in Seq(Seq(S)) /\ Len(p) = 1 /\ Len(p[1]) = Len(n) /\ \A a \in 1..Len(n) : p[1][a] = n[a]
    BY <1>1, <1>8, <1>9, <1>11, <2>1 DEF Own
  <2>3. p[1] \in Seq(S)
    BY <2>2
  <2>4. p[1] = n
    <3>1. PICK q : q = p[1]
      OBVIOUS
    <3>2. q \in Seq(S) /\ Len(q) = Len(n) /\ \A a \in 1..Len(n) : q[a] = n[a]
      BY <2>2, <2>3, <3>1, Zenon
    <3>3. q = n
      BY <3>2
    <3> QED
      BY <3>1, <3>3
  <2>5. p = <<n>>
    BY <2>2, <2>4
  <2> QED
    BY <2>1, <2>5
<1> QED
  BY <1>9, <1>10, <1>11 DEF S

\* Two sequences in a row, and three.
LEMMA ConcatIs ==
  ASSUME NEW S, NEW a \in Seq(S), NEW b \in Seq(S), NEW c, c = a \o b
  PROVE  /\ c \in Seq(S) /\ Len(c) = Len(a) + Len(b)
         /\ \A k \in 1..Len(a) : c[k] = a[k]
         /\ \A k \in 1..Len(b) : c[Len(a) + k] = b[k]
         /\ b = << >> => c = a
         /\ a = << >> => c = b
<1>1. \A k \in 1..Len(b) : (Len(a) + k) - Len(a) = k /\ Len(a) + k \in 1..Len(a) + Len(b)
  OBVIOUS
<1>2. \A k \in 1..Len(a) : k \in 1..Len(a) + Len(b)
  OBVIOUS
<1> QED
  BY <1>1, <1>2

\* Concatenation is associative.
LEMMA ConcatThree ==
  ASSUME NEW S, NEW a \in Seq(S), NEW b \in Seq(S), NEW c \in Seq(S),
         NEW x, NEW y, x = a \o b, y = b \o c
  PROVE  x \o c = a \o y
<1>1. (a \o b) \o c = a \o (b \o c)
  BY ConcatAssociative, SMTT(30)
<1> QED
  BY <1>1, Zenon

\* Only the first chunk of a part changes, into one that has no capital of its own.
LEMMA CapitalizeIs ==
  ASSUME NEW S, NEW p \in Seq(S)
  PROVE  /\ capitalize(p) \in Seq(S \cup Range(Capital)) /\ Len(capitalize(p)) = Len(p)
         /\ \A i \in 2..Len(p) : capitalize(p)[i] = p[i]
         /\ p # << >> =>
              \/ p[1] \in DOMAIN Capital /\ capitalize(p)[1] = Capital[p[1]]
              \/ p[1] \notin DOMAIN Capital /\ capitalize(p)[1] = p[1]
         /\ p # << >> => capitalize(p)[1] \notin DOMAIN Capital
         /\ (p # << >> => p[1] \notin DOMAIN Capital) => capitalize(p) = p
<1>1. CASE p # << >> /\ p[1] \in DOMAIN Capital
  <2>1. PICK c : c = Capital[p[1]]
    OBVIOUS
  <2>2. capitalize(p) = <<c>> \o Tail(p)
    BY <1>1, <2>1 DEF capitalize
  <2>3. c \in Range(Capital) /\ c \notin DOMAIN Capital
    BY <1>1, <2>1, CapitalAssumption DEF Range
  <2>4. /\ Tail(p) \in Seq(S) /\ Len(Tail(p)) = Len(p) - 1 /\ Len(p) >= 1
        /\ \A i \in 1..Len(p) - 1 : Tail(p)[i] = p[i + 1]
    BY <1>1
  <2>5. PICK t : t = Tail(p)
    OBVIOUS
  <2>6. <<c>> \in Seq(S \cup Range(Capital)) /\ t \in Seq(S \cup Range(Capital))
    BY <2>3, <2>4, <2>5
  <2>7. PICK r : r = <<c>> \o t
    OBVIOUS
  <2>8. /\ r \in Seq(S \cup Range(Capital)) /\ Len(r) = Len(t) + 1 /\ r[1] = c
        /\ \A i \in 1..Len(t) : r[i + 1] = t[i]
    BY <2>6, <2>7
  <2>9. \A i \in 2..Len(p) : i - 1 \in 1..Len(t) /\ (i - 1) + 1 = i
    BY <2>4, <2>5
  <2>10. \A i \in 2..Len(p) : r[i] = p[i]
    BY <2>4, <2>5, <2>8, <2>9
  <2> QED
    BY <1>1, <2>1, <2>2, <2>3, <2>4, <2>5, <2>7, <2>8, <2>10
<1>2. CASE ~(p # << >> /\ p[1] \in DOMAIN Capital)
  <2>1. capitalize(p) = p
    BY <1>2 DEF capitalize
  <2>2. p \in Seq(S \cup Range(Capital))
    OBVIOUS
  <2> QED
    BY <1>2, <2>1, <2>2
<1> QED
  BY <1>1, <1>2

\* Capitalized parts in a row: their chunks are those of the parts but for the words
\* that were capitalized, and the first has no capital of its own.
LEMMA CapitalizedAre ==
  ASSUME NEW S, NEW ps \in Seq(Seq(S))
  PROVE  /\ Capitalized(ps) \in Seq(S \cup Range(Capital))
         /\ Capitalized(ps) # << >> => Capitalized(ps)[1] \notin DOMAIN Capital
         /\ \A j \in 1..Len(ps) : \A x \in ToSet(ps[j]) :
              x \in ToSet(Capitalized(ps)) \cup DOMAIN Capital
<1> DEFINE R == S \cup Range(Capital)
<1>1. PICK f : /\ f[0] = << >>
               /\ \A i \in 1..Len(ps) : f[i] = f[i - 1] \o capitalize(ps[i])
               /\ Capitalized(ps) = f[Len(ps)]
  BY CapitalizedRun
<1> DEFINE Typed(i) == f[i] \in Seq(R) /\ (f[i] # << >> => f[i][1] \notin DOMAIN Capital)
           Full(i) == \A j \in 1..i : \A x \in ToSet(ps[j]) : x \in ToSet(f[i]) \cup DOMAIN Capital
           N == {i \in Nat : i <= Len(ps) => Typed(i) /\ Full(i)}
<1> HIDE DEF R
<1>2. Typed(0) /\ Full(0)
  <2>1. << >> \in Seq(R)
    OBVIOUS
  <2> QED
    BY <1>1, <2>1
<1>3. ASSUME NEW i \in Nat, i \in N, i + 1 <= Len(ps) PROVE Typed(i + 1) /\ Full(i + 1)
  <2>0. i + 1 \in 1..Len(ps) /\ i <= Len(ps) /\ (i + 1) - 1 = i
    BY <1>3
  <2>1. Typed(i) /\ Full(i)
    BY <1>3, <2>0
  <2>2. PICK a, b, p : a = f[i] /\ b = f[i + 1] /\ p = ps[i + 1]
    OBVIOUS
  <2>3. b = a \o capitalize(p) /\ p \in Seq(S)
    <3>1. f[i + 1] = f[i] \o capitalize(ps[i + 1])
      BY <1>1, <2>0
    <3>2. ps[i + 1] \in Seq(S)
      BY <2>0
    <3> QED
      BY <2>2, <3>1, <3>2, Zenon
  <2>4. PICK q : q = capitalize(p)
    OBVIOUS
  <2>5. /\ q \in Seq(R) /\ Len(q) = Len(p)
        /\ \A k \in 2..Len(p) : q[k] = p[k]
        /\ p # << >> => \/ p[1] \in DOMAIN Capital
                        \/ q[1] = p[1]
        /\ p # << >> => q[1] \notin DOMAIN Capital
    BY <2>3, <2>4, CapitalizeIs DEF R
  <2>6. a \in Seq(R) /\ (a # << >> => a[1] \notin DOMAIN Capital)
    BY <2>1, <2>2
  <2>7. b = a \o q
    BY <2>3, <2>4
  <2>8. /\ b \in Seq(R) /\ Len(b) = Len(a) + Len(q)
        /\ \A k \in 1..Len(a) : b[k] = a[k]
        /\ \A k \in 1..Len(q) : b[Len(a) + k] = q[k]
        /\ a = << >> => b = q
    <3>1. a \in Seq(R) /\ q \in Seq(R)
      BY <2>5, <2>6
    <3> QED
      BY <2>7, <3>1, ConcatIs
  <2>9. b # << >> => b[1] \notin DOMAIN Capital
    <3>1. CASE a # << >>
      BY <2>6, <2>8, <3>1
    <3>2. CASE a = << >>
      <4>1. b = q
        BY <2>8, <3>2
      <4>2. q # << >> => p # << >>
        BY <2>3, <2>5
      <4> QED
        BY <2>5, <4>1, <4>2
    <3> QED
      BY <3>1, <3>2
  <2>10. Typed(i + 1)
    BY <2>2, <2>8, <2>9
  <2>11. Full(i + 1)
    <3>1. SUFFICES ASSUME NEW j \in 1..i + 1, NEW x \in ToSet(ps[j])
                   PROVE  x \in ToSet(b) \cup DOMAIN Capital
      BY <2>2
    <3>2. CASE j \in 1..i
      <4>1. x \in ToSet(a) \cup DOMAIN Capital
        BY <2>1, <2>2, <3>2
      <4>2. ToSet(a) \subseteq ToSet(b)
        <5>0. DOMAIN a = 1..Len(a) /\ DOMAIN b = 1..Len(b) /\ Len(a) \in Nat /\ Len(q) \in Nat
          BY <2>5, <2>6, <2>8
        <5>1. \A k \in DOMAIN a : k \in DOMAIN b /\ b[k] = a[k]
          BY <2>8, <5>0
        <5> QED
          BY <5>1 DEF ToSet
      <4> QED
        BY <4>1, <4>2
    <3>3. CASE j = i + 1
      <4>1. PICK k \in DOMAIN p : p[k] = x
        BY <2>2, <3>3 DEF ToSet
      <4>2. k \in 1..Len(q) /\ Len(a) + k \in DOMAIN b
        <5>1. /\ Len(a) \in Nat /\ Len(q) \in Nat
              /\ DOMAIN b = 1..Len(b) /\ DOMAIN p = 1..Len(p)
          BY <2>3, <2>5, <2>6, <2>8, LenProperties, Zenon
        <5>2. Len(p) = Len(q)
          BY <2>3, <2>5
        <5>3. PICK m, l : m = Len(a) /\ l = Len(q) /\ m \in Nat /\ l \in Nat
          BY <5>1, Zenon
        <5>4. Len(b) = m + l
          BY <2>8, <5>3
        <5>5. k \in 1..l /\ DOMAIN b = 1..m + l
          BY <4>1, <5>1, <5>2, <5>3, <5>4, Zenon
        <5>6. m + k \in 1..m + l
          BY <5>3, <5>5
        <5> QED
          BY <5>3, <5>5, <5>6, Zenon
      <4>3. q[k] = x \/ x \in DOMAIN Capital
        BY <2>3, <2>5, <4>1
      <4>4. b[Len(a) + k] = q[k]
        BY <2>8, <4>2
      <4> QED
        BY <4>2, <4>3, <4>4 DEF ToSet
    <3> QED
      BY <3>2, <3>3
  <2> QED
    BY <2>10, <2>11
<1> HIDE DEF Typed, Full
<1>4. 0 \in N /\ \A i \in Nat : i \in N => i + 1 \in N
  BY <1>2, <1>3
<1> HIDE DEF N
<1>5. Nat \subseteq N
  BY <1>4, SetInduction
<1>6. Typed(Len(ps)) /\ Full(Len(ps))
  <2>1. Len(ps) \in Nat
    OBVIOUS
  <2> QED
    BY <1>5, <2>1 DEF N
<1> QED
  BY <1>1, <1>6 DEF Typed, Full, R

\* The first part comes first.
LEMMA CapitalizedHead ==
  ASSUME NEW S, NEW ps \in Seq(Seq(S)), Len(ps) >= 1
  PROVE  Capitalized(ps) = capitalize(ps[1]) \o Capitalized(Tail(ps))
<1> DEFINE R == S \cup Range(Capital)
<1>0. PICK ts : ts = Tail(ps)
  OBVIOUS
<1>1. PICK f : /\ f[0] = << >>
               /\ \A i \in 1..Len(ps) : f[i] = f[i - 1] \o capitalize(ps[i])
               /\ Capitalized(ps) = f[Len(ps)]
  BY CapitalizedRun
<1>2. /\ ts \in Seq(Seq(S)) /\ Len(ts) = Len(ps) - 1
      /\ \A i \in 1..Len(ts) : ts[i] = ps[i + 1]
  BY <1>0
<1>3. PICK h : /\ h[0] = << >>
               /\ \A i \in 1..Len(ts) : h[i] = h[i - 1] \o capitalize(ts[i])
               /\ Capitalized(ts) = h[Len(ts)]
  BY <1>2, CapitalizedRun
<1>4. PICK q : q = capitalize(ps[1])
  OBVIOUS
<1>5. q \in Seq(R)
  <2>1. ps[1] \in Seq(S)
    OBVIOUS
  <2> QED
    BY <1>4, <2>1, CapitalizeIs
<1> HIDE DEF R
<1> DEFINE Same(i) == h[i] \in Seq(R) /\ f[i + 1] = q \o h[i]
           N == {i \in Nat : i <= Len(ts) => Same(i)}
<1>6. Same(0)
  <2>1. f[1] = f[0] \o q
    <3>1. 1 \in 1..Len(ps) /\ 1 - 1 = 0
      OBVIOUS
    <3> QED
      BY <1>1, <1>4, <3>1
  <2>2. << >> \in Seq(R)
    OBVIOUS
  <2>3. << >> \o q = q /\ q \o << >> = q
    BY <1>5, <2>2, ConcatIs
  <2>4. f[1] = q
    BY <1>1, <2>1, <2>3, Zenon
  <2> QED
    BY <1>3, <2>2, <2>3, <2>4
<1>7. ASSUME NEW i \in Nat, i \in N, i + 1 <= Len(ts)
      PROVE  Same(i + 1)
  <2>1. /\ i + 1 \in 1..Len(ts) /\ i <= Len(ts) /\ (i + 1) - 1 = i
        /\ (i + 1) + 1 \in 1..Len(ps) /\ ((i + 1) + 1) - 1 = i + 1
    <3>0. Len(ps) \in Nat /\ Len(ts) = Len(ps) - 1
      BY <1>2, LenProperties, Zenon
    <3>1. PICK m, n : m = Len(ps) /\ n = Len(ts) /\ m \in Nat /\ n = m - 1
      BY <3>0, Zenon
    <3>2. i \in Nat /\ i + 1 <= n
      BY <1>7, <3>1
    <3> QED
      BY <3>1, <3>2
  <2>2. h[i] \in Seq(R) /\ f[i + 1] = q \o h[i]
    BY <1>7, <2>1
  <2>3. PICK r : r = capitalize(ts[i + 1])
    OBVIOUS
  <2>4. r \in Seq(R)
    <3>1. ts[i + 1] \in Seq(S)
      BY <1>2, <2>1
    <3> QED
      BY <2>3, <3>1, CapitalizeIs DEF R
  <2>5. h[i + 1] = h[i] \o r /\ f[(i + 1) + 1] = f[i + 1] \o r
    BY <1>1, <1>2, <1>3, <2>1, <2>3
  <2>6. f[i + 1] \o r = q \o h[i + 1]
    <3>1. PICK a, x, y : a = h[i] /\ x = f[i + 1] /\ y = h[i + 1]
      OBVIOUS
    <3>2. q \in Seq(R) /\ a \in Seq(R) /\ r \in Seq(R) /\ x = q \o a /\ y = a \o r
      BY <1>5, <2>2, <2>4, <2>5, <3>1, Zenon
    <3>3. x \o r = q \o y
      BY <3>2, ConcatThree, SMTT(30)
    <3> QED
      BY <3>1, <3>3, Zenon
  <2>7. h[i + 1] \in Seq(R)
    BY <2>2, <2>4, <2>5, ConcatIs
  <2> QED
    BY <2>5, <2>6, <2>7
<1> HIDE DEF Same
<1>8. 0 \in N /\ \A i \in Nat : i \in N => i + 1 \in N
  BY <1>6, <1>7
<1> HIDE DEF N
<1>9. Nat \subseteq N
  BY <1>8, SetInduction
<1>10. f[Len(ts) + 1] = q \o h[Len(ts)]
  <2>1. Len(ts) \in Nat
    BY <1>2
  <2> QED
    BY <1>9, <2>1 DEF N, Same
<1>11. Len(ts) + 1 = Len(ps)
  BY <1>2
<1>12. Capitalized(ps) = q \o Capitalized(ts)
  BY <1>1, <1>3, <1>10, <1>11, Zenon
<1> QED
  BY <1>0, <1>4, <1>12

\* One part.
LEMMA CapitalizedOne ==
  ASSUME NEW S, NEW p \in Seq(S)
  PROVE  Capitalized(<<p>>) = capitalize(p)
<1>1. PICK f : /\ f[0] = << >>
               /\ \A i \in 1..Len(<<p>>) : f[i] = f[i - 1] \o capitalize((<<p>>)[i])
               /\ Capitalized(<<p>>) = f[Len(<<p>>)]
  <2>1. <<p>> \in Seq({p})
    OBVIOUS
  <2> QED
    BY <2>1, CapitalizedRun
<1>2. Len(<<p>>) = 1 /\ (<<p>>)[1] = p
  OBVIOUS
<1>3. f[1] = << >> \o capitalize(p)
  <2>1. 1 \in 1..1 /\ 1 - 1 = 0
    OBVIOUS
  <2> QED
    BY <1>1, <1>2, <2>1
<1>4. capitalize(p) \in Seq(S \cup Range(Capital))
  BY CapitalizeIs
<1>5. << >> \o capitalize(p) = capitalize(p)
  BY <1>4
<1> QED
  BY <1>1, <1>2, <1>3, <1>5
-----------------------------------------------------------------------------
(***************************************************************************)
(* The names of fields and of blocks.  Sets of characters have names here, *)
(* for the provers: what is in them is needed once.                        *)
(***************************************************************************)
NoStart == Digits \cup {"."}
Quotes  == {"\"", "\\"}
Truth   == {"true", "false"}
Taken   == BlockWords \cup TypeNames

\* What identifiers and strings are made of.
LEMMA CharactersAre ==
  /\ \A n : IsIdentifier(n) <=> /\ n # << >> /\ ToSet(n) \cap Foreign = {} /\ n[1] \notin NoStart
                                /\ ~(Len(n) = 1 /\ n[1] \in Keywords)
  /\ \A n : IsString(n) <=> ToSet(n) \cap Quotes = {}
  /\ Quotes \subseteq Foreign /\ Bar \notin Quotes /\ Keywords = Taken \cup Truth
<1>1. \A n : IsIdentifier(n) <=> /\ n # << >> /\ ToSet(n) \cap Foreign = {} /\ n[1] \notin NoStart
                                /\ ~(Len(n) = 1 /\ n[1] \in Keywords)
  BY Zenon DEF IsIdentifier, NoStart
<1>2. \A n : IsString(n) <=> ToSet(n) \cap Quotes = {}
  BY Zenon DEF IsString, Quotes
<1>3. Quotes \subseteq Foreign
  BY Zenon DEF Quotes, Foreign
<1>4. Bar \notin Quotes
  BY Zenon DEF Quotes, Bar
<1>5. Keywords = Taken \cup Truth
  BY Zenon DEF Keywords, Taken, Truth
<1> QED
  BY <1>1, <1>2, <1>3, <1>4, <1>5, Zenon

\* Capitals are no punctuation.
LEMMA CapitalsAre ==
  /\ Range(Capital) \cap Foreign = {} /\ Range(Capital) \cap NoStart = {}
  /\ Range(Capital) \cap Truth = {} /\ DOMAIN Capital \cap Foreign = {}
  /\ Bar \notin Range(Capital)
BY LettersAssumption, Zenon DEF NoStart, Truth, Bar

\* A name that is reserved for no block.
LEMMA NotReserved ==
  ASSUME NEW n, ~IsReservedModelName(n)
  PROVE  ~(Len(n) = 1 /\ n[1] \in Taken)
BY Zenon DEF IsReservedModelName, Taken

\* The first part h of name n, and the others, capitalized.
IsNamed(n, h, r) ==
  /\ h \in Seq(ToSet(n) \ {Bar}) /\ r \in Seq((ToSet(n) \ {Bar}) \cup Range(Capital))
  /\ TransformFieldName(n) = h \o r /\ TransformModelName(n) = capitalize(h) \o r
  /\ r # << >> => r[1] \notin DOMAIN Capital
  /\ \A x \in ToSet(n) \ {Bar} : x \in ToSet(h) \cup ToSet(r) \cup DOMAIN Capital

\* The name of a field and the name of a block have the same parts: only the first part
\* differs in its case.
LEMMA NamesAre ==
  ASSUME NEW T, NEW n \in Seq(T)
  PROVE  \E h, r : IsNamed(n, h, r)
<1> DEFINE S == ToSet(n) \ {Bar}
<1>1. PICK ps : ps = Parts(n)
  OBVIOUS
<1>2. /\ ps \in Seq(Seq(S)) /\ Len(ps) >= 1
      /\ \A x \in S : \E j \in DOMAIN ps : x \in ToSet(ps[j])
  BY <1>1, PartsAre
<1> HIDE DEF S
<1>3. PICK ts, h, r : ts = Tail(ps) /\ h = ps[1] /\ r = Capitalized(ts)
  OBVIOUS
<1>4. ts \in Seq(Seq(S)) /\ Len(ts) = Len(ps) - 1 /\ (\A i \in 1..Len(ts) : ts[i] = ps[i + 1])
  BY <1>2, <1>3
<1>5. h \in Seq(S)
  BY <1>2, <1>3
<1>6. r \in Seq(S \cup Range(Capital)) /\ (r # << >> => r[1] \notin DOMAIN Capital)
  BY <1>3, <1>4, CapitalizedAre
<1>7. \A j \in 1..Len(ts) : \A x \in ToSet(ts[j]) : x \in ToSet(r) \cup DOMAIN Capital
  BY <1>3, <1>4, CapitalizedAre
<1>8. TransformFieldName(n) = h \o r
  <2>1. Head(ps) = ps[1]
    BY <1>2
  <2> QED
    BY <1>1, <1>3, <2>1, Zenon DEF TransformFieldName
<1>9. TransformModelName(n) = capitalize(h) \o r
  <2>1. Capitalized(ps) = capitalize(ps[1]) \o Capitalized(Tail(ps))
    BY <1>2, CapitalizedHead
  <2> QED
    BY <1>1, <1>3, <2>1, Zenon DEF TransformModelName
<1>10. ASSUME NEW x \in S PROVE x \in ToSet(h) \cup ToSet(r) \cup DOMAIN Capital
  <2>1. PICK j \in DOMAIN ps : x \in ToSet(ps[j])
    BY <1>2
  <2>2. CASE j = 1
    BY <1>3, <2>1, <2>2
  <2>3. CASE j # 1
    <3>1. j - 1 \in 1..Len(ts) /\ (j - 1) + 1 = j
      <4>1. PICK m : m = Len(ps) /\ m \in Nat /\ DOMAIN ps = 1..m
        BY <1>2, LenProperties, Zenon
      <4>2. j \in 1..m /\ Len(ts) = m - 1
        BY <1>4, <2>1, <4>1, Zenon
      <4> QED
        BY <2>3, <4>1, <4>2
    <3>2. ts[j - 1] = ps[j]
      BY <1>4, <3>1
    <3> QED
      BY <1>7, <2>1, <3>1, <3>2
  <2> QED
    BY <2>2, <2>3
<1> QED
  BY <1>5, <1>6, <1>8, <1>9, <1>10 DEF S, IsNamed

\* The same, chunk by chunk.
LEMMA ModelNameIs ==
  ASSUME NEW T, NEW n \in Seq(T), NEW f, f = TransformFieldName(n), NEW m, m = TransformModelName(n)
  PROVE  /\ f \in Seq((ToSet(n) \ {Bar}) \cup Range(Capital))
         /\ m \in Seq((ToSet(n) \ {Bar}) \cup Range(Capital))
         /\ Len(m) = Len(f)
         /\ \A i \in 1..Len(m) : m[i] = f[i] \/ (i = 1 /\ m[i] \in Range(Capital))
         /\ m # << >> => m[1] \notin DOMAIN Capital
         /\ \A x \in ToSet(n) \ {Bar} : x \in ToSet(f) \cup DOMAIN Capital
<1> DEFINE S == ToSet(n) \ {Bar}
           R == S \cup Range(Capital)
<1>1. PICK h, r :
           /\ h \in Seq(S) /\ r \in Seq(R)
           /\ f = h \o r /\ m = capitalize(h) \o r
           /\ r # << >> => r[1] \notin DOMAIN Capital
           /\ \A x \in S : x \in ToSet(h) \cup ToSet(r) \cup DOMAIN Capital
  <2>1. PICK h, r : IsNamed(n, h, r)
    BY NamesAre
  <2> QED
    BY <2>1, Zenon DEF IsNamed
<1> HIDE DEF S
<1>2. PICK c : c = capitalize(h)
  OBVIOUS
<1>3. /\ c \in Seq(R) /\ Len(c) = Len(h)
      /\ \A i \in 2..Len(h) : c[i] = h[i]
      /\ h # << >> => \/ h[1] \in DOMAIN Capital /\ c[1] = Capital[h[1]]
                      \/ h[1] \notin DOMAIN Capital /\ c[1] = h[1]
      /\ h # << >> => c[1] \notin DOMAIN Capital
  BY <1>1, <1>2, CapitalizeIs
<1>4. h \in Seq(R)
  BY <1>1
<1> HIDE DEF R
<1>5. m = c \o r
  BY <1>1, <1>2
<1>6. /\ f \in Seq(R) /\ Len(f) = Len(h) + Len(r)
      /\ \A k \in 1..Len(h) : f[k] = h[k]
      /\ \A k \in 1..Len(r) : f[Len(h) + k] = r[k]
  BY <1>1, <1>4, ConcatIs
<1>7. /\ m \in Seq(R) /\ Len(m) = Len(c) + Len(r)
      /\ \A k \in 1..Len(c) : m[k] = c[k]
      /\ \A k \in 1..Len(r) : m[Len(c) + k] = r[k]
      /\ c = << >> => m = r
  <2>1. c \in Seq(R) /\ r \in Seq(R)
    BY <1>1, <1>3
  <2> QED
    BY <1>5, <2>1, ConcatIs
<1>8. Len(h) \in Nat /\ Len(r) \in Nat /\ Len(m) = Len(f) /\ Len(m) = Len(h) + Len(r)
  BY <1>1, <1>3, <1>6, <1>7
<1>9. ASSUME NEW i \in 1..Len(m) PROVE m[i] = f[i] \/ (i = 1 /\ m[i] \in Range(Capital))
  <2>1. CASE i <= Len(h)
    <3>1. i \in 1..Len(h) /\ m[i] = c[i] /\ f[i] = h[i]
      BY <1>3, <1>6, <1>7, <1>8, <2>1
    <3>2. i # 1 => c[i] = h[i]
      BY <1>3, <3>1
    <3>3. i = 1 => c[i] = h[i] \/ c[i] \in Range(Capital)
      BY <1>3, <1>4, <3>1 DEF Range
    <3> QED
      BY <3>1, <3>2, <3>3
  <2>2. CASE ~(i <= Len(h))
    <3>1. PICK k : k = i - Len(h)
      OBVIOUS
    <3>2. k \in 1..Len(r) /\ i = Len(h) + k /\ i = Len(c) + k
      BY <1>3, <1>8, <2>2, <3>1
    <3> QED
      BY <1>6, <1>7, <3>2
  <2> QED
    BY <2>1, <2>2
<1>10. m # << >> => m[1] \notin DOMAIN Capital
  <2>1. CASE h = << >>
    <3>1. c = << >>
      BY <1>3, <2>1
    <3> QED
      BY <1>1, <1>7, <3>1
  <2>2. CASE h # << >>
    <3>1. 1 \in 1..Len(c) /\ m[1] = c[1]
      BY <1>3, <1>4, <1>7, <2>2
    <3> QED
      BY <1>3, <2>2, <3>1
  <2> QED
    BY <2>1, <2>2
<1>11. ASSUME NEW x \in S PROVE x \in ToSet(f) \cup DOMAIN Capital
  <2>1. CASE x \in ToSet(h)
    <3>1. PICK k \in 1..Len(h) : h[k] = x
      BY <1>4, <2>1 DEF ToSet
    <3>2. k \in DOMAIN f /\ f[k] = x
      BY <1>6, <1>8, <3>1
    <3> QED
      BY <3>2 DEF ToSet
  <2>2. CASE x \in ToSet(r)
    <3>1. PICK k \in 1..Len(r) : r[k] = x
      BY <1>1, <2>2 DEF ToSet
    <3>2. Len(h) + k \in DOMAIN f /\ f[Len(h) + k] = x
      BY <1>6, <1>8, <3>1
    <3> QED
      BY <3>2 DEF ToSet
  <2> QED
    BY <1>1, <2>1, <2>2
<1> QED
  BY <1>6, <1>7, <1>8, <1>9, <1>10, <1>11 DEF R, S

\* The name of a block is its own block name: it has no underscore, and begins with no
\* word that could be capitalized.
LEMMA ModelNameTwice ==
  ASSUME NEW T, NEW n \in Seq(T)
  PROVE  TransformModelName(TransformModelName(n)) = TransformModelName(n)
<1>1. PICK m, R : m = TransformModelName(n) /\ R = (ToSet(n) \ {Bar}) \cup Range(Capital)
  OBVIOUS
<1>2. m \in Seq(R) /\ (m # << >> => m[1] \notin DOMAIN Capital)
  BY <1>1, ModelNameIs
<1>3. Bar \notin R
  BY <1>1, CapitalsAre, Zenon
<1>4. Bar \notin ToSet(m)
  BY <1>2, <1>3 DEF ToSet
<1>5. Parts(m) = <<m>>
  BY <1>2, <1>4, PartsAre
<1>6. Capitalized(<<m>>) = capitalize(m)
  BY <1>2, CapitalizedOne
<1>7. capitalize(m) = m
  BY <1>2, CapitalizeIs
<1>8. TransformModelName(m) = m
  BY <1>5, <1>6, <1>7, Zenon DEF TransformModelName
<1> QED
  BY <1>1, <1>8

\* A name whose field name is an identifier has a block name that is one, unless it is
\* reserved; it begins with no underscore.
LEMMA ModelNameIsIdentifier ==
  ASSUME NEW T, NEW n \in Seq(T), IsIdentifier(TransformFieldName(n)),
         ~IsReservedModelName(TransformModelName(n))
  PROVE  IsIdentifier(TransformModelName(n))
<1>1. PICK m, f, R : /\ m = TransformModelName(n) /\ f = TransformFieldName(n)
                     /\ R = (ToSet(n) \ {Bar}) \cup Range(Capital)
  OBVIOUS
<1>2. /\ f \in Seq(R) /\ m \in Seq(R) /\ Len(m) = Len(f)
      /\ \A i \in 1..Len(m) : m[i] = f[i] \/ (i = 1 /\ m[i] \in Range(Capital))
  BY <1>1, ModelNameIs
<1>3. /\ f # << >> /\ ToSet(f) \cap Foreign = {} /\ f[1] \notin NoStart
      /\ ~(Len(f) = 1 /\ f[1] \in Keywords)
  BY <1>1, CharactersAre
<1>4. ~(Len(m) = 1 /\ m[1] \in Taken)
  BY <1>1, NotReserved
<1>5. m # << >> /\ 1 \in 1..Len(m)
  BY <1>2, <1>3
<1>6. ToSet(m) \cap Foreign = {}
  <2>1. SUFFICES ASSUME NEW i \in 1..Len(m) PROVE m[i] \notin Foreign
    BY <1>2 DEF ToSet
  <2>2. f[i] \in ToSet(f)
    BY <1>2 DEF ToSet
  <2> QED
    BY <1>2, <1>3, <2>2, CapitalsAre
<1>7. m[1] \notin NoStart
  BY <1>2, <1>3, <1>5, CapitalsAre
<1>8. ~(Len(m) = 1 /\ m[1] \in Keywords)
  BY <1>2, <1>3, <1>4, <1>5, CapitalsAre, CharactersAre
<1>9. IsIdentifier(m)
  BY <1>5, <1>6, <1>7, <1>8, CharactersAre
<1> QED
  BY <1>1, <1>9

\* It is text that fits between two quotes, too.
LEMMA IdentifierIsString ==
  ASSUME NEW n, IsIdentifier(n)
  PROVE  IsString(n)
BY CharactersAre

\* What stands between the quotes of @map ends no string early.
LEMMA ColumnNameIsString ==
  ASSUME NEW T, NEW n \in Seq(T), IsIdentifier(TransformFieldName(n))
  PROVE  IsString(n)
<1>1. PICK f : f = TransformFieldName(n)
  OBVIOUS
<1>2. \A x \in ToSet(n) \ {Bar} : x \in ToSet(f) \cup DOMAIN Capital
  BY <1>1, ModelNameIs
<1>3. ToSet(f) \cap Foreign = {}
  BY <1>1, CharactersAre
<1>4. ToSet(n) \cap Quotes = {}
  BY <1>2, <1>3, CapitalsAre, CharactersAre
<1> QED
  BY <1>4, CharactersAre

\* Two identifiers joined are one.
LEMMA JoinedIsIdentifier ==
  ASSUME NEW S, NEW a \in Seq(S), NEW b \in Seq(S), IsIdentifier(a), IsIdentifier(b)
  PROVE  IsIdentifier(a \o capitalize(b))
<1>1. PICK R : R = S \cup Range(Capital)
  OBVIOUS
<1>2. PICK c, j : c = capitalize(b) /\ j = a \o c
  OBVIOUS
<1>3. /\ c \in Seq(R) /\ Len(c) = Len(b)
      /\ \A i \in 2..Len(b) : c[i] = b[i]
      /\ b # << >> => \/ b[1] \in DOMAIN Capital /\ c[1] = Capital[b[1]]
                      \/ b[1] \notin DOMAIN Capital /\ c[1] = b[1]
  BY <1>1, <1>2, CapitalizeIs
<1>4. a \in Seq(R)
  BY <1>1
<1>5. /\ j \in Seq(R) /\ Len(j) = Len(a) + Len(c)
      /\ \A k \in 1..Len(a) : j[k] = a[k]
      /\ \A k \in 1..Len(c) : j[Len(a) + k] = c[k]
  <2>1. a \in Seq(R) /\ c \in Seq(R) /\ j = a \o c
    BY <1>2, <1>3, <1>4
  <2> QED
    BY <2>1, ConcatIs
<1>6. a # << >> /\ b # << >> /\ ToSet(a) \cap Foreign = {} /\ ToSet(b) \cap Foreign = {}
      /\ a[1] \notin NoStart
  BY CharactersAre
<1>7. 1 \in 1..Len(a) /\ Len(j) > 1 /\ j # << >> /\ j[1] = a[1]
  BY <1>3, <1>4, <1>5, <1>6
<1>8. ASSUME NEW i \in 1..Len(j) PROVE j[i] \notin Foreign
  <2>1. CASE i <= Len(a)
    <3>1. i \in DOMAIN a /\ j[i] = a[i]
      BY <1>4, <1>5, <2>1
    <3> QED
      BY <1>6, <3>1 DEF ToSet
  <2>2. CASE ~(i <= Len(a))
    <3>1. PICK k : k = i - Len(a)
      OBVIOUS
    <3>2. Len(a) \in Nat /\ Len(b) \in Nat /\ Len(j) = Len(a) + Len(b) /\ Len(c) = Len(b)
      BY <1>3, <1>5
    <3>3. k \in 1..Len(b) /\ Len(a) + k = i
      BY <2>2, <3>1, <3>2
    <3>4. k \in 1..Len(b) /\ j[i] = c[k]
      BY <1>5, <3>2, <3>3
    <3>5. k # 1 => c[k] = b[k]
      BY <1>3, <3>4
    <3>6. k = 1 => c[k] = b[k] \/ c[k] \in Range(Capital)
      BY <1>3, <1>6 DEF Range
    <3>7. b[k] \in ToSet(b)
      BY <3>4 DEF ToSet
    <3> QED
      BY <1>6, <3>4, <3>5, <3>6, <3>7, CapitalsAre
  <2> QED
    BY <2>1, <2>2
<1>9. ToSet(j) \cap Foreign = {}
  BY <1>5, <1>8 DEF ToSet
<1>10. IsIdentifier(j)
  <2>1. ~(Len(j) = 1 /\ j[1] \in Keywords)
    BY <1>5, <1>7
  <2> QED
    BY <1>6, <1>7, <1>9, <2>1, CharactersAre, Zenon
<1> QED
  BY <1>2, <1>10
-----------------------------------------------------------------------------
(***************************************************************************)
(* A schema that the writer can write and the parser can read: what a pull *)
(* of a plain database has read.                                           *)
(***************************************************************************)
Lists(cols) == Seq(DOMAIN cols) \ {<< >>}

LegibleType(type, enums) ==
  /\ type = [kind |-> type.kind, enum |-> type.enum, list |-> type.list]
  /\ \/ type.kind \in DOMAIN BaseType /\ type.enum = << >>
     \/ type.kind = "enum" /\ type.enum \in enums

Forms == {"none", "sequence", "literal", "expression"}

LegibleDefault(d) ==
  /\ d = [form |-> d.form, text |-> d.text] /\ d.form \in Forms /\ d.text \in Seq(STRING)
  /\ d.form \in {"none", "sequence"} => d.text = << >>
  /\ d.form = "expression" => d.text # << >>
  /\ Kept(d)

LegibleColumn(col, enums) ==
  /\ col = [type |-> col.type, nullable |-> col.nullable, default |-> col.default]
  /\ LegibleType(col.type, enums) /\ LegibleDefault(col.default)

LegibleKey(s, t, fk) ==
  /\ fk = [cols |-> fk.cols, refTable |-> fk.refTable, refCols |-> fk.refCols,
           onDelete |-> fk.onDelete, onUpdate |-> fk.onUpdate]
  /\ fk.cols \in Lists(s.tables[t].cols)
  /\ fk.refTable \in DOMAIN s.tables /\ fk.refCols \in Seq(DOMAIN s.tables[fk.refTable].cols)
  /\ fk.onDelete # "" /\ fk.onUpdate # ""
  /\ IsIdentifier(forwardRelationFieldName(fk))

LegibleTable(s, t) ==
  LET tab == s.tables[t]
  IN  /\ \A x \in DOMAIN tab.cols :
           /\ x \in Text /\ IsIdentifier(TransformFieldName(x))
           /\ LegibleColumn(tab.cols[x], DOMAIN s.enums)
      /\ tab.pk \in Seq(DOMAIN tab.cols) /\ tab.uniques \subseteq Lists(tab.cols)
      /\ tab.indexes \subseteq [cols : Seq(DOMAIN tab.cols), unique : BOOLEAN]
      /\ \A fk \in tab.fks : LegibleKey(s, t, fk)

LegibleNames(s) ==
  /\ \A n \in DOMAIN s.tables \cup DOMAIN s.enums : n \in Text /\ IsIdentifier(TransformFieldName(n))
  /\ \A t \in DOMAIN s.tables : IsCapital(TransformModelName(t)[1])
  /\ \A t \in DOMAIN s.tables, e \in DOMAIN s.enums : TransformModelName(t) # TransformModelName(e)
  /\ \A d, e \in DOMAIN s.enums : TransformModelName(d) = TransformModelName(e) => d = e
  /\ \A e \in DOMAIN s.enums : \A l \in ToSet(s.enums[e]) : IsIdentifier(l)

Legible(s) ==
  ~WriteFails(s) /\ LegibleNames(s) /\ (\A t \in DOMAIN s.tables : LegibleTable(s, t))

\* What the writer refuses: names that are reserved, or one name for two things.
LEMMA NotRefused ==
  ASSUME NEW s, ~WriteFails(s)
  PROVE  /\ \A n \in DOMAIN s.enums \cup DOMAIN s.tables :
              ~IsReservedModelName(TransformModelName(n))
         /\ \A t, u \in DOMAIN s.tables : TransformModelName(t) = TransformModelName(u) => t = u
         /\ \A t \in DOMAIN s.tables : \A x, y \in DOMAIN s.tables[t].cols :
              TransformFieldName(x) = TransformFieldName(y) => x = y
<1>1. \A n \in DOMAIN s.enums \cup DOMAIN s.tables : ~IsReservedModelName(TransformModelName(n))
  BY Zenon DEF WriteFails
<1>2. \A t, u \in DOMAIN s.tables : TransformModelName(t) = TransformModelName(u) => t = u
  BY Zenon DEF WriteFails, Collides
<1>3. ASSUME NEW t \in DOMAIN s.tables, NEW x \in DOMAIN s.tables[t].cols,
             NEW y \in DOMAIN s.tables[t].cols, TransformFieldName(x) = TransformFieldName(y)
      PROVE  x = y
  <2>1. ~tableCollides(s, t)
    BY Zenon DEF WriteFails
  <2>2. ~Collides(TransformFieldName, DOMAIN s.tables[t].cols)
    BY <2>1, Zenon DEF tableCollides
  <2> QED
    BY <1>3, <2>2, Zenon DEF Collides
<1> QED
  BY <1>1, <1>2, <1>3, Zenon

\* The blocks of the file, by name and by table.
LEMMA BlocksAre ==
  ASSUME NEW s, Legible(s)
  PROVE  /\ EnumNames(Write(s)) = {TransformModelName(e) : e \in DOMAIN s.enums}
         /\ {m.map : m \in Write(s).models} = DOMAIN s.tables
         /\ \A t \in DOMAIN s.tables :
              /\ writeTable(s, t) \in Write(s).models /\ writeTable(s, t).map = t
              /\ (CHOOSE m \in Write(s).models : m.map = t) = writeTable(s, t)
              /\ ModelNamed(Write(s), TransformModelName(t)) = writeTable(s, t)
         /\ \A e \in DOMAIN s.enums :
              (CHOOSE b \in Write(s).enums : b.name = TransformModelName(e)).labels = s.enums[e]
<1>1. PICK M, E : /\ M = {writeTable(s, t) : t \in DOMAIN s.tables}
                  /\ E = {[name |-> TransformModelName(e), labels |-> s.enums[e]] :
                            e \in DOMAIN s.enums}
  OBVIOUS
<1>2. Write(s).models = M /\ Write(s).enums = E
  BY <1>1 DEF Write
<1>3. \A t : writeTable(s, t).map = t /\ writeTable(s, t).name = TransformModelName(t)
  BY DEF writeTable
<1>4. EnumNames(Write(s)) = {TransformModelName(e) : e \in DOMAIN s.enums}
  <2>1. ASSUME NEW e \in DOMAIN s.enums PROVE \E b \in E : b.name = TransformModelName(e)
    <3>1. PICK x : x = [name |-> TransformModelName(e), labels |-> s.enums[e]]
      OBVIOUS
    <3>2. x \in E /\ x.name = TransformModelName(e)
      BY <1>1, <3>1
    <3> QED
      BY <3>2
  <2>2. \A b \in E : \E e \in DOMAIN s.enums : b.name = TransformModelName(e)
    BY <1>1
  <2>3. {b.name : b \in E} = {TransformModelName(e) : e \in DOMAIN s.enums}
    BY <2>1, <2>2
  <2> QED
    BY <1>2, <2>3 DEF EnumNames
<1>5. {m.map : m \in M} = DOMAIN s.tables
  BY <1>1, <1>3
<1>6. ASSUME NEW t \in DOMAIN s.tables
      PROVE  /\ writeTable(s, t) \in M
             /\ (CHOOSE m \in M : m.map = t) = writeTable(s, t)
             /\ ModelNamed(Write(s), TransformModelName(t)) = writeTable(s, t)
  <2>1. writeTable(s, t) \in M
    BY <1>1
  <2>2. \A m \in M : m.map = t => m = writeTable(s, t)
    BY <1>1, <1>3
  <2>3. (CHOOSE m \in M : m.map = t) = writeTable(s, t)
    BY <1>3, <2>1, <2>2
  <2>4. \A m \in M : m.name = TransformModelName(t) => m = writeTable(s, t)
    BY <1>1, <1>3, NotRefused DEF Legible
  <2>5. (CHOOSE m \in M : m.name = TransformModelName(t)) = writeTable(s, t)
    BY <1>3, <2>1, <2>4
  <2> QED
    BY <1>2, <2>1, <2>3, <2>5 DEF ModelNamed
<1>7. ASSUME NEW e \in DOMAIN s.enums
      PROVE  (CHOOSE b \in E : b.name = TransformModelName(e)).labels = s.enums[e]
  <2>1. PICK x : x = [name |-> TransformModelName(e), labels |-> s.enums[e]]
    OBVIOUS
  <2>2. x \in E /\ x.name = TransformModelName(e) /\ x.labels = s.enums[e]
    BY <1>1, <2>1
  <2>3. \A b \in E : b.name = TransformModelName(e) => b.labels = s.enums[e]
    BY <1>1 DEF Legible, LegibleNames
  <2>4. PICK b : b = CHOOSE y \in E : y.name = TransformModelName(e)
    OBVIOUS
  <2>5. b \in E /\ b.name = TransformModelName(e)
    BY <2>2, <2>4
  <2> QED
    BY <2>3, <2>4, <2>5
<1> QED
  BY <1>2, <1>3, <1>4, <1>5, <1>6, <1>7

\* The fields that stand for columns are the scalar ones: the type of a relation field
\* is the block of a table, which is no enum and begins with a capital.
LEMMA ColumnIsScalar ==
  ASSUME NEW s, Legible(s), NEW t \in DOMAIN s.tables, NEW x \in DOMAIN s.tables[t].cols
  PROVE  ~isRelationField(Write(s), writeColumn(s.tables[t], x))
<1>1. PICK col, f : col = s.tables[t].cols[x] /\ f = writeColumn(s.tables[t], x)
  OBVIOUS
<1>2. f.type = PrismaType(col.type)
  BY <1>1 DEF writeColumn
<1>3. LegibleType(col.type, DOMAIN s.enums)
  BY <1>1 DEF Legible, LegibleTable, LegibleColumn
<1>4. CASE col.type.kind = "enum"
  <2>1. f.type.base = TransformModelName(col.type.enum)
    BY <1>2, <1>4 DEF PrismaType
  <2>2. "enum" \notin DOMAIN BaseType
    BY DEF BaseType
  <2>3. col.type.enum \in DOMAIN s.enums
    BY <1>3, <1>4, <2>2 DEF LegibleType
  <2>4. f.type.base \in EnumNames(Write(s))
    BY <2>1, <2>3, BlocksAre
  <2> QED
    BY <1>1, <2>4 DEF isRelationField
<1>5. CASE col.type.kind # "enum"
  <2>1. f.type.base = <<BaseType[col.type.kind]>> /\ col.type.kind \in DOMAIN BaseType
    BY <1>2, <1>3, <1>5 DEF PrismaType, LegibleType
  <2>2. \A k \in DOMAIN BaseType : BaseType[k] \in TypeNames
    BY DEF BaseType, TypeNames
  <2>3. IsBuiltin(f.type)
    BY <2>1, <2>2 DEF IsBuiltin
  <2> QED
    BY <1>1, <2>3 DEF isRelationField
<1> QED
  BY <1>4, <1>5

\* The name of a block is no type of the language.
LEMMA BlockIsNoType ==
  ASSUME NEW s, Legible(s), NEW n \in DOMAIN s.tables \cup DOMAIN s.enums, NEW type,
         type.base = TransformModelName(n)
  PROVE  ~IsBuiltin(type) /\ IsIdentifier(type.base)
<1>1. ~IsReservedModelName(TransformModelName(n)) /\ n \in Text /\ IsIdentifier(TransformFieldName(n))
  BY NotRefused DEF Legible, LegibleNames
<1>2. IsIdentifier(TransformModelName(n))
  BY <1>1, ModelNameIsIdentifier DEF Text
<1>3. ~(Len(type.base) = 1 /\ type.base[1] \in Taken)
  BY <1>1, NotReserved
<1>4. ~IsBuiltin(type)
  BY <1>3 DEF IsBuiltin, Taken
<1> QED
  BY <1>2, <1>4

\* The fields of a relation have the block of a table for their type.
IsSide(s, t, f, u) ==
  /\ u \in DOMAIN s.tables /\ f.type.base = TransformModelName(u)
  /\ \/ \E fk \in s.tables[t].fks :
          fk.refTable = u /\ f = forwardRelationField(s, t, fk)
     \/ \E fk \in s.tables[u].fks :
          fk.refTable = t /\ f = backRelationField(s, u, fk)

\* Each relation field of a table is a forward or a back side of a key.
LEMMA SidesAre ==
  ASSUME NEW s, NEW t \in DOMAIN s.tables, NEW r \in relationPlan(s, t)
  PROVE  \E u : IsSide(s, t, r.field, u)
<1>1. CASE \E fk \in s.tables[t].fks : /\ fk.refTable \in DOMAIN s.tables
                                       /\ r = [key |-> fk, of |-> t,
                                               field |-> forwardRelationField(s, t, fk)]
  <2>1. PICK fk \in s.tables[t].fks : /\ fk.refTable \in DOMAIN s.tables
                                      /\ r.field = forwardRelationField(s, t, fk)
    BY <1>1
  <2>2. r.field.type.base = TransformModelName(fk.refTable)
    BY <2>1 DEF forwardRelationField, Field
  <2> QED
    BY <2>1, <2>2 DEF IsSide
<1>2. CASE \E u \in DOMAIN s.tables : \E fk \in Pair(s, u, t) :
             r = [key |-> fk, of |-> u, field |-> backRelationField(s, u, fk)]
  <2>0. PICK u \in DOMAIN s.tables : \E fk \in Pair(s, u, t) :
               r = [key |-> fk, of |-> u, field |-> backRelationField(s, u, fk)]
    BY <1>2
  <2>1. PICK fk \in Pair(s, u, t) : r.field = backRelationField(s, u, fk)
    BY <2>0
  <2>2. r.field.type.base = TransformModelName(u)
    BY <2>1 DEF backRelationField, Field
  <2>3. fk \in s.tables[u].fks /\ fk.refTable = t
    BY <2>1 DEF Pair
  <2> QED
    BY <2>1, <2>2, <2>3 DEF IsSide
<1> QED
  BY <1>1, <1>2, Zenon DEF relationPlan

\* The converter takes the relation fields for such.
LEMMA SideIsRelation ==
  ASSUME NEW s, Legible(s), NEW t \in DOMAIN s.tables, NEW r \in relationPlan(s, t)
  PROVE  isRelationField(Write(s), r.field)
<1>1. PICK u \in DOMAIN s.tables : r.field.type.base = TransformModelName(u)
  BY SidesAre DEF IsSide
<1>2. ~IsBuiltin(r.field.type) /\ IsIdentifier(r.field.type.base)
  BY <1>1, BlockIsNoType
<1>3. r.field.type.base # << >>
  BY <1>2, CharactersAre
<1>4. r.field.type.base \notin EnumNames(Write(s))
  BY <1>1, BlocksAre DEF Legible, LegibleNames
<1>5. IsCapital(r.field.type.base[1])
  BY <1>1 DEF Legible, LegibleNames
<1> QED
  BY <1>2, <1>3, <1>4, <1>5 DEF isRelationField

\* The scalar fields are those of the columns.
LEMMA ScalarFieldsAre ==
  ASSUME NEW s, Legible(s), NEW t \in DOMAIN s.tables
  PROVE  ScalarFields(Write(s), writeTable(s, t))
           = {writeColumn(s.tables[t], x) : x \in DOMAIN s.tables[t].cols}
<1>1. PICK C, P : /\ C = {writeColumn(s.tables[t], x) : x \in DOMAIN s.tables[t].cols}
                  /\ P = {r.field : r \in relationPlan(s, t)}
  OBVIOUS
<1>2. writeTable(s, t).fields = C \cup P
  BY <1>1 DEF writeTable
<1>3. \A f \in C : ~isRelationField(Write(s), f)
  BY <1>1, ColumnIsScalar
<1>4. \A f \in P : isRelationField(Write(s), f)
  BY <1>1, SideIsRelation
<1>5. ScalarFields(Write(s), writeTable(s, t)) = C
  BY <1>2, <1>3, <1>4 DEF ScalarFields
<1> QED
  BY <1>1, <1>5

\* The name of a field leads back to its column, and a list of names to its columns.
LEMMA ColumnOfField ==
  ASSUME NEW s, Legible(s), NEW t \in DOMAIN s.tables, NEW x \in DOMAIN s.tables[t].cols
  PROVE  /\ ColumnOf(Write(s), writeTable(s, t), TransformFieldName(x)) = x
         /\ TransformFieldName(x) \in Scalars(Write(s), writeTable(s, t))
<1>1. PICK C : C = {writeColumn(s.tables[t], y) : y \in DOMAIN s.tables[t].cols}
  OBVIOUS
<1>2. ScalarFields(Write(s), writeTable(s, t)) = C
  BY <1>1, ScalarFieldsAre
<1>3. \A y : /\ writeColumn(s.tables[t], y).name = TransformFieldName(y)
             /\ writeColumn(s.tables[t], y).map = y
  BY DEF writeColumn
<1>4. \A f \in C : f.name = TransformFieldName(x) => f.map = x
  BY <1>1, <1>3, NotRefused DEF Legible
<1>5. \E f \in C : f.name = TransformFieldName(x)
  BY <1>1, <1>3
<1>6. PICK f : f = CHOOSE g \in C : g.name = TransformFieldName(x)
  OBVIOUS
<1>7. f \in C /\ f.name = TransformFieldName(x)
  BY <1>5, <1>6
<1>8. ColumnOf(Write(s), writeTable(s, t), TransformFieldName(x)) = x
  BY <1>2, <1>4, <1>6, <1>7 DEF ColumnOf
<1>9. TransformFieldName(x) \in Scalars(Write(s), writeTable(s, t))
  BY <1>2, <1>5 DEF Scalars
<1> QED
  BY <1>8, <1>9

\* mapFieldNames undoes Fields.
LEMMA FieldsLeadBack ==
  ASSUME NEW s, Legible(s), NEW t \in DOMAIN s.tables, NEW l \in Seq(DOMAIN s.tables[t].cols)
  PROVE  /\ mapFieldNames(Write(s), writeTable(s, t), Fields(l)) = l
         /\ ToSet(Fields(l)) \subseteq Scalars(Write(s), writeTable(s, t))
         /\ \A n \in ToSet(Fields(l)) : IsIdentifier(n)
         /\ Len(Fields(l)) = Len(l) /\ DOMAIN Fields(l) = DOMAIN l
<1>1. PICK g : g = Fields(l)
  OBVIOUS
<1>2. DOMAIN l = 1..Len(l) /\ Len(l) \in Nat /\ \A i \in DOMAIN l : l[i] \in DOMAIN s.tables[t].cols
  OBVIOUS
<1>3. DOMAIN g = DOMAIN l /\ \A i \in DOMAIN l : g[i] = TransformFieldName(l[i])
  BY <1>1 DEF Fields
<1>4. \A i \in DOMAIN l :
        /\ ColumnOf(Write(s), writeTable(s, t), g[i]) = l[i]
        /\ g[i] \in Scalars(Write(s), writeTable(s, t))
  BY <1>2, <1>3, ColumnOfField
<1>5. mapFieldNames(Write(s), writeTable(s, t), g) = l
  <2>1. mapFieldNames(Write(s), writeTable(s, t), g)
          = [i \in DOMAIN l |-> ColumnOf(Write(s), writeTable(s, t), g[i])]
    BY <1>3 DEF mapFieldNames
  <2>2. l = [i \in DOMAIN l |-> l[i]]
    OBVIOUS
  <2> QED
    BY <1>4, <2>1, <2>2
<1>6. ToSet(g) \subseteq Scalars(Write(s), writeTable(s, t))
  BY <1>3, <1>4 DEF ToSet
<1>7. \A n \in ToSet(g) : IsIdentifier(n)
  <2>1. \A x \in DOMAIN s.tables[t].cols : IsIdentifier(TransformFieldName(x))
    BY DEF Legible, LegibleTable
  <2> QED
    BY <1>2, <1>3, <2>1 DEF ToSet
<1>8. Len(g) = Len(l)
  <2>1. \A i \in 1..Len(l) : g[i] \in {g[j] : j \in 1..Len(l)}
    OBVIOUS
  <2>2. g = [i \in 1..Len(l) |-> g[i]]
    BY <1>1, <1>2 DEF Fields
  <2> QED
    BY <1>2, <1>3, <2>2
<1> QED
  BY <1>1, <1>3, <1>5, <1>6, <1>7, <1>8

(***************************************************************************)
(* Types: what a kind reads as.                                            *)
(***************************************************************************)
KindBack ==
  [uuid |-> "uuid", text |-> "text", varchar |-> "text", char |-> "text", int32 |-> "int32",
   int64 |-> "int64", bool |-> "bool", float32 |-> "float64", float64 |-> "float64",
   numeric |-> "numeric", timestamp |-> "timestamp", timestamptz |-> "timestamptz",
   date |-> "timestamp", json |-> "json", jsonb |-> "jsonb", bytes |-> "bytes"]

Widened(kind) == IF kind \in DOMAIN Wider THEN Wider[kind] ELSE kind

Annotated(k) == IF k \in DOMAIN Annotation THEN Annotation[k] ELSE NoAnnotation

\* The tables the kinds are looked up in.
LEMMA AnnotationsAre ==
  /\ DOMAIN Annotation
       = {"uuid", "varchar", "char", "float32", "timestamptz", "date", "jsonb"}
  /\ Annotation["uuid"] = "Uuid" /\ Annotation["varchar"] = "VarChar"
  /\ Annotation["char"] = "Char" /\ Annotation["timestamptz"] = "Timestamptz"
  /\ Annotation["date"] = "Date" /\ Annotation["jsonb"] = "JsonB"
BY DEF Annotation

\* An annotation tells the types of one base type apart.
LEMMA AnnotatedAs ==
  /\ Annotated("uuid") = "Uuid" /\ Annotated("timestamptz") = "Timestamptz"
  /\ Annotated("jsonb") = "JsonB"
  /\ \A x \in {"text", "varchar", "char"} : Annotated(x) # "Uuid"
  /\ \A x \in {"timestamp", "date"} : Annotated(x) # "Timestamptz"
  /\ Annotated("json") # "JsonB"
<1>1. /\ Annotated("uuid") = "Uuid" /\ Annotated("timestamptz") = "Timestamptz"
      /\ Annotated("jsonb") = "JsonB" /\ Annotated("varchar") = "VarChar"
      /\ Annotated("char") = "Char" /\ Annotated("date") = "Date"
  BY AnnotationsAre DEF Annotated
<1>2. /\ Annotated("text") = NoAnnotation /\ Annotated("timestamp") = NoAnnotation
      /\ Annotated("json") = NoAnnotation
  BY AnnotationsAre DEF Annotated
<1>3. NoAnnotation # "Uuid" /\ NoAnnotation # "Timestamptz" /\ NoAnnotation # "JsonB"
  BY DEF NoAnnotation
<1> QED
  BY <1>1, <1>2, <1>3

\* A type of the map comes back as KindBack says.
LEMMA KindLeadsBack ==
  ASSUME NEW k \in DOMAIN BaseType, NEW type, type.base = <<BaseType[k]>>,
         type.annotation = IF k \in DOMAIN Annotation THEN Annotation[k] ELSE NoAnnotation
  PROVE  Kind(type) = [kind |-> KindBack[k], enum |-> << >>]
<1>1. PICK b, a : b = BaseType[k] /\ a = type.annotation
  OBVIOUS
<1>2. /\ Len(type.base) = 1 /\ type.base[1] = b
      /\ \A x : type.base = <<x>> <=> b = x
  BY <1>1
<1>3. b \in TypeNames
  BY <1>1 DEF BaseType, TypeNames
<1>4. IsBuiltin(type)
  BY <1>2, <1>3 DEF IsBuiltin
<1>5. Kind(type) =
        CASE b = "String" -> Scalar(IF a = "Uuid" THEN "uuid" ELSE "text")
          [] b = "DateTime" -> Scalar(IF a = "Timestamptz" THEN "timestamptz" ELSE "timestamp")
          [] b = "Json" -> Scalar(IF a = "JsonB" THEN "jsonb" ELSE "json")
          [] OTHER -> Scalar(BaseKind[b])
  BY <1>1, <1>2, <1>4 DEF Kind
<1>6. a = Annotated(k)
  BY <1>1 DEF Annotated
<1>7. CASE k \in {"uuid", "text", "varchar", "char"}
  <2>1. b = "String"
    BY <1>1, <1>7 DEF BaseType
  <2>2. a = "Uuid" <=> k = "uuid"
    BY <1>6, <1>7, AnnotatedAs
  <2>3. KindBack[k] = IF k = "uuid" THEN "uuid" ELSE "text"
    BY <1>7 DEF KindBack
  <2> QED
    BY <1>5, <2>1, <2>2, <2>3 DEF Scalar
<1>8. CASE k \in {"timestamp", "timestamptz", "date"}
  <2>1. b = "DateTime"
    BY <1>1, <1>8 DEF BaseType
  <2>2. a = "Timestamptz" <=> k = "timestamptz"
    BY <1>6, <1>8, AnnotatedAs
  <2>3. KindBack[k] = IF k = "timestamptz" THEN "timestamptz" ELSE "timestamp"
    BY <1>8 DEF KindBack
  <2> QED
    BY <1>5, <2>1, <2>2, <2>3 DEF Scalar
<1>9. CASE k \in {"json", "jsonb"}
  <2>1. b = "Json"
    BY <1>1, <1>9 DEF BaseType
  <2>2. a = "JsonB" <=> k = "jsonb"
    BY <1>6, <1>9, AnnotatedAs
  <2>3. KindBack[k] = IF k = "jsonb" THEN "jsonb" ELSE "json"
    BY <1>9 DEF KindBack
  <2> QED
    BY <1>5, <2>1, <2>2, <2>3 DEF Scalar
<1>10. CASE k \in {"int32", "int64", "bool", "float32", "float64", "numeric", "bytes"}
  <2>1. b # "String" /\ b # "DateTime" /\ b # "Json" /\ BaseKind[b] = KindBack[k]
    BY <1>1, <1>10 DEF BaseType, BaseKind, KindBack
  <2> QED
    BY <1>5, <2>1 DEF Scalar
<1>11. \/ k \in {"uuid", "text", "varchar", "char"} \/ k \in {"timestamp", "timestamptz", "date"}
       \/ k \in {"json", "jsonb"}
       \/ k \in {"int32", "int64", "bool", "float32", "float64", "numeric", "bytes"}
  BY DEF BaseType
<1> QED
  BY <1>7, <1>8, <1>9, <1>10, <1>11

\* The view of a type, field by field.
LEMMA ViewOfType ==
  ASSUME NEW k, NEW e, NEW l, NEW type, type = [kind |-> k, enum |-> e, list |-> l]
  PROVE  ViewType(type) = [kind |-> Widened(k), enum |-> TransformModelName(e), list |-> l]
<1>1. type.kind = k /\ type.enum = e
  OBVIOUS
<1>2. PICK w, m : w = Widened(k) /\ m = TransformModelName(e)
  OBVIOUS
<1>3. [type EXCEPT !.kind = w, !.enum = m] = [kind |-> w, enum |-> m, list |-> l]
  <2>1. PICK half : half = [type EXCEPT !.kind = w]
    OBVIOUS
  <2>2. half = [kind |-> w, enum |-> e, list |-> l]
    BY <2>1
  <2>3. [half EXCEPT !.enum = m] = [kind |-> w, enum |-> m, list |-> l]
    BY <2>2
  <2>4. [type EXCEPT !.kind = w, !.enum = m] = [[type EXCEPT !.kind = w] EXCEPT !.enum = m]
    OBVIOUS
  <2> QED
    BY <2>1, <2>3, <2>4
<1>4. ViewType(type) = [type EXCEPT !.kind = Widened(type.kind),
                                    !.enum = TransformModelName(type.enum)]
  BY Zenon DEF ViewType, Widened
<1>5. w = Widened(type.kind) /\ m = TransformModelName(type.enum)
  BY <1>1, <1>2
<1> QED
  BY <1>2, <1>3, <1>4, <1>5

\* A type that is no type of the language stands for an enum.
LEMMA BlockIsEnum ==
  ASSUME NEW type, ~IsBuiltin(type)
  PROVE  Kind(type) = [kind |-> "enum", enum |-> type.base]
<1>1. \A x \in TypeNames : type.base # <<x>>
  BY DEF IsBuiltin
<1>2. type.base # <<"String">> /\ type.base # <<"DateTime">> /\ type.base # <<"Json">>
  BY <1>1 DEF TypeNames
<1> QED
  BY <1>2, Zenon DEF Kind

\* Every legible type has the view of the type it comes back as.
LEMMA TypeLeadsBack ==
  ASSUME NEW s, Legible(s), NEW type, LegibleType(type, DOMAIN s.enums)
  PROVE  ViewType(convertType(PrismaType(type))) = ViewType(type)
<1>1. PICK k, e, l : k = type.kind /\ e = type.enum /\ l = type.list
  OBVIOUS
<1>2. type = [kind |-> k, enum |-> e, list |-> l]
  BY <1>1 DEF LegibleType
<1>3. ViewType(type) = [kind |-> Widened(k), enum |-> TransformModelName(e), list |-> l]
  BY <1>2, ViewOfType
<1>4. PICK p : p = PrismaType(type)
  OBVIOUS
<1>5. p.list = l
  BY <1>1, <1>4 DEF PrismaType
<1>6. PICK q : q = Kind(p)
  OBVIOUS
<1>7. ViewType(convertType(p))
        = [kind |-> Widened(q.kind), enum |-> TransformModelName(q.enum), list |-> l]
  <2>1. convertType(p) = [kind |-> q.kind, enum |-> q.enum, list |-> l]
    BY <1>5, <1>6 DEF convertType
  <2> QED
    BY <2>1, ViewOfType
<1>8. CASE k = "enum"
  <2>1. "enum" \notin DOMAIN BaseType
    BY DEF BaseType
  <2>2. e \in DOMAIN s.enums
    BY <1>1, <1>8, <2>1 DEF LegibleType
  <2>3. p.base = TransformModelName(e)
    BY <1>1, <1>4, <1>8 DEF PrismaType
  <2>4. ~IsBuiltin(p)
    BY <2>2, <2>3, BlockIsNoType
  <2>5. q = [kind |-> "enum", enum |-> TransformModelName(e)]
    BY <1>6, <2>3, <2>4, BlockIsEnum
  <2>6. TransformModelName(TransformModelName(e)) = TransformModelName(e)
    BY <2>2, ModelNameTwice DEF Legible, LegibleNames, Text
  <2> QED
    BY <1>3, <1>4, <1>7, <1>8, <2>5, <2>6
<1>9. CASE k # "enum"
  <2>1. k \in DOMAIN BaseType /\ e = << >>
    BY <1>1, <1>9 DEF LegibleType
  <2>2. /\ p.base = <<BaseType[k]>>
        /\ p.annotation = IF k \in DOMAIN Annotation THEN Annotation[k] ELSE NoAnnotation
    BY <1>1, <1>4, <1>9 DEF PrismaType
  <2>3. q = [kind |-> KindBack[k], enum |-> << >>]
    BY <1>6, <2>1, <2>2, KindLeadsBack
  <2>4. Widened(KindBack[k]) = Widened(k)
    BY <2>1 DEF Widened, Wider, KindBack, BaseType
  <2> QED
    BY <1>3, <1>4, <1>7, <2>1, <2>3, <2>4
<1> QED
  BY <1>8, <1>9
-----------------------------------------------------------------------------
(***************************************************************************)
(* Defaults: what the file says of one, and what it leads back to.         *)
(***************************************************************************)
Mark    == "'"
Ticks   == {"'", "\""}
NowCall == <<"now", "()">>
Current == <<"CURRENT_TIMESTAMP">>
NewId   == <<"gen_random_uuid", "()">>

IsNow(text) == Calls(text, {"now"}) \/ text[1] = "CURRENT_TIMESTAMP"

IsNewId(text) == Calls(text, {"uuid_generate_v4", "gen_random_uuid"})

\* A set of positions has a first and a last one.
LEMMA EndsExist ==
  ASSUME NEW n \in Nat, NEW T \in SUBSET (1..n), T # {}
  PROVE  Min(T) \in T /\ Max(T) \in T
<1>0. T \subseteq Nat
  OBVIOUS
<1>1. \E x \in T : \A y \in T : x =< y
  BY <1>0, LeastExists
<1>2. \E x \in T : \A y \in T : x >= y
  <2>1. PICK D : D = {n - x : x \in T}
    OBVIOUS
  <2>2. \A x \in T : n - x \in Nat
    OBVIOUS
  <2>3. D \subseteq Nat /\ D # {}
    BY <2>1, <2>2
  <2>4. PICK d \in D : \A e \in D : d <= e
    BY <2>3, LeastExists
  <2>5. PICK x \in T : d = n - x
    BY <2>1
  <2>6. \A y \in T : n - x <= n - y
    BY <2>1, <2>4, <2>5
  <2>7. \A y \in T : x >= y
    BY <2>6
  <2> QED
    BY <2>7
<1>5. Min(T) \in T
  BY <1>1, Zenon DEF Min
<1>6. Max(T) \in T
  BY <1>2, Zenon DEF Max
<1> QED
  BY <1>5, <1>6

\* Trim cuts a text.
LEMMA TrimIsText ==
  ASSUME NEW S, NEW text \in Seq(S)
  PROVE  Trim(text) \in Seq(S)
<1>1. PICK kept : kept = {i \in DOMAIN text : text[i] \notin Ticks}
  OBVIOUS
<1>2. Trim(text) = IF kept = {} THEN << >> ELSE SubSeq(text, Min(kept), Max(kept))
  BY <1>1, Zenon DEF Trim, Ticks
<1>3. kept \subseteq 1..Len(text) /\ Len(text) \in Nat
  BY <1>1
<1>4. CASE kept # {}
  <2>1. Min(kept) \in 1..Len(text) /\ Max(kept) \in 1..Len(text)
    BY <1>3, <1>4, EndsExist
  <2>2. PICK a, b : a = Min(kept) /\ b = Max(kept)
    OBVIOUS
  <2>3. SubSeq(text, a, b) \in Seq(S)
    BY <2>1, <2>2
  <2> QED
    BY <1>2, <1>4, <2>2, <2>3
<1>5. CASE kept = {}
  BY <1>2, <1>5
<1> QED
  BY <1>4, <1>5

\* The marks put around a text.
LEMMA QuotedHasMark ==
  ASSUME NEW S, NEW text \in Seq(S)
  PROVE  Contains(<<Mark>> \o text \o <<Mark>>, Mark)
<1>1. PICK q : q = <<Mark>> \o text \o <<Mark>>
  OBVIOUS
<1>2. Len(text) \in Nat
  OBVIOUS
<1>3. Len(q) = Len(text) + 2 /\ q[1] = Mark
  BY <1>1
<1>4. 1 \in 1..Len(q)
  BY <1>2, <1>3
<1> QED
  BY <1>1, <1>3, <1>4 DEF Contains

\* formatDefault, form by form.
LEMMA FormattedAs ==
  ASSUME NEW d
  PROVE  /\ d.form = "none" => formatDefault(d) = NoDefault
         /\ d.form = "sequence" => formatDefault(d) = Argument("function", <<"autoincrement">>)
         /\ d.form = "literal" /\ Contains(d.text, Mark) =>
              formatDefault(d) = Argument("string", Trim(d.text))
         /\ d.form = "literal" /\ ~Contains(d.text, Mark) =>
              formatDefault(d) = Argument("bare", d.text)
         /\ d.form = "expression" /\ IsNow(d.text) =>
              formatDefault(d) = Argument("function", <<"now">>)
         /\ d.form = "expression" /\ ~IsNow(d.text) /\ IsNewId(d.text) =>
              formatDefault(d) = Argument("function", <<"uuid">>)
         /\ d.form = "expression" /\ ~IsNow(d.text) /\ ~IsNewId(d.text) =>
              formatDefault(d) = Argument("dbgenerated", d.text)
<1>1. ASSUME d.form = "none" PROVE formatDefault(d) = NoDefault
  <2>1. d.form # "sequence" /\ d.form # "literal" /\ d.form # "expression"
    BY <1>1
  <2> QED
    BY <1>1, <2>1, Zenon DEF formatDefault
<1>2. ASSUME d.form = "sequence"
      PROVE  formatDefault(d) = Argument("function", <<"autoincrement">>)
  <2>1. d.form # "none" /\ d.form # "literal" /\ d.form # "expression"
    BY <1>2
  <2> QED
    BY <1>2, <2>1, Zenon DEF formatDefault
<1>3. ASSUME d.form = "literal"
      PROVE  formatDefault(d) = IF Contains(d.text, Mark)
                                  THEN Argument("string", Trim(d.text)) ELSE Argument("bare", d.text)
  <2>1. d.form # "none" /\ d.form # "sequence" /\ d.form # "expression"
    BY <1>3
  <2> QED
    BY <1>3, <2>1, Zenon DEF formatDefault, Mark
<1>4. ASSUME d.form = "expression"
      PROVE  formatDefault(d) = CASE IsNow(d.text) -> Argument("function", <<"now">>)
                                  [] IsNewId(d.text) -> Argument("function", <<"uuid">>)
                                  [] OTHER -> Argument("dbgenerated", d.text)
  <2>1. d.form # "none" /\ d.form # "sequence" /\ d.form # "literal"
    BY <1>4
  <2> QED
    BY <1>4, <2>1, Zenon DEF formatDefault, IsNow, IsNewId
<1>5. IsNow(d.text) => ~IsNewId(d.text)
  <2>1. PICK a : a = d.text[1]
    OBVIOUS
  <2> QED
    BY <2>1, Zenon DEF IsNow, IsNewId, Calls
<1> QED
  BY <1>1, <1>2, <1>3, <1>4, <1>5

\* convertDefault, form by form.
LEMMA ConvertedAs ==
  ASSUME NEW d
  PROVE  /\ d.form = "none" => convertDefault(d) = NoDefault
         /\ d.form = "string" =>
              convertDefault(d) = Argument("literal", <<Mark>> \o d.text \o <<Mark>>)
         /\ d.form = "bare" /\ ~IsIdentifier(d.text) =>
              convertDefault(d) = Argument("literal", d.text)
         /\ d.form = "dbgenerated" => convertDefault(d) = Argument("expression", d.text)
         /\ d.form = "function" => convertDefault(d) = FunctionDefault[d.text[1]]
<1>1. ASSUME d.form = "none" PROVE convertDefault(d) = NoDefault
  <2>1. d.form # "string" /\ d.form # "bare" /\ d.form # "dbgenerated" /\ d.form # "function"
    BY <1>1
  <2> QED
    BY <1>1, <2>1, Zenon DEF convertDefault
<1>2. ASSUME d.form = "string"
      PROVE  convertDefault(d) = Argument("literal", <<Mark>> \o d.text \o <<Mark>>)
  <2>1. d.form # "none" /\ d.form # "bare" /\ d.form # "dbgenerated" /\ d.form # "function"
    BY <1>2
  <2> QED
    BY <1>2, <2>1, Zenon DEF convertDefault, Mark
<1>3. ASSUME d.form = "bare", ~IsIdentifier(d.text)
      PROVE  convertDefault(d) = Argument("literal", d.text)
  <2>1. d.form # "none" /\ d.form # "string" /\ d.form # "dbgenerated" /\ d.form # "function"
    BY <1>3
  <2> QED
    BY <1>3, <2>1, Zenon DEF convertDefault
<1>4. ASSUME d.form = "dbgenerated"
      PROVE  convertDefault(d) = Argument("expression", d.text)
  <2>1. d.form # "none" /\ d.form # "string" /\ d.form # "bare" /\ d.form # "function"
    BY <1>4
  <2> QED
    BY <1>4, <2>1, Zenon DEF convertDefault
<1>5. ASSUME d.form = "function"
      PROVE  convertDefault(d) = FunctionDefault[d.text[1]]
  <2>1. d.form # "none" /\ d.form # "string" /\ d.form # "bare" /\ d.form # "dbgenerated"
    BY <1>5
  <2> QED
    BY <1>5, <2>1, Zenon DEF convertDefault
<1> QED
  BY <1>1, <1>2, <1>3, <1>4, <1>5

\* What the converter makes of the functions the writer calls.
LEMMA FunctionsAre ==
  /\ FunctionDefault["autoincrement"] = Argument("sequence", << >>)
  /\ FunctionDefault["now"] = Argument("expression", NowCall)
  /\ FunctionDefault["uuid"] = Argument("expression", NewId)
<1>1. FunctionDefault = [autoincrement |-> Argument("sequence", << >>),
                         now |-> Argument("expression", NowCall),
                         uuid |-> Argument("expression", NewId)]
  BY Zenon DEF FunctionDefault, NowCall, NewId
<1> QED
  BY <1>1

\* ViewDefault, form by form.
LEMMA ViewedAs ==
  ASSUME NEW d
  PROVE  /\ Contains(d.text, Mark) /\ d.form = "literal" =>
              ViewDefault(d) = Argument("literal", <<Mark>>)
         /\ ~(Contains(d.text, Mark) /\ d.form = "literal") /\ d.text = Current =>
              ViewDefault(d) = Argument("expression", NowCall)
         /\ ~(Contains(d.text, Mark) /\ d.form = "literal") /\ d.text # Current => ViewDefault(d) = d
<1>1. ASSUME Contains(d.text, Mark), d.form = "literal"
      PROVE  ViewDefault(d) = Argument("literal", <<Mark>>)
  <2>1. d.text # Current
    <3>1. PICK i \in 1..Len(d.text) : d.text[i] = Mark
      BY <1>1 DEF Contains
    <3>2. PICK c : c = "CURRENT_TIMESTAMP"
      OBVIOUS
    <3>3. c # Mark
      BY <3>2, Zenon DEF Mark
    <3>4. Current = <<c>>
      BY <3>2 DEF Current
    <3> QED
      BY <3>1, <3>3, <3>4
  <2> QED
    BY <1>1, <2>1, Zenon DEF ViewDefault, Mark, Current
<1>2. ASSUME ~(Contains(d.text, Mark) /\ d.form = "literal"), d.text = Current
      PROVE  ViewDefault(d) = Argument("expression", NowCall)
  BY <1>2, Zenon DEF ViewDefault, NowCall, Current, Mark
<1>3. ASSUME ~(Contains(d.text, Mark) /\ d.form = "literal"), d.text # Current
      PROVE  ViewDefault(d) = d
  BY <1>3, Zenon DEF ViewDefault, Current, Mark
<1> QED
  BY <1>1, <1>2, <1>3

\* What Kept says of a function: the text is one the file gives back.
LEMMA KeptCall ==
  ASSUME NEW d, Kept(d), d.form = "expression", formatDefault(d).form = "function"
  PROVE  d.text \in {NowCall, Current, NewId}
<1>1. formatDefault(d).form # "bare"
  OBVIOUS
<1> QED
  BY <1>1, Zenon DEF Kept, NowCall, Current, NewId

\* The three expressions that keep their meaning as functions.
LEMMA CallsAre ==
  /\ IsNow(NowCall) /\ IsNow(Current) /\ ~IsNow(NewId) /\ IsNewId(NewId)
  /\ ~IsNewId(NowCall) /\ ~IsNewId(Current) /\ NowCall # Current /\ NewId # Current
<1>1. PICK n, c, u, p : n = "now" /\ c = "CURRENT_TIMESTAMP" /\ u = "gen_random_uuid" /\ p = "()"
  OBVIOUS
<1>2. n # c /\ n # u /\ c # u
  BY <1>1
<1>3. NowCall = <<n, p>> /\ Current = <<c>> /\ NewId = <<u, p>>
  BY <1>1, Zenon DEF NowCall, Current, NewId
<1>4. \A x : IsNow(x) <=> (Len(x) > 1 /\ x[1] = n /\ x[2] = p) \/ x[1] = c
  BY <1>1, Zenon DEF IsNow, Calls
<1>5. PICK v : v = "uuid_generate_v4"
  OBVIOUS
<1>6. \A x : IsNewId(x) <=> Len(x) > 1 /\ (x[1] = v \/ x[1] = u) /\ x[2] = p
  BY <1>1, <1>5, Zenon DEF IsNewId, Calls
<1>7. n # v /\ c # v
  BY <1>1, <1>5
<1> QED
  BY <1>2, <1>3, <1>4, <1>6, <1>7

\* Every legible default has the view of the default it comes back as.
LEMMA DefaultLeadsBack ==
  ASSUME NEW d, LegibleDefault(d)
  PROVE  ViewDefault(convertDefault(formatDefault(d))) = ViewDefault(d)
<1>0. \A f, x : /\ Argument(f, x).form = f /\ Argument(f, x).text = x
                /\ Argument(f, x) = [form |-> f, text |-> x]
  BY DEF Argument
<1>1. PICK w : w = formatDefault(d)
  OBVIOUS
<1>2. /\ d = [form |-> d.form, text |-> d.text] /\ d.text \in Seq(STRING)
      /\ d.form \in {"none", "sequence", "literal", "expression"}
      /\ d.form \in {"none", "sequence"} => d.text = << >>
  BY DEF LegibleDefault, Forms
<1>3. CASE d.form = "none"
  <2>1. w = NoDefault /\ w.form = "none"
    BY <1>1, <1>3, FormattedAs DEF NoDefault
  <2>2. convertDefault(w) = NoDefault
    BY <2>1, ConvertedAs
  <2>3. d = NoDefault
    BY <1>2, <1>3 DEF NoDefault
  <2> QED
    BY <1>1, <2>2, <2>3
<1>4. CASE d.form = "sequence"
  <2>1. w = Argument("function", <<"autoincrement">>)
    BY <1>1, <1>4, FormattedAs
  <2>2. w.form = "function" /\ w.text[1] = "autoincrement"
    BY <1>0, <2>1
  <2>3. convertDefault(w) = Argument("sequence", << >>)
    BY <2>2, ConvertedAs, FunctionsAre
  <2>4. d = Argument("sequence", << >>)
    BY <1>0, <1>2, <1>4
  <2> QED
    BY <1>1, <2>3, <2>4
<1>5. CASE d.form = "literal" /\ Contains(d.text, Mark)
  <2>1. PICK trimmed : trimmed = Trim(d.text)
    OBVIOUS
  <2>2. w = Argument("string", trimmed)
    BY <1>1, <1>5, <2>1, FormattedAs
  <2>3. w.form = "string" /\ w.text = trimmed
    BY <1>0, <2>2
  <2>4. PICK q : q = <<Mark>> \o trimmed \o <<Mark>>
    OBVIOUS
  <2>5. convertDefault(w) = Argument("literal", q)
    BY <2>3, <2>4, ConvertedAs
  <2>6. Contains(q, Mark)
    BY <1>2, <2>1, <2>4, TrimIsText, QuotedHasMark
  <2>7. ViewDefault(convertDefault(w)) = Argument("literal", <<Mark>>)
    BY <1>0, <2>5, <2>6, ViewedAs
  <2>8. ViewDefault(d) = Argument("literal", <<Mark>>)
    BY <1>5, ViewedAs
  <2> QED
    BY <1>1, <2>7, <2>8
<1>6. CASE d.form = "literal" /\ ~Contains(d.text, Mark)
  <2>1. w = Argument("bare", d.text)
    BY <1>1, <1>6, FormattedAs
  <2>2. w.form = "bare" /\ w.text = d.text
    BY <1>0, <2>1
  <2>3. ~IsIdentifier(d.text)
    BY <1>1, <2>2 DEF LegibleDefault, Kept
  <2>4. convertDefault(w) = Argument("literal", d.text)
    BY <2>2, <2>3, ConvertedAs
  <2>5. d = Argument("literal", d.text)
    BY <1>0, <1>2, <1>6
  <2> QED
    BY <1>1, <2>4, <2>5
<1>7. CASE d.form = "expression"
  <2>0. d = Argument("expression", d.text)
    BY <1>0, <1>2, <1>7
  <2>1. CASE IsNow(d.text)
    <3>1. w = Argument("function", <<"now">>)
      BY <1>1, <1>7, <2>1, FormattedAs
    <3>2. w.form = "function" /\ w.text[1] = "now"
      BY <1>0, <3>1
    <3>3. convertDefault(w) = Argument("expression", NowCall)
      BY <3>2, ConvertedAs, FunctionsAre
    <3>4. d.text \in {NowCall, Current}
      BY <1>1, <1>7, <2>1, <3>2, KeptCall, CallsAre DEF LegibleDefault
    <3>5. ViewDefault(convertDefault(w)) = Argument("expression", NowCall)
      <4>1. PICK x : x = Argument("expression", NowCall)
        OBVIOUS
      <4>2. x.form # "literal" /\ x.text # Current
        BY <1>0, <4>1, CallsAre
      <4>3. ViewDefault(x) = x
        BY <4>2, ViewedAs
      <4> QED
        BY <3>3, <4>1, <4>3
    <3>6. ViewDefault(d) = Argument("expression", NowCall)
      BY <1>7, <2>0, <3>4, ViewedAs
    <3> QED
      BY <1>1, <3>5, <3>6
  <2>2. CASE ~IsNow(d.text) /\ IsNewId(d.text)
    <3>1. w = Argument("function", <<"uuid">>)
      BY <1>1, <1>7, <2>2, FormattedAs
    <3>2. w.form = "function" /\ w.text[1] = "uuid"
      BY <1>0, <3>1
    <3>3. convertDefault(w) = Argument("expression", NewId)
      BY <3>2, ConvertedAs, FunctionsAre
    <3>4. d.text = NewId
      BY <1>1, <1>7, <2>2, <3>2, KeptCall, CallsAre DEF LegibleDefault
    <3> QED
      BY <1>1, <2>0, <3>3, <3>4
  <2>3. CASE ~IsNow(d.text) /\ ~IsNewId(d.text)
    <3>1. w = Argument("dbgenerated", d.text)
      BY <1>1, <1>7, <2>3, FormattedAs
    <3>2. w.form = "dbgenerated" /\ w.text = d.text
      BY <1>0, <3>1
    <3>3. convertDefault(w) = Argument("expression", d.text)
      BY <3>2, ConvertedAs
    <3> QED
      BY <1>1, <2>0, <3>3
  <2> QED
    BY <2>1, <2>2, <2>3
<1> QED
  BY <1>2, <1>3, <1>4, <1>5, <1>6, <1>7

\* A column leads back, as far as the file has words for it.
LEMMA ColumnLeadsBack ==
  ASSUME NEW s, Legible(s), NEW t \in DOMAIN s.tables, NEW x \in DOMAIN s.tables[t].cols
  PROVE  ViewColumn(convertField(writeColumn(s.tables[t], x))) = ViewColumn(s.tables[t].cols[x])
<1>1. PICK col : col = s.tables[t].cols[x]
  OBVIOUS
<1>2. LegibleColumn(col, DOMAIN s.enums)
  BY <1>1 DEF Legible, LegibleTable
<1>3. PICK a, b, f : /\ a = convertType(PrismaType(col.type))
                     /\ b = convertDefault(formatDefault(col.default))
                     /\ f = writeColumn(s.tables[t], x)
  OBVIOUS
<1>4. /\ f.type = PrismaType(col.type) /\ f.optional = col.nullable
      /\ f.default = formatDefault(col.default)
  BY <1>1, <1>3 DEF writeColumn
<1>5. convertField(f) = [type |-> a, nullable |-> col.nullable, default |-> b]
  BY <1>3, <1>4 DEF convertField
<1>6. ViewType(a) = ViewType(col.type) /\ ViewDefault(b) = ViewDefault(col.default)
  BY <1>2, <1>3, TypeLeadsBack, DefaultLeadsBack DEF LegibleColumn
<1>7. ASSUME NEW p, NEW n, NEW q, NEW c, c = [type |-> p, nullable |-> n, default |-> q]
      PROVE  ViewColumn(c) = [type |-> ViewType(p), nullable |-> n, default |-> ViewDefault(q)]
  <2>1. PICK v, w : v = ViewType(p) /\ w = ViewDefault(q)
    OBVIOUS
  <2>2. PICK half : half = [c EXCEPT !.type = v]
    OBVIOUS
  <2>3. half = [type |-> v, nullable |-> n, default |-> q]
    BY <1>7, <2>2
  <2>4. [half EXCEPT !.default = w] = [type |-> v, nullable |-> n, default |-> w]
    BY <2>3
  <2>5. [c EXCEPT !.type = v, !.default = w] = [[c EXCEPT !.type = v] EXCEPT !.default = w]
    OBVIOUS
  <2>6. c.type = p /\ c.default = q
    BY <1>7
  <2>7. ViewColumn(c) = [c EXCEPT !.type = ViewType(c.type), !.default = ViewDefault(c.default)]
    BY Zenon DEF ViewColumn
  <2>8. v = ViewType(c.type) /\ w = ViewDefault(c.default)
    BY <2>1, <2>6
  <2> QED
    BY <2>1, <2>2, <2>4, <2>5, <2>7, <2>8
<1>8. col = [type |-> col.type, nullable |-> col.nullable, default |-> col.default]
  BY <1>2 DEF LegibleColumn
<1>9. ViewColumn(convertField(f))
        = [type |-> ViewType(a), nullable |-> col.nullable, default |-> ViewDefault(b)]
  BY <1>5, <1>7
<1>10. ViewColumn(col)
         = [type |-> ViewType(col.type), nullable |-> col.nullable,
            default |-> ViewDefault(col.default)]
  BY <1>7, <1>8
<1> QED
  BY <1>1, <1>3, <1>6, <1>9, <1>10
-----------------------------------------------------------------------------
(***************************************************************************)
(* Tables: columns, keys and indexes of a block.                           *)
(***************************************************************************)
TableBack(s, t) == convertModel(Write(s), writeTable(s, t))

\* The columns.
LEMMA ColumnsLeadBack ==
  ASSUME NEW s, Legible(s), NEW t \in DOMAIN s.tables
  PROVE  /\ DOMAIN TableBack(s, t).cols = DOMAIN s.tables[t].cols
         /\ \A x \in DOMAIN s.tables[t].cols :
              ViewColumn(TableBack(s, t).cols[x]) = ViewColumn(s.tables[t].cols[x])
<1>1. PICK C : C = {writeColumn(s.tables[t], x) : x \in DOMAIN s.tables[t].cols}
  OBVIOUS
<1>2. \A x : writeColumn(s.tables[t], x).map = x
  BY DEF writeColumn
<1>3. {f.map : f \in C} = DOMAIN s.tables[t].cols
  BY <1>1, <1>2
<1>4. TableBack(s, t).cols = [c \in {f.map : f \in C} |-> convertField(CHOOSE f \in C : f.map = c)]
  <2>1. ScalarFields(Write(s), writeTable(s, t)) = C
    BY <1>1, ScalarFieldsAre
  <2> QED
    BY <2>1 DEF TableBack, convertModel
<1>5. ASSUME NEW x \in DOMAIN s.tables[t].cols
      PROVE  (CHOOSE f \in C : f.map = x) = writeColumn(s.tables[t], x)
  <2>1. writeColumn(s.tables[t], x) \in C /\ writeColumn(s.tables[t], x).map = x
    BY <1>1, <1>2
  <2>2. \A f \in C : f.map = x => f = writeColumn(s.tables[t], x)
    BY <1>1, <1>2
  <2> QED
    BY <2>1, <2>2
<1>6. \A x \in DOMAIN s.tables[t].cols :
        TableBack(s, t).cols[x] = convertField(writeColumn(s.tables[t], x))
  BY <1>3, <1>4, <1>5
<1>7. ASSUME NEW x \in DOMAIN s.tables[t].cols
      PROVE  ViewColumn(TableBack(s, t).cols[x]) = ViewColumn(s.tables[t].cols[x])
  <2>1. TableBack(s, t).cols[x] = convertField(writeColumn(s.tables[t], x))
    BY <1>6
  <2> QED
    BY <2>1, ColumnLeadsBack
<1> QED
  BY <1>3, <1>4, <1>7

\* A set of one column, and of none, as a list.
LEMMA ListOfOne ==
  ASSUME NEW x
  PROVE  SetToSeq({x}) = <<x>> /\ SetToSeq({}) = << >>
<1>1. Cardinality({x}) = 1 /\ Cardinality({}) = 0
  BY FS_Singleton, FS_EmptySet
<1>2. SetToSeq({x}) = <<x>>
  <2>1. SetToSeq({x}) = CHOOSE f \in [1..1 -> {x}] : IsInjective(f)
    BY <1>1, Zenon DEF SetToSeq
  <2>2. \A f \in [1..1 -> {x}] : f = <<x>>
    OBVIOUS
  <2>3. <<x>> \in [1..1 -> {x}] /\ IsInjective(<<x>>)
    BY DEF IsInjective
  <2> QED
    BY <2>1, <2>2, <2>3
<1>3. SetToSeq({}) = << >>
  <2>1. SetToSeq({}) = CHOOSE f \in [1..0 -> {}] : IsInjective(f)
    BY <1>1, Zenon DEF SetToSeq
  <2>2. \A f \in [1..0 -> {}] : f = << >>
    OBVIOUS
  <2>3. << >> \in [1..0 -> {}] /\ IsInjective(<< >>)
    BY DEF IsInjective
  <2> QED
    BY <2>1, <2>2, <2>3
<1> QED
  BY <1>2, <1>3

\* A number is zero, one, or more.
LEMMA Counted ==
  ASSUME NEW n \in Nat
  PROVE  n = 0 \/ n = 1 \/ n > 1
OBVIOUS

\* A list of length one is its element, and every other is empty or longer.
LEMMA SingleIs ==
  ASSUME NEW S, NEW l \in Seq(S)
  PROVE  /\ Len(l) = 1 => l[1] \in S /\ l = <<l[1]>>
         /\ l = << >> \/ Len(l) = 1 \/ Len(l) > 1
<1>1. Len(l) = 1 => l[1] \in S /\ l = <<l[1]>>
  OBVIOUS
<1>2. Len(l) \in Nat
  OBVIOUS
<1>3. Len(l) = 0 => l = << >>
  BY EmptySeq
<1>4. Len(l) = 0 \/ Len(l) = 1 \/ Len(l) > 1
  BY <1>2, Counted, Zenon
<1> QED
  BY <1>1, <1>3, <1>4

\* The primary key: of one column it is on its field, of more it is on the block.
LEMMA KeyLeadsBack ==
  ASSUME NEW s, Legible(s), NEW t \in DOMAIN s.tables
  PROVE  TableBack(s, t).pk = s.tables[t].pk
<1>1. PICK C, pk : /\ C = {writeColumn(s.tables[t], x) : x \in DOMAIN s.tables[t].cols}
                   /\ pk = s.tables[t].pk
  OBVIOUS
<1>2. pk \in Seq(DOMAIN s.tables[t].cols)
  BY <1>1 DEF Legible, LegibleTable
<1>3. PICK i, composed, ids : /\ i = writeTable(s, t).id
                              /\ composed = mapFieldNames(Write(s), writeTable(s, t), i)
                              /\ ids = {f.map : f \in {g \in C : g.id}}
  OBVIOUS
<1>4. TableBack(s, t).pk = IF composed # << >> THEN composed ELSE SetToSeq(ids)
  <2>1. ScalarFields(Write(s), writeTable(s, t)) = C
    BY <1>1, ScalarFieldsAre
  <2> QED
    BY <1>1, <1>3, <2>1 DEF TableBack, convertModel
<1>5. i = IF Len(pk) > 1 THEN Fields(pk) ELSE << >>
  BY <1>1, <1>3 DEF writeTable
<1>6. \A x : writeColumn(s.tables[t], x).map = x /\ writeColumn(s.tables[t], x).id = (pk = <<x>>)
  BY <1>1 DEF writeColumn
<1>7. CASE Len(pk) > 1
  <2>1. composed = pk
    BY <1>2, <1>3, <1>5, <1>7, FieldsLeadBack
  <2>2. pk # << >>
    BY <1>7
  <2> QED
    BY <1>1, <1>4, <2>1, <2>2
<1>8. CASE ~(Len(pk) > 1)
  <2>1. i = << >>
    BY <1>5, <1>8
  <2>2. composed = << >>
    BY <1>3, <2>1 DEF mapFieldNames
  <2>3. CASE pk = << >>
    <3>1. \A x : pk # <<x>>
      BY <2>3
    <3>2. ids = {}
      BY <1>1, <1>3, <1>6, <3>1
    <3> QED
      BY <1>1, <1>4, <2>2, <2>3, <3>2, ListOfOne
  <2>4. CASE pk # << >>
    <3>1. Len(pk) = 1 /\ pk[1] \in DOMAIN s.tables[t].cols /\ pk = <<pk[1]>>
      BY <1>2, <1>8, <2>4, SingleIs
    <3>2. PICK x \in DOMAIN s.tables[t].cols : pk = <<x>>
      BY <3>1
    <3>3. \A y : pk = <<y>> <=> y = x
      BY <3>2
    <3>4. ids = {x}
      <4>1. writeColumn(s.tables[t], x) \in C
        BY <1>1
      <4>2. \A f \in C : f.id => f.map = x
        <5>1. \A y \in DOMAIN s.tables[t].cols :
                writeColumn(s.tables[t], y).id => writeColumn(s.tables[t], y).map = x
          BY <1>6, <3>3
        <5> QED
          BY <1>1, <5>1
      <4>3. writeColumn(s.tables[t], x).id /\ writeColumn(s.tables[t], x).map = x
        BY <1>6, <3>2
      <4> QED
        BY <1>3, <4>1, <4>2, <4>3
    <3> QED
      BY <1>1, <1>4, <2>2, <3>2, <3>4, ListOfOne
  <2> QED
    BY <2>3, <2>4
<1> QED
  BY <1>7, <1>8

\* The unique constraints, and the unique indexes over one column.
LEMMA UniquesLeadBack ==
  ASSUME NEW s, Legible(s), NEW t \in DOMAIN s.tables
  PROVE  TableBack(s, t).uniques
           = s.tables[t].uniques
               \cup {l \in {i.cols : i \in {j \in s.tables[t].indexes : j.unique}} : Len(l) = 1}
<1>1. PICK C, T, U, I :
        /\ C = {writeColumn(s.tables[t], x) : x \in DOMAIN s.tables[t].cols}
        /\ T = s.tables[t] /\ U = T.uniques /\ I = {i.cols : i \in {j \in T.indexes : j.unique}}
  OBVIOUS
<1>2. U \subseteq Lists(T.cols) /\ I \subseteq Seq(DOMAIN T.cols)
  <2>1. /\ U \subseteq Lists(T.cols)
        /\ T.indexes \subseteq [cols : Seq(DOMAIN T.cols), unique : BOOLEAN]
    BY <1>1 DEF Legible, LegibleTable
  <2> QED
    BY <1>1, <2>1
<1>3. PICK D, E : /\ D = {mapFieldNames(Write(s), writeTable(s, t), l) :
                            l \in writeTable(s, t).uniques}
                  /\ E = {<<f.map>> : f \in {g \in C : g.unique}}
  OBVIOUS
<1>4. TableBack(s, t).uniques = D \cup E
  <2>1. ScalarFields(Write(s), writeTable(s, t)) = C
    BY <1>1, ScalarFieldsAre
  <2> QED
    BY <1>1, <1>3, <2>1 DEF TableBack, convertModel
<1>5. D = {v \in U : Len(v) > 1}
  <2>1. writeTable(s, t).uniques = {Fields(u) : u \in {v \in U : Len(v) > 1}}
    BY <1>1 DEF writeTable
  <2>2. \A v \in U : mapFieldNames(Write(s), writeTable(s, t), Fields(v)) = v
    BY <1>1, <1>2, FieldsLeadBack DEF Lists
  <2> QED
    BY <1>3, <2>1, <2>2
<1>6. E = {l \in U \cup I : Len(l) = 1}
  <2>1. \A x : /\ writeColumn(T, x).map = x
               /\ writeColumn(T, x).unique = isUniqueColumn(x, T)
    BY DEF writeColumn
  <2>2. \A x : isUniqueColumn(x, T) <=> \E l \in U \cup I : Len(l) = 1 /\ l[1] = x
    BY <1>1 DEF isUniqueColumn, SingleColumn
  <2>3. \A l \in U \cup I : Len(l) = 1 => l = <<l[1]>> /\ l[1] \in DOMAIN T.cols
    BY <1>2 DEF Lists
  <2>4. ASSUME NEW l \in E PROVE l \in U \cup I /\ Len(l) = 1
    <3>1. PICK x \in DOMAIN T.cols : l = <<x>> /\ isUniqueColumn(x, T)
      BY <1>1, <1>3, <2>1
    <3>2. PICK k \in U \cup I : Len(k) = 1 /\ k[1] = x
      BY <2>2, <3>1
    <3>3. k = l
      BY <2>3, <3>1, <3>2
    <3> QED
      BY <3>2, <3>3
  <2>5. ASSUME NEW l \in U \cup I, Len(l) = 1 PROVE l \in E
    <3>1. PICK x : x = l[1]
      OBVIOUS
    <3>2. l = <<x>> /\ x \in DOMAIN T.cols
      BY <2>3, <2>5, <3>1
    <3>3. isUniqueColumn(x, T)
      BY <2>2, <2>5, <3>1
    <3>4. writeColumn(T, x) \in C
      BY <1>1, <3>2
    <3> QED
      BY <1>3, <2>1, <3>2, <3>3, <3>4
  <2> QED
    BY <2>4, <2>5
<1>7. \A l \in U : Len(l) = 1 \/ Len(l) > 1
  <2>1. ASSUME NEW l \in U PROVE l \in Seq(DOMAIN T.cols) /\ l # << >>
    BY <1>2 DEF Lists
  <2> QED
    BY <2>1, SingleIs, Zenon
<1> QED
  BY <1>1, <1>4, <1>5, <1>6, <1>7

\* The other indexes.
LEMMA IndexesLeadBack ==
  ASSUME NEW s, Legible(s), NEW t \in DOMAIN s.tables
  PROVE  TableBack(s, t).indexes = {i \in s.tables[t].indexes : ~i.unique}
<1>1. PICK J : J = {i \in s.tables[t].indexes : ~i.unique}
  OBVIOUS
<1>2. s.tables[t].indexes \subseteq [cols : Seq(DOMAIN s.tables[t].cols), unique : BOOLEAN]
  BY DEF Legible, LegibleTable
<1>3. \A i \in J : /\ i = [cols |-> i.cols, unique |-> FALSE]
                   /\ i.cols \in Seq(DOMAIN s.tables[t].cols)
  BY <1>1, <1>2
<1>4. writeTable(s, t).indexes = {Fields(i.cols) : i \in J}
  BY <1>1 DEF writeTable
<1>5. PICK X : X = {[cols |-> mapFieldNames(Write(s), writeTable(s, t), l), unique |-> FALSE] :
                      l \in writeTable(s, t).indexes}
  OBVIOUS
<1>6. TableBack(s, t).indexes = X
  BY <1>5 DEF TableBack, convertModel
<1>7. \A i \in J : mapFieldNames(Write(s), writeTable(s, t), Fields(i.cols)) = i.cols
  BY <1>3, FieldsLeadBack
<1>8. ASSUME NEW x \in X PROVE x \in J
  <2>1. PICK i \in J : x = [cols |-> mapFieldNames(Write(s), writeTable(s, t), Fields(i.cols)),
                            unique |-> FALSE]
    BY <1>4, <1>5
  <2> QED
    BY <1>3, <1>7, <2>1
<1>9. ASSUME NEW i \in J PROVE i \in X
  <2>1. PICK l : l = Fields(i.cols)
    OBVIOUS
  <2>2. l \in writeTable(s, t).indexes
    BY <1>4, <2>1
  <2>3. mapFieldNames(Write(s), writeTable(s, t), l) = i.cols
    BY <1>7, <2>1
  <2>4. [cols |-> mapFieldNames(Write(s), writeTable(s, t), l), unique |-> FALSE] \in X
    BY <1>5, <2>2
  <2> QED
    BY <1>3, <2>3, <2>4
<1> QED
  BY <1>1, <1>6, <1>8, <1>9
-----------------------------------------------------------------------------
(***************************************************************************)
(* Foreign keys: the active side of a relation is its key.                 *)
(***************************************************************************)
\* The two sides, and what tells them apart.
LEMMA ActiveAre ==
  ASSUME NEW s, Legible(s), NEW t \in DOMAIN s.tables
  PROVE  ActiveFields(Write(s), writeTable(s, t))
           = {forwardRelationField(s, t, fk) : fk \in s.tables[t].fks}
<1>1. PICK C, P, A : /\ C = {writeColumn(s.tables[t], x) : x \in DOMAIN s.tables[t].cols}
                     /\ P = {r.field : r \in relationPlan(s, t)}
                     /\ A = ActiveFields(Write(s), writeTable(s, t))
  OBVIOUS
<1>2. writeTable(s, t).fields = C \cup P
  BY <1>1 DEF writeTable
<1>3. \A f \in C : ~isRelationField(Write(s), f)
  BY <1>1, ColumnIsScalar
<1>4. \A f \in P : isRelationField(Write(s), f)
  BY <1>1, SideIsRelation
<1>5. A = {f \in P : ~f.type.list /\ f.relation.fields # << >>}
  <2>1. A = {f \in C \cup P : isRelationField(Write(s), f) /\ ~f.type.list
                                /\ f.relation.fields # << >>}
    BY <1>1, <1>2 DEF ActiveFields
  <2> QED
    BY <1>3, <1>4, <2>1
<1>6. ASSUME NEW fk \in s.tables[t].fks
      PROVE  forwardRelationField(s, t, fk) \in A
  <2>1. PICK f : f = forwardRelationField(s, t, fk)
    OBVIOUS
  <2>2. f.type.list = FALSE /\ f.relation.fields = Fields(fk.cols)
    BY <2>1 DEF forwardRelationField, Field
  <2>3. fk.refTable \in DOMAIN s.tables /\ fk.cols \in Lists(s.tables[t].cols)
    BY DEF Legible, LegibleTable, LegibleKey
  <2>4. f.relation.fields # << >>
    <3>1. fk.cols \in Seq(DOMAIN s.tables[t].cols) /\ fk.cols # << >>
      BY <2>3 DEF Lists
    <3>2. PICK l : l = fk.cols
      OBVIOUS
    <3>3. 1 \in DOMAIN l
      BY <3>1, <3>2
    <3>4. DOMAIN Fields(l) = DOMAIN l
      BY DEF Fields
    <3>5. DOMAIN << >> = {}
      OBVIOUS
    <3> QED
      BY <2>2, <3>2, <3>3, <3>4, <3>5
  <2>5. f \in P
    <3>1. PICK r : r = [key |-> fk, of |-> t, field |-> f]
      OBVIOUS
    <3>2. r \in {[key |-> k, of |-> t, field |-> forwardRelationField(s, t, k)] :
                   k \in {k \in s.tables[t].fks : k.refTable \in DOMAIN s.tables}}
      BY <2>1, <2>3, <3>1
    <3>3. r \in relationPlan(s, t)
      BY <3>2, Zenon DEF relationPlan
    <3>4. r.field = f
      BY <3>1
    <3> QED
      BY <1>1, <3>3, <3>4
  <2> QED
    BY <1>5, <2>1, <2>2, <2>4, <2>5
<1>7. ASSUME NEW f \in A
      PROVE  \E fk \in s.tables[t].fks : f = forwardRelationField(s, t, fk)
  <2>1. PICK r \in relationPlan(s, t) : f = r.field
    BY <1>1, <1>5
  <2>2. PICK u : IsSide(s, t, f, u)
    BY <2>1, SidesAre
  <2>3. \A w, fk : backRelationField(s, w, fk).relation.fields = << >>
    BY DEF backRelationField, Field, NoRelation
  <2>4. f.relation.fields # << >>
    BY <1>5
  <2> QED
    BY <2>2, <2>3, <2>4 DEF IsSide
<1> QED
  BY <1>1, <1>6, <1>7

\* The forward side of a key leads back to the key.
LEMMA KeyOfField ==
  ASSUME NEW s, Legible(s), NEW t \in DOMAIN s.tables, NEW fk \in s.tables[t].fks
  PROVE  buildForeignKeyFromRelation(Write(s), writeTable(s, t), forwardRelationField(s, t, fk)) = fk
<1>1. PICK f, cols, refCols, u :
        /\ f = forwardRelationField(s, t, fk)
        /\ cols = fk.cols /\ refCols = fk.refCols /\ u = fk.refTable
  OBVIOUS
<1>2. /\ f.type.base = TransformModelName(u) /\ f.relation.fields = Fields(cols)
      /\ f.relation.references = Fields(refCols)
      /\ f.relation.onDelete = fk.onDelete /\ f.relation.onUpdate = fk.onUpdate
  BY <1>1 DEF forwardRelationField, Field
<1>3. /\ fk = [cols |-> cols, refTable |-> u, refCols |-> refCols,
               onDelete |-> fk.onDelete, onUpdate |-> fk.onUpdate]
      /\ cols \in Seq(DOMAIN s.tables[t].cols)
      /\ u \in DOMAIN s.tables /\ refCols \in Seq(DOMAIN s.tables[u].cols)
      /\ fk.onDelete # "" /\ fk.onUpdate # ""
  <2>1. LegibleKey(s, t, fk)
    BY DEF Legible, LegibleTable
  <2>2. /\ fk = [cols |-> fk.cols, refTable |-> fk.refTable, refCols |-> fk.refCols,
                 onDelete |-> fk.onDelete, onUpdate |-> fk.onUpdate]
        /\ fk.cols \in Seq(DOMAIN s.tables[t].cols)
        /\ fk.refTable \in DOMAIN s.tables /\ fk.refCols \in Seq(DOMAIN s.tables[fk.refTable].cols)
        /\ fk.onDelete # "" /\ fk.onUpdate # ""
    BY <2>1, Zenon DEF LegibleKey, Lists
  <2> QED
    BY <1>1, <2>2
<1>4. mapFieldNames(Write(s), writeTable(s, t), f.relation.fields) = cols
  <2>1. mapFieldNames(Write(s), writeTable(s, t), Fields(cols)) = cols
    BY <1>3, FieldsLeadBack
  <2> QED
    BY <1>2, <2>1
<1>5. PICK w : w = writeTable(s, u)
  OBVIOUS
<1>6. /\ w \in Write(s).models /\ w.map = u /\ w.name = TransformModelName(u)
      /\ ModelNamed(Write(s), TransformModelName(u)) = w
  <2>1. w.name = TransformModelName(u)
    BY <1>5 DEF writeTable
  <2> QED
    BY <1>3, <1>5, <2>1, BlocksAre
<1>7. RefTable(Write(s), f.type.base) = u
  BY <1>2, <1>6 DEF RefTable
<1>8. PICK g : g = f.relation.references
  OBVIOUS
<1>9. \A i \in DOMAIN g : RefColumn(Write(s), f.type.base, g[i]) = ColumnOf(Write(s), w, g[i])
  <2>1. g = Fields(refCols)
    BY <1>2, <1>8
  <2>2. ToSet(g) \subseteq Scalars(Write(s), w)
    BY <1>3, <1>5, <2>1, FieldsLeadBack
  <2>3. \A i \in DOMAIN g : g[i] \in Scalars(Write(s), w)
    BY <2>2 DEF ToSet
  <2> QED
    BY <1>2, <1>6, <2>3 DEF RefColumn
<1>10. [i \in DOMAIN g |-> RefColumn(Write(s), f.type.base, g[i])] = refCols
  <2>1. mapFieldNames(Write(s), w, g) = refCols
    <3>1. mapFieldNames(Write(s), writeTable(s, u), Fields(refCols)) = refCols
      BY <1>3, FieldsLeadBack
    <3> QED
      BY <1>2, <1>5, <1>8, <3>1
  <2>2. mapFieldNames(Write(s), w, g) = [i \in DOMAIN g |-> ColumnOf(Write(s), w, g[i])]
    BY DEF mapFieldNames
  <2> QED
    BY <1>9, <2>1, <2>2
<1>11. /\ parseReferentialAction(f.relation.onDelete) = fk.onDelete
       /\ parseReferentialAction(f.relation.onUpdate) = fk.onUpdate
  BY <1>2, <1>3 DEF parseReferentialAction
<1>12. PICK refs : refs = [i \in DOMAIN g |-> RefColumn(Write(s), f.type.base, g[i])]
  OBVIOUS
<1>13. buildForeignKeyFromRelation(Write(s), writeTable(s, t), f)
         = [cols |-> mapFieldNames(Write(s), writeTable(s, t), f.relation.fields),
            refTable |-> RefTable(Write(s), f.type.base), refCols |-> refs,
            onDelete |-> parseReferentialAction(f.relation.onDelete),
            onUpdate |-> parseReferentialAction(f.relation.onUpdate)]
  BY <1>8, <1>12, Zenon DEF buildForeignKeyFromRelation
<1>14. buildForeignKeyFromRelation(Write(s), writeTable(s, t), f)
         = [cols |-> cols, refTable |-> u, refCols |-> refCols,
            onDelete |-> fk.onDelete, onUpdate |-> fk.onUpdate]
  BY <1>4, <1>7, <1>10, <1>11, <1>12, <1>13
<1> QED
  BY <1>1, <1>3, <1>14

\* The foreign keys.
LEMMA KeysLeadBack ==
  ASSUME NEW s, Legible(s), NEW t \in DOMAIN s.tables
  PROVE  TableBack(s, t).fks = s.tables[t].fks
<1>1. PICK A : A = ActiveFields(Write(s), writeTable(s, t))
  OBVIOUS
<1>2. TableBack(s, t).fks = {buildForeignKeyFromRelation(Write(s), writeTable(s, t), f) : f \in A}
  BY <1>1 DEF TableBack, convertModel
<1>3. A = {forwardRelationField(s, t, fk) : fk \in s.tables[t].fks}
  BY <1>1, ActiveAre
<1>4. \A fk \in s.tables[t].fks :
        buildForeignKeyFromRelation(Write(s), writeTable(s, t), forwardRelationField(s, t, fk)) = fk
  BY KeyOfField
<1> QED
  BY <1>2, <1>3, <1>4

\* The block of a table leads back to the table.
LEMMA TableLeadsBack ==
  ASSUME NEW s, Legible(s), NEW t \in DOMAIN s.tables
  PROVE  ViewTable(TableBack(s, t)) = ViewTable(s.tables[t])
<1>1. PICK b, o : b = TableBack(s, t) /\ o = s.tables[t]
  OBVIOUS
<1>2. [c \in DOMAIN b.cols |-> ViewColumn(b.cols[c])]
        = [c \in DOMAIN o.cols |-> ViewColumn(o.cols[c])]
  BY <1>1, ColumnsLeadBack
<1>3. b.pk = o.pk /\ b.fks = o.fks
  BY <1>1, KeyLeadsBack, KeysLeadBack
<1>4. PICK L : L = o.uniques \cup {l \in {i.cols : i \in {j \in o.indexes : j.unique}} : Len(l) = 1}
  OBVIOUS
<1>5. b.uniques = L /\ b.indexes = {i \in o.indexes : ~i.unique}
  BY <1>1, <1>4, UniquesLeadBack, IndexesLeadBack
<1>6. {j \in b.indexes : j.unique} = {} /\ {i \in b.indexes : ~i.unique} = b.indexes
  BY <1>5
<1>7. b.uniques \cup {l \in {i.cols : i \in {j \in b.indexes : j.unique}} : Len(l) = 1} = L
  BY <1>5, <1>6
<1>8. ViewTable(b) = [cols |-> [c \in DOMAIN b.cols |-> ViewColumn(b.cols[c])], pk |-> b.pk,
                      uniques |-> L, indexes |-> b.indexes, fks |-> b.fks]
  BY <1>6, <1>7 DEF ViewTable
<1>9. ViewTable(o) = [cols |-> [c \in DOMAIN o.cols |-> ViewColumn(o.cols[c])], pk |-> o.pk,
                      uniques |-> L, indexes |-> b.indexes, fks |-> o.fks]
  BY <1>4, <1>5 DEF ViewTable
<1> QED
  BY <1>1, <1>2, <1>3, <1>8, <1>9

\* So the whole file leads back to the schema it was written for.
LEMMA FileLeadsBack ==
  ASSUME NEW s, Legible(s), NEW got, got = Converted(Write(s))
  PROVE  [got EXCEPT !.tables = [t \in DOMAIN got.tables |-> ViewTable(got.tables[t])]] = View(s)
<1>1. /\ EnumNames(Write(s)) = {TransformModelName(e) : e \in DOMAIN s.enums}
      /\ {m.map : m \in Write(s).models} = DOMAIN s.tables
      /\ \A t \in DOMAIN s.tables : (CHOOSE m \in Write(s).models : m.map = t) = writeTable(s, t)
      /\ \A e \in DOMAIN s.enums :
           (CHOOSE b \in Write(s).enums : b.name = TransformModelName(e)).labels = s.enums[e]
  BY BlocksAre
<1>2. PICK T, E :
        /\ T = [t \in DOMAIN s.tables |-> TableBack(s, t)]
        /\ E = [n \in {TransformModelName(e) : e \in DOMAIN s.enums} |->
                  s.enums[CHOOSE e \in DOMAIN s.enums : TransformModelName(e) = n]]
  OBVIOUS
<1>3. got.tables = T
  <2>1. got.tables = [t \in {m.map : m \in Write(s).models} |->
                        convertModel(Write(s), CHOOSE m \in Write(s).models : m.map = t)]
    BY DEF Converted
  <2> QED
    BY <1>1, <1>2, <2>1 DEF TableBack
<1>4. got.enums = E
  <2>1. got.enums = [n \in EnumNames(Write(s)) |->
                       (CHOOSE e \in Write(s).enums : e.name = n).labels]
    BY DEF Converted
  <2>2. ASSUME NEW e \in DOMAIN s.enums
        PROVE  (CHOOSE d \in DOMAIN s.enums : TransformModelName(d) = TransformModelName(e)) = e
    BY DEF Legible, LegibleNames
  <2> QED
    BY <1>1, <1>2, <2>1, <2>2
<1>5. got = [tables |-> T, enums |-> E]
  BY <1>3, <1>4 DEF Converted
<1>6. PICK V : V = [t \in DOMAIN s.tables |-> ViewTable(s.tables[t])]
  OBVIOUS
<1>7. [t \in DOMAIN got.tables |-> ViewTable(got.tables[t])] = V
  BY <1>2, <1>3, <1>6, TableLeadsBack
<1>8. [got EXCEPT !.tables = V] = [tables |-> V, enums |-> E]
  BY <1>5
<1>9. View(s) = [tables |-> V, enums |-> E]
  BY <1>2, <1>6, Zenon DEF View
<1> QED
  BY <1>7, <1>8, <1>9
-----------------------------------------------------------------------------
(***************************************************************************)
(* What was written parses, and converts.                                  *)
(***************************************************************************)
\* The empty list has no element.
LEMMA NothingListed == ToSet(<< >>) = {}
BY DEF ToSet

\* A field without a relation lists nothing.
LEMMA NothingRelated ==
  /\ NoRelation.fields = << >> /\ NoRelation.references = << >>
  /\ NoRelation.fields \o NoRelation.references = << >>
<1>1. NoRelation.fields = << >> /\ NoRelation.references = << >>
  BY DEF NoRelation
<1>2. \A S : << >> \in Seq(S)
  OBVIOUS
<1>3. \A e : e = << >> => e \o << >> = e
  BY <1>2, ConcatEmptySeq
<1>4. NoRelation.fields \o NoRelation.references = << >>
  BY <1>1, <1>3
<1> QED
  BY <1>1, <1>4

\* The keys and indexes of a legible table are lists of its columns.
LEMMA KeysAreColumns ==
  ASSUME NEW s, Legible(s), NEW t \in DOMAIN s.tables
  PROVE  /\ s.tables[t].pk \in Seq(DOMAIN s.tables[t].cols)
         /\ \A u \in s.tables[t].uniques : u \in Seq(DOMAIN s.tables[t].cols)
         /\ \A i \in s.tables[t].indexes : i.cols \in Seq(DOMAIN s.tables[t].cols)
         /\ \A fk \in s.tables[t].fks :
              /\ LegibleKey(s, t, fk) /\ fk.refTable \in DOMAIN s.tables
              /\ fk.cols \in Seq(DOMAIN s.tables[t].cols)
              /\ fk.refCols \in Seq(DOMAIN s.tables[fk.refTable].cols)
<1>1. LegibleTable(s, t)
  BY DEF Legible
<1>2. \A fk \in s.tables[t].fks : LegibleKey(s, t, fk)
  BY <1>1 DEF LegibleTable
<1>3. \A fk \in s.tables[t].fks :
        /\ fk.refTable \in DOMAIN s.tables /\ fk.cols \in Seq(DOMAIN s.tables[t].cols)
        /\ fk.refCols \in Seq(DOMAIN s.tables[fk.refTable].cols)
  BY <1>2, Zenon DEF LegibleKey, Lists
<1>4. /\ s.tables[t].pk \in Seq(DOMAIN s.tables[t].cols)
      /\ s.tables[t].uniques \subseteq Lists(s.tables[t].cols)
      /\ s.tables[t].indexes \subseteq [cols : Seq(DOMAIN s.tables[t].cols), unique : BOOLEAN]
  BY <1>1 DEF LegibleTable
<1>5. \A u \in s.tables[t].uniques : u \in Seq(DOMAIN s.tables[t].cols)
  BY <1>4 DEF Lists
<1>6. \A i \in s.tables[t].indexes : i.cols \in Seq(DOMAIN s.tables[t].cols)
  BY <1>4
<1> QED
  BY <1>2, <1>3, <1>4, <1>5, <1>6

\* The lists of field names in a block are all of this shape.
IsListOf(s, t, list) ==
  \/ list = << >>
  \/ \E l \in Seq(DOMAIN s.tables[t].cols) : list = Fields(l)

\* The lists of names in a block are empty, or the fields of columns.
LEMMA ListsAre ==
  ASSUME NEW s, Legible(s), NEW t \in DOMAIN s.tables
  PROVE  /\ IsListOf(s, t, writeTable(s, t).id)
         /\ \A l \in writeTable(s, t).uniques \cup writeTable(s, t).indexes : IsListOf(s, t, l)
         /\ \A f \in ActiveFields(Write(s), writeTable(s, t)) : IsListOf(s, t, f.relation.fields)
<1>1. PICK T : T = s.tables[t]
  OBVIOUS
<1>2. /\ T.pk \in Seq(DOMAIN T.cols) /\ (\A u \in T.uniques : u \in Seq(DOMAIN T.cols))
      /\ (\A i \in T.indexes : i.cols \in Seq(DOMAIN T.cols))
      /\ (\A fk \in T.fks : fk.cols \in Seq(DOMAIN T.cols))
  BY <1>1, KeysAreColumns
<1>3. /\ writeTable(s, t).id = IF Len(T.pk) > 1 THEN Fields(T.pk) ELSE << >>
      /\ writeTable(s, t).uniques = {Fields(u) : u \in {v \in T.uniques : Len(v) > 1}}
      /\ writeTable(s, t).indexes = {Fields(i.cols) : i \in {j \in T.indexes : ~j.unique}}
  BY <1>1 DEF writeTable
<1>4. IsListOf(s, t, writeTable(s, t).id)
  BY <1>1, <1>2, <1>3 DEF IsListOf
<1>5. ASSUME NEW l \in writeTable(s, t).uniques PROVE IsListOf(s, t, l)
  BY <1>1, <1>2, <1>3 DEF IsListOf
<1>6. ASSUME NEW l \in writeTable(s, t).indexes PROVE IsListOf(s, t, l)
  BY <1>1, <1>2, <1>3 DEF IsListOf
<1>7. ASSUME NEW f \in ActiveFields(Write(s), writeTable(s, t))
      PROVE  IsListOf(s, t, f.relation.fields)
  <2>1. PICK fk \in T.fks : f = forwardRelationField(s, t, fk)
    BY <1>1, ActiveAre
  <2>2. f.relation.fields = Fields(fk.cols)
    BY <2>1 DEF forwardRelationField, Field
  <2> QED
    BY <1>1, <1>2, <2>2 DEF IsListOf
<1> QED
  BY <1>4, <1>5, <1>6, <1>7

\* Such lists hold scalar fields, whose names are identifiers.
LEMMA ListsFit ==
  ASSUME NEW s, Legible(s), NEW t \in DOMAIN s.tables, NEW list, IsListOf(s, t, list)
  PROVE  /\ ToSet(list) \subseteq Scalars(Write(s), writeTable(s, t))
         /\ \A n \in ToSet(list) : IsIdentifier(n)
<1>1. CASE list = << >>
  BY <1>1, NothingListed
<1>2. CASE \E l \in Seq(DOMAIN s.tables[t].cols) : list = Fields(l)
  <2>1. PICK l \in Seq(DOMAIN s.tables[t].cols) : list = Fields(l)
    BY <1>2
  <2>2. /\ ToSet(Fields(l)) \subseteq Scalars(Write(s), writeTable(s, t))
        /\ \A n \in ToSet(Fields(l)) : IsIdentifier(n)
    BY FieldsLeadBack
  <2> QED
    BY <2>1, <2>2
<1> QED
  BY <1>1, <1>2 DEF IsListOf

\* The converter reports no error for a legible file.
LEMMA FileConverts ==
  ASSUME NEW s, Legible(s)
  PROVE  Converts(Write(s))
<1>1. ASSUME NEW m \in Write(s).models PROVE ModelConverts(Write(s), m)
  <2>1. PICK t \in DOMAIN s.tables : m = writeTable(s, t)
    BY DEF Write
  <2>2. ASSUME NEW list \in {m.id} \cup m.uniques \cup m.indexes
                             \cup {f.relation.fields : f \in ActiveFields(Write(s), m)}
        PROVE  ToSet(list) \subseteq Scalars(Write(s), m)
    <3>1. IsListOf(s, t, list)
      BY <2>1, ListsAre
    <3> QED
      BY <2>1, <3>1, ListsFit
  <2> QED
    BY <2>2 DEF ModelConverts
<1>2. PICK got : got = Converted(Write(s))
  OBVIOUS
<1>3. got.tables = [t \in DOMAIN s.tables |-> TableBack(s, t)]
  <2>1. got.tables = [t \in {m.map : m \in Write(s).models} |->
                        convertModel(Write(s), CHOOSE m \in Write(s).models : m.map = t)]
    BY <1>2 DEF Converted
  <2>2. /\ {m.map : m \in Write(s).models} = DOMAIN s.tables
        /\ \A t \in DOMAIN s.tables :
             (CHOOSE m \in Write(s).models : m.map = t) = writeTable(s, t)
    BY BlocksAre
  <2> QED
    BY <2>1, <2>2 DEF TableBack
<1>4. validateForeignKeyReferences(got)
  <2>1. PICK G : G = got.tables
    OBVIOUS
  <2>2. SUFFICES ASSUME NEW t \in DOMAIN G, NEW fk \in G[t].fks
                 PROVE  /\ fk.refTable \in DOMAIN G
                        /\ ToSet(fk.refCols) \subseteq DOMAIN G[fk.refTable].cols
    BY <2>1, Zenon DEF validateForeignKeyReferences
  <2>3. DOMAIN G = DOMAIN s.tables /\ \A u \in DOMAIN s.tables : G[u] = TableBack(s, u)
    BY <1>3, <2>1
  <2>4. t \in DOMAIN s.tables /\ fk \in s.tables[t].fks
    BY <2>3, KeysLeadBack
  <2>5. PICK u : u = fk.refTable
    OBVIOUS
  <2>6. u \in DOMAIN s.tables /\ fk.refCols \in Seq(DOMAIN s.tables[u].cols)
    BY <2>4, <2>5, KeysAreColumns
  <2>7. DOMAIN G[u].cols = DOMAIN s.tables[u].cols
    BY <2>3, <2>6, ColumnsLeadBack
  <2>8. ToSet(fk.refCols) \subseteq DOMAIN s.tables[u].cols
    BY <2>6 DEF ToSet
  <2> QED
    BY <2>3, <2>5, <2>6, <2>7, <2>8
<1> QED
  BY <1>1, <1>2, <1>4 DEF Converts
-----------------------------------------------------------------------------
UnderId == <<"_", "id">>
CamelId == "Id"

\* The name of the forward side is the field name of the column without its id, or of
\* the table.
LEMMA ForwardNameIs ==
  ASSUME NEW fk, fk.cols[1] \in Seq(STRING), fk.refTable \in Seq(STRING)
  PROVE  \E n \in Seq(STRING) : forwardRelationFieldName(fk) = TransformFieldName(n)
<1>1. PICK col, cut, base :
        /\ col = fk.cols[1]
        /\ cut = SubSeq(col, Len(col) - 1, Len(col))
        /\ base = CASE Len(col) > 2 /\ cut = UnderId -> SubSeq(col, 1, Len(col) - 2)
                    [] Len(col) > 1 /\ Last(col) = CamelId -> Front(col)
                    [] OTHER -> << >>
  OBVIOUS
<1>2. forwardRelationFieldName(fk)
        = TransformFieldName(IF Len(fk.cols) = 1 /\ base # << >> THEN base ELSE fk.refTable)
  <2>1. forwardRelationFieldName(fk)
          = LET c == fk.cols[1]
                b == CASE Len(c) > 2 /\ SubSeq(c, Len(c) - 1, Len(c)) = UnderId ->
                            SubSeq(c, 1, Len(c) - 2)
                       [] Len(c) > 1 /\ Last(c) = CamelId -> Front(c)
                       [] OTHER -> << >>
            IN  TransformFieldName(IF Len(fk.cols) = 1 /\ b # << >> THEN b ELSE fk.refTable)
    BY Zenon DEF forwardRelationFieldName, UnderId, CamelId
  <2> QED
    BY <1>1, <2>1
<1>3. base \in Seq(STRING)
  <2>1. col \in Seq(STRING) /\ Len(col) \in Nat
    BY <1>1
  <2>2. UnderId[2] # CamelId
    <3>1. PICK b, i : b = "_" /\ i = "id"
      OBVIOUS
    <3>2. UnderId = <<b, i>>
      BY <3>1, Zenon DEF UnderId
    <3>3. i # CamelId
      BY <3>1 DEF CamelId
    <3> QED
      BY <3>2, <3>3
  <2>3. ~(Len(col) > 2 /\ cut = UnderId /\ Last(col) = CamelId)
    <3>1. ASSUME Len(col) > 2 PROVE cut[2] = col[Len(col)]
      BY <1>1, <2>1, <3>1
    <3> QED
      BY <2>2, <3>1 DEF Last
  <2>4. CASE Len(col) > 2 /\ cut = UnderId
    <3>1. base = SubSeq(col, 1, Len(col) - 2)
      BY <1>1, <2>3, <2>4, Zenon
    <3> QED
      BY <2>1, <2>4, <3>1
  <2>5. CASE Len(col) > 1 /\ Last(col) = CamelId /\ ~(Len(col) > 2 /\ cut = UnderId)
    <3>1. base = Front(col)
      BY <1>1, <2>5, Zenon
    <3> QED
      BY <2>1, <2>5, <3>1 DEF Front
  <2>6. CASE ~(Len(col) > 1 /\ Last(col) = CamelId) /\ ~(Len(col) > 2 /\ cut = UnderId)
    <3>1. base = << >>
      BY <1>1, <2>6, Zenon
    <3> QED
      BY <3>1
  <2> QED
    BY <2>4, <2>5, <2>6
<1> QED
  BY <1>2, <1>3

\* The names of relation fields are identifiers.
LEMMA SideNamesAre ==
  ASSUME NEW s, Legible(s), NEW t \in DOMAIN s.tables, NEW fk \in s.tables[t].fks
  PROVE  /\ IsIdentifier(forwardRelationFieldName(fk))
         /\ IsIdentifier(backRelationFieldName(s, t, fk))
<1>1. LegibleKey(s, t, fk)
  BY KeysAreColumns
<1>2. IsIdentifier(forwardRelationFieldName(fk))
  BY <1>1 DEF LegibleKey
<1>3. \A n \in DOMAIN s.tables : n \in Text /\ IsIdentifier(TransformFieldName(n))
  BY DEF Legible, LegibleNames
<1>4. PICK S : S = STRING \cup Range(Capital)
  OBVIOUS
<1>5. ASSUME NEW n \in Seq(STRING) PROVE TransformFieldName(n) \in Seq(S)
  <2>1. PICK f, m : f = TransformFieldName(n) /\ m = TransformModelName(n)
    OBVIOUS
  <2>2. f \in Seq((ToSet(n) \ {Bar}) \cup Range(Capital))
    BY <2>1, ModelNameIs
  <2>3. ToSet(n) \subseteq STRING
    BY DEF ToSet
  <2>4. (ToSet(n) \ {Bar}) \cup Range(Capital) \subseteq S
    BY <1>4, <2>3
  <2>5. PICK R : R = (ToSet(n) \ {Bar}) \cup Range(Capital)
    OBVIOUS
  <2>6. f \in Seq(R) /\ R \subseteq S
    BY <2>2, <2>4, <2>5
  <2>7. f \in Seq(S)
    BY <2>6
  <2> QED
    BY <2>1, <2>7
<1>6. forwardRelationFieldName(fk) \in Seq(S)
  <2>1. fk.cols \in Lists(s.tables[t].cols) /\ fk.refTable \in DOMAIN s.tables
    BY <1>1 DEF LegibleKey
  <2>2. \A x \in DOMAIN s.tables[t].cols : x \in Text
    BY DEF Legible, LegibleTable
  <2>3. fk.cols[1] \in DOMAIN s.tables[t].cols
    <3>1. PICK l, D : l = fk.cols /\ D = DOMAIN s.tables[t].cols
      OBVIOUS
    <3>2. l \in Seq(D) /\ l # << >>
      BY <2>1, <3>1 DEF Lists
    <3>3. l[1] \in D
      BY <3>2
    <3> QED
      BY <3>1, <3>3
  <2>4. fk.cols[1] \in Seq(STRING) /\ fk.refTable \in Seq(STRING)
    BY <1>3, <2>1, <2>2, <2>3 DEF Text
  <2>5. PICK n \in Seq(STRING) : forwardRelationFieldName(fk) = TransformFieldName(n)
    BY <2>4, ForwardNameIs
  <2> QED
    BY <1>5, <2>5
<1>7. IsIdentifier(TransformFieldName(t)) /\ TransformFieldName(t) \in Seq(S)
  BY <1>3, <1>5 DEF Text
<1>8. PICK a, b : a = TransformFieldName(t) /\ b = forwardRelationFieldName(fk)
  OBVIOUS
<1>9. IsIdentifier(a \o capitalize(b))
  BY <1>2, <1>6, <1>7, <1>8, JoinedIsIdentifier
<1>10. IsIdentifier(backRelationFieldName(s, t, fk))
  BY <1>7, <1>8, <1>9 DEF backRelationFieldName
<1> QED
  BY <1>2, <1>10

\* A field without a default parses.
LEMMA NothingParses == DefaultParses(NoDefault)
<1>1. NoDefault.form = "none"
  BY DEF NoDefault
<1>2. NoDefault.form # "bare" /\ NoDefault.form \notin {"string", "dbgenerated"}
  BY <1>1
<1> QED
  BY <1>2, Zenon DEF DefaultParses

\* A field that stands for a column parses.
LEMMA ColumnParses ==
  ASSUME NEW s, Legible(s), NEW t \in DOMAIN s.tables, NEW x \in DOMAIN s.tables[t].cols
  PROVE  FieldParses(writeColumn(s.tables[t], x))
<1>1. PICK col, f : col = s.tables[t].cols[x] /\ f = writeColumn(s.tables[t], x)
  OBVIOUS
<1>2. /\ f.name = TransformFieldName(x) /\ f.map = x /\ f.default = formatDefault(col.default)
      /\ f.type = PrismaType(col.type) /\ f.relation = NoRelation
  BY <1>1 DEF writeColumn
<1>3. /\ x \in Text /\ IsIdentifier(TransformFieldName(x))
      /\ LegibleType(col.type, DOMAIN s.enums) /\ LegibleDefault(col.default)
  BY <1>1 DEF Legible, LegibleTable, LegibleColumn
<1>4. IsString(f.map)
  BY <1>2, <1>3, ColumnNameIsString DEF Text
<1>5. DefaultParses(f.default)
  BY <1>2, <1>3 DEF LegibleDefault, Kept
<1>6. IsBuiltin(f.type) \/ IsIdentifier(f.type.base)
  <2>1. CASE col.type.kind = "enum"
    <3>1. "enum" \notin DOMAIN BaseType
      BY DEF BaseType
    <3>2. col.type.enum \in DOMAIN s.enums
      BY <1>3, <2>1, <3>1 DEF LegibleType
    <3>3. f.type.base = TransformModelName(col.type.enum)
      BY <1>2, <2>1 DEF PrismaType
    <3> QED
      BY <3>2, <3>3, BlockIsNoType
  <2>2. CASE col.type.kind # "enum"
    <3>1. f.type.base = <<BaseType[col.type.kind]>> /\ col.type.kind \in DOMAIN BaseType
      BY <1>2, <1>3, <2>2 DEF PrismaType, LegibleType
    <3>2. \A k \in DOMAIN BaseType : BaseType[k] \in TypeNames
      BY DEF BaseType, TypeNames
    <3> QED
      BY <3>1, <3>2 DEF IsBuiltin
  <2> QED
    BY <2>1, <2>2
<1>7. \A n \in ToSet(f.relation.fields \o f.relation.references) : IsIdentifier(n)
  <2>1. f.relation.fields \o f.relation.references = << >>
    BY <1>2, NothingRelated
  <2> QED
    BY <2>1, NothingListed
<1> QED
  BY <1>1, <1>2, <1>3, <1>4, <1>5, <1>6, <1>7 DEF FieldParses

\* So do both sides of a relation.
LEMMA SideParses ==
  ASSUME NEW s, Legible(s), NEW t \in DOMAIN s.tables, NEW f, NEW u, IsSide(s, t, f, u)
  PROVE  FieldParses(f)
<1>1. u \in DOMAIN s.tables /\ f.type.base = TransformModelName(u)
  BY DEF IsSide
<1>2. IsIdentifier(f.type.base)
  BY <1>1, BlockIsNoType
<1>3. CASE \E fk \in s.tables[t].fks : fk.refTable = u /\ f = forwardRelationField(s, t, fk)
  <2>1. PICK fk \in s.tables[t].fks : fk.refTable = u /\ f = forwardRelationField(s, t, fk)
    BY <1>3
  <2>2. /\ f.name = forwardRelationFieldName(fk) /\ f.map = f.name /\ f.default = NoDefault
        /\ f.relation.fields = Fields(fk.cols) /\ f.relation.references = Fields(fk.refCols)
    BY <2>1 DEF forwardRelationField, Field
  <2>3. IsIdentifier(f.name) /\ IsString(f.map) /\ DefaultParses(f.default)
    BY <2>2, SideNamesAre, IdentifierIsString, NothingParses
  <2>4. fk.cols \in Seq(DOMAIN s.tables[t].cols) /\ fk.refCols \in Seq(DOMAIN s.tables[u].cols)
    BY <2>1, KeysAreColumns
  <2>5. PICK a, b : a = Fields(fk.cols) /\ b = Fields(fk.refCols)
    OBVIOUS
  <2>6. (\A n \in ToSet(a) : IsIdentifier(n)) /\ (\A n \in ToSet(b) : IsIdentifier(n))
    <3>1. \A n \in ToSet(Fields(fk.cols)) : IsIdentifier(n)
      BY <2>4, FieldsLeadBack
    <3>2. \A n \in ToSet(Fields(fk.refCols)) : IsIdentifier(n)
      BY <1>1, <2>4, FieldsLeadBack
    <3> QED
      BY <2>5, <3>1, <3>2
  <2>7. \A n \in ToSet(a \o b) : IsIdentifier(n)
    <3>1. /\ DOMAIN a = 1..Len(a) /\ Len(a) \in Nat /\ DOMAIN b = 1..Len(b) /\ Len(b) \in Nat
      <4>1. \A l : l \in Seq(DOMAIN s.tables[t].cols) \cup Seq(DOMAIN s.tables[u].cols) =>
                     DOMAIN l = 1..Len(l) /\ Len(l) \in Nat
        OBVIOUS
      <4>2. /\ Len(Fields(fk.cols)) = Len(fk.cols) /\ DOMAIN Fields(fk.cols) = DOMAIN fk.cols
        BY <2>4, FieldsLeadBack
      <4>3. /\ Len(Fields(fk.refCols)) = Len(fk.refCols)
            /\ DOMAIN Fields(fk.refCols) = DOMAIN fk.refCols
        BY <1>1, <2>4, FieldsLeadBack
      <4> QED
        BY <2>4, <2>5, <4>1, <4>2, <4>3
    <3>2. PICK R : R = ToSet(a) \cup ToSet(b)
      OBVIOUS
    <3>3. a \in Seq(R) /\ b \in Seq(R)
      <4>1. a = [i \in 1..Len(a) |-> a[i]] /\ \A i \in 1..Len(a) : a[i] \in R
        BY <2>5, <3>1, <3>2 DEF Fields, ToSet
      <4>2. b = [i \in 1..Len(b) |-> b[i]] /\ \A i \in 1..Len(b) : b[i] \in R
        BY <2>5, <3>1, <3>2 DEF Fields, ToSet
      <4> QED
        BY <3>1, <4>1, <4>2
    <3>4. a \o b \in Seq(R)
      BY <3>3
    <3>5. ToSet(a \o b) \subseteq R
      BY <3>4 DEF ToSet
    <3> QED
      BY <2>6, <3>2, <3>5
  <2> QED
    BY <1>2, <2>2, <2>3, <2>5, <2>7 DEF FieldParses
<1>4. CASE \E fk \in s.tables[u].fks : fk.refTable = t /\ f = backRelationField(s, u, fk)
  <2>1. PICK fk \in s.tables[u].fks : fk.refTable = t /\ f = backRelationField(s, u, fk)
    BY <1>4
  <2>2. /\ f.name = backRelationFieldName(s, u, fk) /\ f.map = f.name /\ f.default = NoDefault
        /\ f.relation = NoRelation
    BY <2>1 DEF backRelationField, Field
  <2>3. IsIdentifier(f.name) /\ IsString(f.map) /\ DefaultParses(f.default)
    BY <1>1, <2>2, SideNamesAre, IdentifierIsString, NothingParses
  <2>4. \A n \in ToSet(f.relation.fields \o f.relation.references) : IsIdentifier(n)
    BY <2>2, NothingRelated, NothingListed
  <2> QED
    BY <1>2, <2>3, <2>4 DEF FieldParses
<1> QED
  BY <1>3, <1>4 DEF IsSide

\* The parser accepts a legible file.
LEMMA FileParses ==
  ASSUME NEW s, Legible(s)
  PROVE  Parses(Write(s))
<1>1. ASSUME NEW e \in Write(s).enums
      PROVE  IsIdentifier(e.name) /\ \A l \in ToSet(e.labels) : IsIdentifier(l)
  <2>1. PICK d \in DOMAIN s.enums : e = [name |-> TransformModelName(d), labels |-> s.enums[d]]
    BY DEF Write
  <2>2. PICK b : b = [base |-> TransformModelName(d)]
    OBVIOUS
  <2>3. b.base = TransformModelName(d)
    BY <2>2
  <2>4. IsIdentifier(b.base)
    BY <2>3, BlockIsNoType
  <2>5. \A l \in ToSet(s.enums[d]) : IsIdentifier(l)
    BY DEF Legible, LegibleNames
  <2> QED
    BY <2>1, <2>3, <2>4, <2>5
<1>2. ASSUME NEW m \in Write(s).models PROVE ModelParses(m)
  <2>1. PICK t \in DOMAIN s.tables : m = writeTable(s, t)
    BY DEF Write
  <2>2. m.name = TransformModelName(t) /\ m.map = t
    BY <2>1 DEF writeTable
  <2>3. IsIdentifier(m.name)
    <3>1. PICK b : b = [base |-> TransformModelName(t)]
      OBVIOUS
    <3>2. b.base = TransformModelName(t)
      BY <3>1
    <3>3. IsIdentifier(b.base)
      BY <3>2, BlockIsNoType
    <3> QED
      BY <2>2, <3>2, <3>3
  <2>4. IsString(m.map)
    <3>1. t \in Text /\ IsIdentifier(TransformFieldName(t))
      BY DEF Legible, LegibleNames
    <3> QED
      BY <2>2, <3>1, ColumnNameIsString DEF Text
  <2>5. ASSUME NEW f \in m.fields PROVE FieldParses(f)
    <3>1. m.fields = {writeColumn(s.tables[t], x) : x \in DOMAIN s.tables[t].cols}
                       \cup {r.field : r \in relationPlan(s, t)}
      BY <2>1 DEF writeTable
    <3>2. CASE f \in {writeColumn(s.tables[t], x) : x \in DOMAIN s.tables[t].cols}
      BY <3>2, ColumnParses
    <3>3. CASE f \in {r.field : r \in relationPlan(s, t)}
      <4>1. PICK r \in relationPlan(s, t) : f = r.field
        BY <3>3
      <4>2. PICK u : IsSide(s, t, r.field, u)
        BY SidesAre
      <4> QED
        BY <4>1, <4>2, SideParses
    <3> QED
      BY <2>5, <3>1, <3>2, <3>3
  <2>6. ASSUME NEW list \in {m.id} \cup m.uniques \cup m.indexes
        PROVE  \A n \in ToSet(list) : IsIdentifier(n)
    <3>1. IsListOf(s, t, list)
      BY <2>1, ListsAre
    <3> QED
      BY <3>1, ListsFit
  <2> QED
    BY <2>3, <2>4, <2>5, <2>6 DEF ModelParses
<1> QED
  BY <1>1, <1>2 DEF Parses

\* A legible schema is written, accepted and read back.
THEOREM LegibleRoundTrip ==
  ASSUME NEW s, Legible(s)
  PROVE  /\ Accepted(Write(s))
         /\ LET got == Converted(Write(s))
            IN  [got EXCEPT !.tables = [t \in DOMAIN got.tables |-> ViewTable(got.tables[t])]]
                  = View(s)
<1>1. Accepted(Write(s))
  BY FileParses, FileConverts DEF Accepted
<1>2. PICK got : got = Converted(Write(s))
  OBVIOUS
<1>3. [got EXCEPT !.tables = [t \in DOMAIN got.tables |-> ViewTable(got.tables[t])]] = View(s)
  BY <1>2, FileLeadsBack
<1> QED
  BY <1>1, <1>2, <1>3
-----------------------------------------------------------------------------
(***************************************************************************)
(* A pull that ends well has found out the type of every column: it is in  *)
(* the map, or it is an enum of the database.                              *)
(***************************************************************************)
TypeFound(col) == IsMapped(col.type) \/ BaseName(col.type) \in DOMAIN catalog.enums

TypesFound(n) ==
  \A x \in DOMAIN catalog.tables[n].cols : TypeFound(catalog.tables[n].cols[x])

Waits(rs, x) == \E i \in DOMAIN rs : rs[i].name = x

TypedAt ==
  /\ step \in {"columns"} \cup InRows \cup InTable =>
       \A n \in DOMAIN catalog.tables \ todo : TypesFound(n)
  /\ step \in InTable => TypesFound(table)
  /\ step \in InRows =>
       \A x \in DOMAIN catalog.tables[table].cols :
         Waits(rows, x) \/ TypeFound(catalog.tables[table].cols[x])
  /\ step = "sequence" => IsMapped(row.col.type)
  /\ step \in {"validate"} \cup Validated => \A n \in DOMAIN catalog.tables : TypesFound(n)

TypedInv == ~changed /\ Folds(catalog) => TypedAt

\* A run that fails says nothing.
LEMMA TypedFails ==
  ASSUME NEW why \in Failures \cup {"killed"}, Fail(why)
  PROVE  TypedAt'
BY DEF Fail, To, Failures, TypedAt, InRows, InTable, Single, Nested, Validated

\* A row waits at the head of the rows or behind it.
LEMMA HeadOrTail ==
  ASSUME NEW R, NEW rs \in Seq(R), rs # << >>, NEW x, Waits(rs, x)
  PROVE  x = Head(rs).name \/ Waits(Tail(rs), x)
<1>1. PICK i \in DOMAIN rs : rs[i].name = x
  BY DEF Waits
<1>2. CASE i = 1
  BY <1>1, <1>2
<1>3. CASE i # 1
  <2>1. i - 1 \in DOMAIN Tail(rs) /\ Tail(rs)[i - 1] = rs[i]
    BY <1>3
  <2> QED
    BY <1>1, <2>1 DEF Waits
<1> QED
  BY <1>2, <1>3

\* The next table, or the end of the tables.
LEMMA TypedNext ==
  ASSUME NEW rest, NextTable(rest), UNCHANGED server,
         \A n \in DOMAIN catalog.tables \ rest : TypesFound(n)
  PROVE  TypedAt'
<1>1. catalog' = catalog /\ todo' = rest
  BY DEF server, NextTable
<1>2. CASE rest = {}
  <2>1. step' = "validate"
    BY <1>2 DEF NextTable
  <2> QED
    BY <1>1, <1>2, <2>1 DEF TypedAt, TypesFound, TypeFound, InRows, InTable, Single, Nested,
       Validated
<1>3. CASE rest # {}
  <2>1. step' = "columns"
    BY <1>3 DEF NextTable
  <2> QED
    BY <1>1, <2>1 DEF TypedAt, TypesFound, TypeFound, InRows, InTable, Single, Nested, Validated
<1> QED
  BY <1>2, <1>3

\* No table is done before the tables are read.
LEMMA TypedBefore ==
  ASSUME SnapAt, ConnectSteps \/ ListTables \/ listEnums
  PROVE  TypedAt'
<1>1. CASE Connect
  BY <1>1, TypedFails DEF Connect, To, Failures, TypedAt, InRows, InTable, Single, Nested, Validated
<1>2. CASE CheckVersion
  BY <1>2, TypedFails DEF CheckVersion, To, Failures, TypedAt, InRows, InTable, Single, Nested,
     Validated
<1>3. CASE CheckMultiSchema
  BY <1>3 DEF CheckMultiSchema, To, TypedAt, InRows, InTable, Single, Nested, Validated
<1>4. CASE ListTables
  BY <1>4 DEF ListTables, To, TypedAt, InRows, InTable, Single, Nested, Validated
<1>5. CASE listEnums
  <2>1. todo = DOMAIN catalog.tables
    BY <1>5 DEF listEnums, SnapAt, Before
  <2>2. \A n \in DOMAIN catalog.tables \ todo : TypesFound(n)
    BY <2>1
  <2> QED
    BY <1>5, <2>2, TypedNext DEF listEnums
<1> QED
  BY <1>1, <1>2, <1>3, <1>4, <1>5 DEF ConnectSteps

\* The row that is built has a type that was found.
LEMMA TypedRow ==
  ASSUME SnapAt, TypedAt, step \in InRows, rows # << >>, AppendColumn, TypeFound(row.col)
  PROVE  TypedAt'
<1>1. PICK t : t = catalog.tables[table]
  OBVIOUS
<1>2. rows \in Seq(RowsOf(t))
  BY <1>1 DEF SnapAt, Built
<1>3. row \in RowsOf(t) /\ row = Head(rows)
  <2>1. \A R : \A q \in Seq(R) : q # << >> => Head(q) \in R
    OBVIOUS
  <2> QED
    BY <1>2, <2>1 DEF row
<1>4. row.col = t.cols[row.name]
  <2>1. PICK r : r = row
    OBVIOUS
  <2>2. PICK x \in DOMAIN t.cols : r = [name |-> x, col |-> t.cols[x]]
    BY <1>3, <2>1, Zenon DEF RowsOf
  <2>3. r.col = t.cols[r.name]
    BY <2>2
  <2> QED
    BY <2>1, <2>3, Zenon
<1>5. UNCHANGED <<catalog, todo, table>> /\ step' = "rows" /\ rows' = Tail(rows)
  BY DEF AppendColumn, To, server
<1>6. ASSUME NEW x \in DOMAIN t.cols PROVE Waits(rows', x) \/ TypeFound(t.cols[x])
  <2>1. Waits(rows, x) \/ TypeFound(t.cols[x])
    BY <1>1 DEF TypedAt
  <2>2. CASE Waits(rows, x)
    <3>1. x = row.name \/ Waits(Tail(rows), x)
      BY <1>2, <1>3, <2>2, HeadOrTail
    <3> QED
      BY <1>4, <1>5, <3>1
  <2> QED
    BY <2>1, <2>2
<1>7. \A n \in DOMAIN catalog.tables \ todo : TypesFound(n)
  BY DEF TypedAt
<1>8. ASSUME NEW x \in DOMAIN catalog'.tables[table'].cols
      PROVE  Waits(rows', x) \/ TypeFound(catalog.tables[table].cols[x])
  BY <1>1, <1>5, <1>6
<1> QED
  BY <1>5, <1>7, <1>8 DEF TypedAt, TypesFound, TypeFound, InRows, InTable, Single, Nested, Validated

\* The column queries and the questions they ask.
LEMMA TypedColumns ==
  ASSUME SnapAt, TypedAt, Folds(catalog), catalog \in Catalogs, ColumnSteps
  PROVE  TypedAt'
<1>0. ASSUME step \in {"columns"} \cup InRows
      PROVE  /\ table \in todo /\ todo \subseteq DOMAIN catalog.tables
             /\ Exists(table) /\ Of(table) = catalog.tables[table]
             /\ \A n \in DOMAIN catalog.tables \ todo : TypesFound(n)
  <2>1. table \in todo /\ todo \subseteq DOMAIN catalog.tables
    BY <1>0 DEF SnapAt
  <2>2. \A n \in DOMAIN catalog.tables \ todo : TypesFound(n)
    BY <1>0 DEF TypedAt
  <2> QED
    BY <2>1, <2>2, Found
<1>1. CASE QueryColumns
  <2>1. step = "columns"
    BY <1>1 DEF QueryColumns
  <2>2. PICK t : t = catalog.tables[table]
    OBVIOUS
  <2>3. rows' = SetToSeq(RowsOf(t)) /\ step' = "rows" /\ UNCHANGED <<catalog, todo, table>>
    BY <1>0, <1>1, <2>1, <2>2 DEF QueryColumns, RowsOf, To, server
  <2>4. Built(<< >>, rows', t)
    <3>1. IsFiniteSet(DOMAIN t.cols)
      BY <1>0, <2>1, <2>2, ColumnsAssumption
    <3> QED
      BY <2>3, <3>1, RowsBegin
  <2>5. \A x \in DOMAIN t.cols : Waits(rows', x)
    <3>1. DOMAIN << >> = {}
      OBVIOUS
    <3>2. {rows'[i].name : i \in DOMAIN rows'} = DOMAIN t.cols
      BY <2>4, <3>1 DEF Built
    <3> QED
      BY <3>2 DEF Waits
  <2>6. \A x \in DOMAIN catalog'.tables[table'].cols : Waits(rows', x)
    BY <2>2, <2>3, <2>5
  <2>7. \A n \in DOMAIN catalog.tables \ todo : TypesFound(n)
    BY <1>0, <2>1
  <2> QED
    BY <2>3, <2>6, <2>7 DEF TypedAt, TypesFound, TypeFound, InRows, InTable, Single, Nested, Validated
<1>2. CASE BuildColumn
  <2>1. TypeFound(row.col)
    BY <1>2 DEF BuildColumn, Question, TypeFound
  <2> QED
    BY <1>2, <2>1, TypedRow DEF BuildColumn, InRows
<1>3. CASE Acquire
  <2>1. /\ step = "rows" /\ step' = Question /\ Question \in Nested
        /\ UNCHANGED <<catalog, todo, table, rows>>
    BY <1>3 DEF Acquire, Question, Nested, To, server
  <2>2. Question = "sequence" => IsMapped(row.col.type)
    BY DEF Question
  <2>3. step' = "sequence" => IsMapped(row.col.type)
    BY <2>1, <2>2
  <2>4. row' = row
    <3>1. rows' = rows
      BY <2>1
    <3> QED
      BY <3>1, Zenon DEF row
  <2>5. \A x \in DOMAIN catalog.tables[table].cols :
          Waits(rows, x) \/ TypeFound(catalog.tables[table].cols[x])
    BY <2>1 DEF TypedAt, InRows
  <2>6. \A n \in DOMAIN catalog.tables \ todo : TypesFound(n)
    BY <1>0, <2>1 DEF InRows
  <2>7. (\A x \in DOMAIN catalog.tables[table].cols :
           Waits(rows, x) \/ TypeFound(catalog.tables[table].cols[x]))'
    BY <2>1, <2>5 DEF TypeFound
  <2>8. (\A n \in DOMAIN catalog.tables \ todo : TypesFound(n))'
    BY <2>1, <2>6 DEF TypesFound, TypeFound
  <2>9. step' \in Nested /\ (step' = "sequence" => IsMapped(row'.col.type))
    BY <2>1, <2>3, <2>4
  <2> HIDE DEF row
  <2> QED
    BY <2>7, <2>8, <2>9 DEF TypedAt, InRows, InTable, Single, Nested, Validated
<1>4. CASE IsEnumType
  <2>1. rows # << >> /\ step \in InRows
    BY <1>4 DEF IsEnumType, SnapAt, InRows, Nested
  <2>2. CASE BaseName(row.col.type) \in DOMAIN catalog.enums /\ Answered
    BY <2>1, <2>2, TypedRow DEF Answered, TypeFound
  <2>3. CASE Fail("unsupported")
    BY <2>3, TypedFails DEF Failures
  <2> QED
    BY <1>4, <2>2, <2>3 DEF IsEnumType
<1>5. CASE DetectSequence
  <2>1. rows # << >> /\ step \in InRows /\ IsMapped(row.col.type)
    BY <1>5 DEF DetectSequence, SnapAt, TypedAt, InRows, Nested
  <2>2. CASE Answered
    BY <2>1, <2>2, TypedRow DEF Answered, TypeFound
  <2>3. CASE Fail("query")
    BY <2>3, TypedFails DEF Failures
  <2> QED
    BY <1>5, <2>2, <2>3 DEF DetectSequence
<1>6. CASE NestedTimeout
  BY <1>6, TypedFails DEF NestedTimeout, Failures
<1>7. CASE ColumnsEnd
  <2>1. /\ step = "rows" /\ rows = << >> /\ step' = "pk" /\ UNCHANGED <<catalog, todo, table>>
    BY <1>7 DEF ColumnsEnd, To, server
  <2>2. \A x : ~Waits(<< >>, x)
    <3>1. DOMAIN << >> = {}
      OBVIOUS
    <3> QED
      BY <3>1 DEF Waits
  <2>3. TypesFound(table)
    BY <2>1, <2>2 DEF TypedAt, InRows, TypesFound
  <2>4. \A n \in DOMAIN catalog.tables \ todo : TypesFound(n)
    BY <1>0, <2>1 DEF InRows
  <2> QED
    BY <2>1, <2>3, <2>4 DEF TypedAt, TypesFound, TypeFound, InRows, InTable, Single, Nested, Validated
<1> QED
  BY <1>1, <1>2, <1>3, <1>4, <1>5, <1>6, <1>7 DEF ColumnSteps

\* The queries after the columns leave the types alone.
LEMMA TypedQuery ==
  ASSUME TypedAt, NEW part \in InTable \ {"uniques"}, NEW next \in InTable, NEW schema,
         Query(part, next, schema)
  PROVE  TypedAt'
<1>1. CASE Fail("query")
  BY <1>1, TypedFails DEF Failures
<1>2. CASE step = part /\ To(next) /\ UNCHANGED <<held, todo, table, rows>>
  <2>1. step \in InTable /\ step' = next /\ UNCHANGED <<catalog, todo, table>>
    BY <1>2 DEF To, server
  <2>2. TypesFound(table) /\ \A n \in DOMAIN catalog.tables \ todo : TypesFound(n)
    BY <2>1 DEF TypedAt
  <2> QED
    BY <2>1, <2>2 DEF TypedAt, TypesFound, TypeFound, InRows, InTable, Single, Nested, Validated
<1> QED
  BY <1>1, <1>2 DEF Query

\* All of these queries.
LEMMA TypedTables ==
  ASSUME SnapAt, TypedAt, TableSteps
  PROVE  TypedAt'
<1>1. CASE IntrospectPrimaryKey
  BY <1>1, TypedQuery DEF IntrospectPrimaryKey, InTable, Single
<1>2. CASE IntrospectForeignKeys
  BY <1>2, TypedQuery DEF IntrospectForeignKeys, InTable, Single
<1>3. CASE IntrospectIndexes
  BY <1>3, TypedQuery DEF IntrospectIndexes, InTable, Single
<1>4. CASE IntrospectCheckConstraints
  BY <1>4, TypedQuery DEF IntrospectCheckConstraints, InTable, Single
<1>5. CASE IntrospectUniqueConstraints
  <2>1. step \in InTable
    BY <1>5 DEF IntrospectUniqueConstraints, InTable, Single
  <2>2. TypesFound(table) /\ \A n \in DOMAIN catalog.tables \ todo : TypesFound(n)
    BY <2>1 DEF TypedAt
  <2>3. \A n \in DOMAIN catalog.tables \ (todo \ {table}) : TypesFound(n)
    BY <2>2
  <2>4. CASE Fail("query")
    BY <2>4, TypedFails DEF Failures
  <2>5. CASE NextTable(todo \ {table}) /\ UNCHANGED server
    BY <2>3, <2>5, TypedNext
  <2> QED
    BY <1>5, <2>4, <2>5 DEF IntrospectUniqueConstraints
<1> QED
  BY <1>1, <1>2, <1>3, <1>4, <1>5 DEF TableSteps

\* Nothing that follows the queries changes the tables.
LEMMA TypedFile ==
  ASSUME TypedAt, FileSteps
  PROVE  TypedAt'
<1>1. CASE ValidateSchema
  <2>1. CASE Fail("invalid")
    BY <2>1, TypedFails DEF Failures
  <2>2. CASE To("write") /\ UNCHANGED <<todo, table, rows>>
    BY <1>1, <2>2 DEF ValidateSchema, To, server, TypedAt, TypesFound, TypeFound, InRows, InTable,
       Single, Nested, Validated
  <2> QED
    BY <1>1, <2>1, <2>2 DEF ValidateSchema
<1>2. CASE WriteSchema
  <2>1. CASE Fail("refused")
    BY <2>1, TypedFails DEF Failures
  <2>2. CASE To("truncate") /\ UNCHANGED <<todo, table, rows>>
    BY <1>2, <2>2 DEF WriteSchema, To, server, TypedAt, TypesFound, TypeFound, InRows, InTable,
       Single, Nested, Validated
  <2> QED
    BY <1>2, <2>1, <2>2 DEF WriteSchema
<1>3. CASE Truncate
  <2>1. CASE Fail("full")
    BY <2>1, TypedFails DEF Failures
  <2>2. CASE ~Fail("full")
    BY <1>3, <2>2 DEF Truncate, server, TypedAt, TypesFound, TypeFound, InRows, InTable, Single,
       Nested, Validated
  <2> QED
    BY <2>1, <2>2
<1>4. CASE Flush
  BY <1>4 DEF Flush, server, TypedAt, TypesFound, TypeFound, InRows, InTable, Single, Nested,
     Validated
<1> QED
  BY <1>1, <1>2, <1>3, <1>4 DEF FileSteps

\* Only the other session changes the database.
LEMMA RunReads ==
  ASSUME Pull \/ QueryFails \/ Kill
  PROVE  UNCHANGED server
<1>1. CASE ConnectSteps \/ ListTables \/ listEnums
  BY <1>1 DEF ConnectSteps, Connect, CheckVersion, CheckMultiSchema, ListTables, listEnums, To, Fail
<1>2. CASE ColumnSteps
  BY <1>2 DEF ColumnSteps, QueryColumns, BuildColumn, Acquire, IsEnumType, DetectSequence,
     NestedTimeout, ColumnsEnd, Answered, AppendColumn, To, Fail
<1>3. CASE TableSteps
  BY <1>3 DEF TableSteps, IntrospectPrimaryKey, IntrospectForeignKeys, IntrospectIndexes,
     IntrospectCheckConstraints, IntrospectUniqueConstraints, Query, To, Fail
<1>4. CASE FileSteps
  BY <1>4 DEF FileSteps, ValidateSchema, WriteSchema, Truncate, Flush, To, Fail
<1>5. CASE QueryFails \/ Kill
  BY <1>5 DEF QueryFails, Kill, To, Fail
<1> QED
  BY <1>1, <1>2, <1>3, <1>4, <1>5 DEF Pull

\* Where nobody disturbs a pull, a type that is neither in the map nor an enum ends it.
THEOREM TypedHolds == Spec => []TypedInv
<1>1. Init => TypedInv
  BY DEF Init, TypedInv, TypedAt, InRows, InTable, Single, Nested, Validated
<1>2. ASSUME TypeOK, SnapInv, TypedInv, [Next]_vars PROVE TypedInv'
  <2>1. CASE Pull \/ QueryFails \/ Kill
    <3>1. UNCHANGED server
      BY <2>1, RunReads
    <3>2. SUFFICES ASSUME ~changed, Folds(catalog) PROVE TypedAt'
      BY <3>1 DEF TypedInv, server, Folds
    <3>3. SnapAt /\ TypedAt
      BY <1>2, <3>2 DEF SnapInv, TypedInv
    <3>4. CASE ConnectSteps \/ ListTables \/ listEnums
      BY <3>3, <3>4, TypedBefore
    <3>5. CASE ColumnSteps
      BY <1>2, <3>2, <3>3, <3>5, TypedColumns DEF TypeOK
    <3>6. CASE TableSteps
      BY <3>3, <3>6, TypedTables
    <3>7. CASE FileSteps
      BY <3>3, <3>7, TypedFile
    <3>8. CASE QueryFails
      BY <3>8, TypedFails DEF QueryFails, Failures
    <3>9. CASE Kill
      BY <3>9, TypedFails DEF Kill
    <3> QED
      BY <2>1, <3>4, <3>5, <3>6, <3>7, <3>8, <3>9 DEF Pull
  <2>2. CASE Rerun
    BY <2>2 DEF Rerun, TypedInv, TypedAt, InRows, InTable, Single, Nested, Validated
  <2>3. CASE Change
    BY <2>3 DEF Change, TypedInv
  <2>4. CASE UNCHANGED vars
    <3>1. UNCHANGED <<catalog, changed, step, todo, table, rows>>
      BY <2>4 DEF vars, server, run
    <3>2. SUFFICES ASSUME ~changed, Folds(catalog) PROVE TypedAt'
      BY <3>1 DEF TypedInv, Folds
    <3>3. TypedAt
      BY <1>2, <3>2 DEF TypedInv
    <3> QED
      BY <3>1, <3>3 DEF TypedAt, TypesFound, TypeFound, Waits, row
  <2> QED
    BY <1>2, <2>1, <2>2, <2>3, <2>4 DEF Next
<1> QED
  BY <1>1, <1>2, TypeCorrect, SnapHolds, PTL DEF Spec
-----------------------------------------------------------------------------
(***************************************************************************)
(* What a pull of a plain database reads is legible.                       *)
(***************************************************************************)
\* A type that was found is legible.
LEMMA TypeIsLegible ==
  ASSUME NEW enums, NEW type, IsMapped(type) \/ BaseName(type) \in enums
  PROVE  LegibleType(mapType(type), enums)
<1>1. PICK P : P = PostgreSQLToInternal
  OBVIOUS
<1>2. \A x \in DOMAIN P : P[x] \in DOMAIN BaseType
  BY <1>1 DEF PostgreSQLToInternal, BaseType
<1>3. mapType(type) = [kind |-> IF IsMapped(type) THEN P[BaseName(type)[1]] ELSE "enum",
                       enum |-> IF IsMapped(type) THEN << >> ELSE BaseName(type),
                       list |-> IsList(type)]
  BY <1>1 DEF mapType
<1>4. PICK m, l : m = mapType(type) /\ l = IsList(type)
  OBVIOUS
<1>5. CASE IsMapped(type)
  <2>1. BaseName(type)[1] \in DOMAIN P
    BY <1>1, <1>5 DEF IsMapped
  <2>2. PICK k : k = P[BaseName(type)[1]] /\ k \in DOMAIN BaseType
    BY <1>2, <2>1
  <2>3. m = [kind |-> k, enum |-> << >>, list |-> l]
    BY <1>3, <1>4, <1>5, <2>2
  <2>4. m = [kind |-> m.kind, enum |-> m.enum, list |-> m.list] /\ m.kind = k /\ m.enum = << >>
    BY <2>3
  <2> QED
    BY <1>4, <2>2, <2>4 DEF LegibleType
<1>6. CASE ~IsMapped(type)
  <2>1. m = [kind |-> "enum", enum |-> BaseName(type), list |-> l]
    BY <1>3, <1>4, <1>6
  <2>2. m = [kind |-> m.kind, enum |-> m.enum, list |-> m.list] /\ m.kind = "enum"
          /\ m.enum = BaseName(type)
    BY <2>1
  <2> QED
    BY <1>4, <1>6, <2>2 DEF LegibleType
<1> QED
  BY <1>5, <1>6

\* What the text of a default has in it.
HasSequence(expr) == containsNextval(expr) /\ Contains(expr, Mark)

HasCall(expr) == containsNextval(expr) \/ isExpression(expr)

\* The three forms a default has, and the column without one.
LEMMA DefaultIsOneOf ==
  ASSUME NEW col
  PROVE  \/ Default(col) = NoDefault
         \/ Default(col) = Argument("sequence", << >>)
         \/ col.expr # << >> /\ Default(col) \in {Argument("expression", col.expr),
                                                  Argument("literal", col.expr)}
<1>1. CASE col.identity
  <2>1. ~(~col.identity /\ col.expr = << >>)
    BY <1>1
  <2>2. Default(col) = Argument("sequence", << >>)
    BY <1>1, <2>1, Zenon DEF Default
  <2> QED
    BY <2>2
<1>2. CASE ~col.identity /\ col.expr = << >>
  <2>1. Default(col) = NoDefault
    BY <1>2, Zenon DEF Default
  <2> QED
    BY <2>1
<1>3. CASE ~col.identity /\ col.expr # << >>
  <2>1. Default(col) = parseDefault(col.expr)
    BY <1>3, Zenon DEF Default
  <2>2. PICK e : e = col.expr
    OBVIOUS
  <2>3. CASE HasSequence(e)
    <3>1. parseDefault(e) = Argument("sequence", << >>)
      BY <2>3, Zenon DEF parseDefault, HasSequence, Mark
    <3> QED
      BY <2>1, <2>2, <3>1
  <2>4. CASE ~HasSequence(e) /\ HasCall(e)
    <3>1. parseDefault(e) = Argument("expression", e)
      BY <2>4, Zenon DEF parseDefault, HasSequence, HasCall, Mark
    <3> QED
      BY <1>3, <2>1, <2>2, <3>1
  <2>5. CASE ~HasSequence(e) /\ ~HasCall(e)
    <3>1. parseDefault(e) = Argument("literal", e)
      BY <2>5, Zenon DEF parseDefault, HasSequence, HasCall, Mark
    <3> QED
      BY <1>3, <2>1, <2>2, <3>1
  <2> QED
    BY <2>3, <2>4, <2>5
<1> QED
  BY <1>1, <1>2, <1>3

\* A default that is kept is legible.
LEMMA DefaultIsLegible ==
  ASSUME NEW col, col.expr \in Seq(STRING), Kept(Default(col))
  PROVE  LegibleDefault(Default(col))
<1>1. PICK d, e, none : d = Default(col) /\ e = col.expr /\ none = << >>
  OBVIOUS
<1>2. none \in Seq(STRING) /\ e \in Seq(STRING)
  BY <1>1
<1>3. ASSUME NEW f \in Forms, NEW x \in Seq(STRING), d = [form |-> f, text |-> x],
             f \in {"none", "sequence"} => x = none, f = "expression" => x # none
      PROVE  LegibleDefault(d)
  <2>1. d.form = f /\ d.text = x
    BY <1>3
  <2>2. d = [form |-> d.form, text |-> d.text]
    BY <1>3, <2>1
  <2> QED
    BY <1>1, <1>3, <2>1, <2>2, Zenon DEF LegibleDefault
<1>4. d = NoDefault => d = [form |-> "none", text |-> none]
  BY <1>1 DEF NoDefault
<1>5. \A f, x : Argument(f, x) = [form |-> f, text |-> x]
  BY DEF Argument
<1>6. \/ d = [form |-> "none", text |-> none] \/ d = [form |-> "sequence", text |-> none]
      \/ e # none /\ d = [form |-> "expression", text |-> e]
      \/ e # none /\ d = [form |-> "literal", text |-> e]
  <2>1. \/ d = NoDefault \/ d = Argument("sequence", none)
        \/ e # none /\ d \in {Argument("expression", e), Argument("literal", e)}
    BY <1>1, DefaultIsOneOf, Zenon
  <2> QED
    BY <1>4, <1>5, <2>1
<1>7. CASE d = [form |-> "none", text |-> none]
  BY <1>1, <1>2, <1>3, <1>7 DEF Forms
<1>8. CASE d = [form |-> "sequence", text |-> none]
  BY <1>1, <1>2, <1>3, <1>8 DEF Forms
<1>9. CASE e # none /\ d = [form |-> "expression", text |-> e]
  BY <1>1, <1>2, <1>3, <1>9 DEF Forms
<1>10. CASE e # none /\ d = [form |-> "literal", text |-> e]
  BY <1>1, <1>2, <1>3, <1>10 DEF Forms
<1> QED
  BY <1>1, <1>6, <1>7, <1>8, <1>9, <1>10

\* A foreign key of the catalog, with the actions spelled out.
LEMMA KeyRowIs ==
  ASSUME NEW t, NEW list, NEW fk \in ForeignKeyRows(t),
         t.fks \subseteq [cols : list, refTable : Text, refCols : Seq(Text),
                          onDelete : DOMAIN mapReferentialAction,
                          onUpdate : DOMAIN mapReferentialAction]
  PROVE  \E k \in t.fks :
           /\ fk = [cols |-> fk.cols, refTable |-> fk.refTable, refCols |-> fk.refCols,
                    onDelete |-> fk.onDelete, onUpdate |-> fk.onUpdate]
           /\ fk.cols = k.cols /\ fk.refTable = k.refTable /\ fk.refCols = k.refCols
           /\ k.cols \in list /\ k.refCols \in Seq(Text)
           /\ fk.onDelete # "" /\ fk.onUpdate # ""
<1>1. PICK A : A = mapReferentialAction
  OBVIOUS
<1>2. \A a \in DOMAIN A : A[a] # ""
  <2>1. DOMAIN A = {"a", "r", "c", "n", "d"}
    BY <1>1 DEF mapReferentialAction
  <2>2. /\ A["a"] = "NoAction" /\ A["r"] = "Restrict" /\ A["c"] = "Cascade"
        /\ A["n"] = "SetNull" /\ A["d"] = "SetDefault"
    BY <1>1 DEF mapReferentialAction
  <2> QED
    BY <2>1, <2>2, Zenon
<1>3. PICK k \in t.fks : fk = [k EXCEPT !.onDelete = A[k.onDelete], !.onUpdate = A[k.onUpdate]]
  BY <1>1 DEF ForeignKeyRows
<1>4. PICK a, b, c, d, e :
        /\ k = [cols |-> a, refTable |-> b, refCols |-> c, onDelete |-> d, onUpdate |-> e]
        /\ a \in list /\ c \in Seq(Text) /\ d \in DOMAIN A /\ e \in DOMAIN A
  BY <1>1
<1>5. k.cols = a /\ k.refTable = b /\ k.refCols = c /\ k.onDelete = d /\ k.onUpdate = e
  BY <1>4
<1>6. PICK x, y : x = A[d] /\ y = A[e] /\ x # "" /\ y # ""
  BY <1>2, <1>4
<1>7. PICK h : h = [k EXCEPT !.onDelete = x]
  OBVIOUS
<1>8. h = [cols |-> a, refTable |-> b, refCols |-> c, onDelete |-> x, onUpdate |-> e]
  BY <1>4, <1>7
<1>9. fk = [h EXCEPT !.onUpdate = y]
  <2>1. fk = [k EXCEPT !.onDelete = x, !.onUpdate = y]
    BY <1>3, <1>5, <1>6
  <2>2. [k EXCEPT !.onDelete = x, !.onUpdate = y] = [[k EXCEPT !.onDelete = x] EXCEPT !.onUpdate = y]
    OBVIOUS
  <2> QED
    BY <1>7, <2>1, <2>2
<1>10. fk = [cols |-> a, refTable |-> b, refCols |-> c, onDelete |-> x, onUpdate |-> y]
  BY <1>8, <1>9
<1>11. fk.cols = a /\ fk.refTable = b /\ fk.refCols = c /\ fk.onDelete = x /\ fk.onUpdate = y
  BY <1>10
<1> QED
  BY <1>4, <1>5, <1>6, <1>10, <1>11

\* The name of the forward side depends on the columns and on the table referred to.
NameOfKey(cols, refTable) ==
  LET col  == cols[1]
      base == CASE Len(col) > 2 /\ SubSeq(col, Len(col) - 1, Len(col)) = <<"_", "id">> ->
                     SubSeq(col, 1, Len(col) - 2)
                [] Len(col) > 1 /\ Last(col) = "Id" -> Front(col)
                [] OTHER -> << >>
  IN  TransformFieldName(IF Len(cols) = 1 /\ base # << >> THEN base ELSE refTable)

\* Two keys over the same columns into the same table share that name.
LEMMA ForwardNameSame ==
  ASSUME NEW k, NEW fk, fk.cols = k.cols, fk.refTable = k.refTable
  PROVE  forwardRelationFieldName(fk) = forwardRelationFieldName(k)
<1>1. \A key : forwardRelationFieldName(key) = NameOfKey(key.cols, key.refTable)
  BY Zenon DEF forwardRelationFieldName, NameOfKey
<1>2. NameOfKey(fk.cols, fk.refTable) = NameOfKey(k.cols, k.refTable)
  OBVIOUS
<1> QED
  BY <1>1, <1>2, Zenon

\* What a catalog looks like once it is read.
LEMMA CompleteIs ==
  ASSUME NEW c, NEW s, s = Complete(c, {})
  PROVE  /\ DOMAIN s.tables = DOMAIN c.tables /\ s.enums = c.enums
         /\ \A t \in DOMAIN c.tables :
              /\ DOMAIN s.tables[t].cols = DOMAIN c.tables[t].cols
              /\ \A x \in DOMAIN c.tables[t].cols :
                   s.tables[t].cols[x] = buildColumn(c.tables[t].cols[x])
              /\ s.tables[t].pk = c.tables[t].pk /\ s.tables[t].uniques = c.tables[t].uniques
              /\ s.tables[t].indexes = IndexRows(c.tables[t])
              /\ s.tables[t].fks = ForeignKeyRows(c.tables[t])
<1>1. s.tables = [n \in DOMAIN c.tables \ {} |-> Got(c.tables[n])] /\ s.enums = c.enums
  BY DEF Complete
<1>2. DOMAIN s.tables = DOMAIN c.tables /\ \A n \in DOMAIN c.tables : s.tables[n] = Got(c.tables[n])
  BY <1>1
<1>3. \A t : /\ DOMAIN Got(t).cols = DOMAIN t.cols
             /\ \A x \in DOMAIN t.cols : Got(t).cols[x] = buildColumn(t.cols[x])
             /\ Got(t).pk = t.pk /\ Got(t).uniques = t.uniques
             /\ Got(t).indexes = IndexRows(t) /\ Got(t).fks = ForeignKeyRows(t)
  BY DEF Got, Columns
<1> QED
  BY <1>1, <1>2, <1>3

\* What a plain catalog promises.
LEMMA PlainIs ==
  ASSUME NEW c, Plain(c)
  PROVE  /\ \A n \in DOMAIN c.tables \cup DOMAIN c.enums : IsIdentifier(TransformFieldName(n))
         /\ \A t \in DOMAIN c.tables : \A x \in DOMAIN c.tables[t].cols :
              IsIdentifier(TransformFieldName(x)) /\ Kept(Default(c.tables[t].cols[x]))
         /\ \A t \in DOMAIN c.tables : Lower(t) = t /\ IsCapital(TransformModelName(t)[1])
         /\ \A e \in DOMAIN c.enums : \A l \in ToSet(c.enums[e]) : IsIdentifier(l)
         /\ \A t \in DOMAIN c.tables, e \in DOMAIN c.enums :
              TransformModelName(t) # TransformModelName(e)
         /\ \A d, e \in DOMAIN c.enums : TransformModelName(d) = TransformModelName(e) => d = e
         /\ \A t \in DOMAIN c.tables : \A fk \in c.tables[t].fks :
              IsIdentifier(forwardRelationFieldName(fk))
<1> DEFINE columns == UNION {DOMAIN c.tables[t].cols : t \in DOMAIN c.tables}
           blocks(S) == {TransformModelName(n) : n \in S}
<1>1. /\ \A n \in DOMAIN c.tables \cup DOMAIN c.enums \cup columns :
           IsIdentifier(TransformFieldName(n))
      /\ \A t \in DOMAIN c.tables : Lower(t) = t /\ IsCapital(TransformModelName(t)[1])
      /\ \A e \in DOMAIN c.enums : \A l \in ToSet(c.enums[e]) : IsIdentifier(l)
      /\ blocks(DOMAIN c.tables) \cap blocks(DOMAIN c.enums) = {}
      /\ ~Collides(TransformModelName, DOMAIN c.enums)
      /\ \A t \in DOMAIN c.tables :
           /\ \A fk \in c.tables[t].fks : IsIdentifier(forwardRelationFieldName(fk))
           /\ \A x \in DOMAIN c.tables[t].cols : Kept(Default(c.tables[t].cols[x]))
  BY Zenon DEF Plain
<1>2. \A d, e \in DOMAIN c.enums : TransformModelName(d) = TransformModelName(e) => d = e
  BY <1>1, Zenon DEF Collides
<1>3. \A t \in DOMAIN c.tables, e \in DOMAIN c.enums : TransformModelName(t) # TransformModelName(e)
  BY <1>1, Zenon
<1>4. \A t \in DOMAIN c.tables : \A x \in DOMAIN c.tables[t].cols : x \in columns
  OBVIOUS
<1> HIDE DEF columns, blocks
<1> QED
  BY <1>1, <1>2, <1>3, <1>4, Zenon

\* The schema of a plain database whose types are found is legible.
LEMMA PlainIsLegible ==
  ASSUME NEW c \in Catalogs, Plain(c), NEW s, s = Complete(c, {}), Validate(s), ~WriteFails(s),
         \A t \in DOMAIN c.tables : \A x \in DOMAIN c.tables[t].cols :
           IsMapped(c.tables[t].cols[x].type) \/ BaseName(c.tables[t].cols[x].type) \in DOMAIN c.enums
  PROVE  Legible(s)
<1>1. /\ DOMAIN s.tables = DOMAIN c.tables /\ s.enums = c.enums
      /\ \A t \in DOMAIN c.tables :
           /\ DOMAIN s.tables[t].cols = DOMAIN c.tables[t].cols
           /\ \A x \in DOMAIN c.tables[t].cols :
                s.tables[t].cols[x] = buildColumn(c.tables[t].cols[x])
           /\ s.tables[t].pk = c.tables[t].pk /\ s.tables[t].uniques = c.tables[t].uniques
           /\ s.tables[t].indexes = IndexRows(c.tables[t])
           /\ s.tables[t].fks = ForeignKeyRows(c.tables[t])
  BY CompleteIs
<1>2. /\ DOMAIN c.tables \cup DOMAIN c.enums \subseteq Text
      /\ \A t \in DOMAIN c.tables :
           /\ IsTable(c.tables[t])
           /\ \A fk \in c.tables[t].fks : fk.refTable \in DOMAIN c.tables =>
                ToSet(fk.refCols) \subseteq DOMAIN c.tables[fk.refTable].cols
  BY CatalogsAssumption
<1>3. LegibleNames(s)
  BY <1>1, <1>2, PlainIs DEF LegibleNames
<1>4. ASSUME NEW t \in DOMAIN s.tables PROVE LegibleTable(s, t)
  <2> DEFINE list == Lists(s.tables[t].cols)
  <2>1. /\ t \in DOMAIN c.tables /\ IsTable(c.tables[t])
        /\ DOMAIN s.tables[t].cols = DOMAIN c.tables[t].cols
    BY <1>1, <1>2, <1>4
  <2>2. PICK T, Cs : T = c.tables[t] /\ Cs = Seq(DOMAIN T.cols)
    OBVIOUS
  <2>3. /\ DOMAIN T.cols \subseteq Text
        /\ \A x \in DOMAIN T.cols : T.cols[x].type \in Text /\ T.cols[x].expr \in Seq(STRING)
        /\ T.pk \in Cs /\ T.uniques \subseteq list /\ list \subseteq Cs
        /\ T.indexes \subseteq [cols : Cs, unique : BOOLEAN]
        /\ T.fks \subseteq [cols : list, refTable : Text, refCols : Seq(Text),
                            onDelete : DOMAIN mapReferentialAction,
                            onUpdate : DOMAIN mapReferentialAction]
    BY <2>1, <2>2, Zenon DEF IsTable, Lists
  <2> HIDE DEF list
  <2>4. ASSUME NEW x \in DOMAIN s.tables[t].cols
        PROVE  /\ x \in Text /\ IsIdentifier(TransformFieldName(x))
               /\ LegibleColumn(s.tables[t].cols[x], DOMAIN s.enums)
    <3>1. PICK col : col = T.cols[x]
      OBVIOUS
    <3>2. /\ x \in Text /\ IsIdentifier(TransformFieldName(x))
          /\ col.expr \in Seq(STRING) /\ Kept(Default(col))
          /\ IsMapped(col.type) \/ BaseName(col.type) \in DOMAIN s.enums
      BY <1>1, <2>1, <2>2, <2>3, <2>4, <3>1, PlainIs
    <3>3. LegibleType(mapType(col.type), DOMAIN s.enums) /\ LegibleDefault(Default(col))
      BY <3>2, TypeIsLegible, DefaultIsLegible
    <3>4. s.tables[t].cols[x] = [type |-> mapType(col.type), nullable |-> ~col.notNull,
                                 default |-> Default(col)]
      BY <1>1, <2>1, <2>2, <2>4, <3>1 DEF buildColumn
    <3>5. PICK b, m, n, d : /\ b = s.tables[t].cols[x] /\ m = mapType(col.type)
                            /\ n = ~col.notNull /\ d = Default(col)
      OBVIOUS
    <3>6. b = [type |-> m, nullable |-> n, default |-> d]
      BY <3>4, <3>5
    <3>7. b = [type |-> b.type, nullable |-> b.nullable, default |-> b.default]
            /\ b.type = m /\ b.default = d
      BY <3>6
    <3> QED
      BY <3>2, <3>3, <3>5, <3>7 DEF LegibleColumn
  <2>5. s.tables[t].indexes \subseteq [cols : Cs, unique : BOOLEAN]
    <3>1. ASSUME NEW i \in IndexRows(T) PROVE i \in [cols : Cs, unique : BOOLEAN]
      <4>1. CASE i \in T.indexes
        BY <2>3, <4>1
      <4>2. CASE i \in {[cols |-> u, unique |-> TRUE] : u \in T.uniques}
        <5>1. PICK u \in T.uniques : i = [cols |-> u, unique |-> TRUE]
          BY <4>2
        <5>2. u \in Cs /\ TRUE \in BOOLEAN
          BY <2>3
        <5> QED
          BY <5>1, <5>2
      <4> QED
        BY <3>1, <4>1, <4>2 DEF IndexRows
    <3> QED
      BY <1>1, <2>1, <2>2, <3>1
  <2>6. ASSUME NEW fk \in s.tables[t].fks PROVE LegibleKey(s, t, fk)
    <3>1. fk \in ForeignKeyRows(T)
      BY <1>1, <2>1, <2>2, <2>6
    <3>2. PICK k \in T.fks :
             /\ fk = [cols |-> fk.cols, refTable |-> fk.refTable, refCols |-> fk.refCols,
                      onDelete |-> fk.onDelete, onUpdate |-> fk.onUpdate]
             /\ fk.cols = k.cols /\ fk.refTable = k.refTable /\ fk.refCols = k.refCols
             /\ k.cols \in list /\ k.refCols \in Seq(Text)
             /\ fk.onDelete # "" /\ fk.onUpdate # ""
      BY <2>3, <3>1, KeyRowIs
    <3>3. fk.refTable \in DOMAIN s.tables
      BY <2>6 DEF Validate
    <3>4. fk.refCols \in Seq(DOMAIN s.tables[fk.refTable].cols)
      <4>1. PICK D : D = DOMAIN s.tables[fk.refTable].cols
        OBVIOUS
      <4>2. ToSet(k.refCols) \subseteq D
        <5>1. /\ k.refTable \in DOMAIN c.tables
              /\ ToSet(k.refCols) \subseteq DOMAIN c.tables[k.refTable].cols
          BY <1>1, <1>2, <2>1, <2>2, <3>2, <3>3
        <5> QED
          BY <1>1, <3>2, <4>1, <5>1
      <4>3. \A q \in Seq(Text) : ToSet(q) \subseteq D => q \in Seq(D)
        BY DEF ToSet
      <4> QED
        BY <3>2, <4>1, <4>2, <4>3
    <3>5. IsIdentifier(forwardRelationFieldName(fk))
      <4>1. IsIdentifier(forwardRelationFieldName(k))
        BY <2>1, <2>2, PlainIs
      <4>2. forwardRelationFieldName(fk) = forwardRelationFieldName(k)
        BY <3>2, ForwardNameSame
      <4> QED
        BY <4>1, <4>2
    <3> QED
      BY <3>2, <3>3, <3>4, <3>5, Zenon DEF LegibleKey, list
  <2>7. s.tables[t].pk \in Cs /\ s.tables[t].uniques \subseteq list
    BY <1>1, <2>1, <2>2, <2>3
  <2>8. Cs = Seq(DOMAIN s.tables[t].cols)
    BY <2>1, <2>2
  <2> QED
    BY <2>4, <2>5, <2>6, <2>7, <2>8, Zenon DEF LegibleTable, list
<1> QED
  BY <1>3, <1>4 DEF Legible

\* A pull during which nothing changed gives a file that parses, and that stands for the
\* view of the database, whatever plain database it is.
THEOREM PullRoundTrip == Spec => []PulledIsView
<1>1. ASSUME PullInv, SnapInv, TypedInv PROVE PulledIsView
  <2> SUFFICES ASSUME step = "done", ~changed, Plain(catalog)
               PROVE  /\ Accepted(file.doc)
                      /\ LET got == Converted(file.doc)
                         IN  [got EXCEPT !.tables = [t \in DOMAIN @ |-> ViewTable(@[t])]]
                               = View(Whole(catalog))
    BY DEF PulledIsView
  <2>1. Folds(catalog)
    BY PlainIs DEF Folds
  <2>2. catalog \in Catalogs
    BY <1>1 DEF PullInv, TypeOK
  <2>3. Validate(read) /\ ~WriteFails(read) /\ file.doc = Write(read)
    BY <1>1 DEF PullInv, FileInv, Validated, Writable
  <2>4. read = Complete(catalog, {})
    BY <1>1, <2>1 DEF SnapInv, SnapAt, Validated
  <2>5. \A t \in DOMAIN catalog.tables : \A x \in DOMAIN catalog.tables[t].cols :
          \/ IsMapped(catalog.tables[t].cols[x].type)
          \/ BaseName(catalog.tables[t].cols[x].type) \in DOMAIN catalog.enums
    BY <1>1, <2>1 DEF TypedInv, TypedAt, Validated, TypesFound, TypeFound
  <2>6. Legible(read)
    BY <2>2, <2>3, <2>4, <2>5, PlainIsLegible
  <2>7. PICK got : got = Converted(file.doc)
    OBVIOUS
  <2>8. /\ Accepted(file.doc)
        /\ [got EXCEPT !.tables = [t \in DOMAIN got.tables |-> ViewTable(got.tables[t])]]
             = View(read)
    BY <2>3, <2>6, <2>7, LegibleRoundTrip
  <2>9. View(read) = View(Whole(catalog))
    BY <2>4, CompleteIsWhole
  <2> QED
    BY <2>7, <2>8, <2>9
<1> QED
  BY <1>1, PullInvHolds, SnapHolds, TypedHolds, PTL
=============================================================================
