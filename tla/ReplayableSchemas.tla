--------------------------- MODULE ReplayableSchemas ---------------------------
(***************************************************************************)
(* What the schemas of a project have to have in common for every history  *)
(* of them to be one that `migration create` can read back and agree with. *)
(* Each part excludes what the generator, the parser or the builder is     *)
(* known to lose; a set of schemas that breaks one part is one for which   *)
(* a history goes wrong.                                                   *)
(***************************************************************************)
EXTENDS SchemaBuilder

\* What the schemas of S say of a column, and of the indexes of a table.
ColumnsAt(S, t, c) ==
  {s.tables[t].cols[c] : s \in {x \in S : HasColumn(x, t, c)}}

IndexesAt(S, t) ==
  UNION {s.tables[t].indexes : s \in {x \in S : HasTable(x, t)}}

\* ADD CONSTRAINT cannot be read back.
HasNoForeignKeys(s) == \A t \in Present(s.tables) : s.tables[t].fks = {}

\* DOUBLE PRECISION cannot be read back, and autoincrement() is never written.
HasReadableColumns(s) ==
  \A t \in Present(s.tables) : \A c \in Present(s.tables[t].cols) :
    LET col == s.tables[t].cols[c]
    IN  IsSupported(col.type, s) /\ col.default.kind # "sequence"

\* autoincrement() passes the gate on new columns as a default that no row lacks.
HasWrittenDefault(coldef) == ~coldef.nullable => coldef.default.kind # "sequence"

WritesDefaults(s) ==
  \A t \in Present(s.tables) : \A c \in Present(s.tables[t].cols) :
    HasWrittenDefault(s.tables[t].cols[c])

\* ALTER TYPE ... ADD VALUE cannot be read back.
HaveSameLabels(r, s) ==
  \A e \in Present(r.enums) \cap Present(s.enums) : r.enums[e] = s.enums[e]

\* Of a column that changes, the type is written only if its kind changes, and a
\* call only if the column is new.
IsReadableChange(old, new) ==
  /\ old.type.kind = new.type.kind => old.type = new.type
  /\ old.default = new.default \/ WithoutCall(new.default) = new.default

\* Indexes are matched by their columns, and dropped by their name.
HasDistinctIndexes(s) ==
  \A t \in Present(s.tables) : \A i, j \in s.tables[t].indexes : i.cols = j.cols => i = j

HaveDistinctNames(S) ==
  \A t, u \in Tables : \A i \in IndexesAt(S, t), j \in IndexesAt(S, u) :
    IndexName(t, i) = IndexName(u, j) => t = u /\ i.cols = j.cols

Replayable(S) ==
  /\ \A s \in S : HasNoForeignKeys(s) /\ HasReadableColumns(s) /\ HasDistinctIndexes(s)
  /\ \A r, s \in S : HaveSameLabels(r, s)
  /\ \A t \in Tables, c \in Columns : \A old, new \in ColumnsAt(S, t, c) :
       IsReadableChange(old, new)
  /\ HaveDistinctNames(S)
=============================================================================
