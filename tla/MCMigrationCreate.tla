-------------------------- MODULE MCMigrationCreate ---------------------------
(***************************************************************************)
(* Small instances of MigrationCreate for TLC.                             *)
(***************************************************************************)
EXTENDS MigrationCreate, ReplayableSchemas

Col(kind, nullable, default) ==
  [type |-> [kind |-> kind, depth |-> 0, enum |-> NoEnum],
   nullable |-> nullable, default |-> default]

EnumCol(e, default) ==
  [type |-> [kind |-> "enum", depth |-> 0, enum |-> e],
   nullable |-> FALSE, default |-> default]

Id == Col("int32", FALSE, NoDefault)

\* A table with primary key "id" and further columns.
Plain(cols) ==
  [cols |-> [c \in Columns |-> IF c = "id" THEN Id
                               ELSE IF c \in DOMAIN cols THEN cols[c] ELSE Absent],
   pk |-> {"id"}, uniques |-> {}, indexes |-> {}, fks |-> {}]

Indexed(tabledef, name, cols) ==
  [tabledef EXCEPT !.indexes = @ \cup {[name |-> name, cols |-> cols, unique |-> FALSE]}]

Linked(tabledef, col, refTable, onDelete) ==
  [tabledef EXCEPT !.fks =
     @ \cup {[name |-> <<"fk", "u", col>>, cols |-> <<col>>, refTable |-> refTable,
              refCols |-> <<"id">>, onDelete |-> onDelete]}]

NoColumns == [c \in {} |-> Id]

Only(c, coldef) == [x \in {c} |-> coldef]

One(t, tabledef) == [EmptySchema EXCEPT !.tables[t] = tabledef]

Two(t, d, u, e) == [EmptySchema EXCEPT !.tables[t] = d, !.tables[u] = e]

WithEnum(s, e, labels) == [s EXCEPT !.enums[e] = labels]

Fold == [l \in Literals |-> IF l = "X" THEN "x" ELSE l]
-----------------------------------------------------------------------------
\* A column that comes, widens, loses its nullability, gains a default and an
\* index, and goes; a second table; an enum with an index on its column.
TypicalSchemas ==
  LET a(kind, nullable, default) == Only("a", Col(kind, nullable, default))
      e == Only("b", EnumCol("E", Literal("x")))
  IN  {EmptySchema,
       One("t", Plain(NoColumns)),
       One("t", Plain(a("int32", TRUE, NoDefault))),
       One("t", Plain(a("int64", FALSE, Literal("0")))),
       One("t", Indexed(Plain(a("int32", TRUE, NoDefault)), NoName, <<"a">>)),
       WithEnum(One("t", Indexed(Plain(e), <<"i">>, <<"b">>)), "E", {"x", "y"}),
       Two("t", Plain(a("int32", FALSE, NoDefault)), "u", Plain(NoColumns)),
       One("u", Indexed(Plain(a("timestamptz", FALSE, Expression("now()"))), NoName, <<"a", "id">>))}

\* The same and a foreign key, after which the history cannot be read back.
CreateSchemas ==
  TypicalSchemas \cup
    {Two("t", Plain(NoColumns),
         "u", Linked(Plain(Only("a", Col("int32", TRUE, NoDefault))), "a", "t", "cascade"))}

\* Typical schemas with less in them, for longer behaviours.
ShortSchemas ==
  LET a(kind, nullable, default) == Only("a", Col(kind, nullable, default))
      e == Only("b", EnumCol("E", Literal("x")))
  IN  {EmptySchema,
       One("t", Plain(NoColumns)),
       One("t", Indexed(Plain(a("int32", TRUE, NoDefault)), NoName, <<"a">>)),
       WithEnum(One("t", Indexed(Plain(e), <<"i">>, <<"b">>)), "E", {"x", "y"}),
       Two("t", Plain(a("int64", FALSE, Literal("0"))),
           "u", Plain(a("timestamptz", FALSE, Expression("now()"))))}

\* Schemas after which the history cannot be read back: foreign keys, a label
\* added to an enum, double precision.
RichSchemas ==
  LET ref == Only("a", Col("int32", TRUE, NoDefault))
      en(labels, default) ==
        WithEnum(One("t", Plain(Only("b", EnumCol("E", default)))), "E", labels)
      t == Plain(NoColumns)
  IN  {EmptySchema,
       Two("t", t, "u", Plain(ref)),
       Two("t", t, "u", Linked(Plain(ref), "a", "t", "cascade")),
       Two("t", Indexed(t, NoName, <<"id">>), "u", Linked(Plain(ref), "a", "t", "cascade")),
       en({"x"}, NoDefault),
       en({"x", "y"}, NoDefault),
       One("t", Plain(Only("a", Col("float64", TRUE, NoDefault))))}

\* One edit each: a foreign key is added,
ForeignKeySchemas ==
  LET ref == Only("a", Col("int32", TRUE, NoDefault))
      t == Plain(NoColumns)
  IN  {EmptySchema, Two("t", t, "u", Plain(ref)),
       Two("t", t, "u", Linked(Plain(ref), "a", "t", "cascade"))}

\* a column becomes unique.
KeySchemas ==
  LET d == Plain(Only("a", Col("text", TRUE, NoDefault)))
  IN  {EmptySchema, One("t", d), One("t", [d EXCEPT !.uniques = {{"a"}}])}
-----------------------------------------------------------------------------
\* What the theorems on the history suppose is true of the schemas whose histories
\* TLC replays without an error, and false of those where one cannot be read back.
ASSUME ReplayableAssumption ==
  /\ \A S \in {TypicalSchemas, ShortSchemas, KeySchemas} : Replayable(S)
  /\ \A S \in {CreateSchemas, RichSchemas, ForeignKeySchemas} : ~Replayable(S)

\* What the theorem on NOT NULL columns supposes is true of all of them.
ASSUME WrittenAssumption ==
  \A S \in {CreateSchemas, RichSchemas, KeySchemas} : \A s \in S : WritesDefaults(s)
=============================================================================
