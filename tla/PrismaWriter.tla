----------------------------- MODULE PrismaWriter -----------------------------
(***************************************************************************)
(* From an introspected schema to a Prisma file: internal/prisma's naming, *)
(* writer and relations, over schemas as introspection builds them.        *)
(*                                                                         *)
(* Here the text of a name matters.  A name is a sequence of chunks: words *)
(* in lower case, the same words capitalized, and other characters, so     *)
(* that user_role is <<"user", "_", "role">> and userRole is               *)
(* <<"user", "Role">>.  The text of a default is cut into chunks as well.  *)
(* No two sequences of chunks spell one text.                              *)
(***************************************************************************)
EXTENDS Naturals, SequencesExt, FiniteSetsExt

CONSTANTS Capital  \* the capitalized form of each word

ASSUME CapitalAssumption == DOMAIN Capital \cap Range(Capital) = {}
-----------------------------------------------------------------------------
(***************************************************************************)
(* naming.go, for the default naming convention.                           *)
(***************************************************************************)
IsCapital(chunk) == chunk \in Range(Capital)

Lower(n) ==
  [i \in DOMAIN n |-> IF IsCapital(n[i]) THEN CHOOSE w \in DOMAIN Capital : Capital[w] = n[i]
                      ELSE n[i]]

capitalize(n) ==
  IF n # << >> /\ n[1] \in DOMAIN Capital THEN <<Capital[n[1]]>> \o Tail(n) ELSE n

\* strings.Split(s, "_")
Parts(n) ==
  LET add(parts, chunk) ==
        IF chunk = "_" THEN Append(parts, << >>)
        ELSE Append(Front(parts), Append(Last(parts), chunk))
  IN  FoldLeft(add, <<<< >>>>, n)

Capitalized(parts) == FoldLeft(LAMBDA n, p : n \o capitalize(p), << >>, parts)

TransformModelName(n) == Capitalized(Parts(n))

TransformFieldName(n) == Head(Parts(n)) \o Capitalized(Tail(Parts(n)))

BlockWords == {"model", "enum", "datasource", "generator", "type", "view"}
TypeNames  == {"String", "Int", "BigInt", "Float", "Decimal", "Boolean", "DateTime",
               "Json", "Bytes"}

IsReservedModelName(n) ==
  LET reserved == BlockWords \cup TypeNames \cup {"Unsupported"}
  IN  \/ Len(n) = 1 /\ (n[1] \in reserved \/ Lower(n)[1] \in reserved)
      \/ n \in {<<"Big", "Int">>, <<"Date", "Time">>}

Fields(cols) == [i \in DOMAIN cols |-> TransformFieldName(cols[i])]
-----------------------------------------------------------------------------
(***************************************************************************)
(* The types of schema/mapping.go.  A list type has ArrayDepth 1, the only *)
(* depth introspection reports.                                            *)
(***************************************************************************)
BaseType ==
  [uuid |-> "String", text |-> "String", varchar |-> "String", char |-> "String",
   int32 |-> "Int", int64 |-> "BigInt", bool |-> "Boolean", float32 |-> "Float",
   float64 |-> "Float", numeric |-> "Decimal", timestamp |-> "DateTime",
   timestamptz |-> "DateTime", date |-> "DateTime", json |-> "Json",
   jsonb |-> "Json", bytes |-> "Bytes"]

\* Precision and scale are left out: nothing downstream reads them.
Annotation ==
  [uuid |-> "Uuid", varchar |-> "VarChar", char |-> "Char", float32 |-> "Real",
   timestamptz |-> "Timestamptz", date |-> "Date", jsonb |-> "JsonB"]

NoAnnotation == ""

\* ToPrisma and parseTypeAnnotation; the type of an enum column is its block.
PrismaType(type) ==
  IF type.kind = "enum"
    THEN [base |-> TransformModelName(type.enum), annotation |-> NoAnnotation, list |-> type.list]
    ELSE [base |-> <<BaseType[type.kind]>>,
          annotation |-> IF type.kind \in DOMAIN Annotation THEN Annotation[type.kind]
                         ELSE NoAnnotation,
          list |-> type.list]
-----------------------------------------------------------------------------
(***************************************************************************)
(* formatDefault: the argument of @default, by form.                       *)
(***************************************************************************)
NoDefault == [form |-> "none", text |-> << >>]

Argument(form, text) == [form |-> form, text |-> text]

\* strings.Trim(s, "'\""): quotes at both ends go, those inside stay.
Trim(text) ==
  LET quote == {"'", "\""}
      kept  == {i \in DOMAIN text : text[i] \notin quote}
  IN  IF kept = {} THEN << >> ELSE SubSeq(text, Min(kept), Max(kept))

\* strings.HasPrefix(expr, name + "()")
Calls(text, names) == Len(text) > 1 /\ text[1] \in names /\ text[2] = "()"

formatDefault(d) ==
  CASE d.form = "none" -> NoDefault
    [] d.form = "sequence" -> Argument("function", <<"autoincrement">>)
    [] d.form = "literal" ->
         IF Contains(d.text, "'") THEN Argument("string", Trim(d.text))
         ELSE Argument("bare", d.text)
    [] d.form = "expression" ->
         CASE Calls(d.text, {"now"}) \/ d.text[1] = "CURRENT_TIMESTAMP" ->
                Argument("function", <<"now">>)
           [] Calls(d.text, {"uuid_generate_v4", "gen_random_uuid"}) ->
                Argument("function", <<"uuid">>)
           [] OTHER -> Argument("dbgenerated", d.text)
-----------------------------------------------------------------------------
(***************************************************************************)
(* writeColumn.  A field has every attribute; those it is written without  *)
(* have their empty value.                                                 *)
(***************************************************************************)
NoRelation == [fields |-> << >>, references |-> << >>, onDelete |-> "", onUpdate |-> ""]

SingleColumn(lists) == {l[1] : l \in {m \in lists : Len(m) = 1}}

isUniqueColumn(col, table) ==
  col \in SingleColumn(table.uniques)
            \cup SingleColumn({i.cols : i \in {j \in table.indexes : j.unique}})

writeColumn(table, col) ==
  LET c == table.cols[col]
  IN  [name |-> TransformFieldName(col), type |-> PrismaType(c.type), optional |-> c.nullable,
       id |-> table.pk = <<col>>, unique |-> isUniqueColumn(col, table),
       default |-> formatDefault(c.default), map |-> col, relation |-> NoRelation]

(***************************************************************************)
(* relations.go: both sides of a relation.  A relation's own name is not   *)
(* kept, the converter reads it and drops it.                              *)
(***************************************************************************)
Pair(s, t, u) == {fk \in s.tables[t].fks : fk.refTable = u}

IsAmbiguous(s, t, fk) == Cardinality(Pair(s, t, fk.refTable)) > 1 \/ t = fk.refTable

\* The column without _id or Id, or else the referenced table.
forwardRelationFieldName(fk) ==
  LET col  == fk.cols[1]
      base == CASE Len(col) > 2 /\ SubSeq(col, Len(col) - 1, Len(col)) = <<"_", "id">> ->
                     SubSeq(col, 1, Len(col) - 2)
                [] Len(col) > 1 /\ Last(col) = "Id" -> Front(col)
                [] OTHER -> << >>
  IN  TransformFieldName(IF Len(fk.cols) = 1 /\ base # << >> THEN base ELSE fk.refTable)

backRelationFieldName(s, t, fk) ==
  LET name == TransformFieldName(t)
  IN  IF IsAmbiguous(s, t, fk) THEN name \o capitalize(forwardRelationFieldName(fk)) ELSE name

Field(name, model, list, optional, relation) ==
  [name |-> name, type |-> [base |-> model, annotation |-> NoAnnotation, list |-> list],
   optional |-> optional, id |-> FALSE, unique |-> FALSE, default |-> NoDefault,
   map |-> name, relation |-> relation]

forwardRelationField(s, t, fk) ==
  Field(forwardRelationFieldName(fk), TransformModelName(fk.refTable), FALSE,
        \E c \in ToSet(fk.cols) \cap DOMAIN s.tables[t].cols : s.tables[t].cols[c].nullable,
        [fields |-> Fields(fk.cols), references |-> Fields(fk.refCols),
         onDelete |-> fk.onDelete, onUpdate |-> fk.onUpdate])

hasUniqueOn(table, cols) ==
  \E key \in {table.pk} \cup table.uniques \cup {i.cols : i \in {j \in table.indexes : j.unique}} :
    key # << >> /\ Len(key) = Len(cols) /\ ToSet(key) = ToSet(cols)

backRelationField(s, t, fk) ==
  LET one == hasUniqueOn(s.tables[t], fk.cols)
  IN  Field(backRelationFieldName(s, t, fk), TransformModelName(t), ~one, one, NoRelation)

\* The relation fields of a table, each with the key and the side it stands for:
\* two equal fields collide, they are not one.  A key into a table that is not
\* in the schema has no fields.
relationPlan(s, t) ==
  {[key |-> fk, of |-> t, field |-> forwardRelationField(s, t, fk)] :
     fk \in {k \in s.tables[t].fks : k.refTable \in DOMAIN s.tables}}
  \cup UNION {{[key |-> fk, of |-> u, field |-> backRelationField(s, u, fk)] :
                 fk \in Pair(s, u, t)} : u \in DOMAIN s.tables}
-----------------------------------------------------------------------------
(***************************************************************************)
(* writeTable and Write.                                                   *)
(***************************************************************************)
Collides(names(_), S) == \E x, y \in S : x # y /\ names(x) = names(y)

tableCollides(s, t) ==
  LET cols == DOMAIN s.tables[t].cols
      plan == relationPlan(s, t)
  IN  \/ Collides(TransformFieldName, cols)
      \/ Collides(LAMBDA r : r.field.name, plan)
      \/ \E r \in plan, c \in cols : r.field.name = TransformFieldName(c)

writeTable(s, t) ==
  LET table == s.tables[t]
  IN  [name |-> TransformModelName(t), map |-> t,
       fields |-> {writeColumn(table, c) : c \in DOMAIN table.cols}
                    \cup {r.field : r \in relationPlan(s, t)},
       id |-> IF Len(table.pk) > 1 THEN Fields(table.pk) ELSE << >>,
       uniques |-> {Fields(u) : u \in {v \in table.uniques : Len(v) > 1}},
       indexes |-> {Fields(i.cols) : i \in {j \in table.indexes : ~j.unique}}]

WriteFails(s) ==
  \/ \E n \in DOMAIN s.enums \cup DOMAIN s.tables : IsReservedModelName(TransformModelName(n))
  \/ Collides(TransformModelName, DOMAIN s.tables)
  \/ \E t \in DOMAIN s.tables : tableCollides(s, t)

Write(s) ==
  [enums  |-> {[name |-> TransformModelName(e), labels |-> s.enums[e]] : e \in DOMAIN s.enums},
   models |-> {writeTable(s, t) : t \in DOMAIN s.tables}]
=============================================================================
