---------------------------- MODULE PrismaConverter ----------------------------
(***************************************************************************)
(* From a Prisma file back to a schema: internal/prisma's converter, over  *)
(* the documents PrismaWriter writes, and which of those documents the     *)
(* parser of PrismaParser accepts.                                         *)
(***************************************************************************)
EXTENDS PrismaWriter

(***************************************************************************)
(* The parser takes identifiers for names, and nothing that ends a string  *)
(* early inside one.                                                       *)
(***************************************************************************)
Keywords == BlockWords \cup TypeNames \cup {"true", "false"}

\* chunks no identifier has in it, and those it cannot start with
Foreign == {"-", " ", "(", ")", "()", "'", "\"", "\\", ","}
Digits  == {"0", "1", "2"}

\* A capitalized word begins with a capital letter, and punctuation has no capital.
ASSUME LettersAssumption ==
  /\ Range(Capital) \cap (Foreign \cup Digits \cup {"_", ".", "true", "false"}) = {}
  /\ DOMAIN Capital \cap (Foreign \cup {"_"}) = {}

IsIdentifier(n) ==
  /\ n # << >>
  /\ ToSet(n) \cap Foreign = {}
  /\ n[1] \notin Digits \cup {"."}
  /\ ~(Len(n) = 1 /\ n[1] \in Keywords)

IsString(text) == ToSet(text) \cap {"\"", "\\"} = {}

IsBare(text) ==
  Len(text) = 1 /\ (text[1] \in Digits \cup {"true", "false"} \/ IsIdentifier(text))

DefaultParses(d) ==
  CASE d.form = "bare" -> IsBare(d.text)
    [] d.form \in {"string", "dbgenerated"} -> IsString(d.text)
    [] OTHER -> TRUE

IsBuiltin(type) == Len(type.base) = 1 /\ type.base[1] \in TypeNames

FieldParses(f) ==
  /\ IsIdentifier(f.name) /\ IsString(f.map) /\ DefaultParses(f.default)
  /\ IsBuiltin(f.type) \/ IsIdentifier(f.type.base)
  /\ \A n \in ToSet(f.relation.fields \o f.relation.references) : IsIdentifier(n)

ModelParses(m) ==
  /\ IsIdentifier(m.name) /\ IsString(m.map)
  /\ \A f \in m.fields : FieldParses(f)
  /\ \A list \in {m.id} \cup m.uniques \cup m.indexes : \A n \in ToSet(list) : IsIdentifier(n)

Parses(doc) ==
  /\ \A e \in doc.enums : IsIdentifier(e.name) /\ \A l \in ToSet(e.labels) : IsIdentifier(l)
  /\ \A m \in doc.models : ModelParses(m)
-----------------------------------------------------------------------------
(***************************************************************************)
(* convertType, convertDefault, isRelationField.                           *)
(***************************************************************************)
Scalar(kind) == [kind |-> kind, enum |-> << >>]

BaseKind ==
  [Int |-> "int32", BigInt |-> "int64", Boolean |-> "bool", Float |-> "float64",
   Decimal |-> "numeric", Bytes |-> "bytes"]

Kind(type) ==
  CASE ~IsBuiltin(type) -> [kind |-> "enum", enum |-> type.base]
    [] type.base = <<"String">> ->
         Scalar(IF type.annotation = "Uuid" THEN "uuid" ELSE "text")
    [] type.base = <<"DateTime">> ->
         Scalar(IF type.annotation = "Timestamptz" THEN "timestamptz" ELSE "timestamp")
    [] type.base = <<"Json">> ->
         Scalar(IF type.annotation = "JsonB" THEN "jsonb" ELSE "json")
    [] OTHER -> Scalar(BaseKind[type.base[1]])

convertType(type) ==
  [kind |-> Kind(type).kind, enum |-> Kind(type).enum, list |-> type.list]

\* the functions the writer calls
FunctionDefault ==
  [autoincrement |-> Argument("sequence", << >>), now |-> Argument("expression", <<"now", "()">>),
   uuid |-> Argument("expression", <<"gen_random_uuid", "()">>)]

\* A bare word is a string to the parser; a number or truth value is itself.
convertDefault(d) ==
  LET quoted == <<"'">> \o d.text \o <<"'">>
  IN  CASE d.form = "none" -> NoDefault
        [] d.form = "string" -> Argument("literal", quoted)
        [] d.form = "bare" -> Argument("literal", IF IsIdentifier(d.text) THEN quoted ELSE d.text)
        [] d.form = "dbgenerated" -> Argument("expression", d.text)
        [] d.form = "function" -> FunctionDefault[d.text[1]]

EnumNames(doc) == {e.name : e \in doc.enums}

isRelationField(doc, f) ==
  ~IsBuiltin(f.type) /\ f.type.base \notin EnumNames(doc)
    /\ f.type.base # << >> /\ IsCapital(f.type.base[1])
-----------------------------------------------------------------------------
(***************************************************************************)
(* convertModel and what it calls.                                         *)
(***************************************************************************)
ScalarFields(doc, m) == {f \in m.fields : ~isRelationField(doc, f)}

Scalars(doc, m) == {f.name : f \in ScalarFields(doc, m)}

ColumnOf(doc, m, name) == (CHOOSE f \in ScalarFields(doc, m) : f.name = name).map

\* Mutant: the names of the fields are taken for those of the columns.
mapFieldNamesAsIs(doc, m, list) == list

mapFieldNames(doc, m, list) == [i \in DOMAIN list |-> ColumnOf(doc, m, list[i])]

ModelNamed(doc, name) == CHOOSE m \in doc.models : m.name = name

\* Only these fields build a key: the others are the passive side.
ActiveFields(doc, m) ==
  {f \in m.fields : isRelationField(doc, f) /\ ~f.type.list /\ f.relation.fields # << >>}

\* modelToTableMap and modelFieldToDbCol, or the name as it stands.
RefTable(doc, model) ==
  IF \E m \in doc.models : m.name = model THEN ModelNamed(doc, model).map ELSE model

RefColumn(doc, model, name) ==
  IF \E m \in doc.models : m.name = model /\ name \in Scalars(doc, m)
    THEN ColumnOf(doc, ModelNamed(doc, model), name)
    ELSE name

parseReferentialAction(action) == IF action = "" THEN "NoAction" ELSE action

buildForeignKeyFromRelation(doc, m, f) ==
  [cols |-> mapFieldNames(doc, m, f.relation.fields), refTable |-> RefTable(doc, f.type.base),
   refCols |-> [i \in DOMAIN f.relation.references |->
                  RefColumn(doc, f.type.base, f.relation.references[i])],
   onDelete |-> parseReferentialAction(f.relation.onDelete),
   onUpdate |-> parseReferentialAction(f.relation.onUpdate)]

convertField(f) ==
  [type |-> convertType(f.type), nullable |-> f.optional, default |-> convertDefault(f.default)]

convertModel(doc, m) ==
  LET fields   == ScalarFields(doc, m)
      ids      == {f.map : f \in {g \in fields : g.id}}
      composed == mapFieldNames(doc, m, m.id)
  IN  [cols    |-> [c \in {f.map : f \in fields} |-> convertField(CHOOSE f \in fields : f.map = c)],
       pk      |-> IF composed # << >> THEN composed ELSE SetToSeq(ids),
       uniques |-> {mapFieldNames(doc, m, l) : l \in m.uniques}
                     \cup {<<f.map>> : f \in {g \in fields : g.unique}},
       indexes |-> {[cols |-> mapFieldNames(doc, m, l), unique |-> FALSE] : l \in m.indexes},
       fks     |-> {buildForeignKeyFromRelation(doc, m, f) : f \in ActiveFields(doc, m)}]

\* What convertModel reports an error for: a name in a list that is not the name
\* of a scalar field.  A relation of the writer has as many references as fields.
ModelConverts(doc, m) ==
  \A list \in {m.id} \cup m.uniques \cup m.indexes
                \cup {f.relation.fields : f \in ActiveFields(doc, m)} :
    ToSet(list) \subseteq Scalars(doc, m)

Converted(doc) ==
  [tables |-> [t \in {m.map : m \in doc.models} |->
                 convertModel(doc, CHOOSE m \in doc.models : m.map = t)],
   enums  |-> [n \in EnumNames(doc) |-> (CHOOSE e \in doc.enums : e.name = n).labels]]

validateForeignKeyReferences(s) ==
  \A t \in DOMAIN s.tables : \A fk \in s.tables[t].fks :
    fk.refTable \in DOMAIN s.tables /\ ToSet(fk.refCols) \subseteq DOMAIN s.tables[fk.refTable].cols

Converts(doc) ==
  (\A m \in doc.models : ModelConverts(doc, m)) /\ validateForeignKeyReferences(Converted(doc))

\* The schema a file stands for, when the parser and the converter accept it.
Accepted(doc) == Parses(doc) /\ Converts(doc)
=============================================================================
