------------------------------- MODULE SchemaIR -------------------------------
(***************************************************************************)
(* The database-agnostic schema representation of internal/schema, shared  *)
(* by every other module.  A schema maps table names to tables and enum    *)
(* names to their labels: the program keeps slices, but every consumer     *)
(* turns them into Go maps keyed by name first, so their order is not kept.*)
(*                                                                         *)
(* Column precision and scale are left out: the Prisma converter never     *)
(* sets them and no SQL that dryft writes carries them.                    *)
(***************************************************************************)
EXTENDS Naturals, Sequences, FiniteSets

CONSTANTS
  Tables,      \* table names
  Columns,     \* column names
  Enums,       \* enum type names
  Literals,    \* literal default values, which are also the enum labels
  IndexNames,  \* names a model may give an index explicitly
  FoldCase,    \* what strings.ToLower makes of a literal
  Absent       \* what a name that is not in a schema stands for

ASSUME LiteralsAssumption == IsFiniteSet(Literals)

ASSUME FoldCaseAssumption == FoldCase \in [Literals -> Literals]
-----------------------------------------------------------------------------
\* schema.TypeKind
Kinds == {"uuid", "text", "varchar", "char", "int32", "int64", "bool",
          "float32", "float64", "numeric", "timestamp", "timestamptz",
          "date", "json", "jsonb", "bytes", "enum"}

NoEnum == "no enum"

DataType == [kind : Kinds, depth : Nat, enum : Enums \cup {NoEnum}]

\* The default expressions the converter produces, the spellings the differ
\* treats as their synonyms, and what is left of them when a parser drops the
\* argument list.
Expressions == {"now()", "now", "current_timestamp",
                "gen_random_uuid()", "gen_random_uuid",
                "uuid_generate_v4()", "uuid_generate_v4"}

NoDefault == [kind |-> "none", text |-> ""]
Sequence  == [kind |-> "sequence", text |-> ""]   \* autoincrement(), Sequence == nil
Literal(l)    == [kind |-> "literal", text |-> l]
Expression(e) == [kind |-> "expression", text |-> e]

DefaultValue == [kind : {"none", "sequence", "literal", "expression"},
                 text : Literals \cup Expressions \cup {""}]

Column == [type : DataType, nullable : BOOLEAN, default : DefaultValue]
-----------------------------------------------------------------------------
\* Names of indexes and constraints are tuples of words, so that a generated
\* name such as idx_users_email is the tuple of the words it is built from.
Words == Tables \cup Columns \cup IndexNames \cup {"idx", "fk"}

Name == Seq(Words)

NoName == << >>

Actions == {"none", "no action", "restrict", "cascade", "set null", "set default"}

Index == [name : Name, cols : Seq(Columns), unique : BOOLEAN]

ForeignKey == [name : Name, cols : Seq(Columns), refTable : Tables,
               refCols : Seq(Columns), onDelete : Actions]

\* A Go map keyed by name is a function on all names, Absent where it has no
\* entry.
Present(f) == {x \in DOMAIN f : f[x] # Absent}

Table == [cols : [Columns -> {Absent} \cup Column], pk : SUBSET Columns,
          uniques : SUBSET SUBSET Columns, indexes : SUBSET Index,
          fks : SUBSET ForeignKey]

Schema == [tables : [Tables -> {Absent} \cup Table],
           enums  : [Enums -> {Absent} \cup SUBSET Literals]]

EmptySchema == [tables |-> [t \in Tables |-> Absent],
                enums  |-> [e \in Enums |-> Absent]]

ASSUME AbsentAssumption ==
  /\ Absent \notin Column
  /\ Absent \notin Table
  /\ \A labels \in SUBSET Literals : Absent # labels
=============================================================================
