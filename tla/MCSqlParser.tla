------------------------------ MODULE MCSqlParser ------------------------------
(***************************************************************************)
(* Statements for SqlParser, alone and in pairs.                           *)
(***************************************************************************)
EXTENDS SqlParser

CONSTANTS StringLength, ExpressionLength

UpperCase ==
  [check |-> "CHECK", unique |-> "UNIQUE", primary |-> "PRIMARY", on |-> "ON",
   default |-> "DEFAULT", to |-> "TO", add |-> "ADD", as |-> "AS", constraint |-> "CONSTRAINT"]

Order   == <<"order">>
User    == <<"User">>
A       == <<"a">>
B       == <<"b">>
check_b == <<"check", "_", "b">>
a_id    == <<"a", "_", "id">>

ReservedNames == {Order, <<"default">>}

TableNames  == {A, Order, User, <<"on">>}
ColumnNames ==
  {B, check_b, <<"primary", "_", "b">>, <<"unique", "User">>, a_id, <<"order", "_", "a">>,
   Order, <<"default", "_", "b">>, <<"add">>, <<"to">>, <<"check">>, <<"unique">>, <<"constraint">>,
   <<"constraint", "_", "a">>}

Types ==
  {<<"TEXT">>, <<"DOUBLE", " ", "PRECISION">>, <<"NUMERIC", "(", "9", ",", "2", ")">>,
   <<"VARCHAR", "(", "9", ")", "[]">>, <<"TEXT", "[]">>, <<"\"", "User", "\"", "[]">>}

Lit(t)    == [kind |-> "literal", text |-> t]
Exp(t)    == [kind |-> "expression", text |-> t]
String(t) == Lit(<<"'">> \o t \o <<"'">>)

Texts(symbols, n) == UNION {[1..k -> symbols] : k \in 0..n}

\* every string of up to StringLength symbols, and every expression of up to ExpressionLength
Strings == {String(t) : t \in Texts({"a", "'", "(", ")", ";", ",", " "}, StringLength)}

Expressions ==
  {Exp(t) : t \in Texts({"a", "(", ")", "'", " "}, ExpressionLength) \cap Expression}

Now   == <<"now", "(", ")">>
Cast  == <<"::", "text">>
Quote == <<"'", "a", "'">>

\* 'it''s', a NOT NULL in a string, lower('a')::text, lower(trim('a')), (now() + 9), ...
Defaults ==
  Strings \cup Expressions \cup
  {NoDefault, String(<<"a", "'", "'", "a">>), String(<<"a", ",", " ", "NOT", " ", "NULL">>),
   String(<<";", "\"", "DEFAULT">>), String(<<"(", "a", ")">>), Lit(<<"9">>), Lit(<<"true">>),
   Exp(Now), Exp(<<"CURRENT_TIMESTAMP">>), Exp(<<"9">>), Exp(Quote \o Cast), Exp(Now \o Cast),
   Exp(<<"lower", "(">> \o Quote \o <<")">> \o Cast),
   Exp(<<"lower", "(", "trim", "(">> \o Quote \o <<")", ")">>),
   Exp(<<"(">> \o Now \o <<" ", "+", " ", "9", ")">>), Exp(<<"(", "(", "9", ")", ")">>),
   Exp(<<"(", "9", " ", "+", " ", "9", ")">>), Exp(<<"9", " ", "+", " ", "9">>),
   Exp(<<"(", "9", ")">> \o Cast), Exp(<<"(", "9", ")", " ", "::", " ", "text">>),
   Exp(Quote \o <<" ", "::", " ", "text">>), Exp(<<"round", "(", "9", ",", "9", ")">>)}

Columns ==
  [name : ColumnNames, type : {<<"TEXT">>}, nullable : BOOLEAN, default : {NoDefault}]
    \cup [name : {check_b}, type : {<<"TEXT">>}, nullable : {FALSE}, default : Defaults]
    \cup [name : {B}, type : Types, nullable : BOOLEAN,
          default : {NoDefault, Lit(<<"9">>), Exp(Now)}]

Few == [name : {B, User}, type : {<<"TEXT">>}, nullable : {FALSE},
        default : {NoDefault, String(<<")">>), String(<<"(">>), String(<<",">>), String(<<"a", "'", "a">>)}]

CreateTables ==
  [stmt : {"CREATE TABLE"}, table : {A, Order}, cols : {<<c>> : c \in Columns}, pk : {<< >>},
   uniques : {<< >>}]
  \cup [stmt : {"CREATE TABLE"}, table : {A}, cols : {<<c, d>> : c, d \in Few},
        pk : {<< >>, <<B, User>>}, uniques : {<< >>, <<<<User>>, <<B, User>>>>}]

Lists == {<<c>> : c \in ColumnNames} \cup {<<B, c>> : c \in ColumnNames}

AlterColumns ==
  [stmt : {"SET NOT NULL", "DROP NOT NULL", "DROP DEFAULT", "DROP COLUMN"}, table : TableNames,
   column : ColumnNames]
  \cup [stmt : {"SET DEFAULT"}, table : {A}, column : {B, Order}, default : Defaults \ {NoDefault}]
  \cup [stmt : {"ALTER TYPE"}, table : {A}, column : {B, Order}, type : Types]
  \cup [stmt : {"RENAME COLUMN"}, table : {A}, column : ColumnNames, to : ColumnNames]
  \cup [stmt : {"ADD COLUMN"}, table : {A, Order}, coldef : Columns]

Statements ==
  CreateTables \cup AlterColumns
  \cup [stmt : {"CREATE INDEX"}, table : TableNames, name : {<<"idx", "_", "a">>}, cols : Lists,
        unique : BOOLEAN]
  \cup [stmt : {"ADD CONSTRAINT"}, table : {A}, name : {B}, cols : {<<B>>}, refTable : {User},
        refCols : {<<B>>}]
  \cup [stmt : {"DROP CONSTRAINT"}, table : {A}, name : {B}]
  \cup [stmt : {"CREATE TYPE"}, enum : {User, B, <<"as">>}, values : {<< >>, <<A>>, <<A, a_id>>}]
  \cup [stmt : {"ADD VALUE"}, enum : {User, B}, value : {A, a_id}]
  \cup [stmt : {"DROP TYPE"}, enum : {User, B}]
  \cup [stmt : {"DROP TABLE"}, table : TableNames]
  \cup [stmt : {"DROP INDEX"}, name : TableNames]

\* Pairs around a string with a semicolon and other traps.
Traps ==
  {NoDefault, String(<<";">>), String(<<"a", "'", "a">>), String(<<"'", ";">>), String(<<")", ";">>),
   String(<<";", "\"", "DEFAULT">>), Exp(Now)}

Second ==
  [stmt : {"CREATE TABLE"}, table : {A}, cols : {<<c>> : c \in {f \in Few : f.name = B}}, pk : {<<B>>},
   uniques : {<< >>}]
  \cup [stmt : {"ADD COLUMN"}, table : {A},
        coldef : [name : {check_b}, type : {<<"TEXT">>}, nullable : {TRUE}, default : Traps]]
  \cup [stmt : {"DROP INDEX"}, name : {User}]

UpSections == {<<v>> : v \in Statements \cup Second} \cup {<<v, w>> : v, w \in Second}
=============================================================================
