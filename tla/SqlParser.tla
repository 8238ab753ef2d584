------------------------------- MODULE SqlParser -------------------------------
(***************************************************************************)
(* The text of a migration: how internal/sql/postgres spells a statement,  *)
(* and how internal/migration cuts the Up section of a file into           *)
(* statements and reads each one.                                          *)
(*                                                                         *)
(* A text is a sequence of symbols: keywords, words of a name, numerals,   *)
(* punctuation and blanks, a newline being one.  A name is a sequence of   *)
(* words, as user_id is <<"user", "_", "id">>; types, defaults and labels  *)
(* are texts.                                                              *)
(***************************************************************************)
EXTENDS Integers, SequencesExt, FiniteSetsExt

CONSTANTS
  Files,     \* the Up sections the generator may write: sequences of statements
  Uppers,    \* the upper case form of words
  Capitals,  \* the words with a capital
  Reserved,  \* the names isReservedWord knows
  Numerals

ASSUME NumeralsAssumption == Numerals \subseteq STRING

VARIABLES
  stmts,  \* the statements of the file
  text,   \* what is left of it
  read,   \* the statements read so far
  status

vars == <<stmts, text, read, status>>
-----------------------------------------------------------------------------
(***************************************************************************)
(* Writing.                                                                *)
(***************************************************************************)
NoDefault == [kind |-> "none", text |-> << >>]

Joined(texts, separator) ==
  FoldLeft(LAMBDA t, u : IF t = << >> THEN u ELSE t \o separator \o u, << >>, texts)

Sentence(texts) == Joined(texts, <<" ">>)

List(texts) == Joined(texts, <<",", " ">>)

\* The keywords of what the generator writes.
Grammar ==
  {"CREATE", "UNIQUE", "INDEX", "TABLE", "TYPE", "DROP", "ALTER", "ADD", "RENAME", "COLUMN", "VALUE",
   "CONSTRAINT", "FOREIGN", "PRIMARY", "KEY", "REFERENCES", "ON", "TO", "AS", "ENUM", "SET", "NOT",
   "NULL", "DEFAULT"}

Keywords(words) == [i \in DOMAIN words |-> <<words[i]>>]

InParentheses(t) == <<"(">> \o t \o <<")">>

quoteIdentifier(n) ==
  IF n \in Reserved \/ ToSet(n) \cap Capitals # {} THEN <<"\"">> \o n \o <<"\"">> ELSE n

formatColumnList(cols) ==
  InParentheses(List([i \in DOMAIN cols |-> quoteIdentifier(cols[i])]))

ColumnText(c) ==
  Sentence(<<quoteIdentifier(c.name), c.type>>
             \o (IF c.nullable THEN << >> ELSE Keywords(<<"NOT", "NULL">>))
             \o (IF c.default = NoDefault THEN << >> ELSE <<<<"DEFAULT">>, c.default.text>>))

\* What CREATE TABLE has between its parentheses.
Body(v) ==
  List([i \in DOMAIN v.cols |-> ColumnText(v.cols[i])]
         \o (IF v.pk = << >> THEN << >>
             ELSE <<Sentence(Keywords(<<"PRIMARY", "KEY">>) \o <<formatColumnList(v.pk)>>)>>)
         \o [i \in DOMAIN v.uniques |->
               Sentence(Keywords(<<"UNIQUE">>) \o <<formatColumnList(v.uniques[i])>>)])

OnTable(v, words, rest) ==
  Sentence(Keywords(<<"ALTER", "TABLE">>) \o <<quoteIdentifier(v.table)>>
             \o Keywords(words) \o rest)

OnColumn(v, words, rest) ==
  OnTable(v, <<"ALTER", "COLUMN">>, <<quoteIdentifier(v.column)>> \o Keywords(words) \o rest)

Spell(v) ==
  CASE v.stmt = "CREATE TABLE" ->
         Sentence(Keywords(<<"CREATE", "TABLE">>)
                    \o <<quoteIdentifier(v.table), InParentheses(Body(v))>>)
    [] v.stmt = "DROP TABLE" ->
         Sentence(Keywords(<<"DROP", "TABLE">>) \o <<quoteIdentifier(v.table)>>)
    [] v.stmt = "ADD COLUMN"    -> OnTable(v, <<"ADD", "COLUMN">>, <<ColumnText(v.coldef)>>)
    [] v.stmt = "DROP COLUMN"   -> OnTable(v, <<"DROP", "COLUMN">>, <<quoteIdentifier(v.column)>>)
    [] v.stmt = "RENAME COLUMN" ->
         OnTable(v, <<"RENAME", "COLUMN">>,
                 <<quoteIdentifier(v.column), <<"TO">>, quoteIdentifier(v.to)>>)
    [] v.stmt = "ALTER TYPE"    -> OnColumn(v, <<"TYPE">>, <<v.type>>)
    [] v.stmt = "SET NOT NULL"  -> OnColumn(v, <<"SET", "NOT", "NULL">>, << >>)
    [] v.stmt = "DROP NOT NULL" -> OnColumn(v, <<"DROP", "NOT", "NULL">>, << >>)
    [] v.stmt = "SET DEFAULT"   -> OnColumn(v, <<"SET", "DEFAULT">>, <<v.default.text>>)
    [] v.stmt = "DROP DEFAULT"  -> OnColumn(v, <<"DROP", "DEFAULT">>, << >>)
    [] v.stmt = "CREATE INDEX"  ->
         Sentence(Keywords(IF v.unique THEN <<"CREATE", "UNIQUE", "INDEX">> ELSE <<"CREATE", "INDEX">>)
                    \o <<quoteIdentifier(v.name), <<"ON">>, quoteIdentifier(v.table),
                         formatColumnList(v.cols)>>)
    [] v.stmt = "DROP INDEX"    ->
         Sentence(Keywords(<<"DROP", "INDEX">>) \o <<quoteIdentifier(v.name)>>)
    [] v.stmt = "ADD CONSTRAINT" ->
         OnTable(v, <<"ADD", "CONSTRAINT">>,
                 <<quoteIdentifier(v.name)>> \o Keywords(<<"FOREIGN", "KEY">>)
                   \o <<formatColumnList(v.cols), <<"REFERENCES">>,
                        quoteIdentifier(v.refTable), formatColumnList(v.refCols)>>)
    [] v.stmt = "DROP CONSTRAINT" ->
         OnTable(v, <<"DROP", "CONSTRAINT">>, <<quoteIdentifier(v.name)>>)
    [] v.stmt = "CREATE TYPE"   ->
         Sentence(Keywords(<<"CREATE", "TYPE">>) \o <<quoteIdentifier(v.enum)>>
                    \o Keywords(<<"AS", "ENUM">>)
                    \o <<InParentheses(List([i \in DOMAIN v.values |->
                                               <<"'">> \o v.values[i] \o <<"'">>]))>>)
    [] v.stmt = "ADD VALUE"     ->
         Sentence(Keywords(<<"ALTER", "TYPE">>) \o <<quoteIdentifier(v.enum)>>
                    \o Keywords(<<"ADD", "VALUE">>) \o <<<<"'">> \o v.value \o <<"'">>>>)
    [] v.stmt = "DROP TYPE"     ->
         Sentence(Keywords(<<"DROP", "TYPE">>) \o <<quoteIdentifier(v.enum)>>)

\* FormatGoose, between the two markers.
UpSection(file) == FlattenSeq([i \in DOMAIN file |-> Spell(file[i]) \o <<";", " ">>])
-----------------------------------------------------------------------------
(***************************************************************************)
(* Quotes, parentheses and commas.                                         *)
(***************************************************************************)
Quotes == {"'", "\""}

None == ""

\* The quote that is open before each symbol, and at the end.
OpenQuotes(t) ==
  LET next(open, x) ==
        CASE open = None /\ x \in Quotes -> x
          [] open = x -> None
          [] OTHER -> open
  IN  FoldLeft(LAMBDA qs, x : Append(qs, next(Last(qs), x)), <<None>>, t)

Outside(t) == LET open == OpenQuotes(t) IN {i \in DOMAIN t : open[i] = None}

\* How many parentheses of those at the positions S are open after position i.
Level(t, S, i) ==
  Cardinality({j \in S : j <= i /\ t[j] = "("}) - Cardinality({j \in S : j <= i /\ t[j] = ")"})

From(t, i) == SubSeq(t, i, Len(t))

TrimSpace(t) ==
  LET kept == {i \in DOMAIN t : t[i] # " "}
  IN  IF kept = {} THEN << >> ELSE SubSeq(t, Min(kept), Max(kept))

\* Quotes do not count here.
extractParentheses(t) ==
  LET opens == {i \in DOMAIN t : t[i] = "("}
      inner == From(t, Min(opens))
      ends  == {i \in DOMAIN inner : inner[i] = ")" /\ Level(inner, DOMAIN inner, i) = 0}
  IN  IF opens = {} \/ ends = {} THEN << >> ELSE SubSeq(inner, 2, Min(ends) - 1)

\* The parts of t between the commas at the positions of cuts, but the empty ones.
Parts(t, cuts) ==
  LET bounds == <<0>> \o SetToSortSeq(cuts, LAMBDA i, j : i < j) \o <<Len(t) + 1>>
      parts  == [k \in 1..(Len(bounds) - 1) |-> SubSeq(t, bounds[k] + 1, bounds[k + 1] - 1)]
      kept   == SelectSeq(parts, LAMBDA p : p # << >>)
  IN  [k \in DOMAIN kept |-> TrimSpace(kept[k])]

\* Mutant: a comma in a string counts.
splitByAnyComma(t) ==
  Parts(t, {i \in DOMAIN t : t[i] = "," /\ Level(t, DOMAIN t, i) = 0})

splitByComma(t) ==
  Parts(t, {i \in Outside(t) : t[i] = "," /\ Level(t, Outside(t), i) = 0})

\* A token ends at a blank or comma that is neither quoted nor in parentheses,
\* and before and after a group of parentheses.
tokenize(t) ==
  LET flush(st) ==
        IF st.current = << >> THEN st
        ELSE [st EXCEPT !.tokens = Append(@, st.current), !.current = << >>]
      put(st, x) == [st EXCEPT !.current = Append(@, x)]
      close(st)  == IF st.depth = 0 THEN flush(st) ELSE st
      step(st, x) ==
        CASE st.quote # None -> [put(st, x) EXCEPT !.quote = IF x = @ THEN None ELSE @]
          [] st.quote = None /\ x \in Quotes -> [put(st, x) EXCEPT !.quote = x]
          [] st.quote = None /\ x = "(" -> put([flush(st) EXCEPT !.depth = @ + 1], x)
          [] st.quote = None /\ x = ")" -> close([put(st, x) EXCEPT !.depth = @ - 1])
          [] st.quote = None /\ st.depth = 0 /\ x = " " -> flush(st)
          [] st.quote = None /\ st.depth = 0 /\ x = "," -> flush(put(flush(st), x))
          [] OTHER -> put(st, x)
  IN  flush(FoldLeft(step, [tokens |-> << >>, current |-> << >>, quote |-> None, depth |-> 0],
                     t)).tokens
-----------------------------------------------------------------------------
(***************************************************************************)
(* Reading one statement, with the errors of the builder that depend on it *)
(* alone: an ALTER TYPE, an action or constraint the parser gave no type,  *)
(* and a type mapSQLType does not know.  What only a person writes (IF     *)
(* EXISTS, CASCADE, CONCURRENTLY, USING, inline constraints, a second      *)
(* clause of ALTER COLUMN) is left out.                                    *)
(***************************************************************************)
Error == [stmt |-> "error"]

Upper(x) == IF x \in DOMAIN Uppers THEN Uppers[x] ELSE x

ASSUME UppersAssumption == \A x \in Grammar : Upper(x) = x

Is(token, word) == Len(token) = 1 /\ Upper(token[1]) = word

\* The tokens are these keywords from position i on.
Has(tokens, i, words) ==
  /\ Len(tokens) >= i + Len(words) - 1
  /\ \A k \in DOMAIN words : Is(tokens[i + k - 1], words[k])

\* Mutant: quotes stay.
unquoteNever(n) == n

unquoteIdentifier(n) ==
  IF Len(n) >= 2 /\ n[1] = "\"" /\ Last(n) = "\"" THEN SubSeq(n, 2, Len(n) - 1) ELSE n

Names(t) ==
  LET names == splitByComma(t) IN [i \in DOMAIN names |-> unquoteIdentifier(names[i])]

Occurrences(s, t) == {i \in DOMAIN t : IsPrefix(s, From(t, i))}

\* isNumericLiteral, and the rest of what convertColumn and applyAlterColumn look
\* at to tell a literal from an expression
LooksLiteral(t) ==
  t # << >> /\ (t[1] = "'" \/ t \in {<<x>> : x \in Numerals \cup {"true", "false"}})

Default(t) == [kind |-> IF LooksLiteral(t) THEN "literal" ELSE "expression", text |-> t]

\* A cast is part of the default if blanks are around it.
WithCast(value, after) ==
  IF Len(after) > 1 /\ after[1] = <<"::">> THEN value \o after[1] \o after[2] ELSE value

\* DEFAULT in a column definition: a token, and the next if that begins with a
\* parenthesis, or else what the parentheses around the token hold.
DefaultOf(def, tokens) ==
  LET at    == {i \in DOMAIN tokens : Is(tokens[i], "DEFAULT")}
      d     == Min(at)
      first == tokens[d + 1]
      group == Len(tokens) > d + 1 /\ tokens[d + 2][1] = "("
  IN  CASE at = {} -> NoDefault
        [] at # {} /\ group -> Default(WithCast(first \o tokens[d + 2], From(tokens, d + 3)))
        [] at # {} /\ ~group /\ first[1] = "(" ->
             Default(WithCast(extractParentheses(From(def, Min(Occurrences(<<"DEFAULT">>, def)))),
                              From(tokens, d + 2)))
        [] OTHER -> Default(WithCast(first, From(tokens, d + 2)))

\* Of what the parser leaves of the types of mapDataType, mapSQLType does not know
\* the first word of DOUBLE PRECISION.
IsMapped(type) == type # <<"DOUBLE">>

parseColumnDef(def) ==
  LET tokens == tokenize(def)
      args   == Len(tokens) > 2 /\ tokens[3][1] = "("
      type   == IF args THEN tokens[2] \o tokens[3] ELSE tokens[2]
      rest   == From(tokens, IF args THEN 4 ELSE 3)
  IN  IF Len(tokens) < 2 \/ Is(Last(tokens), "DEFAULT") \/ ~IsMapped(type) THEN Error
      ELSE [name |-> unquoteIdentifier(tokens[1]), type |-> type,
            nullable |-> ~(\E i \in DOMAIN rest : Has(rest, i, <<"NOT", "NULL">>)),
            default |-> DefaultOf(def, rest)]

\* Mutant: one word is enough.
IsTableConstraintByWord(def) ==
  Upper(def[1]) \in {"PRIMARY", "FOREIGN", "UNIQUE", "CHECK", "CONSTRAINT"}

\* strings.HasPrefix on the upper case of a definition
IsTableConstraint(def) ==
  LET upper == [i \in DOMAIN def |-> Upper(def[i])]
  IN  \E prefix \in {<<"PRIMARY", " ", "KEY">>, <<"FOREIGN", " ", "KEY">>, <<"UNIQUE">>,
                     <<"CHECK">>, <<"CONSTRAINT">>} : IsPrefix(prefix, upper)

parseTableConstraint(def) ==
  LET tokens  == tokenize(def)
      n       == IF Is(tokens[1], "CONSTRAINT") THEN 3 ELSE 1
      key(type, list) ==
        [type |-> type,
         cols |-> IF Len(tokens) >= list /\ tokens[list][1] = "(" THEN Names(extractParentheses(def))
                  ELSE << >>]
  IN  CASE Has(tokens, n, <<"PRIMARY", "KEY">>) -> key("primary", n + 2)
        [] Has(tokens, n, <<"FOREIGN", "KEY">>) -> key("foreign", n + 2)
        [] Has(tokens, n, <<"UNIQUE">>) -> key("unique", n + 1)
        [] Has(tokens, n, <<"CHECK">>)  -> [type |-> "check", cols |-> << >>]
        [] OTHER -> Error

parseCreateTable(t, tokens) ==
  LET name    == unquoteIdentifier(tokens[3])
      content == extractParentheses(From(t, Min(Occurrences(name, t)) + Len(name)))
      defs    == SelectSeq(splitByComma(content), LAMBDA def : def # << >>)
      read_(S, Op(_)) == LET d == SelectSeq(defs, LAMBDA def : def \in S)
                         IN  [i \in DOMAIN d |-> Op(d[i])]
      marked  == {def \in ToSet(defs) : IsTableConstraint(def)}
      cols    == read_(ToSet(defs) \ marked, parseColumnDef)
      keys    == read_(marked, parseTableConstraint)
      typed(type) == SelectSeq(keys, LAMBDA k : k.type = type)
  IN  IF content = << >> \/ Error \in ToSet(cols) \cup ToSet(keys) THEN Error
      ELSE [stmt |-> "CREATE TABLE", table |-> name, cols |-> cols,
            pk |-> IF typed("primary") = << >> THEN << >> ELSE Last(typed("primary")).cols,
            uniques |-> [i \in DOMAIN typed("unique") |-> typed("unique")[i].cols]]

\* The column list is what follows the last occurrence of the table's name.
parseCreateIndex(t, tokens) ==
  LET n     == IF Is(tokens[2], "UNIQUE") THEN 4 ELSE 3
      table == unquoteIdentifier(tokens[n + 2])
      list  == extractParentheses(From(t, Max(Occurrences(table, t)) + Len(table)))
  IN  IF list = << >> THEN Error
      ELSE [stmt |-> "CREATE INDEX", table |-> table, name |-> unquoteIdentifier(tokens[n]),
            cols |-> Names(list), unique |-> n = 4]

parseAlterColumn(table, column, clause) ==
  LET on(kind) == [stmt |-> kind, table |-> table, column |-> column]
  IN  CASE Has(clause, 1, <<"SET", "NOT", "NULL">>)  -> on("SET NOT NULL")
        [] Has(clause, 1, <<"DROP", "NOT", "NULL">>) -> on("DROP NOT NULL")
        [] Has(clause, 1, <<"DROP", "DEFAULT">>)     -> on("DROP DEFAULT")
        [] Has(clause, 1, <<"SET", "DEFAULT">>) ->
             [stmt |-> "SET DEFAULT", table |-> table, column |-> column,
              default |-> Default(WithCast(clause[3], From(clause, 4)))]
        [] Has(clause, 1, <<"TYPE">>) /\ IsMapped(clause[2]) ->
             [stmt |-> "ALTER TYPE", table |-> table, column |-> column, type |-> clause[2]]
        [] OTHER -> Error

parseAlterTable(tokens) ==
  LET table == unquoteIdentifier(tokens[3])
      col   == unquoteIdentifier(tokens[6])
      def   == parseColumnDef(Sentence(From(tokens, 6)))
  IN  CASE Has(tokens, 4, <<"ADD", "COLUMN">>) ->
             IF def = Error THEN Error ELSE [stmt |-> "ADD COLUMN", table |-> table, coldef |-> def]
        [] Has(tokens, 4, <<"DROP", "COLUMN">>) ->
             [stmt |-> "DROP COLUMN", table |-> table, column |-> col]
        [] Has(tokens, 4, <<"RENAME", "COLUMN">>) ->
             [stmt |-> "RENAME COLUMN", table |-> table, column |-> col,
              to |-> unquoteIdentifier(tokens[8])]
        [] Has(tokens, 4, <<"ALTER", "COLUMN">>) -> parseAlterColumn(table, col, From(tokens, 7))
        [] OTHER -> Error

\* The first AS must stand before ENUM.
parseCreateType(t, tokens) ==
  LET as     == {i \in 3..Len(tokens) : Is(tokens[i], "AS")}
      labels == splitByComma(extractParentheses(t))
  IN  IF as = {} \/ ~Has(tokens, Min(as), <<"AS", "ENUM">>) \/ labels = << >> THEN Error
      ELSE [stmt |-> "CREATE TYPE", enum |-> unquoteIdentifier(tokens[3]),
            values |-> [i \in DOMAIN labels |->
                          IF labels[i][1] \in Quotes THEN SubSeq(labels[i], 2, Len(labels[i]) - 1)
                          ELSE labels[i]]]

Parse(t) ==
  LET tokens == tokenize(t)
      name   == unquoteIdentifier(tokens[3])
  IN  CASE Has(tokens, 1, <<"CREATE", "TABLE">>) -> parseCreateTable(t, tokens)
        [] Has(tokens, 1, <<"CREATE", "TYPE">>)  -> parseCreateType(t, tokens)
        [] Has(tokens, 1, <<"CREATE", "INDEX">>) -> parseCreateIndex(t, tokens)
        [] Has(tokens, 1, <<"CREATE", "UNIQUE">>) -> parseCreateIndex(t, tokens)
        [] Has(tokens, 1, <<"DROP", "TABLE">>)  -> [stmt |-> "DROP TABLE", table |-> name]
        [] Has(tokens, 1, <<"DROP", "TYPE">>)   -> [stmt |-> "DROP TYPE", enum |-> name]
        [] Has(tokens, 1, <<"DROP", "INDEX">>)  -> [stmt |-> "DROP INDEX", name |-> name]
        [] Has(tokens, 1, <<"ALTER", "TABLE">>) -> parseAlterTable(tokens)
        [] OTHER -> Error
-----------------------------------------------------------------------------
(***************************************************************************)
(* Reading a file, a statement at a time.  Names are made of words without *)
(* punctuation: what @map could put into them beyond that is left out.     *)
(* Types close their quotes.  The text of @default("...") can be any, for  *)
(* convertDefault puts it between two apostrophes as it is, but for line   *)
(* breaks, and with them a line that is a comment or a marker of goose;    *)
(* dbgenerated holds an expression of SQL, which closes its quotes and     *)
(* its parentheses.                                                        *)
(***************************************************************************)
Name == {n \in Seq(STRING) \ {<< >>} : ToSet(n) \cap (Quotes \cup {" ", ",", ";", "(", ")"}) = {}}

\* No quote is open at the end, and a semicolon is in quotes.
Closes(t) == Last(OpenQuotes(t)) = None /\ \A i \in Outside(t) : t[i] # ";"

Fragment == {t \in Seq(STRING) \ {<< >>} : Closes(t)}

AnyString == {t \in Seq(STRING) : Len(t) >= 2 /\ t[1] = "'" /\ Last(t) = "'"}

Literal == AnyString \cup {<<x>> : x \in Numerals \cup {"true", "false"}}

\* Parentheses match, a comma is in them, and a cast names a type.
Expression ==
  {t \in Fragment :
     LET outside == Outside(t)
     IN  /\ ToSet(t) # {" "}
         /\ \A i \in DOMAIN t : Level(t, outside, i) >= 0
         /\ Level(t, outside, Len(t)) = 0
         /\ \A i \in outside : t[i] = "," => Level(t, outside, i) > 0
         /\ \A i \in outside \ {1} : t[i] = "(" => t[i - 1] # "::"}

Value == [kind : {"literal"}, text : Literal] \cup [kind : {"expression"}, text : Expression]

Column == [name : Name, type : Fragment, nullable : BOOLEAN, default : Value \cup {NoDefault}]

Statement ==
  [stmt : {"CREATE TABLE"}, table : Name, cols : Seq(Column) \ {<< >>},
   pk : Seq(Name), uniques : Seq(Seq(Name))]
  \cup [stmt : {"DROP TABLE"}, table : Name]
  \cup [stmt : {"ADD COLUMN"}, table : Name, coldef : Column]
  \cup [stmt : {"DROP COLUMN", "SET NOT NULL", "DROP NOT NULL", "DROP DEFAULT"}, table : Name,
        column : Name]
  \cup [stmt : {"RENAME COLUMN"}, table : Name, column : Name, to : Name]
  \cup [stmt : {"ALTER TYPE"}, table : Name, column : Name, type : Fragment]
  \cup [stmt : {"SET DEFAULT"}, table : Name, column : Name, default : Value]
  \cup [stmt : {"CREATE INDEX"}, table : Name, name : Name, cols : Seq(Name), unique : BOOLEAN]
  \cup [stmt : {"DROP INDEX"}, name : Name]
  \cup [stmt : {"ADD CONSTRAINT"}, table : Name, name : Name, cols : Seq(Name), refTable : Name,
        refCols : Seq(Name)]
  \cup [stmt : {"DROP CONSTRAINT"}, table : Name, name : Name]
  \cup [stmt : {"CREATE TYPE"}, enum : Name, values : Seq(Name)]
  \cup [stmt : {"ADD VALUE"}, enum : Name, value : Name]
  \cup [stmt : {"DROP TYPE"}, enum : Name]

ASSUME FilesAssumption == Files \subseteq Seq(Statement)

Init ==
  /\ stmts \in Files
  /\ text = UpSection(stmts)
  /\ read = << >>
  /\ status = "reading"

Semicolons == {i \in DOMAIN text : text[i] = ";"}

\* Mutant: quotes do not count.
StatementEndAnywhere == Min(Semicolons)

\* splitStatements: up to the next semicolon that is not quoted, or else to the end
\* of the file, without the last semicolon
StatementEnd == Min((Semicolons \cap Outside(text)) \cup {Max(Semicolons)})

\* A statement that is empty is no statement.
ReadStatement ==
  /\ status = "reading" /\ text # << >>
  /\ LET sql == SubSeq(text, 1, StatementEnd - 1)
     IN  CASE sql = << >> -> UNCHANGED <<read, status>>
           [] sql # << >> /\ Parse(sql) = Error -> status' = "refused" /\ UNCHANGED read
           [] OTHER -> read' = Append(read, Parse(sql)) /\ UNCHANGED status
  /\ text' = TrimSpace(From(text, StatementEnd + 1))
  /\ UNCHANGED stmts

ReadEnd ==
  /\ status = "reading" /\ text = << >>
  /\ status' = "read"
  /\ UNCHANGED <<stmts, text, read>>

Next == ReadStatement \/ ReadEnd

Spec == Init /\ [][Next]_vars
-----------------------------------------------------------------------------
\* No name keeps its quotes.
Unquoted(v) ==
  \A field \in {"table", "column", "name", "enum", "to"} \cap DOMAIN v : ToSet(v[field]) \cap Quotes = {}

\* What is read has the shape of a statement.
TypeOK ==
  /\ stmts \in Files
  /\ status \in {"reading", "read", "refused"}
  /\ \A i \in DOMAIN read : Unquoted(read[i])

\* The statement closes its quotes, and its end is the first semicolon outside of them.
SelfContained(v) == Closes(Spell(v))

\* As long as the statements of a file close their quotes, each is read as it is when
\* it is alone in its file, and the first that is an error alone is where the file is
\* refused, whatever semicolons their strings hold and whatever comes later in the
\* file (loader.go:147).
EachAlone ==
  LET apart(n) == n <= Len(stmts) /\ \A i \in 1..n : SelfContained(stmts[i])
      came     == IF status = "refused" THEN Append(read, Error) ELSE read
  IN  /\ \A i \in DOMAIN came :
           apart(i) => came[i] = Parse(Spell(stmts[i])) /\ (came[i] = Error <=> i > Len(read))
      /\ apart(Len(stmts)) => Len(came) <= Len(stmts) /\ (status = "read" => Len(came) = Len(stmts))

(***************************************************************************)
(* What the tokens, the search for a name and the parentheses cannot take. *)
(***************************************************************************)
\* The parser sees one word of a type, and one group of parentheses in CREATE TABLE
\* and ADD COLUMN: VARCHAR(9)[] loses its brackets.
TypeRefused(type) == IsPrefix(<<"DOUBLE", " ">>, type)

TypeKept(type) == ~Contains(type, " ") /\ ~(Contains(type, "(") /\ Contains(type, "[]"))

DefaultsIn(v) ==
  CASE v.stmt = "CREATE TABLE" -> {v.cols[i].default : i \in DOMAIN v.cols} \ {NoDefault}
    [] v.stmt = "ADD COLUMN"   -> {v.coldef.default} \ {NoDefault}
    [] v.stmt = "SET DEFAULT"  -> {v.default}
    [] OTHER -> {}

\* In the strings among the defaults, apostrophes are doubled.
WellQuoted(v) ==
  \A d \in DefaultsIn(v) : d.text \in AnyString /\ d.kind = "literal" =>
    Closes(d.text) /\ \A i \in Outside(d.text) : d.text[i] = "'"

\* A blank outside of quotes and parentheses ends a default.
LosesBlank(t) == \E i \in Outside(t) : t[i] = " " /\ Level(t, Outside(t), i) = 0

\* Where the parser begins a token within t: at each parenthesis that opens, and
\* behind each group that closes.
Breaks(t) ==
  {i \in Outside(t) \ {1} :
     \/ t[i] = "("
     \/ i - 1 \in Outside(t) /\ t[i - 1] = ")" /\ Level(t, Outside(t), i - 1) = 0}

\* A call of plain arguments: its one break is the parenthesis at i.
BreaksOnceAt(t, i) == Breaks(t) = {i} /\ t[i] = "("

KindKept(d) == d.kind = "literal" <=> LooksLiteral(d.text)

\* In CREATE TABLE one break may be anywhere, in lower(a) and in (now() + 9), but
\* lower(trim(a)) has two, now()::date has another behind its group, and (9 + 9) loses
\* its parentheses.
DefaultKept(d) ==
  /\ KindKept(d) /\ ~LosesBlank(d.text)
  /\ \/ Breaks(d.text) = {} /\ d.text[1] # "("
     \/ \E i \in DOMAIN d.text : BreaksOnceAt(d.text, i)

\* ADD COLUMN puts a blank where it was broken, which stays if it is in parentheses.
AddedDefaultKept(d) ==
  /\ DefaultKept(d)
  /\ \A i \in Breaks(d.text) : Level(d.text, Outside(d.text), i - 1) = 0

\* SET DEFAULT takes one token as it is.
SetDefaultKept(d) == KindKept(d) /\ ~LosesBlank(d.text) /\ Breaks(d.text) = {}

ColumnKept(c, Kept(_)) == TypeKept(c.type) /\ (c.default = NoDefault \/ Kept(c.default))

\* A string in a default closes or opens a parenthesis of the statement.
CutsShort(v) ==
  v.stmt = "CREATE TABLE" /\ \E i \in DOMAIN Body(v) : Level(Body(v), DOMAIN Body(v), i) < 0

NeverCloses(v) == ~CutsShort(v) /\ Level(Body(v), DOMAIN Body(v), Len(Body(v))) > 0

\* A column of CREATE TABLE that is taken for a constraint, unless it is quoted: one
\* named check or unique for a constraint without columns, and another for one that
\* is of no type.
TakenForKey(n) == quoteIdentifier(n) = n /\ n[1] \in {"unique", "check", "constraint"}

IsKey(n) == TakenForKey(n) /\ n \in {<<"unique">>, <<"check">>}

Refused(v) ==
  CASE v.stmt = "CREATE TABLE" ->
         \/ NeverCloses(v)
         \/ \E i \in DOMAIN v.cols :
              IF TakenForKey(v.cols[i].name) THEN ~IsKey(v.cols[i].name)
              ELSE TypeRefused(v.cols[i].type)
    [] v.stmt = "ADD COLUMN"   -> TypeRefused(v.coldef.type)
    [] v.stmt = "ALTER TYPE"   -> TypeRefused(v.type)
    [] v.stmt = "CREATE INDEX" -> \E i \in DOMAIN v.cols : Occurrences(v.table, v.cols[i]) # {}
    [] v.stmt = "CREATE TYPE"  -> v.values = << >> \/ v.enum = <<"as">>
    [] v.stmt \in {"ADD CONSTRAINT", "DROP CONSTRAINT", "ADD VALUE"} -> TRUE
    [] OTHER -> FALSE

Readable(v) ==
  /\ ~CutsShort(v) /\ ~Refused(v)
  /\ v.stmt = "CREATE TABLE" =>
       \A i \in DOMAIN v.cols : ~TakenForKey(v.cols[i].name) /\ ColumnKept(v.cols[i], DefaultKept)
  /\ v.stmt = "ADD COLUMN" => ColumnKept(v.coldef, AddedDefaultKept)
  /\ v.stmt = "ALTER TYPE" => TypeKept(v.type) /\ ~Contains(v.type, "(")
  /\ v.stmt = "SET DEFAULT" => SetDefaultKept(v.default)

\* What the parser makes of a statement that is alone in its file.
Alone(v) ==
  LET got == Parse(Spell(v))
  IN  /\ got = v <=> Readable(v)
      /\ ~CutsShort(v) => (got = Error <=> Refused(v))
      /\ Unquoted(got)

\* Statements made of keywords, names, labels and lists of names, one token each.
IsOfNames(v) ==
  v.stmt \in {"DROP TABLE", "DROP COLUMN", "RENAME COLUMN", "SET NOT NULL", "DROP NOT NULL",
             "DROP DEFAULT", "DROP INDEX", "ADD CONSTRAINT", "DROP CONSTRAINT", "ADD VALUE",
             "DROP TYPE"}

\* A statement that does not close its quotes, as one with the default 'it's', takes
\* the statements after it with it (converter.go:473, loader.go:147).  A file whose
\* strings are well quoted is read back as it was written if and only if each of its
\* statements is readable, whatever commas, semicolons and keywords its strings and
\* names hold (parser.go:19-1063).
ReadBack ==
  LET kept == status = "read" /\ read = stmts
  IN  status # "reading" =>
        /\ kept => \A i \in 1..(Len(stmts) - 1) : SelfContained(stmts[i])
        /\ (\A i \in DOMAIN stmts : WellQuoted(stmts[i])) =>
             (kept <=> \A i \in DOMAIN stmts : Readable(stmts[i]))

\* A file whose strings are well quoted is refused, whatever the schema is it applies
\* to, if and only if one of its statements has a name, a type or a parenthesis that
\* misleads the parser, or is of a kind the builder does not know; what else is lost
\* goes unnoticed (parser.go:139, parser.go:781, builder.go:42, builder.go:139, builder.go:333).
RefusalsAreKnown ==
  status # "reading" /\ (\A i \in DOMAIN stmts : WellQuoted(stmts[i]) /\ ~CutsShort(stmts[i])) =>
    (status = "refused" <=> \E i \in DOMAIN stmts : Refused(stmts[i]))
=============================================================================
