----------------------------- MODULE PrismaParser -----------------------------
(***************************************************************************)
(* Reading the Prisma file: the lexer and the recursive descent parser, as *)
(* one machine that advances a token at a time.                            *)
(*                                                                         *)
(* The text is a sequence of symbols: a symbol is a word (a maximal run of *)
(* identifier characters), a numeral, or one other character.  Blanks are  *)
(* left out, but for the newline, which ends a comment.  The syntax tree   *)
(* is abstracted to the positions of the symbols that went into it.        *)
(***************************************************************************)
EXTENDS Integers, Sequences, FiniteSets

CONSTANTS
  Inputs,   \* the texts to read
  Words,    \* words that are not reserved
  Numerals  \* numerals that fit a 64 bit float

Declarations == {"model", "enum", "datasource", "generator"}
TypeWords    == {"String", "Int", "BigInt", "Float", "Decimal", "Boolean",
                 "DateTime", "Json", "Bytes"}
Punctuation  == {"{", "}", "(", ")", "[", "]", ",", ":", "=", "?"}
\* words that start a declaration of Prisma but not of this parser, a numeral
\* that no float holds, and any character no token starts with
Others       == {"type", "view", "1e999", "#", "\\"}
Symbols == Declarations \cup TypeWords \cup Punctuation \cup Others \cup Words
             \cup Numerals \cup {"true", "false", "@", "/", "quote", "newline"}

ASSUME InputsAssumption == Inputs \subseteq Seq(Symbols)
ASSUME WordsAssumption ==
  (Words \cup Numerals) \cap
    (Declarations \cup TypeWords \cup Punctuation \cup Others
       \cup {"true", "false", "@", "/", "quote", "newline", "eof"}) = {}

VARIABLES
  text,    \* the file
  tokens,  \* what the lexer has yet to return, from the current token on
  stack,   \* the parse functions under way, innermost last, and where each is
  used,    \* the tokens a parse function accepted
  failed,  \* addError was called
  status

vars == <<text, tokens, stack, used, failed, status>>
-----------------------------------------------------------------------------
(***************************************************************************)
(* The lexer.                                                              *)
(***************************************************************************)
Token(kind, first, next) == [kind |-> kind, first |-> first, next |-> next]

First(S) == CHOOSE i \in S : \A j \in S : i <= j

EndOf(s) == Len(s) + 1

At(s, i) == IF i <= Len(s) THEN s[i] ELSE "eof"

SkipWhitespace(s, i) ==
  First({j \in i..EndOf(s) : At(s, j) # "newline"} \cup {EndOf(s)})

\* Mutant: a string ends at its first quote.
EscapedNever(s, q, k) == FALSE

\* k follows an odd run of backslashes that starts after the quote at q
Escaped(s, q, k) ==
  LET before == {j \in q..(k - 1) : s[j] # "\\"}
      last   == CHOOSE j \in before : \A i \in before : i <= j
  IN  (k - 1 - last) % 2 = 1

\* The text of a string ends at a quote or with the file; after a backslash
\* that ends the file the slice runs past it.
StringToken(s, q) ==
  LET ends == {k \in (q + 1)..EndOf(s) :
                 At(s, k) \in {"quote", "eof"} /\ ~Escaped(s, q, k)}
  IN  IF ends = {} THEN Token("panic", q, EndOf(s))
      ELSE Token("string", q, First(ends \cup {EndOf(s)}) + 1)

CommentToken(s, i) ==
  Token("comment", i, First({j \in i..EndOf(s) : At(s, j) \in {"newline", "eof"}}))

\* Mutant: each word of the language is a kind of its own.
LookupIdentRaw(word) == IF word \in Words THEN "ident" ELSE word

LookupIdent(word) ==
  CASE word \in Declarations \cup {"true", "false"} -> word
    [] word \in TypeWords -> "type"
    [] word \in Words -> "ident"
    [] OTHER -> "keyword"

\* NextToken at position i.
Lex(s, i) ==
  LET f == SkipWhitespace(s, i)
      c == At(s, f)
      one(kind) == Token(kind, f, f + 1)
  IN  CASE c = "eof" -> Token("eof", f, f)
        [] c \in Punctuation -> one(c)
        [] c = "@" -> IF At(s, f + 1) = "@" THEN Token("@@", f, f + 2) ELSE one("@")
        [] c = "quote" -> StringToken(s, f)
        [] c = "/" -> IF At(s, f + 1) = "/" THEN CommentToken(s, f) ELSE one("illegal")
        [] c \in Numerals -> one("number")
        [] c = "1e999" -> one("huge")
        [] c \in {"#", "\\"} -> one("illegal")
        [] OTHER -> one(LookupIdent(c))

\* What NextToken returns from the start on, without the comments; the last
\* token is returned for ever.
TokensOf(s) ==
  LET from[i \in 1..(EndOf(s) + 1)] ==
        LET t == Lex(s, i)
        IN  CASE t.kind \in {"eof", "panic"} -> <<t>>
              [] t.kind = "comment" -> from[t.next]
              [] OTHER -> <<t>> \o from[t.next]
  IN  from[1]
-----------------------------------------------------------------------------
(***************************************************************************)
(* What a parse function does with the current token and with the stack.   *)
(***************************************************************************)
cur == Head(tokens)

peek == IF Len(tokens) > 1 THEN tokens[2] ELSE cur

Frame(function, at) == [function |-> function, at |-> at]

Top == stack[Len(stack)]

Below == SubSeq(stack, 1, Len(stack) - 1)

In(function, at) == status = "parsing" /\ Top = Frame(function, at)

Is(kind) == cur.kind = kind

NextToken ==
  /\ tokens' = IF Is("eof") THEN tokens ELSE Tail(tokens)
  /\ status' = IF peek'.kind = "panic" THEN "panicked" ELSE status

Accept == NextToken /\ used' = used \cup {cur} /\ UNCHANGED <<text, failed>>

\* Mutant: a token is skipped without an error.
SkipSilently == NextToken /\ UNCHANGED <<text, used, failed>>

Skip == NextToken /\ failed' = TRUE /\ UNCHANGED <<text, used>>

Stay == UNCHANGED <<text, tokens, used, failed, status>>

Error == failed' = TRUE /\ UNCHANGED <<text, tokens, used, status>>

Go(at) == stack' = Append(Below, [Top EXCEPT !.at = at])

Become(function, at) == stack' = Append(Below, Frame(function, at))

Call(at, function, inner) ==
  stack' = Below \o <<[Top EXCEPT !.at = at], Frame(function, inner)>>

Return == stack' = Below

Keep == stack' = stack
-----------------------------------------------------------------------------
Init ==
  /\ text \in Inputs
  /\ tokens = TokensOf(text)
  /\ stack = <<Frame("schema", "start")>>
  /\ used = {}
  /\ failed = FALSE
  /\ status = IF "panic" \in {cur.kind, peek.kind} THEN "panicked" ELSE "parsing"

(***************************************************************************)
(* ParseSchema and parseDeclaration.  The loop also ends at an illegal     *)
(* token, but not before the first declaration.                            *)
(***************************************************************************)
AtDeclaration ==
  \/ In("schema", "start") /\ ~Is("eof")
  \/ In("schema", "next") /\ cur.kind \notin {"eof", "illegal"}

ParseDeclaration ==
  /\ AtDeclaration
  /\ cur.kind \in Declarations
  /\ Accept
  /\ Call("next", cur.kind, "name")

SkipDeclaration ==
  /\ AtDeclaration
  /\ cur.kind \notin Declarations
  /\ Skip
  /\ Go("next")

Finish ==
  /\ In("schema", "start") \/ In("schema", "next")
  /\ ~AtDeclaration
  /\ status' = IF failed THEN "rejected" ELSE "accepted"
  /\ UNCHANGED <<text, tokens, stack, used, failed>>

(***************************************************************************)
(* parseModel, parseEnum, parseDatasource and parseGenerator: name, brace, *)
(* body, brace.                                                            *)
(***************************************************************************)
InDeclaration(at) == \E d \in Declarations : In(d, at)

DeclarationName ==
  /\ InDeclaration("name")
  /\ \/ Is("ident") /\ Accept /\ Go("open")
     \/ ~Is("ident") /\ Error /\ Return

DeclarationOpen ==
  /\ InDeclaration("open")
  /\ \/ Is("{") /\ Accept /\ Go("body")
     \/ ~Is("{") /\ Error /\ Return

\* Mutant: the end of the file closes a block.
DeclarationCloseAtEnd ==
  /\ InDeclaration("body")
  /\ \/ Is("}") /\ Accept /\ Return
     \/ Is("eof") /\ Stay /\ Return

DeclarationClose ==
  /\ InDeclaration("body")
  /\ \/ Is("}") /\ Accept /\ Return
     \/ Is("eof") /\ Error /\ Return

InBody(d) == In(d, "body") /\ cur.kind \notin {"}", "eof"}

ModelBody ==
  /\ InBody("model")
  /\ \/ Is("@@") /\ Accept /\ Call("body", "attribute", "name")
     \/ Is("ident") /\ Accept /\ Call("body", "field", "type")
     \/ cur.kind \notin {"@@", "ident"} /\ Skip /\ Keep

\* Mutant: an error does not advance.
EnumBodyStuck ==
  /\ InBody("enum")
  /\ \/ Is("ident") /\ Accept /\ Keep
     \/ ~Is("ident") /\ Error /\ Keep

EnumBody ==
  /\ InBody("enum")
  /\ \/ Is("ident") /\ Accept /\ Keep
     \/ ~Is("ident") /\ Skip /\ Keep

\* parseProperty
PropertyKey ==
  /\ InBody("datasource") \/ InBody("generator")
  /\ \/ Is("ident") /\ Accept /\ Call("body", "property", "equal")
     \/ ~Is("ident") /\ Skip /\ Keep

PropertyEqual ==
  /\ In("property", "equal")
  /\ \/ Is("=") /\ Accept /\ Go("value")
     \/ ~Is("=") /\ Error /\ Return

PropertyValue ==
  /\ In("property", "value")
  /\ \/ Is("string") /\ Accept /\ Return
     \/ Is("ident") /\ Accept /\ Become("call", "open")
     \/ cur.kind \notin {"string", "ident"} /\ Skip /\ Return

(***************************************************************************)
(* parseField and parseFieldType.  The line a token stands on has no part  *)
(* in it.                                                                  *)
(***************************************************************************)
FieldType ==
  /\ In("field", "type")
  /\ \/ cur.kind \in {"type", "ident"} /\ Accept /\ Go("list")
     \/ cur.kind \notin {"type", "ident"} /\ Error /\ Go("attributes")

FieldList ==
  /\ In("field", "list")
  /\ \/ Is("[") /\ Accept /\ Go("close")
     \/ ~Is("[") /\ Stay /\ Go("optional")

FieldListClose ==
  /\ In("field", "close")
  /\ \/ Is("]") /\ Accept /\ Go("optional")
     \/ ~Is("]") /\ Error /\ Go("attributes")

FieldOptional ==
  /\ In("field", "optional")
  /\ \/ Is("?") /\ Accept /\ Go("attributes")
     \/ ~Is("?") /\ Stay /\ Go("attributes")

FieldAttributes ==
  /\ In("field", "attributes")
  /\ \/ Is("@") /\ Accept /\ Call("attributes", "attribute", "name")
     \/ ~Is("@") /\ Stay /\ Return

\* parseFieldAttribute and parseModelAttribute
AttributeName ==
  /\ In("attribute", "name")
  /\ \/ Is("ident") /\ Accept /\ Become("call", "open")
     \/ ~Is("ident") /\ Error /\ Return

\* A name may be followed by arguments; parseFunctionCall.
CallOpen ==
  /\ In("call", "open")
  /\ \/ Is("(") /\ Accept /\ Become("arguments", "item")
     \/ ~Is("(") /\ Stay /\ Return

(***************************************************************************)
(* parseArguments, parseArgument and parseArgumentValue.                   *)
(***************************************************************************)
ArgumentsClose ==
  /\ In("arguments", "item")
  /\ \/ Is(")") /\ Accept /\ Return
     \/ Is("eof") /\ Error /\ Return

Argument ==
  /\ In("arguments", "item")
  /\ cur.kind \notin {")", "eof"}
  /\ IF Is("ident") /\ peek.kind = ":" THEN Accept /\ Go("colon") ELSE Stay /\ Go("value")

ArgumentColon == In("arguments", "colon") /\ Accept /\ Go("value")

Scalars == {"string", "number", "true", "false"}

ArgumentValue ==
  /\ In("arguments", "value")
  /\ \/ cur.kind \in Scalars /\ Accept /\ Go("separator")
     \/ Is("[") /\ Accept /\ Call("separator", "array", "item")
     \/ Is("ident") /\ Accept /\ Call("separator", "call", "open")
     \/ cur.kind \notin Scalars \cup {"[", "ident"} /\ Skip /\ Go("separator")

ArgumentSeparator ==
  /\ In("arguments", "separator")
  /\ \/ Is(",") /\ Accept /\ Go("item")
     \/ Is(")") /\ Stay /\ Go("item")
     \/ cur.kind \notin {",", ")"} /\ Error /\ Return

\* parseArrayValue
ArrayItem ==
  /\ In("array", "item")
  /\ \/ Is("]") /\ Accept /\ Return
     \/ Is("eof") /\ Error /\ Return
     \/ Is("ident") /\ Accept /\ Go("separator")
     \/ cur.kind \notin {"]", "eof", "ident"} /\ Skip /\ Go("separator")

ArraySeparator ==
  /\ In("array", "separator")
  /\ \/ Is(",") /\ Accept /\ Go("item")
     \/ Is("]") /\ Stay /\ Go("item")
     \/ cur.kind \notin {",", "]"} /\ Error /\ Return

ParseSchema == ParseDeclaration \/ SkipDeclaration \/ Finish
ParseBlock == \/ DeclarationName \/ DeclarationOpen \/ DeclarationClose
              \/ ModelBody \/ EnumBody
              \/ PropertyKey \/ PropertyEqual \/ PropertyValue
ParseField == \/ FieldType \/ FieldList \/ FieldListClose \/ FieldOptional
              \/ FieldAttributes \/ AttributeName
ParseArguments == \/ CallOpen \/ ArgumentsClose \/ Argument \/ ArgumentColon
                  \/ ArgumentValue \/ ArgumentSeparator
                  \/ ArrayItem \/ ArraySeparator

Next == ParseSchema \/ ParseBlock \/ ParseField \/ ParseArguments

\* The parser is a loop in one thread: it takes its next step.
Spec == Init /\ [][Next]_vars /\ WF_vars(Next)
-----------------------------------------------------------------------------
TokenKinds == {"eof", "illegal", "panic", "ident", "type", "keyword", "string",
               "number", "huge", "true", "false", "@", "@@"}
                \cup Declarations \cup Punctuation

TokenType == [kind : TokenKinds, first : Nat, next : Nat]

Functions == Declarations \cup
  {"schema", "property", "field", "attribute", "call", "arguments", "array"}

TypeOK ==
  /\ text \in Seq(Symbols)
  /\ tokens \in Seq(TokenType) \ {<< >>}
  /\ \A i \in DOMAIN stack : stack[i].function \in Functions
  /\ stack # << >>
  /\ used \subseteq TokenType
  /\ failed \in BOOLEAN
  /\ status \in {"parsing", "accepted", "rejected", "panicked"}

InComment(i) ==
  \E j \in 1..i :
    /\ At(text, j) = "/" /\ At(text, j + 1) = "/"
    /\ \A k \in j..i : text[k] # "newline"

Used(i) == \E t \in used : i \in t.first..(t.next - 1)

\* Nothing of an accepted file is lost: each symbol up to where the parser
\* stopped went into the tree, unless it is a comment.  An error path that skips
\* a token and does not call addError would lose it.
AcceptedIsKept ==
  status = "accepted" =>
    \A i \in DOMAIN text :
      i < cur.first => Used(i) \/ text[i] = "newline" \/ InComment(i)

Count(kind) == Cardinality({t \in used : t.kind = kind})

\* An accepted text closes what it opens: expect sees each bracket.
AcceptedIsBalanced ==
  status = "accepted" =>
    Count("{") = Count("}") /\ Count("(") = Count(")") /\ Count("[") = Count("]")

\* The parser stops on every text: each turn of each loop consumes a token or
\* leaves the loop, also on its error paths.
ParserStops == <>(status # "parsing")

\* "Validate Prisma schema syntax": an accepted file was read to its end.
AcceptedIsWhole == status = "accepted" => Is("eof")
=============================================================================
