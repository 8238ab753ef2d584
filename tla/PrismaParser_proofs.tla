------------------------- MODULE PrismaParser_proofs --------------------------
(***************************************************************************)
(* The Prisma parser: what it accepts it has read, and it closes what it   *)
(* opens, for every text over any words and numerals.                      *)
(***************************************************************************)
EXTENDS PrismaParser, FiniteSetTheorems, Induction_proofs

(***************************************************************************)
(* The lexer.  Between two tokens there is nothing but newlines and        *)
(* comments, and the last token is the end of the file or a panic.         *)
(***************************************************************************)
Ends == {"eof", "panic"}

\* A position no token is at.
Hidden(s, i) ==
  \/ s[i] = "newline"
  \/ \E j \in 1..i : /\ At(s, j) = "/" /\ At(s, j + 1) = "/"
                     /\ \A k \in j..i : s[k] # "newline"

\* The least of some positions is one of them.
LEMMA FirstIs ==
  ASSUME NEW S, S \subseteq Nat, S # {}
  PROVE  First(S) \in S /\ \A j \in S : First(S) <= j
<1>1. \E i \in S : \A j \in S : i <= j
  BY LeastExists
<1> QED
  BY <1>1, Zenon DEF First

\* Whitespace ends at a symbol of its own or with the text.
LEMMA WhitespaceIs ==
  ASSUME NEW s \in Seq(Symbols), NEW i \in 1..EndOf(s) + 1, NEW f, f = SkipWhitespace(s, i)
  PROVE  /\ f \in 1..EndOf(s)
         /\ \A j \in i..f - 1 : s[j] = "newline"
         /\ f <= Len(s) => i <= f /\ s[f] # "newline"
<1> DEFINE S == {j \in i..EndOf(s) : At(s, j) # "newline"} \cup {EndOf(s)}
<1>1. Len(s) \in Nat /\ EndOf(s) = Len(s) + 1
  BY DEF EndOf
<1>2. S \subseteq Nat /\ S # {}
  BY <1>1
<1>3. f = First(S)
  BY DEF SkipWhitespace
<1>4. f \in S /\ \A j \in S : f <= j
  BY <1>2, <1>3, FirstIs
<1>5. f \in 1..EndOf(s)
  BY <1>1, <1>4
<1>6. ASSUME NEW j \in i..f - 1 PROVE s[j] = "newline"
  BY <1>1, <1>4, <1>5, <1>6 DEF At
<1>7. f <= Len(s) => i <= f /\ s[f] # "newline"
  BY <1>1, <1>4, <1>5 DEF At
<1> QED
  BY <1>5, <1>6, <1>7

\* A string is a token that ends within the text, or one place after it.
LEMMA StringIs ==
  ASSUME NEW s \in Seq(Symbols), NEW q \in 1..Len(s)
  PROVE  \/ StringToken(s, q) = Token("panic", q, EndOf(s))
         \/ \E n \in q + 1..EndOf(s) + 1 : StringToken(s, q) = Token("string", q, n)
<1> DEFINE ends == {k \in (q + 1)..EndOf(s) : At(s, k) \in {"quote", "eof"} /\ ~Escaped(s, q, k)}
<1>1. Len(s) \in Nat /\ EndOf(s) = Len(s) + 1
  BY DEF EndOf
<1>2. StringToken(s, q) = IF ends = {} THEN Token("panic", q, EndOf(s))
                          ELSE Token("string", q, First(ends \cup {EndOf(s)}) + 1)
  BY Zenon DEF StringToken
<1>3. q \in Nat /\ q <= Len(s)
  BY <1>1
<1>4. \A k \in ends \cup {EndOf(s)} : k \in q..EndOf(s)
  BY <1>1, <1>3
<1> HIDE DEF ends
<1>5. ends \cup {EndOf(s)} \subseteq Nat
  BY <1>3, <1>4
<1>6. First(ends \cup {EndOf(s)}) + 1 \in q + 1..EndOf(s) + 1
  <2>1. PICK k : k = First(ends \cup {EndOf(s)})
    OBVIOUS
  <2>2. k \in ends \cup {EndOf(s)}
    BY <1>5, <2>1, FirstIs
  <2>3. k \in q..EndOf(s)
    BY <1>4, <2>2
  <2>4. k + 1 \in q + 1..EndOf(s) + 1
    BY <1>1, <1>3, <2>3
  <2> QED
    BY <2>1, <2>4
<1> QED
  BY <1>2, <1>6

\* A comment ends with its line.
LEMMA CommentIs ==
  ASSUME NEW s \in Seq(Symbols), NEW f \in 1..Len(s), s[f] = "/", At(s, f + 1) = "/"
  PROVE  \E n \in f + 1..EndOf(s) :
           CommentToken(s, f) = Token("comment", f, n) /\ \A j \in f..n - 1 : Hidden(s, j)
<1> DEFINE S == {j \in f..EndOf(s) : At(s, j) \in {"newline", "eof"}}
<1>0. PICK n : n = First(S)
  OBVIOUS
<1>1. Len(s) \in Nat /\ EndOf(s) = Len(s) + 1
  BY DEF EndOf
<1>2. EndOf(s) \in S
  BY <1>1 DEF At
<1>3. n \in S /\ \A j \in S : n <= j
  <2>1. S \subseteq Nat /\ S # {}
    BY <1>1, <1>2
  <2> HIDE DEF S
  <2> QED
    BY <1>0, <2>1, FirstIs
<1>4. n # f
  BY <1>1, <1>3 DEF At
<1>5. n \in f + 1..EndOf(s)
  BY <1>1, <1>3, <1>4
<1>6. ASSUME NEW j \in f..n - 1 PROVE s[j] # "newline"
  <2>1. j \in f..EndOf(s) /\ j <= Len(s) /\ ~(n <= j)
    BY <1>1, <1>5
  <2>2. j \notin S
    BY <1>3, <2>1
  <2>3. At(s, j) # "newline"
    BY <2>1, <2>2
  <2> QED
    BY <2>1, <2>3 DEF At
<1>7. \A j \in f..n - 1 : Hidden(s, j)
  <2> SUFFICES ASSUME NEW j \in f..n - 1 PROVE Hidden(s, j)
    OBVIOUS
  <2>1. f \in 1..j /\ At(s, f) = "/"
    BY DEF At
  <2>2. \A k \in f..j : s[k] # "newline"
    BY <1>1, <1>5, <1>6
  <2>3. At(s, f + 1) = "/"
    OBVIOUS
  <2> QED
    BY <2>1, <2>2, <2>3 DEF Hidden
<1>8. CommentToken(s, f) = Token("comment", f, n)
  BY <1>0 DEF CommentToken
<1> QED
  BY <1>5, <1>7, <1>8

\* What NextToken returns at position i: the end, a comment or a token.
IsEnd(t) == t \in TokenType /\ t.kind \in Ends

IsComment(s, t) ==
  /\ t.kind = "comment" /\ t.first <= Len(s)
  /\ t.next \in t.first + 1..EndOf(s)
  /\ \A j \in t.first..t.next - 1 : Hidden(s, j)

IsToken(s, t) ==
  /\ t \in TokenType /\ t.kind \notin Ends \cup {"comment"} /\ t.first <= Len(s)
  /\ t.next \in t.first + 1..EndOf(s) + 1

\* A word is a token of a kind of its own, of a type or an identifier, or none the
\* parser expects.
LEMMA IdentIs == ASSUME NEW c PROVE LookupIdent(c) \in TokenKinds \ Ends
<1>1. LookupIdent(c) \in Declarations \cup {"true", "false", "type", "ident", "keyword"}
  BY Zenon DEF LookupIdent
<1> QED
  BY <1>1 DEF TokenKinds, Declarations, Ends

\* A symbol with a meaning of its own is no numeral, and no other one.
LEMMA Special ==
  ASSUME NEW c \in {"eof", "@", "quote", "/"}
  PROVE  c \notin Numerals /\ c \notin Punctuation
BY WordsAssumption DEF Punctuation

\* The token at a position: the end or a panic, a comment, or one the parser sees.
LEMMA LexIs ==
  ASSUME NEW s \in Seq(Symbols), NEW i \in 1..EndOf(s) + 1, NEW t, t = Lex(s, i)
  PROVE  /\ t.first = SkipWhitespace(s, i)
         /\ IsEnd(t) \/ IsComment(s, t) \/ IsToken(s, t)
<1> DEFINE f == SkipWhitespace(s, i)
           c == At(s, f)
<1>1. Len(s) \in Nat /\ EndOf(s) = Len(s) + 1
  BY DEF EndOf
<1>2. f \in 1..EndOf(s) /\ (f <= Len(s) => s[f] # "newline")
  BY WhitespaceIs
<1>3. CASE c = "eof"
  <2>1. t = Token("eof", f, f)
    BY <1>3, Special DEF Lex
  <2> QED
    BY <1>1, <1>2, <2>1 DEF Token, IsEnd, TokenType, TokenKinds, Ends
<1>4. CASE c # "eof"
  <2>1. f \in 1..Len(s) /\ c = s[f] /\ c \in Symbols /\ c # "newline"
    BY <1>1, <1>2, <1>4 DEF At
  <2>2. ASSUME NEW kind \in TokenKinds, kind \notin Ends,
               NEW n \in {1, 2}, f + n <= EndOf(s) + 1, t = Token(kind, f, f + n)
        PROVE  t.first = f /\ IsToken(s, t)
    <3>1. kind # "comment"
      BY <2>2 DEF TokenKinds, Declarations, Punctuation
    <3> QED
      BY <1>1, <2>1, <2>2, <3>1 DEF Token, IsToken, TokenType
  <2>3. CASE c = "quote"
    <3>1. t = StringToken(s, f)
      BY <2>3, Special DEF Lex
    <3> QED
      BY <1>1, <2>1, <3>1, StringIs DEF Token, IsEnd, IsToken, TokenType, TokenKinds, Ends
  <2>4. CASE c = "/"
    <3>1. CASE At(s, f + 1) = "/"
      <4>1. t = CommentToken(s, f)
        BY <2>4, <3>1, Special DEF Lex
      <4>2. PICK n \in f + 1..EndOf(s) :
              t = Token("comment", f, n) /\ \A j \in f..n - 1 : Hidden(s, j)
        BY <2>1, <2>4, <3>1, <4>1, CommentIs
      <4> QED
        BY <1>1, <2>1, <4>2 DEF Token, IsComment
    <3>2. CASE At(s, f + 1) # "/"
      <4>1. t = Token("illegal", f, f + 1)
        BY <2>4, <3>2, Special DEF Lex
      <4> QED
        BY <1>1, <2>1, <2>2, <4>1 DEF TokenKinds, Ends
    <3> QED
      BY <3>1, <3>2
  <2>5. CASE c = "@"
    <3>1. CASE At(s, f + 1) = "@"
      <4>1. t = Token("@@", f, f + 2)
        BY <2>5, <3>1, Special DEF Lex
      <4>2. f + 2 <= EndOf(s) + 1
        BY <1>1, <2>1, <3>1 DEF At
      <4> QED
        BY <2>2, <4>1, <4>2 DEF TokenKinds, Ends
    <3>2. CASE At(s, f + 1) # "@"
      <4>1. t = Token("@", f, f + 1)
        BY <2>5, <3>2, Special DEF Lex
      <4> QED
        BY <1>1, <2>1, <2>2, <4>1 DEF TokenKinds, Ends
    <3> QED
      BY <3>1, <3>2
  <2>6. CASE c \notin {"quote", "/", "@"}
    <3>1. PICK kind : t = Token(kind, f, f + 1) /\
                      kind \in Punctuation \cup {"number", "huge", "illegal", LookupIdent(c)}
      BY <1>4, <2>6 DEF Lex
    <3>2. LookupIdent(c) \in TokenKinds \ Ends
      BY IdentIs
    <3>3. kind \in TokenKinds /\ kind \notin Ends
      BY <3>1, <3>2 DEF TokenKinds, Punctuation, Ends
    <3> QED
      BY <1>1, <2>1, <2>2, <3>1, <3>3
  <2> QED
    BY <2>3, <2>4, <2>5, <2>6
<1> QED
  BY <1>3, <1>4

-----------------------------------------------------------------------------
(***************************************************************************)
(* The tokens of a text, from a position on: a recursive function, which   *)
(* exists because each token ends later than it begins.                    *)
(***************************************************************************)
Positions(s) == 1..EndOf(s) + 1

\* The tokens from i on, if g says what they are from later positions on.
From(s, g, i) ==
  LET t == Lex(s, i)
  IN  CASE t.kind \in {"eof", "panic"} -> <<t>>
        [] t.kind = "comment" -> g[t.next]
        [] OTHER -> <<t>> \o g[t.next]

IsFrom(s, g) == g = [i \in Positions(s) |-> From(s, g, i)]

\* TokensOf reads the tokens off such a function.
LEMMA TokensAreFrom ==
  ASSUME NEW s
  PROVE  TokensOf(s) = (CHOOSE g : IsFrom(s, g))[1]
BY Zenon DEF TokensOf, IsFrom, From, Positions

\* The three cases.
LEMMA FromIs ==
  ASSUME NEW s \in Seq(Symbols), NEW g, NEW i \in Positions(s), NEW t, t = Lex(s, i)
  PROVE  /\ IsEnd(t) => From(s, g, i) = <<t>>
         /\ IsComment(s, t) => From(s, g, i) = g[t.next]
         /\ IsToken(s, t) => From(s, g, i) = <<t>> \o g[t.next]
<1>1. ASSUME IsEnd(t) PROVE From(s, g, i) = <<t>>
  <2>1. t.kind \in {"eof", "panic"} /\ t.kind # "comment"
    BY <1>1 DEF IsEnd, Ends
  <2> QED
    BY <2>1, Zenon DEF From
<1>2. ASSUME IsComment(s, t) PROVE From(s, g, i) = g[t.next]
  <2>1. t.kind \notin {"eof", "panic"} /\ t.kind = "comment"
    BY <1>2 DEF IsComment
  <2> QED
    BY <2>1, Zenon DEF From
<1>3. ASSUME IsToken(s, t) PROVE From(s, g, i) = <<t>> \o g[t.next]
  <2>1. t.kind \notin {"eof", "panic"} /\ t.kind # "comment"
    BY <1>3 DEF IsToken, Ends
  <2> QED
    BY <2>1, Zenon DEF From
<1> QED
  BY <1>1, <1>2, <1>3

\* The next token is looked for at a later position.
LEMMA LaterPosition ==
  ASSUME NEW s \in Seq(Symbols), NEW i \in Positions(s), NEW t, t = Lex(s, i),
         IsComment(s, t) \/ IsToken(s, t)
  PROVE  t.next \in Positions(s) /\ t.next > i
<1>1. Len(s) \in Nat /\ EndOf(s) = Len(s) + 1
  BY DEF EndOf
<1>2. PICK f : f = t.first
  OBVIOUS
<1>3. PICK n : n = t.next
  OBVIOUS
<1>4. f = SkipWhitespace(s, i)
  BY <1>2, LexIs DEF Positions
<1>5. f \in 1..EndOf(s) /\ (f <= Len(s) => i <= f)
  BY <1>4, WhitespaceIs DEF Positions
<1>6. f <= Len(s) /\ n \in f + 1..EndOf(s) + 1
  BY <1>1, <1>2, <1>3 DEF IsComment, IsToken
<1>7. n \in Positions(s) /\ n > i
  BY <1>1, <1>5, <1>6 DEF Positions
<1> QED
  BY <1>3, <1>7

\* Two functions that agree on later positions give the same tokens.
LEMMA FromLater ==
  ASSUME NEW s \in Seq(Symbols), NEW i \in Positions(s), NEW g, NEW h,
         \A j \in Positions(s) : j > i => g[j] = h[j]
  PROVE  From(s, g, i) = From(s, h, i)
<1>1. PICK t : t = Lex(s, i)
  OBVIOUS
<1>2. IsEnd(t) \/ IsComment(s, t) \/ IsToken(s, t)
  BY <1>1, LexIs DEF Positions
<1> DEFINE Cases(k) ==
             /\ IsEnd(t) => From(s, k, i) = <<t>>
             /\ IsComment(s, t) => From(s, k, i) = k[t.next]
             /\ IsToken(s, t) => From(s, k, i) = <<t>> \o k[t.next]
<1>3. Cases(g)
  BY <1>1, FromIs
<1>4. Cases(h)
  BY <1>1, FromIs
<1>5. ASSUME IsComment(s, t) \/ IsToken(s, t) PROVE g[t.next] = h[t.next]
  BY <1>1, <1>5, LaterPosition
<1> QED
  <2>1. CASE IsEnd(t)
    BY <1>3, <1>4, <2>1
  <2>2. CASE IsComment(s, t)
    BY <1>3, <1>4, <1>5, <2>2
  <2>3. CASE IsToken(s, t)
    BY <1>3, <1>4, <1>5, <2>3
  <2> QED
    BY <1>2, <2>1, <2>2, <2>3

\* There is such a function: from the end of the text to its start.
LEMMA FromExists == ASSUME NEW s \in Seq(Symbols) PROVE \E g : IsFrom(s, g)
<1> DEFINE e == EndOf(s) + 1
           Until(g, n) == /\ DOMAIN g = Positions(s)
                          /\ g = [i \in Positions(s) |-> g[i]]
                          /\ \A i \in Positions(s) : i > e - n => g[i] = From(s, g, i)
           M == {n \in Nat : \E g : Until(g, n)}
<1>1. e \in Nat /\ Positions(s) = 1..e
  BY DEF EndOf, Positions
<1>2. 0 \in M
  <2> DEFINE g == [i \in Positions(s) |-> << >>]
  <2>1. Until(g, 0)
    BY <1>1
  <2> QED
    BY <2>1
<1>3. ASSUME NEW n \in Nat, n \in M PROVE n + 1 \in M
  <2>1. PICK g : Until(g, n)
    BY <1>3
  <2> DEFINE h == [i \in Positions(s) |-> IF i = e - n THEN From(s, g, i) ELSE g[i]]
  <2>2. ASSUME NEW i \in Positions(s), i > e - (n + 1) PROVE h[i] = From(s, h, i)
    <3>1. \A j \in Positions(s) : j > i => h[j] = g[j]
      BY <1>1, <2>2
    <3>2. From(s, h, i) = From(s, g, i)
      BY <3>1, FromLater
    <3>3. CASE i = e - n
      BY <3>2, <3>3
    <3>4. CASE i # e - n
      <4>1. i > e - n
        BY <1>1, <2>2, <3>4
      <4> QED
        BY <2>1, <3>2, <3>4, <4>1
    <3> QED
      BY <3>3, <3>4
  <2>3. Until(h, n + 1)
    BY <2>2
  <2> HIDE DEF h, Until
  <2>4. \E k : Until(k, n + 1)
    BY <2>3
  <2> QED
    BY <2>4
<1>4. e \in M
  <2> HIDE DEF M
  <2> QED
    BY <1>1, <1>2, <1>3, SetInduction
<1>5. PICK g : Until(g, e)
  BY <1>4
<1>6. \A i \in Positions(s) : g[i] = From(s, g, i)
  BY <1>1, <1>5
<1>7. g = [i \in Positions(s) |-> From(s, g, i)]
  BY <1>5, <1>6
<1> QED
  BY <1>7 DEF IsFrom

\* ts are tokens of s, one after the other, and nothing is left out before the first one
\* or between them.
IsAfter(s, t, u) ==
  /\ t.first < t.next /\ t.first < u.first
  /\ \A j \in t.next..u.first - 1 : Hidden(s, j)

IsLine(s, ts) ==
  /\ ts \in Seq(TokenType) /\ ts # << >>
  /\ \A k \in 1..Len(ts) - 1 : ts[k].kind \notin Ends /\ IsAfter(s, ts[k], ts[k + 1])
  /\ ts[Len(ts)].kind \in Ends

IsLexed(s, i, ts) ==
  /\ IsLine(s, ts)
  /\ ts[1].first >= i \/ ts[1].first = EndOf(s)
  /\ \A j \in i..ts[1].first - 1 : Hidden(s, j)

\* The first of a line of tokens.
LEMMA LineType ==
  ASSUME NEW s, NEW ts, IsLine(s, ts)
  PROVE  Len(ts) \in Nat \ {0} /\ ts[1] \in TokenType /\ ts[1].first \in Nat
<1>1. Len(ts) \in Nat \ {0} /\ ts[1] \in TokenType
  BY DEF IsLine
<1> QED
  BY <1>1 DEF TokenType

\* A token before a line makes it longer.
LEMMA LineLonger ==
  ASSUME NEW s \in Seq(Symbols), NEW ts, IsLine(s, ts), NEW t \in TokenType, t.kind \notin Ends,
         IsAfter(s, t, ts[1])
  PROVE  IsLine(s, <<t>> \o ts) /\ (<<t>> \o ts)[1] = t
<1> DEFINE us == <<t>> \o ts
<1>1. ts \in Seq(TokenType) /\ Len(ts) \in Nat /\ Len(ts) >= 1
  BY DEF IsLine
<1>2. us \in Seq(TokenType) /\ us # << >> /\ Len(us) = Len(ts) + 1
  BY <1>1
<1>3. us[1] = t /\ \A k \in 1..Len(ts) : us[k + 1] = ts[k]
  BY <1>1
<1> HIDE DEF us
<1>4. ASSUME NEW k \in 1..Len(us) - 1
      PROVE  us[k].kind \notin Ends /\ IsAfter(s, us[k], us[k + 1])
  <2>1. CASE k = 1
    BY <1>1, <1>3, <2>1
  <2>2. CASE k # 1
    <3>1. k - 1 \in 1..Len(ts) - 1 /\ k - 1 \in 1..Len(ts) /\ k \in 1..Len(ts)
      BY <1>1, <1>2, <2>2
    <3>2. us[k] = ts[k - 1] /\ us[k + 1] = ts[k]
      <4>1. (k - 1) + 1 = k
        BY <1>1, <3>1
      <4> QED
        BY <1>3, <3>1, <4>1
    <3>3. ts[k - 1].kind \notin Ends /\ IsAfter(s, ts[k - 1], ts[(k - 1) + 1])
      BY <3>1 DEF IsLine
    <3>4. (k - 1) + 1 = k
      BY <1>1, <3>1
    <3> QED
      BY <3>2, <3>3, <3>4
  <2> QED
    BY <2>1, <2>2
<1>5. us[Len(us)].kind \in Ends
  BY <1>1, <1>2, <1>3 DEF IsLine
<1>6. IsLine(s, us)
  BY <1>2, <1>4, <1>5 DEF IsLine
<1> QED
  BY <1>3, <1>6 DEF us

\* What one step of the lexer puts in front of what is lexed already.
LEMMA FromLexed ==
  ASSUME NEW s \in Seq(Symbols), NEW g, NEW i \in Positions(s),
         \A j \in Positions(s) : j > i => IsLexed(s, j, g[j])
  PROVE  IsLexed(s, i, From(s, g, i))
<1>1. PICK t : t = Lex(s, i)
  OBVIOUS
<1>2. PICK f : f = t.first
  OBVIOUS
<1>3. PICK n : n = t.next
  OBVIOUS
<1>4. f = SkipWhitespace(s, i) /\ (IsEnd(t) \/ IsComment(s, t) \/ IsToken(s, t))
  BY <1>1, <1>2, LexIs DEF Positions
<1>5. Len(s) \in Nat /\ EndOf(s) = Len(s) + 1 /\ i \in Nat
  BY DEF EndOf, Positions
<1>6. f \in 1..EndOf(s) /\ (f <= Len(s) => i <= f) /\ \A j \in i..f - 1 : s[j] = "newline"
  BY <1>4, WhitespaceIs DEF Positions
<1>7. \A j \in i..f - 1 : Hidden(s, j)
  BY <1>6 DEF Hidden
<1>8. f >= i \/ f = EndOf(s)
  BY <1>5, <1>6
<1>9. PICK ts : ts = From(s, g, i)
  OBVIOUS
<1>10. CASE IsEnd(t)
  <2>1. ts = <<t>>
    BY <1>1, <1>9, <1>10, FromIs
  <2>2. IsLine(s, ts) /\ ts[1] = t
    BY <1>10, <2>1 DEF IsLine, IsEnd
  <2> QED
    BY <1>2, <1>7, <1>8, <1>9, <2>2 DEF IsLexed
<1>11. CASE IsComment(s, t)
  <2>1. n \in Positions(s) /\ n > i
    BY <1>1, <1>3, <1>11, LaterPosition
  <2>2. ts = g[n]
    BY <1>1, <1>3, <1>9, <1>11, FromIs
  <2>3. IsLexed(s, n, ts)
    BY <2>1, <2>2
  <2>4. f <= Len(s) /\ n \in f + 1..EndOf(s) /\ \A j \in f..n - 1 : Hidden(s, j)
    BY <1>2, <1>3, <1>11 DEF IsComment
  <2>5. PICK m : m = ts[1].first
    OBVIOUS
  <2>6. m \in Nat
    BY <2>3, <2>5, LineType DEF IsLexed
  <2>7. m >= i \/ m = EndOf(s)
    BY <1>5, <2>1, <2>3, <2>5, <2>6 DEF IsLexed, Positions
  <2>8. ASSUME NEW j \in i..m - 1 PROVE Hidden(s, j)
    <3>1. j \in i..f - 1 \/ j \in f..n - 1 \/ j \in n..m - 1
      BY <1>5, <1>6, <2>4, <2>6, <2>8
    <3> QED
      BY <1>7, <2>3, <2>4, <2>5, <3>1 DEF IsLexed
  <2> QED
    BY <1>9, <2>3, <2>5, <2>7, <2>8 DEF IsLexed
<1>12. CASE IsToken(s, t)
  <2>1. n \in Positions(s) /\ n > i
    BY <1>1, <1>3, <1>12, LaterPosition
  <2>2. PICK us : us = g[n]
    OBVIOUS
  <2>3. ts = <<t>> \o us
    BY <1>1, <1>3, <1>9, <1>12, <2>2, FromIs
  <2>4. IsLexed(s, n, us)
    BY <2>1, <2>2
  <2>5. f <= Len(s) /\ n \in f + 1..EndOf(s) + 1
    BY <1>2, <1>3, <1>12 DEF IsToken
  <2>6. PICK m : m = us[1].first
    OBVIOUS
  <2>7. m \in Nat
    BY <2>4, <2>6, LineType DEF IsLexed
  <2>8. m >= n \/ m = EndOf(s)
    BY <2>4, <2>6 DEF IsLexed
  <2>9. f < n /\ f < m
    BY <1>5, <1>6, <2>5, <2>7, <2>8
  <2>10. IsAfter(s, t, us[1])
    BY <1>2, <1>3, <2>4, <2>6, <2>9 DEF IsAfter, IsLexed
  <2>11. IsLine(s, ts) /\ ts[1] = t
    BY <1>12, <2>3, <2>4, <2>10, LineLonger DEF IsLexed, IsToken
  <2> QED
    BY <1>2, <1>7, <1>8, <1>9, <2>11 DEF IsLexed
<1> QED
  BY <1>4, <1>10, <1>11, <1>12

\* The lexer hides nothing but newlines and comments, whatever the text.
LEMMA TokensAreLexed == ASSUME NEW s \in Seq(Symbols) PROVE IsLexed(s, 1, TokensOf(s))
<1>1. PICK g : g = CHOOSE h : IsFrom(s, h)
  OBVIOUS
<1>2. IsFrom(s, g)
  BY <1>1, FromExists
<1>3. TokensOf(s) = g[1]
  BY <1>1, TokensAreFrom
<1> DEFINE e == EndOf(s) + 1
           M == {n \in Nat : \A i \in Positions(s) : i > e - n => IsLexed(s, i, g[i])}
<1>4. e \in Nat /\ Positions(s) = 1..e /\ 1 \in Positions(s)
  BY DEF EndOf, Positions
<1>5. 0 \in M
  BY <1>4
<1>6. ASSUME NEW n \in Nat, n \in M PROVE n + 1 \in M
  <2>1. ASSUME NEW i \in Positions(s), i > e - (n + 1) PROVE IsLexed(s, i, g[i])
    <3>1. \A j \in Positions(s) : j > i => IsLexed(s, j, g[j])
      BY <1>4, <1>6, <2>1
    <3>2. g[i] = From(s, g, i)
      BY <1>2 DEF IsFrom
    <3> QED
      BY <3>1, <3>2, FromLexed
  <2> QED
    BY <2>1
<1> HIDE DEF M
<1>7. e \in M
  BY <1>4, <1>5, <1>6, SetInduction
<1>8. IsLexed(s, 1, g[1])
  BY <1>4, <1>7 DEF M
<1> QED
  BY <1>3, <1>8

-----------------------------------------------------------------------------
(***************************************************************************)
(* The parser.  Every step but the last puts frames in the place of the    *)
(* innermost one, and accepts the current token, passes over it with an    *)
(* error, or leaves it.                                                    *)
(***************************************************************************)
Places == {"start", "next", "name", "open", "body", "equal", "value", "type", "list", "close",
           "optional", "attributes", "item", "colon", "separator"}

FrameType == [function : Functions, at : Places]

\* The frames that have yet to see a brace, a parenthesis, a bracket.
Braces      == {f \in FrameType : f.function \in Declarations /\ f.at = "body"}
Parentheses == {f \in FrameType : f.function = "arguments"}
Squares     == {f \in FrameType : \/ f.function = "array"
                                  \/ f.function = "field" /\ f.at = "close"}

Weight(f, S) == IF f \in S THEN 1 ELSE 0

Owed(frames, S) == Cardinality({i \in DOMAIN frames : frames[i] \in S})

Tick(kind, k) == IF kind = k THEN 1 ELSE 0

\* The token and the frames that take the place of f add up.
Settles(kind, f, frames, S, open, close) ==
  Tick(kind, open) + Weight(f, S) = Tick(kind, close) + Owed(frames, S)

SettlesAll(kind, f, frames) ==
  /\ Settles(kind, f, frames, Braces, "{", "}")
  /\ Settles(kind, f, frames, Parentheses, "(", ")")
  /\ Settles(kind, f, frames, Squares, "[", "]")

\* A colon is only looked for where it was seen.
AtColon == Frame("arguments", "colon")

IsSchema(f) == f.function = "schema"

Replaces(f, frames) ==
  /\ frames \in Seq(FrameType) /\ Len(frames) <= 2
  /\ IsSchema(f) => frames # << >> /\ IsSchema(frames[1])
  /\ \A i \in DOMAIN frames : IsSchema(frames[i]) => i = 1 /\ IsSchema(f)
  /\ \A i \in DOMAIN frames : frames[i] = AtColon => i = Len(frames)

Reads(f, frames) ==
  /\ Accept /\ cur.kind \notin Ends
  /\ SettlesAll(cur.kind, f, frames)
  /\ frames # << >> /\ frames[Len(frames)] = AtColon => peek.kind = ":"

Passes(frames) ==
  /\ Skip \/ Error
  /\ frames # << >> => frames[Len(frames)] # AtColon

Leaves(f, frames) ==
  /\ Stay
  /\ SettlesAll("none", f, frames)
  /\ frames # << >> => frames[Len(frames)] # AtColon

Moves(frames) ==
  /\ stack' = Below \o frames
  /\ Replaces(Top, frames)
  /\ Reads(Top, frames) \/ Passes(frames) \/ Leaves(Top, frames)

\* One frame more owes what it owes.
LEMMA OwedAppend ==
  ASSUME NEW T, NEW frames \in Seq(T), NEW f \in T, NEW S
  PROVE  /\ Owed(frames, S) \in Nat
         /\ Owed(Append(frames, f), S) = Owed(frames, S) + Weight(f, S)
<1> DEFINE n == Len(frames) + 1
           old == {i \in DOMAIN frames : frames[i] \in S}
           new == {i \in DOMAIN Append(frames, f) : Append(frames, f)[i] \in S}
<1>1. Len(frames) \in Nat /\ DOMAIN frames = 1..Len(frames) /\ DOMAIN Append(frames, f) = 1..n
  OBVIOUS
<1>2. Append(frames, f)[n] = f /\ \A i \in 1..Len(frames) : Append(frames, f)[i] = frames[i]
  OBVIOUS
<1>3. IsFiniteSet(old)
  <2>1. IsFiniteSet(1..Len(frames))
    BY <1>1, FS_Interval
  <2> QED
    BY <1>1, <2>1, FS_Subset
<1>4. Cardinality(old) \in Nat
  BY <1>3, FS_CardinalityType
<1>5. n \notin old
  BY <1>1
<1>6. new = IF f \in S THEN old \cup {n} ELSE old
  BY <1>1, <1>2
<1> HIDE DEF old, new
<1>7. Cardinality(old \cup {n}) = Cardinality(old) + 1
  BY <1>3, <1>5, FS_AddElement
<1>8. Cardinality(new) = Cardinality(old) + Weight(f, S)
  BY <1>4, <1>6, <1>7 DEF Weight
<1> QED
  BY <1>4, <1>8 DEF Owed, old, new

\* No frame owes nothing.
LEMMA OwedNone == ASSUME NEW S PROVE Owed(<< >>, S) = 0
<1>1. {i \in DOMAIN << >> : << >>[i] \in S} = {}
  OBVIOUS
<1> QED
  BY <1>1, FS_EmptySet DEF Owed

\* What is owed by no frame, by one and by two.
LEMMA OwedIs ==
  ASSUME NEW S, NEW f, NEW g
  PROVE  /\ Owed(<< >>, S) = 0
         /\ Owed(<<f>>, S) = Weight(f, S)
         /\ Owed(<<f, g>>, S) = Weight(f, S) + Weight(g, S)
<1>1. Owed(<< >>, S) = 0
  BY OwedNone
<1>2. PICK T : T = {f, g}
  OBVIOUS
<1>3. PICK a, b, c : a = << >> /\ b = <<f>> /\ c = <<f, g>>
  OBVIOUS
<1>4. a \in Seq(T) /\ b \in Seq(T) /\ b = Append(a, f) /\ c = Append(b, g)
      /\ f \in T /\ g \in T
  BY <1>2, <1>3
<1>5. Weight(f, S) \in Nat /\ Weight(g, S) \in Nat
  BY DEF Weight
<1>6. Owed(b, S) = Owed(a, S) + Weight(f, S)
  BY <1>4, OwedAppend
<1>7. Owed(c, S) = Owed(b, S) + Weight(g, S)
  BY <1>4, OwedAppend
<1> QED
  BY <1>1, <1>3, <1>5, <1>6, <1>7

\* The schema is the outermost frame, and no other.
StackInv ==
  /\ stack \in Seq(FrameType) /\ stack # << >>
  /\ \A i \in DOMAIN stack : IsSchema(stack[i]) <=> i = 1
  /\ \A i \in DOMAIN stack : stack[i] = AtColon => i = Len(stack)

ColonInv == status = "parsing" /\ Top = AtColon => cur.kind = ":"

\* The stack is what is below, and the innermost frame.
LEMMA StackIs ==
  ASSUME StackInv
  PROVE  /\ Len(stack) \in Nat \ {0} /\ Top \in FrameType
         /\ Below \in Seq(FrameType) /\ Len(Below) = Len(stack) - 1
         /\ stack = Append(Below, Top)
         /\ \A i \in DOMAIN Below : Below[i] = stack[i]
<1>1. stack \in Seq(FrameType) /\ Len(stack) \in Nat \ {0}
  BY DEF StackInv
<1>2. Top \in FrameType
  BY <1>1 DEF Top
<1>3. /\ Below \in Seq(FrameType) /\ Len(Below) = Len(stack) - 1
      /\ \A i \in DOMAIN Below : Below[i] = stack[i]
  <2>1. PICK n \in Nat : n = Len(stack) - 1
    BY <1>1
  <2>2. Below = SubSeq(stack, 1, n)
    BY <2>1 DEF Below
  <2>3. 1..n \subseteq DOMAIN stack
    BY <1>1, <2>1
  <2>4. Below = [i \in 1..n |-> stack[i]]
    BY <1>1, <2>1, <2>2
  <2>5. \A i \in 1..n : stack[i] \in FrameType
    BY <1>1, <2>3
  <2> QED
    BY <2>1, <2>4, <2>5
<1>4. stack = Append(Below, Top)
  BY <1>1, <1>3 DEF Top
<1> QED
  BY <1>1, <1>2, <1>3, <1>4

\* The three ways to put frames in the place of the innermost one.
LEMMA NoFrame ==
  ASSUME StackInv, stack' = Below, ~IsSchema(Top),
         \/ Accept /\ cur.kind \notin Ends /\ SettlesAll(cur.kind, Top, << >>)
         \/ Skip \/ Error
         \/ Stay /\ SettlesAll("none", Top, << >>)
  PROVE  \E frames : Moves(frames)
<1>1. stack' = Below \o << >>
  BY StackIs
<1>2. Replaces(Top, << >>)
  BY DEF Replaces
<1>3. Moves(<< >>)
  BY <1>1, <1>2 DEF Moves, Reads, Passes, Leaves
<1> QED
  BY <1>3

\* One frame.
LEMMA OneFrame ==
  ASSUME StackInv, NEW f \in FrameType, stack' = Append(Below, f),
         IsSchema(f) <=> IsSchema(Top),
         \/ /\ Accept /\ cur.kind \notin Ends /\ SettlesAll(cur.kind, Top, <<f>>)
            /\ f = AtColon => peek.kind = ":"
         \/ (Skip \/ Error) /\ f # AtColon
         \/ Stay /\ SettlesAll("none", Top, <<f>>) /\ f # AtColon
  PROVE  \E frames : Moves(frames)
<1> DEFINE s == <<f>>
<1>1. stack' = Below \o s
  BY StackIs
<1>2. s \in Seq(FrameType) /\ Len(s) = 1 /\ DOMAIN s = {1} /\ s[1] = f /\ s # << >>
  OBVIOUS
<1> HIDE DEF s
<1>3. Replaces(Top, s)
  BY <1>2 DEF Replaces
<1>4. Moves(s)
  BY <1>1, <1>2, <1>3 DEF Moves, Reads, Passes, Leaves, s
<1> QED
  BY <1>4

\* Two.
LEMMA TwoFrames ==
  ASSUME StackInv, NEW f \in FrameType, NEW g \in FrameType, stack' = Below \o <<f, g>>,
         IsSchema(f) <=> IsSchema(Top), f # AtColon, ~IsSchema(g), g # AtColon,
         \/ Accept /\ cur.kind \notin Ends /\ SettlesAll(cur.kind, Top, <<f, g>>)
         \/ Skip \/ Error
         \/ Stay /\ SettlesAll("none", Top, <<f, g>>)
  PROVE  \E frames : Moves(frames)
<1> DEFINE s == <<f, g>>
<1>1. stack' = Below \o s
  OBVIOUS
<1>2. /\ s \in Seq(FrameType) /\ Len(s) = 2 /\ DOMAIN s = {1, 2}
      /\ s[1] = f /\ s[2] = g /\ s # << >>
  OBVIOUS
<1> HIDE DEF s
<1>3. Replaces(Top, s)
  BY <1>2 DEF Replaces
<1>4. Moves(s)
  BY <1>1, <1>2, <1>3 DEF Moves, Reads, Passes, Leaves, s
<1> QED
  BY <1>4

\* What a frame owes, by its function and its place.
LEMMA WeightIs ==
  ASSUME NEW function \in Functions, NEW at \in Places
  PROVE  LET f == Frame(function, at)
         IN  /\ f \in FrameType /\ f.function = function /\ f.at = at
             /\ Weight(f, Braces) = IF function \in Declarations /\ at = "body" THEN 1 ELSE 0
             /\ Weight(f, Parentheses) = IF function = "arguments" THEN 1 ELSE 0
             /\ Weight(f, Squares) =
                  IF function = "array" \/ (function = "field" /\ at = "close") THEN 1 ELSE 0
BY DEF Weight, Frame, FrameType, Braces, Parentheses, Squares

\* Where In finds the parser, and what the helpers make of the stack.
LEMMA InIs ==
  ASSUME StackInv, NEW function \in Functions, NEW at \in Places, In(function, at)
  PROVE  /\ Top = Frame(function, at) /\ status = "parsing"
         /\ IsSchema(Top) <=> function = "schema"
         /\ \A to : Go(to) => stack' = Append(Below, Frame(function, to))
         /\ \A g, to : Become(g, to) => stack' = Append(Below, Frame(g, to))
         /\ \A to, g, inner :
              Call(to, g, inner) => stack' = Below \o <<Frame(function, to), Frame(g, inner)>>
         /\ Return => stack' = Below
         /\ Keep => stack' = Append(Below, Frame(function, at))
<1>1. Top = Frame(function, at) /\ status = "parsing"
  BY DEF In
<1>2. \A to : [Top EXCEPT !.at = to] = Frame(function, to)
  BY <1>1 DEF Frame
<1>3. IsSchema(Top) <=> function = "schema"
  BY <1>1 DEF IsSchema, Frame
<1>4. Keep => stack' = Append(Below, Frame(function, at))
  BY <1>1, StackIs DEF Keep
<1> QED
  BY <1>1, <1>2, <1>3, <1>4 DEF Go, Become, Call, Return

\* What a function owes at a place, and the tokens and places that add up.
Brace(function, at)  == IF function \in Declarations /\ at = "body" THEN 1 ELSE 0
Parenthesis(function) == IF function = "arguments" THEN 1 ELSE 0
Square(function, at) ==
  IF function = "array" \/ (function = "field" /\ at = "close") THEN 1 ELSE 0

Even(kind, function, at, braces, parentheses, squares) ==
  /\ Tick(kind, "{") + Brace(function, at) = Tick(kind, "}") + braces
  /\ Tick(kind, "(") + Parenthesis(function) = Tick(kind, ")") + parentheses
  /\ Tick(kind, "[") + Square(function, at) = Tick(kind, "]") + squares

\* Where the numbers are even, the frames settle what the token opens or closes.
LEMMA EvenSettles ==
  ASSUME NEW kind, NEW function \in Functions, NEW at \in Places,
         NEW g \in Functions, NEW to \in Places, NEW h \in Functions, NEW inner \in Places
  PROVE  /\ Even(kind, function, at, 0, 0, 0) => SettlesAll(kind, Frame(function, at), << >>)
         /\ Even(kind, function, at, Brace(g, to), Parenthesis(g), Square(g, to))
              => SettlesAll(kind, Frame(function, at), <<Frame(g, to)>>)
         /\ Even(kind, function, at, Brace(g, to) + Brace(h, inner),
                 Parenthesis(g) + Parenthesis(h), Square(g, to) + Square(h, inner))
              => SettlesAll(kind, Frame(function, at), <<Frame(g, to), Frame(h, inner)>>)
<1>1. \A f \in Functions, x \in Places :
        /\ Weight(Frame(f, x), Braces) = Brace(f, x)
        /\ Weight(Frame(f, x), Parentheses) = Parenthesis(f)
        /\ Weight(Frame(f, x), Squares) = Square(f, x)
  BY WeightIs DEF Brace, Parenthesis, Square
<1>2. PICK f, x, y : f = Frame(function, at) /\ x = Frame(g, to) /\ y = Frame(h, inner)
  OBVIOUS
<1>3. \A S : /\ Owed(<< >>, S) = 0
              /\ Owed(<<x>>, S) = Weight(x, S)
              /\ Owed(<<x, y>>, S) = Weight(x, S) + Weight(y, S)
  BY OwedIs
<1>4. Even(kind, function, at, 0, 0, 0) => SettlesAll(kind, f, << >>)
  BY <1>1, <1>2, <1>3 DEF Even, SettlesAll, Settles
<1>5. Even(kind, function, at, Brace(g, to), Parenthesis(g), Square(g, to))
        => SettlesAll(kind, f, <<x>>)
  BY <1>1, <1>2, <1>3 DEF Even, SettlesAll, Settles
<1>6. Even(kind, function, at, Brace(g, to) + Brace(h, inner),
           Parenthesis(g) + Parenthesis(h), Square(g, to) + Square(h, inner))
        => SettlesAll(kind, f, <<x, y>>)
  BY <1>1, <1>2, <1>3 DEF Even, SettlesAll, Settles
<1> QED
  BY <1>2, <1>4, <1>5, <1>6

\* Return.
LEMMA StepOut ==
  ASSUME StackInv, NEW function \in Functions, NEW at \in Places, In(function, at), Return,
         function # "schema",
         \/ Accept /\ cur.kind \notin Ends /\ Even(cur.kind, function, at, 0, 0, 0)
         \/ Skip \/ Error
         \/ Stay /\ Even("none", function, at, 0, 0, 0)
  PROVE  \E frames : Moves(frames)
<1>1. Top = Frame(function, at) /\ stack' = Below /\ ~IsSchema(Top)
  BY InIs
<1>2. \A kind : Even(kind, function, at, 0, 0, 0) => SettlesAll(kind, Top, << >>)
  BY <1>1, EvenSettles
<1> QED
  BY <1>1, <1>2, NoFrame

\* Go, Become and Keep: the frame of function at a place gives way to one of g.
Goes(function, at, g, to) ==
  /\ function \in Functions /\ at \in Places /\ In(function, at)
  /\ g \in Functions /\ to \in Places /\ stack' = Append(Below, Frame(g, to))
  /\ g = "schema" <=> function = "schema"
  /\ \/ /\ Accept /\ cur.kind \notin Ends
        /\ Even(cur.kind, function, at, Brace(g, to), Parenthesis(g), Square(g, to))
        /\ to = "colon" => peek.kind = ":"
     \/ (Skip \/ Error) /\ to # "colon"
     \/ /\ Stay /\ to # "colon"
        /\ Even("none", function, at, Brace(g, to), Parenthesis(g), Square(g, to))

\* Such a step puts one frame in the place of the innermost one.
LEMMA StepOn ==
  ASSUME StackInv, NEW function, NEW at, NEW g, NEW to, Goes(function, at, g, to)
  PROVE  \E frames : Moves(frames)
<1>0. /\ function \in Functions /\ at \in Places /\ In(function, at)
      /\ g \in Functions /\ to \in Places /\ stack' = Append(Below, Frame(g, to))
      /\ g = "schema" <=> function = "schema"
  BY DEF Goes
<1>1. Top = Frame(function, at) /\ (IsSchema(Top) <=> function = "schema")
  BY <1>0, InIs
<1>2. /\ Frame(g, to) \in FrameType
      /\ IsSchema(Frame(g, to)) <=> g = "schema"
      /\ Frame(g, to) = AtColon => to = "colon"
  BY <1>0 DEF Frame, FrameType, IsSchema, AtColon
<1>3. \A kind : Even(kind, function, at, Brace(g, to), Parenthesis(g), Square(g, to))
                  => SettlesAll(kind, Top, <<Frame(g, to)>>)
  BY <1>0, <1>1, EvenSettles
<1>4. PICK f \in FrameType : f = Frame(g, to)
  BY <1>2
<1>5. \/ /\ Accept /\ cur.kind \notin Ends /\ SettlesAll(cur.kind, Top, <<f>>)
         /\ f = AtColon => peek.kind = ":"
      \/ (Skip \/ Error) /\ f # AtColon
      \/ Stay /\ SettlesAll("none", Top, <<f>>) /\ f # AtColon
  BY <1>2, <1>3, <1>4 DEF Goes
<1>6. stack' = Append(Below, f) /\ (IsSchema(f) <=> IsSchema(Top))
  BY <1>0, <1>1, <1>2, <1>4
<1> QED
  BY <1>5, <1>6, OneFrame

\* Call: the frame of function stays, with one of h on it.
Calls(kind, function, at, to, h, inner) ==
  /\ function \in Functions /\ at \in Places /\ In(function, at)
  /\ to \in Places /\ h \in Functions /\ inner \in Places
  /\ stack' = Below \o <<Frame(function, to), Frame(h, inner)>>
  /\ h # "schema" /\ to # "colon" /\ inner # "colon"
  /\ Accept /\ cur.kind = kind /\ kind \notin Ends
  /\ Even(kind, function, at, Brace(function, to) + Brace(h, inner),
          Parenthesis(function) + Parenthesis(h), Square(function, to) + Square(h, inner))

\* Such a step puts two.
LEMMA StepIn ==
  ASSUME StackInv, NEW kind, NEW function, NEW at, NEW to, NEW h, NEW inner,
         Calls(kind, function, at, to, h, inner)
  PROVE  \E frames : Moves(frames)
<1>0. /\ function \in Functions /\ at \in Places /\ In(function, at)
      /\ to \in Places /\ h \in Functions /\ inner \in Places
      /\ stack' = Below \o <<Frame(function, to), Frame(h, inner)>>
      /\ Accept /\ cur.kind \notin Ends
  BY DEF Calls
<1>1. Top = Frame(function, at)
  BY <1>0, InIs
<1>2. /\ Frame(function, to) \in FrameType /\ Frame(h, inner) \in FrameType
      /\ IsSchema(Frame(function, to)) <=> IsSchema(Top)
      /\ ~IsSchema(Frame(h, inner))
      /\ Frame(function, to) # AtColon /\ Frame(h, inner) # AtColon
  BY <1>0, <1>1 DEF Calls, Frame, FrameType, IsSchema, AtColon
<1>3. SettlesAll(cur.kind, Top, <<Frame(function, to), Frame(h, inner)>>)
  <2>1. Even(cur.kind, function, at, Brace(function, to) + Brace(h, inner),
             Parenthesis(function) + Parenthesis(h), Square(function, to) + Square(h, inner))
    BY DEF Calls
  <2> QED
    BY <1>0, <1>1, <2>1, EvenSettles
<1> QED
  BY <1>0, <1>2, <1>3, TwoFrames

\* The places the lemmas above are used at.
LEMMA Names ==
  /\ Declarations = {"model", "enum", "datasource", "generator"}
  /\ Declarations \subseteq Functions
  /\ \A d \in Declarations : d # "schema" /\ d \notin Ends
  /\ {"schema", "property", "field", "attribute", "call", "arguments", "array"} \subseteq Functions
BY DEF Declarations, Functions, Ends

\* ParseSchema and parseDeclaration.
LEMMA SchemaMoves ==
  ASSUME StackInv, ParseDeclaration \/ SkipDeclaration
  PROVE  \E frames : Moves(frames)
<1> USE DEF Places
<1>1. PICK place \in {"start", "next"} : In("schema", place)
  BY DEF ParseDeclaration, SkipDeclaration, AtDeclaration
<1>2. CASE ParseDeclaration
  <2>1. PICK d \in Declarations :
          cur.kind = d /\ Accept /\ Call("next", d, "name")
    BY <1>2 DEF ParseDeclaration
  <2>2. stack' = Below \o <<Frame("schema", "next"), Frame(d, "name")>>
    BY <1>1, <2>1, Names, InIs
  <2>3. d \notin Ends /\ d \in Functions /\ d # "schema"
    BY <2>1, Names
  <2>4. Even(d, "schema", place, Brace("schema", "next") + Brace(d, "name"),
             Parenthesis("schema") + Parenthesis(d),
             Square("schema", "next") + Square(d, "name"))
    <3>1. /\ Tick(d, "{") = 0 /\ Tick(d, "(") = 0 /\ Tick(d, "[") = 0
          /\ Tick(d, "}") = 0 /\ Tick(d, ")") = 0 /\ Tick(d, "]") = 0
      BY <2>1 DEF Tick, Declarations
    <3>2. Brace(d, "name") = 0 /\ Parenthesis(d) = 0 /\ Square(d, "name") = 0
      BY <2>1 DEF Brace, Parenthesis, Square, Declarations
    <3>3. /\ Brace("schema", place) = 0 /\ Parenthesis("schema") = 0 /\ Square("schema", place) = 0
          /\ Brace("schema", "next") = 0 /\ Square("schema", "next") = 0
      BY DEF Brace, Parenthesis, Square, Declarations
    <3>4. Even(d, "schema", place, 0, 0, 0)
      BY <3>1, <3>3 DEF Even
    <3>5. /\ Brace("schema", "next") + Brace(d, "name") = 0
          /\ Parenthesis("schema") + Parenthesis(d) = 0
          /\ Square("schema", "next") + Square(d, "name") = 0
      BY <3>2, <3>3
    <3> QED
      BY <3>4, <3>5
  <2>5. Calls(d, "schema", place, "next", d, "name")
    BY <1>1, <2>1, <2>2, <2>3, <2>4, Names DEF Calls
  <2> QED
    BY <2>5, StepIn
<1>3. CASE SkipDeclaration
  <2>1. Skip /\ stack' = Append(Below, Frame("schema", "next"))
    BY <1>1, <1>3, Names, InIs DEF SkipDeclaration
  <2>2. Goes("schema", place, "schema", "next")
    BY <1>1, <2>1, Names DEF Goes
  <2> QED
    BY <2>2, StepOn
<1> QED
  BY <1>2, <1>3

\* parseModel, parseEnum, parseDatasource and parseGenerator.
LEMMA DeclarationMoves ==
  ASSUME StackInv, DeclarationName \/ DeclarationOpen \/ DeclarationClose
  PROVE  \E frames : Moves(frames)
<1> USE DEF Places, Ends, Is
<1>1. CASE DeclarationName
  <2>1. PICK d \in Declarations : In(d, "name")
    BY <1>1 DEF DeclarationName, InDeclaration
  <2>2. CASE Is("ident") /\ Accept /\ Go("open")
    <3>1. cur.kind = "ident"
      BY <2>2
    <3>2. stack' = Append(Below, Frame(d, "open"))
      BY <2>1, <2>2, Names, InIs
    <3>3. Even("ident", d, "name", Brace(d, "open"), Parenthesis(d), Square(d, "open"))
      BY DEF Even, Tick, Brace, Parenthesis, Square, Declarations
    <3>4. Goes(d, "name", d, "open")
      BY <2>1, <2>2, <3>1, <3>2, <3>3, Names DEF Goes
    <3> QED
      BY <3>4, StepOn
  <2>3. CASE Error /\ Return
    BY <2>1, <2>3, Names, StepOut
  <2> QED
    BY <1>1, <2>2, <2>3 DEF DeclarationName
<1>2. CASE DeclarationOpen
  <2>1. PICK d \in Declarations : In(d, "open")
    BY <1>2 DEF DeclarationOpen, InDeclaration
  <2>2. CASE Is("{") /\ Accept /\ Go("body")
    <3>1. cur.kind = "{"
      BY <2>2
    <3>2. stack' = Append(Below, Frame(d, "body"))
      BY <2>1, <2>2, Names, InIs
    <3>3. Even("{", d, "open", Brace(d, "body"), Parenthesis(d), Square(d, "body"))
      BY DEF Even, Tick, Brace, Parenthesis, Square, Declarations
    <3>4. Goes(d, "open", d, "body")
      BY <2>1, <2>2, <3>1, <3>2, <3>3, Names DEF Goes
    <3> QED
      BY <3>4, StepOn
  <2>3. CASE Error /\ Return
    BY <2>1, <2>3, Names, StepOut
  <2> QED
    BY <1>2, <2>2, <2>3 DEF DeclarationOpen
<1>3. CASE DeclarationClose
  <2>1. PICK d \in Declarations : In(d, "body")
    BY <1>3 DEF DeclarationClose, InDeclaration
  <2>2. CASE Is("}") /\ Accept /\ Return
    <3>1. cur.kind = "}"
      BY <2>2
    <3>2. Even("}", d, "body", 0, 0, 0)
      BY DEF Even, Tick, Brace, Parenthesis, Square, Declarations
    <3> QED
      BY <2>1, <2>2, <3>1, <3>2, Names, StepOut
  <2>3. CASE Error /\ Return
    BY <2>1, <2>3, Names, StepOut
  <2> QED
    BY <1>3, <2>2, <2>3 DEF DeclarationClose
<1> QED
  BY <1>1, <1>2, <1>3

\* The bodies, and parseProperty.
LEMMA BodyMoves ==
  ASSUME StackInv, ModelBody \/ EnumBody \/ PropertyKey \/ PropertyEqual \/ PropertyValue
  PROVE  \E frames : Moves(frames)
<1> USE DEF Places, Ends, Is
<1>1. CASE ModelBody
  <2>1. In("model", "body")
    BY <1>1 DEF ModelBody, InBody
  <2>2. CASE Is("@@") /\ Accept /\ Call("body", "attribute", "name")
    <3>1. cur.kind = "@@"
      BY <2>2
    <3>2. stack' = Below \o <<Frame("model", "body"), Frame("attribute", "name")>>
      BY <2>1, <2>2, Names, InIs
    <3>3. Even("@@", "model", "body",
               Brace("model", "body") + Brace("attribute", "name"),
               Parenthesis("model") + Parenthesis("attribute"),
               Square("model", "body") + Square("attribute", "name"))
      BY DEF Even, Tick, Brace, Parenthesis, Square, Declarations
    <3>4. Calls("@@", "model", "body", "body", "attribute", "name")
      BY <2>1, <2>2, <3>1, <3>2, <3>3, Names DEF Calls
    <3> QED
      BY <3>4, StepIn
  <2>3. CASE Is("ident") /\ Accept /\ Call("body", "field", "type")
    <3>1. cur.kind = "ident"
      BY <2>3
    <3>2. stack' = Below \o <<Frame("model", "body"), Frame("field", "type")>>
      BY <2>1, <2>3, Names, InIs
    <3>3. Even("ident", "model", "body",
               Brace("model", "body") + Brace("field", "type"),
               Parenthesis("model") + Parenthesis("field"),
               Square("model", "body") + Square("field", "type"))
      BY DEF Even, Tick, Brace, Parenthesis, Square, Declarations
    <3>4. Calls("ident", "model", "body", "body", "field", "type")
      BY <2>1, <2>3, <3>1, <3>2, <3>3, Names DEF Calls
    <3> QED
      BY <3>4, StepIn
  <2>4. CASE Skip /\ Keep
    <3>1. stack' = Append(Below, Frame("model", "body"))
      BY <2>1, <2>4, Names, InIs
    <3>2. Goes("model", "body", "model", "body")
      BY <2>1, <2>4, <3>1, Names DEF Goes
    <3> QED
      BY <3>2, StepOn
  <2> QED
    BY <1>1, <2>2, <2>3, <2>4 DEF ModelBody
<1>2. CASE EnumBody
  <2>1. In("enum", "body")
    BY <1>2 DEF EnumBody, InBody
  <2>2. CASE Is("ident") /\ Accept /\ Keep
    <3>1. cur.kind = "ident"
      BY <2>2
    <3>2. stack' = Append(Below, Frame("enum", "body"))
      BY <2>1, <2>2, Names, InIs
    <3>3. Even("ident", "enum", "body",
               Brace("enum", "body"),
               Parenthesis("enum"),
               Square("enum", "body"))
      BY DEF Even, Tick, Brace, Parenthesis, Square, Declarations
    <3>4. Goes("enum", "body", "enum", "body")
      BY <2>1, <2>2, <3>1, <3>2, <3>3, Names DEF Goes
    <3> QED
      BY <3>4, StepOn
  <2>3. CASE Skip /\ Keep
    <3>1. stack' = Append(Below, Frame("enum", "body"))
      BY <2>1, <2>3, Names, InIs
    <3>2. Goes("enum", "body", "enum", "body")
      BY <2>1, <2>3, <3>1, Names DEF Goes
    <3> QED
      BY <3>2, StepOn
  <2> QED
    BY <1>2, <2>2, <2>3 DEF EnumBody
<1>3. CASE PropertyKey
  <2>1. PICK d \in {"datasource", "generator"} : In(d, "body")
    BY <1>3 DEF PropertyKey, InBody
  <2>2. CASE Is("ident") /\ Accept /\ Call("body", "property", "equal")
    <3>1. cur.kind = "ident"
      BY <2>2
    <3>2. stack' = Below \o <<Frame(d, "body"), Frame("property", "equal")>>
      BY <2>1, <2>2, Names, InIs
    <3>3. Even("ident", d, "body",
               Brace(d, "body") + Brace("property", "equal"),
               Parenthesis(d) + Parenthesis("property"),
               Square(d, "body") + Square("property", "equal"))
      BY DEF Even, Tick, Brace, Parenthesis, Square, Declarations
    <3>4. Calls("ident", d, "body", "body", "property", "equal")
      BY <2>1, <2>2, <3>1, <3>2, <3>3, Names DEF Calls
    <3> QED
      BY <3>4, StepIn
  <2>3. CASE Skip /\ Keep
    <3>1. stack' = Append(Below, Frame(d, "body"))
      BY <2>1, <2>3, Names, InIs
    <3>2. Goes(d, "body", d, "body")
      BY <2>1, <2>3, <3>1, Names DEF Goes
    <3> QED
      BY <3>2, StepOn
  <2> QED
    BY <1>3, <2>2, <2>3 DEF PropertyKey
<1>4. CASE PropertyEqual
  <2>1. In("property", "equal")
    BY <1>4 DEF PropertyEqual
  <2>2. CASE Is("=") /\ Accept /\ Go("value")
    <3>1. cur.kind = "="
      BY <2>2
    <3>2. stack' = Append(Below, Frame("property", "value"))
      BY <2>1, <2>2, Names, InIs
    <3>3. Even("=", "property", "equal",
               Brace("property", "value"),
               Parenthesis("property"),
               Square("property", "value"))
      BY DEF Even, Tick, Brace, Parenthesis, Square, Declarations
    <3>4. Goes("property", "equal", "property", "value")
      BY <2>1, <2>2, <3>1, <3>2, <3>3, Names DEF Goes
    <3> QED
      BY <3>4, StepOn
  <2>3. CASE Error /\ Return
    BY <2>1, <2>3, Names, StepOut
  <2> QED
    BY <1>4, <2>2, <2>3 DEF PropertyEqual
<1>5. CASE PropertyValue
  <2>1. In("property", "value")
    BY <1>5 DEF PropertyValue
  <2>2. CASE Is("string") /\ Accept /\ Return
    <3>1. cur.kind = "string"
      BY <2>2
    <3>2. Even("string", "property", "value", 0, 0, 0)
      BY DEF Even, Tick, Brace, Parenthesis, Square, Declarations
    <3> QED
      BY <2>1, <2>2, <3>1, <3>2, Names, StepOut
  <2>3. CASE Is("ident") /\ Accept /\ Become("call", "open")
    <3>1. cur.kind = "ident"
      BY <2>3
    <3>2. stack' = Append(Below, Frame("call", "open"))
      BY <2>1, <2>3, Names, InIs
    <3>3. Even("ident", "property", "value",
               Brace("call", "open"),
               Parenthesis("call"),
               Square("call", "open"))
      BY DEF Even, Tick, Brace, Parenthesis, Square, Declarations
    <3>4. Goes("property", "value", "call", "open")
      BY <2>1, <2>3, <3>1, <3>2, <3>3, Names DEF Goes
    <3> QED
      BY <3>4, StepOn
  <2>4. CASE Skip /\ Return
    BY <2>1, <2>4, Names, StepOut
  <2> QED
    BY <1>5, <2>2, <2>3, <2>4 DEF PropertyValue
<1> QED
  BY <1>1, <1>2, <1>3, <1>4, <1>5

\* parseField, parseFieldType and the names of the attributes.
LEMMA FieldMoves ==
  ASSUME StackInv, \/ FieldType \/ FieldList \/ FieldListClose
                   \/ FieldOptional \/ FieldAttributes \/ AttributeName
  PROVE  \E frames : Moves(frames)
<1> USE DEF Places, Ends, Is
<1>1. CASE FieldType
  <2>1. In("field", "type")
    BY <1>1 DEF FieldType
  <2>2. CASE cur.kind \in {"type", "ident"} /\ Accept /\ Go("list")
    <3>1. PICK kind \in {"type", "ident"} : cur.kind = kind
      BY <2>2 DEF Scalars
    <3>2. stack' = Append(Below, Frame("field", "list"))
      BY <2>1, <2>2, Names, InIs
    <3>3. Even(kind, "field", "type",
               Brace("field", "list"),
               Parenthesis("field"),
               Square("field", "list"))
      BY DEF Even, Tick, Brace, Parenthesis, Square, Declarations
    <3>4. Goes("field", "type", "field", "list")
      BY <2>1, <2>2, <3>1, <3>2, <3>3, Names DEF Goes
    <3> QED
      BY <3>4, StepOn
  <2>3. CASE Error /\ Go("attributes")
    <3>1. stack' = Append(Below, Frame("field", "attributes"))
      BY <2>1, <2>3, Names, InIs
    <3>2. Goes("field", "type", "field", "attributes")
      BY <2>1, <2>3, <3>1, Names DEF Goes
    <3> QED
      BY <3>2, StepOn
  <2> QED
    BY <1>1, <2>2, <2>3 DEF FieldType
<1>2. CASE FieldList
  <2>1. In("field", "list")
    BY <1>2 DEF FieldList
  <2>2. CASE Is("[") /\ Accept /\ Go("close")
    <3>1. cur.kind = "["
      BY <2>2
    <3>2. stack' = Append(Below, Frame("field", "close"))
      BY <2>1, <2>2, Names, InIs
    <3>3. Even("[", "field", "list",
               Brace("field", "close"),
               Parenthesis("field"),
               Square("field", "close"))
      BY DEF Even, Tick, Brace, Parenthesis, Square, Declarations
    <3>4. Goes("field", "list", "field", "close")
      BY <2>1, <2>2, <3>1, <3>2, <3>3, Names DEF Goes
    <3> QED
      BY <3>4, StepOn
  <2>3. CASE Stay /\ Go("optional")
    <3>1. stack' = Append(Below, Frame("field", "optional"))
      BY <2>1, <2>3, Names, InIs
    <3>2. Even("none", "field", "list",
               Brace("field", "optional"),
               Parenthesis("field"),
               Square("field", "optional"))
      BY DEF Even, Tick, Brace, Parenthesis, Square, Declarations
    <3>3. Goes("field", "list", "field", "optional")
      BY <2>1, <2>3, <3>1, <3>2, Names DEF Goes
    <3> QED
      BY <3>3, StepOn
  <2> QED
    BY <1>2, <2>2, <2>3 DEF FieldList
<1>3. CASE FieldListClose
  <2>1. In("field", "close")
    BY <1>3 DEF FieldListClose
  <2>2. CASE Is("]") /\ Accept /\ Go("optional")
    <3>1. cur.kind = "]"
      BY <2>2
    <3>2. stack' = Append(Below, Frame("field", "optional"))
      BY <2>1, <2>2, Names, InIs
    <3>3. Even("]", "field", "close",
               Brace("field", "optional"),
               Parenthesis("field"),
               Square("field", "optional"))
      BY DEF Even, Tick, Brace, Parenthesis, Square, Declarations
    <3>4. Goes("field", "close", "field", "optional")
      BY <2>1, <2>2, <3>1, <3>2, <3>3, Names DEF Goes
    <3> QED
      BY <3>4, StepOn
  <2>3. CASE Error /\ Go("attributes")
    <3>1. stack' = Append(Below, Frame("field", "attributes"))
      BY <2>1, <2>3, Names, InIs
    <3>2. Goes("field", "close", "field", "attributes")
      BY <2>1, <2>3, <3>1, Names DEF Goes
    <3> QED
      BY <3>2, StepOn
  <2> QED
    BY <1>3, <2>2, <2>3 DEF FieldListClose
<1>4. CASE FieldOptional
  <2>1. In("field", "optional")
    BY <1>4 DEF FieldOptional
  <2>2. CASE Is("?") /\ Accept /\ Go("attributes")
    <3>1. cur.kind = "?"
      BY <2>2
    <3>2. stack' = Append(Below, Frame("field", "attributes"))
      BY <2>1, <2>2, Names, InIs
    <3>3. Even("?", "field", "optional",
               Brace("field", "attributes"),
               Parenthesis("field"),
               Square("field", "attributes"))
      BY DEF Even, Tick, Brace, Parenthesis, Square, Declarations
    <3>4. Goes("field", "optional", "field", "attributes")
      BY <2>1, <2>2, <3>1, <3>2, <3>3, Names DEF Goes
    <3> QED
      BY <3>4, StepOn
  <2>3. CASE Stay /\ Go("attributes")
    <3>1. stack' = Append(Below, Frame("field", "attributes"))
      BY <2>1, <2>3, Names, InIs
    <3>2. Even("none", "field", "optional",
               Brace("field", "attributes"),
               Parenthesis("field"),
               Square("field", "attributes"))
      BY DEF Even, Tick, Brace, Parenthesis, Square, Declarations
    <3>3. Goes("field", "optional", "field", "attributes")
      BY <2>1, <2>3, <3>1, <3>2, Names DEF Goes
    <3> QED
      BY <3>3, StepOn
  <2> QED
    BY <1>4, <2>2, <2>3 DEF FieldOptional
<1>5. CASE FieldAttributes
  <2>1. In("field", "attributes")
    BY <1>5 DEF FieldAttributes
  <2>2. CASE Is("@") /\ Accept /\ Call("attributes", "attribute", "name")
    <3>1. cur.kind = "@"
      BY <2>2
    <3>2. stack' = Below \o <<Frame("field", "attributes"), Frame("attribute", "name")>>
      BY <2>1, <2>2, Names, InIs
    <3>3. Even("@", "field", "attributes",
               Brace("field", "attributes") + Brace("attribute", "name"),
               Parenthesis("field") + Parenthesis("attribute"),
               Square("field", "attributes") + Square("attribute", "name"))
      BY DEF Even, Tick, Brace, Parenthesis, Square, Declarations
    <3>4. Calls("@", "field", "attributes", "attributes", "attribute", "name")
      BY <2>1, <2>2, <3>1, <3>2, <3>3, Names DEF Calls
    <3> QED
      BY <3>4, StepIn
  <2>3. CASE Stay /\ Return
    <3>1. Even("none", "field", "attributes", 0, 0, 0)
      BY DEF Even, Tick, Brace, Parenthesis, Square, Declarations
    <3> QED
      BY <2>1, <2>3, <3>1, Names, StepOut
  <2> QED
    BY <1>5, <2>2, <2>3 DEF FieldAttributes
<1>6. CASE AttributeName
  <2>1. In("attribute", "name")
    BY <1>6 DEF AttributeName
  <2>2. CASE Is("ident") /\ Accept /\ Become("call", "open")
    <3>1. cur.kind = "ident"
      BY <2>2
    <3>2. stack' = Append(Below, Frame("call", "open"))
      BY <2>1, <2>2, Names, InIs
    <3>3. Even("ident", "attribute", "name",
               Brace("call", "open"),
               Parenthesis("call"),
               Square("call", "open"))
      BY DEF Even, Tick, Brace, Parenthesis, Square, Declarations
    <3>4. Goes("attribute", "name", "call", "open")
      BY <2>1, <2>2, <3>1, <3>2, <3>3, Names DEF Goes
    <3> QED
      BY <3>4, StepOn
  <2>3. CASE Error /\ Return
    BY <2>1, <2>3, Names, StepOut
  <2> QED
    BY <1>6, <2>2, <2>3 DEF AttributeName
<1> QED
  BY <1>1, <1>2, <1>3, <1>4, <1>5, <1>6

\* parseFunctionCall and parseArguments.
LEMMA ArgumentMoves ==
  ASSUME StackInv, ColonInv,
         \/ CallOpen \/ ArgumentsClose \/ Argument
         \/ ArgumentColon \/ ArgumentSeparator
  PROVE  \E frames : Moves(frames)
<1> USE DEF Places, Ends, Is
<1>0. status = "parsing" /\ Top = Frame("arguments", "colon") => cur.kind = ":"
  BY DEF ColonInv, AtColon
<1>1. CASE CallOpen
  <2>1. In("call", "open")
    BY <1>1 DEF CallOpen
  <2>2. CASE Is("(") /\ Accept /\ Become("arguments", "item")
    <3>1. cur.kind = "("
      BY <2>2
    <3>2. stack' = Append(Below, Frame("arguments", "item"))
      BY <2>1, <2>2, Names, InIs
    <3>3. Even("(", "call", "open",
               Brace("arguments", "item"),
               Parenthesis("arguments"),
               Square("arguments", "item"))
      BY DEF Even, Tick, Brace, Parenthesis, Square, Declarations
    <3>4. Goes("call", "open", "arguments", "item")
      BY <2>1, <2>2, <3>1, <3>2, <3>3, Names DEF Goes
    <3> QED
      BY <3>4, StepOn
  <2>3. CASE Stay /\ Return
    <3>1. Even("none", "call", "open", 0, 0, 0)
      BY DEF Even, Tick, Brace, Parenthesis, Square, Declarations
    <3> QED
      BY <2>1, <2>3, <3>1, Names, StepOut
  <2> QED
    BY <1>1, <2>2, <2>3 DEF CallOpen
<1>2. CASE ArgumentsClose
  <2>1. In("arguments", "item")
    BY <1>2 DEF ArgumentsClose
  <2>2. CASE Is(")") /\ Accept /\ Return
    <3>1. cur.kind = ")"
      BY <2>2
    <3>2. Even(")", "arguments", "item", 0, 0, 0)
      BY DEF Even, Tick, Brace, Parenthesis, Square, Declarations
    <3> QED
      BY <2>1, <2>2, <3>1, <3>2, Names, StepOut
  <2>3. CASE Error /\ Return
    BY <2>1, <2>3, Names, StepOut
  <2> QED
    BY <1>2, <2>2, <2>3 DEF ArgumentsClose
<1>3. CASE Argument
  <2>1. In("arguments", "item")
    BY <1>3 DEF Argument
  <2>2. CASE Is("ident") /\ peek.kind = ":" /\ Accept /\ Go("colon")
    <3>1. cur.kind = "ident"
      BY <2>2
    <3>2. stack' = Append(Below, Frame("arguments", "colon"))
      BY <2>1, <2>2, Names, InIs
    <3>3. Even("ident", "arguments", "item",
               Brace("arguments", "colon"),
               Parenthesis("arguments"),
               Square("arguments", "colon"))
      BY DEF Even, Tick, Brace, Parenthesis, Square, Declarations
    <3>4. Goes("arguments", "item", "arguments", "colon")
      BY <2>1, <2>2, <3>1, <3>2, <3>3, Names DEF Goes
    <3> QED
      BY <3>4, StepOn
  <2>3. CASE Stay /\ Go("value")
    <3>1. stack' = Append(Below, Frame("arguments", "value"))
      BY <2>1, <2>3, Names, InIs
    <3>2. Even("none", "arguments", "item",
               Brace("arguments", "value"),
               Parenthesis("arguments"),
               Square("arguments", "value"))
      BY DEF Even, Tick, Brace, Parenthesis, Square, Declarations
    <3>3. Goes("arguments", "item", "arguments", "value")
      BY <2>1, <2>3, <3>1, <3>2, Names DEF Goes
    <3> QED
      BY <3>3, StepOn
  <2> QED
    BY <1>3, <2>2, <2>3 DEF Argument
<1>4. CASE ArgumentColon
  <2>1. In("arguments", "colon")
    BY <1>4 DEF ArgumentColon
  <2>2. CASE Accept /\ Go("value")
    <3>1. cur.kind = ":"
      BY <2>2, <1>0, <2>1 DEF In
    <3>2. stack' = Append(Below, Frame("arguments", "value"))
      BY <2>1, <2>2, Names, InIs
    <3>3. Even(":", "arguments", "colon",
               Brace("arguments", "value"),
               Parenthesis("arguments"),
               Square("arguments", "value"))
      BY DEF Even, Tick, Brace, Parenthesis, Square, Declarations
    <3>4. Goes("arguments", "colon", "arguments", "value")
      BY <2>1, <2>2, <3>1, <3>2, <3>3, Names DEF Goes
    <3> QED
      BY <3>4, StepOn
  <2> QED
    BY <1>4, <2>2 DEF ArgumentColon
<1>5. CASE ArgumentSeparator
  <2>1. In("arguments", "separator")
    BY <1>5 DEF ArgumentSeparator
  <2>2. CASE Is(",") /\ Accept /\ Go("item")
    <3>1. cur.kind = ","
      BY <2>2
    <3>2. stack' = Append(Below, Frame("arguments", "item"))
      BY <2>1, <2>2, Names, InIs
    <3>3. Even(",", "arguments", "separator",
               Brace("arguments", "item"),
               Parenthesis("arguments"),
               Square("arguments", "item"))
      BY DEF Even, Tick, Brace, Parenthesis, Square, Declarations
    <3>4. Goes("arguments", "separator", "arguments", "item")
      BY <2>1, <2>2, <3>1, <3>2, <3>3, Names DEF Goes
    <3> QED
      BY <3>4, StepOn
  <2>3. CASE Stay /\ Go("item")
    <3>1. stack' = Append(Below, Frame("arguments", "item"))
      BY <2>1, <2>3, Names, InIs
    <3>2. Even("none", "arguments", "separator",
               Brace("arguments", "item"),
               Parenthesis("arguments"),
               Square("arguments", "item"))
      BY DEF Even, Tick, Brace, Parenthesis, Square, Declarations
    <3>3. Goes("arguments", "separator", "arguments", "item")
      BY <2>1, <2>3, <3>1, <3>2, Names DEF Goes
    <3> QED
      BY <3>3, StepOn
  <2>4. CASE Error /\ Return
    BY <2>1, <2>4, Names, StepOut
  <2> QED
    BY <1>5, <2>2, <2>3, <2>4 DEF ArgumentSeparator
<1> QED
  BY <1>1, <1>2, <1>3, <1>4, <1>5

\* parseArgumentValue and parseArrayValue.
LEMMA ValueMoves ==
  ASSUME StackInv, ArgumentValue \/ ArrayItem \/ ArraySeparator
  PROVE  \E frames : Moves(frames)
<1> USE DEF Places, Ends, Is
<1>1. CASE ArgumentValue
  <2>1. In("arguments", "value")
    BY <1>1 DEF ArgumentValue
  <2>2. CASE cur.kind \in Scalars /\ Accept /\ Go("separator")
    <3>1. PICK kind \in {"string", "number", "true", "false"} : cur.kind = kind
      BY <2>2 DEF Scalars
    <3>2. stack' = Append(Below, Frame("arguments", "separator"))
      BY <2>1, <2>2, Names, InIs
    <3>3. Even(kind, "arguments", "value",
               Brace("arguments", "separator"),
               Parenthesis("arguments"),
               Square("arguments", "separator"))
      BY DEF Even, Tick, Brace, Parenthesis, Square, Declarations
    <3>4. Goes("arguments", "value", "arguments", "separator")
      BY <2>1, <2>2, <3>1, <3>2, <3>3, Names DEF Goes
    <3> QED
      BY <3>4, StepOn
  <2>3. CASE Is("[") /\ Accept /\ Call("separator", "array", "item")
    <3>1. cur.kind = "["
      BY <2>3
    <3>2. stack' = Below \o <<Frame("arguments", "separator"), Frame("array", "item")>>
      BY <2>1, <2>3, Names, InIs
    <3>3. Even("[", "arguments", "value",
               Brace("arguments", "separator") + Brace("array", "item"),
               Parenthesis("arguments") + Parenthesis("array"),
               Square("arguments", "separator") + Square("array", "item"))
      BY DEF Even, Tick, Brace, Parenthesis, Square, Declarations
    <3>4. Calls("[", "arguments", "value", "separator", "array", "item")
      BY <2>1, <2>3, <3>1, <3>2, <3>3, Names DEF Calls
    <3> QED
      BY <3>4, StepIn
  <2>4. CASE Is("ident") /\ Accept /\ Call("separator", "call", "open")
    <3>1. cur.kind = "ident"
      BY <2>4
    <3>2. stack' = Below \o <<Frame("arguments", "separator"), Frame("call", "open")>>
      BY <2>1, <2>4, Names, InIs
    <3>3. Even("ident", "arguments", "value",
               Brace("arguments", "separator") + Brace("call", "open"),
               Parenthesis("arguments") + Parenthesis("call"),
               Square("arguments", "separator") + Square("call", "open"))
      BY DEF Even, Tick, Brace, Parenthesis, Square, Declarations
    <3>4. Calls("ident", "arguments", "value", "separator", "call", "open")
      BY <2>1, <2>4, <3>1, <3>2, <3>3, Names DEF Calls
    <3> QED
      BY <3>4, StepIn
  <2>5. CASE Skip /\ Go("separator")
    <3>1. stack' = Append(Below, Frame("arguments", "separator"))
      BY <2>1, <2>5, Names, InIs
    <3>2. Goes("arguments", "value", "arguments", "separator")
      BY <2>1, <2>5, <3>1, Names DEF Goes
    <3> QED
      BY <3>2, StepOn
  <2> QED
    BY <1>1, <2>2, <2>3, <2>4, <2>5 DEF ArgumentValue
<1>2. CASE ArrayItem
  <2>1. In("array", "item")
    BY <1>2 DEF ArrayItem
  <2>2. CASE Is("]") /\ Accept /\ Return
    <3>1. cur.kind = "]"
      BY <2>2
    <3>2. Even("]", "array", "item", 0, 0, 0)
      BY DEF Even, Tick, Brace, Parenthesis, Square, Declarations
    <3> QED
      BY <2>1, <2>2, <3>1, <3>2, Names, StepOut
  <2>3. CASE Error /\ Return
    BY <2>1, <2>3, Names, StepOut
  <2>4. CASE Is("ident") /\ Accept /\ Go("separator")
    <3>1. cur.kind = "ident"
      BY <2>4
    <3>2. stack' = Append(Below, Frame("array", "separator"))
      BY <2>1, <2>4, Names, InIs
    <3>3. Even("ident", "array", "item",
               Brace("array", "separator"),
               Parenthesis("array"),
               Square("array", "separator"))
      BY DEF Even, Tick, Brace, Parenthesis, Square, Declarations
    <3>4. Goes("array", "item", "array", "separator")
      BY <2>1, <2>4, <3>1, <3>2, <3>3, Names DEF Goes
    <3> QED
      BY <3>4, StepOn
  <2>5. CASE Skip /\ Go("separator")
    <3>1. stack' = Append(Below, Frame("array", "separator"))
      BY <2>1, <2>5, Names, InIs
    <3>2. Goes("array", "item", "array", "separator")
      BY <2>1, <2>5, <3>1, Names DEF Goes
    <3> QED
      BY <3>2, StepOn
  <2> QED
    BY <1>2, <2>2, <2>3, <2>4, <2>5 DEF ArrayItem
<1>3. CASE ArraySeparator
  <2>1. In("array", "separator")
    BY <1>3 DEF ArraySeparator
  <2>2. CASE Is(",") /\ Accept /\ Go("item")
    <3>1. cur.kind = ","
      BY <2>2
    <3>2. stack' = Append(Below, Frame("array", "item"))
      BY <2>1, <2>2, Names, InIs
    <3>3. Even(",", "array", "separator",
               Brace("array", "item"),
               Parenthesis("array"),
               Square("array", "item"))
      BY DEF Even, Tick, Brace, Parenthesis, Square, Declarations
    <3>4. Goes("array", "separator", "array", "item")
      BY <2>1, <2>2, <3>1, <3>2, <3>3, Names DEF Goes
    <3> QED
      BY <3>4, StepOn
  <2>3. CASE Stay /\ Go("item")
    <3>1. stack' = Append(Below, Frame("array", "item"))
      BY <2>1, <2>3, Names, InIs
    <3>2. Even("none", "array", "separator",
               Brace("array", "item"),
               Parenthesis("array"),
               Square("array", "item"))
      BY DEF Even, Tick, Brace, Parenthesis, Square, Declarations
    <3>3. Goes("array", "separator", "array", "item")
      BY <2>1, <2>3, <3>1, <3>2, Names DEF Goes
    <3> QED
      BY <3>3, StepOn
  <2>4. CASE Error /\ Return
    BY <2>1, <2>4, Names, StepOut
  <2> QED
    BY <1>3, <2>2, <2>3, <2>4 DEF ArraySeparator
<1> QED
  BY <1>1, <1>2, <1>3

\* Every step of the parser but the last one is of that form.
LEMMA NextMoves ==
  ASSUME StackInv, ColonInv, Next
  PROVE  Finish \/ \E frames : Moves(frames)
<1>1. CASE ParseSchema
  BY <1>1, SchemaMoves DEF ParseSchema
<1>2. CASE ParseBlock
  BY <1>2, DeclarationMoves, BodyMoves DEF ParseBlock
<1>3. CASE ParseField
  BY <1>3, FieldMoves DEF ParseField
<1>4. CASE ParseArguments
  BY <1>4, ArgumentMoves, ValueMoves DEF ParseArguments
<1> QED
  BY <1>1, <1>2, <1>3, <1>4 DEF Next

-----------------------------------------------------------------------------
(***************************************************************************)
(* The invariant.                                                          *)
(***************************************************************************)
\* What is left of the tokens, and that a panic stops the parser before it is seen.
LineInv ==
  /\ text \in Seq(Symbols)
  /\ IsLine(text, tokens)
  /\ status = "parsing" => cur.kind # "panic" /\ peek.kind # "panic"

\* Each accepted token stands before the current one, so it is accepted once.
UsedInv ==
  /\ used \subseteq TokenType /\ IsFiniteSet(used)
  /\ \A t \in used : t.first < cur.first

\* Without an error, what lies before the current token was accepted or is no token.
KeptInv ==
  ~failed => \A i \in DOMAIN text : i < cur.first => Used(i) \/ Hidden(text, i)

\* Without an error, what was opened and not closed is what the frames owe.
Tally(tokensUsed, k) == Cardinality({t \in tokensUsed : t.kind = k})

Balanced(S, open, close) == Tally(used, open) = Tally(used, close) + Owed(stack, S)

BalanceInv ==
  ~failed => /\ Balanced(Braces, "{", "}")
             /\ Balanced(Parentheses, "(", ")")
             /\ Balanced(Squares, "[", "]")

\* The parser accepts in its outermost frame and without an error.
DoneInv == status = "accepted" => ~failed /\ IsSchema(Top)

Flags ==
  /\ failed \in BOOLEAN
  /\ status \in {"parsing", "accepted", "rejected", "panicked"}

IInv == /\ LineInv /\ UsedInv /\ KeptInv
        /\ StackInv /\ ColonInv /\ BalanceInv
        /\ DoneInv /\ Flags

\* The head of a line.
LEMMA HeadIs ==
  ASSUME NEW s, NEW ts, IsLine(s, ts)
  PROVE  /\ ts \in Seq(TokenType) /\ Len(ts) \in Nat \ {0}
         /\ Head(ts) = ts[1] /\ Head(ts) \in TokenType
         /\ Head(ts).first \in Nat /\ Head(ts).next \in Nat
<1>1. ts \in Seq(TokenType) /\ Len(ts) \in Nat \ {0}
  BY DEF IsLine
<1>2. Head(ts) = ts[1] /\ Head(ts) \in TokenType
  BY <1>1
<1> QED
  BY <1>1, <1>2 DEF TokenType

\* The current token and the one after it.
LEMMA CurIs ==
  ASSUME LineInv
  PROVE  /\ tokens \in Seq(TokenType) /\ Len(tokens) \in Nat \ {0}
         /\ cur = tokens[1] /\ cur \in TokenType
         /\ cur.kind \notin Ends => Len(tokens) > 1 /\ peek = tokens[2]
         /\ cur.kind \in Ends => Len(tokens) = 1 /\ peek = cur
<1>1. tokens \in Seq(TokenType) /\ Len(tokens) \in Nat \ {0}
  BY DEF LineInv, IsLine
<1>2. cur = tokens[1] /\ cur \in TokenType
  BY <1>1 DEF cur
<1>3. cur.kind \notin Ends => Len(tokens) > 1
  BY <1>1, <1>2 DEF LineInv, IsLine
<1>4. cur.kind \in Ends => Len(tokens) = 1
  <2>1. 1 \in 1..Len(tokens) - 1 => cur.kind \notin Ends
    BY <1>2 DEF LineInv, IsLine
  <2>2. \A n \in Nat \ {0} : n = 1 \/ 1 \in 1..n - 1
    OBVIOUS
  <2> QED
    BY <1>1, <2>1, <2>2, Zenon
<1> QED
  BY <1>1, <1>2, <1>3, <1>4 DEF peek

\* What is left of a line after its first token is a line.
LEMMA LineTail ==
  ASSUME NEW s, NEW ts, IsLine(s, ts), Len(ts) > 1
  PROVE  IsLine(s, Tail(ts)) /\ Head(Tail(ts)) = ts[2]
<1> DEFINE us == Tail(ts)
<1>1. ts \in Seq(TokenType) /\ Len(ts) \in Nat
  BY DEF IsLine
<1>2. /\ us \in Seq(TokenType) /\ us # << >> /\ Len(us) = Len(ts) - 1
      /\ \A k \in 1..Len(us) : us[k] = ts[k + 1]
  <2>1. ts # << >>
    BY <1>1
  <2>2. us \in Seq(TokenType) /\ Len(us) = Len(ts) - 1
    BY <1>1, <2>1
  <2>3. \A k \in 1..Len(us) : us[k] = ts[k + 1]
    BY <1>1, <2>1, <2>2
  <2>4. us # << >>
    <3>1. Len(us) # 0
      BY <1>1, <2>2
    <3>2. Len(<< >>) = 0
      OBVIOUS
    <3> QED
      BY <3>1, <3>2, Zenon
  <2> QED
    BY <2>2, <2>3, <2>4
<1>3. Head(us) = ts[2]
  BY <1>1, <1>2
<1> HIDE DEF us
<1>4. ASSUME NEW k \in 1..Len(us) - 1
      PROVE  us[k].kind \notin Ends /\ IsAfter(s, us[k], us[k + 1])
  <2>1. k \in 1..Len(us) /\ k + 1 \in 1..Len(us) /\ k + 1 \in 1..Len(ts) - 1
    BY <1>1, <1>2
  <2>2. us[k] = ts[k + 1] /\ us[k + 1] = ts[(k + 1) + 1]
    BY <1>2, <2>1
  <2>3. ts[k + 1].kind \notin Ends /\ IsAfter(s, ts[k + 1], ts[(k + 1) + 1])
    BY <2>1 DEF IsLine
  <2> QED
    BY <2>2, <2>3
<1>5. us[Len(us)].kind \in Ends
  <2>1. Len(us) \in 1..Len(us) /\ Len(us) + 1 = Len(ts)
    BY <1>1, <1>2
  <2>2. us[Len(us)] = ts[Len(ts)]
    BY <1>2, <2>1
  <2> QED
    BY <2>2 DEF IsLine
<1>6. IsLine(s, us)
  BY <1>2, <1>4, <1>5 DEF IsLine
<1> QED
  BY <1>3, <1>6 DEF us

\* A token that is not the last one is followed by the next.
LEMMA Advance ==
  ASSUME LineInv, NextToken, text' = text, cur.kind \notin Ends
  PROVE  /\ IsLine(text', tokens') /\ cur' = peek
         /\ IsAfter(text, cur, cur')
<1>1. tokens' = Tail(tokens)
  BY DEF NextToken, Is, Ends
<1>2. Len(tokens) > 1 /\ peek = tokens[2] /\ cur = tokens[1] /\ Len(tokens) \in Nat
  BY CurIs
<1>3. IsLine(text, Tail(tokens)) /\ Head(Tail(tokens)) = tokens[2]
  BY <1>2, LineTail DEF LineInv
<1>4. cur' = tokens[2]
  BY <1>1, <1>3 DEF cur
<1>5. IsAfter(text, tokens[1], tokens[2])
  <2>1. 1 \in 1..Len(tokens) - 1 /\ 1 + 1 = 2
    BY <1>2
  <2> QED
    BY <2>1 DEF LineInv, IsLine
<1> QED
  BY <1>1, <1>2, <1>3, <1>4, <1>5

\* NextToken keeps the line, also at the end of the file.
LEMMA LineNext ==
  ASSUME LineInv, NextToken, text' = text, status = "parsing"
  PROVE  LineInv' /\ status' \in {"parsing", "panicked"}
<1>1. status' = IF peek'.kind = "panic" THEN "panicked" ELSE status
  BY DEF NextToken
<1>2. CASE cur.kind \notin Ends
  <2>1. IsLine(text', tokens') /\ cur' = peek
    BY <1>2, Advance
  <2>2. cur'.kind # "panic"
    BY <2>1 DEF LineInv
  <2> QED
    BY <1>1, <2>1, <2>2 DEF LineInv
<1>3. CASE cur.kind \in Ends
  <2>1. Is("eof")
    BY <1>3 DEF LineInv, Ends, Is
  <2>2. tokens' = tokens
    BY <2>1 DEF NextToken
  <2>3. cur' = cur /\ peek' = peek
    BY <2>2 DEF cur, peek
  <2> QED
    BY <1>1, <2>2, <2>3 DEF LineInv
<1> QED
  BY <1>2, <1>3

\* What a step does to the tokens, the flags and the colon.
LEMMA MovesLine ==
  ASSUME LineInv, Flags, StackInv, ColonInv, status = "parsing",
         NEW frames, Moves(frames)
  PROVE  /\ LineInv' /\ Flags' /\ text' = text
         /\ status' \in {"parsing", "panicked"}
         /\ Reads(Top, frames) \/ Stay \/ failed' = TRUE
<1>1. CASE Accept
  <2>1. NextToken /\ text' = text /\ failed' = failed
    BY <1>1 DEF Accept
  <2>2. LineInv' /\ status' \in {"parsing", "panicked"}
    BY <2>1, LineNext
  <2>3. Flags'
    BY <2>1, <2>2 DEF Flags
  <2>4. Reads(Top, frames) \/ Stay \/ failed' = TRUE
    BY DEF Moves, Passes, Leaves, Skip, Error
  <2> QED
    BY <2>1, <2>2, <2>3, <2>4
<1>2. CASE Skip
  <2>1. NextToken /\ text' = text /\ failed' = TRUE
    BY <1>2 DEF Skip
  <2>2. LineInv' /\ status' \in {"parsing", "panicked"}
    BY <2>1, LineNext
  <2>3. Flags'
    BY <2>1, <2>2 DEF Flags
  <2> QED
    BY <2>1, <2>2, <2>3
<1>3. CASE Error \/ Stay
  <2>1. text' = text /\ tokens' = tokens /\ status' = status
    BY <1>3 DEF Error, Stay
  <2>2. LineInv'
    BY <2>1 DEF LineInv, cur, peek
  <2>3. failed' \in BOOLEAN /\ (failed' = TRUE \/ Stay)
    BY <1>3 DEF Error, Stay, Flags
  <2> QED
    BY <2>1, <2>2, <2>3 DEF Flags
<1> QED
  BY <1>1, <1>2, <1>3 DEF Moves, Reads, Passes, Leaves

-----------------------------------------------------------------------------
\* An accepted token is a new one.
LEMMA AcceptCounts ==
  ASSUME LineInv, UsedInv, used' = used \cup {cur}, NEW k
  PROVE  /\ Tally(used, k) \in Nat
         /\ Tally(used', k) = Tally(used, k) + Tick(cur.kind, k)
<1> DEFINE old == {t \in used : t.kind = k}
           new == {t \in used' : t.kind = k}
<1>1. cur \in TokenType /\ cur.first \in Nat
  BY CurIs DEF TokenType
<1>2. cur \notin used
  BY <1>1 DEF UsedInv
<1>3. IsFiniteSet(old)
  BY FS_Subset DEF UsedInv
<1>4. Cardinality(old) \in Nat
  BY <1>3, FS_CardinalityType
<1>5. new = IF cur.kind = k THEN old \cup {cur} ELSE old
  OBVIOUS
<1>6. cur \notin old
  BY <1>2
<1> HIDE DEF old, new
<1>7. Cardinality(old \cup {cur}) = Cardinality(old) + 1
  BY <1>3, <1>6, FS_AddElement
<1>8. Cardinality(new) = Cardinality(old) + Tick(cur.kind, k)
  BY <1>4, <1>5, <1>7 DEF Tick
<1> QED
  BY <1>4, <1>8 DEF Tally, old, new

\* The accepted tokens after a step.
LEMMA MovesUsed ==
  ASSUME LineInv, UsedInv, NEW frames, Moves(frames), status = "parsing"
  PROVE  UsedInv'
<1>1. CASE Accept /\ cur.kind \notin Ends
  <2>1. NextToken /\ text' = text /\ used' = used \cup {cur}
    BY <1>1 DEF Accept
  <2>2. IsAfter(text, cur, cur')
    BY <1>1, <2>1, Advance
  <2>3. cur.first < cur'.first
    BY <2>2 DEF IsAfter
  <2>4. IsFiniteSet(used')
    BY <2>1, FS_AddElement DEF UsedInv
  <2>5. cur \in TokenType /\ cur.first \in Nat
    BY CurIs DEF TokenType
  <2>6. LineInv'
    BY <2>1, LineNext
  <2>7. cur'.first \in Nat
    BY <2>6, HeadIs DEF LineInv, cur
  <2>8. ASSUME NEW t \in used' PROVE t.first < cur'.first
    <3>1. CASE t = cur
      BY <2>3, <3>1
    <3>2. CASE t \in used
      <4>1. t.first \in Nat /\ t.first < cur.first
        BY <3>2 DEF UsedInv, TokenType
      <4> QED
        BY <2>3, <2>5, <2>7, <4>1
    <3> QED
      BY <2>1, <3>1, <3>2
  <2>9. used' \subseteq TokenType
    BY <2>1, <2>5 DEF UsedInv
  <2> QED
    BY <2>4, <2>8, <2>9 DEF UsedInv
<1>2. CASE Skip
  <2>1. NextToken /\ text' = text /\ used' = used
    BY <1>2 DEF Skip
  <2>2. LineInv'
    BY <2>1, LineNext
  <2>3. cur.first \in Nat /\ cur'.first \in Nat
    <3>1. IsLine(text, tokens) /\ IsLine(text', tokens')
      BY <2>2 DEF LineInv
    <3> QED
      BY <3>1, HeadIs DEF cur
  <2>4. cur.first <= cur'.first
    <3>1. CASE cur.kind \notin Ends
      <4>1. IsAfter(text, cur, cur')
        BY <2>1, <3>1, Advance
      <4> QED
        BY <2>3, <4>1 DEF IsAfter
    <3>2. CASE cur.kind \in Ends
      <4>1. tokens' = tokens
        BY <2>1, <3>2 DEF LineInv, Ends, Is, NextToken
      <4> QED
        BY <2>3, <4>1 DEF cur
    <3> QED
      BY <3>1, <3>2
  <2>5. \A t \in used : t.first \in Nat /\ t.first < cur.first
    BY DEF UsedInv, TokenType
  <2> QED
    BY <2>1, <2>3, <2>4, <2>5 DEF UsedInv
<1>3. CASE Error \/ Stay
  <2>1. used' = used /\ cur' = cur
    BY <1>3 DEF Error, Stay, cur
  <2> QED
    BY <2>1 DEF UsedInv
<1> QED
  BY <1>1, <1>2, <1>3 DEF Moves, Reads, Passes, Leaves

\* A read token joins what was kept, with what the lexer hides up to the next one.
LEMMA MovesKept ==
  ASSUME LineInv, KeptInv, Flags, NEW frames, Moves(frames), status = "parsing"
  PROVE  KeptInv'
<1>1. CASE Accept /\ cur.kind \notin Ends
  <2>1. NextToken /\ text' = text /\ used' = used \cup {cur} /\ failed' = failed
    BY <1>1 DEF Accept
  <2>2. SUFFICES ASSUME ~failed, NEW i \in DOMAIN text, i < cur'.first
                 PROVE  Used(i)' \/ Hidden(text, i)
    BY <2>1 DEF KeptInv
  <2>3. i \in Nat
    BY DEF LineInv
  <2>4. cur.first \in Nat /\ cur.next \in Nat
    BY CurIs DEF TokenType
  <2>5. IsAfter(text, cur, cur')
    BY <1>1, <2>1, Advance
  <2>6. LineInv'
    BY <2>1, LineNext
  <2>7. cur'.first \in Nat
    BY <2>6, HeadIs DEF LineInv, cur
  <2>8. CASE i < cur.first
    <3>1. Used(i) \/ Hidden(text, i)
      BY <2>2, <2>8 DEF KeptInv
    <3>2. Used(i) => Used(i)'
      BY <2>1 DEF Used
    <3> QED
      BY <3>1, <3>2
  <2>9. CASE i \in cur.first..cur.next - 1
    BY <2>1, <2>9 DEF Used
  <2>10. CASE i \in cur.next..cur'.first - 1
    BY <2>5, <2>10 DEF IsAfter
  <2> QED
    BY <2>2, <2>3, <2>4, <2>7, <2>8, <2>9, <2>10
<1>2. CASE Skip \/ Error
  BY <1>2 DEF Skip, Error, KeptInv
<1>3. CASE Stay
  <2>1. text' = text /\ used' = used /\ failed' = failed /\ cur' = cur
    BY <1>3 DEF Stay, cur
  <2> QED
    BY <2>1 DEF KeptInv, Used
<1> QED
  BY <1>1, <1>2, <1>3 DEF Moves, Reads, Passes, Leaves

-----------------------------------------------------------------------------
\* Two frames at most take the place of one: the new stack, frame by frame.
LEMMA Replaced ==
  ASSUME StackInv, NEW frames, frames \in Seq(FrameType), Len(frames) <= 2,
         stack' = Below \o frames
  PROVE  /\ stack' \in Seq(FrameType) /\ Len(stack') = Len(stack) - 1 + Len(frames)
         /\ \A i \in 1..Len(stack) - 1 : stack'[i] = stack[i]
         /\ \A i \in DOMAIN frames : stack'[Len(stack) - 1 + i] = frames[i]
         /\ \A S : /\ Owed(stack, S) = Owed(Below, S) + Weight(Top, S)
                   /\ Owed(stack', S) = Owed(Below, S) + Owed(frames, S)
                   /\ Owed(Below, S) \in Nat /\ Owed(frames, S) \in Nat
<1>1. /\ Len(stack) \in Nat \ {0} /\ Top \in FrameType
      /\ Below \in Seq(FrameType) /\ Len(Below) = Len(stack) - 1
      /\ stack = Append(Below, Top)
      /\ \A i \in DOMAIN Below : Below[i] = stack[i]
  BY StackIs
<1>2. /\ stack' \in Seq(FrameType) /\ Len(stack') = Len(stack) - 1 + Len(frames)
      /\ \A i \in 1..Len(stack) - 1 : stack'[i] = stack[i]
      /\ \A i \in DOMAIN frames : stack'[Len(stack) - 1 + i] = frames[i]
  BY <1>1
<1>3. ASSUME NEW S
      PROVE  /\ Owed(stack, S) = Owed(Below, S) + Weight(Top, S)
             /\ Owed(stack', S) = Owed(Below, S) + Owed(frames, S)
             /\ Owed(Below, S) \in Nat /\ Owed(frames, S) \in Nat
  <2>1. Owed(Below, S) \in Nat /\ Owed(stack, S) = Owed(Below, S) + Weight(Top, S)
    BY <1>1, OwedAppend
  <2>2. CASE Len(frames) = 0
    <3>1. frames = << >> /\ stack' = Below
      BY <1>1, <2>2
    <3>2. Owed(frames, S) = 0
      BY <3>1, OwedNone
    <3> QED
      BY <2>1, <3>1, <3>2
  <2>3. CASE Len(frames) = 1
    <3>1. PICK f \in FrameType : frames = <<f>>
      BY <2>3
    <3>2. stack' = Append(Below, f)
      BY <1>1, <3>1
    <3>3. Owed(stack', S) = Owed(Below, S) + Weight(f, S)
      BY <1>1, <3>2, OwedAppend
    <3>4. Owed(frames, S) = Weight(f, S) /\ Weight(f, S) \in Nat
      BY <3>1, OwedIs DEF Weight
    <3> QED
      BY <2>1, <3>3, <3>4
  <2>4. CASE Len(frames) = 2
    <3>1. PICK f \in FrameType, g \in FrameType : frames = <<f, g>>
      <4>1. frames = <<frames[1], frames[2]>>
        BY <2>4
      <4>2. 1 \in DOMAIN frames /\ 2 \in DOMAIN frames
        BY <2>4
      <4>3. frames[1] \in FrameType /\ frames[2] \in FrameType
        BY <4>2
      <4> QED
        BY <4>1, <4>3
    <3>2. PICK b : b = Append(Below, f)
      OBVIOUS
    <3>3. b \in Seq(FrameType) /\ stack' = Append(b, g)
      BY <1>1, <3>1, <3>2
    <3>4. Owed(b, S) = Owed(Below, S) + Weight(f, S)
      BY <1>1, <3>2, OwedAppend
    <3>5. Owed(stack', S) = Owed(b, S) + Weight(g, S)
      BY <3>3, OwedAppend
    <3>6. Owed(frames, S) = Weight(f, S) + Weight(g, S)
      BY <3>1, OwedIs
    <3>7. Weight(f, S) \in Nat /\ Weight(g, S) \in Nat
      BY DEF Weight
    <3> QED
      BY <2>1, <3>4, <3>5, <3>6, <3>7
  <2>5. Len(frames) = 0 \/ Len(frames) = 1 \/ Len(frames) = 2
    <3>1. Len(frames) \in Nat
      OBVIOUS
    <3>2. \A n \in Nat : n <= 2 => n = 0 \/ n = 1 \/ n = 2
      OBVIOUS
    <3> QED
      BY <3>1, <3>2, Zenon
  <2> QED
    BY <2>2, <2>3, <2>4, <2>5
<1> QED
  BY <1>2, <1>3

\* The schema stays outermost and alone, and a colon is looked for at once.
LEMMA MovesStack ==
  ASSUME LineInv, StackInv, ColonInv, NEW frames, Moves(frames), status = "parsing"
  PROVE  StackInv' /\ ColonInv'
<1> DEFINE n == Len(stack) - 1
           m == Len(frames)
<1>1. frames \in Seq(FrameType) /\ m \in Nat /\ m <= 2 /\ Len(stack) \in Nat \ {0} /\ n \in Nat
  BY StackIs DEF Moves, Replaces
<1>2. /\ stack' \in Seq(FrameType) /\ Len(stack') = n + m
      /\ \A i \in 1..n : stack'[i] = stack[i]
      /\ \A i \in DOMAIN frames : stack'[n + i] = frames[i]
  BY <1>1, Replaced DEF Moves
<1>3. /\ IsSchema(Top) => frames # << >> /\ IsSchema(frames[1])
      /\ \A i \in DOMAIN frames : IsSchema(frames[i]) => i = 1 /\ IsSchema(Top)
      /\ \A i \in DOMAIN frames : frames[i] = AtColon => i = m
  BY DEF Moves, Replaces
<1>4. /\ IsSchema(Top) <=> n = 0
      /\ \A i \in 1..n : (IsSchema(stack[i]) <=> i = 1) /\ stack[i] # AtColon
  <2>1. Len(stack) \in DOMAIN stack /\ Len(stack) = n + 1
    BY <1>1 DEF StackInv
  <2>2. IsSchema(Top) <=> Len(stack) = 1
    BY <2>1 DEF StackInv, Top
  <2>3. ASSUME NEW i \in 1..n
        PROVE  (IsSchema(stack[i]) <=> i = 1) /\ stack[i] # AtColon
    <3>1. i \in DOMAIN stack /\ i # Len(stack)
      BY <1>1 DEF StackInv
    <3> QED
      BY <3>1 DEF StackInv
  <2> QED
    BY <1>1, <2>1, <2>2, <2>3
<1> HIDE DEF n, m
<1>5. stack' # << >>
  <2>1. n + m # 0
    BY <1>1, <1>3, <1>4 DEF m
  <2> QED
    BY <1>2, <2>1
<1>6. ASSUME NEW i \in DOMAIN stack'
      PROVE  /\ IsSchema(stack'[i]) <=> i = 1
             /\ stack'[i] = AtColon => i = n + m /\ m # 0 /\ frames[m] = AtColon
  <2>1. i \in 1..n + m
    BY <1>2
  <2>2. CASE i \in 1..n
    BY <1>2, <1>4, <2>2
  <2>3. CASE i \notin 1..n
    <3>1. PICK j \in 1..m : i = n + j
      <4>1. i - n \in 1..m /\ i = n + (i - n)
        BY <1>1, <2>1, <2>3
      <4> QED
        BY <4>1
    <3>2. j \in DOMAIN frames /\ stack'[i] = frames[j]
      BY <1>1, <1>2, <3>1 DEF m
    <3>3. IsSchema(frames[j]) <=> i = 1
      BY <1>1, <1>3, <1>4, <3>1, <3>2
    <3> QED
      BY <1>1, <1>3, <3>1, <3>2, <3>3
  <2> QED
    BY <2>2, <2>3
<1>7. StackInv'
  BY <1>2, <1>5, <1>6 DEF StackInv
<1>8. ASSUME Top' = AtColon PROVE cur'.kind = ":"
  <2>1. Top' = stack'[n + m] /\ n + m \in DOMAIN stack'
    BY <1>1, <1>2, <1>5 DEF Top
  <2>2. frames # << >> /\ frames[Len(frames)] = AtColon
    BY <1>1, <1>6, <1>8, <2>1 DEF m
  <2>3. Reads(Top, frames)
    BY <2>2 DEF Moves, Passes, Leaves
  <2>4. Accept /\ cur.kind \notin Ends /\ peek.kind = ":"
    BY <2>2, <2>3 DEF Reads
  <2>5. cur' = peek
    BY <2>4, Advance DEF Accept
  <2> QED
    BY <2>4, <2>5
<1> QED
  BY <1>7, <1>8 DEF ColonInv

\* What a step opens or closes it adds to or takes from what is owed.
LEMMA MovesBalance ==
  ASSUME LineInv, UsedInv, StackInv, Flags, BalanceInv, NEW frames, Moves(frames)
  PROVE  BalanceInv'
<1>1. CASE Skip \/ Error
  BY <1>1 DEF Skip, Error, BalanceInv
<1>2. ASSUME NEW kind, SettlesAll(kind, Top, frames), failed' = failed,
             \A k : k # "none" =>
               Tally(used, k) \in Nat /\ Tally(used', k) = Tally(used, k) + Tick(kind, k)
      PROVE  BalanceInv'
  <2>1. \A S : /\ Owed(stack, S) = Owed(Below, S) + Weight(Top, S)
                /\ Owed(stack', S) = Owed(Below, S) + Owed(frames, S)
                /\ Owed(Below, S) \in Nat /\ Owed(frames, S) \in Nat
    BY Replaced DEF Moves, Replaces
  <2>2. ASSUME NEW S, NEW open, NEW close, open # "none", close # "none",
               Settles(kind, Top, frames, S, open, close), Balanced(S, open, close)
        PROVE  Balanced(S, open, close)'
    <3>0. /\ Owed(stack, S) = Owed(Below, S) + Weight(Top, S)
          /\ Owed(stack', S) = Owed(Below, S) + Owed(frames, S)
          /\ Owed(Below, S) \in Nat /\ Owed(frames, S) \in Nat
      BY <2>1
    <3>1. Tick(kind, open) \in Nat /\ Tick(kind, close) \in Nat /\ Weight(Top, S) \in Nat
      BY DEF Tick, Weight
    <3>2. /\ Tally(used, open) \in Nat /\ Tally(used', open) = Tally(used, open) + Tick(kind, open)
          /\ Tally(used, close) \in Nat /\ Tally(used', close) = Tally(used, close) + Tick(kind, close)
      BY <1>2, <2>2
    <3>3. Tally(used, open) = Tally(used, close) + Owed(stack, S)
      BY <2>2 DEF Balanced
    <3>4. Tick(kind, open) + Weight(Top, S) = Tick(kind, close) + Owed(frames, S)
      BY <2>2 DEF Settles
    <3>5. Tally(used', open) = Tally(used', close) + Owed(stack', S)
      BY <3>0, <3>1, <3>2, <3>3, <3>4
    <3> QED
      BY <3>5 DEF Balanced
  <2> QED
    BY <1>2, <2>2 DEF BalanceInv, SettlesAll
<1>3. CASE Accept /\ SettlesAll(cur.kind, Top, frames)
  <2>1. used' = used \cup {cur} /\ failed' = failed
    BY <1>3 DEF Accept
  <2>2. \A k : Tally(used, k) \in Nat /\ Tally(used', k) = Tally(used, k) + Tick(cur.kind, k)
    BY <2>1, AcceptCounts
  <2> QED
    BY <1>2, <1>3, <2>1, <2>2
<1>4. CASE Stay /\ SettlesAll("none", Top, frames)
  <2>1. used' = used /\ failed' = failed
    BY <1>4 DEF Stay
  <2>2. ASSUME NEW k, k # "none"
        PROVE  Tally(used, k) \in Nat /\ Tally(used', k) = Tally(used, k) + Tick("none", k)
    <3>1. IsFiniteSet({t \in used : t.kind = k})
      BY FS_Subset DEF UsedInv
    <3>2. Tally(used, k) \in Nat
      BY <3>1, FS_CardinalityType DEF Tally
    <3>3. Tally(used', k) = Tally(used, k) /\ Tick("none", k) = 0
      BY <2>1, <2>2 DEF Tick
    <3>4. \A n \in Nat : n = n + 0
      OBVIOUS
    <3> QED
      BY <3>2, <3>3, <3>4, Zenon
  <2> QED
    BY <1>2, <1>4, <2>1, <2>2
<1> QED
  BY <1>1, <1>3, <1>4 DEF Moves, Reads, Passes, Leaves

-----------------------------------------------------------------------------
\* The parser starts with the tokens of the text and the frame of the schema.
LEMMA InitIInv == Init => IInv
<1> SUFFICES ASSUME Init PROVE IInv
  OBVIOUS
<1>1. text \in Seq(Symbols)
  BY InputsAssumption DEF Init
<1>2. IsLexed(text, 1, tokens)
  BY <1>1, TokensAreLexed DEF Init
<1>3. LineInv
  <2>1. IsLine(text, tokens)
    BY <1>2 DEF IsLexed
  <2>2. status = "parsing" => cur.kind # "panic" /\ peek.kind # "panic"
    BY DEF Init
  <2> QED
    BY <1>1, <2>1, <2>2 DEF LineInv
<1>4. UsedInv
  <2>1. used = {}
    BY DEF Init
  <2> QED
    BY <2>1, FS_EmptySet DEF UsedInv
<1>5. KeptInv
  <2>1. ASSUME NEW i \in DOMAIN text, i < cur.first PROVE Hidden(text, i)
    <3>1. cur = tokens[1] /\ cur.first \in Nat
      BY <1>3, CurIs DEF TokenType
    <3>2. i \in 1..cur.first - 1
      BY <1>1, <2>1, <3>1
    <3> QED
      BY <1>2, <3>1, <3>2 DEF IsLexed
  <2> QED
    BY <2>1 DEF KeptInv
<1>6. PICK f : f = Frame("schema", "start")
  OBVIOUS
<1>7. f \in FrameType /\ IsSchema(f) /\ f # AtColon
  BY <1>6 DEF Frame, FrameType, Functions, Places, IsSchema, AtColon
<1>8. stack = <<f>>
  BY <1>6 DEF Init
<1>9. StackInv /\ Top = f
  BY <1>7, <1>8 DEF StackInv, Top
<1>10. ColonInv
  BY <1>7, <1>9 DEF ColonInv
<1>11. BalanceInv
  <2>1. \A k : Tally(used, k) = 0
    <3>1. ASSUME NEW k PROVE {t \in used : t.kind = k} = {}
      BY DEF Init
    <3> QED
      BY <3>1, FS_EmptySet DEF Tally
  <2>2. f \notin Braces /\ f \notin Parentheses /\ f \notin Squares
    BY <1>7 DEF IsSchema, Braces, Parentheses, Squares, Declarations
  <2>3. \A S : Owed(stack, S) = Weight(f, S)
    BY <1>8, OwedIs
  <2>4. Owed(stack, Braces) = 0 /\ Owed(stack, Parentheses) = 0 /\ Owed(stack, Squares) = 0
    BY <2>2, <2>3 DEF Weight
  <2>5. \A S, open, close : Owed(stack, S) = 0 => Balanced(S, open, close)
    BY <2>1 DEF Balanced
  <2> QED
    BY <2>4, <2>5, Zenon DEF BalanceInv
<1>12. DoneInv /\ Flags
  BY DEF Init, DoneInv, Flags
<1> QED
  BY <1>3, <1>4, <1>5, <1>9, <1>10, <1>11, <1>12 DEF IInv

\* Each step keeps the invariant.
LEMMA NextIInv == IInv /\ [Next]_vars => IInv'
<1> SUFFICES ASSUME IInv, [Next]_vars PROVE IInv'
  OBVIOUS
<1> USE DEF IInv
<1>1. CASE Finish
  <2>1. /\ text' = text /\ tokens' = tokens /\ stack' = stack
        /\ used' = used /\ failed' = failed
        /\ status' = IF failed THEN "rejected" ELSE "accepted"
    BY <1>1 DEF Finish
  <2>2. cur' = cur /\ peek' = peek /\ Top' = Top
    BY <2>1 DEF cur, peek, Top
  <2>3. status' # "parsing"
    BY <2>1
  <2>4. LineInv' /\ UsedInv' /\ StackInv' /\ ColonInv'
    BY <2>1, <2>2, <2>3 DEF LineInv, UsedInv, StackInv, ColonInv
  <2>5. KeptInv' /\ BalanceInv'
    BY <2>1, <2>2 DEF KeptInv, Used, BalanceInv, Balanced
  <2>6. IsSchema(Top)
    BY <1>1 DEF Finish, In, IsSchema, Frame
  <2>7. DoneInv' /\ Flags'
    BY <2>1, <2>2, <2>6 DEF DoneInv, Flags
  <2> QED
    BY <2>4, <2>5, <2>7
<1>2. ASSUME NEW frames, Moves(frames), status = "parsing" PROVE IInv'
  <2>1. LineInv' /\ Flags' /\ status' \in {"parsing", "panicked"}
    BY <1>2, MovesLine
  <2>2. UsedInv' /\ KeptInv'
    BY <1>2, MovesUsed, MovesKept
  <2>3. StackInv' /\ ColonInv' /\ BalanceInv'
    BY <1>2, MovesStack, MovesBalance
  <2>4. DoneInv'
    BY <2>1 DEF DoneInv
  <2> QED
    BY <2>1, <2>2, <2>3, <2>4
<1>3. CASE Next
  <2>1. status = "parsing"
    BY <1>3 DEF Next, ParseSchema, ParseBlock, ParseField, ParseArguments,
         ParseDeclaration, SkipDeclaration, Finish, AtDeclaration,
         DeclarationName, DeclarationOpen, DeclarationClose, InDeclaration,
         ModelBody, EnumBody, InBody, PropertyKey, PropertyEqual, PropertyValue,
         FieldType, FieldList, FieldListClose, FieldOptional, FieldAttributes, AttributeName,
         CallOpen, ArgumentsClose, Argument, ArgumentColon, ArgumentValue,
         ArgumentSeparator, ArrayItem, ArraySeparator, In
  <2>2. Finish \/ \E frames : Moves(frames)
    BY <1>3, NextMoves
  <2> QED
    BY <1>1, <1>2, <2>1, <2>2
<1>4. CASE UNCHANGED vars
  <2>1. /\ text' = text /\ tokens' = tokens /\ stack' = stack
        /\ used' = used /\ failed' = failed /\ status' = status
    BY <1>4 DEF vars
  <2>2. cur' = cur /\ peek' = peek /\ Top' = Top
    BY <2>1 DEF cur, peek, Top
  <2>3. LineInv' /\ UsedInv' /\ StackInv' /\ ColonInv'
    BY <2>1, <2>2 DEF LineInv, UsedInv, StackInv, ColonInv
  <2>4. KeptInv' /\ BalanceInv' /\ DoneInv' /\ Flags'
    BY <2>1, <2>2 DEF KeptInv, Used, BalanceInv, Balanced, DoneInv, Flags
  <2> QED
    BY <2>3, <2>4
<1> QED
  BY <1>3, <1>4

\* The invariant, for every text.
THEOREM InvHolds == Spec => []IInv
<1>1. Init => IInv
  BY InitIInv
<1>2. IInv /\ [Next]_vars => IInv'
  BY NextIInv
<1> QED
  BY <1>1, <1>2, PTL DEF Spec

\* The parser keeps its types: the lexer returns known kinds of tokens and the end of
\* the file or a panic after them, so that there is always a current token.
THEOREM TypeCorrect == Spec => []TypeOK
<1>1. IInv => TypeOK
  <2> SUFFICES ASSUME IInv PROVE TypeOK
    OBVIOUS
  <2>1. text \in Seq(Symbols) /\ tokens \in Seq(TokenType) \ {<< >>}
    BY DEF IInv, LineInv, IsLine
  <2>2. stack # << >> /\ \A i \in DOMAIN stack : stack[i].function \in Functions
    <3>1. stack \in Seq(FrameType) /\ stack # << >>
      BY DEF IInv, StackInv
    <3>2. \A i \in DOMAIN stack : stack[i] \in FrameType
      BY <3>1
    <3> QED
      BY <3>1, <3>2 DEF FrameType
  <2>3. used \subseteq TokenType
    BY DEF IInv, UsedInv
  <2> QED
    BY <2>1, <2>2, <2>3 DEF IInv, Flags, TypeOK
<1> QED
  BY <1>1, InvHolds, PTL

\* What an accepted file holds before the token the parser stopped at went into the
\* syntax tree or is a comment: no error path drops a token without addError.
THEOREM AcceptedKept == Spec => []AcceptedIsKept
<1>1. IInv => AcceptedIsKept
  <2> SUFFICES ASSUME IInv, status = "accepted", NEW i \in DOMAIN text, i < cur.first
               PROVE  Used(i) \/ text[i] = "newline" \/ InComment(i)
    BY DEF AcceptedIsKept
  <2>1. Used(i) \/ Hidden(text, i)
    BY DEF IInv, DoneInv, KeptInv
  <2> QED
    BY <2>1 DEF Hidden, InComment
<1> QED
  BY <1>1, InvHolds, PTL

\* An accepted file closes each brace, parenthesis and bracket it opens: the parser
\* accepts where only the schema is left of the parse functions, which owes none.
THEOREM AcceptedBalanced == Spec => []AcceptedIsBalanced
<1>1. IInv => AcceptedIsBalanced
  <2> SUFFICES ASSUME IInv, status = "accepted"
               PROVE  /\ Count("{") = Count("}") /\ Count("(") = Count(")")
                      /\ Count("[") = Count("]")
    BY DEF AcceptedIsBalanced
  <2>1. StackInv /\ UsedInv /\ BalanceInv /\ ~failed /\ IsSchema(Top)
    BY DEF IInv, DoneInv
  <2>2. Len(stack) = 1 /\ stack = Append(Below, Top) /\ Top \in FrameType
        /\ Below \in Seq(FrameType) /\ Len(Below) = 0
    <3>1. /\ Len(stack) \in Nat \ {0} /\ Len(Below) = Len(stack) - 1
          /\ stack = Append(Below, Top) /\ Top \in FrameType /\ Below \in Seq(FrameType)
      BY <2>1, StackIs
    <3>2. Len(stack) \in DOMAIN stack
      BY <2>1, <3>1 DEF StackInv
    <3>3. Len(stack) = 1
      BY <2>1, <3>2 DEF StackInv, Top
    <3> QED
      BY <3>1, <3>3
  <2>3. ASSUME NEW S, Top \notin S PROVE Owed(stack, S) = 0
    <3>1. Below = << >>
      BY <2>2
    <3>2. Owed(Below, S) = 0
      BY <3>1, OwedNone
    <3>3. Owed(stack, S) = Owed(Below, S) + Weight(Top, S)
      BY <2>2, OwedAppend
    <3> QED
      BY <2>3, <3>2, <3>3 DEF Weight
  <2>4. Top \notin Braces /\ Top \notin Parentheses /\ Top \notin Squares
    BY <2>1 DEF IsSchema, Braces, Parentheses, Squares, Declarations
  <2>5. Owed(stack, Braces) = 0 /\ Owed(stack, Parentheses) = 0 /\ Owed(stack, Squares) = 0
    BY <2>3, <2>4
  <2>6. \A k : Tally(used, k) \in Nat
    <3>1. ASSUME NEW k PROVE Tally(used, k) \in Nat
      <4>1. IsFiniteSet({t \in used : t.kind = k})
        BY <2>1, FS_Subset DEF UsedInv
      <4> QED
        BY <4>1, FS_CardinalityType DEF Tally
    <3> QED
      BY <3>1
  <2>7. \A k : Count(k) = Tally(used, k)
    BY DEF Count, Tally
  <2>8. \A S, open, close :
          Owed(stack, S) = 0 /\ Balanced(S, open, close) => Tally(used, open) = Tally(used, close)
    BY <2>6 DEF Balanced
  <2>9. /\ Tally(used, "{") = Tally(used, "}") /\ Tally(used, "(") = Tally(used, ")")
        /\ Tally(used, "[") = Tally(used, "]")
    BY <2>1, <2>5, <2>8, Zenon DEF BalanceInv
  <2> QED
    BY <2>7, <2>9, Zenon
<1> QED
  BY <1>1, InvHolds, PTL
=============================================================================
