---------------------------- MODULE SqlParser_proofs ----------------------------
(***************************************************************************)
(* The text of a migration: a file of any length whose statements close    *)
(* their quotes, whatever else their names, types and defaults hold, is    *)
(* cut into the statements it was written from, and each is read as it is  *)
(* alone.  Statements close their quotes where their defaults do.  Those   *)
(* that are made of keywords, names, labels and lists of names are read    *)
(* back, or else refused, in every file.                                   *)
(***************************************************************************)
EXTENDS SqlParser, SequenceTheorems, Induction_proofs, TLAPS

(***************************************************************************)
(* The symbols.  They have names here, for the provers: that a literal is  *)
(* a string, and what sets hold it, is needed once.                        *)
(***************************************************************************)
Semi  == ";"
Blank == " "
Comma == ","
Left  == "("
Right == ")"
Mark  == "'"
Twice == "\""

(***************************************************************************)
(* The folds of the writer and the parser, symbol by symbol.               *)
(***************************************************************************)
NextQuote(open, x) ==
  CASE open = None /\ x \in Quotes -> x
    [] open = x -> None
    [] OTHER -> open

JoinStep(t, by, u) == IF t = << >> THEN u ELSE t \o by \o u

Flush(st) ==
  IF st.current = << >> THEN st
  ELSE [st EXCEPT !.tokens = Append(@, st.current), !.current = << >>]

Put(st, x) == [st EXCEPT !.current = Append(@, x)]

Close(st) == IF st.depth = 0 THEN Flush(st) ELSE st

TokenStep(st, x) ==
  CASE st.quote # None -> [Put(st, x) EXCEPT !.quote = IF x = @ THEN None ELSE @]
    [] st.quote = None /\ x \in Quotes -> [Put(st, x) EXCEPT !.quote = x]
    [] st.quote = None /\ x = Left -> Put([Flush(st) EXCEPT !.depth = @ + 1], x)
    [] st.quote = None /\ x = Right -> Close([Put(st, x) EXCEPT !.depth = @ - 1])
    [] st.quote = None /\ st.depth = 0 /\ x = Blank -> Flush(st)
    [] st.quote = None /\ st.depth = 0 /\ x = Comma -> Flush(Put(Flush(st), x))
    [] OTHER -> Put(st, x)

NoToken == [tokens |-> << >>, current |-> << >>, quote |-> None, depth |-> 0]

\* A kind of fold: with the text it puts between two others.
Kind(fold, by) == [fold |-> fold, by |-> by]

FoldBase(k) ==
  IF k.fold = "quotes" THEN <<None>> ELSE IF k.fold = "join" THEN << >> ELSE NoToken

FoldStep(k, done, x) ==
  IF k.fold = "quotes" THEN Append(done, NextQuote(Last(done), x))
  ELSE IF k.fold = "join" THEN JoinStep(done, k.by, x) ELSE TokenStep(done, x)

\* What a fold chooses: a function from the sets of positions that are done.
IsFold(k, g, seq, D) ==
  g = [s \in SUBSET D |->
         IF s = {} THEN FoldBase(k) ELSE FoldStep(k, g[s \ {Max(s)}], seq[Max(s)])]

IsOpenFold(g, t, D) ==
  g = [s \in SUBSET D |-> IF s = {} THEN <<None>>
        ELSE Append(g[s \ {Max(s)}], NextQuote(Last(g[s \ {Max(s)}]), t[Max(s)]))]

IsJoinFold(by, g, t, D) ==
  g = [s \in SUBSET D |-> IF s = {} THEN << >> ELSE JoinStep(g[s \ {Max(s)}], by, t[Max(s)])]

IsTokenFold(g, t, D) ==
  g = [s \in SUBSET D |-> IF s = {} THEN NoToken ELSE TokenStep(g[s \ {Max(s)}], t[Max(s)])]

\* f[n] is what the first n elements give.
IsRun(k, f, seq) ==
  /\ f[0] = FoldBase(k)
  /\ \A n \in 1..Len(seq) : f[n] = FoldStep(k, f[n - 1], seq[n])

\* OpenQuotes, Joined and tokenize are values of such functions where all is done.
LEMMA OpenIsFold ==
  ASSUME NEW t
  PROVE  OpenQuotes(t) = (CHOOSE g : IsOpenFold(g, t, DOMAIN t))[DOMAIN t]
BY Zenon DEF OpenQuotes, FoldLeft, MapThenFoldSet, IsOpenFold, NextQuote

\* The same for Joined.
LEMMA JoinIsFold ==
  ASSUME NEW t, NEW by
  PROVE  Joined(t, by) = (CHOOSE g : IsJoinFold(by, g, t, DOMAIN t))[DOMAIN t]
BY Zenon DEF Joined, FoldLeft, MapThenFoldSet, IsJoinFold, JoinStep

\* The same for tokenize, which flushes what is left.
LEMMA TokensAreFold ==
  ASSUME NEW t
  PROVE  tokenize(t) = Flush((CHOOSE g : IsTokenFold(g, t, DOMAIN t))[DOMAIN t]).tokens
BY Zenon DEF tokenize, FoldLeft, MapThenFoldSet, IsTokenFold, TokenStep, Flush, Put, Close, NoToken,
          Blank, Comma, Left, Right

\* There is such a function for every number of positions.
LEMMA FoldExists ==
  ASSUME NEW k, NEW seq, NEW m \in Nat
  PROVE  \E g : IsFold(k, g, seq, 1..m)
<1> DEFINE S == {n \in Nat : \E g : IsFold(k, g, seq, 1..n)}
<1>1. 0 \in S
  <2>1. SUBSET (1..0) = {{}}
    OBVIOUS
  <2>2. PICK b : b = FoldBase(k)
    OBVIOUS
  <2> DEFINE g == [s \in {{}} |-> b]
  <2>3. \A s \in {{}} : g[s] = IF s = {} THEN FoldBase(k)
                               ELSE FoldStep(k, g[s \ {Max(s)}], seq[Max(s)])
    BY <2>2
  <2>4. g = [s \in {{}} |-> g[s]]
    OBVIOUS
  <2> HIDE DEF g
  <2>5. IsFold(k, g, seq, 1..0)
    BY <2>1, <2>3, <2>4, Zenon DEF IsFold
  <2> QED
    BY <2>5
<1>2. ASSUME NEW n \in Nat, n \in S PROVE n + 1 \in S
  <2>1. PICK g : IsFold(k, g, seq, 1..n)
    BY <1>2
  <2> DEFINE h == [s \in SUBSET (1..n + 1) |->
                     IF n + 1 \in s THEN FoldStep(k, g[s \ {n + 1}], seq[n + 1]) ELSE g[s]]
  <2>2. ASSUME NEW s \in SUBSET (1..n + 1)
        PROVE  h[s] = IF s = {} THEN FoldBase(k)
                      ELSE FoldStep(k, h[s \ {Max(s)}], seq[Max(s)])
    <3>1. CASE n + 1 \in s
      <4>1. Max(s) = n + 1 /\ s # {}
        BY <3>1, MaxUpTo
      <4>2. s \ {n + 1} \in SUBSET (1..n + 1) /\ n + 1 \notin s \ {n + 1}
        OBVIOUS
      <4>3. h[s \ {n + 1}] = g[s \ {n + 1}]
        BY <4>2
      <4> QED
        BY <3>1, <4>1, <4>3
    <3>2. CASE n + 1 \notin s
      <4>1. s \in SUBSET (1..n)
        BY <3>2, MaxUpTo
      <4>2. g[s] = IF s = {} THEN FoldBase(k) ELSE FoldStep(k, g[s \ {Max(s)}], seq[Max(s)])
        BY <2>1, <4>1, Zenon DEF IsFold
      <4>3. s \ {Max(s)} \in SUBSET (1..n + 1) /\ n + 1 \notin s \ {Max(s)}
        BY <3>2
      <4>4. h[s \ {Max(s)}] = g[s \ {Max(s)}]
        BY <4>3
      <4>5. h[s] = g[s]
        BY <3>2
      <4> QED
        BY <4>2, <4>4, <4>5
    <3> QED
      BY <3>1, <3>2
  <2>3. h = [s \in SUBSET (1..n + 1) |-> h[s]]
    OBVIOUS
  <2> HIDE DEF h
  <2>4. IsFold(k, h, seq, 1..n + 1)
    BY <2>2, <2>3, Zenon DEF IsFold
  <2> QED
    BY <2>4
<1>3. m \in S
  BY <1>1, <1>2, SetInduction
<1> QED
  BY <1>3

\* Such a function goes through the positions in their order.
LEMMA FoldRuns ==
  ASSUME NEW k, NEW T, NEW seq \in Seq(T), NEW g, IsFold(k, g, seq, DOMAIN seq)
  PROVE  \E f : IsRun(k, f, seq) /\ g[DOMAIN seq] = f[Len(seq)]
<1> DEFINE f == [n \in 0..Len(seq) |-> g[1..n]]
<1>1. DOMAIN seq = 1..Len(seq) /\ Len(seq) \in Nat
  OBVIOUS
<1>4. \A s \in SUBSET (1..Len(seq)) :
        g[s] = IF s = {} THEN FoldBase(k) ELSE FoldStep(k, g[s \ {Max(s)}], seq[Max(s)])
  BY <1>1, Zenon DEF IsFold
<1>5. f[0] = FoldBase(k)
  <2>1. f[0] = g[{}]
    BY <1>1
  <2> QED
    BY <1>4, <2>1
<1>6. ASSUME NEW n \in 1..Len(seq) PROVE f[n] = FoldStep(k, f[n - 1], seq[n])
  <2>0. n \in Nat /\ n - 1 \in Nat /\ (n - 1) + 1 = n
    BY <1>1
  <2>1. 1..n \in SUBSET (1..Len(seq)) /\ 1..n # {} /\ n \in 1..n
    <3>1. Len(seq) \in Nat /\ n <= Len(seq) /\ 1 <= n
      BY <1>1, <2>0
    <3>2. n \in 1..n
      BY <2>0, <3>1
    <3>3. \A i \in 1..n : i \in 1..Len(seq)
      BY <2>0, <3>1
    <3> QED
      BY <3>2, <3>3
  <2>2. Max(1..n) = n
    <3>1. 1..n \in SUBSET (1..(n - 1) + 1)
      BY <2>0
    <3> QED
      BY <2>0, <2>1, <3>1, MaxUpTo
  <2>3. (1..n) \ {n} = 1..n - 1
    OBVIOUS
  <2>4. f[n] = g[1..n] /\ f[n - 1] = g[1..n - 1]
    BY <1>1
  <2> QED
    BY <1>4, <2>1, <2>2, <2>3, <2>4
<1>7. f[Len(seq)] = g[DOMAIN seq]
  BY <1>1
<1> QED
  BY <1>5, <1>6, <1>7 DEF IsRun

\* The quotes are followed symbol by symbol.
LEMMA OpenRun ==
  ASSUME NEW T, NEW t \in Seq(T)
  PROVE  \E f : /\ f[0] = <<None>>
                /\ \A i \in 1..Len(t) : f[i] = Append(f[i - 1], NextQuote(Last(f[i - 1]), t[i]))
                /\ OpenQuotes(t) = f[Len(t)]
<1>1. PICK g : g = CHOOSE x : IsOpenFold(x, t, DOMAIN t)
  OBVIOUS
<1>2. PICK k : k = Kind("quotes", << >>)
  OBVIOUS
<1>3. \A x, D : IsFold(k, x, t, D) <=> IsOpenFold(x, t, D)
  BY <1>2, Zenon DEF IsFold, IsOpenFold, FoldBase, FoldStep, Kind
<1>4. DOMAIN t = 1..Len(t) /\ Len(t) \in Nat
  OBVIOUS
<1>5. IsOpenFold(g, t, DOMAIN t)
  BY <1>1, <1>3, <1>4, FoldExists, Zenon
<1>6. PICK f : IsRun(k, f, t) /\ g[DOMAIN t] = f[Len(t)]
  BY <1>3, <1>5, FoldRuns
<1> QED
  BY <1>1, <1>2, <1>6, OpenIsFold, Zenon DEF IsRun, FoldBase, FoldStep, Kind

\* Texts are joined one after the other.
LEMMA JoinRun ==
  ASSUME NEW T, NEW t \in Seq(T), NEW by
  PROVE  \E f : /\ f[0] = << >>
                /\ \A i \in 1..Len(t) : f[i] = JoinStep(f[i - 1], by, t[i])
                /\ Joined(t, by) = f[Len(t)]
<1>1. PICK g : g = CHOOSE x : IsJoinFold(by, x, t, DOMAIN t)
  OBVIOUS
<1>2. PICK k : k = Kind("join", by)
  OBVIOUS
<1>3. \A x, D : IsFold(k, x, t, D) <=> IsJoinFold(by, x, t, D)
  BY <1>2, Zenon DEF IsFold, IsJoinFold, FoldBase, FoldStep, Kind
<1>4. DOMAIN t = 1..Len(t) /\ Len(t) \in Nat
  OBVIOUS
<1>5. IsJoinFold(by, g, t, DOMAIN t)
  BY <1>1, <1>3, <1>4, FoldExists, Zenon
<1>6. PICK f : IsRun(k, f, t) /\ g[DOMAIN t] = f[Len(t)]
  BY <1>3, <1>5, FoldRuns
<1> QED
  BY <1>1, <1>2, <1>6, JoinIsFold, Zenon DEF IsRun, FoldBase, FoldStep, Kind

IsFlat(g, seqs, n) == g = [i \in 1..n |-> IF i = 1 THEN seqs[i] ELSE g[i - 1] \o seqs[i]]

\* What FlattenSeq chooses.
LEMMA FlattenIsFlat ==
  ASSUME NEW seqs, Len(seqs) # 0
  PROVE  FlattenSeq(seqs) = (CHOOSE g : IsFlat(g, seqs, Len(seqs)))[Len(seqs)]
BY Zenon DEF FlattenSeq, IsFlat

\* There is one.
LEMMA FlatExists ==
  ASSUME NEW seqs, NEW m \in Nat
  PROVE  \E g : IsFlat(g, seqs, m)
<1> DEFINE S == {n \in Nat : \E g : IsFlat(g, seqs, n)}
<1>1. 0 \in S
  <2> DEFINE g == [i \in 1..0 |-> << >>]
  <2>1. g = [i \in 1..0 |-> IF i = 1 THEN seqs[i] ELSE g[i - 1] \o seqs[i]]
    OBVIOUS
  <2> QED
    BY <2>1 DEF IsFlat
<1>2. ASSUME NEW n \in Nat, n \in S PROVE n + 1 \in S
  <2>1. PICK g : IsFlat(g, seqs, n)
    BY <1>2
  <2> DEFINE h == [i \in 1..n + 1 |->
                     IF i <= n THEN g[i]
                     ELSE IF i = 1 THEN seqs[i] ELSE g[i - 1] \o seqs[i]]
  <2>2. ASSUME NEW i \in 1..n + 1
        PROVE  h[i] = IF i = 1 THEN seqs[i] ELSE h[i - 1] \o seqs[i]
    <3>1. i # 1 => h[i - 1] = g[i - 1]
      OBVIOUS
    <3>2. CASE i <= n
      <4>1. g[i] = IF i = 1 THEN seqs[i] ELSE g[i - 1] \o seqs[i]
        <5>1. i \in 1..n
          BY <3>2
        <5> QED
          BY <2>1, <5>1, Zenon DEF IsFlat
      <4> QED
        BY <3>1, <3>2, <4>1
    <3>3. CASE ~(i <= n)
      BY <3>1, <3>3
    <3> QED
      BY <3>2, <3>3
  <2>3. h = [i \in 1..n + 1 |-> h[i]]
    OBVIOUS
  <2> HIDE DEF h
  <2>4. IsFlat(h, seqs, n + 1)
    BY <2>2, <2>3, Zenon DEF IsFlat
  <2> QED
    BY <2>4
<1>3. m \in S
  BY <1>1, <1>2, SetInduction
<1> QED
  BY <1>3

\* Flattening goes through the sequences in their order.
LEMMA FlattenRun ==
  ASSUME NEW T, NEW seqs \in Seq(Seq(T)), Len(seqs) # 0
  PROVE  \E g : /\ g[1] = seqs[1]
                /\ \A i \in 2..Len(seqs) : g[i] = g[i - 1] \o seqs[i]
                /\ FlattenSeq(seqs) = g[Len(seqs)]
<1>1. PICK g : g = CHOOSE x : IsFlat(x, seqs, Len(seqs))
  OBVIOUS
<1>2. IsFlat(g, seqs, Len(seqs)) /\ FlattenSeq(seqs) = g[Len(seqs)]
  <2>1. Len(seqs) \in Nat
    OBVIOUS
  <2> QED
    BY <1>1, <2>1, FlatExists, FlattenIsFlat, Zenon
<1>3. \A i \in 1..Len(seqs) : g[i] = IF i = 1 THEN seqs[i] ELSE g[i - 1] \o seqs[i]
  BY <1>2, Zenon DEF IsFlat
<1>4. 1 \in 1..Len(seqs) /\ \A i \in 2..Len(seqs) : i \in 1..Len(seqs) /\ i # 1
  OBVIOUS
<1> QED
  BY <1>2, <1>3, <1>4

(***************************************************************************)
(* The symbols differ.                                                     *)
(***************************************************************************)
Symbol ==
  STRING \cup {Semi, Blank, Comma, Left, Right, Mark, Twice} \cup Grammar \cup {"true", "false"}

\* They are different from one another.
LEMMA SymbolsDiffer ==
  /\ Quotes = {Mark, Twice} /\ Mark # Twice
  /\ {Semi, Blank, Comma, Left, Right, Mark, Twice} \cap (Grammar \cup {None}) = {}
  /\ {Semi, Blank, Comma, Left, Right} \cap Quotes = {}
  /\ Semi \notin {Blank, Comma, Left, Right} /\ Blank \notin {Comma, Left, Right}
  /\ Comma \notin {Left, Right} /\ Left # Right
<1>1. Quotes = {Mark, Twice} /\ Mark # Twice
  BY Zenon DEF Quotes, Mark, Twice
<1>2. /\ Semi \notin {Blank, Comma, Left, Right} /\ Blank \notin {Comma, Left, Right}
      /\ Comma \notin {Left, Right} /\ Left # Right
  BY Zenon DEF Semi, Blank, Comma, Left, Right
<1>3. {Semi, Blank, Comma, Left, Right} \cap Quotes = {}
  BY Zenon DEF Semi, Blank, Comma, Left, Right, Quotes
<1>4. {Semi, Blank, Comma, Left, Right, Mark, Twice} \cap (Grammar \cup {None}) = {}
  <2>1. Semi \notin Grammar /\ Semi # None
    BY Zenon DEF Semi, Grammar, None
  <2>2. Blank \notin Grammar /\ Blank # None
    BY Zenon DEF Blank, Grammar, None
  <2>3. Comma \notin Grammar /\ Comma # None
    BY Zenon DEF Comma, Grammar, None
  <2>4. Left \notin Grammar /\ Left # None
    BY Zenon DEF Left, Grammar, None
  <2>5. Right \notin Grammar /\ Right # None
    BY Zenon DEF Right, Grammar, None
  <2>6. Mark \notin Grammar /\ Mark # None
    BY Zenon DEF Mark, Grammar, None
  <2>7. Twice \notin Grammar /\ Twice # None
    BY Zenon DEF Twice, Grammar, None
  <2> QED
    BY <2>1, <2>2, <2>3, <2>4, <2>5, <2>6, <2>7, Zenon
<1> QED
  BY <1>1, <1>2, <1>3, <1>4

\* Words and names are texts.
LEMMA TextsAre ==
  /\ STRING \subseteq Symbol /\ Grammar \subseteq Symbol
  /\ {Semi, Blank, Comma, Left, Right, Mark, Twice} \subseteq Symbol
  /\ \A t \in Seq(STRING) : t \in Seq(Symbol)
<1>1. STRING \subseteq Symbol /\ Grammar \subseteq Symbol
      /\ {Semi, Blank, Comma, Left, Right, Mark, Twice} \subseteq Symbol
  BY Zenon DEF Symbol
<1>2. ASSUME NEW t \in Seq(STRING) PROVE t \in Seq(Symbol)
  BY <1>1, SeqMonotonic, Zenon
<1> QED
  BY <1>1, <1>2
-----------------------------------------------------------------------------
(***************************************************************************)
(* Texts that close their quotes.                                          *)
(***************************************************************************)
OpenOrNot == {None} \cup Quotes

\* A quote opens or closes.
LEMMA NextIsQuote ==
  ASSUME NEW q \in OpenOrNot, NEW x
  PROVE  NextQuote(q, x) \in OpenOrNot
BY DEF NextQuote, OpenOrNot

\* The quote that is open after each symbol follows from the one before it.
LEMMA OpenAre ==
  ASSUME NEW t \in Seq(Symbol), NEW open, open = OpenQuotes(t)
  PROVE  /\ open \in Seq(OpenOrNot) /\ Len(open) = Len(t) + 1 /\ open[1] = None
         /\ \A i \in 1..Len(t) : open[i + 1] = NextQuote(open[i], t[i])
<1>1. PICK f : /\ f[0] = <<None>>
               /\ \A i \in 1..Len(t) : f[i] = Append(f[i - 1], NextQuote(Last(f[i - 1]), t[i]))
               /\ OpenQuotes(t) = f[Len(t)]
  BY OpenRun
<1> DEFINE Good(n) == /\ f[n] \in Seq(OpenOrNot) /\ Len(f[n]) = n + 1 /\ f[n][1] = None
                      /\ \A i \in 1..n : f[n][i + 1] = NextQuote(f[n][i], t[i])
           S == {n \in Nat : n <= Len(t) => Good(n)}
<1>2. 0 \in S
  <2>1. <<None>> \in Seq(OpenOrNot) /\ Len(<<None>>) = 0 + 1 /\ <<None>>[1] = None
    BY DEF OpenOrNot
  <2>2. \A i \in 1..0 : FALSE
    OBVIOUS
  <2>3. Good(0)
    BY <1>1, <2>1, <2>2
  <2> QED
    BY <2>3
<1>3. ASSUME NEW n \in Nat, n \in S PROVE n + 1 \in S
  <2> SUFFICES ASSUME n + 1 <= Len(t) PROVE Good(n + 1)
    OBVIOUS
  <2>1. Good(n) /\ n + 1 \in 1..Len(t)
    BY <1>3
  <2>2. PICK s : s = f[n]
    OBVIOUS
  <2>3. PICK y : y = NextQuote(s[n + 1], t[n + 1])
    OBVIOUS
  <2>4. Last(s) = s[n + 1] /\ s[n + 1] \in OpenOrNot
    BY <2>1, <2>2 DEF Last
  <2>5. y \in OpenOrNot
    BY <2>3, <2>4, NextIsQuote
  <2>6. (n + 1) - 1 = n
    OBVIOUS
  <2>7. f[n + 1] = Append(s, y)
    BY <1>1, <2>1, <2>2, <2>3, <2>4, <2>6
  <2>8. /\ Append(s, y) \in Seq(OpenOrNot) /\ Len(Append(s, y)) = n + 2
        /\ \A i \in 1..n + 1 : Append(s, y)[i] = s[i]
        /\ Append(s, y)[n + 2] = y
    BY <2>1, <2>2, <2>5
  <2>9. \A i \in 1..n : s[i + 1] = NextQuote(s[i], t[i])
    BY <2>1, <2>2
  <2>10. ASSUME NEW i \in 1..n + 1
         PROVE  Append(s, y)[i + 1] = NextQuote(Append(s, y)[i], t[i])
    <3>1. CASE i \in 1..n
      <4>1. i + 1 \in 1..n + 1
        BY <3>1
      <4> QED
        BY <2>8, <2>9, <3>1, <4>1
    <3>2. CASE i = n + 1
      <4>1. i + 1 = n + 2
        BY <3>2
      <4> QED
        BY <2>3, <2>8, <3>2, <4>1
    <3>3. i \in 1..n \/ i = n + 1
      OBVIOUS
    <3> QED
      BY <3>1, <3>2, <3>3
  <2>11. Append(s, y)[1] = None /\ (n + 1) + 1 = n + 2
    BY <2>1, <2>2, <2>8
  <2> QED
    BY <2>7, <2>8, <2>10, <2>11
<1>4. Len(t) \in Nat
  OBVIOUS
<1>5. Len(t) \in S
  BY <1>2, <1>3, <1>4, SetInduction
<1>6. PICK n : n = Len(t)
  OBVIOUS
<1>7. n \in S /\ n \in Nat /\ n <= Len(t)
  BY <1>4, <1>5, <1>6
<1>8. Good(n)
  BY <1>7
<1>9. f[n] = open
  BY <1>1, <1>6
<1> QED
  BY <1>6, <1>8, <1>9

\* The quotes of a text are the same when another one follows it.
LEMMA OpenFirst ==
  ASSUME NEW t \in Seq(Symbol), NEW u \in Seq(Symbol),
         NEW p, p = OpenQuotes(t), NEW w, w = OpenQuotes(t \o u)
  PROVE  \A i \in 1..Len(t) + 1 : w[i] = p[i]
<1> DEFINE S == {n \in Nat : n <= Len(t) => w[n + 1] = p[n + 1]}
<1>1. PICK c : c = t \o u
  OBVIOUS
<1>2. c \in Seq(Symbol) /\ Len(c) = Len(t) + Len(u) /\ \A i \in 1..Len(t) : c[i] = t[i]
  BY <1>1
<1>3. p[1] = None /\ \A i \in 1..Len(t) : p[i + 1] = NextQuote(p[i], t[i])
  BY OpenAre
<1>4. w[1] = None /\ \A i \in 1..Len(c) : w[i + 1] = NextQuote(w[i], c[i])
  BY <1>1, <1>2, OpenAre
<1>5. 0 \in S
  BY <1>3, <1>4
<1>6. ASSUME NEW n \in Nat, n \in S PROVE n + 1 \in S
  <2> SUFFICES ASSUME n + 1 <= Len(t) PROVE w[(n + 1) + 1] = p[(n + 1) + 1]
    OBVIOUS
  <2>1. n + 1 \in 1..Len(t) /\ n + 1 \in 1..Len(c)
    BY <1>2
  <2>2. w[n + 1] = p[n + 1]
    BY <1>6
  <2> QED
    BY <1>2, <1>3, <1>4, <2>1, <2>2
<1>7. Nat \subseteq S
  BY <1>5, <1>6, SetInduction
<1>8. ASSUME NEW i \in 1..Len(t) + 1 PROVE w[i] = p[i]
  <2>1. i - 1 \in Nat /\ i - 1 <= Len(t) /\ (i - 1) + 1 = i
    OBVIOUS
  <2>2. i - 1 \in S
    BY <1>7, <2>1
  <2> QED
    BY <2>1, <2>2
<1> QED
  BY <1>8

\* After a text that closes its quotes another one starts afresh.
LEMMA OpenSecond ==
  ASSUME NEW t \in Seq(Symbol), NEW u \in Seq(Symbol), Last(OpenQuotes(t)) = None,
         NEW q, q = OpenQuotes(u), NEW w, w = OpenQuotes(t \o u)
  PROVE  \A i \in 1..Len(u) + 1 : w[Len(t) + i] = q[i]
<1> DEFINE S == {n \in Nat : n <= Len(u) => w[Len(t) + (n + 1)] = q[n + 1]}
<1>1. PICK c, m : c = t \o u /\ m = Len(t)
  OBVIOUS
<1>2. /\ c \in Seq(Symbol) /\ Len(c) = m + Len(u) /\ m \in Nat
      /\ \A i \in 1..Len(u) : c[m + i] = u[i]
  BY <1>1
<1>3. q[1] = None /\ \A i \in 1..Len(u) : q[i + 1] = NextQuote(q[i], u[i])
  BY OpenAre
<1>4. \A i \in 1..Len(c) : w[i + 1] = NextQuote(w[i], c[i])
  BY <1>1, <1>2, OpenAre
<1>5. w[m + 1] = None
  <2>1. PICK p : p = OpenQuotes(t)
    OBVIOUS
  <2>2. Len(p) = m + 1
    BY <1>1, <2>1, OpenAre
  <2>3. p[m + 1] = None
    BY <2>1, <2>2 DEF Last
  <2>4. m + 1 \in 1..Len(t) + 1
    BY <1>1, <1>2
  <2> QED
    BY <2>1, <2>3, <2>4, OpenFirst
<1>6. 0 \in S
  BY <1>1, <1>2, <1>3, <1>5
<1>7. ASSUME NEW n \in Nat, n \in S PROVE n + 1 \in S
  <2> SUFFICES ASSUME n + 1 <= Len(u) PROVE w[m + ((n + 1) + 1)] = q[(n + 1) + 1]
    BY <1>1
  <2>1. n + 1 \in 1..Len(u) /\ m + (n + 1) \in 1..Len(c)
    BY <1>2
  <2>2. w[m + (n + 1)] = q[n + 1]
    BY <1>1, <1>7
  <2>3. (m + (n + 1)) + 1 = m + ((n + 1) + 1)
    BY <1>2
  <2> QED
    BY <1>2, <1>3, <1>4, <2>1, <2>2, <2>3
<1>8. Nat \subseteq S
  BY <1>6, <1>7, SetInduction
<1>9. ASSUME NEW i \in 1..Len(u) + 1 PROVE w[Len(t) + i] = q[i]
  <2>1. i - 1 \in Nat /\ i - 1 <= Len(u) /\ (i - 1) + 1 = i
    OBVIOUS
  <2>2. i - 1 \in S
    BY <1>8, <2>1
  <2> QED
    BY <2>1, <2>2
<1> QED
  BY <1>9

Closed == {t \in Seq(Symbol) : Closes(t)}

\* Closes, symbol by symbol.
LEMMA ClosedIs ==
  ASSUME NEW t \in Seq(Symbol), NEW q, q = OpenQuotes(t)
  PROVE  t \in Closed <=> /\ q[Len(t) + 1] = None
                          /\ \A i \in 1..Len(t) : t[i] = Semi => q[i] # None
<1>1. Len(q) = Len(t) + 1 /\ DOMAIN t = 1..Len(t)
  BY OpenAre
<1>2. Last(q) = q[Len(t) + 1]
  BY <1>1 DEF Last
<1>3. t \in Closed <=> Last(q) = None /\ \A i \in {j \in DOMAIN t : q[j] = None} : t[i] # Semi
  BY Zenon DEF Closed, Closes, Outside, Semi
<1> QED
  BY <1>1, <1>2, <1>3

\* The half of it that shows a text to be closed.
LEMMA ClosedIf ==
  ASSUME NEW t \in Seq(Symbol), NEW q, q = OpenQuotes(t),
         q[Len(t) + 1] = None, \A i \in 1..Len(t) : t[i] = Semi => q[i] # None
  PROVE  t \in Closed
BY ClosedIs

\* One closed text after another is one.
LEMMA ClosedConcat ==
  ASSUME NEW t \in Closed, NEW u \in Closed
  PROVE  t \o u \in Closed
<1>1. PICK p, q, w, c, m : /\ p = OpenQuotes(t) /\ q = OpenQuotes(u) /\ w = OpenQuotes(c)
                           /\ c = t \o u /\ m = Len(t)
  OBVIOUS
<1>2. t \in Seq(Symbol) /\ u \in Seq(Symbol)
  BY DEF Closed
<1>3. /\ c \in Seq(Symbol) /\ Len(c) = m + Len(u) /\ m \in Nat /\ Len(u) \in Nat
      /\ \A i \in 1..m : c[i] = t[i]
      /\ \A i \in 1..Len(u) : c[m + i] = u[i]
  BY <1>1, <1>2
<1>4. p[m + 1] = None /\ \A i \in 1..m : t[i] = Semi => p[i] # None
  BY <1>1, <1>2, ClosedIs
<1>5. q[Len(u) + 1] = None /\ \A i \in 1..Len(u) : u[i] = Semi => q[i] # None
  BY <1>1, <1>2, ClosedIs
<1>6. \A i \in 1..m + 1 : w[i] = p[i]
  BY <1>1, <1>2, OpenFirst
<1>7. Last(OpenQuotes(t)) = None
  BY Zenon DEF Closed, Closes
<1>8. \A i \in 1..Len(u) + 1 : w[m + i] = q[i]
  BY <1>1, <1>2, <1>7, OpenSecond
<1>9. w[Len(c) + 1] = None
  <2>1. Len(c) + 1 = m + (Len(u) + 1) /\ Len(u) + 1 \in 1..Len(u) + 1
    BY <1>3
  <2> QED
    BY <1>5, <1>8, <2>1
<1>10. ASSUME NEW i \in 1..Len(c), c[i] = Semi PROVE w[i] # None
  <2>1. CASE i <= m
    <3>1. i \in 1..m /\ i \in 1..m + 1
      BY <1>3, <2>1
    <3> QED
      BY <1>3, <1>4, <1>6, <1>10, <3>1
  <2>2. CASE ~(i <= m)
    <3>1. i - m \in 1..Len(u) /\ i - m \in 1..Len(u) + 1 /\ m + (i - m) = i
      BY <1>3, <2>2
    <3>2. u[i - m] = Semi
      BY <1>3, <1>10, <3>1
    <3>3. w[i] = q[i - m]
      BY <1>8, <3>1
    <3> QED
      BY <1>5, <3>1, <3>2, <3>3
  <2> QED
    BY <2>1, <2>2
<1>11. c \in Closed
  <2>1. c \in Seq(Symbol) /\ w = OpenQuotes(c)
    BY <1>1, <1>3
  <2>2. \A i \in 1..Len(c) : c[i] = Semi => w[i] # None
    BY <1>10
  <2> QED
    BY <1>9, <2>1, <2>2, ClosedIs
<1> QED
  BY <1>1, <1>11

\* A text without quotes opens none.
LEMMA PlainOpens ==
  ASSUME NEW t \in Seq(Symbol), \A i \in 1..Len(t) : t[i] \notin Quotes,
         NEW q, q = OpenQuotes(t)
  PROVE  \A i \in 1..Len(t) + 1 : q[i] = None
<1> DEFINE S == {n \in Nat : n <= Len(t) => q[n + 1] = None}
<1>1. q[1] = None /\ \A i \in 1..Len(t) : q[i + 1] = NextQuote(q[i], t[i])
  BY OpenAre
<1>2. 0 \in S
  BY <1>1
<1>3. ASSUME NEW n \in Nat, n \in S PROVE n + 1 \in S
  <2> SUFFICES ASSUME n + 1 <= Len(t) PROVE q[(n + 1) + 1] = None
    OBVIOUS
  <2>1. n + 1 \in 1..Len(t) /\ q[n + 1] = None
    BY <1>3
  <2>2. q[(n + 1) + 1] = NextQuote(None, t[n + 1]) /\ t[n + 1] \notin Quotes
    BY <1>1, <2>1
  <2> QED
    BY <2>2 DEF NextQuote
<1>4. Nat \subseteq S
  BY <1>2, <1>3, SetInduction
<1>5. ASSUME NEW i \in 1..Len(t) + 1 PROVE q[i] = None
  <2>1. i - 1 \in Nat /\ i - 1 <= Len(t) /\ (i - 1) + 1 = i
    OBVIOUS
  <2>2. i - 1 \in S
    BY <1>4, <2>1
  <2> QED
    BY <2>1, <2>2
<1> QED
  BY <1>5

\* So a text without quotes and semicolons is closed.
LEMMA PlainClosed ==
  ASSUME NEW t \in Seq(Symbol), \A i \in 1..Len(t) : t[i] \notin Quotes \cup {Semi}
  PROVE  t \in Closed
<1>1. PICK q : q = OpenQuotes(t)
  OBVIOUS
<1>2. \A i \in 1..Len(t) + 1 : q[i] = None
  BY <1>1, PlainOpens
<1>3. PICK m : m = Len(t)
  OBVIOUS
<1>4. m \in Nat
  BY <1>3
<1>5. q[m + 1] = None /\ \A i \in 1..m : t[i] # Semi
  BY <1>2, <1>3, <1>4
<1> QED
  BY <1>1, <1>3, <1>5, ClosedIs

\* A text in quotes, with none inside: the quote is open from its first symbol to its last.
LEMMA QuotedOpens ==
  ASSUME NEW n \in Seq(Symbol), \A i \in 1..Len(n) : n[i] \notin Quotes,
         NEW x \in Quotes, NEW t, t = <<x>> \o n \o <<x>>, NEW q, q = OpenQuotes(t)
  PROVE  /\ t \in Seq(Symbol) /\ Len(t) = Len(n) + 2
         /\ t[1] = x /\ t[Len(n) + 2] = x /\ \A i \in 1..Len(n) : t[i + 1] = n[i]
         /\ q[1] = None /\ q[Len(n) + 3] = None /\ \A i \in 2..Len(n) + 2 : q[i] = x
         /\ t \in Closed
<1>1. x \in Symbol /\ x # None
  BY SymbolsDiffer, TextsAre
<1>2. /\ t \in Seq(Symbol) /\ Len(t) = Len(n) + 2
      /\ t[1] = x /\ t[Len(n) + 2] = x /\ \A i \in 1..Len(n) : t[i + 1] = n[i]
  BY <1>1
<1> DEFINE S == {k \in Nat : k <= Len(n) => q[k + 2] = x}
<1>3. q[1] = None /\ \A i \in 1..Len(t) : q[i + 1] = NextQuote(q[i], t[i])
  BY <1>2, OpenAre
<1>4. 0 \in S
  <2>1. q[1 + 1] = NextQuote(None, x)
    BY <1>2, <1>3
  <2>2. NextQuote(None, x) = x
    BY DEF NextQuote
  <2> QED
    BY <2>1, <2>2
<1>5. ASSUME NEW k \in Nat, k \in S PROVE k + 1 \in S
  <2> SUFFICES ASSUME k + 1 <= Len(n) PROVE q[(k + 1) + 2] = x
    OBVIOUS
  <2>1. k + 1 \in 1..Len(n) /\ k + 2 \in 1..Len(t) /\ q[k + 2] = x /\ (k + 1) + 1 = k + 2
        /\ (k + 2) + 1 = (k + 1) + 2
    BY <1>2, <1>5
  <2>2. t[k + 2] = n[k + 1] /\ n[k + 1] \notin Quotes
    BY <1>2, <2>1
  <2>3. q[(k + 1) + 2] = NextQuote(x, t[k + 2])
    BY <1>3, <2>1
  <2> QED
    BY <1>1, <2>2, <2>3 DEF NextQuote
<1>6. Nat \subseteq S
  BY <1>4, <1>5, SetInduction
<1>7. ASSUME NEW i \in 2..Len(n) + 2 PROVE q[i] = x
  <2>1. i - 2 \in Nat /\ i - 2 <= Len(n) /\ (i - 2) + 2 = i
    OBVIOUS
  <2>2. i - 2 \in S
    BY <1>6, <2>1
  <2> QED
    BY <2>1, <2>2
<1>8. q[Len(n) + 3] = None
  <2>1. /\ Len(n) + 2 \in 2..Len(n) + 2 /\ Len(n) + 2 \in 1..Len(t)
        /\ (Len(n) + 2) + 1 = Len(n) + 3
    BY <1>2
  <2>2. q[Len(n) + 3] = NextQuote(x, x)
    BY <1>2, <1>3, <1>7, <2>1
  <2> QED
    BY <1>1, <2>2 DEF NextQuote
<1>9. ASSUME NEW i \in 1..Len(t), t[i] = Semi PROVE q[i] # None
  <2>1. i # 1
    BY <1>2, <1>9, SymbolsDiffer
  <2>2. i \in 2..Len(n) + 2
    BY <1>2, <2>1
  <2> QED
    BY <1>1, <1>7, <2>2
<1>10. Len(t) + 1 = Len(n) + 3
  BY <1>2
<1>11. t \in Closed
  <2>1. q[Len(t) + 1] = None
    BY <1>8, <1>10
  <2>2. \A i \in 1..Len(t) : t[i] = Semi => q[i] # None
    BY <1>9
  <2> QED
    BY <1>2, <2>1, <2>2, ClosedIf, Zenon
<1> QED
  BY <1>2, <1>3, <1>7, <1>8, <1>11

\* Put in quotes, a text is closed.
LEMMA QuotedClosed ==
  ASSUME NEW n \in Seq(Symbol), \A i \in 1..Len(n) : n[i] \notin Quotes, NEW x \in Quotes
  PROVE  <<x>> \o n \o <<x>> \in Closed
BY QuotedOpens, Zenon

\* The texts that are closed, and all texts: what is made of the one or of the others is
\* one of them.
Class == {Closed, Seq(Symbol)}

LEMMA ClassIs ==
  ASSUME NEW C \in Class
  PROVE  /\ C \subseteq Seq(Symbol) /\ Closed \subseteq C /\ Seq(Closed) \subseteq Seq(C)
         /\ \A t, u \in C : t \o u \in C
         /\ << >> \in C
<1>1. Closed \subseteq Seq(Symbol)
  BY DEF Closed
<1>2. C = Closed \/ C = Seq(Symbol)
  BY DEF Class
<1>3. C \subseteq Seq(Symbol) /\ Closed \subseteq C
  BY <1>1, <1>2
<1>4. Seq(Closed) \subseteq Seq(C)
  BY <1>3, SeqMonotonic, Zenon
<1>5. ASSUME NEW t \in C, NEW u \in C PROVE t \o u \in C
  <2>1. CASE C = Closed
    BY <1>5, <2>1, ClosedConcat
  <2>2. CASE C = Seq(Symbol)
    BY <1>5, <2>2, ConcatProperties
  <2> QED
    BY <1>2, <2>1, <2>2
<1>6. << >> \in Closed
  <2>1. << >> \in Seq(Symbol) /\ \A i \in 1..Len(<< >>) : FALSE
    OBVIOUS
  <2> QED
    BY <2>1, PlainClosed, Zenon
<1> QED
  BY <1>3, <1>4, <1>5, <1>6

\* Texts with texts between them are one text.
LEMMA JoinedIn ==
  ASSUME NEW C \in Class, NEW ts \in Seq(C), NEW by \in C
  PROVE  Joined(ts, by) \in C
<1>1. PICK f : /\ f[0] = << >>
               /\ \A i \in 1..Len(ts) : f[i] = JoinStep(f[i - 1], by, ts[i])
               /\ Joined(ts, by) = f[Len(ts)]
  BY JoinRun
<1> DEFINE S == {n \in Nat : n <= Len(ts) => f[n] \in C}
<1>2. 0 \in S
  BY <1>1, ClassIs
<1>3. ASSUME NEW n \in Nat, n \in S PROVE n + 1 \in S
  <2> SUFFICES ASSUME n + 1 <= Len(ts) PROVE f[n + 1] \in C
    OBVIOUS
  <2>1. n + 1 \in 1..Len(ts) /\ f[n] \in C /\ (n + 1) - 1 = n
    BY <1>3
  <2>2. PICK t, u : t = f[n] /\ u = ts[n + 1]
    OBVIOUS
  <2>3. t \in C /\ u \in C
    BY <2>1, <2>2
  <2>4. f[n + 1] = JoinStep(t, by, u)
    BY <1>1, <2>1, <2>2
  <2>5. t \o by \o u \in C
    BY <2>3, ClassIs
  <2> QED
    BY <2>3, <2>4, <2>5 DEF JoinStep
<1>4. PICK n : n = Len(ts)
  OBVIOUS
<1>5. n \in Nat /\ n <= Len(ts)
  BY <1>4
<1>6. n \in S
  BY <1>2, <1>3, <1>5, SetInduction
<1> QED
  BY <1>1, <1>4, <1>5, <1>6

-----------------------------------------------------------------------------
(***************************************************************************)
(* What the generator spells is closed, if the defaults are.               *)
(***************************************************************************)
Space == <<Blank>>

\* A symbol that is neither a quote nor a semicolon.
LEMMA SymbolClosed ==
  ASSUME NEW x \in Symbol, x \notin Quotes, x # Semi
  PROVE  <<x>> \in Closed
<1>1. PICK t : t = <<x>>
  OBVIOUS
<1>2. t \in Seq(Symbol) /\ \A i \in 1..Len(t) : t[i] = x
  BY <1>1
<1>3. \A i \in 1..Len(t) : t[i] \notin Quotes \cup {Semi}
  BY <1>2
<1>4. t \in Closed
  BY <1>2, <1>3, PlainClosed, Zenon
<1> QED
  BY <1>1, <1>4

\* Keywords and punctuation are closed, each alone.
LEMMA GrammarClosed ==
  /\ \A w \in Grammar : <<w>> \in Closed
  /\ Space \in Closed /\ <<Comma, Blank>> \in Closed /\ <<Left>> \in Closed /\ <<Right>> \in Closed
  /\ << >> \in Closed
<1>1. ASSUME NEW w \in Grammar PROVE <<w>> \in Closed
  <2>1. w \in Symbol /\ w \notin Quotes /\ w # Semi
    BY SymbolsDiffer, TextsAre
  <2> QED
    BY <2>1, SymbolClosed
<1>2. ASSUME NEW x \in {Blank, Comma, Left, Right} PROVE <<x>> \in Closed
  <2>1. x \in Symbol /\ x \notin Quotes /\ x # Semi
    BY SymbolsDiffer, TextsAre
  <2> QED
    BY <2>1, SymbolClosed
<1>3. PICK t : t = <<Comma, Blank>>
  OBVIOUS
<1>4. t \in Closed
  <2>1. Len(t) = 2 /\ \A i \in 1..2 : t[i] \in {Blank, Comma}
    BY <1>3
  <2>2. {Blank, Comma} \subseteq Symbol /\ {Blank, Comma} \cap (Quotes \cup {Semi}) = {}
    BY SymbolsDiffer, TextsAre, Zenon
  <2>3. t \in Seq({Blank, Comma})
    BY <1>3
  <2>4. t \in Seq(Symbol)
    BY <2>2, <2>3, SeqMonotonic, Zenon
  <2>5. \A i \in 1..Len(t) : t[i] \notin Quotes \cup {Semi}
    BY <2>1, <2>2
  <2> QED
    BY <2>4, <2>5, PlainClosed, Zenon
<1>5. << >> \in Seq(Symbol) /\ \A i \in 1..Len(<< >>) : FALSE
  BY EmptySeq
<1>6. << >> \in Closed
  BY <1>5, PlainClosed, Zenon
<1>7. <<Comma, Blank>> \in Closed
  BY <1>3, <1>4
<1> QED
  BY <1>1, <1>2, <1>6, <1>7 DEF Space

\* A name has no punctuation.
LEMMA NameIs ==
  ASSUME NEW n \in Name
  PROVE  /\ n \in Seq(STRING) /\ n \in Seq(Symbol) /\ n # << >> /\ Len(n) > 0
         /\ \A i \in 1..Len(n) : n[i] \notin Quotes \cup {Semi, Blank, Comma, Left, Right}
<1>1. n \in Seq(STRING) /\ n # << >>
      /\ ToSet(n) \cap (Quotes \cup {Blank, Comma, Semi, Left, Right}) = {}
  BY Zenon DEF Name, Blank, Comma, Semi, Left, Right
<1>2. n \in Seq(Symbol)
  BY <1>1, TextsAre
<1>3. DOMAIN n = 1..Len(n) /\ Len(n) > 0
  BY <1>1
<1>4. ASSUME NEW i \in 1..Len(n) PROVE n[i] \in ToSet(n)
  BY <1>3, <1>4 DEF ToSet
<1>5. \A i \in 1..Len(n) : n[i] \notin Quotes \cup {Semi, Blank, Comma, Left, Right}
  BY <1>1, <1>4
<1> QED
  BY <1>1, <1>2, <1>3, <1>5

\* Names are closed, with quotes and without.
LEMMA NameClosed ==
  ASSUME NEW n \in Name
  PROVE  n \in Closed /\ quoteIdentifier(n) \in Closed /\ <<Mark>> \o n \o <<Mark>> \in Closed
<1>1. n \in Seq(Symbol) /\ \A i \in 1..Len(n) : n[i] \notin Quotes \cup {Semi}
  BY NameIs
<1>2. n \in Closed
  BY <1>1, PlainClosed
<1>3. \A i \in 1..Len(n) : n[i] \notin Quotes
  BY <1>1
<1>4. \A x \in Quotes : <<x>> \o n \o <<x>> \in Closed
  BY <1>1, <1>3, QuotedClosed
<1>5. Mark \in Quotes /\ Twice \in Quotes
  BY SymbolsDiffer
<1>6. quoteIdentifier(n) = n \/ quoteIdentifier(n) = <<Twice>> \o n \o <<Twice>>
  BY Zenon DEF quoteIdentifier, Twice
<1>7. quoteIdentifier(n) \in Closed
  <2>1. <<Twice>> \o n \o <<Twice>> \in Closed
    BY <1>4, <1>5, Zenon
  <2> QED
    BY <1>2, <1>6, <2>1, Zenon
<1>8. <<Mark>> \o n \o <<Mark>> \in Closed
  BY <1>4, <1>5, Zenon
<1> QED
  BY <1>2, <1>7, <1>8

\* Types and the texts of defaults are closed.
LEMMA FragmentClosed ==
  ASSUME NEW t \in Fragment
  PROVE  t \in Closed /\ t # << >>
<1>1. t \in Seq(STRING) /\ t # << >> /\ Closes(t)
  BY Zenon DEF Fragment
<1>2. t \in Seq(Symbol)
  BY <1>1, TextsAre
<1> QED
  BY <1>1, <1>2, Zenon DEF Closed

\* Lists, sentences and what is in parentheses.
LEMMA PhraseIn ==
  ASSUME NEW C \in Class, NEW ts \in Seq(C)
  PROVE  Sentence(ts) \in C /\ List(ts) \in C /\ InParentheses(List(ts)) \in C
<1>1. Sentence(ts) = Joined(ts, Space)
  BY Zenon DEF Sentence, Space, Blank
<1>2. List(ts) = Joined(ts, <<Comma, Blank>>)
  BY Zenon DEF List, Comma, Blank
<1>3. Space \in C /\ <<Comma, Blank>> \in C /\ <<Left>> \in C /\ <<Right>> \in C
  BY GrammarClosed, ClassIs
<1>4. Sentence(ts) \in C
  BY <1>1, <1>3, JoinedIn
<1>5. PICK t, l, r : t = List(ts) /\ l = <<Left>> /\ r = <<Right>>
  OBVIOUS
<1>6. t \in C
  BY <1>2, <1>3, <1>5, JoinedIn
<1>7. l \o t \in C /\ r \in C
  BY <1>3, <1>5, <1>6, ClassIs
<1>8. (l \o t) \o r \in C
  BY <1>7, ClassIs
<1>9. InParentheses(t) = (l \o t) \o r
  BY <1>5, Zenon DEF InParentheses, Left, Right
<1> QED
  BY <1>4, <1>5, <1>6, <1>8, <1>9

LEMMA PhraseClosed ==
  ASSUME NEW ts \in Seq(Closed)
  PROVE  Sentence(ts) \in Closed /\ List(ts) \in Closed /\ InParentheses(List(ts)) \in Closed
<1>1. Closed \in Class
  BY DEF Class
<1> QED
  BY <1>1, PhraseIn

\* A list of columns.
LEMMA ColumnListClosed ==
  ASSUME NEW cols \in Seq(Name)
  PROVE  formatColumnList(cols) \in Closed
<1>1. PICK ts : ts = [i \in DOMAIN cols |-> quoteIdentifier(cols[i])]
  OBVIOUS
<1>2. ts \in Seq(Closed)
  <2>1. \A i \in DOMAIN cols : quoteIdentifier(cols[i]) \in Closed
    BY NameClosed
  <2>2. DOMAIN cols = 1..Len(cols) /\ Len(cols) \in Nat
    OBVIOUS
  <2> QED
    BY <1>1, <2>1, <2>2
<1> QED
  BY <1>1, <1>2, PhraseClosed, Zenon DEF formatColumnList

\* Keywords are texts of one symbol.
LEMMA KeywordsAre ==
  ASSUME NEW words \in Seq(Grammar)
  PROVE  /\ Keywords(words) \in Seq(Closed) /\ Len(Keywords(words)) = Len(words)
         /\ \A i \in 1..Len(words) : Keywords(words)[i] = <<words[i]>>
<1>1. PICK ks : ks = [i \in 1..Len(words) |-> <<words[i]>>]
  OBVIOUS
<1>2. Keywords(words) = ks
  <2>1. DOMAIN words = 1..Len(words)
    OBVIOUS
  <2> QED
    BY <1>1, <2>1, Zenon DEF Keywords
<1>3. \A i \in 1..Len(words) : <<words[i]>> \in Closed
  BY GrammarClosed
<1>4. Len(words) \in Nat
  OBVIOUS
<1>5. ks \in Seq(Closed) /\ Len(ks) = Len(words)
  BY <1>1, <1>3, <1>4
<1> QED
  BY <1>1, <1>2, <1>5

\* A column definition, whose text is of the kind its default is of.
LEMMA ColumnIn ==
  ASSUME NEW C \in Class, NEW c \in Column, c.default = NoDefault \/ c.default.text \in C
  PROVE  ColumnText(c) \in C
<1>0. Closed \subseteq C /\ Seq(Closed) \subseteq Seq(C)
  BY ClassIs
<1>1. /\ c.name \in Name /\ c.type \in Fragment
      /\ c.default = NoDefault \/ c.default \in Value
  BY DEF Column
<1>2. PICK a, b, d, e : /\ a = <<quoteIdentifier(c.name), c.type>>
                        /\ b = Keywords(<<"NOT", "NULL">>)
                        /\ d = <<<<"DEFAULT">>, c.default.text>>
                        /\ e = (IF c.nullable THEN << >> ELSE b)
                                  \o (IF c.default = NoDefault THEN << >> ELSE d)
  OBVIOUS
<1>3. a \in Seq(C)
  <2>1. quoteIdentifier(c.name) \in C /\ c.type \in C
    BY <1>0, <1>1, NameClosed, FragmentClosed
  <2> QED
    BY <1>2, <2>1
<1>4. b \in Seq(C)
  <2>1. <<"NOT", "NULL">> \in Seq(Grammar)
    BY DEF Grammar
  <2> QED
    BY <1>0, <1>2, <2>1, KeywordsAre
<1>5. CASE c.default = NoDefault
  <2>1. ColumnText(c) = Sentence(a \o (IF c.nullable THEN << >> ELSE b) \o << >>)
    BY <1>2, <1>5, Zenon DEF ColumnText
  <2>2. a \o (IF c.nullable THEN << >> ELSE b) \o << >> \in Seq(C)
    BY <1>3, <1>4
  <2> QED
    BY <2>1, <2>2, PhraseIn, Zenon
<1>6. CASE c.default # NoDefault
  <2>1. c.default.text \in C
    BY <1>6
  <2>2. <<"DEFAULT">> \in C
    <3>1. "DEFAULT" \in Grammar
      BY DEF Grammar
    <3> QED
      BY <1>0, <3>1, GrammarClosed
  <2>3. d \in Seq(C)
    BY <1>2, <2>1, <2>2
  <2>4. ColumnText(c) = Sentence(a \o (IF c.nullable THEN << >> ELSE b) \o d)
    BY <1>2, <1>6, Zenon DEF ColumnText
  <2>5. a \o (IF c.nullable THEN << >> ELSE b) \o d \in Seq(C)
    BY <1>3, <1>4, <2>3
  <2> QED
    BY <2>4, <2>5, PhraseIn, Zenon
<1> QED
  BY <1>5, <1>6

\* Keywords with a list of columns behind them.
LEMMA KeyClosed ==
  ASSUME NEW words \in Seq(Grammar), NEW cols \in Seq(Name)
  PROVE  Sentence(Keywords(words) \o <<formatColumnList(cols)>>) \in Closed
<1>1. PICK a, b : a = Keywords(words) /\ b = formatColumnList(cols)
  OBVIOUS
<1>2. a \in Seq(Closed) /\ b \in Closed
  BY <1>1, KeywordsAre, ColumnListClosed
<1>3. a \o <<b>> \in Seq(Closed)
  BY <1>2
<1> QED
  BY <1>1, <1>3, PhraseClosed, Zenon

\* What CREATE TABLE has between its parentheses, and the parentheses.
LEMMA BodyIn ==
  ASSUME NEW C \in Class, NEW v, v.cols \in Seq(Column), v.pk \in Seq(Name), v.uniques \in Seq(Seq(Name)),
         \A i \in DOMAIN v.cols : v.cols[i].default = NoDefault \/ v.cols[i].default.text \in C
  PROVE  InParentheses(Body(v)) \in C
<1>0. Closed \subseteq C /\ Seq(Closed) \subseteq Seq(C)
  BY ClassIs
<1>1. PICK a, b, d : /\ a = [i \in DOMAIN v.cols |-> ColumnText(v.cols[i])]
                     /\ b = IF v.pk = << >> THEN << >>
                            ELSE <<Sentence(Keywords(<<"PRIMARY", "KEY">>) \o <<formatColumnList(v.pk)>>)>>
                     /\ d = [i \in DOMAIN v.uniques |->
                               Sentence(Keywords(<<"UNIQUE">>) \o <<formatColumnList(v.uniques[i])>>)]
  OBVIOUS
<1>2. a \in Seq(C)
  <2>1. \A i \in 1..Len(v.cols) : ColumnText(v.cols[i]) \in C
    BY ColumnIn
  <2>2. DOMAIN v.cols = 1..Len(v.cols) /\ Len(v.cols) \in Nat
    OBVIOUS
  <2> QED
    BY <1>1, <2>1, <2>2
<1>3. b \in Seq(Closed)
  <2>1. <<"PRIMARY", "KEY">> \in Seq(Grammar)
    BY DEF Grammar
  <2>2. Sentence(Keywords(<<"PRIMARY", "KEY">>) \o <<formatColumnList(v.pk)>>) \in Closed
    BY <2>1, KeyClosed
  <2> QED
    BY <1>1, <2>2
<1>4. d \in Seq(Closed)
  <2>1. PICK us : us = v.uniques
    OBVIOUS
  <2>2. us \in Seq(Seq(Name)) /\ DOMAIN us = 1..Len(us) /\ Len(us) \in Nat
    BY <2>1
  <2>3. <<"UNIQUE">> \in Seq(Grammar)
    BY DEF Grammar
  <2>4. ASSUME NEW i \in 1..Len(us)
        PROVE  Sentence(Keywords(<<"UNIQUE">>) \o <<formatColumnList(us[i])>>) \in Closed
    <3>1. us[i] \in Seq(Name)
      BY <2>2
    <3> QED
      BY <2>3, <3>1, KeyClosed, Zenon
  <2>5. d = [i \in 1..Len(us) |->
               Sentence(Keywords(<<"UNIQUE">>) \o <<formatColumnList(us[i])>>)]
    BY <1>1, <2>1, <2>2, Zenon
  <2> QED
    BY <2>2, <2>4, <2>5
<1>5. Body(v) = List(a \o b \o d)
  BY <1>1, Zenon DEF Body
<1>6. a \o b \o d \in Seq(C)
  BY <1>0, <1>2, <1>3, <1>4
<1> QED
  BY <1>5, <1>6, PhraseIn, Zenon

\* A joined text begins as its first part does.
LEMMA JoinedFirst ==
  ASSUME NEW C \in Class, NEW ts \in Seq(C), ts # << >>, ts[1] # << >>, NEW by \in C
  PROVE  Joined(ts, by) # << >> /\ Joined(ts, by)[1] = ts[1][1]
<1>1. PICK f : /\ f[0] = << >>
               /\ \A i \in 1..Len(ts) : f[i] = JoinStep(f[i - 1], by, ts[i])
               /\ Joined(ts, by) = f[Len(ts)]
  BY JoinRun
<1>2. Len(ts) \in Nat /\ Len(ts) >= 1 /\ 1 \in 1..Len(ts)
  BY EmptySeq
<1> DEFINE Good(n) == f[n] \in C /\ f[n] # << >> /\ f[n][1] = ts[1][1]
           S == {n \in Nat : n + 1 <= Len(ts) => Good(n + 1)}
<1>3. 0 \in S
  <2>1. f[1] = JoinStep(<< >>, by, ts[1]) /\ 0 + 1 = 1
    <3>1. f[1] = JoinStep(f[1 - 1], by, ts[1])
      BY <1>1, <1>2
    <3> QED
      BY <1>1, <3>1
  <2>2. JoinStep(<< >>, by, ts[1]) = ts[1]
    BY DEF JoinStep
  <2>3. ts[1] \in C
    BY <1>2
  <2> QED
    BY <2>1, <2>2, <2>3
<1>4. ASSUME NEW n \in Nat, n \in S PROVE n + 1 \in S
  <2> SUFFICES ASSUME (n + 1) + 1 <= Len(ts) PROVE Good((n + 1) + 1)
    OBVIOUS
  <2>1. Good(n + 1) /\ (n + 1) + 1 \in 1..Len(ts) /\ ((n + 1) + 1) - 1 = n + 1
    BY <1>4
  <2>2. PICK t, u : t = f[n + 1] /\ u = ts[(n + 1) + 1]
    OBVIOUS
  <2>3. t \in C /\ u \in C /\ t # << >>
    BY <2>1, <2>2
  <2>4. f[(n + 1) + 1] = t \o by \o u
    BY <1>1, <2>1, <2>2, <2>3 DEF JoinStep
  <2>5. t \o by \o u \in C
    BY <2>3, ClassIs
  <2>6. t \in Seq(Symbol) /\ u \in Seq(Symbol) /\ by \in Seq(Symbol)
    BY <2>3, ClassIs
  <2>7. (t \o by \o u)[1] = t[1] /\ t \o by \o u # << >>
    BY <2>3, <2>6
  <2> QED
    BY <2>1, <2>2, <2>4, <2>5, <2>7
<1>5. PICK n : n = Len(ts) - 1
  OBVIOUS
<1>6. n \in Nat /\ n + 1 = Len(ts)
  BY <1>2, <1>5
<1>7. n \in S
  BY <1>3, <1>4, <1>6, SetInduction
<1>8. Good(n + 1)
  BY <1>6, <1>7
<1> QED
  BY <1>1, <1>6, <1>8

\* A text that could begin a file.
Said(t, C) == t \in C /\ t # << >> /\ t[1] # Blank /\ t[1] # Semi

Spoken(t) == Said(t, Closed)

\* A sentence that begins with a keyword.
LEMMA SentenceSaid ==
  ASSUME NEW C \in Class, NEW words \in Seq(Grammar), words # << >>, NEW rest \in Seq(C)
  PROVE  Said(Sentence(Keywords(words) \o rest), C)
<1>0. Closed \subseteq C /\ Seq(Closed) \subseteq Seq(C)
  BY ClassIs
<1>1. PICK a, ts : a = Keywords(words) /\ ts = a \o rest
  OBVIOUS
<1>2. Len(words) >= 1 /\ words[1] \in Grammar /\ 1 \in 1..Len(words)
  OBVIOUS
<1>3. a \in Seq(C) /\ Len(a) = Len(words) /\ a[1] = <<words[1]>>
  BY <1>0, <1>1, <1>2, KeywordsAre
<1>4. ts \in Seq(C) /\ ts # << >> /\ ts[1] = <<words[1]>>
  BY <1>1, <1>2, <1>3
<1>5. ts[1] # << >> /\ ts[1][1] = words[1]
  BY <1>4
<1>6. Sentence(ts) = Joined(ts, Space)
  BY Zenon DEF Sentence, Space, Blank
<1>7. Joined(ts, Space) # << >> /\ Joined(ts, Space)[1] = words[1]
  <2>1. Space \in C
    BY <1>0, GrammarClosed
  <2> QED
    BY <1>4, <1>5, <2>1, JoinedFirst
<1>8. words[1] # Blank /\ words[1] # Semi
  BY <1>2, SymbolsDiffer
<1>9. Sentence(ts) \in C
  BY <1>4, PhraseIn
<1> QED
  BY <1>1, <1>6, <1>7, <1>8, <1>9 DEF Said

LEMMA SentenceSpoken ==
  ASSUME NEW words \in Seq(Grammar), words # << >>, NEW rest \in Seq(Closed)
  PROVE  Spoken(Sentence(Keywords(words) \o rest))
<1>1. Closed \in Class
  BY DEF Class
<1> QED
  BY <1>1, SentenceSaid DEF Spoken

\* What begins with ALTER TABLE.
LEMMA OnTableSaid ==
  ASSUME NEW C \in Class, NEW v, v.table \in Name, NEW words \in Seq(Grammar), NEW rest \in Seq(C)
  PROVE  Said(OnTable(v, words, rest), C)
<1>0. Closed \subseteq C /\ Seq(Closed) \subseteq Seq(C)
  BY ClassIs
<1>1. PICK a, b, c, d : /\ a = Keywords(<<"ALTER", "TABLE">>) /\ b = <<quoteIdentifier(v.table)>>
                        /\ c = Keywords(words) /\ d = b \o c \o rest
  OBVIOUS
<1>2. <<"ALTER", "TABLE">> \in Seq(Grammar) /\ <<"ALTER", "TABLE">> # << >>
  BY DEF Grammar
<1>3. a \in Seq(C) /\ c \in Seq(C)
  BY <1>0, <1>1, <1>2, KeywordsAre
<1>4. b \in Seq(C)
  <2>1. quoteIdentifier(v.table) \in C
    BY <1>0, NameClosed
  <2> QED
    BY <1>1, <2>1
<1>5. d \in Seq(C) /\ a \o b \o c \o rest = a \o d
  BY <1>1, <1>3, <1>4
<1>6. OnTable(v, words, rest) = Sentence(a \o d)
  BY <1>1, <1>5, Zenon DEF OnTable
<1> QED
  BY <1>1, <1>2, <1>5, <1>6, SentenceSaid, Zenon

LEMMA OnTableSpoken ==
  ASSUME NEW v, v.table \in Name, NEW words \in Seq(Grammar), NEW rest \in Seq(Closed)
  PROVE  Spoken(OnTable(v, words, rest))
<1>1. Closed \in Class
  BY DEF Class
<1> QED
  BY <1>1, OnTableSaid DEF Spoken

\* What goes on with ALTER COLUMN.
LEMMA OnColumnSaid ==
  ASSUME NEW C \in Class, NEW v, v.table \in Name, v.column \in Name, NEW words \in Seq(Grammar),
         NEW rest \in Seq(C)
  PROVE  Said(OnColumn(v, words, rest), C)
<1>0. Closed \subseteq C /\ Seq(Closed) \subseteq Seq(C)
  BY ClassIs
<1>1. PICK a, b : a = <<quoteIdentifier(v.column)>> /\ b = Keywords(words)
  OBVIOUS
<1>2. a \in Seq(C) /\ b \in Seq(C)
  <2>1. quoteIdentifier(v.column) \in C
    BY <1>0, NameClosed
  <2> QED
    BY <1>0, <1>1, <2>1, KeywordsAre
<1>3. a \o b \o rest \in Seq(C)
  BY <1>2
<1>4. <<"ALTER", "COLUMN">> \in Seq(Grammar)
  BY DEF Grammar
<1>5. OnColumn(v, words, rest) = OnTable(v, <<"ALTER", "COLUMN">>, a \o b \o rest)
  BY <1>1, Zenon DEF OnColumn
<1> QED
  BY <1>3, <1>4, <1>5, OnTableSaid, Zenon

LEMMA OnColumnSpoken ==
  ASSUME NEW v, v.table \in Name, v.column \in Name, NEW words \in Seq(Grammar),
         NEW rest \in Seq(Closed)
  PROVE  Spoken(OnColumn(v, words, rest))
<1>1. Closed \in Class
  BY DEF Class
<1> QED
  BY <1>1, OnColumnSaid DEF Spoken

\* The fields of each kind of statement.
IsCreateTable(v) ==
  v.stmt = "CREATE TABLE" /\ v.table \in Name /\ v.cols \in Seq(Column) /\ v.pk \in Seq(Name)
    /\ v.uniques \in Seq(Seq(Name))
IsOfTable(v) ==
  v.stmt = "DROP TABLE" /\ v.table \in Name /\ v = [stmt |-> v.stmt, table |-> v.table]
IsAddColumn(v) == v.stmt = "ADD COLUMN" /\ v.table \in Name /\ v.coldef \in Column
IsOfColumn(v) ==
  v.stmt \in {"DROP COLUMN", "SET NOT NULL", "DROP NOT NULL", "DROP DEFAULT"} /\ v.table \in Name
    /\ v.column \in Name /\ v = [stmt |-> v.stmt, table |-> v.table, column |-> v.column]
IsRename(v) ==
  v.stmt = "RENAME COLUMN" /\ v.table \in Name /\ v.column \in Name /\ v.to \in Name
    /\ v = [stmt |-> v.stmt, table |-> v.table, column |-> v.column, to |-> v.to]
IsAlterType(v) == v.stmt = "ALTER TYPE" /\ v.table \in Name /\ v.column \in Name /\ v.type \in Fragment
IsSetDefault(v) ==
  v.stmt = "SET DEFAULT" /\ v.table \in Name /\ v.column \in Name /\ v.default \in Value
IsCreateIndex(v) ==
  v.stmt = "CREATE INDEX" /\ v.table \in Name /\ v.name \in Name /\ v.cols \in Seq(Name)
    /\ v.unique \in BOOLEAN
IsDropIndex(v) ==
  v.stmt = "DROP INDEX" /\ v.name \in Name /\ v = [stmt |-> v.stmt, name |-> v.name]
IsAddConstraint(v) ==
  v.stmt = "ADD CONSTRAINT" /\ v.table \in Name /\ v.name \in Name /\ v.cols \in Seq(Name)
    /\ v.refTable \in Name /\ v.refCols \in Seq(Name)
IsDropConstraint(v) == v.stmt = "DROP CONSTRAINT" /\ v.table \in Name /\ v.name \in Name
IsCreateType(v) == v.stmt = "CREATE TYPE" /\ v.enum \in Name /\ v.values \in Seq(Name)
IsAddValue(v) ==
  v.stmt = "ADD VALUE" /\ v.enum \in Name /\ v.value \in Name
    /\ v = [stmt |-> v.stmt, enum |-> v.enum, value |-> v.value]
IsDropType(v) ==
  v.stmt = "DROP TYPE" /\ v.enum \in Name /\ v = [stmt |-> v.stmt, enum |-> v.enum]

\* A statement is of one of the kinds.
LEMMA KindsAre ==
  ASSUME NEW v \in Statement
  PROVE  \/ IsCreateTable(v) \/ IsOfTable(v) \/ IsAddColumn(v) \/ IsOfColumn(v) \/ IsRename(v)
         \/ IsAlterType(v) \/ IsSetDefault(v) \/ IsCreateIndex(v) \/ IsDropIndex(v)
         \/ IsAddConstraint(v) \/ IsDropConstraint(v) \/ IsCreateType(v) \/ IsAddValue(v)
         \/ IsDropType(v)
<1>1. ASSUME v \in [stmt : {"CREATE TABLE"}, table : Name, cols : Seq(Column) \ {<< >>}, pk : Seq(Name),
                  uniques : Seq(Seq(Name))]
      PROVE  IsCreateTable(v)
  BY <1>1 DEF IsCreateTable
<1>2. ASSUME v \in [stmt : {"DROP TABLE"}, table : Name]
      PROVE  IsOfTable(v)
  BY <1>2 DEF IsOfTable
<1>3. ASSUME v \in [stmt : {"ADD COLUMN"}, table : Name, coldef : Column]
      PROVE  IsAddColumn(v)
  BY <1>3 DEF IsAddColumn
<1>4. ASSUME v \in [stmt : {"DROP COLUMN", "SET NOT NULL", "DROP NOT NULL", "DROP DEFAULT"}, table : Name,
                  column : Name]
      PROVE  IsOfColumn(v)
  BY <1>4 DEF IsOfColumn
<1>5. ASSUME v \in [stmt : {"RENAME COLUMN"}, table : Name, column : Name, to : Name]
      PROVE  IsRename(v)
  BY <1>5 DEF IsRename
<1>6. ASSUME v \in [stmt : {"ALTER TYPE"}, table : Name, column : Name, type : Fragment]
      PROVE  IsAlterType(v)
  BY <1>6 DEF IsAlterType
<1>7. ASSUME v \in [stmt : {"SET DEFAULT"}, table : Name, column : Name, default : Value]
      PROVE  IsSetDefault(v)
  BY <1>7 DEF IsSetDefault
<1>8. ASSUME v \in [stmt : {"CREATE INDEX"}, table : Name, name : Name, cols : Seq(Name), unique : BOOLEAN]
      PROVE  IsCreateIndex(v)
  BY <1>8 DEF IsCreateIndex
<1>9. ASSUME v \in [stmt : {"DROP INDEX"}, name : Name]
      PROVE  IsDropIndex(v)
  BY <1>9 DEF IsDropIndex
<1>10. ASSUME v \in [stmt : {"ADD CONSTRAINT"}, table : Name, name : Name, cols : Seq(Name), refTable : Name,
                  refCols : Seq(Name)]
      PROVE  IsAddConstraint(v)
  BY <1>10 DEF IsAddConstraint
<1>11. ASSUME v \in [stmt : {"DROP CONSTRAINT"}, table : Name, name : Name]
      PROVE  IsDropConstraint(v)
  BY <1>11 DEF IsDropConstraint
<1>12. ASSUME v \in [stmt : {"CREATE TYPE"}, enum : Name, values : Seq(Name)]
      PROVE  IsCreateType(v)
  BY <1>12 DEF IsCreateType
<1>13. ASSUME v \in [stmt : {"ADD VALUE"}, enum : Name, value : Name]
      PROVE  IsAddValue(v)
  BY <1>13 DEF IsAddValue
<1>14. ASSUME v \in [stmt : {"DROP TYPE"}, enum : Name]
      PROVE  IsDropType(v)
  BY <1>14 DEF IsDropType
<1> QED
  BY <1>1, <1>2, <1>3, <1>4, <1>5, <1>6, <1>7, <1>8, <1>9, <1>10, <1>11, <1>12, <1>13, <1>14, Zenon DEF Statement

\* The keywords that statements and their clauses begin with.
LEMMA WordsAre ==
  /\ \A ws \in {<<"CREATE", "TABLE">>, <<"DROP", "TABLE">>, <<"ADD", "COLUMN">>, <<"DROP", "COLUMN">>,
                <<"RENAME", "COLUMN">>, <<"TYPE">>, <<"SET", "NOT", "NULL">>, <<"DROP", "NOT", "NULL">>,
                <<"SET", "DEFAULT">>, <<"DROP", "DEFAULT">>, <<"CREATE", "UNIQUE", "INDEX">>,
                <<"CREATE", "INDEX">>, <<"DROP", "INDEX">>, <<"ADD", "CONSTRAINT">>,
                <<"FOREIGN", "KEY">>, <<"DROP", "CONSTRAINT">>, <<"CREATE", "TYPE">>, <<"AS", "ENUM">>,
                <<"ALTER", "TYPE">>, <<"ADD", "VALUE">>, <<"DROP", "TYPE">>} :
       ws \in Seq(Grammar) /\ ws # << >>
  /\ \A w \in {"TO", "ON", "REFERENCES"} : <<w>> \in Closed
<1>1. ASSUME NEW w \in {"TO", "ON", "REFERENCES"} PROVE <<w>> \in Closed
  <2>1. w \in Grammar
    BY DEF Grammar
  <2> QED
    BY <2>1, GrammarClosed
<1> QED
  BY <1>1 DEF Grammar

\* The label of an enum in its quotes.
LEMMA LabelsClosed ==
  ASSUME NEW values \in Seq(Name)
  PROVE  [i \in DOMAIN values |-> <<Mark>> \o values[i] \o <<Mark>>] \in Seq(Closed)
<1>1. \A i \in DOMAIN values : <<Mark>> \o values[i] \o <<Mark>> \in Closed
  BY NameClosed
<1>2. DOMAIN values = 1..Len(values) /\ Len(values) \in Nat
  OBVIOUS
<1>3. PICK f : f = [i \in 1..Len(values) |-> <<Mark>> \o values[i] \o <<Mark>>]
  OBVIOUS
<1>4. f \in Seq(Closed)
  BY <1>1, <1>2, <1>3
<1> QED
  BY <1>2, <1>3, <1>4, Zenon

\* Every statement begins with a keyword, and it closes its quotes and has its semicolons
\* in them if its defaults do.
LEMMA SpellSaid ==
  ASSUME NEW C \in Class, NEW v \in Statement, \A d \in DefaultsIn(v) : d.text \in C
  PROVE  Said(Spell(v), C)
<1>0. Closed \subseteq C /\ Seq(Closed) \subseteq Seq(C)
  BY ClassIs
<1>00. \A t : Spoken(t) => Said(t, C)
  BY <1>0 DEF Spoken, Said
<1>1. CASE IsCreateTable(v)
  <2>1. PICK a, b : a = quoteIdentifier(v.table) /\ b = InParentheses(Body(v))
    OBVIOUS
  <2>2. a \in C /\ b \in C
    <3>1. DefaultsIn(v) = {v.cols[k].default : k \in DOMAIN v.cols} \ {NoDefault}
      BY <1>1, Zenon DEF DefaultsIn, IsCreateTable
    <3>2. \A k \in DOMAIN v.cols : v.cols[k].default = NoDefault \/ v.cols[k].default.text \in C
      BY <3>1
    <3>3. v.cols \in Seq(Column) /\ v.pk \in Seq(Name) /\ v.uniques \in Seq(Seq(Name)) /\ v.table \in Name
      BY <1>1, Zenon DEF IsCreateTable
    <3>4. b \in C
      BY <2>1, <3>2, <3>3, BodyIn
    <3> QED
      BY <1>0, <2>1, <3>3, <3>4, NameClosed
  <2>3. Spell(v) = Sentence(Keywords(<<"CREATE", "TABLE">>) \o <<a, b>>)
    BY <1>1, <2>1, Zenon DEF Spell, IsCreateTable
  <2>4. <<a, b>> \in Seq(C)
    BY <2>2
  <2> QED
    BY <2>3, <2>4, WordsAre, SentenceSaid, Zenon
<1>2. CASE IsOfTable(v)
  <2>1. PICK a : a = quoteIdentifier(v.table)
    OBVIOUS
  <2>2. a \in Closed
    BY <1>2, <2>1, NameClosed DEF IsOfTable
  <2>3. Spell(v) = Sentence(Keywords(<<"DROP", "TABLE">>) \o <<a>>)
    BY <1>2, <2>1, Zenon DEF Spell, IsOfTable
  <2>4. <<a>> \in Seq(Closed)
    BY <2>2
  <2>5. Spoken(Spell(v))
    BY <2>3, <2>4, WordsAre, SentenceSpoken, Zenon
  <2> QED
    BY <1>00, <2>5
<1>3. CASE IsAddColumn(v)
  <2>1. PICK a : a = ColumnText(v.coldef)
    OBVIOUS
  <2>2. a \in C
    <3>1. DefaultsIn(v) = {v.coldef.default} \ {NoDefault}
      BY <1>3, Zenon DEF DefaultsIn, IsAddColumn
    <3>2. v.coldef.default = NoDefault \/ v.coldef.default.text \in C
      BY <3>1
    <3>3. v.coldef \in Column
      BY <1>3, Zenon DEF IsAddColumn
    <3> QED
      BY <2>1, <3>2, <3>3, ColumnIn
  <2>3. Spell(v) = OnTable(v, <<"ADD", "COLUMN">>, <<a>>)
    BY <1>3, <2>1, Zenon DEF Spell, IsAddColumn
  <2>4. <<a>> \in Seq(C)
    BY <2>2
  <2>5. v.table \in Name
    BY <1>3, Zenon DEF IsAddColumn
  <2> QED
    BY <2>3, <2>4, <2>5, WordsAre, OnTableSaid, Zenon
<1>4. CASE IsOfColumn(v)
  <2>1. PICK a : a = quoteIdentifier(v.column)
    OBVIOUS
  <2>2. a \in Closed /\ v.table \in Name /\ v.column \in Name
    BY <1>4, <2>1, NameClosed DEF IsOfColumn
  <2>3. <<a>> \in Seq(Closed) /\ << >> \in Seq(Closed)
    BY <2>2
  <2>4. \/ Spell(v) = OnTable(v, <<"DROP", "COLUMN">>, <<a>>)
        \/ Spell(v) = OnColumn(v, <<"SET", "NOT", "NULL">>, << >>)
        \/ Spell(v) = OnColumn(v, <<"DROP", "NOT", "NULL">>, << >>)
        \/ Spell(v) = OnColumn(v, <<"DROP", "DEFAULT">>, << >>)
    <3>1. CASE v.stmt = "DROP COLUMN"
      BY <2>1, <3>1, Zenon DEF Spell
    <3>2. CASE v.stmt = "SET NOT NULL"
      BY <3>2, Zenon DEF Spell
    <3>3. CASE v.stmt = "DROP NOT NULL"
      BY <3>3, Zenon DEF Spell
    <3>4. CASE v.stmt = "DROP DEFAULT"
      BY <3>4, Zenon DEF Spell
    <3> QED
      BY <1>4, <3>1, <3>2, <3>3, <3>4, Zenon DEF IsOfColumn
  <2>5. Spoken(OnTable(v, <<"DROP", "COLUMN">>, <<a>>))
    BY <2>2, <2>3, WordsAre, OnTableSpoken, Zenon
  <2>6. /\ Spoken(OnColumn(v, <<"SET", "NOT", "NULL">>, << >>))
        /\ Spoken(OnColumn(v, <<"DROP", "NOT", "NULL">>, << >>))
        /\ Spoken(OnColumn(v, <<"DROP", "DEFAULT">>, << >>))
    BY <2>2, <2>3, WordsAre, OnColumnSpoken, Zenon
  <2>7. Spoken(Spell(v))
    BY <2>4, <2>5, <2>6, Zenon
  <2> QED
    BY <1>00, <2>7
<1>5. CASE IsRename(v)
  <2>1. PICK a, b, ts : /\ a = quoteIdentifier(v.column) /\ b = quoteIdentifier(v.to)
                        /\ ts = <<a, <<"TO">>, b>>
    OBVIOUS
  <2>2. a \in Closed /\ b \in Closed /\ v.table \in Name
    BY <1>5, <2>1, NameClosed DEF IsRename
  <2>3. Spell(v) = OnTable(v, <<"RENAME", "COLUMN">>, ts)
    BY <1>5, <2>1, Zenon DEF Spell, IsRename
  <2>4. ts \in Seq(Closed)
    BY <2>1, <2>2, WordsAre
  <2>5. Spoken(Spell(v))
    BY <2>2, <2>3, <2>4, WordsAre, OnTableSpoken, Zenon
  <2> QED
    BY <1>00, <2>5
<1>6. CASE IsAlterType(v)
  <2>1. v.type \in Closed /\ v.table \in Name /\ v.column \in Name
    BY <1>6, FragmentClosed DEF IsAlterType
  <2>2. <<v.type>> \in Seq(Closed)
    BY <2>1
  <2>3. Spell(v) = OnColumn(v, <<"TYPE">>, <<v.type>>)
    BY <1>6, Zenon DEF Spell, IsAlterType
  <2>4. Spoken(Spell(v))
    BY <2>1, <2>2, <2>3, WordsAre, OnColumnSpoken, Zenon
  <2> QED
    BY <1>00, <2>4
<1>7. CASE IsSetDefault(v)
  <2>1. v.default.text \in C /\ v.table \in Name /\ v.column \in Name
    <3>1. DefaultsIn(v) = {v.default}
      BY <1>7, Zenon DEF DefaultsIn, IsSetDefault
    <3> QED
      BY <1>7, <3>1 DEF IsSetDefault
  <2>2. <<v.default.text>> \in Seq(C)
    BY <2>1
  <2>3. Spell(v) = OnColumn(v, <<"SET", "DEFAULT">>, <<v.default.text>>)
    BY <1>7, Zenon DEF Spell, IsSetDefault
  <2> QED
    BY <2>1, <2>2, <2>3, WordsAre, OnColumnSaid, Zenon
<1>8. CASE IsCreateIndex(v)
  <2>1. PICK a, b, c, ts : /\ a = quoteIdentifier(v.name) /\ b = quoteIdentifier(v.table)
                           /\ c = formatColumnList(v.cols) /\ ts = <<a, <<"ON">>, b, c>>
    OBVIOUS
  <2>2. a \in Closed /\ b \in Closed /\ c \in Closed
    BY <1>8, <2>1, NameClosed, ColumnListClosed DEF IsCreateIndex
  <2>3. ts \in Seq(Closed)
    BY <2>1, <2>2, WordsAre
  <2>4. PICK ws : ws = IF v.unique THEN <<"CREATE", "UNIQUE", "INDEX">> ELSE <<"CREATE", "INDEX">>
    OBVIOUS
  <2>5. ws \in Seq(Grammar) /\ ws # << >>
    BY <2>4, WordsAre, Zenon
  <2>6. Spell(v) = Sentence(Keywords(ws) \o ts)
    BY <1>8, <2>1, <2>4, Zenon DEF Spell, IsCreateIndex
  <2>7. Spoken(Spell(v))
    BY <2>3, <2>5, <2>6, SentenceSpoken, Zenon
  <2> QED
    BY <1>00, <2>7
<1>9. CASE IsDropIndex(v)
  <2>1. PICK a : a = quoteIdentifier(v.name)
    OBVIOUS
  <2>2. a \in Closed
    BY <1>9, <2>1, NameClosed DEF IsDropIndex
  <2>3. Spell(v) = Sentence(Keywords(<<"DROP", "INDEX">>) \o <<a>>)
    BY <1>9, <2>1, Zenon DEF Spell, IsDropIndex
  <2>4. <<a>> \in Seq(Closed)
    BY <2>2
  <2>5. Spoken(Spell(v))
    BY <2>3, <2>4, WordsAre, SentenceSpoken, Zenon
  <2> QED
    BY <1>00, <2>5
<1>10. CASE IsAddConstraint(v)
  <2>1. PICK a, b, c, d, e : /\ a = quoteIdentifier(v.name) /\ b = Keywords(<<"FOREIGN", "KEY">>)
                             /\ c = formatColumnList(v.cols) /\ d = quoteIdentifier(v.refTable)
                             /\ e = formatColumnList(v.refCols)
    OBVIOUS
  <2>2. a \in Closed /\ c \in Closed /\ d \in Closed /\ e \in Closed /\ v.table \in Name
    BY <1>10, <2>1, NameClosed, ColumnListClosed DEF IsAddConstraint
  <2>3. b \in Seq(Closed)
    BY <2>1, WordsAre, KeywordsAre, Zenon
  <2>4. PICK ts : ts = <<c, <<"REFERENCES">>, d, e>>
    OBVIOUS
  <2>5. ts \in Seq(Closed)
    BY <2>2, <2>4, WordsAre
  <2>6. <<a>> \o b \o ts \in Seq(Closed)
    BY <2>2, <2>3, <2>5
  <2>7. Spell(v) = OnTable(v, <<"ADD", "CONSTRAINT">>, <<a>> \o b \o ts)
    BY <1>10, <2>1, <2>4, Zenon DEF Spell, IsAddConstraint
  <2>8. Spoken(Spell(v))
    BY <2>2, <2>6, <2>7, WordsAre, OnTableSpoken, Zenon
  <2> QED
    BY <1>00, <2>8
<1>11. CASE IsDropConstraint(v)
  <2>1. PICK a : a = quoteIdentifier(v.name)
    OBVIOUS
  <2>2. a \in Closed /\ v.table \in Name
    BY <1>11, <2>1, NameClosed DEF IsDropConstraint
  <2>3. Spell(v) = OnTable(v, <<"DROP", "CONSTRAINT">>, <<a>>)
    BY <1>11, <2>1, Zenon DEF Spell, IsDropConstraint
  <2>4. <<a>> \in Seq(Closed)
    BY <2>2
  <2>5. Spoken(Spell(v))
    BY <2>2, <2>3, <2>4, WordsAre, OnTableSpoken, Zenon
  <2> QED
    BY <1>00, <2>5
<1>12. CASE IsCreateType(v)
  <2>1. PICK a, b, c, d : /\ a = quoteIdentifier(v.enum) /\ b = Keywords(<<"AS", "ENUM">>)
                          /\ c = [i \in DOMAIN v.values |-> <<Mark>> \o v.values[i] \o <<Mark>>]
                          /\ d = InParentheses(List(c))
    OBVIOUS
  <2>2. a \in Closed /\ c \in Seq(Closed)
    BY <1>12, <2>1, NameClosed, LabelsClosed DEF IsCreateType
  <2>3. b \in Seq(Closed) /\ d \in Closed
    BY <2>1, <2>2, WordsAre, KeywordsAre, PhraseClosed, Zenon
  <2>4. PICK ts : ts = <<a>> \o b \o <<d>>
    OBVIOUS
  <2>5. ts \in Seq(Closed)
    BY <2>2, <2>3, <2>4
  <2>6. PICK k : k = Keywords(<<"CREATE", "TYPE">>)
    OBVIOUS
  <2>7. k \in Seq(Closed)
    BY <2>6, WordsAre, KeywordsAre, Zenon
  <2>8. k \o <<a>> \o b \o <<d>> = k \o ts
    BY <2>2, <2>3, <2>4, <2>7
  <2>9. Spell(v) = Sentence(k \o <<a>> \o b \o <<d>>)
    BY <1>12, <2>1, <2>6, Zenon DEF Spell, IsCreateType, Mark
  <2>10. Spoken(Spell(v))
    BY <2>5, <2>6, <2>8, <2>9, WordsAre, SentenceSpoken, Zenon
  <2> QED
    BY <1>00, <2>10
<1>13. CASE IsAddValue(v)
  <2>1. PICK a, b, d : /\ a = quoteIdentifier(v.enum) /\ b = Keywords(<<"ADD", "VALUE">>)
                       /\ d = <<Mark>> \o v.value \o <<Mark>>
    OBVIOUS
  <2>2. a \in Closed /\ d \in Closed
    BY <1>13, <2>1, NameClosed DEF IsAddValue
  <2>3. b \in Seq(Closed)
    BY <2>1, WordsAre, KeywordsAre, Zenon
  <2>4. PICK ts : ts = <<a>> \o b \o <<d>>
    OBVIOUS
  <2>5. ts \in Seq(Closed)
    BY <2>2, <2>3, <2>4
  <2>6. PICK k : k = Keywords(<<"ALTER", "TYPE">>)
    OBVIOUS
  <2>7. k \in Seq(Closed)
    BY <2>6, WordsAre, KeywordsAre, Zenon
  <2>8. k \o <<a>> \o b \o <<d>> = k \o ts
    BY <2>2, <2>3, <2>4, <2>7
  <2>9. Spell(v) = Sentence(k \o <<a>> \o b \o <<d>>)
    BY <1>13, <2>1, <2>6, Zenon DEF Spell, IsAddValue, Mark
  <2>10. Spoken(Spell(v))
    BY <2>5, <2>6, <2>8, <2>9, WordsAre, SentenceSpoken, Zenon
  <2> QED
    BY <1>00, <2>10
<1>14. CASE IsDropType(v)
  <2>1. PICK a : a = quoteIdentifier(v.enum)
    OBVIOUS
  <2>2. a \in Closed
    BY <1>14, <2>1, NameClosed DEF IsDropType
  <2>3. Spell(v) = Sentence(Keywords(<<"DROP", "TYPE">>) \o <<a>>)
    BY <1>14, <2>1, Zenon DEF Spell, IsDropType
  <2>4. <<a>> \in Seq(Closed)
    BY <2>2
  <2>5. Spoken(Spell(v))
    BY <2>3, <2>4, WordsAre, SentenceSpoken, Zenon
  <2> QED
    BY <1>00, <2>5
<1> QED
  BY <1>1, <1>2, <1>3, <1>4, <1>5, <1>6, <1>7, <1>8, <1>9, <1>10, <1>11, <1>12, <1>13, <1>14,
     KindsAre, Zenon

\* The text of a default is one of symbols.
LEMMA DefaultsAre ==
  ASSUME NEW v \in Statement, NEW d \in DefaultsIn(v)
  PROVE  d.text \in Seq(Symbol)
<1>1. d \in Value
  <2>1. CASE IsCreateTable(v)
    <3>1. DefaultsIn(v) = {v.cols[k].default : k \in DOMAIN v.cols} \ {NoDefault}
      BY <2>1, Zenon DEF DefaultsIn, IsCreateTable
    <3>2. v.cols \in Seq(Column)
      BY <2>1, Zenon DEF IsCreateTable
    <3>3. PICK k \in DOMAIN v.cols : d = v.cols[k].default /\ d # NoDefault
      BY <3>1
    <3>4. v.cols[k] \in Column
      BY <3>2
    <3> QED
      BY <3>3, <3>4 DEF Column
  <2>2. CASE IsAddColumn(v)
    <3>1. DefaultsIn(v) = {v.coldef.default} \ {NoDefault}
      BY <2>2, Zenon DEF DefaultsIn, IsAddColumn
    <3> QED
      BY <2>2, <3>1 DEF IsAddColumn, Column
  <2>3. CASE IsSetDefault(v)
    <3>1. DefaultsIn(v) = {v.default}
      BY <2>3, Zenon DEF DefaultsIn, IsSetDefault
    <3> QED
      BY <2>3, <3>1 DEF IsSetDefault
  <2>4. CASE v.stmt \notin {"CREATE TABLE", "ADD COLUMN", "SET DEFAULT"}
    <3>1. DefaultsIn(v) = {}
      BY <2>4, Zenon DEF DefaultsIn
    <3> QED
      BY <3>1
  <2>5. \/ IsCreateTable(v) \/ IsAddColumn(v) \/ IsSetDefault(v)
        \/ v.stmt \notin {"CREATE TABLE", "ADD COLUMN", "SET DEFAULT"}
    BY KindsAre, Zenon DEF IsCreateTable, IsOfTable, IsAddColumn, IsOfColumn, IsRename, IsAlterType,
         IsSetDefault, IsCreateIndex, IsDropIndex, IsAddConstraint, IsDropConstraint, IsCreateType,
         IsAddValue, IsDropType
  <2> QED
    BY <2>1, <2>2, <2>3, <2>4, <2>5
<1>2. d.text \in Literal \/ d.text \in Expression
  BY <1>1 DEF Value
<1>3. CASE d.text \in Expression
  <2>1. d.text \in Seq(STRING)
    BY <1>3, Zenon DEF Expression, Fragment
  <2> QED
    BY <2>1, TextsAre
<1>4. CASE d.text \in AnyString
  <2>1. d.text \in Seq(STRING)
    BY <1>4, Zenon DEF AnyString
  <2> QED
    BY <2>1, TextsAre
<1>5. CASE d.text \in {<<x>> : x \in Numerals \cup {"true", "false"}}
  <2>1. PICK x \in Numerals \cup {"true", "false"} : d.text = <<x>>
    BY <1>5
  <2>2. Numerals \subseteq Symbol /\ {"true", "false"} \subseteq Symbol
    BY NumeralsAssumption, Zenon DEF Symbol
  <2>3. x \in Symbol
    BY <2>1, <2>2, Zenon
  <2> QED
    BY <2>1, <2>3
<1> QED
  BY <1>2, <1>3, <1>4, <1>5 DEF Literal

\* So every statement is a text that begins with a keyword.
LEMMA SpellIs ==
  ASSUME NEW v \in Statement
  PROVE  /\ Spell(v) \in Seq(Symbol) /\ Spell(v) # << >>
         /\ Spell(v)[1] # Blank /\ Spell(v)[1] # Semi
<1>1. Seq(Symbol) \in Class
  BY DEF Class
<1>2. \A d \in DefaultsIn(v) : d.text \in Seq(Symbol)
  BY DefaultsAre
<1>3. Said(Spell(v), Seq(Symbol))
  BY <1>1, <1>2, SpellSaid
<1> QED
  BY <1>3, Zenon DEF Said

\* A statement is self-contained if each of its defaults closes its quotes and has its
\* semicolons in them: nothing else that a statement is made of can reach beyond its end
\* (generator.go:142).
THEOREM ClosingDefaultsSelfContained ==
  ASSUME NEW v \in Statement, \A d \in DefaultsIn(v) : Closes(d.text)
  PROVE  SelfContained(v)
<1>1. Closed \in Class
  BY DEF Class
<1>2. \A d \in DefaultsIn(v) : d.text \in Closed
  BY DefaultsAre DEF Closed
<1>3. Said(Spell(v), Closed)
  BY <1>1, <1>2, SpellSaid
<1> QED
  BY <1>3, Zenon DEF Said, SelfContained, Closed

-----------------------------------------------------------------------------
(***************************************************************************)
(* Cutting a file into statements.                                         *)
(***************************************************************************)
\* Flattening puts the first sequence in front of the others.
LEMMA FlattenTail ==
  ASSUME NEW T, NEW seqs \in Seq(Seq(T)), seqs # << >>
  PROVE  /\ FlattenSeq(seqs) = seqs[1] \o FlattenSeq(Tail(seqs))
         /\ FlattenSeq(seqs) \in Seq(T) /\ FlattenSeq(Tail(seqs)) \in Seq(T)
<1>1. PICK m : m = Len(seqs)
  OBVIOUS
<1>2. m \in Nat /\ m >= 1 /\ seqs[1] \in Seq(T) /\ Len(seqs) # 0
  BY <1>1, EmptySeq
<1>3. PICK ts : ts = Tail(seqs)
  OBVIOUS
<1>4. /\ ts \in Seq(Seq(T)) /\ Len(ts) = m - 1
      /\ \A i \in 1..m - 1 : ts[i] = seqs[i + 1] /\ ts[i] \in Seq(T)
  BY <1>1, <1>2, <1>3
<1>5. PICK g : /\ g[1] = seqs[1]
               /\ \A i \in 2..m : g[i] = g[i - 1] \o seqs[i]
               /\ FlattenSeq(seqs) = g[m]
  BY <1>1, <1>2, FlattenRun
<1>6. CASE m = 1
  <2>1. ts = << >>
    BY <1>4, <1>6, EmptySeq
  <2>2. FlattenSeq(ts) = << >>
    BY <2>1 DEF FlattenSeq
  <2>3. FlattenSeq(seqs) = seqs[1]
    BY <1>5, <1>6
  <2>4. seqs[1] \o << >> = seqs[1] /\ << >> \in Seq(T)
    BY <1>2, EmptySeq
  <2>5. FlattenSeq(Tail(seqs)) = << >>
    BY <1>3, <2>2
  <2> QED
    BY <1>2, <2>3, <2>4, <2>5, Zenon
<1>7. CASE m >= 2
  <2>1. Len(ts) # 0
    BY <1>2, <1>4, <1>7
  <2>2. PICK h : /\ h[1] = ts[1]
                 /\ \A i \in 2..m - 1 : h[i] = h[i - 1] \o ts[i]
                 /\ FlattenSeq(ts) = h[m - 1]
    BY <1>4, <2>1, FlattenRun
  <2> DEFINE Good(n) == h[n + 1] \in Seq(T) /\ g[n + 2] = seqs[1] \o h[n + 1]
             S == {n \in Nat : n + 2 <= m => Good(n)}
  <2> HIDE DEF Good
  <2>3. 0 \in S
    <3>1. 2 \in 2..m /\ 2 - 1 = 1 /\ 1 \in 1..m - 1 /\ 0 + 1 = 1 /\ 0 + 2 = 2 /\ 1 + 1 = 2
      BY <1>2, <1>7
    <3>2. g[2] = g[1] \o seqs[2]
      BY <1>5, <3>1
    <3>3. ts[1] = seqs[2] /\ ts[1] \in Seq(T)
      BY <1>4, <3>1
    <3> QED
      BY <1>5, <2>2, <3>1, <3>2, <3>3 DEF Good
  <2>4. ASSUME NEW n \in Nat, n \in S PROVE n + 1 \in S
    <3> SUFFICES ASSUME (n + 1) + 2 <= m PROVE Good(n + 1)
      OBVIOUS
    <3>0. n + 2 <= m
      BY <1>2
    <3>1. h[n + 1] \in Seq(T) /\ g[n + 2] = seqs[1] \o h[n + 1]
      BY <2>4, <3>0 DEF Good
    <3>2. (n + 1) + 2 \in 2..m /\ ((n + 1) + 2) - 1 = n + 2 /\ (n + 1) + 1 \in 2..m - 1
          /\ ((n + 1) + 1) - 1 = n + 1 /\ (n + 1) + 1 \in 1..m - 1 /\ ((n + 1) + 1) + 1 = (n + 1) + 2
      BY <1>2
    <3>3. PICK a, b, u : a = seqs[1] /\ b = h[n + 1] /\ u = ts[(n + 1) + 1]
      OBVIOUS
    <3>4. g[(n + 1) + 2] = (a \o b) \o seqs[(n + 1) + 2]
      BY <1>5, <3>1, <3>2, <3>3
    <3>5. u = seqs[(n + 1) + 2] /\ u \in Seq(T)
      BY <1>4, <3>2, <3>3
    <3>6. h[(n + 1) + 1] = b \o u
      BY <2>2, <3>2, <3>3
    <3>7. a \in Seq(T) /\ b \in Seq(T)
      BY <1>2, <3>1, <3>3
    <3>8. (a \o b) \o u = a \o (b \o u) /\ b \o u \in Seq(T)
      <4>1. a \in Seq(T) /\ b \in Seq(T) /\ u \in Seq(T)
        BY <3>5, <3>7
      <4>2. (a \o b) \o u = a \o (b \o u)
        BY ONLY <4>1, SMT
      <4>3. b \o u \in Seq(T)
        BY <4>1, ConcatProperties, Zenon
      <4> QED
        BY <4>2, <4>3
    <3>9. g[(n + 1) + 2] = a \o h[(n + 1) + 1] /\ h[(n + 1) + 1] \in Seq(T)
      BY <3>4, <3>5, <3>6, <3>8
    <3> QED
      BY <3>3, <3>9 DEF Good
  <2>5. PICK n : n = m - 2
    OBVIOUS
  <2>6. n \in Nat /\ n + 2 = m /\ n + 1 = m - 1 /\ n + 2 <= m
    BY <1>2, <1>7, <2>5
  <2>7. n \in S
    BY <2>3, <2>4, <2>6, SetInduction
  <2>8. h[n + 1] \in Seq(T) /\ g[n + 2] = seqs[1] \o h[n + 1]
    BY <2>6, <2>7 DEF Good
  <2>9. FlattenSeq(seqs) = seqs[1] \o FlattenSeq(ts) /\ FlattenSeq(ts) \in Seq(T)
    BY <1>5, <2>2, <2>6, <2>8
  <2>10. seqs[1] \o FlattenSeq(ts) \in Seq(T)
    BY <1>2, <2>9, ConcatProperties, Zenon
  <2> QED
    BY <1>3, <2>9, <2>10, Zenon
<1>8. m = 1 \/ m >= 2
  BY <1>2
<1> QED
  BY <1>6, <1>7, <1>8

\* The file begins with its first statement, a semicolon and a blank.
LEMMA UpFirst ==
  ASSUME NEW file \in Seq(Statement), file # << >>
  PROVE  /\ UpSection(file) = Spell(file[1]) \o <<Semi, Blank>> \o UpSection(Tail(file))
         /\ UpSection(Tail(file)) \in Seq(Symbol)
<1>1. PICK seqs : seqs = [i \in DOMAIN file |-> Spell(file[i]) \o <<Semi, Blank>>]
  OBVIOUS
<1>2. DOMAIN file = 1..Len(file) /\ Len(file) \in Nat /\ Len(file) >= 1
  BY EmptySeq
<1>3. <<Semi, Blank>> \in Seq(Symbol)
  <2>1. Semi \in Symbol /\ Blank \in Symbol
    BY TextsAre
  <2> QED
    BY <2>1
<1>4. ASSUME NEW i \in 1..Len(file) PROVE Spell(file[i]) \o <<Semi, Blank>> \in Seq(Symbol)
  <2>1. Spell(file[i]) \in Seq(Symbol)
    BY SpellIs
  <2> QED
    BY <1>3, <2>1, ConcatProperties, Zenon
<1>5. seqs \in Seq(Seq(Symbol)) /\ Len(seqs) = Len(file) /\ seqs # << >>
  <2>1. seqs = [i \in 1..Len(file) |-> Spell(file[i]) \o <<Semi, Blank>>]
    BY <1>1, <1>2, Zenon
  <2>2. PICK n, ps : n = Len(file) /\ ps = seqs
    OBVIOUS
  <2>3. ps \in [1..n -> Seq(Symbol)] /\ n \in Nat /\ n >= 1
    BY <1>2, <1>4, <2>1, <2>2
  <2>4. ps \in Seq(Seq(Symbol)) /\ Len(ps) = n /\ ps # << >>
    BY <2>3
  <2> QED
    BY <2>2, <2>4
<1>6. UpSection(file) = FlattenSeq(seqs)
  BY <1>1, Zenon DEF UpSection, Semi, Blank
<1>7. UpSection(Tail(file)) = FlattenSeq(Tail(seqs))
  <2>1. PICK u, ts : u = Tail(file) /\ ts = [i \in DOMAIN u |-> Spell(u[i]) \o <<Semi, Blank>>]
    OBVIOUS
  <2>2. u \in Seq(Statement) /\ Len(u) = Len(file) - 1 /\ \A i \in 1..Len(file) - 1 : u[i] = file[i + 1]
    BY <1>2, <2>1
  <2>3. DOMAIN u = 1..Len(file) - 1
    BY <2>2
  <2>4. PICK rest : rest = Tail(seqs)
    OBVIOUS
  <2>5. rest = [i \in 1..Len(file) - 1 |-> seqs[i + 1]]
    <3>1. PICK n, ps : n = Len(file) /\ ps = seqs
      OBVIOUS
    <3>2. ps \in Seq(Seq(Symbol)) /\ Len(ps) = n /\ n \in Nat /\ n >= 1
      BY <1>2, <1>5, <3>1
    <3>3. PICK xs : xs = Tail(ps)
      OBVIOUS
    <3>4. xs \in Seq(Seq(Symbol)) /\ Len(xs) = n - 1 /\ \A i \in 1..n - 1 : xs[i] = ps[i + 1]
      BY <3>2, <3>3
    <3>5. xs = [i \in 1..Len(xs) |-> xs[i]]
      BY <3>4
    <3>6. xs = [i \in 1..n - 1 |-> ps[i + 1]]
      BY <3>4, <3>5
    <3> QED
      BY <2>4, <3>1, <3>3, <3>6
  <2>6. \A i \in 1..Len(file) - 1 : seqs[i + 1] = Spell(u[i]) \o <<Semi, Blank>>
    BY <1>1, <1>2, <2>2
  <2>7. rest = ts
    BY <2>1, <2>3, <2>5, <2>6
  <2>8. UpSection(u) = FlattenSeq(ts)
    BY <2>1, Zenon DEF UpSection, Semi, Blank
  <2> QED
    BY <2>1, <2>4, <2>7, <2>8
<1>8. seqs[1] = Spell(file[1]) \o <<Semi, Blank>>
  BY <1>1, <1>2
<1> QED
  BY <1>5, <1>6, <1>7, <1>8, FlattenTail, Zenon

\* A file without statements has no text.
LEMMA UpEmpty == UpSection(<< >>) = << >>
<1>1. PICK u, ts : u = << >> /\ ts = [i \in DOMAIN u |-> Spell(u[i]) \o <<Semi, Blank>>]
  OBVIOUS
<1>2. ts = << >>
  BY <1>1
<1>3. UpSection(u) = FlattenSeq(ts)
  BY <1>1, Zenon DEF UpSection, Semi, Blank
<1>4. FlattenSeq(<< >>) = << >>
  BY DEF FlattenSeq
<1> QED
  BY <1>1, <1>2, <1>3, <1>4

\* A text without blanks around it.
Trimmed(t) == t \in Seq(Symbol) /\ (t # << >> => t[1] # Blank /\ t[Len(t)] # Blank)

\* The least and the greatest of a set of numbers.
LEMMA EndsAre ==
  ASSUME NEW s \in SUBSET Int, NEW i \in s, NEW j \in s, \A k \in s : i <= k /\ k <= j
  PROVE  Min(s) = i /\ Max(s) = j
<1>1. Min(s) = i
  <2>1. \A x \in s : (\A y \in s : x <= y) <=> x = i
    OBVIOUS
  <2> QED
    BY <2>1, Zenon DEF Min
<1>2. Max(s) = j
  <2>1. \A x \in s : (\A y \in s : x >= y) <=> x = j
    OBVIOUS
  <2> QED
    BY <2>1, Zenon DEF Max
<1> QED
  BY <1>1, <1>2

\* Trimming takes what is from the first to the last symbol that is not a blank.
LEMMA TrimBetween ==
  ASSUME NEW t \in Seq(Symbol), NEW i \in 1..Len(t), NEW j \in 1..Len(t),
         t[i] # Blank, t[j] # Blank, \A k \in 1..Len(t) : t[k] # Blank => i <= k /\ k <= j
  PROVE  TrimSpace(t) = SubSeq(t, i, j)
<1>1. PICK kept : kept = {k \in DOMAIN t : t[k] # Blank}
  OBVIOUS
<1>2. DOMAIN t = 1..Len(t) /\ Len(t) \in Nat
  OBVIOUS
<1>3. i \in kept /\ j \in kept /\ (\A k \in kept : k \in Int /\ i <= k /\ k <= j) /\ kept # {}
  BY <1>1, <1>2
<1>4. kept \in SUBSET Int
  BY <1>3
<1>5. Min(kept) = i /\ Max(kept) = j
  BY <1>3, <1>4, EndsAre
<1>6. TrimSpace(t) = IF kept = {} THEN << >> ELSE SubSeq(t, Min(kept), Max(kept))
  BY <1>1, Zenon DEF TrimSpace, Blank
<1> QED
  BY <1>3, <1>5, <1>6

\* Blanks alone are trimmed to nothing.
LEMMA TrimBlanks ==
  ASSUME NEW t \in Seq(Symbol), \A k \in 1..Len(t) : t[k] = Blank
  PROVE  TrimSpace(t) = << >>
<1>1. PICK kept : kept = {k \in DOMAIN t : t[k] # Blank}
  OBVIOUS
<1>2. DOMAIN t = 1..Len(t) /\ Len(t) \in Nat
  OBVIOUS
<1>3. kept = {}
  BY <1>1, <1>2
<1>4. TrimSpace(t) = IF kept = {} THEN << >> ELSE SubSeq(t, Min(kept), Max(kept))
  BY <1>1, Zenon DEF TrimSpace, Blank
<1> QED
  BY <1>3, <1>4

\* A text with a blank before it, after it, on both sides or none.
LEMMA TrimAround ==
  ASSUME NEW t, Trimmed(t), NEW a \in {<< >>, Space}, NEW b \in {<< >>, Space}
  PROVE  TrimSpace(a \o t \o b) = t
<1>1. PICK c, m, n : c = a \o t \o b /\ m = Len(a) /\ n = Len(t)
  OBVIOUS
<1>2. /\ t \in Seq(Symbol) /\ n \in Nat /\ a \in Seq(Symbol) /\ b \in Seq(Symbol)
      /\ m \in {0, 1} /\ Len(b) \in {0, 1}
      /\ \A k \in 1..m : a[k] = Blank
      /\ \A k \in 1..Len(b) : b[k] = Blank
  <2>1. Blank \in Symbol
    BY TextsAre
  <2>2. Space \in Seq(Symbol) /\ Len(Space) = 1 /\ Space[1] = Blank
    BY <2>1 DEF Space
  <2>3. << >> \in Seq(Symbol) /\ Len(<< >>) = 0
    OBVIOUS
  <2>4. n \in Nat /\ t \in Seq(Symbol)
    BY <1>1 DEF Trimmed
  <2>5. ASSUME NEW x \in {<< >>, Space}
        PROVE  x \in Seq(Symbol) /\ Len(x) \in {0, 1} /\ \A k \in 1..Len(x) : x[k] = Blank
    <3>1. CASE x = << >>
      BY <2>3, <3>1
    <3>2. CASE x = Space
      BY <2>2, <3>2
    <3> QED
      BY <3>1, <3>2
  <2>6. /\ a \in Seq(Symbol) /\ m \in {0, 1} /\ \A k \in 1..m : a[k] = Blank
        /\ b \in Seq(Symbol) /\ Len(b) \in {0, 1} /\ \A k \in 1..Len(b) : b[k] = Blank
    BY <1>1, <2>5
  <2> QED
    BY <2>4, <2>6
<1>3. /\ c \in Seq(Symbol) /\ Len(c) = m + n + Len(b)
      /\ \A k \in 1..m : c[k] = a[k]
      /\ \A k \in 1..n : c[m + k] = t[k]
      /\ \A k \in 1..Len(b) : c[m + n + k] = b[k]
  BY <1>1, <1>2
<1>4. ASSUME NEW k \in 1..Len(c), c[k] # Blank PROVE m + 1 <= k /\ k <= m + n
  <2>1. CASE k <= m
    <3>1. k \in 1..m
      BY <2>1, <1>2
    <3> QED
      BY <1>2, <1>3, <1>4, <3>1
  <2>2. CASE k > m + n
    <3>1. k - (m + n) \in 1..Len(b) /\ m + n + (k - (m + n)) = k
      BY <1>2, <1>3, <2>2
    <3> QED
      BY <1>2, <1>3, <1>4, <3>1
  <2> QED
    BY <1>2, <2>1, <2>2
<1>5. CASE n = 0
  <2>1. \A k \in 1..Len(c) : c[k] = Blank
    BY <1>2, <1>4, <1>5
  <2>2. t = << >>
    BY <1>1, <1>2, <1>5, EmptySeq
  <2> QED
    BY <1>1, <1>3, <2>1, <2>2, TrimBlanks
<1>6. CASE n > 0
  <2>1. m + 1 \in 1..Len(c) /\ m + n \in 1..Len(c) /\ 1 \in 1..n /\ n \in 1..n
    BY <1>2, <1>3, <1>6
  <2>2. t[1] # Blank /\ t[n] # Blank
    BY <1>1, <1>2, <1>6 DEF Trimmed
  <2>3. c[m + 1] # Blank /\ c[m + n] # Blank
    BY <1>3, <2>1, <2>2
  <2>4. TrimSpace(c) = SubSeq(c, m + 1, m + n)
    BY <1>3, <1>4, <2>1, <2>3, TrimBetween
  <2>5. SubSeq(c, m + 1, m + n) = t
    <3>1. PICK s : s = SubSeq(c, m + 1, m + n)
      OBVIOUS
    <3>2. s \in Seq(Symbol) /\ Len(s) = n /\ \A k \in 1..n : s[k] = c[m + k]
      BY <1>2, <1>3, <2>1, <3>1
    <3>3. s = [k \in 1..n |-> s[k]] /\ t = [k \in 1..n |-> t[k]]
      BY <1>1, <1>2, <3>2
    <3>4. \A k \in 1..n : s[k] = t[k]
      BY <1>3, <3>2
    <3> QED
      BY <3>1, <3>3, <3>4
  <2> QED
    BY <1>1, <2>4, <2>5
<1> QED
  BY <1>2, <1>5, <1>6

\* What is left of a file once the blanks around it are trimmed.
Rest(file) == TrimSpace(UpSection(file))

\* Two symbols are one after the other.
LEMMA TwoSymbols ==
  ASSUME NEW x \in Symbol, NEW y \in Symbol
  PROVE  <<x, y>> = <<x>> \o <<y>>
<1>1. PICK p, q : p = <<x, y>> /\ q = <<x>> \o <<y>>
  OBVIOUS
<1>2. p \in Seq(Symbol) /\ Len(p) = 2 /\ p[1] = x /\ p[2] = y
  BY <1>1
<1>3. q \in Seq(Symbol) /\ Len(q) = 2 /\ q[1] = x /\ q[2] = y
  BY <1>1
<1>4. p = [i \in 1..2 |-> p[i]] /\ q = [i \in 1..2 |-> q[i]]
  BY <1>2, <1>3
<1>5. \A i \in 1..2 : p[i] = q[i]
  BY <1>2, <1>3
<1> QED
  BY <1>1, <1>4, <1>5

\* A file with statements ends in a blank, which is all there is to trim.
LEMMA UpShape ==
  ASSUME NEW file \in Seq(Statement)
  PROVE  /\ Trimmed(Rest(file))
         /\ file = << >> => UpSection(file) = << >> /\ Rest(file) = << >>
         /\ file # << >> => UpSection(file) = Rest(file) \o Space /\ Rest(file) # << >>
<1> DEFINE Shape(u) == \E b : Trimmed(b) /\ b # << >> /\ u = b \o Space
           Holds(n) == \A f \in Seq(Statement) : Len(f) = n + 1 => Shape(UpSection(f))
           S == {n \in Nat : Holds(n)}
<1>1. ASSUME NEW f \in Seq(Statement), f # << >>,
             Tail(f) = << >> \/ Shape(UpSection(Tail(f)))
      PROVE  Shape(UpSection(f))
  <2>1. PICK s, u : s = Spell(f[1]) /\ u = UpSection(Tail(f))
    OBVIOUS
  <2>2. UpSection(f) = s \o <<Semi, Blank>> \o u /\ u \in Seq(Symbol)
    BY <1>1, <2>1, UpFirst
  <2>3. s \in Seq(Symbol) /\ s # << >> /\ s[1] # Blank
    <3>1. f[1] \in Statement
      BY <1>1, EmptySeq
    <3> QED
      BY <2>1, <3>1, SpellIs
  <2>4. Semi \in Symbol /\ Blank \in Symbol /\ Semi # Blank
    BY TextsAre, SymbolsDiffer
  <2>5. CASE Tail(f) = << >>
    <3>1. u = << >>
      BY <2>1, <2>5, UpEmpty
    <3>2. PICK b : b = s \o <<Semi>>
      OBVIOUS
    <3>3. b \in Seq(Symbol) /\ b # << >> /\ b[1] # Blank /\ b[Len(b)] # Blank
      BY <2>3, <2>4, <3>2
    <3>4. s \o <<Semi, Blank>> \o u = b \o Space
      <4>1. PICK p, q : p = <<Semi>> /\ q = Space
        OBVIOUS
      <4>2. p \in Seq(Symbol) /\ q \in Seq(Symbol)
        BY <2>4, <4>1 DEF Space
      <4>3. <<Semi, Blank>> = p \o q
        BY <2>4, <4>1, TwoSymbols DEF Space
      <4>4. s \o (p \o q) \o << >> = (s \o p) \o q
        BY ONLY <2>3, <4>2
      <4> QED
        BY <3>1, <3>2, <4>1, <4>3, <4>4
    <3> QED
      BY <2>2, <3>3, <3>4 DEF Trimmed
  <2>6. CASE Shape(UpSection(Tail(f)))
    <3>1. PICK d : Trimmed(d) /\ d # << >> /\ u = d \o Space
      BY <2>1, <2>6
    <3>2. PICK b : b = s \o <<Semi, Blank>> \o d
      OBVIOUS
    <3>3. d \in Seq(Symbol) /\ d[Len(d)] # Blank
      BY <3>1 DEF Trimmed
    <3>4. b \in Seq(Symbol) /\ b # << >> /\ b[1] # Blank /\ b[Len(b)] # Blank
      BY <2>3, <2>4, <3>1, <3>2, <3>3
    <3>5. s \o <<Semi, Blank>> \o u = b \o Space
      <4>1. PICK x : x = s \o <<Semi, Blank>>
        OBVIOUS
      <4>2. x \in Seq(Symbol) /\ Space \in Seq(Symbol)
        BY <2>3, <2>4, <4>1 DEF Space
      <4>3. x \o (d \o Space) = (x \o d) \o Space
        BY ONLY <3>3, <4>2
      <4> QED
        <5>1. s \o <<Semi, Blank>> \o u = x \o (d \o Space)
          BY <3>1, <4>1
        <5>2. b \o Space = (x \o d) \o Space
          BY <3>2, <4>1
        <5> QED
          BY <4>3, <5>1, <5>2
    <3> QED
      BY <2>2, <3>4, <3>5 DEF Trimmed
  <2> QED
    BY <1>1, <2>5, <2>6
<1> HIDE DEF Shape
<1>2. 0 \in S
  <2>1. ASSUME NEW f \in Seq(Statement), Len(f) = 0 + 1 PROVE f # << >> /\ Tail(f) = << >>
    <3>1. PICK r : r = Tail(f)
      OBVIOUS
    <3>2. f # << >> /\ Len(f) = 1
      BY <2>1, EmptySeq
    <3>3. r \in Seq(Statement) /\ Len(r) = 0
      BY <3>1, <3>2
    <3> QED
      BY <3>1, <3>2, <3>3, EmptySeq
  <2> QED
    BY <1>1, <2>1
<1>3. ASSUME NEW n \in Nat, n \in S PROVE n + 1 \in S
  <2>1. ASSUME NEW f \in Seq(Statement), Len(f) = (n + 1) + 1 PROVE Shape(UpSection(f))
    <3>1. f # << >> /\ Tail(f) \in Seq(Statement) /\ Len(Tail(f)) = n + 1
      BY <2>1
    <3>2. Shape(UpSection(Tail(f)))
      BY <1>3, <3>1
    <3> QED
      BY <1>1, <2>1, <3>1, <3>2
  <2> QED
    BY <2>1
<1>4. CASE file # << >>
  <2>1. PICK n : n = Len(file) - 1
    OBVIOUS
  <2>2. n \in Nat /\ Len(file) = n + 1
    BY <1>4, <2>1, EmptySeq
  <2>3. n \in S
    BY <1>2, <1>3, <2>2, SetInduction
  <2>4. PICK b : Trimmed(b) /\ b # << >> /\ UpSection(file) = b \o Space
    BY <2>2, <2>3 DEF Shape
  <2>5. << >> \o b = b
    BY <2>4 DEF Trimmed
  <2>6. Rest(file) = b
    BY <2>4, <2>5, TrimAround DEF Rest
  <2> QED
    BY <1>4, <2>4, <2>6
<1>5. CASE file = << >>
  <2>1. UpSection(file) = << >>
    BY <1>5, UpEmpty
  <2>2. << >> \in Seq(Symbol) /\ \A k \in 1..Len(<< >>) : FALSE
    OBVIOUS
  <2>3. TrimSpace(<< >>) = << >>
    BY <2>2, TrimBlanks
  <2> QED
    BY <1>5, <2>1, <2>2, <2>3 DEF Rest, Trimmed
<1> QED
  BY <1>4, <1>5

\* A text with a blank after it.
LEMMA SpaceEnds ==
  ASSUME NEW a \in Seq(Symbol), NEW c, c = a \o Space
  PROVE  Len(c) = Len(a) + 1 /\ \A i \in 1..Len(a) : c[i] = a[i]
<1>1. Space \in Seq(Symbol) /\ Len(Space) = 1
  <2>1. Blank \in Symbol
    BY TextsAre
  <2> QED
    BY <2>1 DEF Space
<1>2. PICK y : y = Space
  OBVIOUS
<1>3. y \in Seq(Symbol) /\ Len(y) = 1
  BY <1>1, <1>2
<1>4. PICK d : d = a \o y
  OBVIOUS
<1>5. Len(d) = Len(a) + Len(y) /\ \A i \in 1..Len(a) : d[i] = a[i]
  <2>1. a \in Seq(Symbol) /\ y \in Seq(Symbol)
    BY <1>3
  <2> QED
    BY ONLY <1>4, <2>1
<1> QED
  BY <1>2, <1>3, <1>4, <1>5

\* What is before a last blank.
LEMMA SpaceCancels ==
  ASSUME NEW a \in Seq(Symbol), NEW b \in Seq(Symbol), a \o Space = b \o Space
  PROVE  a = b
<1>1. PICK c : c = a \o Space
  OBVIOUS
<1>2. c = b \o Space
  BY <1>1
<1>3. Len(c) = Len(a) + 1 /\ \A i \in 1..Len(a) : c[i] = a[i]
  BY <1>1, SpaceEnds
<1>4. Len(c) = Len(b) + 1 /\ \A i \in 1..Len(b) : c[i] = b[i]
  BY <1>2, SpaceEnds
<1>5. PICK n : n = Len(a)
  OBVIOUS
<1>6. n \in Nat /\ Len(b) = n
  BY <1>3, <1>4, <1>5
<1>7. \A i \in 1..n : a[i] = b[i]
  BY <1>3, <1>4, <1>5, <1>6
<1>8. a = [i \in 1..n |-> a[i]] /\ b = [i \in 1..n |-> b[i]]
  BY <1>5, <1>6
<1> QED
  BY <1>7, <1>8

\* What a file begins with, whether or not the blank at its end was trimmed.
LEMMA RestBegins ==
  ASSUME NEW file \in Seq(Statement), file # << >>,
         NEW t \in {UpSection(file), Rest(file)}
  PROVE  \E r \in Seq(Symbol) : /\ t = Spell(file[1]) \o <<Semi>> \o r
                                /\ TrimSpace(r) = Rest(Tail(file))
<1>1. PICK s, p, u, d, x : /\ s = Spell(file[1]) /\ p = <<Semi>> /\ u = UpSection(Tail(file))
                           /\ d = Rest(Tail(file)) /\ x = s \o p
  OBVIOUS
<1>2. Semi \in Symbol /\ Blank \in Symbol
  BY TextsAre
<1>3. p \in Seq(Symbol) /\ Space \in Seq(Symbol) /\ << >> \in Seq(Symbol)
  BY <1>1, <1>2 DEF Space
<1>4. s \in Seq(Symbol)
  <2>1. file[1] \in Statement
    BY EmptySeq
  <2> QED
    BY <1>1, <2>1, SpellIs
<1>5. x \in Seq(Symbol)
  BY <1>1, <1>3, <1>4, ConcatProperties, Zenon
<1>6. Tail(file) \in Seq(Statement)
  OBVIOUS
<1>7. /\ Trimmed(d) /\ d \in Seq(Symbol)
      /\ \/ u = d \o Space
         \/ u = << >> /\ d = << >>
  <2>1. PICK f : f = Tail(file)
    OBVIOUS
  <2>2. \/ UpSection(f) = Rest(f) \o Space
        \/ UpSection(f) = << >> /\ Rest(f) = << >>
    BY <1>6, <2>1, UpShape
  <2>3. Trimmed(Rest(f))
    BY <1>6, <2>1, UpShape
  <2> QED
    BY <1>1, <2>1, <2>2, <2>3 DEF Trimmed
<1>8. UpSection(file) = x \o Space \o u
  <2>1. <<Semi, Blank>> = p \o Space
    BY <1>1, <1>2, TwoSymbols DEF Space
  <2>2. UpSection(file) = s \o (p \o Space) \o u /\ u \in Seq(Symbol)
    BY <1>1, <2>1, UpFirst
  <2>3. s \o (p \o Space) = (s \o p) \o Space
    BY ONLY <1>3, <1>4
  <2> QED
    BY <1>1, <2>2, <2>3
<1>9. \A a, b \in {<< >>, Space} : TrimSpace(a \o d \o b) = d
  BY <1>7, TrimAround
<1>10. CASE t = UpSection(file)
  <2>1. PICK r : r = Space \o u
    OBVIOUS
  <2>2. r \in Seq(Symbol)
    BY <1>3, <1>7, <2>1, ConcatProperties
  <2>3. x \o Space \o u = x \o r
    <3>1. u \in Seq(Symbol)
      BY <1>3, <1>7, ConcatProperties
    <3>2. (x \o Space) \o u = x \o (Space \o u)
      BY ONLY <1>3, <1>5, <3>1
    <3> QED
      BY <2>1, <3>2
  <2>4. TrimSpace(r) = d
    <3>1. CASE u = d \o Space
      <4>1. Space \o d \o Space = r
        <5>1. (Space \o d) \o Space = Space \o (d \o Space)
          BY ONLY <1>3, <1>7
        <5> QED
          BY <2>1, <3>1, <5>1
      <4> QED
        BY <1>9, <4>1
    <3>2. CASE u = << >> /\ d = << >>
      <4>1. Space \o d \o << >> = r
        <5>1. (Space \o << >>) \o << >> = Space \o << >>
          BY ONLY <1>3
        <5> QED
          BY <2>1, <3>2, <5>1
      <4> QED
        BY <1>9, <4>1
    <3> QED
      BY <1>7, <3>1, <3>2
  <2> QED
    BY <1>1, <1>8, <1>10, <2>2, <2>3, <2>4
<1>11. CASE t = Rest(file)
  <2>1. t \in Seq(Symbol) /\ t \o Space = x \o Space \o u
    BY <1>8, <1>11, UpShape DEF Trimmed
  <2>2. CASE u = d \o Space
    <3>1. PICK r : r = Space \o d
      OBVIOUS
    <3>2. r \in Seq(Symbol) /\ x \o r \in Seq(Symbol)
      BY <1>3, <1>5, <1>7, <3>1, ConcatProperties
    <3>3. (x \o Space) \o (d \o Space) = (x \o (Space \o d)) \o Space
      <4>1. PICK e, f : e = d \o Space /\ f = Space \o d
        OBVIOUS
      <4>2. e \in Seq(Symbol) /\ f \in Seq(Symbol)
        BY <1>3, <1>7, <4>1, ConcatProperties
      <4>3. (x \o Space) \o e = x \o (Space \o e)
        BY ONLY <1>3, <1>5, <4>2
      <4>4. (x \o f) \o Space = x \o (f \o Space)
        BY ONLY <1>3, <1>5, <4>2
      <4>5. (Space \o d) \o Space = Space \o (d \o Space)
        BY ONLY <1>3, <1>7
      <4> QED
        BY <4>1, <4>3, <4>4, <4>5
    <3>4. t \o Space = (x \o r) \o Space
      BY <2>1, <2>2, <3>1, <3>3
    <3>5. t = x \o r
      BY <2>1, <3>2, <3>4, SpaceCancels
    <3>6. Space \o d \o << >> = r
      <4>1. (Space \o d) \o << >> = Space \o d
        BY ONLY <1>3, <1>7
      <4> QED
        BY <3>1, <4>1
    <3>7. TrimSpace(r) = d
      BY <1>9, <3>6
    <3> QED
      BY <1>1, <3>2, <3>5, <3>7
  <2>3. CASE u = << >> /\ d = << >>
    <3>1. (x \o Space) \o << >> = x \o Space /\ x \o << >> = x
      BY ONLY <1>3, <1>5
    <3>2. t = x
      BY <1>5, <2>1, <2>3, <3>1, SpaceCancels
    <3>3. << >> \o d \o << >> = << >>
      BY <2>3
    <3>4. TrimSpace(<< >>) = d
      BY <1>9, <3>3
    <3> QED
      BY <1>1, <1>3, <3>1, <3>2, <3>4
  <2> QED
    BY <1>7, <2>2, <2>3
<1> QED
  BY <1>10, <1>11

\* A set of positions that has a member has a greatest and a least.
LEMMA GreatestExists ==
  ASSUME NEW n \in Nat, NEW m \in SUBSET (1..n), m # {}
  PROVE  Max(m) \in m /\ \A i \in m : Max(m) >= i
<1> DEFINE S == {n - i : i \in m}
<1>1. S \subseteq Nat /\ S # {}
  <2>1. ASSUME NEW i \in m PROVE n - i \in Nat
    <3>1. i \in 1..n
      OBVIOUS
    <3> QED
      BY <3>1
  <2>2. PICK i : i \in m
    OBVIOUS
  <2>3. n - i \in S
    BY <2>2
  <2> QED
    BY <2>1, <2>3
<1>2. PICK k \in S : \A j \in S : k <= j
  BY <1>1, LeastExists
<1>3. PICK i \in m : k = n - i
  BY <1>2
<1>4. \A j \in m : j \in Int /\ i \in Int /\ i >= j
  <2>1. ASSUME NEW j \in m PROVE j \in Int /\ i \in Int /\ i >= j
    <3>1. n - i <= n - j
      BY <1>2, <1>3
    <3> QED
      BY <3>1
  <2> QED
    BY <2>1
<1>5. \E x \in m : \A y \in m : x >= y
  BY <1>3, <1>4
<1>6. Max(m) = CHOOSE x \in m : \A y \in m : x >= y
  BY Zenon DEF Max
<1> QED
  BY <1>5, <1>6, Zenon

LEMMA LeastIsIn ==
  ASSUME NEW m, m \subseteq Nat, m # {}
  PROVE  Min(m) \in m
<1>1. \E x \in m : \A y \in m : x <= y
  BY LeastExists
<1>2. Min(m) = CHOOSE x \in m : \A y \in m : x <= y
  BY Zenon DEF Min
<1> QED
  BY <1>1, <1>2, Zenon

\* The first semicolon outside of quotes is the one the generator put there.
LEMMA FirstSemicolon ==
  ASSUME NEW s \in Closed, NEW r \in Seq(Symbol), NEW t, t = s \o <<Semi>> \o r
  PROVE  /\ t \in Seq(Symbol) /\ Len(t) = Len(s) + 1 + Len(r)
         /\ \A m : m = {i \in DOMAIN t : t[i] = Semi}
              => Min((m \cap Outside(t)) \cup {Max(m)}) = Len(s) + 1
<1>1. PICK p, q, w, n : /\ p = <<Semi>> \o r /\ q = OpenQuotes(s) /\ w = OpenQuotes(t) /\ n = Len(s)
  OBVIOUS
<1>2. s \in Seq(Symbol) /\ n \in Nat
  BY <1>1 DEF Closed
<1>3. p \in Seq(Symbol) /\ Len(p) = Len(r) + 1 /\ p[1] = Semi
  <2>1. Semi \in Symbol
    BY TextsAre
  <2> QED
    BY <1>1, <2>1
<1>4. t = s \o p
  <2>1. <<Semi>> \in Seq(Symbol)
    BY TextsAre
  <2>2. PICK y : y = <<Semi>>
    OBVIOUS
  <2>3. y \in Seq(Symbol)
    BY <2>1, <2>2
  <2>4. (s \o y) \o r = s \o (y \o r)
    BY ONLY <1>2, <2>3, r \in Seq(Symbol)
  <2> QED
    BY <1>1, <2>2, <2>4
<1>5. /\ t \in Seq(Symbol) /\ Len(t) = n + 1 + Len(r) /\ Len(r) \in Nat
      /\ t[n + 1] = Semi /\ \A i \in 1..n : t[i] = s[i]
  BY <1>1, <1>2, <1>3, <1>4
<1>6. \A i \in 1..n + 1 : w[i] = q[i]
  <2>1. w = OpenQuotes(s \o p)
    BY <1>1, <1>4
  <2> QED
    <3>1. q = OpenQuotes(s)
      BY <1>1
    <3>2. \A i \in 1..Len(s) + 1 : w[i] = q[i]
      BY ONLY <1>2, <1>3, <2>1, <3>1, OpenFirst
    <3> QED
      BY <1>1, <3>2
<1>7. q[n + 1] = None /\ \A i \in 1..n : s[i] = Semi => q[i] # None
  BY <1>1, <1>2, ClosedIs
<1>8. PICK m, ends : /\ m = {i \in DOMAIN t : t[i] = Semi}
                     /\ ends = (m \cap Outside(t)) \cup {Max(m)}
  OBVIOUS
<1>9. m = {i \in 1..Len(t) : t[i] = Semi} /\ m \cap Outside(t) = {i \in m : w[i] = None}
  <2>1. DOMAIN t = 1..Len(t)
    BY <1>5
  <2>2. Outside(t) = {i \in DOMAIN t : w[i] = None}
    BY <1>1, Zenon DEF Outside
  <2> QED
    BY <1>8, <2>1, <2>2
<1>10. n + 1 \in m /\ n + 1 \in ends
  <2>1. n + 1 \in m
    BY <1>2, <1>5, <1>9
  <2>2. n + 1 \in 1..n + 1
    BY <1>2
  <2>3. w[n + 1] = None
    BY <1>6, <1>7, <2>2
  <2> QED
    BY <1>8, <1>9, <2>1, <2>3
<1>11. Max(m) \in m /\ Max(m) >= n + 1
  <2>1. m \in SUBSET (1..Len(t)) /\ Len(t) \in Nat
    BY <1>2, <1>5, <1>9
  <2>2. Max(m) \in m /\ \A i \in m : Max(m) >= i
    BY <1>10, <2>1, GreatestExists
  <2> QED
    BY <1>10, <2>2
<1>12. ASSUME NEW i \in ends PROVE i \in Int /\ n + 1 <= i
  <2>1. CASE i = Max(m)
    <3>1. i \in m /\ i >= n + 1
      BY <1>11, <2>1
    <3>2. i \in 1..Len(t)
      BY <1>9, <3>1
    <3> QED
      BY <1>2, <3>1, <3>2
  <2>2. CASE i \in m /\ w[i] = None
    <3>1. i \in 1..Len(t) /\ t[i] = Semi
      BY <1>9, <2>2
    <3>2. ASSUME i <= n PROVE FALSE
      <4>1. i \in 1..n /\ i \in 1..n + 1
        BY <1>2, <3>1, <3>2
      <4> QED
        BY <1>5, <1>6, <1>7, <2>2, <3>1, <4>1
    <3> QED
      BY <1>2, <3>1, <3>2
  <2> QED
    BY <1>8, <1>9, <2>1, <2>2
<1>13. Min(ends) = n + 1
  <2>1. \A x \in ends : (\A y \in ends : x <= y) <=> x = n + 1
    <3>1. \A x \in ends : x \in Int /\ n + 1 <= x
      BY <1>12
    <3> QED
      BY ONLY <1>2, <1>10, <3>1
  <2> QED
    BY <1>10, <2>1, Zenon DEF Min
<1>14. \A k : k = {i \in DOMAIN t : t[i] = Semi} => Min((k \cap Outside(t)) \cup {Max(k)}) = n + 1
  BY <1>8, <1>13
<1>15. t \in Seq(Symbol) /\ Len(t) = Len(s) + 1 + Len(r)
  BY <1>1, <1>5
<1> QED
  BY <1>1, <1>14, <1>15

-----------------------------------------------------------------------------
(***************************************************************************)
(* Reading a file.                                                         *)
(***************************************************************************)
\* One text after another.
LEMMA ConcatIs ==
  ASSUME NEW T, NEW a \in Seq(T), NEW b \in Seq(T)
  PROVE  /\ a \o b \in Seq(T) /\ Len(a \o b) = Len(a) + Len(b)
         /\ Len(a) \in Nat /\ Len(b) \in Nat
         /\ \A i \in 1..Len(b) : (a \o b)[Len(a) + i] = b[i]
OBVIOUS

\* What is behind a mark.
LEMMA BehindIs ==
  ASSUME NEW T, NEW a \in Seq(T), NEW b \in Seq(T), NEW d \in Seq(T), Len(b) = 1
  PROVE  /\ Len((a \o b) \o d) = Len(a) + 1 + Len(d) /\ Len(d) \in Nat
         /\ \A i \in 1..Len(d) : ((a \o b) \o d)[Len(a) + 1 + i] = d[i]
<1>1. PICK z : z = a \o b
  OBVIOUS
<1>2. a \o b \in Seq(T) /\ Len(a \o b) = Len(a) + Len(b) /\ Len(a) \in Nat
  BY ConcatIs, Zenon
<1>3. z \in Seq(T) /\ Len(z) = Len(a) + 1 /\ Len(a) \in Nat
  BY <1>1, <1>2
<1>4. /\ Len(z \o d) = Len(z) + Len(d) /\ Len(d) \in Nat
      /\ \A i \in 1..Len(d) : (z \o d)[Len(z) + i] = d[i]
  <2>1. z \in Seq(T) /\ d \in Seq(T)
    BY <1>3
  <2> QED
    BY ONLY <2>1, ConcatIs
<1>5. /\ Len(z \o d) = Len(a) + 1 + Len(d) /\ Len(d) \in Nat
      /\ \A i \in 1..Len(d) : (z \o d)[Len(a) + 1 + i] = d[i]
  BY ONLY <1>3, <1>4
<1> QED
  BY <1>1, <1>5, Zenon

\* A text without its first symbol.
LEMMA TailIs ==
  ASSUME NEW T, NEW a \in Seq(T), a # << >>, NEW c, c = Tail(a)
  PROVE  /\ c \in Seq(T) /\ Len(c) = Len(a) - 1
         /\ \A i \in 1..Len(a) - 1 : c[i] = a[i + 1]
OBVIOUS

\* The statements that are still to be read.
LeftOver == SubSeq(stmts, Len(read) + 1, Len(stmts))

\* The first n statements are there, and each is self-contained.
Apart(n) == n <= Len(stmts) /\ \A i \in 1..n : SelfContained(stmts[i])

Sound(i) == read[i] = Parse(Spell(stmts[i])) /\ Parse(Spell(stmts[i])) # Error

\* Before the end, the text is that of the statements still to be read.
TextIsRest ==
  status = "reading" /\ Apart(Len(read)) => text \in {UpSection(LeftOver), Rest(LeftOver)}

Shape ==
  /\ stmts \in Files
  /\ status \in {"reading", "read", "refused"}
  /\ \E T : read \in Seq(T)

IInv == Shape /\ EachAlone /\ TextIsRest

\* The types of what is read.
LEMMA ReadIs ==
  ASSUME Shape
  PROVE  /\ stmts \in Files /\ stmts \in Seq(Statement) /\ Len(stmts) \in Nat
         /\ DOMAIN stmts = 1..Len(stmts)
         /\ Len(read) \in Nat /\ DOMAIN read = 1..Len(read) /\ read = [i \in 1..Len(read) |-> read[i]]
<1>1. stmts \in Files /\ stmts \in Seq(Statement)
  BY FilesAssumption DEF Shape
<1>2. PICK T : read \in Seq(T)
  BY DEF Shape
<1> QED
  BY <1>1, <1>2

\* A refused file, as what came of its statements and as what was read of them.
LEMMA CameIs ==
  ASSUME NEW T, NEW r \in Seq(T), NEW n \in Nat, NEW st, NEW A, NEW p, NEW e,
         NEW c, c = IF st = "refused" THEN Append(r, e) ELSE r
  PROVE  (/\ \A i \in DOMAIN c : i \in A => c[i] = p[i] /\ (c[i] = e <=> i > Len(r))
          /\ n \in A => Len(c) <= n /\ (st = "read" => Len(c) = n))
         <=>
         (/\ \A i \in DOMAIN r : i \in A => r[i] = p[i] /\ p[i] # e
          /\ st = "refused" /\ Len(r) + 1 \in A => p[Len(r) + 1] = e
          /\ n \in A =>
               /\ Len(r) <= n
               /\ st = "read" => Len(r) = n
               /\ st = "refused" => Len(r) < n)
<1>1. Len(r) \in Nat /\ DOMAIN r = 1..Len(r)
  OBVIOUS
<1>2. CASE st = "refused"
  <2>1. /\ Len(c) = Len(r) + 1 /\ DOMAIN c = 1..Len(r) + 1 /\ c[Len(r) + 1] = e
        /\ \A i \in 1..Len(r) : c[i] = r[i]
    <3>1. r \in Seq(T \cup {e}) /\ e \in T \cup {e} /\ c = Append(r, e)
      BY <1>2
    <3> QED
      BY <1>1, <3>1
  <2>2. \A i : i \in 1..Len(r) + 1 <=> i \in 1..Len(r) \/ i = Len(r) + 1
    BY <1>1
  <2>3. \A i \in 1..Len(r) : ~(i > Len(r))
    BY <1>1
  <2>4. st # "read"
    BY <1>2
  <2>5. Len(r) + 1 > Len(r) /\ (Len(r) + 1 <= n <=> Len(r) < n) /\ (Len(r) < n => Len(r) <= n)
    BY <1>1
  <2>6. (\A i \in DOMAIN c : i \in A => c[i] = p[i] /\ (c[i] = e <=> i > Len(r)))
          <=> /\ \A i \in DOMAIN r : i \in A => r[i] = p[i] /\ p[i] # e
              /\ Len(r) + 1 \in A => p[Len(r) + 1] = e
    BY <1>1, <2>1, <2>2, <2>3, <2>5, Zenon
  <2> QED
    BY <1>2, <2>1, <2>4, <2>5, <2>6
<1>3. CASE st # "refused"
  <2>1. c = r /\ \A i \in 1..Len(r) : ~(i > Len(r))
    BY <1>1, <1>3
  <2> QED
    BY <1>1, <1>3, <2>1, Zenon
<1> QED
  BY <1>2, <1>3

\* The first n of the statements s are there, and each is self-contained.
ApartIn(s, n) == n <= Len(s) /\ \A i \in 1..n : SelfContained(s[i])

\* EachAlone of statements s, of which r were read and the next was perhaps refused.
AloneIn(s, r, st) ==
  LET c == IF st = "refused" THEN Append(r, Error) ELSE r
  IN  /\ \A i \in DOMAIN c :
           ApartIn(s, i) => c[i] = Parse(Spell(s[i])) /\ (c[i] = Error <=> i > Len(r))
      /\ ApartIn(s, Len(s)) => Len(c) <= Len(s) /\ (st = "read" => Len(c) = Len(s))

\* EachAlone, with its abbreviations expanded.
LEMMA AloneInIs ==
  ASSUME NEW s, Len(s) \in Nat, NEW T, NEW r \in Seq(T), NEW st
  PROVE  AloneIn(s, r, st) <=>
           /\ \A i \in DOMAIN r :
                ApartIn(s, i) => r[i] = Parse(Spell(s[i])) /\ Parse(Spell(s[i])) # Error
           /\ st = "refused" /\ ApartIn(s, Len(r) + 1) => Parse(Spell(s[Len(r) + 1])) = Error
           /\ ApartIn(s, Len(s)) =>
                /\ Len(r) <= Len(s)
                /\ st = "read" => Len(r) = Len(s)
                /\ st = "refused" => Len(r) < Len(s)
<1>1. PICK c : c = IF st = "refused" THEN Append(r, Error) ELSE r
  OBVIOUS
<1>2. Len(r) \in Nat /\ DOMAIN r = 1..Len(r)
  OBVIOUS
<1>3. /\ Len(r) + 1 \in 1..Len(r) + 1 /\ DOMAIN r \subseteq 1..Len(r) + 1
      /\ DOMAIN c \subseteq 1..Len(r) + 1
  <2>1. CASE st = "refused"
    <3>1. r \in Seq(T \cup {Error}) /\ Error \in T \cup {Error} /\ c = Append(r, Error)
      BY <1>1, <2>1
    <3>2. DOMAIN c = 1..Len(r) + 1
      BY <3>1
    <3> QED
      BY <1>2, <3>2
  <2>2. CASE st # "refused"
    BY <1>1, <1>2, <2>2
  <2> QED
    BY <2>1, <2>2
<1>4. PICK p : p = [i \in 1..Len(r) + 1 |-> Parse(Spell(s[i]))]
  OBVIOUS
<1>5. \A i \in 1..Len(r) + 1 : p[i] = Parse(Spell(s[i]))
  BY <1>4, Zenon
<1>6. PICK A : A = {i \in (1..Len(r) + 1) \cup {Len(s)} : ApartIn(s, i)}
  OBVIOUS
<1>7. /\ \A i \in 1..Len(r) + 1 : i \in A <=> ApartIn(s, i)
      /\ Len(s) \in A <=> ApartIn(s, Len(s))
  BY <1>6, Zenon
<1>8. AloneIn(s, r, st) <=>
        /\ \A i \in DOMAIN c : i \in A => c[i] = p[i] /\ (c[i] = Error <=> i > Len(r))
        /\ Len(s) \in A => Len(c) <= Len(s) /\ (st = "read" => Len(c) = Len(s))
  <2>1. AloneIn(s, r, st) <=>
          /\ \A i \in DOMAIN c :
               ApartIn(s, i) => c[i] = Parse(Spell(s[i])) /\ (c[i] = Error <=> i > Len(r))
          /\ ApartIn(s, Len(s)) => Len(c) <= Len(s) /\ (st = "read" => Len(c) = Len(s))
    BY <1>1, Zenon DEF AloneIn
  <2> QED
    BY <1>3, <1>5, <1>7, <2>1, Zenon
<1>9. (/\ \A i \in DOMAIN c : i \in A => c[i] = p[i] /\ (c[i] = Error <=> i > Len(r))
       /\ Len(s) \in A => Len(c) <= Len(s) /\ (st = "read" => Len(c) = Len(s)))
      <=>
      (/\ \A i \in DOMAIN r : i \in A => r[i] = p[i] /\ p[i] # Error
       /\ st = "refused" /\ Len(r) + 1 \in A => p[Len(r) + 1] = Error
       /\ Len(s) \in A =>
            /\ Len(r) <= Len(s)
            /\ st = "read" => Len(r) = Len(s)
            /\ st = "refused" => Len(r) < Len(s))
  <2>1. PICK n, e : n = Len(s) /\ e = Error
    OBVIOUS
  <2>2. n \in Nat /\ c = IF st = "refused" THEN Append(r, e) ELSE r
    BY <1>1, <2>1
  <2>3. (/\ \A i \in DOMAIN c : i \in A => c[i] = p[i] /\ (c[i] = e <=> i > Len(r))
         /\ n \in A => Len(c) <= n /\ (st = "read" => Len(c) = n))
        <=>
        (/\ \A i \in DOMAIN r : i \in A => r[i] = p[i] /\ p[i] # e
         /\ st = "refused" /\ Len(r) + 1 \in A => p[Len(r) + 1] = e
         /\ n \in A =>
              /\ Len(r) <= n
              /\ st = "read" => Len(r) = n
              /\ st = "refused" => Len(r) < n)
    BY ONLY <2>2, r \in Seq(T), CameIs
  <2> QED
    BY <2>1, <2>3, Zenon
<1> QED
  BY <1>3, <1>5, <1>7, <1>8, <1>9, Zenon

\* What it says of a state.
LEMMA EachAloneIs ==
  ASSUME Shape
  PROVE  EachAlone <=>
           /\ \A i \in DOMAIN read : Apart(i) => Sound(i)
           /\ status = "refused" /\ Apart(Len(read) + 1) => Parse(Spell(stmts[Len(read) + 1])) = Error
           /\ Apart(Len(stmts)) =>
                /\ Len(read) <= Len(stmts)
                /\ status = "read" => Len(read) = Len(stmts)
                /\ status = "refused" => Len(read) < Len(stmts)
<1>1. PICK T : read \in Seq(T)
  BY DEF Shape
<1>2. PICK s, r, st : s = stmts /\ r = read /\ st = status
  OBVIOUS
<1>3. Len(s) \in Nat /\ r \in Seq(T)
  BY <1>1, <1>2, ReadIs
<1>4. EachAlone <=> AloneIn(s, r, st)
  BY <1>2, Zenon DEF EachAlone, AloneIn, ApartIn
<1>5. \A n : Apart(n) <=> ApartIn(s, n)
  BY <1>2, Zenon DEF Apart, ApartIn
<1> QED
  BY <1>2, <1>3, <1>4, <1>5, AloneInIs, Zenon DEF Sound

\* And of the next state.
LEMMA EachAloneNext ==
  ASSUME Shape', stmts' = stmts,
         \A i \in DOMAIN read' :
           Apart(i) => read'[i] = Parse(Spell(stmts[i])) /\ Parse(Spell(stmts[i])) # Error,
         status' = "refused" /\ Apart(Len(read') + 1) => Parse(Spell(stmts[Len(read') + 1])) = Error,
         Apart(Len(stmts)) =>
           /\ Len(read') <= Len(stmts)
           /\ status' = "read" => Len(read') = Len(stmts)
           /\ status' = "refused" => Len(read') < Len(stmts)
  PROVE  EachAlone'
<1>1. PICK T : read' \in Seq(T)
  BY DEF Shape
<1>2. PICK s, r, st : s = stmts /\ r = read' /\ st = status'
  OBVIOUS
<1>3. Len(s) \in Nat /\ r \in Seq(T)
  <2>1. s \in Files
    BY <1>2 DEF Shape
  <2> QED
    BY <1>1, <1>2, <2>1, FilesAssumption
<1>4. \A n : Apart(n) <=> ApartIn(s, n)
  BY <1>2, Zenon DEF Apart, ApartIn
<1>5. AloneIn(s, r, st)
  BY <1>2, <1>3, <1>4, AloneInIs, Zenon
<1>6. stmts' = s /\ read' = r /\ status' = st
  BY <1>2
<1> QED
  BY <1>5, <1>6, Zenon DEF EachAlone, AloneIn, ApartIn

\* Fewer statements are self-contained where more are.
LEMMA ApartLess ==
  ASSUME NEW m \in Nat, NEW n \in Nat, n <= m, Apart(m), Len(stmts) \in Nat
  PROVE  Apart(n)
<1>1. m <= Len(stmts) /\ \A i \in 1..m : SelfContained(stmts[i])
  BY Zenon DEF Apart
<1>2. n <= Len(stmts) /\ \A i \in 1..n : SelfContained(stmts[i])
  BY <1>1
<1> QED
  BY <1>2, Zenon DEF Apart

\* At first, all the statements are still to be read.
LEMMA InitHolds == Init => IInv
<1> SUFFICES ASSUME Init PROVE IInv
  OBVIOUS
<1>1. stmts \in Files /\ text = UpSection(stmts) /\ read = << >> /\ status = "reading"
  BY DEF Init
<1>2. stmts \in Seq(Statement)
  BY <1>1, FilesAssumption
<1>3. Len(read) = 0 /\ DOMAIN read = {} /\ Len(stmts) \in Nat
  BY <1>1, <1>2
<1>4. LeftOver = stmts
  BY <1>2, <1>3 DEF LeftOver
<1>5. read \in Seq(Nat)
  BY <1>1, EmptySeq
<1>6. TextIsRest
  BY <1>1, <1>4 DEF TextIsRest
<1>8. Shape
  BY <1>1, <1>5 DEF Shape
<1>7. EachAlone
  BY <1>1, <1>3, <1>8, EachAloneIs
<1> QED
  BY <1>6, <1>7, <1>8 DEF IInv

\* What is left begins with the first statement that is still to be read.
LEMMA LeftOverIs ==
  ASSUME stmts \in Seq(Statement), NEW n \in Nat, n < Len(stmts),
         NEW f, f = SubSeq(stmts, n + 1, Len(stmts))
  PROVE  /\ f \in Seq(Statement) /\ f # << >> /\ f[1] = stmts[n + 1]
         /\ Tail(f) = SubSeq(stmts, (n + 1) + 1, Len(stmts))
<1>1. PICK m, s : m = Len(stmts) /\ s = stmts
  OBVIOUS
<1>2. s \in Seq(Statement) /\ m = Len(s) /\ m \in Nat /\ n + 1 <= m
  BY <1>1
<1>3. f = SubSeq(s, n + 1, m)
  BY <1>1
<1>4. f \in Seq(Statement) /\ Len(f) = m - n /\ \A i \in 1..m - n : f[i] = s[n + i]
  BY ONLY <1>2, <1>3, n \in Nat
<1>5. f # << >> /\ f[1] = s[n + 1]
  BY <1>2, <1>4, EmptySeq
<1>6. PICK t, u : t = Tail(f) /\ u = SubSeq(s, (n + 1) + 1, m)
  OBVIOUS
<1>7. t \in Seq(Statement) /\ Len(t) = m - n - 1 /\ \A i \in 1..m - n - 1 : t[i] = s[(n + 1) + i]
  <2>1. t \in Seq(Statement) /\ Len(t) = m - n - 1 /\ \A i \in 1..m - n - 1 : t[i] = f[i + 1]
    <3>1. t = Tail(f)
      BY <1>6
    <3>2. t \in Seq(Statement) /\ Len(t) = Len(f) - 1 /\ \A i \in 1..Len(f) - 1 : t[i] = f[i + 1]
      BY <1>4, <1>5, <3>1, TailIs
    <3> QED
      BY <1>4, <3>2
  <2>2. ASSUME NEW i \in 1..m - n - 1 PROVE f[i + 1] = s[(n + 1) + i]
    <3>1. i + 1 \in 1..m - n /\ n + (i + 1) = (n + 1) + i
      BY <1>2
    <3> QED
      BY <1>4, <3>1
  <2> QED
    BY <2>1, <2>2
<1>8. /\ u \in Seq(Statement) /\ Len(u) = m - n - 1
      /\ \A i \in 1..m - n - 1 : u[i] = s[(n + 1) + i]
  BY ONLY <1>2, <1>6, n \in Nat
<1>9. t = u
  BY <1>7, <1>8, SeqEqual
<1> QED
  BY <1>1, <1>4, <1>5, <1>6, <1>9

\* Where all was read nothing is left, and where something is left there is text.
LEMMA NothingLeft ==
  ASSUME IInv, status = "reading", Apart(Len(read))
  PROVE  /\ stmts \in Seq(Statement) /\ Len(read) \in Nat /\ Len(read) <= Len(stmts)
         /\ text = << >> <=> Len(read) = Len(stmts)
<1>1. stmts \in Seq(Statement) /\ Len(read) \in Nat /\ Len(read) <= Len(stmts)
  BY ReadIs DEF IInv, Apart
<1>2. text \in {UpSection(LeftOver), Rest(LeftOver)}
  BY DEF IInv, TextIsRest
<1>3. CASE Len(read) = Len(stmts)
  <2>1. LeftOver = << >>
    BY <1>1, <1>3 DEF LeftOver
  <2>2. << >> \in Seq(Statement)
    BY EmptySeq
  <2>3. text = << >>
    <3>1. UpSection(<< >>) = << >> /\ Rest(<< >>) = << >>
      BY <2>2, UpShape, Zenon
    <3> QED
      BY <1>2, <2>1, <3>1
  <2> QED
    BY <1>1, <1>3, <2>3
<1>4. CASE Len(read) < Len(stmts)
  <2>1. LeftOver \in Seq(Statement) /\ LeftOver # << >>
    BY <1>1, <1>4, LeftOverIs DEF LeftOver
  <2>2. /\ UpSection(LeftOver) = Rest(LeftOver) \o Space /\ Rest(LeftOver) # << >>
        /\ Rest(LeftOver) \in Seq(Symbol)
    BY <2>1, UpShape DEF Trimmed
  <2>3. PICK b, c : b = Rest(LeftOver) /\ c = b \o Space
    OBVIOUS
  <2>4. c # << >>
    <3>1. b \in Seq(Symbol) /\ c = b \o Space
      BY <2>2, <2>3
    <3>2. Len(c) = Len(b) + 1 /\ Len(b) \in Nat
      BY ONLY <3>1, SpaceEnds
    <3> QED
      BY <3>2, EmptySeq
  <2>5. text # << >>
    BY <1>2, <2>2, <2>3, <2>4
  <2> QED
    BY <1>1, <1>4, <2>5
<1>5. Len(read) = Len(stmts) \/ Len(read) < Len(stmts)
  BY <1>1
<1> QED
  BY <1>3, <1>4, <1>5

\* The text begins with the next statement.
LEMMA TextBegins ==
  ASSUME IInv, status = "reading", text # << >>, Apart(Len(read))
  PROVE  /\ stmts[Len(read) + 1] \in Statement /\ Len(read) < Len(stmts)
         /\ \E r \in Seq(Symbol) :
              /\ text = Spell(stmts[Len(read) + 1]) \o <<Semi>> \o r
              /\ TrimSpace(r) = Rest(SubSeq(stmts, (Len(read) + 1) + 1, Len(stmts)))
<1>1. /\ stmts \in Seq(Statement) /\ Len(read) \in Nat /\ Len(read) < Len(stmts)
  BY NothingLeft
<1>2. PICK n, f, v : n = Len(read) /\ f = LeftOver /\ v = stmts[n + 1]
  OBVIOUS
<1>3. /\ f \in Seq(Statement) /\ f # << >> /\ f[1] = v
      /\ Tail(f) = SubSeq(stmts, (n + 1) + 1, Len(stmts))
  BY <1>1, <1>2, LeftOverIs DEF LeftOver
<1>4. v \in Statement
  BY <1>1, <1>2
<1>5. text \in {UpSection(f), Rest(f)}
  BY <1>2 DEF IInv, TextIsRest
<1>6. PICK r \in Seq(Symbol) : text = Spell(v) \o <<Semi>> \o r /\ TrimSpace(r) = Rest(Tail(f))
  BY <1>3, <1>5, RestBegins
<1> QED
  BY <1>1, <1>2, <1>3, <1>4, <1>6

\* The text begins with a word, so what is cut off is not empty.
LEMMA CutIsSome ==
  ASSUME IInv, status = "reading", text # << >>, Apart(Len(read))
  PROVE  SubSeq(text, 1, StatementEnd - 1) # << >>
<1>1. PICK r \in Seq(Symbol) :
        /\ text = Spell(stmts[Len(read) + 1]) \o <<Semi>> \o r /\ stmts[Len(read) + 1] \in Statement
  BY TextBegins
<1>2. PICK s, t, e, k, y : /\ s = Spell(stmts[Len(read) + 1]) /\ t = text /\ e = StatementEnd
                           /\ k = Len(s) /\ y = <<Semi>>
  OBVIOUS
<1>3. s \in Seq(Symbol) /\ s # << >> /\ s[1] # Semi
  BY <1>1, <1>2, SpellIs
<1>4. k \in Nat /\ k >= 1 /\ y \in Seq(Symbol) /\ Len(y) = 1 /\ y[1] = Semi
  BY <1>2, <1>3, TextsAre
<1>5. t = (s \o y) \o r
  BY <1>1, <1>2
<1>6. t \in Seq(Symbol) /\ Len(t) \in Nat /\ Len(t) >= k + 1 /\ t[1] = s[1] /\ t[k + 1] = Semi
  BY <1>2, <1>3, <1>4, <1>5
<1>7. PICK m, ends : /\ m = {i \in DOMAIN t : t[i] = Semi}
                     /\ ends = (m \cap Outside(t)) \cup {Max(m)}
  OBVIOUS
<1>8. m \in SUBSET (1..Len(t)) /\ k + 1 \in m
  BY <1>4, <1>6, <1>7
<1>9. Max(m) \in m
  BY <1>6, <1>8, GreatestExists
<1>10. ends \subseteq m /\ ends # {} /\ ends \subseteq Nat
  <2>1. \A i \in ends : i \in m
    BY <1>7, <1>9, Zenon
  <2>2. Max(m) \in ends
    BY <1>7, Zenon
  <2>3. \A i \in m : i \in 1..Len(t)
    BY <1>8
  <2> QED
    BY <2>1, <2>2, <2>3
<1>11. e = Min(ends)
  BY <1>2, <1>7, Zenon DEF StatementEnd, Semicolons, Semi
<1>12. e \in m
  BY <1>10, <1>11, LeastIsIn
<1>13. e \in 1..Len(t) /\ t[e] = Semi
  BY <1>7, <1>8, <1>12
<1>14. e # 1
  BY <1>3, <1>6, <1>13
<1>15. Len(SubSeq(t, 1, e - 1)) = e - 1 /\ e - 1 >= 1
  BY <1>6, <1>13, <1>14
<1>16. SubSeq(t, 1, e - 1) # << >>
  <2>1. PICK a : a = SubSeq(t, 1, e - 1)
    OBVIOUS
  <2>2. Len(a) >= 1 /\ Len(a) # 0
    BY <1>13, <1>15, <2>1
  <2>3. Len(<< >>) = 0
    OBVIOUS
  <2> QED
    BY <2>1, <2>2, <2>3, Zenon
<1> QED
  BY <1>2, <1>16

\* A statement is cut off where the generator ended it.
LEMMA CutIs ==
  ASSUME IInv, status = "reading", text # << >>, Apart(Len(read) + 1)
  PROVE  /\ stmts[Len(read) + 1] \in Statement /\ Len(read) < Len(stmts)
         /\ SubSeq(text, 1, StatementEnd - 1) = Spell(stmts[Len(read) + 1])
         /\ TrimSpace(From(text, StatementEnd + 1))
              = Rest(SubSeq(stmts, (Len(read) + 1) + 1, Len(stmts)))
<1>0. Len(stmts) \in Nat /\ Len(read) \in Nat
  BY ReadIs DEF IInv
<1>1. /\ Apart(Len(read)) /\ SelfContained(stmts[Len(read) + 1])
  <2>1. Len(read) + 1 \in Nat /\ Len(read) <= Len(read) + 1 /\ Len(read) + 1 \in 1..Len(read) + 1
    BY <1>0
  <2>2. Apart(Len(read))
    BY <1>0, <2>1, ApartLess
  <2> QED
    BY <2>1, <2>2, Zenon DEF Apart
<1>2. PICK n, v : n = Len(read) /\ v = stmts[n + 1]
  OBVIOUS
<1>4. v \in Statement /\ n < Len(stmts)
  BY <1>1, <1>2, TextBegins
<1>6. PICK r \in Seq(Symbol) : /\ text = Spell(v) \o <<Semi>> \o r
                              /\ TrimSpace(r) = Rest(SubSeq(stmts, (n + 1) + 1, Len(stmts)))
  BY <1>1, <1>2, TextBegins
<1>7. PICK s, t, e, k : s = Spell(v) /\ t = text /\ e = StatementEnd /\ k = Len(s)
  OBVIOUS
<1>8. s \in Closed /\ s \in Seq(Symbol) /\ k \in Nat
  <2>1. s \in Seq(Symbol)
    BY <1>4, <1>7, SpellIs
  <2>2. Closes(s)
    BY <1>1, <1>2, <1>7, Zenon DEF SelfContained
  <2> QED
    BY <1>7, <2>1, <2>2 DEF Closed
<1>9. t = s \o <<Semi>> \o r
  BY <1>6, <1>7
<1>10. /\ t \in Seq(Symbol) /\ Len(t) = k + 1 + Len(r)
       /\ \A m : m = {i \in DOMAIN t : t[i] = Semi} => Min((m \cap Outside(t)) \cup {Max(m)}) = k + 1
  BY <1>7, <1>8, <1>9, FirstSemicolon
<1>11. e = k + 1
  <2>1. PICK m : m = {i \in DOMAIN t : t[i] = Semi}
    OBVIOUS
  <2>2. e = Min((m \cap Outside(t)) \cup {Max(m)})
    BY <1>7, <2>1, Zenon DEF StatementEnd, Semicolons, Semi
  <2> QED
    BY <1>10, <2>1, <2>2
<1>12. PICK y : y = <<Semi>>
  OBVIOUS
<1>13. y \in Seq(Symbol) /\ Len(y) = 1
  BY <1>12, TextsAre
<1>14. t = s \o y \o r
  BY <1>9, <1>12
<1>15. SubSeq(t, 1, e - 1) = s
  <2>1. PICK a : a = SubSeq(t, 1, k)
    OBVIOUS
  <2>2. /\ Len(t) = k + 1 + Len(r) /\ Len(r) \in Nat /\ r \in Seq(Symbol)
        /\ \A i \in 1..k : t[i] = s[i]
    BY <1>7, <1>8, <1>10, <1>13, <1>14
  <2>3. a \in Seq(Symbol) /\ Len(a) = k /\ \A i \in 1..k : a[i] = t[i]
    BY <1>8, <1>10, <2>1, <2>2
  <2>4. a = s
    BY <1>7, <1>8, <2>2, <2>3, SeqEqual
  <2>5. e - 1 = k
    BY <1>8, <1>11
  <2> QED
    BY <2>1, <2>4, <2>5
<1>16. From(t, e + 1) = r
  <2>1. PICK a, m : a = SubSeq(t, k + 2, Len(t)) /\ m = Len(r)
    OBVIOUS
  <2>2. m \in Nat /\ Len(t) = k + 1 + m /\ \A i \in 1..m : t[k + 1 + i] = r[i]
    <3>1. k = Len(s) /\ r \in Seq(Symbol)
      BY <1>7
    <3> QED
      <4>1. /\ Len((s \o y) \o r) = Len(s) + 1 + Len(r) /\ Len(r) \in Nat
            /\ \A i \in 1..Len(r) : ((s \o y) \o r)[Len(s) + 1 + i] = r[i]
        <5>1. s \in Seq(Symbol) /\ y \in Seq(Symbol) /\ r \in Seq(Symbol) /\ Len(y) = 1
          BY <1>8, <1>13, <3>1
        <5> QED
          BY ONLY <5>1, BehindIs
      <4> QED
        BY <1>14, <2>1, <3>1, <4>1
  <2>3. a \in Seq(Symbol) /\ Len(a) = m /\ \A i \in 1..m : a[i] = t[k + 1 + i]
    BY <1>8, <1>10, <2>1, <2>2
  <2>4. a = r
    BY <2>1, <2>2, <2>3, SeqEqual
  <2>5. e + 1 = k + 2
    BY <1>8, <1>11
  <2> QED
    BY <2>1, <2>4, <2>5 DEF From
<1>17. /\ SubSeq(text, 1, StatementEnd - 1) = Spell(v)
       /\ TrimSpace(From(text, StatementEnd + 1)) = Rest(SubSeq(stmts, (n + 1) + 1, Len(stmts)))
  BY <1>6, <1>7, <1>15, <1>16
<1> QED
  BY <1>2, <1>4, <1>17

\* Reading a statement, or the end of the file.
LEMMA NextHolds == IInv /\ [Next]_vars => IInv'
<1> SUFFICES ASSUME IInv, [Next]_vars PROVE IInv'
  OBVIOUS
<1>0. PICK n, l : n = Len(read) /\ l = Len(stmts)
  OBVIOUS
<1>a. /\ stmts \in Files /\ n \in Nat /\ l \in Nat /\ DOMAIN read = 1..n
      /\ \A i \in DOMAIN read : Apart(i) => Sound(i)
      /\ Apart(l) => n <= l
  BY <1>0, ReadIs, EachAloneIs DEF IInv
<1>1. CASE ReadStatement
  <2>1. status = "reading" /\ text # << >> /\ stmts' = stmts
    BY <1>1 DEF ReadStatement
  <2>2. PICK sql, u : sql = SubSeq(text, 1, StatementEnd - 1) /\ u = Parse(sql)
    OBVIOUS
  <2>3. /\ text' = TrimSpace(From(text, StatementEnd + 1))
        /\ \/ sql = << >> /\ status' = status /\ read' = read
           \/ sql # << >> /\ u = Error /\ status' = "refused" /\ read' = read
           \/ sql # << >> /\ u # Error /\ read' = Append(read, u) /\ status' = status
    <3>1. text' = TrimSpace(From(text, StatementEnd + 1))
      BY <1>1, Zenon DEF ReadStatement
    <3>2. CASE sql = << >>
      BY <1>1, <2>2, <3>2, Zenon DEF ReadStatement
    <3>3. CASE sql # << >> /\ u = Error
      BY <1>1, <2>2, <3>3, Zenon DEF ReadStatement
    <3>4. CASE sql # << >> /\ u # Error
      BY <1>1, <2>2, <3>4, Zenon DEF ReadStatement
    <3> QED
      BY <3>1, <3>2, <3>3, <3>4
  <2>5. PICK T : read \in Seq(T)
    BY DEF IInv, Shape
  <2>6. ASSUME read' = Append(read, u)
        PROVE  /\ read' \in Seq(T \cup {u}) /\ Len(read') = n + 1 /\ DOMAIN read' = 1..n + 1
               /\ read'[n + 1] = u /\ \A i \in 1..n : read'[i] = read[i]
    <3>1. read \in Seq(T \cup {u})
      <4>1. T \subseteq T \cup {u}
        OBVIOUS
      <4> QED
        BY <2>5, <4>1, SeqMonotonic, Zenon
    <3> QED
      BY <1>0, <2>6, <3>1
  <2>7. Shape'
    <3>1. status' \in {"reading", "read", "refused"} /\ stmts' \in Files
      BY <1>a, <2>1, <2>3
    <3>2. \E U : read' \in Seq(U)
      BY <2>3, <2>5, <2>6
    <3> QED
      BY <3>1, <3>2 DEF Shape
  <2>8. CASE Apart(n + 1)
    <3>1. PICK v : v = stmts[n + 1]
      OBVIOUS
    <3>2. /\ v \in Statement /\ n < l /\ sql = Spell(v)
          /\ text' = Rest(SubSeq(stmts, (n + 1) + 1, Len(stmts)))
      BY <1>0, <2>1, <2>2, <2>3, <2>8, <3>1, CutIs
    <3>3. sql # << >>
      BY <3>2, SpellIs
    <3>4. CASE u = Error
      <4>1. status' = "refused" /\ read' = read
        BY <2>3, <3>3, <3>4
      <4>2. \A i \in DOMAIN read' :
              Apart(i) => read'[i] = Parse(Spell(stmts[i])) /\ Parse(Spell(stmts[i])) # Error
        BY <1>a, <4>1, Zenon DEF Sound
      <4>3. Parse(Spell(stmts[n + 1])) = Error
        BY <2>2, <3>1, <3>2, <3>4
      <4>4. Len(read') = n /\ n <= l /\ n < l /\ status' # "read"
        BY <1>0, <1>a, <3>2, <4>1
      <4>6. EachAlone'
        BY <1>0, <2>1, <4>2, <4>3, <4>4, <2>7, EachAloneNext, Zenon
      <4>5. TextIsRest'
        BY <4>1 DEF TextIsRest
      <4> QED
        BY <2>7, <4>5, <4>6 DEF IInv
    <3>5. CASE u # Error
      <4>1. read' = Append(read, u) /\ status' = "reading"
        BY <2>1, <2>3, <3>3, <3>5
      <4>2. /\ Len(read') = n + 1 /\ DOMAIN read' = 1..n + 1
            /\ read'[n + 1] = u /\ \A i \in 1..n : read'[i] = read[i]
        BY <2>6, <4>1
      <4>3. ASSUME NEW i \in DOMAIN read', Apart(i)
            PROVE  read'[i] = Parse(Spell(stmts[i])) /\ Parse(Spell(stmts[i])) # Error
        <5>1. CASE i \in 1..n
          BY <1>a, <4>2, <4>3, <5>1 DEF Sound
        <5>2. CASE i = n + 1
          BY <2>2, <3>1, <3>2, <3>5, <4>2, <5>2
        <5>3. i \in 1..n \/ i = n + 1
          BY <1>a, <4>2
        <5> QED
          BY <5>1, <5>2, <5>3
      <4>4. Len(read') <= Len(stmts) /\ status' # "read" /\ status' # "refused"
        BY <1>0, <1>a, <3>2, <4>1, <4>2
      <4>5. EachAlone'
        BY <2>1, <4>3, <4>4, <2>7, EachAloneNext, Zenon
      <4>6. TextIsRest'
        <5>1. LeftOver' = SubSeq(stmts, (n + 1) + 1, Len(stmts))
          BY <2>1, <4>2 DEF LeftOver
        <5>2. text' = Rest(LeftOver')
          BY <3>2, <5>1
        <5>3. \A f : Rest(f)' = Rest(f)
          OBVIOUS
        <5> QED
          BY <5>2 DEF TextIsRest, Rest
      <4> QED
        BY <2>7, <4>5, <4>6 DEF IInv
    <3> QED
      BY <3>4, <3>5
  <2>9. CASE ~Apart(n + 1)
    <3>1. ~Apart(l)
      <4> SUFFICES ASSUME Apart(l) PROVE FALSE
        OBVIOUS
      <4>1. n <= l
        BY <1>a
      <4>2. Apart(n)
        BY <1>0, <1>a, <4>1, ApartLess
      <4>3. n # l
        BY <1>0, <2>1, <4>2, NothingLeft
      <4>4. n + 1 \in Nat /\ n + 1 <= l
        BY <1>a, <4>1, <4>3
      <4>5. Apart(n + 1)
        BY <1>0, <1>a, <4>4, ApartLess
      <4> QED
        BY <2>9, <4>5
    <3>2. ASSUME Apart(n) PROVE sql # << >>
      BY <1>0, <2>1, <2>2, <3>2, CutIsSome
    <3>3. CASE read' = read
      <4>1. \A i \in DOMAIN read' :
              Apart(i) => read'[i] = Parse(Spell(stmts[i])) /\ Parse(Spell(stmts[i])) # Error
        BY <1>a, <3>3, Zenon DEF Sound
      <4>2. ~Apart(Len(read') + 1) /\ ~Apart(Len(stmts))
        BY <1>0, <2>9, <3>1, <3>3
      <4>3. EachAlone'
        BY <2>1, <4>1, <4>2, <2>7, EachAloneNext, Zenon
      <4>4. TextIsRest'
        <5>1. Len(read') = n
          BY <1>0, <3>3
        <5>2. Apart(Len(read))' => Apart(n)
          BY <2>1, <5>1 DEF Apart
        <5>3. Apart(n) => status' = "refused"
          <6>1. PICK m : m = n + 1
            OBVIOUS
          <6>2. read' # Append(read, u)
            BY <1>0, <1>a, <2>6, <5>1
          <6> QED
            BY <2>3, <3>2, <6>2
        <5> QED
          BY <5>2, <5>3 DEF TextIsRest
      <4> QED
        BY <2>7, <4>3, <4>4 DEF IInv
    <3>4. CASE read' = Append(read, u)
      <4>1. /\ Len(read') = n + 1 /\ DOMAIN read' = 1..n + 1 /\ \A i \in 1..n : read'[i] = read[i]
        BY <2>6, <3>4
      <4>2. ASSUME NEW i \in DOMAIN read', Apart(i)
            PROVE  read'[i] = Parse(Spell(stmts[i])) /\ Parse(Spell(stmts[i])) # Error
        <5>1. i # n + 1
          BY <2>9, <4>2
        <5>2. i \in 1..n
          BY <1>a, <4>1, <5>1
        <5> QED
          BY <1>a, <4>1, <4>2, <5>2 DEF Sound
      <4>3. status' # "refused"
        <5>1. read' # read
          BY <1>0, <1>a, <4>1
        <5> QED
          BY <2>1, <2>3, <5>1
      <4>4. ~Apart(Len(stmts)) /\ ~Apart(n + 1)
        BY <1>0, <2>9, <3>1
      <4>5. EachAlone'
        BY <2>1, <4>2, <4>3, <4>4, <2>7, EachAloneNext, Zenon
      <4>6. TextIsRest'
        <5>1. Apart(Len(read))' => Apart(n + 1)
          BY <2>1, <4>1 DEF Apart
        <5> QED
          BY <4>4, <5>1 DEF TextIsRest
      <4> QED
        BY <2>7, <4>5, <4>6 DEF IInv
    <3> QED
      BY <2>3, <3>3, <3>4
  <2> QED
    BY <2>8, <2>9
<1>2. CASE ReadEnd
  <2>1. /\ status = "reading" /\ text = << >> /\ status' = "read"
        /\ stmts' = stmts /\ text' = text /\ read' = read
    BY <1>2 DEF ReadEnd
  <2>3. ASSUME Apart(l) PROVE n = l
    <3>1. n <= l
      BY <1>a, <2>3
    <3>2. Apart(n)
      BY <1>0, <1>a, <2>3, <3>1, ApartLess
    <3> QED
      BY <1>0, <2>1, <3>2, NothingLeft
  <2>4. \A i \in DOMAIN read' :
          Apart(i) => read'[i] = Parse(Spell(stmts[i])) /\ Parse(Spell(stmts[i])) # Error
    BY <1>a, <2>1, Zenon DEF Sound
  <2>5. Apart(Len(stmts)) => Len(read') = Len(stmts) /\ Len(read') <= Len(stmts)
    BY <1>0, <1>a, <2>1, <2>3
  <2>9. status' # "refused"
    BY <2>1
  <2>7. Shape'
    BY <2>1 DEF IInv, Shape
  <2>6. EachAlone'
    BY <2>1, <2>4, <2>5, <2>9, <2>7, EachAloneNext, Zenon
  <2>8. TextIsRest'
    BY <2>1 DEF TextIsRest
  <2> QED
    BY <2>6, <2>7, <2>8 DEF IInv
<1>3. CASE UNCHANGED vars
  <2>1. stmts' = stmts /\ text' = text /\ read' = read /\ status' = status
    BY <1>3 DEF vars
  <2>2. EachAlone'
    BY <2>1 DEF IInv, EachAlone
  <2>3. Shape'
    BY <2>1 DEF IInv, Shape
  <2>4. LeftOver' = LeftOver
    BY <2>1 DEF LeftOver
  <2>5. TextIsRest'
    BY <2>1, <2>4 DEF IInv, TextIsRest, Apart
  <2> QED
    BY <2>2, <2>3, <2>5 DEF IInv
<1> QED
  BY <1>1, <1>2, <1>3 DEF Next

\* The invariant holds in every state.
LEMMA Invariance == Spec => []IInv
BY InitHolds, NextHolds, PTL DEF Spec

\* A file of any length whose statements are self-contained is read statement by statement, each
\* as it is alone, and refused at the first that is an error alone (loader.go:147).
THEOREM EachAloneHolds == Spec => []EachAlone
<1>1. IInv => EachAlone
  BY DEF IInv
<1> QED
  BY <1>1, Invariance, PTL
-----------------------------------------------------------------------------
(***************************************************************************)
(* Statements made of keywords, names, labels and lists of names: each is  *)
(* a token, whatever words it holds, and the parser finds them again.      *)
(***************************************************************************)
(***************************************************************************)
(* The tokens of a text, symbol by symbol.                                 *)
(***************************************************************************)
\* Where the tokenizer is after a text.
State(t) == (CHOOSE g : IsTokenFold(g, t, DOMAIN t))[DOMAIN t]

\* It goes through the text in its order.
LEMMA StateRun ==
  ASSUME NEW T, NEW t \in Seq(T)
  PROVE  \E f : /\ f[0] = NoToken
                /\ \A i \in 1..Len(t) : f[i] = TokenStep(f[i - 1], t[i])
                /\ State(t) = f[Len(t)]
<1>1. PICK g : g = CHOOSE x : IsTokenFold(x, t, DOMAIN t)
  OBVIOUS
<1>2. PICK k : k = Kind("tokens", << >>)
  OBVIOUS
<1>3. \A x, D : IsFold(k, x, t, D) <=> IsTokenFold(x, t, D)
  BY <1>2, Zenon DEF IsFold, IsTokenFold, FoldBase, FoldStep, Kind
<1>4. DOMAIN t = 1..Len(t) /\ Len(t) \in Nat
  OBVIOUS
<1>5. IsTokenFold(g, t, DOMAIN t)
  BY <1>1, <1>3, <1>4, FoldExists, Zenon
<1>6. PICK f : IsRun(k, f, t) /\ g[DOMAIN t] = f[Len(t)]
  BY <1>3, <1>5, FoldRuns
<1> QED
  BY <1>1, <1>2, <1>6, Zenon DEF IsRun, FoldBase, FoldStep, Kind, State

\* What is left at the end is a token too.
LEMMA TokensAre == \A t : tokenize(t) = Flush(State(t)).tokens
BY TokensAreFold, Zenon DEF State

\* One symbol more.
LEMMA StateAppend ==
  ASSUME NEW T, NEW t \in Seq(T), NEW x \in T
  PROVE  State(Append(t, x)) = TokenStep(State(t), x)
<1>1. PICK u, n : u = Append(t, x) /\ n = Len(t)
  OBVIOUS
<1>2. /\ u \in Seq(T) /\ Len(u) = n + 1 /\ u[n + 1] = x /\ n \in Nat
      /\ \A i \in 1..n : u[i] = t[i]
  BY <1>1
<1>3. PICK f : /\ f[0] = NoToken
               /\ \A i \in 1..n : f[i] = TokenStep(f[i - 1], t[i])
               /\ State(t) = f[n]
  BY <1>1, StateRun
<1>4. PICK h : /\ h[0] = NoToken
               /\ \A i \in 1..n + 1 : h[i] = TokenStep(h[i - 1], u[i])
               /\ State(u) = h[n + 1]
  BY <1>2, StateRun
<1> DEFINE S == {i \in Nat : i <= n => f[i] = h[i]}
<1>5. 0 \in S
  BY <1>3, <1>4
<1>6. ASSUME NEW i \in Nat, i \in S PROVE i + 1 \in S
  <2> SUFFICES ASSUME i + 1 <= n PROVE f[i + 1] = h[i + 1]
    OBVIOUS
  <2>1. i + 1 \in 1..n /\ i + 1 \in 1..n + 1 /\ (i + 1) - 1 = i /\ f[i] = h[i]
    BY <1>2, <1>6
  <2> QED
    BY <1>2, <1>3, <1>4, <2>1
<1>7. n \in S
  BY <1>2, <1>5, <1>6, SetInduction
<1>8. f[n] = h[n]
  BY <1>2, <1>7
<1>9. n + 1 \in 1..n + 1 /\ (n + 1) - 1 = n
  BY <1>2
<1>10. h[n + 1] = TokenStep(h[n], x)
  BY <1>2, <1>4, <1>9
<1> QED
  BY <1>1, <1>3, <1>4, <1>8, <1>10

\* Before the first symbol there is no token.
LEMMA StateEmpty == State(<< >>) = NoToken
<1>1. << >> \in Seq(Symbol) /\ Len(<< >>) = 0
  OBVIOUS
<1> QED
  BY <1>1, StateRun

\* A symbol at the end of the second of two texts.
LEMMA AppendAfter ==
  ASSUME NEW T, NEW a \in Seq(T), NEW p \in Seq(T), NEW x \in T
  PROVE  a \o Append(p, x) = Append(a \o p, x) /\ a \o p \in Seq(T)
OBVIOUS

\* Between the symbols: the tokens so far, the one at hand, and the parentheses open.
At(tokens, current, quote, depth) ==
  [tokens |-> tokens, current |-> current, quote |-> quote, depth |-> depth]

\* Symbols that only add to the current token.
LEMMA PutRun ==
  ASSUME NEW t \in Seq(Symbol), NEW w \in Seq(Symbol), NEW c \in Seq(Symbol), NEW ts, NEW q, NEW d,
         State(t) = At(ts, c, q, d),
         \A i \in 1..Len(w) : \A e : TokenStep(At(ts, e, q, d), w[i]) = At(ts, Append(e, w[i]), q, d)
  PROVE  State(t \o w) = At(ts, c \o w, q, d)
<1>1. PICK n : n = Len(w)
  OBVIOUS
<1> DEFINE Pre(i) == SubSeq(w, 1, i)
           Good(i) == State(t \o Pre(i)) = At(ts, c \o Pre(i), q, d)
           S == {i \in Nat : i <= n => Good(i)}
<1>2. n \in Nat
  BY <1>1
<1>3. \A i \in Nat : i <= n => Pre(i) \in Seq(Symbol) /\ Len(Pre(i)) = i
  BY <1>1, <1>2
<1> HIDE DEF Good
<1>4. 0 \in S
  <2>1. Pre(0) = << >>
    BY <1>1
  <2>2. t \o << >> = t /\ c \o << >> = c
    OBVIOUS
  <2> QED
    BY <2>1, <2>2 DEF Good
<1>5. ASSUME NEW i \in Nat, i \in S PROVE i + 1 \in S
  <2> SUFFICES ASSUME i + 1 <= n PROVE Good(i + 1)
    OBVIOUS
  <2>1. i <= n /\ i + 1 \in 1..n
    BY <1>2
  <2>2. Good(i)
    BY <1>5, <2>1
  <2>3. PICK p, x : p = Pre(i) /\ x = w[i + 1]
    OBVIOUS
  <2>4. p \in Seq(Symbol) /\ x \in Symbol
    BY <1>1, <1>3, <2>1, <2>3
  <2>5. Pre(i + 1) = Append(p, x)
    <3>1. Pre(i + 1) \in Seq(Symbol) /\ Len(Pre(i + 1)) = i + 1 /\ \A k \in 1..i + 1 : Pre(i + 1)[k] = w[k]
      BY <1>1, <1>3, <2>1
    <3>2. p \in Seq(Symbol) /\ Len(p) = i /\ \A k \in 1..i : p[k] = w[k]
      BY <1>1, <1>3, <2>1, <2>3
    <3>3. PICK u : u = Append(p, x)
      OBVIOUS
    <3>4. u \in Seq(Symbol) /\ Len(u) = i + 1 /\ u[i + 1] = x /\ \A k \in 1..i : u[k] = p[k]
      BY <2>4, <3>2, <3>3
    <3>5. \A k \in 1..i + 1 : u[k] = w[k]
      BY <2>3, <3>2, <3>4
    <3> QED
      BY <3>1, <3>3, <3>4, <3>5, SeqEqual
  <2>6. t \o Append(p, x) = Append(t \o p, x) /\ c \o Append(p, x) = Append(c \o p, x)
        /\ t \o p \in Seq(Symbol)
    BY ONLY <2>4, t \in Seq(Symbol), c \in Seq(Symbol), AppendAfter
  <2>7. PICK st, e : st = State(t \o p) /\ e = c \o p
    OBVIOUS
  <2>8. st = At(ts, e, q, d)
    BY <2>2, <2>3, <2>7 DEF Good
  <2>9. State(Append(t \o p, x)) = TokenStep(st, x)
    BY <2>4, <2>6, <2>7, StateAppend
  <2>10. TokenStep(st, x) = At(ts, Append(e, x), q, d)
    BY <1>1, <2>1, <2>3, <2>8
  <2>11. TokenStep(st, x) = At(ts, c \o Append(p, x), q, d)
    BY <2>6, <2>7, <2>10
  <2> QED
    BY <2>5, <2>6, <2>7, <2>9, <2>11 DEF Good
<1>6. n \in S
  BY <1>2, <1>4, <1>5, SetInduction
<1>7. Good(n)
  BY <1>2, <1>6
<1>8. Pre(n) = w
  BY <1>1
<1> QED
  BY <1>7, <1>8 DEF Good

\* A symbol that is put down as it is.
LEMMA PlainStep ==
  ASSUME NEW ts, NEW c, NEW d, NEW x,
         x \notin Quotes \cup {Left, Right}, x \in {Blank, Comma} => d # 0
  PROVE  TokenStep(At(ts, c, None, d), x) = At(ts, Append(c, x), None, d)
<1>1. CASE x \notin {Blank, Comma}
  BY <1>1 DEF TokenStep, At, Put
<1>2. CASE x \in {Blank, Comma}
  BY <1>2 DEF TokenStep, At, Put
<1> QED
  BY <1>1, <1>2

\* In quotes every symbol is put down, and only the same quote ends them.
LEMMA QuoteSteps ==
  ASSUME NEW ts, NEW c, NEW d, NEW x, NEW q \in Quotes
  PROVE  /\ x # q => TokenStep(At(ts, c, q, d), x) = At(ts, Append(c, x), q, d)
         /\ TokenStep(At(ts, c, None, d), q) = At(ts, Append(c, q), q, d)
         /\ TokenStep(At(ts, c, q, d), q) = At(ts, Append(c, q), None, d)
<1>1. q # None /\ \A y \in {Blank, Comma, Left, Right} : y \notin Quotes
  BY SymbolsDiffer
<1>2. ASSUME x # q
      PROVE  TokenStep(At(ts, c, q, d), x) = At(ts, Append(c, x), q, d)
  BY <1>1, <1>2 DEF TokenStep, At, Put
<1>3. TokenStep(At(ts, c, None, d), q) = At(ts, Append(c, q), q, d)
  BY <1>1 DEF TokenStep, At, Put
<1>4. TokenStep(At(ts, c, q, d), q) = At(ts, Append(c, q), None, d)
  BY <1>1 DEF TokenStep, At, Put
<1> QED
  BY <1>2, <1>3, <1>4

\* Putting a symbol down changes the token at hand only.
LEMMA PutIs ==
  ASSUME NEW ts, NEW c, NEW q, NEW d, NEW x
  PROVE  Put(At(ts, c, q, d), x) = At(ts, Append(c, x), q, d)
BY DEF Put, At

\* Where a token begins or ends.
LEMMA EndsOfTokens ==
  ASSUME NEW ts, NEW c \in Seq(Symbol)
  PROVE  /\ TokenStep(At(ts, << >>, None, 0), Left) = At(ts, <<Left>>, None, 1)
         /\ TokenStep(At(ts, c, None, 1), Right) = At(Append(ts, Append(c, Right)), << >>, None, 0)
         /\ TokenStep(At(ts, << >>, None, 0), Blank) = At(ts, << >>, None, 0)
         /\ c # << >> => TokenStep(At(ts, c, None, 0), Blank) = At(Append(ts, c), << >>, None, 0)
         /\ Flush(At(ts, << >>, None, 0)) = At(ts, << >>, None, 0)
         /\ c # << >> => Flush(At(ts, c, None, 0)) = At(Append(ts, c), << >>, None, 0)
<1>1. Append(<< >>, Left) = <<Left>>
  OBVIOUS
<1>2. /\ {Left, Right, Blank} \cap Quotes = {} /\ Blank \notin {Left, Right, Comma}
      /\ Left \notin {Right, Comma} /\ Right # Comma
  BY SymbolsDiffer
<1>3. \A u, e : /\ Flush(At(u, << >>, None, 0)) = At(u, << >>, None, 0)
                /\ e # << >> => Flush(At(u, e, None, 0)) = At(Append(u, e), << >>, None, 0)
  BY DEF Flush, At
<1>4. TokenStep(At(ts, << >>, None, 0), Left) = At(ts, <<Left>>, None, 1)
  <2>1. \A st : st.quote = None => TokenStep(st, Left) = Put([Flush(st) EXCEPT !.depth = @ + 1], Left)
    BY <1>2 DEF TokenStep
  <2>2. At(ts, << >>, None, 0).quote = None
    BY DEF At
  <2>3. [At(ts, << >>, None, 0) EXCEPT !.depth = @ + 1] = At(ts, << >>, None, 1)
    BY DEF At
  <2>4. Put(At(ts, << >>, None, 1), Left) = At(ts, <<Left>>, None, 1)
    BY <1>1 DEF At, Put
  <2> QED
    BY <1>3, <2>1, <2>2, <2>3, <2>4
<1>5. TokenStep(At(ts, c, None, 1), Right) = At(Append(ts, Append(c, Right)), << >>, None, 0)
  <2>1. \A st : st.quote = None => TokenStep(st, Right) = Close([Put(st, Right) EXCEPT !.depth = @ - 1])
    BY <1>2 DEF TokenStep
  <2>2. At(ts, c, None, 1).quote = None
    BY DEF At
  <2>3. [Put(At(ts, c, None, 1), Right) EXCEPT !.depth = @ - 1] = At(ts, Append(c, Right), None, 0)
    <3>1. PICK e : e = Append(c, Right)
      OBVIOUS
    <3>2. Put(At(ts, c, None, 1), Right) = At(ts, e, None, 1)
      BY <3>1, PutIs
    <3>3. [At(ts, e, None, 1) EXCEPT !.depth = @ - 1] = At(ts, e, None, 0)
      BY DEF At
    <3> QED
      BY <3>1, <3>2, <3>3
  <2>4. Append(c, Right) # << >>
    BY TextsAre
  <2>5. Close(At(ts, Append(c, Right), None, 0)) = Flush(At(ts, Append(c, Right), None, 0))
    BY DEF Close, At
  <2> QED
    BY <1>3, <2>1, <2>2, <2>3, <2>4, <2>5
<1>6. /\ \A st : st.quote = None /\ st.depth = 0 => TokenStep(st, Blank) = Flush(st)
      /\ \A e : At(ts, e, None, 0).quote = None /\ At(ts, e, None, 0).depth = 0
  BY <1>2 DEF TokenStep, At
<1> QED
  BY <1>3, <1>4, <1>5, <1>6

\* A text that is put down as it is, d parentheses deep.
Goes(b, d) ==
  b \in Seq(Symbol) /\
  \A ts : \A t \in Seq(Symbol), c \in Seq(Symbol) :
    State(t) = At(ts, c, None, d) => State(t \o b) = At(ts, c \o b, None, d)

\* A text that gives one token, at its end or at the blank after it.
IsToken(w) ==
  w \in Seq(Symbol) /\ w # << >> /\
  \A ts : \A t \in Seq(Symbol) :
    State(t) = At(ts, << >>, None, 0) =>
      State(t \o w) \in {At(ts, w, None, 0), At(Append(ts, w), << >>, None, 0)}

\* What follows from the state before it.
LEMMA GoesOn ==
  ASSUME NEW b, NEW d, Goes(b, d), NEW t \in Seq(Symbol), NEW c \in Seq(Symbol), NEW ts,
         State(t) = At(ts, c, None, d)
  PROVE  State(t \o b) = At(ts, c \o b, None, d)
BY Zenon DEF Goes

\* Symbols that are neither quotes nor anything that ends a token.
LEMMA PlainGoes ==
  ASSUME NEW b \in Seq(Symbol), NEW d,
         \A i \in 1..Len(b) : b[i] \notin Quotes \cup {Blank, Comma, Left, Right}
  PROVE  Goes(b, d)
<1> SUFFICES ASSUME NEW t \in Seq(Symbol), NEW c \in Seq(Symbol), NEW ts,
                    State(t) = At(ts, c, None, d)
             PROVE  State(t \o b) = At(ts, c \o b, None, d)
  BY DEF Goes
<1>2. \A i \in 1..Len(b) : \A e : TokenStep(At(ts, e, None, d), b[i]) = At(ts, Append(e, b[i]), None, d)
  BY PlainStep
<1> QED
  BY <1>2, PutRun

\* One text after the other.
LEMMA ConcatGoes ==
  ASSUME NEW a, NEW b, NEW d, Goes(a, d), Goes(b, d)
  PROVE  Goes(a \o b, d)
<1>1. a \in Seq(Symbol) /\ b \in Seq(Symbol) /\ a \o b \in Seq(Symbol)
  BY ConcatProperties DEF Goes
<1> SUFFICES ASSUME NEW t \in Seq(Symbol), NEW c \in Seq(Symbol), NEW ts,
                    State(t) = At(ts, c, None, d)
             PROVE  State(t \o (a \o b)) = At(ts, c \o (a \o b), None, d)
  BY <1>1 DEF Goes
<1>2. /\ t \o (a \o b) = (t \o a) \o b /\ c \o (a \o b) = (c \o a) \o b
      /\ t \o a \in Seq(Symbol) /\ c \o a \in Seq(Symbol)
  <2>1. ASSUME NEW u \in Seq(Symbol)
        PROVE  u \o (a \o b) = (u \o a) \o b /\ u \o a \in Seq(Symbol)
    BY ONLY <1>1, <2>1, ConcatAssociative, ConcatProperties
  <2> QED
    BY <2>1
<1>3. PICK u, e : u = t \o a /\ e = c \o a
  OBVIOUS
<1>4. u \in Seq(Symbol) /\ e \in Seq(Symbol) /\ State(u) = At(ts, e, None, d)
  BY <1>2, <1>3, GoesOn
<1>5. State(u \o b) = At(ts, e \o b, None, d)
  BY <1>4, GoesOn
<1> QED
  BY <1>2, <1>3, <1>5

\* A text in quotes, whatever else it holds.
LEMMA QuotedGoes ==
  ASSUME NEW n \in Seq(Symbol), \A i \in 1..Len(n) : n[i] \notin Quotes, NEW q \in Quotes, NEW d
  PROVE  Goes(<<q>> \o n \o <<q>>, d)
<1>1. q \in Symbol /\ <<q>> \in Seq(Symbol)
  BY SymbolsDiffer, TextsAre
<1>2. <<q>> \o n \in Seq(Symbol) /\ <<q>> \o n \o <<q>> \in Seq(Symbol)
  BY <1>1, ConcatProperties
<1> SUFFICES ASSUME NEW t \in Seq(Symbol), NEW c \in Seq(Symbol), NEW ts,
                    State(t) = At(ts, c, None, d)
             PROVE  State(t \o (<<q>> \o n \o <<q>>)) = At(ts, c \o (<<q>> \o n \o <<q>>), None, d)
  BY <1>2 DEF Goes
<1>3. \A u \in Seq(Symbol) : /\ u \o (<<q>> \o n \o <<q>>) = Append(Append(u, q) \o n, q)
                             /\ Append(u, q) \in Seq(Symbol) /\ Append(u, q) \o n \in Seq(Symbol)
  <2> TAKE u \in Seq(Symbol)
  <2>1. Append(u, q) \in Seq(Symbol) /\ Append(u, q) = u \o <<q>>
    BY <1>1
  <2>2. Append(u, q) \o n \in Seq(Symbol)
    BY <2>1, ConcatProperties
  <2>3. Append(Append(u, q) \o n, q) = (Append(u, q) \o n) \o <<q>>
    BY ONLY <1>1, <2>2
  <2>4. u \o ((<<q>> \o n) \o <<q>>) = (u \o (<<q>> \o n)) \o <<q>>
    BY <1>1, <1>2, ConcatAssociative
  <2>5. u \o (<<q>> \o n) = (u \o <<q>>) \o n
    BY <1>1, ConcatAssociative
  <2> QED
    BY <2>1, <2>2, <2>3, <2>4, <2>5, Zenon
<1>4. State(Append(t, q)) = At(ts, Append(c, q), q, d)
  BY <1>1, StateAppend, QuoteSteps
<1>5. State(Append(t, q) \o n) = At(ts, Append(c, q) \o n, q, d)
  <2>1. \A i \in 1..Len(n) : \A e : TokenStep(At(ts, e, q, d), n[i]) = At(ts, Append(e, n[i]), q, d)
    BY QuoteSteps
  <2>2. PICK u, e : u = Append(t, q) /\ e = Append(c, q)
    OBVIOUS
  <2>3. u \in Seq(Symbol) /\ e \in Seq(Symbol) /\ State(u) = At(ts, e, q, d)
    BY <1>3, <1>4, <2>2
  <2>4. State(u \o n) = At(ts, e \o n, q, d)
    BY <2>1, <2>3, PutRun
  <2> QED
    BY <2>2, <2>4
<1>6. State(Append(Append(t, q) \o n, q)) = At(ts, Append(Append(c, q) \o n, q), None, d)
  <2>1. State(Append(Append(t, q) \o n, q)) = TokenStep(State(Append(t, q) \o n), q)
    BY <1>1, <1>3, StateAppend
  <2> QED
    BY <1>5, <2>1, QuoteSteps
<1> QED
  BY <1>3, <1>6

\* In parentheses a comma and a blank are like any other symbol.
LEMMA CommaGoes == Goes(<<Comma, Blank>>, 1)
<1>1. PICK b : b = <<Comma, Blank>>
  OBVIOUS
<1>2. b \in Seq(Symbol) /\ Len(b) = 2 /\ \A i \in 1..Len(b) : b[i] \in {Blank, Comma}
  BY <1>1, TextsAre
<1> SUFFICES ASSUME NEW t \in Seq(Symbol), NEW c \in Seq(Symbol), NEW ts,
                    State(t) = At(ts, c, None, 1)
             PROVE  State(t \o b) = At(ts, c \o b, None, 1)
  BY <1>1, <1>2 DEF Goes
<1>3. \A x \in {Blank, Comma} : x \notin Quotes \cup {Left, Right}
  BY SymbolsDiffer
<1>4. \A i \in 1..Len(b) : \A e : TokenStep(At(ts, e, None, 1), b[i]) = At(ts, Append(e, b[i]), None, 1)
  BY <1>2, <1>3, PlainStep
<1> QED
  BY <1>2, <1>4, PutRun

\* The empty text.
LEMMA NothingGoes ==
  ASSUME NEW d
  PROVE  Goes(<< >>, d)
<1>1. << >> \in Seq(Symbol) /\ \A t \in Seq(Symbol) : t \o << >> = t
  OBVIOUS
<1> QED
  BY <1>1 DEF Goes

\* A list of such texts is one, in parentheses.
LEMMA ListGoes ==
  ASSUME NEW bs, bs \in Seq({b \in Seq(Symbol) : Goes(b, 1)})
  PROVE  Goes(List(bs), 1)
<1>1. PICK T : T = {b \in Seq(Symbol) : Goes(b, 1)}
  OBVIOUS
<1>2. bs \in Seq(T) /\ Len(bs) \in Nat /\ \A i \in 1..Len(bs) : bs[i] \in T
  BY <1>1
<1>3. PICK by : by = <<Comma, Blank>>
  OBVIOUS
<1>4. List(bs) = Joined(bs, by)
  BY <1>3, Zenon DEF List, Comma, Blank
<1>5. PICK f : /\ f[0] = << >>
               /\ \A i \in 1..Len(bs) : f[i] = JoinStep(f[i - 1], by, bs[i])
               /\ Joined(bs, by) = f[Len(bs)]
  BY <1>2, JoinRun
<1> DEFINE S == {n \in Nat : n <= Len(bs) => Goes(f[n], 1)}
<1>6. 0 \in S
  BY <1>5, NothingGoes
<1>7. ASSUME NEW n \in Nat, n \in S PROVE n + 1 \in S
  <2> SUFFICES ASSUME n + 1 <= Len(bs) PROVE Goes(f[n + 1], 1)
    OBVIOUS
  <2>1. n + 1 \in 1..Len(bs) /\ Goes(f[n], 1) /\ (n + 1) - 1 = n
    BY <1>7
  <2>2. PICK t, u : t = f[n] /\ u = bs[n + 1]
    OBVIOUS
  <2>3. Goes(t, 1) /\ Goes(u, 1) /\ Goes(by, 1)
    BY <1>1, <1>2, <1>3, <2>1, <2>2, CommaGoes
  <2>4. f[n + 1] = JoinStep(t, by, u)
    BY <1>5, <2>1, <2>2
  <2>5. Goes(t \o by \o u, 1)
    BY <2>3, ConcatGoes
  <2> QED
    BY <2>3, <2>4, <2>5 DEF JoinStep
<1>8. PICK n : n = Len(bs)
  OBVIOUS
<1>9. n \in Nat /\ n <= Len(bs)
  BY <1>2, <1>8
<1>10. n \in S
  BY <1>6, <1>7, <1>9, SetInduction
<1> QED
  BY <1>4, <1>5, <1>8, <1>9, <1>10

\* A text that goes on is a token if there is something of it.
LEMMA GoesIsToken ==
  ASSUME NEW w, Goes(w, 0), w # << >>
  PROVE  IsToken(w)
<1>1. w \in Seq(Symbol) /\ << >> \in Seq(Symbol) /\ << >> \o w = w
  BY DEF Goes
<1>2. ASSUME NEW t \in Seq(Symbol), NEW ts, State(t) = At(ts, << >>, None, 0)
      PROVE  State(t \o w) = At(ts, w, None, 0)
  <2>1. PICK e : e = << >>
    OBVIOUS
  <2>2. e \in Seq(Symbol) /\ State(t) = At(ts, e, None, 0) /\ e \o w = w
    BY <1>1, <1>2, <2>1
  <2>3. State(t \o w) = At(ts, e \o w, None, 0)
    <3>1. PICK d : d = 0
      OBVIOUS
    <3>2. Goes(w, d) /\ State(t) = At(ts, e, None, d)
      BY <2>2, <3>1
    <3>3. State(t \o w) = At(ts, e \o w, None, d)
      BY <2>2, <3>2 DEF Goes
    <3> QED
      BY <3>1, <3>3
  <2> QED
    BY <2>2, <2>3
<1> QED
  BY <1>1, <1>2 DEF IsToken

\* What is in parentheses is a token.
LEMMA GroupIsToken ==
  ASSUME NEW b, Goes(b, 1)
  PROVE  IsToken(InParentheses(b))
<1>1. /\ Left \in Symbol /\ Right \in Symbol /\ <<Left>> \in Seq(Symbol) /\ <<Right>> \in Seq(Symbol)
      /\ b \in Seq(Symbol)
  BY TextsAre DEF Goes
<1>2. PICK l : l = <<Left>>
  OBVIOUS
<1>3. PICK c : c = l \o b
  OBVIOUS
<1>4. l \in Seq(Symbol) /\ c \in Seq(Symbol)
  BY <1>1, <1>2, <1>3, ConcatProperties
<1>5. PICK w : w = Append(c, Right)
  OBVIOUS
<1>6. w \in Seq(Symbol) /\ w # << >>
  BY <1>1, <1>4, <1>5
<1>7. InParentheses(b) = w
  <2>1. InParentheses(b) = (<<Left>> \o b) \o <<Right>>
    BY Zenon DEF InParentheses, Left, Right
  <2>2. c \o <<Right>> = Append(c, Right)
    BY <1>1, <1>4
  <2> QED
    BY <1>2, <1>3, <1>5, <2>1, <2>2, Zenon
<1>8. ASSUME NEW t \in Seq(Symbol), NEW ts, State(t) = At(ts, << >>, None, 0)
      PROVE  State(t \o w) = At(Append(ts, w), << >>, None, 0)
  <2>1. PICK u : u = Append(t, Left)
    OBVIOUS
  <2>2. u \in Seq(Symbol) /\ u = t \o l
    BY <1>1, <1>2, <2>1
  <2>3. State(u) = At(ts, l, None, 1)
    <3>1. State(u) = TokenStep(State(t), Left)
      BY <1>1, <2>1, StateAppend
    <3>2. TokenStep(At(ts, << >>, None, 0), Left) = At(ts, <<Left>>, None, 1)
      BY <1>4, EndsOfTokens
    <3> QED
      BY <1>2, <1>8, <3>1, <3>2, Zenon
  <2>4. State(u \o b) = At(ts, l \o b, None, 1)
    <3>1. PICK d : d = 1
      OBVIOUS
    <3>2. /\ Goes(b, d) /\ State(u) = At(ts, l, None, d)
          /\ u \in Seq(Symbol) /\ l \in Seq(Symbol)
      BY <1>4, <2>2, <2>3, <3>1
    <3>3. State(u \o b) = At(ts, l \o b, None, d)
      BY <3>2, GoesOn
    <3> QED
      BY <3>1, <3>3
  <2>5. PICK x : x = u \o b
    OBVIOUS
  <2>6. x \in Seq(Symbol) /\ State(x) = At(ts, c, None, 1)
    <3>1. u \o b \in Seq(Symbol)
      BY <1>1, <2>2, ConcatProperties
    <3> QED
      BY <1>3, <2>4, <2>5, <3>1, Zenon
  <2>7. State(Append(x, Right)) = TokenStep(State(x), Right)
    BY <1>1, <2>6, StateAppend
  <2>8. TokenStep(At(ts, c, None, 1), Right) = At(Append(ts, Append(c, Right)), << >>, None, 0)
    BY <1>4, EndsOfTokens
  <2>9. t \o w = Append(x, Right)
    <3>1. (t \o l) \o b = t \o (l \o b)
      BY ONLY <1>1, <1>4, <1>8, ConcatAssociative
    <3>2. x = t \o c
      BY <1>3, <2>2, <2>5, <3>1
    <3>3. t \o Append(c, Right) = Append(t \o c, Right)
      BY ONLY <1>1, <1>4, <1>8, AppendAfter
    <3> QED
      BY <1>5, <3>2, <3>3
  <2> QED
    BY <1>5, <2>6, <2>7, <2>8, <2>9, Zenon
<1> QED
  BY <1>6, <1>7, <1>8 DEF IsToken

\* The tokens of a text, the last of which may still be at hand.
Told(t, ts) ==
  t \in Seq(Symbol) /\
  (\/ State(t) = At(ts, << >>, None, 0)
   \/ \E us : \E c \in Seq(Symbol) \ {<< >>} : ts = Append(us, c) /\ State(t) = At(us, c, None, 0))

\* A token more.
LEMMA ToldToken ==
  ASSUME NEW t \in Seq(Symbol), NEW ts, State(t) = At(ts, << >>, None, 0), NEW w, IsToken(w)
  PROVE  Told(t \o w, Append(ts, w))
<1>1. w \in Seq(Symbol) /\ w # << >> /\ t \o w \in Seq(Symbol)
  BY ConcatProperties DEF IsToken
<1>2. State(t \o w) \in {At(ts, w, None, 0), At(Append(ts, w), << >>, None, 0)}
  BY Zenon DEF IsToken
<1> QED
  BY <1>1, <1>2 DEF Told

\* A blank, or the end, finishes the last one.
LEMMA ToldBlank ==
  ASSUME NEW t, NEW ts, Told(t, ts)
  PROVE  /\ State(Append(t, Blank)) = At(ts, << >>, None, 0)
         /\ Flush(State(t)) = At(ts, << >>, None, 0)
<1>1. t \in Seq(Symbol) /\ Blank \in Symbol /\ << >> \in Seq(Symbol)
  BY TextsAre DEF Told
<1>2. State(Append(t, Blank)) = TokenStep(State(t), Blank)
  BY <1>1, StateAppend
<1>3. CASE State(t) = At(ts, << >>, None, 0)
  BY <1>1, <1>2, <1>3, EndsOfTokens
<1>4. CASE \E us : \E c \in Seq(Symbol) \ {<< >>} : ts = Append(us, c) /\ State(t) = At(us, c, None, 0)
  <2>1. PICK us, c : c \in Seq(Symbol) /\ c # << >> /\ ts = Append(us, c) /\ State(t) = At(us, c, None, 0)
    BY <1>4
  <2> QED
    BY <1>2, <2>1, EndsOfTokens
<1> QED
  BY <1>3, <1>4 DEF Told

Token == {w \in Seq(Symbol) : IsToken(w)}

\* The first texts of a sentence, one more.
LEMMA OneMore ==
  ASSUME NEW T, NEW ws \in Seq(T), NEW n \in Nat, n < Len(ws)
  PROVE  SubSeq(ws, 1, n + 1) = Append(SubSeq(ws, 1, n), ws[n + 1])
<1>1. /\ SubSeq(ws, 1, n) \in Seq(T) /\ Len(SubSeq(ws, 1, n)) = n
      /\ \A i \in 1..n : SubSeq(ws, 1, n)[i] = ws[i]
  OBVIOUS
<1>2. PICK u : u = SubSeq(ws, 1, n)
  OBVIOUS
<1>3. ws[n + 1] \in T
  OBVIOUS
<1>4. PICK v : v = Append(u, ws[n + 1])
  OBVIOUS
<1>5. v \in Seq(T) /\ Len(v) = n + 1 /\ v[n + 1] = ws[n + 1] /\ \A i \in 1..n : v[i] = ws[i]
  BY <1>1, <1>2, <1>3, <1>4
<1>6. PICK w : w = SubSeq(ws, 1, n + 1)
  OBVIOUS
<1>7. w \in Seq(T) /\ Len(w) = n + 1 /\ \A i \in 1..n + 1 : w[i] = ws[i]
  BY <1>6
<1>8. w = v
  BY <1>5, <1>7, SeqEqual
<1> QED
  BY <1>2, <1>4, <1>6, <1>8

\* A sentence is taken apart into what it was made of.
LEMMA SentenceTokens ==
  ASSUME NEW ws \in Seq(Token), ws # << >>
  PROVE  tokenize(Sentence(ws)) = ws
<1>1. Len(ws) \in Nat /\ Len(ws) > 0 /\ \A i \in 1..Len(ws) : ws[i] \in Token
  OBVIOUS
<1>2. Sentence(ws) = Joined(ws, Space)
  BY Zenon DEF Sentence, Space, Blank
<1>3. PICK f : /\ f[0] = << >>
               /\ \A i \in 1..Len(ws) : f[i] = JoinStep(f[i - 1], Space, ws[i])
               /\ Joined(ws, Space) = f[Len(ws)]
  BY JoinRun
<1> DEFINE Good(n) == f[n] # << >> /\ Told(f[n], SubSeq(ws, 1, n))
           S == {n \in Nat : n + 1 <= Len(ws) => Good(n + 1)}
<1> HIDE DEF Good
<1>4. 0 \in S
  <2>1. PICK w : w = ws[1]
    OBVIOUS
  <2>2. w \in Seq(Symbol) /\ IsToken(w) /\ w # << >> /\ << >> \o w = w
    BY <1>1, <2>1 DEF Token, IsToken
  <2>3. f[1] = w
    BY <1>1, <1>3, <2>1 DEF JoinStep
  <2>4. State(<< >>) = At(<< >>, << >>, None, 0) /\ << >> \in Seq(Symbol)
    BY StateEmpty DEF NoToken, At
  <2>5. Told(<< >> \o w, Append(<< >>, w))
    BY <2>2, <2>4, ToldToken
  <2>6. SubSeq(ws, 1, 1) = Append(<< >>, w)
    <3>1. PICK u : u = SubSeq(ws, 1, 1)
      OBVIOUS
    <3>2. u \in Seq(Token) /\ Len(u) = 1 /\ u[1] = w
      BY <1>1, <2>1, <3>1
    <3>3. u = <<w>>
      BY <3>2
    <3>4. Append(<< >>, w) = <<w>>
      OBVIOUS
    <3> QED
      BY <3>1, <3>3, <3>4, Zenon
  <2>7. Good(1)
    BY <2>2, <2>3, <2>5, <2>6 DEF Good
  <2> QED
    BY <2>7
<1>5. ASSUME NEW n \in Nat, n \in S PROVE n + 1 \in S
  <2> SUFFICES ASSUME (n + 1) + 1 <= Len(ws) PROVE Good((n + 1) + 1)
    OBVIOUS
  <2>1. PICK m : m = n + 1
    OBVIOUS
  <2>2. m \in Nat /\ m < Len(ws) /\ m + 1 \in 1..Len(ws) /\ (m + 1) - 1 = m /\ Good(m)
    BY <1>1, <1>5, <2>1
  <2>3. PICK t, w, ts : t = f[m] /\ w = ws[m + 1] /\ ts = SubSeq(ws, 1, m)
    OBVIOUS
  <2>4. t # << >> /\ Told(t, ts) /\ t \in Seq(Symbol)
    BY <2>2, <2>3, Zenon DEF Good, Told
  <2>5. w \in Seq(Symbol) /\ IsToken(w) /\ w # << >>
    BY <1>1, <2>2, <2>3 DEF Token, IsToken
  <2>6. PICK u : u = Append(t, Blank)
    OBVIOUS
  <2>7. u \in Seq(Symbol) /\ u = t \o Space /\ u # << >>
    BY <2>4, <2>6, TextsAre DEF Space
  <2>8. f[m + 1] = u \o w
    <3>1. f[m + 1] = JoinStep(t, Space, w)
      BY <1>3, <2>2, <2>3
    <3> QED
      BY <2>4, <2>7, <3>1 DEF JoinStep
  <2>9. State(u) = At(ts, << >>, None, 0)
    BY <2>4, <2>6, ToldBlank
  <2>10. Told(u \o w, Append(ts, w))
    BY <2>5, <2>7, <2>9, ToldToken
  <2>11. SubSeq(ws, 1, m + 1) = Append(ts, w)
    BY <2>2, <2>3, OneMore
  <2>12. u \o w # << >>
    BY <2>5, <2>7, ConcatEqualIffEmpty
  <2> QED
    BY <2>1, <2>8, <2>10, <2>11, <2>12 DEF Good
<1>6. PICK n : n = Len(ws) - 1
  OBVIOUS
<1>7. n \in Nat /\ n + 1 = Len(ws)
  BY <1>1, <1>6
<1>8. n \in S
  BY <1>4, <1>5, <1>7, SetInduction
<1>9. Good(Len(ws))
  BY <1>7, <1>8
<1>10. Told(Sentence(ws), ws)
  <2>1. SubSeq(ws, 1, Len(ws)) = ws
    OBVIOUS
  <2> QED
    BY <1>2, <1>3, <1>9, <2>1 DEF Good
<1>11. Flush(State(Sentence(ws))) = At(ws, << >>, None, 0)
  BY <1>10, ToldBlank
<1> QED
  BY <1>11, TokensAre DEF At

\* A keyword is a token.
LEMMA KeywordIsToken ==
  ASSUME NEW w \in Grammar
  PROVE  <<w>> \in Token
<1>1. w \in Symbol /\ w \notin Quotes \cup {Blank, Comma, Left, Right}
  BY SymbolsDiffer, TextsAre
<1>2. PICK b : b = <<w>>
  OBVIOUS
<1>3. b \in Seq(Symbol) /\ b # << >> /\ \A i \in 1..Len(b) : b[i] \notin Quotes \cup {Blank, Comma, Left, Right}
  BY <1>1, <1>2
<1>4. Goes(b, 0)
  BY <1>3, PlainGoes
<1> QED
  BY <1>2, <1>3, <1>4, GoesIsToken DEF Token

\* A name goes on, quoted or not, inside of parentheses and outside.
LEMMA NameGoes ==
  ASSUME NEW n \in Name, NEW d
  PROVE  Goes(quoteIdentifier(n), d) /\ Goes(<<Mark>> \o n \o <<Mark>>, d)
<1>1. /\ n \in Seq(Symbol) /\ \A i \in 1..Len(n) : n[i] \notin Quotes \cup {Blank, Comma, Left, Right}
      /\ \A i \in 1..Len(n) : n[i] \notin Quotes
  BY NameIs
<1>2. Goes(n, d)
  BY <1>1, PlainGoes
<1>3. \A q \in Quotes : Goes(<<q>> \o n \o <<q>>, d)
  BY <1>1, QuotedGoes
<1>4. Mark \in Quotes /\ Twice \in Quotes
  BY SymbolsDiffer
<1>5. quoteIdentifier(n) = n \/ quoteIdentifier(n) = <<Twice>> \o n \o <<Twice>>
  BY Zenon DEF quoteIdentifier, Twice
<1>6. Goes(<<Twice>> \o n \o <<Twice>>, d) /\ Goes(<<Mark>> \o n \o <<Mark>>, d)
  BY <1>3, <1>4, Zenon
<1> QED
  BY <1>2, <1>5, <1>6, Zenon

\* What a text in quotes is made of.
LEMMA QuotedIs ==
  ASSUME NEW n \in Seq(Symbol), NEW x \in Symbol, NEW t, t = <<x>> \o n \o <<x>>
  PROVE  /\ t \in Seq(Symbol) /\ Len(t) = Len(n) + 2 /\ t # << >>
         /\ t[1] = x /\ t[Len(t)] = x /\ SubSeq(t, 2, Len(t) - 1) = n
<1>1. PICK a : a = <<x>> \o n
  OBVIOUS
<1>2. a \in Seq(Symbol) /\ Len(a) = Len(n) + 1 /\ a[1] = x /\ \A i \in 1..Len(n) : a[i + 1] = n[i]
  BY <1>1
<1>3. /\ t \in Seq(Symbol) /\ Len(t) = Len(n) + 2 /\ t[1] = x /\ t[Len(n) + 2] = x
      /\ \A i \in 1..Len(n) : t[i + 1] = n[i]
  <2>1. t = a \o <<x>>
    BY <1>1
  <2> QED
    BY <1>2, <2>1
<1>4. PICK m : m = SubSeq(t, 2, Len(t) - 1)
  OBVIOUS
<1>5. m \in Seq(Symbol) /\ Len(m) = Len(n) /\ \A i \in 1..Len(n) : m[i] = n[i]
  BY <1>3, <1>4
<1>6. m = n
  BY <1>5, SeqEqual
<1> QED
  BY <1>3, <1>4, <1>6

\* Names, labels and lists of columns are tokens.
LEMMA NamesAreTokens ==
  /\ \A n \in Name : quoteIdentifier(n) \in Token /\ <<Mark>> \o n \o <<Mark>> \in Token
  /\ \A cols \in Seq(Name) : formatColumnList(cols) \in Token
<1>1. ASSUME NEW n \in Name
      PROVE  quoteIdentifier(n) \in Token /\ <<Mark>> \o n \o <<Mark>> \in Token
  <2>1. PICK a, b : a = quoteIdentifier(n) /\ b = <<Mark>> \o n \o <<Mark>>
    OBVIOUS
  <2>2. Goes(a, 0) /\ Goes(b, 0)
    BY <2>1, NameGoes
  <2>3. a # << >> /\ b # << >>
    <3>1. n \in Seq(Symbol) /\ n # << >> /\ Mark \in Symbol /\ Twice \in Symbol
      BY NameIs, TextsAre
    <3>2. \A x \in Symbol : <<x>> \o n \o <<x>> # << >>
      BY <3>1, QuotedIs
    <3>3. a = n \/ a = <<Twice>> \o n \o <<Twice>>
      BY <2>1, Zenon DEF quoteIdentifier, Twice
    <3> QED
      BY <2>1, <3>1, <3>2, <3>3, Zenon
  <2>4. a \in Seq(Symbol) /\ b \in Seq(Symbol)
    BY <2>2, Zenon DEF Goes
  <2>5. IsToken(a) /\ IsToken(b)
    BY <2>2, <2>3, GoesIsToken
  <2> QED
    BY <2>1, <2>4, <2>5, Zenon DEF Token
<1>2. ASSUME NEW cols \in Seq(Name)
      PROVE  formatColumnList(cols) \in Token
  <2>1. PICK bs : bs = [i \in DOMAIN cols |-> quoteIdentifier(cols[i])]
    OBVIOUS
  <2>2. DOMAIN cols = 1..Len(cols) /\ Len(cols) \in Nat /\ \A i \in 1..Len(cols) : cols[i] \in Name
    OBVIOUS
  <2>3. \A n \in Name : quoteIdentifier(n) \in {b \in Seq(Symbol) : Goes(b, 1)}
    BY NameGoes, Zenon DEF Goes
  <2>4. bs \in Seq({b \in Seq(Symbol) : Goes(b, 1)})
    BY <2>1, <2>2, <2>3
  <2>5. PICK l : l = List(bs)
    OBVIOUS
  <2>6. Goes(l, 1)
    BY <2>4, <2>5, ListGoes
  <2>7. IsToken(InParentheses(l))
    BY <2>6, GroupIsToken
  <2>8. formatColumnList(cols) = InParentheses(l)
    BY <2>1, <2>5, Zenon DEF formatColumnList
  <2> QED
    BY <2>7, <2>8, Zenon DEF Token, IsToken
<1> QED
  BY <1>1, <1>2

\* A name comes back without its quotes, and a label too.
LEMMA NameLeadsBack ==
  ASSUME NEW n \in Name
  PROVE  /\ unquoteIdentifier(quoteIdentifier(n)) = n
         /\ LET t == <<Mark>> \o n \o <<Mark>> IN SubSeq(t, 2, Len(t) - 1) = n
<1>1. n \in Seq(Symbol) /\ Len(n) > 0 /\ \A i \in 1..Len(n) : n[i] \notin Quotes
  BY NameIs
<1>2. Mark \in Symbol /\ Twice \in Symbol /\ Twice \in Quotes
  BY TextsAre, SymbolsDiffer
<1>3. \A t : unquoteIdentifier(t) = IF Len(t) >= 2 /\ t[1] = Twice /\ t[Len(t)] = Twice
                                   THEN SubSeq(t, 2, Len(t) - 1) ELSE t
  BY Zenon DEF unquoteIdentifier, Twice, Last
<1>4. unquoteIdentifier(n) = n
  BY <1>1, <1>2, <1>3
<1>5. unquoteIdentifier(<<Twice>> \o n \o <<Twice>>) = n
  <2>1. PICK t : t = <<Twice>> \o n \o <<Twice>>
    OBVIOUS
  <2>2. Len(t) = Len(n) + 2 /\ t[1] = Twice /\ t[Len(t)] = Twice /\ SubSeq(t, 2, Len(t) - 1) = n
    BY <1>1, <1>2, <2>1, QuotedIs
  <2>3. Len(t) >= 2
    BY <1>1, <2>2
  <2> QED
    BY <1>3, <2>1, <2>2, <2>3
<1>6. quoteIdentifier(n) = n \/ quoteIdentifier(n) = <<Twice>> \o n \o <<Twice>>
  BY Zenon DEF quoteIdentifier, Twice
<1>7. PICK t : t = <<Mark>> \o n \o <<Mark>>
  OBVIOUS
<1>8. SubSeq(t, 2, Len(t) - 1) = n
  BY <1>1, <1>2, <1>7, QuotedIs
<1> QED
  BY <1>4, <1>5, <1>6, <1>7, <1>8, Zenon

Keyword == {<<w>> : w \in Grammar}

\* A keyword is itself and no other.
LEMMA IsKeyword ==
  ASSUME NEW t \in Keyword, NEW u
  PROVE  Is(t, u) <=> t = <<u>>
<1>1. PICK w \in Grammar : t = <<w>>
  BY DEF Keyword
<1>2. Upper(w) = w
  BY <1>1, UppersAssumption
<1>3. Len(<<w>>) = 1 /\ <<w>>[1] = w /\ (<<w>> = <<u>> <=> w = u)
  OBVIOUS
<1> QED
  BY <1>1, <1>2, <1>3 DEF Is

\* One, two and three keywords from some position on.
LEMMA HasOne ==
  ASSUME NEW ts, NEW i \in Nat, Len(ts) \in Nat, Len(ts) >= i, ts[i] \in Keyword, NEW a
  PROVE  Has(ts, i, <<a>>) <=> ts[i] = <<a>>
<1>1. Has(ts, i, <<a>>) <=> Len(ts) >= i + 1 - 1 /\ Is(ts[i + 1 - 1], a)
  BY DEF Has
<1>2. i + 1 - 1 = i
  OBVIOUS
<1> QED
  BY <1>1, <1>2, IsKeyword

LEMMA HasTwo ==
  ASSUME NEW ts, NEW i \in Nat, Len(ts) \in Nat, Len(ts) >= i + 1,
         ts[i] \in Keyword, ts[i + 1] \in Keyword, NEW a, NEW b
  PROVE  Has(ts, i, <<a, b>>) <=> ts[i] = <<a>> /\ ts[i + 1] = <<b>>
<1>1. Has(ts, i, <<a, b>>) <=> Len(ts) >= i + 2 - 1 /\ Is(ts[i + 1 - 1], a) /\ Is(ts[i + 2 - 1], b)
  BY DEF Has
<1>2. i + 1 - 1 = i /\ i + 2 - 1 = i + 1
  OBVIOUS
<1> QED
  BY <1>1, <1>2, IsKeyword

LEMMA HasThree ==
  ASSUME NEW ts, NEW i \in Nat, Len(ts) \in Nat, NEW a, NEW b, NEW c
  PROVE  /\ Len(ts) < i + 2 => ~Has(ts, i, <<a, b, c>>)
         /\ Len(ts) >= i + 2 /\ ts[i] \in Keyword /\ ts[i + 1] \in Keyword /\ ts[i + 2] \in Keyword
              => (Has(ts, i, <<a, b, c>>) <=> ts[i] = <<a>> /\ ts[i + 1] = <<b>> /\ ts[i + 2] = <<c>>)
<1>1. Has(ts, i, <<a, b, c>>) <=> Len(ts) >= i + 3 - 1 /\ Is(ts[i + 1 - 1], a) /\ Is(ts[i + 2 - 1], b)
                                  /\ Is(ts[i + 3 - 1], c)
  BY DEF Has
<1>2. i + 1 - 1 = i /\ i + 2 - 1 = i + 1 /\ i + 3 - 1 = i + 2
  OBVIOUS
<1>3. ASSUME Len(ts) < i + 2 PROVE ~Has(ts, i, <<a, b, c>>)
  BY <1>1, <1>2, <1>3
<1>4. ASSUME Len(ts) >= i + 2, ts[i] \in Keyword, ts[i + 1] \in Keyword, ts[i + 2] \in Keyword
      PROVE  Has(ts, i, <<a, b, c>>) <=> ts[i] = <<a>> /\ ts[i + 1] = <<b>> /\ ts[i + 2] = <<c>>
  <2>1. /\ Is(ts[i], a) <=> ts[i] = <<a>>
        /\ Is(ts[i + 1], b) <=> ts[i + 1] = <<b>>
        /\ Is(ts[i + 2], c) <=> ts[i + 2] = <<c>>
    BY <1>4, IsKeyword
  <2> QED
    BY <1>1, <1>2, <1>4, <2>1
<1> QED
  BY <1>3, <1>4

\* What is read of a statement follows from its first two keywords.
LEMMA ParseIs ==
  ASSUME NEW t, NEW ts, ts = tokenize(t), Len(ts) \in Nat, Len(ts) >= 2,
         ts[1] \in Keyword, ts[2] \in Keyword
  PROVE  /\ ts[1] = <<"DROP">> /\ ts[2] = <<"TABLE">>
              => Parse(t) = [stmt |-> "DROP TABLE", table |-> unquoteIdentifier(ts[3])]
         /\ ts[1] = <<"DROP">> /\ ts[2] = <<"TYPE">>
              => Parse(t) = [stmt |-> "DROP TYPE", enum |-> unquoteIdentifier(ts[3])]
         /\ ts[1] = <<"DROP">> /\ ts[2] = <<"INDEX">>
              => Parse(t) = [stmt |-> "DROP INDEX", name |-> unquoteIdentifier(ts[3])]
         /\ ts[1] = <<"ALTER">> /\ ts[2] = <<"TABLE">> => Parse(t) = parseAlterTable(ts)
         /\ ts[1] = <<"ALTER">> /\ ts[2] = <<"TYPE">> => Parse(t) = Error
<1>1. ASSUME NEW a, NEW b
      PROVE  Has(ts, 1, <<a, b>>) <=> ts[1] = <<a>> /\ ts[2] = <<b>>
  <2>1. PICK i : i = 1
    OBVIOUS
  <2>2. i \in Nat /\ Len(ts) >= i + 1 /\ ts[i] \in Keyword /\ ts[i + 1] \in Keyword /\ i + 1 = 2
    BY <2>1
  <2>3. Has(ts, i, <<a, b>>) <=> ts[i] = <<a>> /\ ts[i + 1] = <<b>>
    BY <2>2, HasTwo
  <2> QED
    BY <2>1, <2>2, <2>3
<1>2. \A a, b : <<a>> = <<b>> <=> a = b
  OBVIOUS
<1>3. "DROP" # "CREATE" /\ "ALTER" # "CREATE" /\ "DROP" # "ALTER"
      /\ "TABLE" # "TYPE" /\ "TABLE" # "INDEX" /\ "TYPE" # "INDEX"
  BY Zenon
<1>4. <<"DROP">> # <<"CREATE">> /\ <<"ALTER">> # <<"CREATE">> /\ <<"DROP">> # <<"ALTER">>
      /\ <<"TABLE">> # <<"TYPE">> /\ <<"TABLE">> # <<"INDEX">> /\ <<"TYPE">> # <<"INDEX">>
  BY <1>2, <1>3, Zenon
<1>5. \A x, y : Has(tokenize(t), 1, <<x, y>>) <=> ts[1] = <<x>> /\ ts[2] = <<y>>
  BY <1>1, Zenon
<1>6. ASSUME ts[1] = <<"DROP">>, ts[2] = <<"TABLE">>
      PROVE  Parse(t) = [stmt |-> "DROP TABLE", table |-> unquoteIdentifier(tokenize(t)[3])]
  BY <1>4, <1>5, <1>6, Zenon DEF Parse
<1>7. ASSUME ts[1] = <<"DROP">>, ts[2] = <<"TYPE">>
      PROVE  Parse(t) = [stmt |-> "DROP TYPE", enum |-> unquoteIdentifier(tokenize(t)[3])]
  BY <1>4, <1>5, <1>7, Zenon DEF Parse
<1>8. ASSUME ts[1] = <<"DROP">>, ts[2] = <<"INDEX">>
      PROVE  Parse(t) = [stmt |-> "DROP INDEX", name |-> unquoteIdentifier(tokenize(t)[3])]
  BY <1>4, <1>5, <1>8, Zenon DEF Parse
<1>9. ASSUME ts[1] = <<"ALTER">>, ts[2] = <<"TABLE">>
      PROVE  Parse(t) = parseAlterTable(tokenize(t))
  BY <1>4, <1>5, <1>9, Zenon DEF Parse
<1>10. ASSUME ts[1] = <<"ALTER">>, ts[2] = <<"TYPE">>
      PROVE  Parse(t) = Error
  BY <1>4, <1>5, <1>10, Zenon DEF Parse
<1> QED
  BY <1>6, <1>7, <1>8, <1>9, <1>10, Zenon

\* The first keywords of a clause.
LEMMA HasFirst ==
  ASSUME NEW ts, Len(ts) \in Nat, Len(ts) >= 2, ts[1] \in Keyword, ts[2] \in Keyword
  PROVE  /\ \A a : Has(ts, 1, <<a>>) <=> ts[1] = <<a>>
         /\ \A a, b : Has(ts, 1, <<a, b>>) <=> ts[1] = <<a>> /\ ts[2] = <<b>>
         /\ Len(ts) < 3 => \A a, b, c : ~Has(ts, 1, <<a, b, c>>)
         /\ Len(ts) >= 3 /\ ts[3] \in Keyword
              => \A a, b, c : Has(ts, 1, <<a, b, c>>) <=> ts[1] = <<a>> /\ ts[2] = <<b>> /\ ts[3] = <<c>>
<1>1. PICK i : i = 1
  OBVIOUS
<1>2. /\ i \in Nat /\ Len(ts) >= i + 1 /\ ts[i] \in Keyword /\ ts[i + 1] \in Keyword
      /\ i + 1 = 2 /\ i + 2 = 3 /\ Len(ts) >= i
  BY <1>1
<1>3. ASSUME NEW a
      PROVE  Has(ts, i, <<a>>) <=> ts[i] = <<a>>
  BY <1>2, HasOne
<1>4. ASSUME NEW a, NEW b
      PROVE  Has(ts, i, <<a, b>>) <=> ts[i] = <<a>> /\ ts[i + 1] = <<b>>
  BY <1>2, HasTwo
<1>5. ASSUME NEW a, NEW b, NEW c
      PROVE  /\ Len(ts) < i + 2 => ~Has(ts, i, <<a, b, c>>)
             /\ Len(ts) >= i + 2 /\ ts[i + 2] \in Keyword
                  => (Has(ts, i, <<a, b, c>>) <=> ts[i] = <<a>> /\ ts[i + 1] = <<b>> /\ ts[i + 2] = <<c>>)
  BY <1>2, HasThree
<1> QED
  BY <1>1, <1>2, <1>3, <1>4, <1>5

\* What is read of ALTER TABLE follows from the two keywords behind the table.
LEMMA AlterTableIs ==
  ASSUME NEW ts, Len(ts) \in Nat, Len(ts) >= 5, ts[4] \in Keyword, ts[5] \in Keyword
  PROVE  /\ ts[4] = <<"DROP">> /\ ts[5] = <<"COLUMN">>
              => parseAlterTable(ts) = [stmt |-> "DROP COLUMN", table |-> unquoteIdentifier(ts[3]),
                                        column |-> unquoteIdentifier(ts[6])]
         /\ ts[4] = <<"RENAME">> /\ ts[5] = <<"COLUMN">>
              => parseAlterTable(ts) = [stmt |-> "RENAME COLUMN", table |-> unquoteIdentifier(ts[3]),
                                        column |-> unquoteIdentifier(ts[6]),
                                        to |-> unquoteIdentifier(ts[8])]
         /\ ts[4] = <<"ALTER">> /\ ts[5] = <<"COLUMN">>
              => parseAlterTable(ts) = parseAlterColumn(unquoteIdentifier(ts[3]),
                                                        unquoteIdentifier(ts[6]), From(ts, 7))
         /\ ts[5] = <<"CONSTRAINT">> => parseAlterTable(ts) = Error
<1>1. ASSUME NEW a, NEW b
      PROVE  Has(ts, 4, <<a, b>>) <=> ts[4] = <<a>> /\ ts[5] = <<b>>
  <2>1. PICK i : i = 4
    OBVIOUS
  <2>2. i \in Nat /\ Len(ts) >= i + 1 /\ ts[i] \in Keyword /\ ts[i + 1] \in Keyword /\ i + 1 = 5
    BY <2>1
  <2>3. Has(ts, i, <<a, b>>) <=> ts[i] = <<a>> /\ ts[i + 1] = <<b>>
    BY <2>2, HasTwo
  <2> QED
    BY <2>1, <2>2, <2>3
<1>2. \A a, b : <<a>> = <<b>> <=> a = b
  OBVIOUS
<1>3. <<"ADD">> # <<"DROP">> /\ <<"ADD">> # <<"RENAME">> /\ <<"ADD">> # <<"ALTER">>
      /\ <<"DROP">> # <<"RENAME">> /\ <<"DROP">> # <<"ALTER">> /\ <<"RENAME">> # <<"ALTER">>
      /\ <<"CONSTRAINT">> # <<"COLUMN">>
  BY <1>2, Zenon
<1>4. ASSUME ts[4] = <<"DROP">>, ts[5] = <<"COLUMN">>
      PROVE  parseAlterTable(ts) = [stmt |-> "DROP COLUMN", table |-> unquoteIdentifier(ts[3]),
                                    column |-> unquoteIdentifier(ts[6])]
  BY <1>1, <1>3, <1>4, Zenon DEF parseAlterTable
<1>5. ASSUME ts[4] = <<"RENAME">>, ts[5] = <<"COLUMN">>
      PROVE  parseAlterTable(ts) = [stmt |-> "RENAME COLUMN", table |-> unquoteIdentifier(ts[3]),
                                    column |-> unquoteIdentifier(ts[6]),
                                    to |-> unquoteIdentifier(ts[8])]
  BY <1>1, <1>3, <1>5, Zenon DEF parseAlterTable
<1>6. ASSUME ts[4] = <<"ALTER">>, ts[5] = <<"COLUMN">>
      PROVE  parseAlterTable(ts) = parseAlterColumn(unquoteIdentifier(ts[3]),
                                                    unquoteIdentifier(ts[6]), From(ts, 7))
  BY <1>1, <1>3, <1>6, Zenon DEF parseAlterTable
<1>7. ASSUME ts[5] = <<"CONSTRAINT">>
      PROVE  parseAlterTable(ts) = Error
  BY <1>1, <1>3, <1>7, Zenon DEF parseAlterTable
<1> QED
  BY <1>4, <1>5, <1>6, <1>7

\* The clauses of ALTER COLUMN that are keywords alone.
LEMMA AlterColumnIs ==
  ASSUME NEW table, NEW column
  PROVE  /\ parseAlterColumn(table, column, <<<<"SET">>, <<"NOT">>, <<"NULL">>>>)
              = [stmt |-> "SET NOT NULL", table |-> table, column |-> column]
         /\ parseAlterColumn(table, column, <<<<"DROP">>, <<"NOT">>, <<"NULL">>>>)
              = [stmt |-> "DROP NOT NULL", table |-> table, column |-> column]
         /\ parseAlterColumn(table, column, <<<<"DROP">>, <<"DEFAULT">>>>)
              = [stmt |-> "DROP DEFAULT", table |-> table, column |-> column]
<1>1. \A a, b : <<a>> = <<b>> <=> a = b
  OBVIOUS
<1>2. <<"SET">> # <<"DROP">> /\ <<"TYPE">> # <<"DROP">> /\ <<"TYPE">> # <<"SET">> /\ <<"NOT">> # <<"DEFAULT">>
  BY <1>1, Zenon
<1>3. {"SET", "NOT", "NULL", "DROP", "DEFAULT", "TYPE"} \subseteq Grammar
  BY DEF Grammar
<1>4. parseAlterColumn(table, column, <<<<"SET">>, <<"NOT">>, <<"NULL">>>>)
        = [stmt |-> "SET NOT NULL", table |-> table, column |-> column]
  <2>1. PICK ts : ts = <<<<"SET">>, <<"NOT">>, <<"NULL">>>>
    OBVIOUS
  <2>2. /\ Len(ts) = 3 /\ ts[1] = <<"SET">> /\ ts[2] = <<"NOT">> /\ ts[3] = <<"NULL">>
        /\ ts[1] \in Keyword /\ ts[2] \in Keyword /\ ts[3] \in Keyword
    BY <1>3, <2>1 DEF Keyword
  <2>3. /\ \A a : Has(ts, 1, <<a>>) <=> ts[1] = <<a>>
        /\ \A a, b : Has(ts, 1, <<a, b>>) <=> ts[1] = <<a>> /\ ts[2] = <<b>>
        /\ \A a, b, c : Has(ts, 1, <<a, b, c>>) <=> ts[1] = <<a>> /\ ts[2] = <<b>> /\ ts[3] = <<c>>
    BY <2>2, HasFirst
  <2>4. parseAlterColumn(table, column, ts) = [stmt |-> "SET NOT NULL", table |-> table, column |-> column]
    BY <1>2, <2>2, <2>3, Zenon DEF parseAlterColumn
  <2> QED
    BY <2>1, <2>4
<1>5. parseAlterColumn(table, column, <<<<"DROP">>, <<"NOT">>, <<"NULL">>>>)
        = [stmt |-> "DROP NOT NULL", table |-> table, column |-> column]
  <2>1. PICK ts : ts = <<<<"DROP">>, <<"NOT">>, <<"NULL">>>>
    OBVIOUS
  <2>2. /\ Len(ts) = 3 /\ ts[1] = <<"DROP">> /\ ts[2] = <<"NOT">> /\ ts[3] = <<"NULL">>
        /\ ts[1] \in Keyword /\ ts[2] \in Keyword /\ ts[3] \in Keyword
    BY <1>3, <2>1 DEF Keyword
  <2>3. /\ \A a : Has(ts, 1, <<a>>) <=> ts[1] = <<a>>
        /\ \A a, b : Has(ts, 1, <<a, b>>) <=> ts[1] = <<a>> /\ ts[2] = <<b>>
        /\ \A a, b, c : Has(ts, 1, <<a, b, c>>) <=> ts[1] = <<a>> /\ ts[2] = <<b>> /\ ts[3] = <<c>>
    BY <2>2, HasFirst
  <2>4. parseAlterColumn(table, column, ts) = [stmt |-> "DROP NOT NULL", table |-> table, column |-> column]
    BY <1>2, <2>2, <2>3, Zenon DEF parseAlterColumn
  <2> QED
    BY <2>1, <2>4
<1>6. parseAlterColumn(table, column, <<<<"DROP">>, <<"DEFAULT">>>>)
        = [stmt |-> "DROP DEFAULT", table |-> table, column |-> column]
  <2>1. PICK ts : ts = <<<<"DROP">>, <<"DEFAULT">>>>
    OBVIOUS
  <2>2. /\ Len(ts) = 2 /\ ts[1] = <<"DROP">> /\ ts[2] = <<"DEFAULT">>
        /\ ts[1] \in Keyword /\ ts[2] \in Keyword
    BY <1>3, <2>1 DEF Keyword
  <2>3. /\ \A a : Has(ts, 1, <<a>>) <=> ts[1] = <<a>>
        /\ \A a, b : Has(ts, 1, <<a, b>>) <=> ts[1] = <<a>> /\ ts[2] = <<b>>
        /\ \A a, b, c : ~Has(ts, 1, <<a, b, c>>)
    BY <2>2, HasFirst
  <2>4. parseAlterColumn(table, column, ts) = [stmt |-> "DROP DEFAULT", table |-> table, column |-> column]
    BY <1>2, <2>2, <2>3, Zenon DEF parseAlterColumn
  <2> QED
    BY <2>1, <2>4
<1> QED
  BY <1>4, <1>5, <1>6

\* Keywords, one by one.
LEMMA KeywordsOf ==
  ASSUME NEW a, NEW b, NEW c
  PROVE  /\ Keywords(<<a, b>>) = <<<<a>>, <<b>>>>
         /\ Keywords(<<a, b, c>>) = <<<<a>>, <<b>>, <<c>>>>
BY DEF Keywords

\* Names have no quotes.
LEMMA NameUnquoted ==
  ASSUME NEW n \in Name
  PROVE  ToSet(n) \cap Quotes = {}
<1>1. n \in Seq(STRING) /\ \A i \in 1..Len(n) : n[i] \notin Quotes
  BY NameIs
<1> QED
  BY <1>1 DEF ToSet

\* Which kinds are readable whatever names they hold, and which are never.
LEMMA NamesReadable ==
  ASSUME NEW v
  PROVE  /\ v.stmt \in {"DROP TABLE", "DROP COLUMN", "RENAME COLUMN", "SET NOT NULL", "DROP NOT NULL",
                        "DROP DEFAULT", "DROP INDEX", "DROP TYPE"}
              => Readable(v) /\ ~CutsShort(v) /\ ~Refused(v)
         /\ v.stmt \in {"ADD CONSTRAINT", "DROP CONSTRAINT", "ADD VALUE"}
              => ~Readable(v) /\ ~CutsShort(v) /\ Refused(v)
<1>1. ASSUME v.stmt \in {"DROP TABLE", "DROP COLUMN", "RENAME COLUMN", "SET NOT NULL", "DROP NOT NULL",
                         "DROP DEFAULT", "DROP INDEX", "DROP TYPE"}
      PROVE  Readable(v) /\ ~CutsShort(v) /\ ~Refused(v)
  <2>1. /\ v.stmt # "CREATE TABLE" /\ v.stmt # "CREATE INDEX" /\ v.stmt # "CREATE TYPE"
        /\ v.stmt # "ADD COLUMN" /\ v.stmt # "ALTER TYPE" /\ v.stmt # "SET DEFAULT"
        /\ v.stmt \notin {"ADD CONSTRAINT", "DROP CONSTRAINT", "ADD VALUE"}
    BY <1>1, Zenon
  <2>2. ~CutsShort(v)
    BY <2>1, Zenon DEF CutsShort
  <2>3. ~Refused(v)
    BY <2>1, Zenon DEF Refused
  <2> QED
    BY <2>1, <2>2, <2>3, Zenon DEF Readable
<1>2. ASSUME v.stmt \in {"ADD CONSTRAINT", "DROP CONSTRAINT", "ADD VALUE"}
      PROVE  ~Readable(v) /\ ~CutsShort(v) /\ Refused(v)
  <2>1. /\ v.stmt # "CREATE TABLE" /\ v.stmt # "CREATE INDEX" /\ v.stmt # "CREATE TYPE"
        /\ v.stmt # "ADD COLUMN" /\ v.stmt # "ALTER TYPE"
    BY <1>2, Zenon
  <2>2. ~CutsShort(v)
    BY <2>1, Zenon DEF CutsShort
  <2>3. Refused(v)
    BY <1>2, <2>1, Zenon DEF Refused
  <2> QED
    BY <2>2, <2>3, Zenon DEF Readable
<1> QED
  BY <1>1, <1>2

\* Sequences, put together and compared.
LEMMA ConcatEach ==
  ASSUME NEW S, NEW s \in Seq(S), NEW t \in Seq(S)
  PROVE  /\ s \o t \in Seq(S) /\ Len(s \o t) = Len(s) + Len(t)
         /\ \A i \in 1..Len(s) : (s \o t)[i] = s[i]
         /\ \A i \in 1..Len(t) : (s \o t)[Len(s) + i] = t[i]
<1>1. PICK u : u = s \o t
  OBVIOUS
<1>2. /\ u \in Seq(S) /\ Len(u) = Len(s) + Len(t)
      /\ \A i \in 1..(Len(s) + Len(t)) : u[i] = IF i <= Len(s) THEN s[i] ELSE t[i - Len(s)]
  BY <1>1, ConcatProperties
<1>3. Len(s) \in Nat /\ Len(t) \in Nat
  OBVIOUS
<1>4. \A i \in 1..Len(s) : u[i] = s[i]
  BY <1>2, <1>3
<1>5. ASSUME NEW i \in 1..Len(t)
      PROVE  u[Len(s) + i] = t[i]
  <2>1. Len(s) + i \in 1..(Len(s) + Len(t)) /\ ~(Len(s) + i <= Len(s)) /\ (Len(s) + i) - Len(s) = i
    BY <1>3
  <2> QED
    BY <1>2, <2>1
<1> QED
  BY <1>1, <1>2, <1>4, <1>5, Zenon

LEMMA SameSeq ==
  ASSUME NEW S, NEW s \in Seq(S), NEW t \in Seq(S), Len(s) = Len(t),
         \A i \in 1..Len(s) : s[i] = t[i]
  PROVE  s = t
OBVIOUS

LEMMA TwoAndOne ==
  ASSUME NEW S, NEW x \in S, NEW y \in S, NEW z \in S
  PROVE  <<x, y>> \o <<z>> = <<x, y, z>>
<1>1. PICK s, t : s = <<x, y>> /\ t = <<z>>
  OBVIOUS
<1>2. PICK u : u = s \o t
  OBVIOUS
<1>3. PICK w : w = <<x, y, z>>
  OBVIOUS
<1>4. s \in Seq(S) /\ t \in Seq(S) /\ Len(s) = 2 /\ Len(t) = 1 /\ s[1] = x /\ s[2] = y /\ t[1] = z
  BY <1>1
<1>5. u \in Seq(S) /\ Len(u) = 3 /\ u[1] = x /\ u[2] = y /\ u[3] = z
  <2>1. /\ u \in Seq(S) /\ Len(u) = Len(s) + Len(t)
        /\ \A i \in 1..Len(s) : u[i] = s[i]
        /\ \A i \in 1..Len(t) : u[Len(s) + i] = t[i]
    <3> s \in Seq(S) /\ t \in Seq(S)
      BY <1>4
    <3>1. u \in Seq(S)
      BY <1>2, ConcatEach
    <3>2. Len(u) = Len(s) + Len(t)
      BY <1>2, ConcatEach
    <3>3. \A i \in 1..Len(s) : u[i] = s[i]
      BY <1>2, ConcatEach
    <3>4. \A i \in 1..Len(t) : u[Len(s) + i] = t[i]
      BY <1>2, ConcatEach
    <3> QED
      BY <3>1, <3>2, <3>3, <3>4
  <2>2. 1 \in 1..Len(s) /\ 2 \in 1..Len(s) /\ 1 \in 1..Len(t) /\ Len(u) = 3 /\ Len(s) + 1 = 3
    BY <1>4, <2>1
  <2>3. u[1] = s[1] /\ u[2] = s[2] /\ u[Len(s) + 1] = t[1]
    BY <2>1, <2>2
  <2> QED
    BY <1>4, <2>1, <2>2, <2>3
<1>6. w \in Seq(S) /\ Len(w) = 3 /\ w[1] = x /\ w[2] = y /\ w[3] = z
  BY <1>3
<1>7. u = w
  BY <1>5, <1>6, SameSeq
<1> QED
  BY <1>1, <1>2, <1>3, <1>7

LEMMA ThreeAndTwo ==
  ASSUME NEW S, NEW x \in S, NEW y \in S, NEW z \in S, NEW a \in S, NEW b \in S
  PROVE  <<x, y, z>> \o <<a, b>> = <<x, y, z, a, b>>
<1>1. PICK s, t : s = <<x, y, z>> /\ t = <<a, b>>
  OBVIOUS
<1>2. PICK u : u = s \o t
  OBVIOUS
<1>3. PICK w : w = <<x, y, z, a, b>>
  OBVIOUS
<1>4. /\ s \in Seq(S) /\ t \in Seq(S) /\ Len(s) = 3 /\ Len(t) = 2
      /\ s[1] = x /\ s[2] = y /\ s[3] = z /\ t[1] = a /\ t[2] = b
  BY <1>1
<1>5. u \in Seq(S) /\ Len(u) = 5 /\ u[1] = x /\ u[2] = y /\ u[3] = z /\ u[4] = a /\ u[5] = b
  <2>1. /\ u \in Seq(S) /\ Len(u) = Len(s) + Len(t)
        /\ \A i \in 1..Len(s) : u[i] = s[i]
        /\ \A i \in 1..Len(t) : u[Len(s) + i] = t[i]
    <3> s \in Seq(S) /\ t \in Seq(S)
      BY <1>4
    <3>1. u \in Seq(S)
      BY <1>2, ConcatEach
    <3>2. Len(u) = Len(s) + Len(t)
      BY <1>2, ConcatEach
    <3>3. \A i \in 1..Len(s) : u[i] = s[i]
      BY <1>2, ConcatEach
    <3>4. \A i \in 1..Len(t) : u[Len(s) + i] = t[i]
      BY <1>2, ConcatEach
    <3> QED
      BY <3>1, <3>2, <3>3, <3>4
  <2>2. /\ 1 \in 1..Len(s) /\ 2 \in 1..Len(s) /\ 3 \in 1..Len(s) /\ 1 \in 1..Len(t) /\ 2 \in 1..Len(t)
        /\ Len(u) = 5 /\ Len(s) + 1 = 4 /\ Len(s) + 2 = 5
    BY <1>4, <2>1
  <2>3. u[1] = s[1] /\ u[2] = s[2] /\ u[3] = s[3] /\ u[Len(s) + 1] = t[1] /\ u[Len(s) + 2] = t[2]
    BY <2>1, <2>2
  <2> QED
    BY <1>4, <2>1, <2>2, <2>3
<1>6. w \in Seq(S) /\ Len(w) = 5 /\ w[1] = x /\ w[2] = y /\ w[3] = z /\ w[4] = a /\ w[5] = b
  BY <1>3
<1>7. u = w
  BY <1>5, <1>6, SameSeq
<1> QED
  BY <1>1, <1>2, <1>3, <1>7

\* A statement of three tokens that drops something.
LEMMA DropTokens ==
  ASSUME NEW a \in Grammar, NEW n \in Name, NEW t,
         t = Sentence(Keywords(<<"DROP", a>>) \o <<quoteIdentifier(n)>>)
  PROVE  /\ a = "TABLE" => Parse(t) = [stmt |-> "DROP TABLE", table |-> n]
         /\ a = "TYPE" => Parse(t) = [stmt |-> "DROP TYPE", enum |-> n]
         /\ a = "INDEX" => Parse(t) = [stmt |-> "DROP INDEX", name |-> n]
<1>1. PICK q : q = quoteIdentifier(n)
  OBVIOUS
<1>2. PICK drop : drop = <<"DROP">>
  OBVIOUS
<1>3. PICK k : k = <<a>>
  OBVIOUS
<1>4. "DROP" \in Grammar
  BY DEF Grammar
<1>5. q \in Token /\ drop \in Token /\ k \in Token
  BY <1>1, <1>2, <1>3, <1>4, NamesAreTokens, KeywordIsToken
<1>6. PICK ts : ts = <<drop, k, q>>
  OBVIOUS
<1>7. /\ ts \in Seq(Token) /\ ts # << >> /\ Len(ts) = 3
      /\ ts[1] = drop /\ ts[2] = k /\ ts[3] = q
  BY <1>5, <1>6
<1>8. Keywords(<<"DROP", a>>) \o <<q>> = ts
  <2>1. Keywords(<<"DROP", a>>) = <<drop, k>>
    BY <1>2, <1>3, KeywordsOf, Zenon
  <2>2. <<drop, k>> \o <<q>> = ts
    BY <1>5, <1>6, TwoAndOne
  <2> QED
    BY <2>1, <2>2, Zenon
<1>9. tokenize(t) = ts
  BY <1>1, <1>7, <1>8, SentenceTokens
<1>10. ts[1] \in Keyword /\ ts[2] \in Keyword
  BY <1>2, <1>3, <1>4, <1>7, Zenon DEF Keyword
<1>11. unquoteIdentifier(ts[3]) = n
  BY <1>1, <1>7, NameLeadsBack
<1>12. Len(ts) \in Nat /\ Len(ts) >= 2 /\ ts[1] = <<"DROP">> /\ ts[2] = <<a>>
  BY <1>2, <1>3, <1>7
<1>13. /\ ts[2] = <<"TABLE">> => Parse(t) = [stmt |-> "DROP TABLE", table |-> unquoteIdentifier(ts[3])]
       /\ ts[2] = <<"TYPE">> => Parse(t) = [stmt |-> "DROP TYPE", enum |-> unquoteIdentifier(ts[3])]
       /\ ts[2] = <<"INDEX">> => Parse(t) = [stmt |-> "DROP INDEX", name |-> unquoteIdentifier(ts[3])]
  <2>1. ts = tokenize(t)
    BY <1>9
  <2> QED
    BY <2>1, <1>10, <1>12, ParseIs
<1> QED
  BY <1>11, <1>12, <1>13, Zenon

\* What begins with ALTER TABLE and two keywords, and the tokens behind them.
ReadOnTable(v, a, b, rest) ==
  LET t  == OnTable(v, <<a, b>>, rest)
      ts == tokenize(t)
  IN  /\ Parse(t) = parseAlterTable(ts)
      /\ ts \in Seq(Token) /\ Len(ts) = 5 + Len(rest) /\ unquoteIdentifier(ts[3]) = v.table
      /\ ts[4] = <<a>> /\ ts[5] = <<b>>
      /\ \A i \in 1..Len(rest) : ts[5 + i] = rest[i]

LEMMA OnTableTokens ==
  ASSUME NEW v, v.table \in Name, NEW a \in Grammar, NEW b \in Grammar, NEW rest \in Seq(Token)
  PROVE  ReadOnTable(v, a, b, rest)
<1> DEFINE t == OnTable(v, <<a, b>>, rest)
           ts == tokenize(t)
<1> HIDE DEF t, ts
<1>1. PICK q : q = quoteIdentifier(v.table)
  OBVIOUS
<1>2. {"ALTER", "TABLE"} \subseteq Grammar
  BY DEF Grammar
<1>3. PICK alter, table, k, l : alter = <<"ALTER">> /\ table = <<"TABLE">> /\ k = <<a>> /\ l = <<b>>
  OBVIOUS
<1>4. q \in Token /\ alter \in Token /\ table \in Token /\ k \in Token /\ l \in Token
  BY <1>1, <1>2, <1>3, NamesAreTokens, KeywordIsToken
<1>5. PICK head : head = <<alter, table, q, k, l>>
  OBVIOUS
<1>6. /\ head \in Seq(Token) /\ Len(head) = 5
      /\ head[1] = alter /\ head[2] = table /\ head[3] = q /\ head[4] = k /\ head[5] = l
  BY <1>4, <1>5
<1>7. PICK us : us = head \o rest
  OBVIOUS
<1>8. /\ us \in Seq(Token) /\ Len(us) = 5 + Len(rest)
      /\ us[1] = alter /\ us[2] = table /\ us[3] = q /\ us[4] = k /\ us[5] = l
      /\ \A i \in 1..Len(rest) : us[5 + i] = rest[i]
  <2>1. /\ us \in Seq(Token) /\ Len(us) = Len(head) + Len(rest)
        /\ \A i \in 1..Len(head) : us[i] = head[i]
        /\ \A i \in 1..Len(rest) : us[Len(head) + i] = rest[i]
    <3> head \in Seq(Token) /\ rest \in Seq(Token)
      BY <1>6
    <3>1. us \in Seq(Token)
      BY <1>7, ConcatEach
    <3>2. Len(us) = Len(head) + Len(rest)
      BY <1>7, ConcatEach
    <3>3. \A i \in 1..Len(head) : us[i] = head[i]
      BY <1>7, ConcatEach
    <3>4. \A i \in 1..Len(rest) : us[Len(head) + i] = rest[i]
      BY <1>7, ConcatEach
    <3> QED
      BY <3>1, <3>2, <3>3, <3>4
  <2>2. {1, 2, 3, 4, 5} \subseteq 1..Len(head) /\ Len(us) = 5 + Len(rest)
    BY <1>6, <2>1
  <2>3. us[1] = head[1] /\ us[2] = head[2] /\ us[3] = head[3] /\ us[4] = head[4] /\ us[5] = head[5]
    BY <2>1, <2>2
  <2>4. \A i \in 1..Len(rest) : us[5 + i] = rest[i]
    BY <1>6, <2>1
  <2> QED
    BY <1>6, <2>1, <2>2, <2>3, <2>4
<1>9. t = Sentence(us)
  <2>1. Keywords(<<"ALTER", "TABLE">>) = <<alter, table>> /\ Keywords(<<a, b>>) = <<k, l>>
    BY <1>3, KeywordsOf, Zenon
  <2>2. <<alter, table>> \o <<q>> = <<alter, table, q>>
    BY <1>4, TwoAndOne
  <2>3. <<alter, table, q>> \o <<k, l>> = head
    BY <1>4, <1>5, ThreeAndTwo
  <2>4. t = Sentence(((Keywords(<<"ALTER", "TABLE">>) \o <<q>>) \o Keywords(<<a, b>>)) \o rest)
    BY <1>1, Zenon DEF OnTable, t
  <2> QED
    BY <1>7, <2>1, <2>2, <2>3, <2>4, Zenon
<1>10. ts = us
  <2>1. us # << >>
    BY <1>8
  <2> QED
    BY <1>8, <1>9, <2>1, SentenceTokens DEF ts
<1>11. ts[1] = <<"ALTER">> /\ ts[2] = <<"TABLE">> /\ ts[1] \in Keyword /\ ts[2] \in Keyword
  BY <1>2, <1>3, <1>8, <1>10, Zenon DEF Keyword
<1>12. Len(ts) \in Nat /\ Len(ts) >= 2
  BY <1>8, <1>10
<1>13. Parse(t) = parseAlterTable(ts)
  BY <1>11, <1>12, ParseIs DEF ts
<1>14. unquoteIdentifier(ts[3]) = v.table
  BY <1>1, <1>8, <1>10, NameLeadsBack
<1>15. /\ ts \in Seq(Token) /\ Len(ts) = 5 + Len(rest)
       /\ ts[4] = <<a>> /\ ts[5] = <<b>>
       /\ \A i \in 1..Len(rest) : ts[5 + i] = rest[i]
  BY <1>3, <1>8, <1>10
<1> QED
  BY <1>13, <1>14, <1>15, Zenon DEF ReadOnTable, t, ts

\* DROP COLUMN.
LEMMA OnOneName ==
  ASSUME NEW v, v.table \in Name, NEW n \in Name, NEW t,
         t = OnTable(v, <<"DROP", "COLUMN">>, <<quoteIdentifier(n)>>)
  PROVE  Parse(t) = [stmt |-> "DROP COLUMN", table |-> v.table, column |-> n]
<1>1. PICK rest : rest = <<quoteIdentifier(n)>>
  OBVIOUS
<1>2. PICK q : q = quoteIdentifier(n)
  OBVIOUS
<1>3. q \in Token /\ unquoteIdentifier(q) = n
  BY <1>2, NamesAreTokens, NameLeadsBack
<1>4. rest \in Seq(Token) /\ Len(rest) = 1 /\ rest[1] = q
  BY <1>1, <1>2, <1>3
<1>5. PICK ts : ts = tokenize(t)
  OBVIOUS
<1>6. PICK a, b : a = "DROP" /\ b = "COLUMN"
  OBVIOUS
<1>7. a \in Grammar /\ b \in Grammar /\ t = OnTable(v, <<a, b>>, rest)
  BY <1>1, <1>6, Zenon DEF Grammar
<1>8. /\ Parse(t) = parseAlterTable(ts)
      /\ Len(ts) = 5 + Len(rest) /\ unquoteIdentifier(ts[3]) = v.table
      /\ ts[4] = <<a>> /\ ts[5] = <<b>>
      /\ \A i \in 1..Len(rest) : ts[5 + i] = rest[i]
  <2>1. ReadOnTable(v, a, b, rest)
    BY <1>4, <1>5, <1>7, OnTableTokens, Zenon
  <2> QED
    BY <1>4, <1>5, <1>7, <2>1, Zenon DEF ReadOnTable
<1>9. Len(ts) \in Nat /\ Len(ts) >= 5 /\ ts[6] = q
  <2>1. 1 \in 1..Len(rest) /\ 5 + 1 = 6
    BY <1>4
  <2>2. ts[5 + 1] = rest[1]
    BY <1>8, <2>1
  <2> QED
    BY <1>4, <1>8, <2>1, <2>2
<1>10. ts[4] \in Keyword /\ ts[5] \in Keyword
  BY <1>7, <1>8, Zenon DEF Keyword
<1>11. ts[4] = <<"DROP">> /\ ts[5] = <<"COLUMN">>
         => parseAlterTable(ts) = [stmt |-> "DROP COLUMN", table |-> unquoteIdentifier(ts[3]),
                                   column |-> unquoteIdentifier(ts[6])]
  BY <1>9, <1>10, AlterTableIs
<1> QED
  BY <1>3, <1>6, <1>8, <1>9, <1>11, Zenon

\* RENAME COLUMN.
LEMMA OnTwoNames ==
  ASSUME NEW v, v.table \in Name, NEW n \in Name, NEW m \in Name, NEW t,
         t = OnTable(v, <<"RENAME", "COLUMN">>, <<quoteIdentifier(n), <<"TO">>, quoteIdentifier(m)>>)
  PROVE  Parse(t) = [stmt |-> "RENAME COLUMN", table |-> v.table, column |-> n, to |-> m]
<1>1. PICK rest : rest = <<quoteIdentifier(n), <<"TO">>, quoteIdentifier(m)>>
  OBVIOUS
<1>2. PICK q, to, r : q = quoteIdentifier(n) /\ to = <<"TO">> /\ r = quoteIdentifier(m)
  OBVIOUS
<1>3. q \in Token /\ to \in Token /\ r \in Token /\ unquoteIdentifier(q) = n /\ unquoteIdentifier(r) = m
  <2>1. "TO" \in Grammar
    BY DEF Grammar
  <2> QED
    BY <1>2, <2>1, NamesAreTokens, NameLeadsBack, KeywordIsToken
<1>4. rest \in Seq(Token) /\ Len(rest) = 3 /\ rest[1] = q /\ rest[3] = r
  BY <1>1, <1>2, <1>3
<1>5. PICK ts : ts = tokenize(t)
  OBVIOUS
<1>6. PICK a, b : a = "RENAME" /\ b = "COLUMN"
  OBVIOUS
<1>7. a \in Grammar /\ b \in Grammar /\ t = OnTable(v, <<a, b>>, rest)
  BY <1>1, <1>6, Zenon DEF Grammar
<1>8. /\ Parse(t) = parseAlterTable(ts)
      /\ Len(ts) = 5 + Len(rest) /\ unquoteIdentifier(ts[3]) = v.table
      /\ ts[4] = <<a>> /\ ts[5] = <<b>>
      /\ \A i \in 1..Len(rest) : ts[5 + i] = rest[i]
  <2>1. ReadOnTable(v, a, b, rest)
    BY <1>4, <1>5, <1>7, OnTableTokens, Zenon
  <2> QED
    BY <1>4, <1>5, <1>7, <2>1, Zenon DEF ReadOnTable
<1>9. Len(ts) \in Nat /\ Len(ts) >= 5 /\ ts[6] = q /\ ts[8] = r
  <2>1. 1 \in 1..Len(rest) /\ 3 \in 1..Len(rest) /\ 5 + 1 = 6 /\ 5 + 3 = 8
    BY <1>4
  <2>2. ts[5 + 1] = rest[1] /\ ts[5 + 3] = rest[3]
    BY <1>8, <2>1
  <2> QED
    BY <1>4, <1>8, <2>1, <2>2
<1>10. ts[4] \in Keyword /\ ts[5] \in Keyword
  BY <1>7, <1>8, Zenon DEF Keyword
<1>11. ts[4] = <<"RENAME">> /\ ts[5] = <<"COLUMN">>
         => parseAlterTable(ts) = [stmt |-> "RENAME COLUMN", table |-> unquoteIdentifier(ts[3]),
                                   column |-> unquoteIdentifier(ts[6]),
                                   to |-> unquoteIdentifier(ts[8])]
  BY <1>9, <1>10, AlterTableIs
<1> QED
  BY <1>3, <1>6, <1>8, <1>9, <1>11, Zenon

\* ADD CONSTRAINT and DROP CONSTRAINT.
LEMMA OnConstraint ==
  ASSUME NEW v, v.table \in Name, NEW a \in Grammar, NEW rest \in Seq(Token), NEW t,
         t = OnTable(v, <<a, "CONSTRAINT">>, rest)
  PROVE  Parse(t) = Error
<1>1. PICK b : b = "CONSTRAINT"
  OBVIOUS
<1>2. a \in Grammar /\ b \in Grammar /\ t = OnTable(v, <<a, b>>, rest)
  BY <1>1, Zenon DEF Grammar
<1>3. PICK ts : ts = tokenize(t)
  OBVIOUS
<1>4. /\ Parse(t) = parseAlterTable(ts) /\ Len(ts) = 5 + Len(rest)
      /\ ts[4] = <<a>> /\ ts[5] = <<b>>
  <2>1. ReadOnTable(v, a, b, rest)
    BY <1>2, <1>3, OnTableTokens, Zenon
  <2> QED
    BY <1>2, <1>3, <2>1, Zenon DEF ReadOnTable
<1>5. Len(ts) \in Nat /\ Len(ts) >= 5
  BY <1>4
<1>6. ts[4] \in Keyword /\ ts[5] \in Keyword
  BY <1>2, <1>4, Zenon DEF Keyword
<1>7. ts[5] = <<"CONSTRAINT">> => parseAlterTable(ts) = Error
  BY <1>5, <1>6, AlterTableIs
<1> QED
  BY <1>1, <1>4, <1>7

\* What ALTER COLUMN has behind the column is its clause.
LEMMA OnColumnTokens ==
  ASSUME NEW v, v.table \in Name, v.column \in Name, NEW words \in Seq(Grammar), NEW t,
         t = OnColumn(v, words, << >>)
  PROVE  Parse(t) = parseAlterColumn(v.table, v.column, Keywords(words))
<1>1. PICK q : q = quoteIdentifier(v.column)
  OBVIOUS
<1>2. q \in Token /\ unquoteIdentifier(q) = v.column
  BY <1>1, NamesAreTokens, NameLeadsBack
<1>3. PICK clause : clause = Keywords(words)
  OBVIOUS
<1>4. clause \in Seq(Token)
  <2>1. \A w \in Grammar : <<w>> \in Token
    BY KeywordIsToken
  <2>2. clause = [i \in 1..Len(words) |-> <<words[i]>>] /\ Len(words) \in Nat
    BY <1>3 DEF Keywords
  <2> QED
    BY <2>1, <2>2
<1>5. PICK one : one = <<q>>
  OBVIOUS
<1>6. one \in Seq(Token) /\ Len(one) = 1 /\ one[1] = q
  BY <1>2, <1>5
<1>7. PICK rest : rest = one \o clause
  OBVIOUS
<1>8. /\ rest \in Seq(Token) /\ Len(rest) = 1 + Len(clause) /\ rest[1] = q
      /\ \A i \in 1..Len(clause) : rest[1 + i] = clause[i]
  <2> one \in Seq(Token) /\ clause \in Seq(Token)
    BY <1>4, <1>6
  <2>1. rest \in Seq(Token)
    BY <1>7, ConcatEach
  <2>2. Len(rest) = Len(one) + Len(clause)
    BY <1>7, ConcatEach
  <2>3. \A i \in 1..Len(one) : rest[i] = one[i]
    BY <1>7, ConcatEach
  <2>4. \A i \in 1..Len(clause) : rest[Len(one) + i] = clause[i]
    BY <1>7, ConcatEach
  <2>5. 1 \in 1..Len(one)
    BY <1>6
  <2> QED
    BY <1>6, <2>1, <2>2, <2>3, <2>4, <2>5
<1>9. PICK a, b : a = "ALTER" /\ b = "COLUMN"
  OBVIOUS
<1>10. a \in Grammar /\ b \in Grammar
  BY <1>9, Zenon DEF Grammar
<1>11. t = OnTable(v, <<a, b>>, rest)
  <2>1. t = OnTable(v, <<"ALTER", "COLUMN">>, (<<q>> \o Keywords(words)) \o << >>)
    BY <1>1, Zenon DEF OnColumn
  <2>2. rest \o << >> = rest
    BY <1>8
  <2> QED
    BY <1>3, <1>5, <1>7, <1>9, <2>1, <2>2, Zenon
<1>12. PICK ts : ts = tokenize(t)
  OBVIOUS
<1>13. /\ Parse(t) = parseAlterTable(ts)
       /\ ts \in Seq(Token) /\ Len(ts) = 5 + Len(rest) /\ unquoteIdentifier(ts[3]) = v.table
       /\ ts[4] = <<a>> /\ ts[5] = <<b>>
       /\ \A i \in 1..Len(rest) : ts[5 + i] = rest[i]
  <2>1. ReadOnTable(v, a, b, rest)
    BY <1>8, <1>10, <1>11, <1>12, OnTableTokens, Zenon
  <2> QED
    BY <1>8, <1>10, <1>11, <1>12, <2>1, Zenon DEF ReadOnTable
<1>14. Len(clause) \in Nat
  BY <1>4
<1>15. Len(ts) \in Nat /\ Len(ts) = 6 + Len(clause) /\ Len(ts) >= 5 /\ ts[6] = q
  <2>1. 1 \in 1..Len(rest) /\ 5 + 1 = 6
    BY <1>8, <1>14
  <2>2. ts[5 + 1] = rest[1]
    BY <1>13, <2>1
  <2> QED
    BY <1>8, <1>13, <1>14, <2>1, <2>2
<1>16. From(ts, 7) = clause
  <2>1. PICK from : from = SubSeq(ts, 7, Len(ts))
    OBVIOUS
  <2>2. /\ from \in Seq(Token) /\ Len(from) = Len(clause)
        /\ \A i \in 1..Len(clause) : from[i] = ts[6 + i]
    BY <1>13, <1>14, <1>15, <2>1
  <2>3. ASSUME NEW i \in 1..Len(clause)
        PROVE  from[i] = clause[i]
    <3>1. 1 + i \in 1..Len(rest) /\ 5 + (1 + i) = 6 + i
      BY <1>8, <1>14
    <3>2. ts[5 + (1 + i)] = rest[1 + i]
      BY <1>13, <3>1
    <3>3. ts[6 + i] = rest[1 + i]
      BY <3>1, <3>2
    <3> QED
      BY <1>8, <2>2, <3>3
  <2>4. from = clause
    BY <1>4, <2>2, <2>3, SameSeq
  <2> QED
    BY <2>1, <2>4, Zenon DEF From
<1>17. ts[4] \in Keyword /\ ts[5] \in Keyword
  BY <1>10, <1>13, Zenon DEF Keyword
<1>18. ts[4] = <<"ALTER">> /\ ts[5] = <<"COLUMN">>
         => parseAlterTable(ts) = parseAlterColumn(unquoteIdentifier(ts[3]),
                                                   unquoteIdentifier(ts[6]), From(ts, 7))
  BY <1>15, <1>17, AlterTableIs
<1> QED
  BY <1>2, <1>3, <1>9, <1>13, <1>15, <1>16, <1>18, Zenon

LEMMA FiveAndOne ==
  ASSUME NEW S, NEW x \in S, NEW y \in S, NEW z \in S, NEW a \in S, NEW b \in S, NEW c \in S
  PROVE  <<x, y, z, a, b>> \o <<c>> = <<x, y, z, a, b, c>>
<1>1. PICK s, t : s = <<x, y, z, a, b>> /\ t = <<c>>
  OBVIOUS
<1>2. PICK u : u = s \o t
  OBVIOUS
<1>3. PICK w : w = <<x, y, z, a, b, c>>
  OBVIOUS
<1>4. /\ s \in Seq(S) /\ t \in Seq(S) /\ Len(s) = 5 /\ Len(t) = 1
      /\ s[1] = x /\ s[2] = y /\ s[3] = z /\ s[4] = a /\ s[5] = b /\ t[1] = c
  BY <1>1
<1>5. /\ u \in Seq(S) /\ Len(u) = 6
      /\ u[1] = x /\ u[2] = y /\ u[3] = z /\ u[4] = a /\ u[5] = b /\ u[6] = c
  <2> s \in Seq(S) /\ t \in Seq(S)
    BY <1>4
  <2>1. u \in Seq(S)
    BY <1>2, ConcatEach
  <2>2. Len(u) = Len(s) + Len(t)
    BY <1>2, ConcatEach
  <2>3. \A i \in 1..Len(s) : u[i] = s[i]
    BY <1>2, ConcatEach
  <2>4. \A i \in 1..Len(t) : u[Len(s) + i] = t[i]
    BY <1>2, ConcatEach
  <2>5. {1, 2, 3, 4, 5} \subseteq 1..Len(s) /\ 1 \in 1..Len(t) /\ Len(u) = 6 /\ Len(s) + 1 = 6
    BY <1>4, <2>2
  <2>6. u[1] = s[1] /\ u[2] = s[2] /\ u[3] = s[3] /\ u[4] = s[4] /\ u[5] = s[5] /\ u[Len(s) + 1] = t[1]
    BY <2>3, <2>4, <2>5
  <2> QED
    BY <1>4, <2>1, <2>5, <2>6
<1>6. /\ w \in Seq(S) /\ Len(w) = 6
      /\ w[1] = x /\ w[2] = y /\ w[3] = z /\ w[4] = a /\ w[5] = b /\ w[6] = c
  BY <1>3
<1>7. u = w
  BY <1>5, <1>6, SameSeq
<1> QED
  BY <1>1, <1>2, <1>3, <1>7

\* ALTER TYPE ADD VALUE is read for what the builder does not know.
LEMMA AddValueTokens ==
  ASSUME NEW e \in Name, NEW l \in Name, NEW t,
         t = Sentence(Keywords(<<"ALTER", "TYPE">>) \o <<quoteIdentifier(e)>>
                        \o Keywords(<<"ADD", "VALUE">>) \o <<<<Mark>> \o l \o <<Mark>>>>)
  PROVE  Parse(t) = Error
<1>1. PICK q, r : q = quoteIdentifier(e) /\ r = <<Mark>> \o l \o <<Mark>>
  OBVIOUS
<1>2. PICK alter, type, add, value :
        alter = <<"ALTER">> /\ type = <<"TYPE">> /\ add = <<"ADD">> /\ value = <<"VALUE">>
  OBVIOUS
<1>3. {"ALTER", "TYPE", "ADD", "VALUE"} \subseteq Grammar
  BY DEF Grammar
<1>4. /\ alter \in Token /\ type \in Token /\ add \in Token /\ value \in Token
      /\ q \in Token /\ r \in Token
  BY <1>1, <1>2, <1>3, NamesAreTokens, KeywordIsToken
<1>5. PICK ts : ts = <<alter, type, q, add, value, r>>
  OBVIOUS
<1>6. /\ ts \in Seq(Token) /\ ts # << >> /\ Len(ts) = 6
      /\ ts[1] = alter /\ ts[2] = type /\ ts[3] = q /\ ts[6] = r
  BY <1>4, <1>5
<1>7. t = Sentence(ts)
  <2>1. Keywords(<<"ALTER", "TYPE">>) = <<alter, type>> /\ Keywords(<<"ADD", "VALUE">>) = <<add, value>>
    BY <1>2, KeywordsOf, Zenon
  <2>2. <<alter, type>> \o <<q>> = <<alter, type, q>>
    BY <1>4, TwoAndOne
  <2>3. <<alter, type, q>> \o <<add, value>> = <<alter, type, q, add, value>>
    BY <1>4, ThreeAndTwo
  <2>4. <<alter, type, q, add, value>> \o <<r>> = ts
    BY <1>4, <1>5, FiveAndOne
  <2>5. t = Sentence(((Keywords(<<"ALTER", "TYPE">>) \o <<q>>) \o Keywords(<<"ADD", "VALUE">>)) \o <<r>>)
    BY <1>1, Zenon
  <2> QED
    BY <2>1, <2>2, <2>3, <2>4, <2>5, Zenon
<1>8. ts = tokenize(t)
  BY <1>6, <1>7, SentenceTokens
<1>9. ts[1] = <<"ALTER">> /\ ts[2] = <<"TYPE">> /\ ts[1] \in Keyword /\ ts[2] \in Keyword
  BY <1>2, <1>3, <1>6, Zenon DEF Keyword
<1>10. Len(ts) \in Nat /\ Len(ts) >= 2
  BY <1>6
<1> QED
  BY <1>8, <1>9, <1>10, ParseIs

\* What an error is not.
LEMMA ErrorIsNone ==
  ASSUME NEW v \in Statement
  PROVE  v # Error
<1>1. Error.stmt = "error"
  BY DEF Error
<1>2. v.stmt # "error"
  BY KindsAre DEF IsCreateTable, IsOfTable, IsAddColumn, IsOfColumn, IsRename, IsAlterType,
       IsSetDefault, IsCreateIndex, IsDropIndex, IsAddConstraint, IsDropConstraint, IsCreateType,
       IsAddValue, IsDropType
<1> QED
  BY <1>1, <1>2

\* Alone in its file a statement is read back or refused.
LEMMA AloneRead ==
  ASSUME NEW v \in Statement, Parse(Spell(v)) = v, Unquoted(v),
         v.stmt \in {"DROP TABLE", "DROP COLUMN", "RENAME COLUMN", "SET NOT NULL", "DROP NOT NULL",
                     "DROP DEFAULT", "DROP INDEX", "DROP TYPE"}
  PROVE  Alone(v)
<1>1. Readable(v) /\ ~CutsShort(v) /\ ~Refused(v)
  BY NamesReadable
<1>2. v # Error
  BY ErrorIsNone
<1> QED
  BY <1>1, <1>2, Zenon DEF Alone

LEMMA AloneRefused ==
  ASSUME NEW v \in Statement, Parse(Spell(v)) = Error,
         v.stmt \in {"ADD CONSTRAINT", "DROP CONSTRAINT", "ADD VALUE"}
  PROVE  Alone(v)
<1>1. ~Readable(v) /\ ~CutsShort(v) /\ Refused(v)
  BY NamesReadable
<1>2. v # Error
  BY ErrorIsNone
<1>3. Unquoted(Error)
  BY DEF Error, Unquoted
<1> QED
  BY <1>1, <1>2, <1>3, Zenon DEF Alone

\* A statement made of names and alone in its file is read back, whatever words its names have and
\* whether they are quoted or not, but for one that adds or drops a constraint or adds a value, which
\* is refused: tokenize takes apart what the generator puts together, and parseAlterTable and the
\* branches for DROP find each part in its place (parser.go:66, parser.go:442, parser.go:940, builder.go:42).
THEOREM OfNamesAlone ==
  ASSUME NEW v \in Statement, IsOfNames(v)
  PROVE  Alone(v)
<1>1. CASE IsOfTable(v)
  <2>1. PICK a : a = "TABLE"
    OBVIOUS
  <2>2. a \in Grammar
    BY <2>1 DEF Grammar
  <2>3. Spell(v) = Sentence(Keywords(<<"DROP", a>>) \o <<quoteIdentifier(v.table)>>)
    BY <1>1, <2>1, Zenon DEF Spell, IsOfTable
  <2>4. Parse(Spell(v)) = [stmt |-> "DROP TABLE", table |-> v.table]
    BY <1>1, <2>1, <2>2, <2>3, DropTokens DEF IsOfTable
  <2>5. Parse(Spell(v)) = v
    BY <1>1, <2>4, Zenon DEF IsOfTable
  <2>6. Unquoted(v)
    BY <1>1, NameUnquoted DEF IsOfTable, Unquoted
  <2> QED
    BY <1>1, <2>5, <2>6, AloneRead DEF IsOfTable
<1>2. CASE IsDropType(v)
  <2>1. PICK a : a = "TYPE"
    OBVIOUS
  <2>2. a \in Grammar
    BY <2>1 DEF Grammar
  <2>3. Spell(v) = Sentence(Keywords(<<"DROP", a>>) \o <<quoteIdentifier(v.enum)>>)
    BY <1>2, <2>1, Zenon DEF Spell, IsDropType
  <2>4. Parse(Spell(v)) = [stmt |-> "DROP TYPE", enum |-> v.enum]
    BY <1>2, <2>1, <2>2, <2>3, DropTokens DEF IsDropType
  <2>5. Parse(Spell(v)) = v
    BY <1>2, <2>4, Zenon DEF IsDropType
  <2>6. Unquoted(v)
    BY <1>2, NameUnquoted DEF IsDropType, Unquoted
  <2> QED
    BY <1>2, <2>5, <2>6, AloneRead DEF IsDropType
<1>3. CASE IsDropIndex(v)
  <2>1. PICK a : a = "INDEX"
    OBVIOUS
  <2>2. a \in Grammar
    BY <2>1 DEF Grammar
  <2>3. Spell(v) = Sentence(Keywords(<<"DROP", a>>) \o <<quoteIdentifier(v.name)>>)
    BY <1>3, <2>1, Zenon DEF Spell, IsDropIndex
  <2>4. Parse(Spell(v)) = [stmt |-> "DROP INDEX", name |-> v.name]
    BY <1>3, <2>1, <2>2, <2>3, DropTokens DEF IsDropIndex
  <2>5. Parse(Spell(v)) = v
    BY <1>3, <2>4, Zenon DEF IsDropIndex
  <2>6. Unquoted(v)
    BY <1>3, NameUnquoted DEF IsDropIndex, Unquoted
  <2> QED
    BY <1>3, <2>5, <2>6, AloneRead DEF IsDropIndex
<1>4. CASE IsAddValue(v)
  <2>1. Spell(v) = Sentence(Keywords(<<"ALTER", "TYPE">>) \o <<quoteIdentifier(v.enum)>>
                              \o Keywords(<<"ADD", "VALUE">>) \o <<<<Mark>> \o v.value \o <<Mark>>>>)
    BY <1>4, Zenon DEF Spell, IsAddValue, Mark
  <2>2. Parse(Spell(v)) = Error
    BY <1>4, <2>1, AddValueTokens, Zenon DEF IsAddValue
  <2> QED
    BY <1>4, <2>2, AloneRefused DEF IsAddValue
<1>5. CASE IsRename(v)
  <2>1. Spell(v) = OnTable(v, <<"RENAME", "COLUMN">>,
                           <<quoteIdentifier(v.column), <<"TO">>, quoteIdentifier(v.to)>>)
    BY <1>5, Zenon DEF Spell, IsRename
  <2>2. Parse(Spell(v)) = [stmt |-> "RENAME COLUMN", table |-> v.table, column |-> v.column, to |-> v.to]
    <3>1. PICK n, m : n = v.column /\ m = v.to
      OBVIOUS
    <3>2. v.table \in Name /\ n \in Name /\ m \in Name
      BY <1>5, <3>1, Zenon DEF IsRename
    <3>3. Spell(v) = OnTable(v, <<"RENAME", "COLUMN">>, <<quoteIdentifier(n), <<"TO">>, quoteIdentifier(m)>>)
      BY <2>1, <3>1, Zenon
    <3>4. Parse(Spell(v)) = [stmt |-> "RENAME COLUMN", table |-> v.table, column |-> n, to |-> m]
      BY ONLY <3>2, <3>3, OnTwoNames, Zenon
    <3> QED
      BY <3>1, <3>4
  <2>3. Parse(Spell(v)) = v
    BY <1>5, <2>2, Zenon DEF IsRename
  <2>4. Unquoted(v)
    BY <1>5, NameUnquoted DEF IsRename, Unquoted
  <2> QED
    BY <1>5, <2>3, <2>4, AloneRead DEF IsRename
<1>6. CASE IsOfColumn(v)
  <2>1. Parse(Spell(v)) = [stmt |-> v.stmt, table |-> v.table, column |-> v.column]
    <3>1. CASE v.stmt = "DROP COLUMN"
      <4>1. Spell(v) = OnTable(v, <<"DROP", "COLUMN">>, <<quoteIdentifier(v.column)>>)
        BY <3>1, Zenon DEF Spell
      <4>2. Parse(Spell(v)) = [stmt |-> "DROP COLUMN", table |-> v.table, column |-> v.column]
        BY <1>6, <4>1, OnOneName, Zenon DEF IsOfColumn
      <4> QED
        BY <3>1, <4>2
    <3>2. CASE v.stmt = "SET NOT NULL"
      <4>1. PICK words : words = <<"SET", "NOT", "NULL">>
        OBVIOUS
      <4>2. words \in Seq(Grammar) /\ Spell(v) = OnColumn(v, words, << >>)
        <5>1. words \in Seq(Grammar)
          BY <4>1 DEF Grammar
        <5>2. Spell(v) = OnColumn(v, words, << >>)
          BY <3>2, <4>1, Zenon DEF Spell
        <5> QED
          BY <5>1, <5>2
      <4>3. Parse(Spell(v)) = parseAlterColumn(v.table, v.column, Keywords(words))
        BY <1>6, <4>2, OnColumnTokens, Zenon DEF IsOfColumn
      <4>4. Keywords(words) = <<<<"SET">>, <<"NOT">>, <<"NULL">>>>
        BY <4>1, KeywordsOf, Zenon
      <4> QED
        BY <3>2, <4>3, <4>4, AlterColumnIs, Zenon
    <3>3. CASE v.stmt = "DROP NOT NULL"
      <4>1. PICK words : words = <<"DROP", "NOT", "NULL">>
        OBVIOUS
      <4>2. words \in Seq(Grammar) /\ Spell(v) = OnColumn(v, words, << >>)
        <5>1. words \in Seq(Grammar)
          BY <4>1 DEF Grammar
        <5>2. Spell(v) = OnColumn(v, words, << >>)
          BY <3>3, <4>1, Zenon DEF Spell
        <5> QED
          BY <5>1, <5>2
      <4>3. Parse(Spell(v)) = parseAlterColumn(v.table, v.column, Keywords(words))
        BY <1>6, <4>2, OnColumnTokens, Zenon DEF IsOfColumn
      <4>4. Keywords(words) = <<<<"DROP">>, <<"NOT">>, <<"NULL">>>>
        BY <4>1, KeywordsOf, Zenon
      <4> QED
        BY <3>3, <4>3, <4>4, AlterColumnIs, Zenon
    <3>4. CASE v.stmt = "DROP DEFAULT"
      <4>1. PICK words : words = <<"DROP", "DEFAULT">>
        OBVIOUS
      <4>2. words \in Seq(Grammar) /\ Spell(v) = OnColumn(v, words, << >>)
        <5>1. words \in Seq(Grammar)
          BY <4>1 DEF Grammar
        <5>2. Spell(v) = OnColumn(v, words, << >>)
          BY <3>4, <4>1, Zenon DEF Spell
        <5> QED
          BY <5>1, <5>2
      <4>3. Parse(Spell(v)) = parseAlterColumn(v.table, v.column, Keywords(words))
        BY <1>6, <4>2, OnColumnTokens, Zenon DEF IsOfColumn
      <4>4. Keywords(words) = <<<<"DROP">>, <<"DEFAULT">>>>
        BY <4>1, KeywordsOf, Zenon
      <4> QED
        BY <3>4, <4>3, <4>4, AlterColumnIs, Zenon
    <3> QED
      BY <1>6, <3>1, <3>2, <3>3, <3>4, Zenon DEF IsOfColumn
  <2>2. Parse(Spell(v)) = v
    BY <1>6, <2>1, Zenon DEF IsOfColumn
  <2>3. Unquoted(v)
    <3>1. DOMAIN v = {"stmt", "table", "column"}
      BY <1>6, Zenon DEF IsOfColumn
    <3>2. ToSet(v["table"]) \cap Quotes = {} /\ ToSet(v["column"]) \cap Quotes = {}
      BY <1>6, NameUnquoted DEF IsOfColumn
    <3> QED
      BY <3>1, <3>2 DEF Unquoted
  <2> QED
    <3>1. v.stmt \in {"DROP TABLE", "DROP COLUMN", "RENAME COLUMN", "SET NOT NULL", "DROP NOT NULL",
                     "DROP DEFAULT", "DROP INDEX", "DROP TYPE"}
      BY <1>6, Zenon DEF IsOfColumn
    <3> QED
      BY <2>2, <2>3, <3>1, AloneRead
<1>7. CASE IsDropConstraint(v)
  <2>1. PICK a, rest : a = "DROP" /\ rest = <<quoteIdentifier(v.name)>>
    OBVIOUS
  <2>2. a \in Grammar /\ rest \in Seq(Token)
    <3>1. quoteIdentifier(v.name) \in Token
      BY <1>7, NamesAreTokens DEF IsDropConstraint
    <3> QED
      BY <2>1, <3>1 DEF Grammar
  <2>3. Spell(v) = OnTable(v, <<a, "CONSTRAINT">>, rest)
    BY <1>7, <2>1, Zenon DEF Spell, IsDropConstraint
  <2>4. Parse(Spell(v)) = Error
    BY <1>7, <2>2, <2>3, OnConstraint, Zenon DEF IsDropConstraint
  <2> QED
    BY <1>7, <2>4, AloneRefused DEF IsDropConstraint
<1>8. CASE IsAddConstraint(v)
  <2>1. PICK rest : rest = <<quoteIdentifier(v.name)>> \o Keywords(<<"FOREIGN", "KEY">>)
                             \o <<formatColumnList(v.cols), <<"REFERENCES">>,
                                  quoteIdentifier(v.refTable), formatColumnList(v.refCols)>>
    OBVIOUS
  <2>2. rest \in Seq(Token)
    <3>1. PICK a, b, c, d, e, f, g :
            /\ a = quoteIdentifier(v.name) /\ b = <<"FOREIGN">> /\ c = <<"KEY">>
            /\ d = formatColumnList(v.cols) /\ e = <<"REFERENCES">> /\ f = quoteIdentifier(v.refTable)
            /\ g = formatColumnList(v.refCols)
      OBVIOUS
    <3>2. {"FOREIGN", "KEY", "REFERENCES"} \subseteq Grammar
      BY DEF Grammar
    <3>3. a \in Token /\ b \in Token /\ c \in Token /\ d \in Token /\ e \in Token /\ f \in Token /\ g \in Token
      BY <1>8, <3>1, <3>2, NamesAreTokens, KeywordIsToken DEF IsAddConstraint
    <3>4. PICK l, m, r : l = <<a>> /\ m = <<b, c>> /\ r = <<d, e, f, g>>
      OBVIOUS
    <3>5. l \in Seq(Token) /\ m \in Seq(Token) /\ r \in Seq(Token)
      BY <3>3, <3>4
    <3>6. (l \o m) \o r \in Seq(Token)
      BY <3>5, ConcatProperties
    <3>7. rest = (l \o m) \o r
      BY <2>1, <3>1, <3>4, KeywordsOf, Zenon
    <3> QED
      BY <3>6, <3>7
  <2>3. PICK a : a = "ADD"
    OBVIOUS
  <2>4. a \in Grammar /\ Spell(v) = OnTable(v, <<a, "CONSTRAINT">>, rest)
    BY <1>8, <2>1, <2>3, Zenon DEF Spell, Grammar, IsAddConstraint
  <2>5. Parse(Spell(v)) = Error
    BY <1>8, <2>2, <2>4, OnConstraint, Zenon DEF IsAddConstraint
  <2> QED
    BY <1>8, <2>5, AloneRefused DEF IsAddConstraint
<1>9. ~IsCreateTable(v) /\ ~IsAddColumn(v) /\ ~IsAlterType(v) /\ ~IsSetDefault(v) /\ ~IsCreateIndex(v)
      /\ ~IsCreateType(v)
  BY Zenon DEF IsOfNames, IsCreateTable, IsAddColumn, IsAlterType, IsSetDefault, IsCreateIndex, IsCreateType
<1> QED
  BY <1>1, <1>2, <1>3, <1>4, <1>5, <1>6, <1>7, <1>8, <1>9, KindsAre, Zenon

-----------------------------------------------------------------------------
(***************************************************************************)
(* What holds of a file where it holds of each of its statements alone.    *)
(***************************************************************************)
\* A statement of names is self-contained, for it has no default.
LEMMA OfNamesContained ==
  ASSUME NEW v \in Statement, IsOfNames(v)
  PROVE  SelfContained(v) /\ Alone(v) /\ WellQuoted(v) /\ ~CutsShort(v)
<1>1. v.stmt # "CREATE TABLE" /\ v.stmt # "ADD COLUMN" /\ v.stmt # "SET DEFAULT"
  BY Zenon DEF IsOfNames
<1>2. DefaultsIn(v) = {}
  BY <1>1, Zenon DEF DefaultsIn
<1>3. SelfContained(v)
  BY <1>2, ClosingDefaultsSelfContained
<1>4. WellQuoted(v)
  BY <1>2 DEF WellQuoted
<1>5. ~CutsShort(v)
  BY <1>1, Zenon DEF CutsShort
<1> QED
  BY <1>3, <1>4, <1>5, OfNamesAlone

\* Wherever it stands in a file whose statements close their quotes up to there, a statement of
\* names that is not refused is read back, whatever the defaults before and behind it hold
\* (loader.go:147, parser.go:19).
THEOREM NamesKept ==
  Spec => [](\A i \in DOMAIN read : Apart(i) /\ IsOfNames(stmts[i]) => read[i] = stmts[i])
<1>1. ASSUME IInv, NEW i \in DOMAIN read, Apart(i), IsOfNames(stmts[i])
      PROVE  read[i] = stmts[i]
  <2>1. read[i] = Parse(Spell(stmts[i])) /\ Parse(Spell(stmts[i])) # Error
    BY <1>1, EachAloneIs DEF IInv, Sound
  <2>2. stmts[i] \in Statement
    <3>1. stmts \in Seq(Statement) /\ Len(stmts) \in Nat /\ i \in 1..Len(read) /\ Len(read) \in Nat
      BY <1>1, ReadIs DEF IInv
    <3>2. i <= Len(stmts)
      BY <1>1 DEF Apart
    <3> QED
      BY <3>1, <3>2
  <2>3. Alone(stmts[i]) /\ ~CutsShort(stmts[i])
    BY <1>1, <2>2, OfNamesContained
  <2>4. ~Refused(stmts[i])
    BY <2>1, <2>3, Zenon DEF Alone
  <2>5. Readable(stmts[i])
    BY <1>1, <2>4, NamesReadable, Zenon DEF IsOfNames
  <2> QED
    BY <2>1, <2>3, <2>5, Zenon DEF Alone
<1>2. IInv => \A i \in DOMAIN read : Apart(i) /\ IsOfNames(stmts[i]) => read[i] = stmts[i]
  BY <1>1
<1> QED
  BY <1>2, Invariance, PTL

\* A file of statements of names, of whatever length, is read back as it was written if none of them
\* adds or drops a constraint or adds a value, and is refused if one does; and no name keeps its
\* quotes (parser.go:19, builder.go:42).
THEOREM NamesReadBack ==
  Spec => []((\A i \in DOMAIN stmts : IsOfNames(stmts[i])) => TypeOK /\ ReadBack /\ RefusalsAreKnown)
<1>1. ASSUME IInv, \A i \in DOMAIN stmts : IsOfNames(stmts[i])
      PROVE  TypeOK /\ ReadBack /\ RefusalsAreKnown
  <2>1. /\ stmts \in Files /\ stmts \in Seq(Statement) /\ Len(stmts) \in Nat
        /\ DOMAIN stmts = 1..Len(stmts)
        /\ Len(read) \in Nat /\ DOMAIN read = 1..Len(read) /\ read = [i \in 1..Len(read) |-> read[i]]
    BY <1>1, ReadIs DEF IInv
  <2>2. \A i \in DOMAIN stmts : /\ stmts[i] \in Statement
                               /\ SelfContained(stmts[i]) /\ Alone(stmts[i])
                               /\ WellQuoted(stmts[i]) /\ ~CutsShort(stmts[i])
    BY <1>1, <2>1, OfNamesContained
  <2>3. \A n \in 0..Len(stmts) : Apart(n)
    BY <2>1, <2>2 DEF Apart
  <2>4. ASSUME NEW i \in DOMAIN stmts
        PROVE  /\ Parse(Spell(stmts[i])) = stmts[i] <=> Readable(stmts[i])
               /\ Parse(Spell(stmts[i])) = Error <=> Refused(stmts[i])
               /\ Unquoted(Parse(Spell(stmts[i])))
    <3>1. Alone(stmts[i]) /\ ~CutsShort(stmts[i])
      BY <2>2
    <3> QED
      BY <3>1, Zenon DEF Alone
  <2>16. Len(stmts) \in Nat /\ DOMAIN stmts = 1..Len(stmts) /\ Len(read) \in Nat /\ DOMAIN read = 1..Len(read)
    BY <2>1
  <2>5. /\ Len(read) <= Len(stmts)
        /\ status = "read" => Len(read) = Len(stmts)
        /\ status = "refused" => Len(read) < Len(stmts)
    <3>1. Apart(Len(stmts))
      BY <2>16, <2>3
    <3> QED
      <4>1. EachAlone
        BY <1>1 DEF IInv
      <4> QED
        BY <1>1, <3>1, <4>1, EachAloneIs DEF IInv
  <2>17. DOMAIN read \subseteq DOMAIN stmts
    <3>1. PICK n, l : n = Len(read) /\ l = Len(stmts)
      OBVIOUS
    <3>2. n \in Nat /\ l \in Nat /\ n <= l /\ DOMAIN read = 1..n /\ DOMAIN stmts = 1..l
      BY <2>5, <2>16, <3>1
    <3>3. 1..n \subseteq 1..l
      BY <3>2
    <3> QED
      BY <3>2, <3>3
  <2>6. \A i \in DOMAIN read : Apart(i)
    <3>1. \A i \in DOMAIN read : i \in 0..Len(stmts)
      BY <2>16, <2>17
    <3> QED
      BY <2>3, <3>1
  <2>7. \A i \in DOMAIN read : Sound(i)
    BY <1>1, <2>6, EachAloneIs DEF IInv
  <2>8. \A i \in DOMAIN read : read[i] = Parse(Spell(stmts[i])) /\ Parse(Spell(stmts[i])) # Error
    BY <2>7 DEF Sound
  <2>9. TypeOK
    <3>1. \A i \in DOMAIN read : Unquoted(read[i])
      <4> SUFFICES ASSUME NEW i \in DOMAIN read PROVE Unquoted(read[i])
        OBVIOUS
      <4>1. i \in DOMAIN stmts /\ read[i] = Parse(Spell(stmts[i]))
        BY <2>17, <2>8
      <4>2. Unquoted(Parse(Spell(stmts[i])))
        BY <2>4, <4>1
      <4> QED
        BY <4>1, <4>2, Zenon
    <3> QED
      BY <1>1, <3>1 DEF IInv, Shape, TypeOK
  <2>10. status = "read" => /\ \A i \in DOMAIN stmts : ~Refused(stmts[i])
                            /\ read = stmts <=> \A i \in DOMAIN stmts : Readable(stmts[i])
    <3> SUFFICES ASSUME status = "read"
                 PROVE  /\ \A i \in DOMAIN stmts : ~Refused(stmts[i])
                        /\ read = stmts <=> \A i \in DOMAIN stmts : Readable(stmts[i])
      OBVIOUS
    <3>1. DOMAIN read = DOMAIN stmts
      BY <2>16, <2>5
    <3>2. \A i \in DOMAIN stmts : ~Refused(stmts[i])
      <4> SUFFICES ASSUME NEW i \in DOMAIN stmts PROVE ~Refused(stmts[i])
        OBVIOUS
      <4>1. Parse(Spell(stmts[i])) # Error
        BY <2>8, <3>1
      <4>2. Parse(Spell(stmts[i])) = Error <=> Refused(stmts[i])
        BY <2>4
      <4> QED
        BY <4>1, <4>2, Zenon
    <3>3. read = stmts <=> \A i \in DOMAIN stmts : read[i] = stmts[i]
      <4>1. stmts = [i \in 1..Len(stmts) |-> stmts[i]]
        BY <2>1
      <4> QED
        BY <2>1, <3>1, <4>1
    <3>4. \A i \in DOMAIN stmts : read[i] = stmts[i] <=> Readable(stmts[i])
      <4> SUFFICES ASSUME NEW i \in DOMAIN stmts PROVE read[i] = stmts[i] <=> Readable(stmts[i])
        OBVIOUS
      <4>1. read[i] = Parse(Spell(stmts[i]))
        BY <2>8, <3>1
      <4>2. Parse(Spell(stmts[i])) = stmts[i] <=> Readable(stmts[i])
        BY <2>4
      <4> QED
        BY <4>1, <4>2, Zenon
    <3> QED
      BY <3>2, <3>3, <3>4, Zenon
  <2>11. status = "refused" => \E i \in DOMAIN stmts : Refused(stmts[i]) /\ ~Readable(stmts[i])
    <3> SUFFICES ASSUME status = "refused"
                 PROVE  \E i \in DOMAIN stmts : Refused(stmts[i]) /\ ~Readable(stmts[i])
      OBVIOUS
    <3>1. PICK k : k = Len(read) + 1
      OBVIOUS
    <3>2. k \in DOMAIN stmts
      BY <2>1, <2>5, <3>1
    <3>3. Apart(k)
      BY <2>1, <2>3, <3>2
    <3>4. Parse(Spell(stmts[k])) = Error
      BY <1>1, <3>1, <3>3, EachAloneIs DEF IInv
    <3>5. stmts[k] # Error
      BY <2>2, <3>2, ErrorIsNone
    <3>6. Refused(stmts[k]) /\ ~Readable(stmts[k])
      <4>1. /\ Parse(Spell(stmts[k])) = stmts[k] <=> Readable(stmts[k])
            /\ Parse(Spell(stmts[k])) = Error <=> Refused(stmts[k])
        BY <2>4, <3>2
      <4> QED
        BY <3>4, <3>5, <4>1, Zenon
    <3> QED
      BY <3>2, <3>6
  <2>12. status # "reading" => status = "read" \/ status = "refused"
    BY <1>1 DEF IInv, Shape
  <2>13. "read" # "refused"
    OBVIOUS
  <2>14. ReadBack
    <3> SUFFICES ASSUME status # "reading"
                 PROVE  (status = "read" /\ read = stmts) <=> \A i \in DOMAIN stmts : Readable(stmts[i])
      <4>1. \A i \in 1..(Len(stmts) - 1) : SelfContained(stmts[i])
        <5>1. \A i \in 1..(Len(stmts) - 1) : i \in DOMAIN stmts
          BY <2>16
        <5> QED
          BY <2>2, <5>1, Zenon
      <4> QED
        BY <4>1, Zenon DEF ReadBack
    <3> QED
      BY <2>10, <2>11, <2>12, <2>13, Zenon
  <2>15. RefusalsAreKnown
    BY <2>10, <2>11, <2>12, <2>13, Zenon DEF RefusalsAreKnown
  <2> QED
    BY <2>9, <2>14, <2>15
<1>2. IInv => ((\A i \in DOMAIN stmts : IsOfNames(stmts[i])) => TypeOK /\ ReadBack /\ RefusalsAreKnown)
  BY <1>1
<1> QED
  BY <1>2, Invariance, PTL
=================================================================================
