---------------------------- MODULE MCPrismaParser ----------------------------
(***************************************************************************)
(* Texts for PrismaParser: three files, whole, and with one symbol left    *)
(* out, replaced or put in at every place.                                 *)
(***************************************************************************)
EXTENDS PrismaParser, SequencesExt

Config ==
  <<"datasource", "db", "{", "db", "=", "quote", "/", "/", "\\", "quote", "db", "quote",
    "db", "=", "id", "(", "quote", "id", "quote", ")", "}",
    "/", "/", "#", "newline", "enum", "E", "{", "id", "db", "}">>

Models ==
  <<"model", "A", "{", "id", "Int", "@", "id", "@", "db", "(", "id", "(", ")", ")",
    "db", "E", "[", "]", "?", "@", "@", "id", "(", "[", "id", ",", "db", "]", ",",
    "db", ":", "0", ")", "}">>

Two ==
  <<"model", "A", "{", "}", "generator", "id", "{", "id", "=", "db", "}",
    "model", "E", "{", "id", "A", "@", "db", "(", "true", ")", "}">>

Files == {Config, Models, Two}

\* the symbols an edit puts in
NewSymbols ==
  {"model", "String", "type", "{", "}", "(", ")", "[", "]", ",", ":", "=", "?",
   "1e999", "#", "\\", "true", "@", "/", "quote", "newline", "id", "0"}

Edited(s) ==
  {RemoveAt(s, i) : i \in DOMAIN s}
    \cup {ReplaceAt(s, i, x) : i \in DOMAIN s, x \in NewSymbols}
    \cup {InsertAt(s, i, x) : i \in 1..(Len(s) + 1), x \in NewSymbols}
    \cup {SubSeq(s, 1, i) : i \in 0..Len(s)}

Texts == Files \cup UNION {Edited(s) : s \in Files}

\* A file of the language is read without an error.
WholeFileAccepted == text \in Files => ~failed /\ status # "panicked"
=============================================================================
