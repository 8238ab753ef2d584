--------------------------- MODULE MigratableSchemas ---------------------------
(***************************************************************************)
(* What the schemas of a project have to have in common, besides being     *)
(* Replayable, for the database that goose migrates to be the one that was *)
(* asked for.  Each part excludes what the differ does not compare, what   *)
(* the server refuses, or what no Prisma file that passes `dryft validate` *)
(* says.                                                                   *)
(***************************************************************************)
EXTENDS ReplayableSchemas, Postgres

KeyColumns(tabledef) == tabledef.pk \cup UNION tabledef.uniques

\* Keys and indexes are on columns of the table, and no part of a primary key is
\* optional.
HasSoundKeys(s) ==
  \A t \in Present(s.tables) :
    LET tabledef == s.tables[t]
    IN  /\ KeyColumns(tabledef) \subseteq Present(tabledef.cols)
        /\ \A x \in tabledef.pk : ~tabledef.cols[x].nullable
        /\ \A i \in tabledef.indexes : Range(i.cols) \subseteq Present(tabledef.cols)

\* The enums that columns name are there, and so are the labels in their defaults.
NamesEnums(tabledef, enums) ==
  \A x \in Present(tabledef.cols) :
    LET e == tabledef.cols[x].type.enum IN e \in Enums => enums[e] # Absent

NamesItsEnums(s) == \A t \in Present(s.tables) : NamesEnums(s.tables[t], s.enums)

HasFittingDefaults(s) ==
  \A t \in Present(s.tables) : \A x \in Present(s.tables[t].cols) :
    DefaultFits(s.tables[t].cols[x].type, s.tables[t].cols[x].default, s)

\* Primary keys and unique constraints are not compared.
HaveSameKeys(r, s) ==
  \A t \in Present(r.tables) \cap Present(s.tables) :
    /\ r.tables[t].pk = s.tables[t].pk
    /\ r.tables[t].uniques = s.tables[t].uniques

\* ALTER COLUMN TYPE is written without USING, and defaults are compared without
\* the case of their letters and with their synonyms as one.
IsExecutableChange(old, new) ==
  /\ Castable(old.type, new.type)
  /\ DefaultsEqual(old.default, new.default) => old.default = new.default

\* Whether an index is unique is not compared.
HaveSameUniqueness(S) ==
  \A t \in Tables : \A i, j \in IndexesAt(S, t) : i.cols = j.cols => i.unique = j.unique

Migratable(S) ==
  /\ Replayable(S)
  /\ \A s \in S : HasSoundKeys(s) /\ NamesItsEnums(s) /\ HasFittingDefaults(s)
  /\ \A r, s \in S : HaveSameKeys(r, s)
  /\ \A t \in Tables, c \in Columns : \A old, new \in ColumnsAt(S, t, c) :
       IsExecutableChange(old, new)
  /\ HaveSameUniqueness(S)
=============================================================================
