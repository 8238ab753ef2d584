--------------------------- MODULE MCMigrationFiles ---------------------------
(***************************************************************************)
(* Two runs, two tables, two names.                                        *)
(***************************************************************************)
EXTENDS MigrationFiles

LowerCase == [A |-> "a", B |-> "b"]

AddUsers == <<"A", " ", "B", "!">>
add_users == <<"a", "_", "b">>
Other == <<"-", "2">>

CONSTANTS t, u

AnyTables == SUBSET {t, u}

Symmetry == Permutations(Runs) \cup Permutations(Tables)

TwoNames == {AddUsers, Other}
=============================================================================
