CONSTANTS
  Words = {"A", "E", "db", "id"}
  Numerals = {"0"}
  Inputs <- Texts
SPECIFICATION Spec
INVARIANTS
  AcceptedIsWhole
CHECK_DEADLOCK FALSE
