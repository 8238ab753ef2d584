CONSTANTS
  Words = {"A", "E", "db", "id"}
  Numerals = {"0"}
  Inputs <- Texts
SPECIFICATION Spec
INVARIANTS
  TypeOK
  AcceptedIsKept
  AcceptedIsBalanced
  WholeFileAccepted
PROPERTIES
  ParserStops
CHECK_DEADLOCK FALSE
