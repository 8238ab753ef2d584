CONSTANTS
  Files <- UpSections
  Uppers <- UpperCase
  Capitals = {"User"}
  Reserved <- ReservedNames
  Numerals = {"9"}
  StringLength = 2
  ExpressionLength = 4
SPECIFICATION Spec
INVARIANTS
  TypeOK
  EachAlone
  ReadBack
  RefusalsAreKnown
CHECK_DEADLOCK FALSE
