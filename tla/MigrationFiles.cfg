CONSTANTS
  Runs = {r1, r2}
  Names <- TwoNames
  Lowers <- LowerCase
  t = t
  u = u
  Desired <- AnyTables
  Tables = {t, u}
  MaxTime = 2
  MaxFaults = 1
  MaxRuns = 3
SYMMETRY Symmetry
SPECIFICATION Spec
INVARIANTS
  TypeOK
  ReadIsDir
PROPERTIES
  AnswerIsTrue
CHECK_DEADLOCK FALSE
