CONSTANTS
  Tables = {"t", "u"}
  Columns = {"id", "a", "b"}
  Enums = {"E"}
  Literals = {"0", "x", "y", "X"}
  IndexNames = {"i"}
  FoldCase <- Fold
  Absent = Absent
  NoRun = NoRun
  Desired <- ForeignKeySchemas
  MaxEdits = 2
  MaxFiles = 3
SPECIFICATION Spec
INVARIANTS
  HistoryLoads
