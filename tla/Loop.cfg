CONSTANTS
  Tables = {"t", "u"}
  Columns = {"id", "a", "b"}
  Enums = {"E"}
  Literals = {"0", "x", "y", "X"}
  IndexNames = {"i"}
  FoldCase <- Fold
  Absent = Absent
  Desired <- ShortSchemas
  MaxEdits = 3
  MaxFiles = 4
  NoRun = NoRun
  Unknown = Unknown
SPECIFICATION LoopSpec
INVARIANTS
  UpAccepted
  DownRestores
  HistoryIsCatalog
  AppliedIsWanted
  NoHiddenDrift
  HistoryLoads
PROPERTIES
  EvolutionSpec
