CONSTANTS
  Tables = {"t", "u"}
  Columns = {"id", "a", "b"}
  Enums = {"E"}
  Literals = {"0", "x", "y", "X"}
  IndexNames = {"i"}
  FoldCase <- Fold
  Absent = Absent
  Desired <- RichSchemas
  MaxEdits = 2
  MaxFiles = 3
  NoRun = NoRun
  Unknown = Unknown
SPECIFICATION LoopSpec
INVARIANTS
  DestructiveGated
  UpAccepted
  DownRestores
