CONSTANTS
  Tables = {"t", "u"}
  Columns = {"id", "a", "b"}
  Enums = {"E"}
  Literals = {"0", "x", "y", "X"}
  IndexNames = {"i"}
  FoldCase <- Fold
  Absent = Absent
  Desired <- TypicalSchemas
  MaxEdits = 2
  MaxFiles = 3
  NoRun = NoRun
  Unknown = Unknown
SPECIFICATION ForwardSpec
PROPERTIES
  RoundTrip
