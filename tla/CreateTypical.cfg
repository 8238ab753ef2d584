CONSTANTS
  Tables = {"t", "u"}
  Columns = {"id", "a", "b"}
  Enums = {"E"}
  Literals = {"0", "x", "y", "X"}
  IndexNames = {"i"}
  FoldCase <- Fold
  Absent = Absent
  NoRun = NoRun
  Desired <- CreateSchemas
  MaxEdits = 3
  MaxFiles = 4
SPECIFICATION Spec
INVARIANTS
  TypeOK
  JobGated
  DestructiveGated
  SecondRunIsQuiet
  NotNullGated
PROPERTIES
  AuthoringSpec
