CONSTANTS
  Capital <- Capitals
  Catalogs <- Databases
  PoolSizes = {1, 2}
  MaxChanges = 1
  MaxPulls = 2
SPECIFICATION Spec
INVARIANTS
  TypeOK
  PulledIsView
  ReadIsSnapshot
  ForeignKeysKept
  PoolSuffices
PROPERTIES
  FileGuarded
  PullEnds
CHECK_DEADLOCK FALSE
