CONSTANTS
  Versions = {v0, v1, v2}
  Empty = v0
  NoDraft = NoDraft
  Unknown = Unknown
  MaxLog = 3
SPECIFICATION Spec
CONSTRAINT ShortLog
INVARIANTS
  TypeOK
  LiveIsVersion
PROPERTIES
  LogOnlyGrows
