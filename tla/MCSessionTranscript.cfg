SPECIFICATION Spec
CONSTANTS
  NoFile = NoFile
  TXT_CAP = 8
  JSONL_CAP = 4
  READ_CAP = 3
  MAX_BOOT = 3
  MAX_SEQ = 10
  MAX_PART = 3
  MAX_FAULTS = 1
  MAX_CUTS = 1
INVARIANTS
  TypeOK
  OneBootPerSession
  PartsContiguous
  EventsInBoth
  VerifiedWhileShort
  CrashNoticed
CHECK_DEADLOCK FALSE
