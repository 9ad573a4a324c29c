SPECIFICATION Spec
CONSTANTS
  NoFile = NoFile
  JSONL_CAP = 1
  TEXT_CAP = 1
  READ_CAP = 2
  MAX_BOOT = 2
  MAX_SEQ = 1
  MAX_FAULTS = 1
  MAX_REPORTS = 2
INVARIANTS
  TypeOK
  WrittenIsStored
  FullNeedsAudit
CHECK_DEADLOCK FALSE
