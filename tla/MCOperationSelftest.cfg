SPECIFICATION Spec
CONSTANTS
  NoFile = NoFile
  JSONL_CAP = 1
  TEXT_CAP = 1
  READ_CAP = 2
  MAX_BOOT = 1
  MAX_SEQ = 1
  MAX_FAULTS = 0
  MAX_REPORTS = 1
INVARIANTS
  SelftestAgrees
CHECK_DEADLOCK FALSE
