SPECIFICATION Spec
CONSTANTS
  NoFile = NoFile
  JSONL_CAP = 3
  TEXT_CAP = 4
  READ_CAP = 2
  MAX_BOOT = 2
  MAX_SEQ = 5
  MAX_FAULTS = 2
  MAX_REPORTS = 0
INVARIANTS
  FlushOkIsStored
  FlushHeals
PROPERTIES
  NothingTakenBack
  PromptReturns
CHECK_DEADLOCK FALSE
