SPECIFICATION Spec
CONSTANTS
  NoFile = NoFile
  TXT_CAP = 8
  JSONL_CAP = 4
  READ_CAP = 3
  MAX_BOOT = 2
  MAX_SEQ = 10
  MAX_PART = 3
  MAX_FAULTS = 0
  MAX_CUTS = 1
PROPERTY SessionsKept
CHECK_DEADLOCK FALSE
