SPECIFICATION FairSpec
CONSTANTS
  Char = {"a"}
  LINE_MAX = 5
  WAIT_MAX = 2
  HISTORY_MAX = 2
  COLUMNS = 5
  PAGE_LINES = 2
  Outputs = {1, 5}
  Ports <- MCPorts
  BASE = 2
  MAX_PORT = 5
  WRAP = 16
  MAX_READS = 3
  MAX_CELLS = 10
  MAX_STDIN = 2
INVARIANTS
  TypeOK
  ShownIsBuffer
  HistoryIsRecent
  NoteTakesEveryLine
  PageHolds
  EndpointIsLastValid
PROPERTY SessionEnds
CHECK_DEADLOCK FALSE
