SPECIFICATION FairSpec
CONSTANTS
  Peer = {"node-a"}
  InitialProposals <- MCInitialProposals
  RX_SLOTS = 3
  MAX_BOOT = 2
  MAX_ANSWERS = 2
  MAX_FAULTS = 1
INVARIANTS
  TypeOK
  AnsweredOnce
  AnnouncedIsAudited
  PeerRowCurrent
  StatusIsLastAnswer
PROPERTY ConsoleReached
CHECK_DEADLOCK FALSE
