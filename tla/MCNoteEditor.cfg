SPECIFICATION Spec
CONSTANTS
  NoFile = NoFile
  Path = {"note", "field"}
  Line = {"a", "b"}
  Seed = "seed"
  Initial <- MCInitial
  EDITOR_CAP = 2
  READ_CAP = 3
  MAX_FAULTS = 1
INVARIANTS
  TypeOK
  ReportedIsStored
  CleanIsSeen
PROPERTY LossNeedsConsent
