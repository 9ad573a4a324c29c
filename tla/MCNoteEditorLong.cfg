SPECIFICATION Spec
CONSTANTS
  NoFile = NoFile
  Path = {"note"}
  Line = {"a", "b"}
  Seed = "seed"
  Initial <- MCLong
  EDITOR_CAP = 2
  READ_CAP = 4
  MAX_FAULTS = 0
PROPERTY NothingIsCutOff
