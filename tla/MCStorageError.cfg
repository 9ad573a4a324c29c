SPECIFICATION Spec
CONSTANTS
  NoFile = NoFile
  NoVolume = "none"
  Candidates <- MCCandidates
  BootVolume = "usb"
  Dirs <- MCDirs
  Above <- MCAbove
  Home <- MCHome
  Trees <- MCTrees
  MAX_CHANGES = 1
  MAX_FAULTS = 0
INVARIANT LastErrorIsReal
