SPECIFICATION Spec
CONSTANTS
  p1 = p1
  p2 = p2
  Proc <- MCProc
  Second = {1, 2}
  EARLY_MAX = 2
  MAX_EMIT = 4
SYMMETRY MCSymmetry
INVARIANT TypeOK
INVARIANT ChainsIntact
INVARIANT EmissionOrder
INVARIANT OneWriterPerSession
INVARIANT EventsAccounted
PROPERTY ImplementsAuditLog
