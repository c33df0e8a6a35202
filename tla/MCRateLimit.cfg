SPECIFICATION Spec
CONSTANTS
  Keys = {origin, address, other}
  Limit = 2
  WindowSeconds = 2
  MaxKeys = 2
  TicksPerSecond = 2
  MaxWindow = 1
  MaxLosses = 2
  NoRefusal = NoRefusal
SYMMETRY KeySymmetry
INVARIANTS
  TypeOK
  LimitHolds
CHECK_DEADLOCK FALSE
