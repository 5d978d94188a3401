SPECIFICATION Spec
CONSTANTS
  Control = Control
  None = None
  w1 = w1
  w2 = w2
  k1 = k1
  k2 = k2
  Workspaces = {w1}
  Warps = {k1}
  Start = Control
  Streams = {"quiet"}
  MaxSeq = 1
INVARIANTS
  OneOrder
CHECK_DEADLOCK FALSE
