SPECIFICATION Spec
CONSTANTS
  Control = Control
  None = None
  w1 = w1
  w2 = w2
  k1 = k1
  k2 = k2
  Workspaces = {w1, w2}
  Warps = {k1, k2}
  Start = w1
  Streams = {"streaming"}
  MaxSeq = 1
SYMMETRY WarpSymmetry
INVARIANTS
  TypeOK
  LogIsWhole
  EventsAreGenuine
  NoGapIsMet
PROPERTIES
  ClaimFences
CHECK_DEADLOCK FALSE
