SPECIFICATION Spec
CONSTANTS
  Control = Control
  None = None
  w1 = w1
  w2 = w2
  k1 = k1
  k2 = k2
  Workspaces = {w1, w2}
  Warps = {k1}
  Start = w1
  Streams = {"quiet"}
  MaxSeq = 2
PROPERTIES
  OwnerIsFollowed
CHECK_DEADLOCK FALSE
