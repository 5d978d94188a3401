SPECIFICATION FairSpec
CONSTANTS
  Control = Control
  None = None
  w1 = w1
  w2 = w2
  k1 = k1
  k2 = k2
  Workspaces = {w1}
  Warps = {}
  Start = w1
  Streams = {"streaming", "quiet"}
  MaxSeq = 3
INVARIANTS
  AnsweredIsVisible
PROPERTIES
  Followed
  CatchesUp
CHECK_DEADLOCK FALSE
