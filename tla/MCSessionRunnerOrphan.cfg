\* Three loops and one cancellation: a loop runs in a session that is not busy.
SPECIFICATION Spec
CONSTANTS
  Prompts = {p1, p2, p3}
  Shells = {s1}
  Cancels = {k1}
  None = None
SYMMETRY Symmetry
INVARIANT
  LoopRunningIsBusy
CHECK_DEADLOCK FALSE
