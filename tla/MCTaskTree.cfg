\* A task of a task, and two cancellations by the user.
SPECIFICATION FairSpec
CONSTANTS
  a = a
  b = b
  Root = Root
  Tasks = {a, b}
  Parent <- MCParent
  Cancels = {k1, k2}
INVARIANTS
  TreeIsCancelled
  RunIsExplained
PROPERTIES
  AbortStops
  ResultsAreTold
CHECK_DEADLOCK FALSE
