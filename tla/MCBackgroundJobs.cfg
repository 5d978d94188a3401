\* Two generations of one job id, two extensions, a waiter, a canceller and a
\* disposal of the instance.
SPECIFICATION FairSpec
CONSTANTS
  Starts = {a1, a2}
  Extends = {e1, e2}
  Waits = {w1}
  Cancels = {k1}
  MaxDisposals = 1
  None = None
INVARIANTS
  CompletedIsWhole
  CancelledHasStopped
  OneGeneration
PROPERTIES
  OverIsFinal
  WaitersAnswered
  CancelReturns
CHECK_DEADLOCK FALSE
