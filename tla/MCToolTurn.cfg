\* Two calls that ask, one of them twice, and one retry of the stream.
SPECIFICATION FairSpec
CONSTANTS
  c1 = c1
  c2 = c2
  a1 = a1
  d2 = d2
  Calls = {c1, c2}
  Asks = {a1, d2}
  CanInterrupt <- MCCanInterrupt
  ToolAsk <- MCToolAsk
  DoomAsk <- MCDoomAsk
  ShouldBreak = TRUE
  MaxRetries = 1
  None = None
INVARIANTS
  UncutIsSettled
  UnsettledIsExplained
  RejectStops
PROPERTIES
  AbortReturns
CHECK_DEADLOCK FALSE
