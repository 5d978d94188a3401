\* Two prompts, a shell and two cancellations of one session, with fairness.
SPECIFICATION FairSpec
CONSTANTS
  Prompts = {p1, p2}
  Shells = {s1}
  Cancels = {k1, k2}
  None = None
INVARIANTS
  TypeOK
  UnstoppedIsOwned
  NoForgottenCaller
  CancelledIsOver
  RestIsIdle
  OneAtATime
PROPERTIES
  CancelReturns
  CallersAnswered
CHECK_DEADLOCK FALSE
