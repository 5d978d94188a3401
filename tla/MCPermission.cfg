\* Three requests of a session, two replies and a disposal of the instance.
SPECIFICATION PermissionSpec
CONSTANTS
  a1 = a1
  a2 = a2
  a3 = a3
  s1 = s1
  p1 = p1
  p2 = p2
  Asks = {a1, a2, a3}
  Replies = {r1, r2}
  Sessions = {s1}
  Pattern = {p1, p2}
  SessionOf <- MCSessionOf
  Patterns <- MCPatterns
  Always <- MCPatterns
  Rule <- MCRule
  MaxDisposals = 1
  None = None
SYMMETRY Symmetry
INVARIANTS
  NoForgottenAsk
  RejectionIsWhole
  AlwaysReaches
PROPERTIES
  ImplementsGate
CHECK_DEADLOCK FALSE
