\* One load, two reloads and one disposal of one directory; no symmetry.
SPECIFICATION FairSpec
CONSTANTS
  Loads = {l1}
  Reloads = {r1, r2}
  Disposes = {d1}
  None = None
INVARIANTS
  TypeOK
  OneBoot
PROPERTIES
  BootKeepsService
  EveryoneReturns
CHECK_DEADLOCK FALSE
