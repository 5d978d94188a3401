\* Overlapping requests about one desktop machine, with failures and a restart.
SPECIFICATION VFairSpec
CONSTANTS
    Handlers = {x1, x2}
    Machines = {m1}
    MaxStarts = 3
    MaxCrashes = 1
INVARIANTS
    LossIsExplained
PROPERTIES
    StopStops
CHECK_DEADLOCK FALSE
