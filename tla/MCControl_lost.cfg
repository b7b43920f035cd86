CONSTANTS
    QueueSize = 2
    IndexMod = 4
    MaxConns = 1
    MaxStarts = 1
    MaxAsides = 0
    MaxAvail = 0
    MaxQueued = 2
    MemRegions = 1
SPECIFICATION Spec
INVARIANT ConfigMatches
CHECK_DEADLOCK FALSE
