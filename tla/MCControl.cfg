CONSTANTS
    QueueSize = 2
    IndexMod = 4
    MaxConns = 2
    MaxStarts = 2
    MaxAsides = 2
    MaxAvail = 1
    MaxQueued = 2
    MemRegions = 8
SPECIFICATION Spec
CONSTRAINT Within
INVARIANTS NumBeforeDesc OwnDescriptors ConfigArrives ProcessedOnce
CHECK_DEADLOCK FALSE
