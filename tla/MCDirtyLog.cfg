CONSTANTS
    Blocks <- SomeBlocks
    Layouts <- SomeLayouts
    Used = 0
    Written = {1, 3}
    Queues = {rx}
    ChunkPages = 2
    LogBuffer = 1
SPECIFICATION Spec
INVARIANTS LogCovers SyncInLog NothingLost MigratedIsCurrent
CHECK_DEADLOCK FALSE
