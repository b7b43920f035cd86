CONSTANTS
    ListSize = 3
    Fds <- FourFds
    Conns = {c1, c2}
    Kicks = {k1}
    Listener = Listener
    Other = Other
    Closed = Closed
    MaxInbox = 1
SPECIFICATION Spec
INVARIANTS
    ListMatchesFiles
    NeverBlocks
PROPERTIES
    ClosedIsRemoved
    ConnectIsAccepted
CHECK_DEADLOCK FALSE
