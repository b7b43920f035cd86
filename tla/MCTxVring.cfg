CONSTANTS
    Num = 2
    IndexMod = 4
    EthPacketSize = 4
    HdrLen = 2
    ChainLens <- Chains
SPECIFICATION Spec
INVARIANTS
    IndexWindow
    ExactlyOnce
    ReadsOnlyHandedOver
    WrapsOnlyIfShort
    UsedLenIsPacketLen
PROPERTIES
    VisibleUsedStable
    ImplementsTxQueue
    EventuallyReturned
