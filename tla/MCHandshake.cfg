SPECIFICATION HandshakeSpec
CONSTANTS
  NAddrs = 1
  MaxConfigs = 2
INVARIANTS ConnectedToPeer PutsIntoReadyRing
PROPERTIES BothSettle ReceiverStarts
CHECK_DEADLOCK FALSE
