SPECIFICATION Spec
CONSTANTS
  BlockLists <- Plugging
  MaxRegions = 3
  Addrs = {0, 2, 3, 4, 6, 7}
  RamEnd = 3
  Hole = 0
  MapFails = TRUE
INVARIANTS QuietSearch NeverOthersMemory FindsGuestRam
