SPECIFICATION Spec
CONSTANTS
  GuestPages = 3
  HostPages = 4
  BlockOf <- Blocks
  Layouts <- NoAliases
  RingPage = 1
  Display = {"vga"}
INVARIANTS MapsView NonOverlapping AssertionsHold FitsAllocation RingStaysMapped TableIsCurrent
CHECK_DEADLOCK FALSE
