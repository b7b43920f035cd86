SPECIFICATION FairSpec
CONSTANTS
  Num = 2
  BufLen = 4
  HdrLen = 1
  Sizes = {2, 5}
  Putters = {"main", "transport"}
  MaxFrames = 3
INVARIANTS FramesInOrder FirstPassUsesPosted
PROPERTY Delivered
CHECK_DEADLOCK FALSE
