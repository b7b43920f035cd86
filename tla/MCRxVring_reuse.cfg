SPECIFICATION Spec
CONSTANTS
  Num = 2
  BufLen = 4
  HdrLen = 1
  Sizes = {2}
  Putters = {"transport"}
  MaxFrames = 4
INVARIANT UsesPosted
CHECK_DEADLOCK FALSE
