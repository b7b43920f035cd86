CONSTANT MaxFaults = 3
SPECIFICATION FairSpec
INVARIANTS StartedAgrees DownIsSeen UpIsStarted
PROPERTIES Reconnects
CHECK_DEADLOCK FALSE
