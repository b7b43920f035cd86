CONSTANT MaxFaults = 1
SPECIFICATION Spec
PROPERTY StopAssertions
CHECK_DEADLOCK FALSE
