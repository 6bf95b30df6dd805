CONSTANTS
  None = None
  MaxStart = 2
  MaxPress = 2
  MaxEpoch = 0
  Faults = {"profile"}
  MaxFaults = 1
  MaxPower = 2
SPECIFICATION Spec
INVARIANT OffLeavesNothing
CHECK_DEADLOCK FALSE
