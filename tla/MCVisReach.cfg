CONSTANTS
  None = None
  MaxStart = 1
  MaxPress = 1
  MaxEpoch = 1
  Faults = {}
  MaxFaults = 0
  MaxPower = 0
SPECIFICATION PatientSpec
INVARIANT ReachableUnderOwnId
CHECK_DEADLOCK FALSE
