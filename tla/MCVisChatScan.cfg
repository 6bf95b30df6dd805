CONSTANTS
  None = None
  MaxStart = 1
  MaxPress = 1
  MaxEpoch = 0
  Faults = {}
  MaxFaults = 0
  MaxPower = 0
SPECIFICATION PatientSpec
INVARIANT ChatMeansNotScanning
CHECK_DEADLOCK FALSE
