CONSTANTS
  None = None
  MaxStart = 2
  MaxPress = 2
  MaxEpoch = 1
  Faults = {"profile", "scan", "uuid", "advertise"}
  MaxFaults = 1
  MaxPower = 2
SPECIFICATION Spec
INVARIANT TypeOK
INVARIANT SearchesWhenOn
INVARIANT OffMeansOff
INVARIANT AdvertisesWhenOn
PROPERTY BecomesVisible
CHECK_DEADLOCK FALSE
