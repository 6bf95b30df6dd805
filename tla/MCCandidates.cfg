CONSTANTS
  ana = ana
  ben = ben
  cid = cid
  None = None
  Id = {ana, ben, cid}
  EphemeralId <- EphemeralIds
  Fingerprint <- Fingerprints
  Rssi <- NearAndFar
  Score <- Scores
  MaxItems = 2
  MaxAge = 3
SPECIFICATION Spec
INVARIANT TypeOK
INVARIANT NoPhantoms
INVARIANT ListFollowsRadio
PROPERTY ScoreStays
PROPERTY GoneDisappear
CHECK_DEADLOCK FALSE
