CONSTANTS
  ana = ana
  ben = ben
  cid = cid
  s1 = s1
  s2 = s2
  None = None
  Device <- Trio
  Session <- TwoSessions
  Caller <- CallerAnaCid
  Callee <- CalleeBen
  HasHandle <- Trio
  Talker <- Trio
  MaxSaid = 0
  MaxLost = 0
SPECIFICATION SwitchSpec
INVARIANT MutualConsent
CHECK_DEADLOCK FALSE
