CONSTANTS
  ana = ana
  ben = ben
  cid = cid
  s1 = s1
  s2 = s2
  None = None
  Device <- Trio
  Session <- TwoSessions
  Caller <- CallerAnaCid
  Callee <- CalleeBen
  HasHandle <- Trio
  Talker <- Trio
  MaxSaid = 1
  MaxLost = 0
SPECIFICATION SwitchTalkSpec
INVARIANT OnlyPartiesHear
CHECK_DEADLOCK FALSE
