CONSTANTS
  ana = ana
  ben = ben
  cid = cid
  s1 = s1
  s2 = s2
  None = None
  Device <- Pair
  Session <- OneSession
  Caller <- CallerAna
  Callee <- CalleeBen
  HasHandle <- Pair
  Talker <- Pair
  MaxSaid = 1
  MaxLost = 0
SPECIFICATION Spec
INVARIANT ArrivingTextReadable
CHECK_DEADLOCK FALSE
