CONSTANTS
  ana = ana
  ben = ben
  cid = cid
  s1 = s1
  s2 = s2
  None = None
  Device <- Pair
  Session <- TwoSessions
  Caller <- CallerAna
  Callee <- CalleeBen
  HasHandle <- Pair
  Talker = {ana}
  MaxSaid = 3
  MaxLost = 1
SPECIFICATION AgainSpec
INVARIANT LeftInv
INVARIANT SocketsOwned
INVARIANT TextsContiguous
SYMMETRY SessionSymmetry
CHECK_DEADLOCK FALSE
