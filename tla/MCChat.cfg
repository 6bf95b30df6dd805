CONSTANTS
  ana = ana
  ben = ben
  cid = cid
  s1 = s1
  s2 = s2
  None = None
  Device <- Pair
  Session <- OneSession
  Caller <- CallerAna
  Callee <- CalleeBen
  HasHandle <- Pair
  Talker = {ben}
  MaxSaid = 1
  MaxLost = 1
SPECIFICATION Spec
INVARIANT TypeOK
INVARIANT MutualConsent
INVARIANT ConsentInv
INVARIANT KeyAgreement
INVARIANT RefusalStands
PROPERTY ComeCloserSpec
PROPERTY HandshakeCompletes
PROPERTY HandshakeQuiesces
PROPERTY MutualReveal
PROPERTY RefusalReaches
CHECK_DEADLOCK FALSE
