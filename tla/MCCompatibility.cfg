CONSTANTS
  None = None
  Word <- AllWords
  Interest <- AllInterests
  Words <- InterestWordsOf
  Bit <- Bits64
  FallbackTokens = 2
  MyProfile <- Mine
  PeerProfile <- Peers
  Rssi <- Signals
SPECIFICATION Spec
INVARIANT TypeOK
INVARIANT MasksAreSets
INVARIANT SharedInterestCounts
INVARIANT CloserNoWorse
INVARIANT HighScoreSharesInterests
CHECK_DEADLOCK FALSE
