SPECIFICATION FairSpec
CONSTANTS
  w1 = w1
  w2 = w2
  Writers <- MCWriters
  TxNum = 3
  Lengths <- MCLengths
  MaxCalls = 3
  MaxPurges = 1
  IgnoreTimeout = FALSE
  ClockLoss = TRUE
INVARIANTS
  TypeOK
  NothingStranded
  SentInOrder
PROPERTIES
  FrameLeaves
CHECK_DEADLOCK FALSE
