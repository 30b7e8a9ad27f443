SPECIFICATION FairSpec
CONSTANTS
  w1 = w1
  w2 = w2
  Writers = {w1, w2}
  TxNum = 3
  TxSize = 4
  FifoSize = 20
  MaxTfcnt = 1
  Sizes = {3}
  NonblockFlags = {FALSE}
  MaxCalls = 2
  MaxPurges = 0
  IgnoreTimeout = FALSE
  ClockLoss = TRUE
PROPERTY WriteAnswers
CHECK_DEADLOCK FALSE
