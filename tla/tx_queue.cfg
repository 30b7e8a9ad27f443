SPECIFICATION FairSpec
CONSTANTS
  w1 = w1
  w2 = w2
  Writers = {w1, w2}
  TxNum = 3
  TxSize = 4
  FifoSize = 24
  MaxTfcnt = 1
  Sizes = {3, 5}
  NonblockFlags = {FALSE}
  MaxCalls = 3
  MaxPurges = 1
  IgnoreTimeout = FALSE
  ClockLoss = FALSE
PROPERTY IsFrameQueue
PROPERTY FramesLeave
CHECK_DEADLOCK FALSE
