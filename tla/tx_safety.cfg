SPECIFICATION Spec
SYMMETRY WriterSymmetry
CONSTANTS
  w1 = w1
  w2 = w2
  Writers = {w1, w2}
  TxNum = 3
  TxSize = 4
  FifoSize = 16
  MaxTfcnt = 1
  Sizes = {3, 5, 13}
  NonblockFlags = {FALSE, TRUE}
  MaxCalls = 3
  MaxPurges = 1
  IgnoreTimeout = FALSE
  ClockLoss = TRUE
INVARIANTS
  TypeOK
  RingInUse
  RefusedForSizeOnly
  FifoNotOverrun
  ByteCountsNotOverrun
  SentIntact
CHECK_DEADLOCK FALSE
