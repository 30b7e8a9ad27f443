SPECIFICATION Spec
SYMMETRY ReaderSymmetry
CONSTANTS
  r1 = r1
  r2 = r2
  Readers = {r1, r2}
  RxNum = 2
  RxSize = 8
  Streamings = {FALSE, TRUE}
  AppendStatus = FALSE
  TimestampSize = 0
  RxMultiple = TRUE
  FrameSizes = {3, 10}
  BufSizes = {3, 16}
  NonblockFlags = {FALSE}
  RxTrigger = 4
  RaceWords = 1
  RresSeen = {TRUE}
  MaxBytes = 13
  MaxStream = 20
  MaxReads = 2
  MaxPurges = 1
INVARIANTS
  TypeOK
  FinishedInRow
  StreamInOrder
PROPERTY IsFrameQueue
CHECK_DEADLOCK FALSE
