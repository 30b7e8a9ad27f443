SPECIFICATION Spec
CONSTANTS
  r1 = r1
  r2 = r2
  Readers = {r1}
  RxNum = 2
  RxSize = 8
  Streamings = {FALSE}
  AppendStatus = FALSE
  TimestampSize = 0
  RxMultiple = TRUE
  FrameSizes = {8}
  BufSizes = {8, 16}
  NonblockFlags = {FALSE}
  RxTrigger = 8
  RaceWords = 1
  RresSeen = {TRUE}
  MaxBytes = 16
  MaxStream = 0
  MaxReads = 3
  MaxPurges = 0
INVARIANT ReadOnce
CHECK_DEADLOCK FALSE
