SPECIFICATION FairSpec
CONSTANTS
  r1 = r1
  r2 = r2
  Readers = {r1}
  RxNum = 4
  RxSize = 8
  Streamings = {FALSE}
  AppendStatus = FALSE
  TimestampSize = 0
  RxMultiple = TRUE
  FrameSizes = {3, 10}
  BufSizes = {8, 16}
  NonblockFlags = {FALSE, TRUE}
  RxTrigger = 8
  RaceWords = 1
  RresSeen = {TRUE}
  MaxBytes = 13
  MaxStream = 0
  MaxReads = 3
  MaxPurges = 0
PROPERTY ReaderServed
CHECK_DEADLOCK FALSE
