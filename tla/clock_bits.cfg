SPECIFICATION Spec
CONSTANTS
  PerMHz = 10
  Parts = 100
  MinDesired = 10
  MaxDesired = 2700
  MaxR = 2
  Desired <- MCDesired
  Requested <- MCRequested
  NoBytes = NoBytes
  Unset = NoBytes
INVARIANTS
  TypeOK
  BestChoice
  GivesUpOnlyWithout
  WordHoldsChoice
  OutputReadable
CHECK_DEADLOCK FALSE
