SPECIFICATION Spec
CONSTANTS
  NumCards = 1
  MaxIrqs = 3
  MaxOpens = 2
INVARIANTS
  TypeOK
  HandlerFindsPort
  NothingRunsOnFreed
  UnloadLeaves
CHECK_DEADLOCK FALSE
