CONSTANTS
  ALLOC_INCREMENT = 3
  MaxHandles = 6
SPECIFICATION FairSpec
INVARIANTS SearchIsThorough
PROPERTIES OpenReturns
CHECK_DEADLOCK FALSE
