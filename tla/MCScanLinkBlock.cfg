CONSTANTS
  Size = 9
  Image <- LiveImage
  ErrStatus = {6}
  ErrLen = {0}
  SockCap = 3
  LowWater = 1
  Faults = {}
  MaxRead = 2
  MaxReq = 1
SPECIFICATION FairSpec
PROPERTIES RequestAnswered
CHECK_DEADLOCK FALSE
