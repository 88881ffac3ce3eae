CONSTANTS
  Size = 9
  Image <- LiveImage
  ErrStatus = {6}
  ErrLen = {0}
  SockCap = 9
  LowWater = 9
  Faults = {}
  MaxRead = 2
  MaxReq = 1
SPECIFICATION FairSpec
PROPERTIES RequestAnswered ScanEnds
CHECK_DEADLOCK FALSE
