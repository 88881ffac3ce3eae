CONSTANTS
  Size = 9
  Image <- MCImage
  ErrStatus = {6}
  ErrLen = {0}
  SockCap = 3
  LowWater = 1
  Faults = {"select", "peer"}
  MaxRead = 2
  MaxReq = 1
SPECIFICATION LinkSpec
PROPERTIES TransferSpec
CHECK_DEADLOCK FALSE
