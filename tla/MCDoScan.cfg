CONSTANTS
  Size = 10
  Image <- MCImage
  ErrStatus = {6}
  ErrLen = {0, 1}
  SockCap = 3
  LowWater = 1
  Faults = {"select", "peer"}
SPECIFICATION Spec
INVARIANTS TypeOK RingAligned RegionsInBuf DirtyMeansEof
PROPERTIES StreamSpec
CHECK_DEADLOCK FALSE
