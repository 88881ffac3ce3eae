CONSTANTS
  Handles = {a, b, c}
  Deep = {a, b}
  Big = {a, c}
  client_big_endian = FALSE
  Samples = 3
  MaxLength = 4
  MaxScans = 3
  None = None
SPECIFICATION Spec
INVARIANTS BytesConserved
PROPERTIES SwapInOrder
CHECK_DEADLOCK FALSE
