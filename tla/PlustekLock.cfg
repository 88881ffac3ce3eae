SPECIFICATION Spec
CONSTANTS
  Pid = {p1, p2}
  NoFile = NoFile
  Unwritten = Unwritten
  Absent = Absent
  Foreign = Foreign
  MaxTries = 3
  OpenTries = 3
  ButtonTries = 2
INVARIANTS TypeOK Exclusive
PROPERTIES DeadLockBroken
CHECK_DEADLOCK FALSE
