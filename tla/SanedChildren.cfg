SPECIFICATION Spec
CONSTANTS
  Pid = {p1, p2, p3}
  Avahi = Avahi
  NoPid = NoPid
  MaxForks = 4
  Sockets = 2
INVARIANTS StaleIsLast
PROPERTIES BailOutEnds ProcSpec
CHECK_DEADLOCK FALSE
