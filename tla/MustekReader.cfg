SPECIFICATION Spec
CONSTANTS
  Node = {1, 2}
  QueueDepth = 2
  Retries = 2
  Lines = 7
  LinesPerBuffer = 2
  MaxBuffers = 3
INVARIANTS WaitsForHead UsedIsExact RunsInOrder ImageInOrder NothingPending
PROPERTIES KillEnds ReaderEnds
