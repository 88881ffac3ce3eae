SPECIFICATION Spec
CONSTANTS
  Total = 2
  Cap = 1
  MaxKids = 4
  FeederSize = 2
  Batch = 2
  MaxSignals = 2
INVARIANTS ScanTypeOK KillsOwnReader NoReaderLeft CompletePages PartRemoved
PROPERTIES CancelStops ProgramEnds
