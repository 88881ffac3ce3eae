CONSTANTS
  NH = 2
  MaxBe = 3
  Settings = {{"alloc", "auth", "stranger", "refuse", "nomem", "signal", "crash"},
              {"accept", "stranger", "refuse", "signal", "crash", "closeActive", "overlap"},
              {"alloc", "closeActive", "overlap"}}
SPECIFICATION FairSpec
INVARIANTS HandlesAgree BackendsAccounted OneReader CancelIsWanted ReadsOpenHandle BusyMeansScanning
PROPERTIES CallReturns ServerFollows
CHECK_DEADLOCK FALSE
