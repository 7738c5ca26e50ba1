SPECIFICATION Spec
CONSTANTS
  N = 1
  Configs <- ReplacementConfigs
  KeyCounts = {1}
  SubpathCounts = {1}
  MaxRetries = 0
  Faults = {}
  HostMayWithdraw = FALSE
CHECK_DEADLOCK FALSE
INVARIANTS
  CancelFileMeansExitFive
