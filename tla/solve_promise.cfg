SPECIFICATION Spec
CONSTANTS
  N = 2
  Configs <- ReplacementConfigs
  KeyCounts = {8}
  SubpathCounts = {1}
  MaxRetries = 1
  Faults = {"input", "progress", "diagnostics", "open"}
  HostMayWithdraw = TRUE
CHECK_DEADLOCK FALSE
INVARIANTS
  NoPropertyBegunAfterCancel
PROPERTIES
  Terminates
  ImplementsJob
