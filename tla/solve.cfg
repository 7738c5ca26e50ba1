SPECIFICATION Spec
CONSTANTS
  N = 2
  Configs <- MCConfigs
  KeyCounts = {1, 8}
  SubpathCounts = {2}
  MaxRetries = 1
  Faults = {"input", "progress", "diagnostics", "open"}
  HostMayWithdraw = FALSE
CHECK_DEADLOCK FALSE
INVARIANTS
  ExitTruthful
  NoCancelledSolveInCompleteBundle
  SeenCancelNeverSucceeds
  ReplacementNeverAddsKeys
