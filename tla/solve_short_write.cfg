SPECIFICATION Spec
CONSTANTS
  N = 1
  Configs <- NoLandmarkConfigs
  KeyCounts = {1}
  SubpathCounts = {1}
  MaxRetries = 0
  Faults = {"write"}
  HostMayWithdraw = FALSE
CHECK_DEADLOCK FALSE
INVARIANTS
  IoErrorIsReported
