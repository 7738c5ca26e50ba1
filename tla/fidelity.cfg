SPECIFICATION FidelitySpec
CONSTANTS
  Calls <- MCCalls
  Clips <- MCClips
  Smoothed <- MCSmoothed
CHECK_DEADLOCK FALSE
INVARIANTS
  FeasibleIsWithin
  SimplestCurveThatFits
  GateSeesTheWholeMiss
  CleanupStaysWithin
  ReportStaysTrue
  KeysMoveForward
