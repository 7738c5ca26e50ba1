SPECIFICATION TemporalSpec
CONSTANTS
  Calls <- MCCalls
  MultiMode <- MCMultiMode
  kMultiModePrecheckMinSamples = 4
  kChecksPerSample = 2
INVARIANTS
  ReplacedResultsFollowTheSource
  PrunedSegmentsCompose
  CancelKeepsOnlyThePrecheck
PROPERTIES
  NeverTradesForWorse
