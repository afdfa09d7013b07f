CONSTANTS
  None = None
  m1 = m1
  m2 = m2
  Models <- MCModels
  Servers <- MCServers
  TransientFaults = TRUE
  FoxSentenceTokens = 11
  FoxFrameTokens = 16
  TestWordTokens = 1
  SummarizeTokens = 4

SPECIFICATION Spec

INVARIANT TypeOK
INVARIANT OptimalWindowWitnessed
INVARIANT MaxReachesListCapacity
INVARIANT EveryModelReported
