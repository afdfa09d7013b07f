CONSTANTS
  None = None
  m1 = m1
  m2 = m2
  Models <- MCModels
  Servers <- MCServersLargeDefault
  TransientFaults = FALSE
  FoxSentenceTokens = 11
  FoxFrameTokens = 16
  TestWordTokens = 1
  SummarizeTokens = 4

SPECIFICATION Spec

INVARIANT MaxReachesListCapacity
