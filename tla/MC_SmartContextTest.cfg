CONSTANTS
  None = None
  NotReached = NotReached
  m1 = m1
  m2 = m2
  Models <- MCModels
  Servers <- MCServers
  TransientFaults = TRUE
  FoxSentenceTokens = 11
  FoxFrameTokens = 16
  TestWordTokens = 1
  SummarizeTokens = 4

SPECIFICATION FairSpec

INVARIANT TypeOK
INVARIANT PlateauNeverStops
PROPERTY SearchRefined
