CONSTANTS
  Capture <- MCOneSession
  Method = {1, 2}
  BatchSize = 1
  MaxKills = 1
SPECIFICATION FairSpec
PROPERTIES
  AtMostOneBatchLost
