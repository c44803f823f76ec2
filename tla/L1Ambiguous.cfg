CONSTANTS
  Capture <- MCCapture
  Method = {1, 2}
  BatchSize = 2
  MaxKills = 1
SPECIFICATION FairSpec
PROPERTIES
  AmbiguousIsUnknown
