CONSTANTS
  Capture <- MCOneSession
  Method = {1, 2}
  BatchSize = 2
  MaxKills = 1
SPECIFICATION MCFairSpec
PROPERTIES
  EveryCaptureIsProcessed
