CONSTANTS
  Capture <- MCCapture
  Method = {1, 2}
  BatchSize = 2
  MaxKills = 1
SPECIFICATION MCSpec
INVARIANTS
  TypeOK
  OneRowPerCapture
  OnlyTheBatchIsAtRisk
PROPERTIES
  AppendsMigrated
  KeepsLedger
