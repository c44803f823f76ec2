CONSTANTS
  c1 = c1
  c2 = c2
  c3 = c3
  Capture <- MCCapture
  Assoc = {p}
  NoAssoc = NoAssoc
  Cut = Cut
  NoRow = NoRow
  MaxAlgo = 2
  Knobs = {1, 2}
  MaxChanges = 2
  MaxKills = 1
SPECIFICATION MCSpec
INVARIANTS
  TypeOK
  L2OfToday
  CutLineHasNoAssoc
  OneAlgorithm
  StaleOnlyAfterKill
PROPERTIES
  StaleSigma0Goes
  EveryCaptureCorrected
