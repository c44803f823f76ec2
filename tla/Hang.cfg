CONSTANTS
  NSlots = 2
  SlotSamps = 2
  NChan = 2
  PlanSamps = 2
  TrimMayFail = FALSE
  Captures = 2
  Target = 3
  ChunkSamps = 2
  RxTimeoutLimit = 2
  MaxStreamErrors = 1
  DrainIsSlow = TRUE
SPECIFICATION FairSpec
PROPERTY AbortEndsRun
