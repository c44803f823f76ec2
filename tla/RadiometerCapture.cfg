CONSTANTS
  NSlots = 2
  SlotSamps = 2
  NChan = 2
  PlanSamps = 2
  TrimMayFail = FALSE
  Captures = 2
  Target = 3
  ChunkSamps = 2
  RxTimeoutLimit = 2
  MaxStreamErrors = 1
  DrainIsSlow = TRUE
SPECIFICATION FairSpec
INVARIANTS
  TypeOK
  NoSlotRace
  WritesInOrder
  EverySampleCounted
  DrainedWhenDone
  ChannelsAgree
  FilesTrimmed
  ChunksAligned
  CleanExitIsComplete
PROPERTIES
  AbortIsFinal
  CapturesEndAsPromised
  KeepsPromise
  StopEndsRun
  FaultEndsRun
  WriterEnds
  RunEnds
