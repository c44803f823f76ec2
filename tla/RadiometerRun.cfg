CONSTANTS
  Bad = Bad
  None = None
  Text <- MCText
  ReadBack <- MCReadBack
  Scale = 10
  Digits = 4
  MaxTime = 1
  Probes = 2
  ClockMayStepBack = TRUE
  Schedules <- MCSchedules
  CronArgv <- MCPlain
SPECIFICATION FairSpec
INVARIANTS
  TypeOK
  LabelsTrue
  ReadyBeforeCapture
  PlannedCapture
  LogTellsExit
  CleanExitIsFull
  HeaderOnce
  EffectiveReloads
PROPERTIES
  NoFileLost
  KeepsRunLedger
  SignalEndsRun
