CONSTANTS
  Bad = Bad
  None = None
  Text <- MCText
  ReadBack <- MCReadBack
  Scale = 10
  Digits = 4
  MaxTime = 1
  Probes = 2
  ClockMayStepBack = TRUE
  Schedules <- MCErrors
  CronArgv <- MCPlain
SPECIFICATION Spec
INVARIANTS
  ErrorsOfOneCapture
