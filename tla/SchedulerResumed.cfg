SPECIFICATION FairSpec
CONSTANTS
  MAX_PROCESS = 5
  MIN_PRIORITY = 1
  MAX_PRIORITY = 4
  DEFAULT_PRIORITY = 3
  rr_quantum = 4
  QUEUE_CAPACITY = 2
  TICKS_PER_MS = 1
  SleepTimes = {1}
  Calls <- TurnCalls
  IdleMaySleep = FALSE
  Program = FALSE
  ProgramEnds = FALSE
PROPERTY ResumedReturns
CHECK_DEADLOCK FALSE
