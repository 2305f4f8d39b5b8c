SPECIFICATION FairSpec
CONSTANTS
  MAX_PROCESS = 5
  MIN_PRIORITY = 1
  MAX_PRIORITY = 4
  DEFAULT_PRIORITY = 3
  rr_quantum = 25
  QUEUE_CAPACITY = 2
  TICKS_PER_MS = 1
  SleepTimes = {}
  Calls <- NoCalls
  IdleMaySleep = FALSE
  Program = TRUE
  ProgramEnds = FALSE
PROPERTIES
  BootEndsInProgram
  KillLeavesCpu
CHECK_DEADLOCK FALSE
