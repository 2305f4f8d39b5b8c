SPECIFICATION Spec
CONSTANTS
  MAX_PROCESS = 5
  MIN_PRIORITY = 1
  MAX_PRIORITY = 4
  DEFAULT_PRIORITY = 3
  rr_quantum = 1
  QUEUE_CAPACITY = 2
  TICKS_PER_MS = 1
  SleepTimes = {0, 2}
  Calls <- AllCalls
  IdleMaySleep = FALSE
  Program = TRUE
  ProgramEnds = TRUE
INVARIANTS
  TypeOK
  IdleAlwaysReady
  QueueIntegrity
  SelectsHighest
  SelectsInTurn
  ChosenStaysRunnable
  CurrentOwnsStack
  OwnCodeIsRunnable
  SleepersHaveTimeout
  ContextsOwnStack
CHECK_DEADLOCK FALSE
