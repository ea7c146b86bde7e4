SPECIFICATION SubagentsSpec
CONSTANTS
  NTasks = 2
  MaxConcurrency = 2
  MaxAttempts = 2
  Forked = {1, 2}
  Capable = {1, 2}
  Named = {1, 2}
  RetryOn = {}
  RetryDelay = TRUE
INVARIANT
  ForkCleaned
CHECK_DEADLOCK FALSE
