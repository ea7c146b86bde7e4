SPECIFICATION MCSpec
CONSTANTS
  NTasks = 3
  MaxConcurrency = 2
  MaxAttempts = 2
  Forked = {3}
  Capable = {2}
  Named = {}
  RetryOn = {"empty"}
  RetryDelay = TRUE
  ToolCalls = {t1, t2, t3}
  MaxRuns = 3
  MaxBroken = 1
  Sessions = {s1, s2}
  Requests = {q1, q2}
  Similar <- MCSimilar
  MaxConfigs = 1
  MaxCrashes = 1
  MaxSpoils = 1
  Unreadable = Unreadable
  MaxOutput = 5
  Chunks = {1, 2}
  Characters <- MCCharacters
  CaptureBytes = 5
  PreviewBytes = 4
  SuccessBytes = 2
  FailureBytes = 1
  Calls = {c1, c2, c3}
  Keys = {j, k}
  Formal = {b}
  None = None
  Order <- MCOrder
  Deadline = 2
  CacheTtl = 1
  NegativeTtl = 1
  RetryAfter = 1
  Interval = 1
  Cooldown = 2
INVARIANTS
  ChildrenAccounted RecordsExact RulesKept NothingLostSilently
PROPERTIES
  NothingTwice EverythingEnds
CHECK_DEADLOCK FALSE
