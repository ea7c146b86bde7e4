SPECIFICATION StoreFairSpec
CONSTANTS
  a1 = a1  a2 = a2  b1 = b1  P = P  Q = Q
  Calls = {a1, a2, b1}
  Processes = {P, Q}
  None = None
  ProcessOf <- ProcessOfValue
  Rebuilds = {b1}
  Supplied = {a2}
  Cancellable = {a1}
  Keep = 1
  MaxFiles = 1
  MaxDamage = 1
  MaxCrashes = 1
CHECK_DEADLOCK FALSE
INVARIANTS
  CurrentWhole
  CommitsAccounted
PROPERTIES
  NewerScanWins
  EveryCallEnds
