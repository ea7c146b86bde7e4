SPECIFICATION MCSpec
CONSTANTS
  Calls = {c1, c2, c3}
  Keys = {a, b}
  NoKey = NoKey
  BatchCalls = {c1, c2, c3}
  Paths = {p, q}
  Tasks = {t1, t2, t3}
  Workers = {w1, w2}
  NoTask = NoTask
  WorkerLimit = 2
  Operations = {o1, o2, s1}
  Searches = {s1}
  MaxRestarts = 1
  MaxClients = 3
  MaxCrashes = 2
  MaxReloads = 2
INVARIANTS
  EntriesExact NoTaskStranded NoLooseWorker OperationsUndisturbed
PROPERTIES
  ImplementsLock FinalizedWhole ReloadClosesCounted EveryCallEnds
CHECK_DEADLOCK FALSE
