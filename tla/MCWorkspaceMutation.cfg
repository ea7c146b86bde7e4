SPECIFICATION MCFairSpec
CONSTANTS
  Calls = {c1, c2}
  Edits = {c1}
  Paths = {p, q}
  Files = {a, b, g}
  Blocked = {g}
  Other = o
  FirstLink = a
  Contents <- MCContents
  Missing = Missing
  NoFile = NoFile
  MaxAttempts = 2
  MaxOutside = 2
INVARIANTS
  OutcomesTrue
PROPERTIES
  CommitIsUpdate ImplementsAtomicFiles EveryCallReturns
CHECK_DEADLOCK FALSE
