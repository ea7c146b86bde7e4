SPECIFICATION MCSpec
CONSTANTS
  Among = {"tools"}
  ToolCalls = {c1, c2}
  Sessions = {s}
  Paths = {p}
  Files = {a}
  Other = o
  Contents <- MCContents
  Missing = Missing
  NoVersion = NoVersion
  None = None
  MaxOutside = 0
  Calls = {l1}
  NLayers = 1
  MaxAttempts = 1
  MaxEdits = 0
  Inodes = {i}
  Texts <- MCTexts
  Gone = Gone
  Elsewhere = Elsewhere
  NoInode = NoInode
  MaxBytes = 1
  Piece = 1
  MaxChanges = 0
  MaxNow = 0
INVARIANTS
  WriteThenEditDespiteReads
CHECK_DEADLOCK FALSE
