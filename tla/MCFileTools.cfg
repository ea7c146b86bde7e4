SPECIFICATION MCSpec
CONSTANTS
  Among = {"tools", "config", "reads", "edits", "pages"}
  ToolCalls = {c1, c2, c3}
  Sessions = {s, t}
  Paths = {p}
  Files = {a, b}
  Other = o
  Contents <- MCContents
  Missing = Missing
  NoVersion = NoVersion
  None = None
  MaxOutside = 1
  Calls = {l1, l2}
  NLayers = 2
  MaxAttempts = 2
  MaxEdits = 1
  Inodes = {i, j}
  Texts <- MCTexts
  Gone = Gone
  Elsewhere = Elsewhere
  NoInode = NoInode
  MaxBytes = 1
  Piece = 2
  MaxChanges = 2
  MaxNow = 1
INVARIANTS
  CommitKeepsObservation ConfigOfOneMoment ConfigsSound ReadsSound TextsExact
PROPERTIES
  EditOfKnownContent
CHECK_DEADLOCK FALSE
