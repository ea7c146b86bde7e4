SPECIFICATION DocsSpec
CONSTANTS
  a = a b = b w1 = w1 w2 = w2 r1 = r1
  Uris = {a, b}
  Writes = {w1, w2}
  Reads = {r1}
  UrisOf <- MCUrisOf
  UriOf <- MCUriOf
  MaxDocuments = 1
  Capabilities <- MCCapabilities
  Plans <- MCPlans
  NoDoc = NoDoc Closed = Closed
INVARIANTS
  DiagnosticsOfThisWrite
CHECK_DEADLOCK FALSE
