SPECIFICATION MCSpec
CONSTANTS
  Mutations = {m1}
  Queries = {q1, q2}
  Runs = {u1}
  Manual = {i1}
  Flaky = {m1}
  Nothing = Nothing
  Off = Off
  MaxHeads = 1
  MaxOffs = 1
  a1 = a1  a2 = a2  w1 = w1  w2 = w2  r1 = r1
  Uris = {a1, a2}
  Writes = {w1, w2}
  Reads = {r1}
  UrisOf <- MCUrisOf
  UriOf <- MCUriOf
  MaxDocuments = 1
  Capabilities <- MCCapabilities
  Plans <- MCPlans
  NoDoc = NoDoc  Closed = Closed
SYMMETRY QuerySymmetry
INVARIANTS
  NoStaleAnswer OpenCallsGoOn
PROPERTIES
  DocumentsAgree OffHoldsAgainstLater
CHECK_DEADLOCK FALSE
