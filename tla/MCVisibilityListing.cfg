SPECIFICATION VisSpec
CONSTANTS
  p1 = p1
  NRequests = 3
  Policies <- MCPolicies
  PolicyOf <- MCPolicyOf
  Linked = FALSE
  NoRequest = 0
  NoSnapshot = NoSnapshot
  Cancelled = Cancelled
  MaxEdits = 1
  MaxInvalid = 0
PROPERTIES
  DirectoryChangeSeen
CHECK_DEADLOCK FALSE
