SPECIFICATION MCSpec
CONSTANTS
  c1 = c1  c2 = c2  c3 = c3
  auto = auto  literal = literal
  Calls <- MCCalls
  Keys <- MCKeys
  KeyOf <- MCKeyOf
  LiteralKeys = {literal}
  NoCall = NoCall
  NoEntry = NoEntry
  Aborted = Aborted
  MaxVersion = 1
  p1 = p1
  NRequests = 2
  Policies <- MCPolicies
  PolicyOf <- MCPolicyOf
  Linked = FALSE
  NoRequest = 0
  NoSnapshot = NoSnapshot
  Cancelled = Cancelled
  MaxEdits = 1
  MaxInvalid = 1
  Root = "."
  Nodes <- MCNodes
  Parent <- MCParent
  KindOf <- MCKindOf
  Listing <- MCListing
  RuleSnapshots <- MCRuleSnapshots
  Blocked = {"f"}
  Failing = {"e"}
  Starts = {".", "d"}
  Limits = {2, 7}
INVARIANTS
  CacheCoherent NoAbandonedBuild EntriesOfThisEpoch SnapshotsCoherent WalksExact
PROPERTIES
  AnswersNotBeforeBuild AnswersOfBuild EverythingReturns
CHECK_DEADLOCK FALSE
