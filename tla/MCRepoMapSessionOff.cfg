SPECIFICATION SessionSpec
CONSTANTS
  m1 = m1  q1 = q1  q2 = q2  r1 = r1  i1 = i1
  Mutations = {m1}
  Queries = {q1, q2}
  Runs = {r1}
  Manual = {i1}
  Flaky = {m1}
  Nothing = Nothing
  Off = Off
  MaxHeads = 1
  MaxOffs = 1
SYMMETRY QuerySymmetry
CHECK_DEADLOCK FALSE
PROPERTIES
  OffHoldsUntilInit
