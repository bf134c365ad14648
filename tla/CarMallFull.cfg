SPECIFICATION Spec
CONSTANTS
  s1 = s1
  s2 = s2
  m1 = m1
  w1 = w1
  w2 = w2
  n0 = n0
  n1 = n1
  n2 = n2
  n3 = n3
  c1 = c1
  c2 = c2
  k1 = k1
  k2 = k2
  Root = root
  RootName = n0
  None = none
  Invalid = invalid
  Store = {s1}
  Admin = {root, m1}
  Username = {n0, n1}
  Customer = {c1}
  Consult = {k1}
  REGISTER = 1
  FINISH_CONSULT = 1
  UPPER_LIMIT = 2
  MAX_INT = 3
  Amount = {}
  MaxRecorded = 2
CONSTRAINTS BoundedRecords FewSessions NothingIsSent
PROPERTY ImplementsAccounts
CHECK_DEADLOCK FALSE
