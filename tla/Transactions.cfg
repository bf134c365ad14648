SPECIFICATION Spec
CONSTANTS
  r1 = r1
  r2 = r2
  c1 = c1
  c2 = c2
  Request = {r1, r2}
  Customer = {c1, c2}
  Admin = {a1}
  Consult = {k1}
  Phone = {p1}
  None = none
  NoPhone = unknown
  REGISTER = 1
  FINISH_CONSULT = 1
  UPPER_LIMIT = 2
  MAX_INT = 3
  Amount <- Spent
  MaxRecorded = 3
SYMMETRY Symmetry
CONSTRAINTS BoundedRecords CustomersInvite
INVARIANTS TransactionsInv PointsWithinLimit PointsWereGranted
PROPERTY UndisturbedIsSequential
