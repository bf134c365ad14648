SPECIFICATION Spec
CONSTANTS
  s1 = s1
  s2 = s2
  a1 = a1
  a2 = a2
  n0 = n0
  n1 = n1
  n2 = n2
  Root = root
  RootName = n0
  None = none
  Invalid = invalid
  Store <- MCStore
  Admin <- MCAdmin
  Username <- MCUsername
SYMMETRY Symmetry
INVARIANTS AccountsInv BoundAccountIsLive LiveSessionIsCurrent
PROPERTY RevivedOnlyFromSession
CHECK_DEADLOCK FALSE
