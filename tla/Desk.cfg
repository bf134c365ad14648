SPECIFICATION Spec
CONSTANTS
  Store = {s1}
  Admin = {a1, a2}
  Consult = {k1}
  Request = {r1, r2}
  None = none
  MaxMishaps = 1
SYMMETRY Symmetry
CONSTRAINTS FewMishaps StillFollowed
INVARIANTS DeskInv BoundIsTheAdministrator SalesWereTold NoticesAreTrue
PROPERTY ClosedStaysClosed
