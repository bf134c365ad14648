SPECIFICATION Spec
CONSTANTS
  Phone = {p1}
  Code = {d1, d2, d3}
  Request = {r1, r2}
  None = none
  NullText = null
INVARIANTS VerificationInv LatestCodeIsValid OneCustomerPerPhone
PROPERTIES RequestsEnd SentBecomesValid ImplementsAccess
