SPECIFICATION Spec
CONSTANTS
  r1 = r1
  r2 = r2
  r3 = r3
  c1 = c1
  c2 = c2
  None = None
  Request = {r1, r2, r3}
  Class = {c1, c2}
  Bostype <- MCBostype
  Groups = 1
  Uuid <- MCUuid
SYMMETRY Symmetry
INVARIANTS BosidInv OneIdPerUuid FailsOnlyOverlapped
