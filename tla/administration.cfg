SPECIFICATION Spec
CONSTANTS
  u1 = u1
  u2 = u2
  p1 = p1
  p2 = p2
  p3 = p3
  w1 = w1
  w2 = w2
  Users = {u1, u2}
  Profiles = {p1, p2, p3}
  Workers = {w1, w2}
SYMMETRY Symmetry
INVARIANTS
  TypeOK
  AdministratorRemains
PROPERTIES
  DefaultRemains
CHECK_DEADLOCK FALSE
