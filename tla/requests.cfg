SPECIFICATION Spec
CONSTANTS
  w1 = w1
  w2 = w2
  Workers = {w1, w2}
  MaxAttempts = 2
  MaxClaims = 2
  Deadlines = {1}
  None = None
SYMMETRY Symmetry
INVARIANTS
  TypeOK
  EffectOnce
  AuditLinear
PROPERTIES
  SweepEndsOverdue
CHECK_DEADLOCK FALSE
