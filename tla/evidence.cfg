SPECIFICATION Spec
CONSTANTS
  h1 = h1
  h2 = h2
  d1 = d1
  d2 = d2
  b1 = b1
  Digests = {d1, d2}
  Handlers = {h1, h2}
  Backups = {b1}
  MaxRestores = 1
  Corruptible = {d1}
  MayFail = {"copy", "dump", "replace", "move", "install", "database_back", "return", "return_database"}
  None = None
SYMMETRY Symmetry
INVARIANTS
  TypeOK
  RowsHaveObjects
  NoFalseAlarm
  DataKept
CHECK_DEADLOCK FALSE
