SPECIFICATION Spec
CONSTANTS
  Procs = {p1, p2}
  Terms = {t1, t2, t3}
  None = None
  MaxEntries = 2
  MaxImport = 2
  MaxDamage = 1
CHECK_DEADLOCK FALSE
SYMMETRY Symmetric
INVARIANTS
  IndexFindsLatest
  FreshWritersLoseNothing
