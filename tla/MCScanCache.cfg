SPECIFICATION Spec
CONSTANTS
  Procs = {p1, p2}
  Files = {1, 2}
  Contents = {a, b}
  None = None
  Ttl = 1
  MaxEntries = 1
  MaxTime = 3
  MaxEdits = 1
  MaxScan = 1
SYMMETRY Symmetric
CHECK_DEADLOCK FALSE
INVARIANTS
  ReportsTheFile
PROPERTIES
  FlushKeepsNewest
