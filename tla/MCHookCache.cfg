SPECIFICATION Spec
CONSTANTS
  Callbacks = {p1, p2}
  Files = {f1, f2, f3}
  Terms = {t1}
  Cap = 2
  MaxWrites = 3
  MaxEdits = 2
  QuietRules = TRUE
SYMMETRY Symmetry
INVARIANT SilenceIsEarned
PROPERTY RecordsAreKept
CHECK_DEADLOCK FALSE
