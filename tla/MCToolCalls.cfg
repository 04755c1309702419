SPECIFICATION Spec
CONSTANTS
  Calls = {c1, c2}
  Keys = {k1, k2}
  None = None
  Budget = 2
  Cap = 3
  MaxIssues = 4
  MaxRestarts = 1
CHECK_DEADLOCK FALSE
INVARIANTS
  BudgetHolds
  EveryIssueIsAccountedFor
PROPERTIES
  CompletedCallIsWritten
  EveryCallEnds
