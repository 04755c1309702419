SPECIFICATION FairSpec
CONSTANTS
  Ids = {i1, i2}
  NoId = NoId
  ReuseIds = FALSE
  MaxQueue = 2
INVARIANTS
  OwedIsCounted
  EofLosesNothing
  ShutdownIsAcknowledged
PROPERTIES
  ImplementsLedger
  DeadStdoutEndsProcess
  EofEndsProcess
  ExitEndsProcess
