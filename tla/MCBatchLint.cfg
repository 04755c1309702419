SPECIFICATION Spec
CONSTANTS
  Processes <- MCProcesses
  Scenes <- MCScenes
  Rules <- MCRules
  Extension <- MCExtension
  HiddenNames <- MCHiddenNames
INVARIANTS
  VerdictIsHonest
  AdoptionIsClean
  ReportDescribesTheDisk
  FixReportIsConfirmed
\* Every run comes to its end.
CHECK_DEADLOCK FALSE
