SPECIFICATION Spec
CONSTANTS
  MaxDepth = 2
  Tags <- MCTags
  Scenes <- MCScenes
  TagOf <- MCTagOf
  MarkOf <- MCMarkOf
  PieceOf <- MCPieceOf
INVARIANTS
  MaskedAsMarked
  HeadingsStandOut
  SpansComeBack
  ReportsWhatIsWritten
PROPERTY ImplementsForeignText
\* A document is typed to its end.
CHECK_DEADLOCK FALSE
