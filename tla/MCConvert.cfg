SPECIFICATION Spec
CONSTANTS
  SearchBytes = 512
  Sheets <- MCSheets
INVARIANT PairsStayWhole
INVARIANT FlatQuotesSurvive
INVARIANT QuotesOffKeepsMarks
\* A text is typed and converted once.
CHECK_DEADLOCK FALSE
