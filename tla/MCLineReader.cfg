SPECIFICATION ReaderSpec
CONSTANTS
  MaxLine = 2
  MaxDrain = 1
  MaxSent = 6
INVARIANTS
  LinesAreWhole
  RawIsBounded
