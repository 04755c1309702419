SPECIFICATION StoreSpec
CONSTANTS
  Programs = {p1, p2, p3}
  Keys = {k1, k2}
  Values = {v1}
  Nothing = Nothing
  MaxLosses = 1
CHECK_DEADLOCK FALSE
INVARIANTS
  EditsWhatIsThere
PROPERTIES
  ImplementsAtomicStore
