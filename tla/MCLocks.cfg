CONSTANTS
  Futures = {f1, f2, f3}
  Total = 3
  Requests = {1, 2, 3}
  NoOne = NoOne
  Values = {0, 1}
SPECIFICATION MCSpec
SYMMETRY Symmetry
INVARIANTS
  Conservation SemaphoreSafe RwLockSafe
PROPERTIES
  ImplementsFifo LockPromised
