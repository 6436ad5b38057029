\* Three stocks, one of them suspended; two batches, started at any hour for
\* either date, whole or resumed; any query fails, any batch dies.
SPECIFICATION Spec
CONSTANTS
  Listed = 3
  Halted = {3}
  MaxRuns = 2
INVARIANTS
  IngestTypeOK
  EachStockCountedOnce
  FreshBarsComplete
  QuietDayCandidatesCurrent
PROPERTIES
  CleanRunIsFresh
CHECK_DEADLOCK FALSE
