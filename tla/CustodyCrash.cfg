\* Two stocks, one day: stops, revisions and exits are refused, two processes die anywhere.
SPECIFICATION FairSpec
CONSTANTS
  Codes = {a, b}
  Lot = 1
  Faults = {"crash", "stopReject", "exitReject"}
  MaxDays = 1
  MaxLevel = 2
  MaxCrashes = 2
INVARIANTS
  WatchLeavesCovered
PROPERTIES
  NakedIsTemporary
\* The last day may end and nothing remain to be done.
CHECK_DEADLOCK FALSE
