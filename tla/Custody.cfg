\* Two stocks over two days: entries, overnight expiry of the stops, registration,
\* trailing, exits that may be refused, stops that trigger at any point.
SPECIFICATION FairSpec
CONSTANTS
  Codes = {a, b}
  Lot = 2
  Faults = {"exitReject"}
  MaxDays = 2
  MaxLevel = 2
  MaxCrashes = 0
INVARIANTS
  CustodyTypeOK
  BookMatchesBroker
  SharesAccounted
  NoDoubleOutcome
  WatchLeavesCovered
PROPERTIES
  NakedIsTemporary
\* The last day may end and nothing remain to be done.
CHECK_DEADLOCK FALSE
