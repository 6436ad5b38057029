\* One stock, three days: partial fills, failed inquiries, refused buys, exits, stops and
\* revisions.
SPECIFICATION Spec
CONSTANTS
  Codes = {a}
  Lot = 2
  Faults = {"partial", "buyReject", "ledgerFail", "stopReject", "exitReject"}
  MaxDays = 3
  MaxLevel = 2
  MaxCrashes = 0
INVARIANTS
  WatchLeavesCurrent
  StopsWithinHoldings
PROPERTIES
  StopsOnlyRise
\* The last day may end and nothing remain to be done.
CHECK_DEADLOCK FALSE
