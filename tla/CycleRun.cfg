\* Three cycles, transfers, stops and releases at any time, one death, stops nobody has booked when
\* the account is read, cycles without a watchlist.
SPECIFICATION Spec
CONSTANTS
  MaxPositions = 2
  GrossPct = 100
  DailyLossPct = 4
  SinglePct = 100
  OrdersPerBase = 30
  CountBase = 1
  MaxCycles = 3
  MaxMoney = 2
  MaxCrashes = 1
  Events = {"crash", "lateStop", "emptyList"}
INVARIANTS
  CycleTypeOK
  FlowsAreTransfers
  BaselineFollowsTransfers
  BarredCyclesDontTrade
PROPERTIES
  NoEntryUnderSafeStop
  StatusPromise
CHECK_DEADLOCK FALSE
