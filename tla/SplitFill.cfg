\* Violated: a stop filled in part is settled once and fails every later watch.
SPECIFICATION Spec
CONSTANTS
  Codes = {a}
  Lot = 2
  Faults = {"partial"}
  MaxDays = 2
  MaxLevel = 1
  MaxCrashes = 0
INVARIANTS
  EveryFillIsBooked
\* The last day may end and nothing remain to be done.
CHECK_DEADLOCK FALSE
