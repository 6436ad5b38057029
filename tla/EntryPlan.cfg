SPECIFICATION PlanSpec
CONSTANTS
  Codes = {a, b, c, d}
  MaxPositions = 3
  GrossPct = 100
  DailyLossPct = 4
  SinglePct = 34
  OrdersPerBase = 5
  CountBase = 1000
  Prices <- MCPrices
  Caps <- MCCaps
  Cashes <- MCCashes
  HeldValues <- MCHeldValues
SYMMETRY CodeSymmetry
INVARIANTS
  PlanTypeOK
  ExposureBounded
  SlotsBounded
  NoDoubleEntry
  NeverAnomalous
CHECK_DEADLOCK FALSE
