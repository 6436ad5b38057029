CONSTANTS
  Stocks = 2
  Days = 3
  Capital = 100
  Bars <- MCBars
  Stops = {5, 15}
  Maxima = {1, 2}
  Caps = {0, 3}
  GrossPct = 100
  SinglePct = 60
  OrdersPerBase = 30
  CountBase = 1
  BuyRate = 10
  SellRate = 5
  BreakevenHalves = 6
  ProgressHalves = 1
  MaxHoldDays = 0
  PartialOf = 2
SPECIFICATION Spec
INVARIANTS SpecTypeOK MoneyConserved
PROPERTIES EntriesAsAllowed StopsNeverFall SalesAtMarketPrices
CHECK_DEADLOCK FALSE
