----------------------------- MODULE SpecEngine -----------------------------
(***************************************************************************)
(* The backtest (backtest/spec_engine.py): a loop over the trading days    *)
(* that first fills the stops the day's bar touches, then runs the cycle   *)
(* at one price: the gate, the exits (decide_exit of exec/exits.py), the   *)
(* entries, and the anomaly switch over the whole plan.  Sizing and the    *)
(* judgements are those of RiskEngine, as in the code.  With sizing by     *)
(* equal weight neither conviction nor the Kelly fraction is read.         *)
(*                                                                         *)
(* The parameters may change from day to day (params_schedule): here the   *)
(* number of positions does.  Scores, momentum, ATR and the circuit        *)
(* breaker are left open: what they decide may go either way.  Money and   *)
(* prices are whole; the rates of the costs divide what they are taken of. *)
(***************************************************************************)
EXTENDS Integers, FiniteSets, FiniteSetsExt, SequencesExt

CONSTANTS
  Stocks,         \* how many stocks
  Days,           \* trading days of the period
  Capital,        \* initial_capital
  Bars,           \* bars a day may bring: [open, low, close]
  Stops,          \* levels a stop may be set to
  Maxima,         \* values of limits.max_positions along the schedule
  Caps,           \* shares the liquidity limit may allow
  GrossPct, SinglePct, OrdersPerBase, CountBase,   \* as in RiskEngine
  BuyRate, SellRate,   \* a purchase costs one part in BuyRate, a sale one in SellRate
  BreakevenHalves,     \* exits.breakeven_R, in halves
  ProgressHalves,      \* exits.min_progress_R, in halves
  MaxHoldDays,         \* exits.max_hold_days
  PartialOf            \* exits.partial_frac is 1 / PartialOf, and 0 if it is 0

Codes == 1 .. Stocks

ASSUME SpecAssumption ==
  /\ Stocks \in Nat /\ Days \in Nat /\ Capital \in Nat
  /\ Maxima \subseteq Nat \ {0} /\ Stops \subseteq Nat
  /\ Bars \subseteq [open : Nat, low : Nat, close : Nat]
  /\ \A b \in Bars : b.low > 0 /\ b.low <= b.open /\ b.low <= b.close
  /\ Caps \subseteq Nat /\ PartialOf \in Nat
  /\ BuyRate \in Nat \ {0} /\ SellRate \in Nat \ {0}

\* The costs are whole, so they are proportional to the shares as in the code.
ASSUME CostAssumption ==
  /\ \A b \in Bars : b.close % BuyRate = 0 /\ b.close % SellRate = 0 /\ b.open % SellRate = 0
  /\ \A s \in Stops : s % SellRate = 0

\* A partial exit is of less than all: with partial_frac = 1 (--partial 1.0 of
\* run_gate.py) a holding of no shares would stay in the book until its stop.
ASSUME PartialAssumption == PartialOf # 1

VARIABLES
  day,        \* d
  step,       \* where in the day
  max,        \* limits.max_positions of the day, 0 until it is read
  bar,        \* the bar of each stock, NoBar when it did not trade
  last,       \* p_close: yesterday's close, 0 when there is none
  todo,       \* stocks the loop at hand has not looked at
  cash,
  positions,  \* the holding of each stock, None when it has none
  buys,       \* proposed purchases the entry loop has not looked at
  planned,    \* the orders of the day's plan, as holdings
  slots,
  safeStopped,
  pnl         \* the sum of net_pnl over the closed trades

dayVars == <<day, bar, last>>
money == <<cash, pnl>>
plan == <<max, buys, planned, slots>>
vars == <<dayVars, step, todo, positions, money, plan, safeStopped>>

Risk(m) == INSTANCE RiskEngine WITH MaxPositions <- m, DailyLossPct <- 0

None == [qty |-> 0, entry |-> 0, initial |-> 0, stop |-> 0, days |-> 0, breakeven |-> FALSE]
NoBar == [open |-> 0, low |-> 0, close |-> 0]

Bought(qty, price, stop) ==
  [qty |-> qty, entry |-> price, initial |-> stop, stop |-> stop, days |-> 0,
   breakeven |-> FALSE]

In(book) == {c \in Codes : book[c] # None}

\* entry_timing "last": the cycle trades at the close.
Px(c) == bar[c].close

\* A stock that is not held is read at the price of the cycle alone.
BarsOf(c) ==
  IF c \in In(positions) THEN Bars \cup {NoBar}
  ELSE {b \in Bars : b.open = b.close /\ b.low = b.close}

Init ==
  /\ day = 0 /\ step = "night"
  /\ max = 0
  /\ bar = [c \in Codes |-> NoBar]
  /\ last = [c \in Codes |-> 0]
  /\ todo = {}
  /\ cash = Capital /\ pnl = 0
  /\ positions = [c \in Codes |-> None]
  /\ buys = {} /\ slots = 0
  /\ planned = [c \in Codes |-> None]
  /\ safeStopped = FALSE

-----------------------------------------------------------------------------
(* Money (core/costs.py).                                                  *)

BuyCost(value) == value \div BuyRate
SellCost(value) == value \div SellRate
Proceeds(price, qty) == price * qty - SellCost(price * qty)

\* The profit of a sale: the costs of both sides are taken off.
NetPnl(h, price, qty) ==
  (price - h.entry) * qty - BuyCost(h.entry * qty) - SellCost(price * qty)

\* A stock without a bar is worth yesterday's close, or else what it was bought at.
Worth(c, h) ==
  h.qty * (IF bar[c] # NoBar THEN Px(c) ELSE IF last[c] # 0 THEN last[c] ELSE h.entry)

BookWorth(book) == SumFunction([c \in In(book) |-> Worth(c, book[c])])

\* _account at the prices of the cycle, the plan so far included.
Account ==
  [cash |-> cash, held |-> In(positions) \cup In(planned),
   heldValue |-> BookWorth(positions) + BookWorth(planned), start |-> 0, flow |-> 0]

-----------------------------------------------------------------------------
(* The day: bars, stops, gate.                                             *)

DayBegins ==
  /\ step = "night" /\ day < Days
  /\ day' = day + 1 /\ step' = "stops"
  /\ \E b \in [Codes -> Bars \cup {NoBar}] :
       (\A c \in Codes : b[c] \in BarsOf(c)) /\ bar' = b
  /\ todo' = In(positions)
  /\ UNCHANGED <<last, positions, money, plan, safeStopped>>

\* The loops go through the holdings in a fixed order.
First(c) == c \in todo /\ \A d \in todo : c <= d

\* qty shares of c are sold at price; the rest is held as h.
Sell(c, price, qty, h) ==
  /\ cash' = cash + Proceeds(price, qty)
  /\ pnl' = pnl + NetPnl(positions[c], price, qty)
  /\ positions' = [positions EXCEPT ![c] = h]

Keep(c, h) ==
  /\ positions' = [positions EXCEPT ![c] = h]
  /\ UNCHANGED money

\* Mutant of StopFill: a gap is filled at the stop.
StopFillAtStop(c) == positions[c].stop

\* A bar that opens at or below the stop is sold at the open.
StopFill(c) == IF bar[c].open <= positions[c].stop THEN bar[c].open ELSE positions[c].stop

CheckStop(c) ==
  /\ step = "stops" /\ First(c)
  /\ todo' = todo \ {c}
  /\ IF bar[c] # NoBar /\ bar[c].low <= positions[c].stop
     THEN Sell(c, StopFill(c), positions[c].qty, None)
     ELSE Keep(c, positions[c])
  /\ UNCHANGED <<dayVars, step, plan, safeStopped>>

\* No stock is eligible and none is held: there is no cycle.
NothingToDo ==
  /\ step = "stops" /\ todo = {} /\ In(positions) = {}
  /\ step' = "close"
  /\ UNCHANGED <<dayVars, todo, positions, money, plan, safeStopped>>

\* Mutant of Gate: a SafeStop does not bar the entries of later days.
GateForgetful(b) ==
  /\ step = "stops" /\ todo = {}
  /\ b \subseteq Codes \ In(positions)
  /\ step' = "exits" /\ todo' = In(positions)
  /\ buys' = b
  /\ UNCHANGED <<dayVars, positions, money, max, planned, slots, safeStopped>>

\* b: the stocks that score above the entry threshold and whose momentum, stop
\* and edge the entry loop will not object to (it reads them, and writes
\* nothing they depend on); none when the circuit breaker is tripped.  They are
\* judged before the exits and bought after them.  The market state of a
\* backtest never skips or halts a cycle.
Gate(b) ==
  /\ step = "stops" /\ todo = {}
  /\ b \subseteq Codes \ In(positions)
  /\ safeStopped => b = {}
  /\ step' = "exits" /\ todo' = In(positions)
  /\ buys' = b
  /\ UNCHANGED <<dayVars, positions, money, max, planned, slots, safeStopped>>

-----------------------------------------------------------------------------
(* The exits.                                                              *)

Action(kind, stop) == [kind |-> kind, stop |-> stop]

Halves(h, n) == 2 * h.entry + n * (h.entry - h.initial)

\* Mutant of BreakevenStop: a stop above the entry price is lowered to it.
BreakevenStopFlat(h) == h.entry

BreakevenStop(h) == IF h.stop > h.entry THEN h.stop ELSE h.entry

\* decide_exit: the first rule that applies.  trail is price - trail_k * atr.
DecideExit(h, price, trail, thesisValid) ==
  LET risky == h.entry > h.initial
  IN CASE ~thesisValid \/ price <= h.stop -> Action("full", 0)
       [] OTHER ->
     CASE ~h.breakeven /\ risky /\ 2 * price >= Halves(h, BreakevenHalves) ->
            Action(IF PartialOf > 0 THEN "partial" ELSE "breakeven", BreakevenStop(h))
       [] OTHER ->
     CASE trail > h.stop -> Action("trail", trail)
       [] trail <= h.stop /\ h.days > MaxHoldDays /\ risky
            /\ 2 * price < Halves(h, ProgressHalves) -> Action("full", 0)
       [] OTHER -> Action("hold", h.stop)

\* A stock that did not trade today, or yesterday (no ATR), is left alone: its
\* days are not counted either.
SkipExit(c) ==
  /\ step = "exits" /\ First(c)
  /\ bar[c] = NoBar \/ last[c] = 0
  /\ todo' = todo \ {c}
  /\ UNCHANGED <<dayVars, step, positions, money, plan, safeStopped>>

\* What is left of a holding, qty shares, after the day's action.
Kept(h, act, qty) ==
  [qty |-> qty, entry |-> h.entry, initial |-> h.initial, stop |-> act.stop,
   days |-> h.days + 1, breakeven |-> h.breakeven \/ act.kind \in {"partial", "breakeven"}]

Exit(c, trail, thesisValid) ==
  /\ step = "exits" /\ First(c)
  /\ bar[c] # NoBar /\ last[c] # 0
  /\ trail < Px(c)
  /\ todo' = todo \ {c}
  /\ LET h    == positions[c]
         act  == DecideExit(h, Px(c), trail, thesisValid)
         part == h.qty \div PartialOf
     IN  CASE act.kind = "full" -> Sell(c, Px(c), h.qty, None)
           [] act.kind = "partial" -> Sell(c, Px(c), part, Kept(h, act, h.qty - part))
           [] OTHER -> Keep(c, Kept(h, act, h.qty))
  /\ UNCHANGED <<dayVars, step, plan, safeStopped>>

\* The places the day's exits have freed count.
ExitsDone ==
  /\ step = "exits" /\ todo = {}
  /\ step' = "entries" /\ max' \in Maxima
  /\ slots' = max' - Cardinality(In(positions))
  /\ UNCHANGED <<dayVars, todo, positions, money, buys, planned, safeStopped>>

-----------------------------------------------------------------------------
(* The entries, in the order of the scores (any order here).               *)

Shares(c, cap) == Risk(max)!PositionQty(Risk(max)!Equity(Account), Px(c), cap)

\* Mutant of Affordable: the cost of the purchase is not asked about.
AffordableValue(value) == value <= cash

Affordable(value) == value + BuyCost(value) <= cash

Refuse(c, qty) ==
  /\ \/ qty <= 0
     \/ ~Risk(max)!CheckNewBuy(Account, Px(c) * qty)
     \/ ~Affordable(Px(c) * qty)
  /\ UNCHANGED <<cash, planned, slots>>

Enter(c, qty, stop) ==
  LET value == Px(c) * qty
  IN  /\ qty > 0
      /\ Risk(max)!CheckNewBuy(Account, value)
      /\ Affordable(value)
      /\ planned' = [planned EXCEPT ![c] = Bought(qty, Px(c), stop)]
      /\ cash' = cash - value - BuyCost(value)
      /\ slots' = slots - 1

PlanEntry(c, cap, stop) ==
  /\ step = "entries" /\ slots > 0 /\ c \in buys
  /\ stop < Px(c)
  /\ buys' = buys \ {c}
  /\ Refuse(c, Shares(c, cap)) \/ Enter(c, Shares(c, cap), stop)
  /\ UNCHANGED <<dayVars, max, step, todo, positions, pnl, safeStopped>>

\* detect_anomaly over the plan, at the account the plan has left.
PlanAnomalous ==
  LET codes == SetToSeq(In(planned))
  IN  Risk(max)!Anomalous(Account, [i \in DOMAIN codes |->
        [qty |-> planned[codes[i]].qty, price |-> planned[codes[i]].entry]])

\* Mutant of Refund: the costs that were set aside are not given back.
RefundNoCost(h) == h.qty * h.entry

Refund(h) == h.qty * h.entry + BuyCost(h.qty * h.entry)

\* The plan is carried out as a whole, or cancelled as a whole for good.
CommitPlan ==
  /\ step = "entries" /\ (buys = {} \/ slots <= 0)
  /\ IF In(planned) # {} /\ PlanAnomalous
     THEN /\ cash' = cash + SumFunction([c \in In(planned) |-> Refund(planned[c])])
          /\ safeStopped' = TRUE
          /\ UNCHANGED positions
     ELSE /\ positions' = [c \in Codes |-> IF planned[c] # None THEN planned[c] ELSE positions[c]]
          /\ UNCHANGED <<cash, safeStopped>>
  /\ planned' = [c \in Codes |-> None] /\ buys' = {}
  /\ slots' = 0 /\ max' = 0
  /\ step' = "close"
  /\ UNCHANGED <<dayVars, todo, pnl>>

\* Tomorrow the closes of today are yesterday's; they are read of holdings only.
DayEnds ==
  /\ step = "close"
  /\ step' = "night"
  /\ last' = [c \in Codes |-> IF c \in In(positions) THEN bar[c].close ELSE 0]
  /\ bar' = [c \in Codes |-> NoBar]
  /\ UNCHANGED <<day, todo, positions, money, plan, safeStopped>>

Next ==
  \/ DayBegins \/ NothingToDo \/ ExitsDone \/ CommitPlan \/ DayEnds
  \/ \E b \in SUBSET Codes : Gate(b)
  \/ \E c \in Codes :
       \/ CheckStop(c) \/ SkipExit(c)
       \/ \E trail \in Stops, thesisValid \in BOOLEAN : Exit(c, trail, thesisValid)
       \/ \E cap \in Caps, stop \in Stops : PlanEntry(c, cap, stop)

Spec == Init /\ [][Next]_vars

-----------------------------------------------------------------------------
(* Properties.                                                             *)

Holdings ==
  [qty : Nat \ {0}, entry : Nat \ {0}, initial : Nat, stop : Nat, days : Nat, breakeven : BOOLEAN]

\* The state is well typed.  Two facts are not a matter of types: no holding is
\* ever empty, and the cash never goes below zero, the costs included.
SpecTypeOK ==
  /\ day \in 0 .. Days /\ step \in {"night", "stops", "exits", "entries", "close"}
  /\ max \in Maxima \cup {0} /\ bar \in [Codes -> Bars \cup {NoBar}] /\ last \in [Codes -> Nat]
  /\ todo \subseteq Codes /\ buys \subseteq Codes
  /\ cash \in Nat /\ pnl \in Int /\ slots \in Int /\ safeStopped \in BOOLEAN
  /\ \A c \in Codes : positions[c] # None => positions[c] \in Holdings
  /\ \A c \in Codes : planned[c] # None => planned[c] \in Holdings

Cost(h) == h.qty * h.entry + BuyCost(h.qty * h.entry)
AtCost(book) == SumFunction([c \in In(book) |-> Cost(book[c])])

\* What the closed trades report is what the cash and the holdings show: the
\* capital and the profits are the cash and what was paid for the holdings, all
\* costs counted once, through partial sales and cancelled plans.
MoneyConserved ==
  cash + AtCost(positions) + AtCost(planned) = Capital + pnl

\* The stop of a holding is never lowered, whichever rule moves it.
StopsNeverFall ==
  [][\A c \in In(positions) \cap In(positions') : positions'[c].stop >= positions[c].stop]_vars

\* Every sale is booked at a price the stock traded at that day: a stop that the
\* day opens below does not get its price.
SalesAtMarketPrices ==
  [][\A c \in In(positions) :
       positions'[c].qty < positions[c].qty =>
         \E price \in bar[c].low .. Max({bar[c].open, bar[c].close}) :
           cash' = cash + Proceeds(price, positions[c].qty - positions'[c].qty)]_vars

\* Purchases stay within what the day allows: none once a SafeStop was raised,
\* which is for good while sales go on, and none that leaves more holdings than
\* the parameters of that day permit, though days with a larger limit came before.
EntriesAsAllowed ==
  [][/\ safeStopped => safeStopped'
     /\ ~(In(positions') \subseteq In(positions)) =>
          ~safeStopped /\ Cardinality(In(positions')) <= max]_vars
=============================================================================
