------------------------------ MODULE EntryPlan ------------------------------
(***************************************************************************)
(* Steps 3 and 4 of a cycle, from the decision to the plan of new entries: *)
(* pipeline/decision.py (decide), and _drop_new_entries, _plan_entries and *)
(* the anomaly check of pipeline/cycle.py (run).                           *)
(*                                                                         *)
(* The plan walks the buy proposals one by one.  It spends slots and, in   *)
(* "committed", the money of the proposals already accepted, and asks the  *)
(* risk engine about each next one with what is committed so far.  What a  *)
(* quote and the indicators say of a stock (price, liquidity cap, net      *)
(* edge, tradable state) is chosen when the stock is considered; the order *)
(* of the walk, the score order in the code, is left open.                 *)
(***************************************************************************)
EXTENDS RiskEngine

CONSTANTS
  Codes,     \* stock codes of the watchlist
  Prices,    \* entry prices a quote may give, in won
  Caps,      \* liquidity caps in shares; one above every quantity stands for no cap
  Cashes,    \* cash balances the account may start with; a negative one halts the cycle before
  HeldValues \* summed values of the holdings it may start with

ASSUME PlanAssumption ==
  /\ IsFiniteSet(Codes)
  /\ Prices \subseteq Nat \ {0}
  /\ Caps \subseteq Nat
  /\ Cashes \subseteq Nat
  /\ HeldValues \subseteq Nat

VARIABLES
  phase,     \* "deciding", "planning", "recorded" or "halted"
  account,   \* the account snapshot the cycle works from; it does not change
  orders,    \* the decision: [Codes -> {"buy", "sell", "hold", "none"}]
  todo,      \* codes whose proposal the plan has not looked at yet
  slots,     \* open positions left
  committed, \* won spent on planned so far
  planned,   \* sequence of planned orders
  checks,    \* sequence of pending check rows, in the order they are raised
  noTrades   \* codes dropped because the cost exceeds the edge

planVars == <<phase, account, orders, todo, slots, committed, planned, checks, noTrades>>

Actions == {"buy", "sell", "hold", "none"}

Accounts ==
  {a \in [cash : Cashes, held : SUBSET Codes, heldValue : HeldValues,
          start : {0}, flow : {0}] : a.held = {} <=> a.heldValue = 0}

PlanInit ==
  /\ phase = "deciding"
  /\ account \in Accounts
  /\ orders = [c \in Codes |-> "none"]
  /\ todo = {}
  /\ slots = 0
  /\ committed = 0
  /\ planned = <<>>
  /\ checks = <<>>
  /\ noTrades = {}

-----------------------------------------------------------------------------
\* decide: a held stock is sold or kept, another one bought or not proposed,
\* as its score falls against the two thresholds; _drop_new_entries then
\* removes the buys when new entries are blocked.
DecidedOnScore(scored, newBlocked) ==   \* mistake: a held stock is bought again
  [c \in Codes |->
     IF scored[c] = "aboveEntry" /\ ~newBlocked THEN "buy"
     ELSE IF c \in account.held THEN "hold" ELSE "none"]

Decided(scored, newBlocked) ==
  [c \in Codes |->
     IF c \in account.held
     THEN IF scored[c] = "belowExit" THEN "sell" ELSE "hold"
     ELSE IF scored[c] = "aboveEntry" /\ ~newBlocked THEN "buy" ELSE "none"]

\* Mistake: the slots ignore what is already held.
RunDecisionAllSlots(scored, newBlocked) ==
  /\ phase = "deciding"
  /\ phase' = "planning"
  /\ orders' = Decided(scored, newBlocked)
  /\ todo' = {c \in Codes : orders'[c] # "none"}
  /\ slots' = MaxPositions
  /\ UNCHANGED <<account, committed, planned, checks, noTrades>>

RunDecision(scored, newBlocked) ==
  /\ phase = "deciding"
  /\ phase' = "planning"
  /\ orders' = Decided(scored, newBlocked)
  /\ todo' = {c \in Codes : orders'[c] # "none"}
  /\ slots' = MaxPositions - Cardinality(account.held)
  /\ UNCHANGED <<account, committed, planned, checks, noTrades>>

-----------------------------------------------------------------------------
\* One turn of the loop of _plan_entries over code c.
Turn(c) ==
  /\ phase = "planning"
  /\ slots > 0
  /\ c \in todo
  /\ todo' = todo \ {c}
  /\ UNCHANGED <<phase, account, orders>>

Row(c, name, result) == [code |-> c, name |-> name, result |-> result]

\* Not a buy, or no price, ATR, momentum or positive stop to enter with.
PassOver(c) ==
  /\ Turn(c)
  /\ UNCHANGED <<slots, committed, planned, checks, noTrades>>

\* The row that reports a cut by the liquidity cap comes before the others.
CutRows(c, price, cap) ==
  IF PositionQty(Equity(account), price, cap) < EqualWeightQty(Equity(account), price)
  THEN <<Row(c, "hardLimit", "reduce")>>
  ELSE <<>>

TooSmall(c, price, cap) ==
  /\ Turn(c)
  /\ orders[c] = "buy"
  /\ PositionQty(Equity(account), price, cap) = 0
  /\ checks' = Append(checks, Row(c, "hardLimit", "reject"))
  /\ UNCHANGED <<slots, committed, planned, noTrades>>

NoEdge(c, price, cap) ==
  /\ Turn(c)
  /\ orders[c] = "buy"
  /\ PositionQty(Equity(account), price, cap) > 0
  /\ checks' = checks \o CutRows(c, price, cap)
  /\ noTrades' = noTrades \cup {c}
  /\ UNCHANGED <<slots, committed, planned>>

Refused(c, price, cap, stockState) ==
  LET qty   == PositionQty(Equity(account), price, cap)
      check == ScreenOrder(account, committed + qty * price, stockState)
  IN  /\ Turn(c)
      /\ orders[c] = "buy"
      /\ qty > 0
      /\ check # ""
      /\ checks' = checks \o CutRows(c, price, cap) \o <<Row(c, check, "reject")>>
      /\ UNCHANGED <<slots, committed, planned, noTrades>>

\* What a planned order changes.
Enter(c, price, qty, rows) ==
  /\ checks' = checks \o rows \o <<Row(c, "symbolState", "pass")>>
  /\ committed' = committed + qty * price
  /\ slots' = slots - 1
  /\ planned' = Append(planned, [code |-> c, qty |-> qty, price |-> price])
  /\ UNCHANGED noTrades

\* Mistake: the gate is asked about this order alone, not about the plan so far.
AcceptAlone(c, price, cap, stockState) ==
  LET qty == PositionQty(Equity(account), price, cap)
  IN  /\ Turn(c)
      /\ orders[c] = "buy"
      /\ qty > 0
      /\ ScreenOrder(account, qty * price, stockState) = ""
      /\ Enter(c, price, qty, CutRows(c, price, cap))

\* Mistake: an order cut down to nothing is planned.
AcceptEmpty(c, price, cap, stockState) ==
  LET qty == PositionQty(Equity(account), price, cap)
  IN  /\ Turn(c)
      /\ orders[c] = "buy"
      /\ ScreenOrder(account, committed + qty * price, stockState) = ""
      /\ Enter(c, price, qty, CutRows(c, price, cap))

Accept(c, price, cap, stockState) ==
  LET qty == PositionQty(Equity(account), price, cap)
  IN  /\ Turn(c)
      /\ orders[c] = "buy"
      /\ qty > 0
      /\ ScreenOrder(account, committed + qty * price, stockState) = ""
      /\ Enter(c, price, qty, CutRows(c, price, cap))

Consider(c) ==
  \/ PassOver(c)
  \/ \E price \in Prices, cap \in Caps :
       \/ TooSmall(c, price, cap)
       \/ NoEdge(c, price, cap)
       \/ \E stockState \in StockStates :
            \/ Refused(c, price, cap, stockState)
            \/ Accept(c, price, cap, stockState)

\* The loop ends with the proposals or with the slots; the anomaly check then
\* either keeps the plan or drops all of it and halts the cycle.
Finish ==
  /\ phase = "planning"
  /\ todo = {} \/ slots <= 0
  /\ IF Anomalous(account, planned)
     THEN phase' = "halted" /\ planned' = <<>>
     ELSE phase' = "recorded" /\ UNCHANGED planned
  /\ UNCHANGED <<account, orders, todo, slots, committed, checks, noTrades>>

PlanNext ==
  \/ \E scored \in [Codes -> {"belowExit", "between", "aboveEntry"}], b \in BOOLEAN :
       RunDecision(scored, b)
  \/ \E c \in Codes : Consider(c)
  \/ Finish

PlanSpec == PlanInit /\ [][PlanNext]_planVars

-----------------------------------------------------------------------------
(* Properties                                                              *)

PlannedOrders == Seq([code : Codes, qty : Nat \ {0}, price : Nat \ {0}])

PlannedCodes == {planned[i].code : i \in DOMAIN planned}

\* The type of the plan's state.
PlanTypeOK ==
  /\ phase \in {"deciding", "planning", "recorded", "halted"}
  /\ account \in Accounts
  /\ orders \in [Codes -> Actions]
  /\ todo \subseteq Codes
  /\ slots \in Int
  /\ committed \in Nat
  /\ planned \in PlannedOrders
  /\ noTrades \subseteq Codes

\* Whatever the order of the candidates and the caps that cut them, what is
\* held and what is planned stay together under the gross exposure limit,
\* which is applied order by order with the money committed so far.
ExposureBounded ==
  committed > 0 =>
    100 * (account.heldValue + committed) <= GrossPct * Equity(account)

\* A plan never takes the portfolio beyond the number of positions allowed,
\* and an account that already holds more gets no plan at all.
SlotsBounded ==
  planned # <<>> => Cardinality(account.held) + Len(planned) <= MaxPositions

\* No stock is planned twice, and none that is held is bought again: the
\* position table has one open row per stock and merges a second entry into it.
NoDoubleEntry ==
  /\ \A i, j \in DOMAIN planned : planned[i].code = planned[j].code => i = j
  /\ PlannedCodes \cap account.held = {}

\* The kill switch for a runaway model never fires on the plan's own sizing:
\* an equal share of the capital is under the single order limit as soon as
\* the number of positions and that limit fit together, and the slots keep the
\* number of orders under the other one.  An account worth nothing is the one
\* exception: the code calls it anomalous before it looks at any order.
NeverAnomalous ==
  100 <= SinglePct * MaxPositions /\ Equity(account) > 0 => phase # "halted"
=============================================================================
