----------------------------- MODULE RiskEngine -----------------------------
(***************************************************************************)
(* The pure judgements of risk/risk_engine.py and risk/sizing.py.          *)
(*                                                                         *)
(* Money is a whole number of won and a ratio of the parameter file is a   *)
(* whole percentage, so a comparison  a / b > p  of the code is written    *)
(* here  100 * a > p * b ; the epsilons of the code, which absorb the      *)
(* rounding of binary floats, have no counterpart.                         *)
(*                                                                         *)
(* An account is a record [cash, held, heldValue, start, flow]: the cash,  *)
(* the set of codes held, their summed value, the baseline of the circuit  *)
(* breaker and the external flow the baseline is moved by.                 *)
(***************************************************************************)
EXTENDS Integers, FiniteSets, Sequences

CONSTANTS
  MaxPositions,   \* limits.max_positions
  GrossPct,       \* limits.gross_exposure_max, in percent
  DailyLossPct,   \* limits.daily_loss_pct, in percent
  SinglePct,      \* anomaly.single_order_pct, in percent
  OrdersPerBase,  \* anomaly.max_new_orders_per_capital
  CountBase       \* anomaly.order_count_capital_base

ASSUME ParamAssumption ==
  /\ MaxPositions \in Nat \ {0}
  /\ GrossPct \in Nat
  /\ DailyLossPct \in Nat
  /\ SinglePct \in Nat
  /\ OrdersPerBase \in Nat
  /\ CountBase \in Nat \ {0}

Equity(acc) == acc.cash + acc.heldValue

Baseline(acc) == acc.start + acc.flow

\* daily_loss_pct(acc) <= -limits.daily_loss_pct; a baseline of zero or less
\* never trips the breaker.
DailyLossTripped(acc) ==
  /\ Baseline(acc) > 0
  /\ 100 * (Equity(acc) - Baseline(acc)) <= -(DailyLossPct * Baseline(acc))

-----------------------------------------------------------------------------
(* Cycle level: the first check that applies decides.                      *)

CycleVerdict(action, check, result) ==
  [action |-> action, check |-> check, result |-> result]

LargeOutflow(residual, acc) ==
  LET outflow == -residual
      pre     == Equity(acc) + outflow
  IN  outflow > 0 /\ pre > 0 /\ 100 * outflow > 50 * pre

ScreenCycle(m, acc) ==
  CASE ~m.balanceOk                 -> CycleVerdict("halt", "balanceSync", "safeStop")
    [] /\ m.balanceOk
       /\ \/ m.cashNegative
          \/ LargeOutflow(m.residual, acc)
                                    -> CycleVerdict("halt", "balanceSync", "safeStop")
    [] OTHER ->
       IF m.marketHalt THEN CycleVerdict("skip", "marketHalt", "skipCycle")
       ELSE IF ~m.pricesOk THEN CycleVerdict("halt", "dataFreshness", "safeStop")
       ELSE IF DailyLossTripped(acc)
            THEN CycleVerdict("new_blocked", "circuitBreaker", "reject")
            ELSE CycleVerdict("proceed", "circuitBreaker", "pass")

-----------------------------------------------------------------------------
(* Order level.                                                            *)

StockStates == {"ok", "limitLock", "suspended", "vi", "overheated"}

CheckNewBuy(acc, add) ==
  /\ Equity(acc) > 0
  /\ add > 0
  /\ 100 * (acc.heldValue + add) <= GrossPct * Equity(acc)

\* The name of the check that refuses the order, "" when it passes: the hard
\* limit is looked at before the state of the stock.
ScreenOrder(acc, add, stockState) ==
  IF ~CheckNewBuy(acc, add) THEN "hardLimit"
  ELSE IF stockState # "ok" THEN "symbolState"
  ELSE ""

\* detect_anomaly, asked about the sequence of planned orders.  The caller only
\* proposes buys, so the buy/sell conflict of the code cannot arise.
Anomalous(acc, orders) ==
  \/ Equity(acc) <= 0
  \/ \E i \in DOMAIN orders :
       100 * orders[i].qty * orders[i].price > SinglePct * Equity(acc)
  \/ /\ Len(orders) > MaxPositions
     /\ Len(orders) * CountBase > OrdersPerBase * Equity(acc)

-----------------------------------------------------------------------------
(* Sizing, method equal_weight.                                            *)

EqualWeightQtyWhole(capital, entry) == capital \div entry   \* mistake: no share per position

EqualWeightQty(capital, entry) == (capital \div MaxPositions) \div entry

\* position_qty with at most one extra cap.
PositionQty(capital, entry, cap) ==
  LET base == EqualWeightQty(capital, entry)
      qty  == IF cap < base THEN cap ELSE base
  IN  IF qty < 0 THEN 0 ELSE qty
=============================================================================
