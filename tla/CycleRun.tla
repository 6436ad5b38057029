------------------------------ MODULE CycleRun ------------------------------
(***************************************************************************)
(* A trading cycle as a whole (run_cycle.py, pipeline/cycle.py run) over   *)
(* the tables it shares with the other processes and with people: cycles,  *)
(* account_snapshots, cash_flows, safe_stop_events.  The exits and entries *)
(* of a cycle and the settlement of a watch, detailed in Custody, are one  *)
(* sale or one purchase of a lot here; the plan is detailed in EntryPlan.  *)
(*                                                                         *)
(* A share is worth one unit of money, and a unit is more than the         *)
(* threshold under which a difference of cash counts as a fee, so every    *)
(* difference that is not zero is a transfer (ops/cashflow.py).  People do *)
(* not relabel a transfer as income here, so every row of cash_flows is    *)
(* an external flow and the sum of the rows is all that matters of them.   *)
(*                                                                         *)
(* History variables, which the code has no counterpart of: unseen is what *)
(* people have moved since the account of the last snapshot was read,      *)
(* truth what they had moved up to then since the first snapshot; early    *)
(* are the proceeds of stops that the account of the last snapshot held    *)
(* and the book did not know of; lost are the flows that were found by     *)
(* cycles without a watchlist, which record none: all of them so far, and  *)
(* those of before the last snapshot; barred are the cycles that read an   *)
(* account other than the book or were told to stop, traded those that     *)
(* have sent an order.                                                     *)
(***************************************************************************)
EXTENDS RiskEngine

CONSTANTS
  MaxCycles,  \* bound: cycles
  MaxMoney,   \* bound: money and shares at KIS together
  MaxCrashes, \* bound: process deaths
  Events      \* what may happen, see EventKinds

EventKinds ==
  {"crash",     \* the cycle dies between two steps
   "lateStop",  \* a stop triggers between the last watch and the start of the cycle
   "emptyList"} \* no stock passes the screening and nothing is held

ASSUME CycleAssumption ==
  /\ MaxCycles \in Nat
  /\ MaxMoney \in Nat
  /\ MaxCrashes \in Nat
  /\ Events \subseteq EventKinds

VARIABLES
  kis,       \* [cash, shares] at the broker
  fired,     \* shares sold by resident stops and not booked yet
  book,      \* shares of the open positions
  since,     \* money of the fills recorded after the last snapshot
  snap,      \* the last account snapshot, NoSnapshot if there is none
  flows,     \* sum of the recorded cash_flows rows
  cycles,    \* sequence of the statuses of the cycles
  safeStop,  \* an unreleased safe_stop_events row exists
  run,       \* the process, see Process
  crashes,
  barred, traded, unseen, truth, early, lost

kisVars == <<kis, fired>>
history == <<unseen, truth, early, lost>>
tables == <<book, since, snap, flows, cycles, safeStop>>
marks == <<barred, traded, crashes>>
vars == <<kisVars, tables, marks, run, history>>

NoSnapshot == [taken |-> FALSE, cash |-> 0, cum |-> 0]

RunSteps ==
  {"idle", "fetch", "market", "create", "snapshot", "screen", "scored", "gate", "raise",
   "flow", "plan", "anomaly", "close", "order", "exits", "sold", "entries", "bought",
   "record"}

\* acc: the account that was read; seen: what unseen and fired were at that moment
\* (history); balanceOk, marketHalt, pricesOk: the market state; residual,
\* comparable: the cash reconciliation; action: the verdict of the gate; plan: the
\* planned orders.  What is not used any more is set back to its first value.
Process(pc, acc, seen) ==
  [pc |-> pc, acc |-> acc, seen |-> seen, balanceOk |-> TRUE, marketHalt |-> FALSE,
   pricesOk |-> TRUE, residual |-> 0, comparable |-> FALSE, action |-> "proceed",
   plan |-> <<>>]

NoAccount == [cash |-> 0, held |-> {}, heldValue |-> 0, start |-> 0, flow |-> 0]

NothingSeen == [moved |-> 0, fired |-> 0]

Idle == Process("idle", NoAccount, NothingSeen)

Init ==
  /\ kis = [cash |-> 1, shares |-> 0]
  /\ fired = 0
  /\ book = 0
  /\ since = 0
  /\ snap = NoSnapshot
  /\ flows = 0
  /\ cycles = <<>>
  /\ safeStop = FALSE
  /\ barred = {}
  /\ traded = {}
  /\ run = Idle
  /\ crashes = 0
  /\ unseen = 0
  /\ truth = 0
  /\ early = 0
  /\ lost = [all |-> 0, before |-> 0]

At(pc) == run.pc = pc
GoTo(pc) == run' = [run EXCEPT !.pc = pc]
This == Len(cycles)   \* the cycle in progress is the last one
Advance(status) == cycles' = [cycles EXCEPT ![This] = status]

-----------------------------------------------------------------------------
(* Broker and people.                                                      *)

Transfer(amount) ==
  /\ amount # 0
  /\ kis.cash + amount >= 0
  /\ kis.cash + kis.shares + amount <= MaxMoney
  /\ kis' = [kis EXCEPT !.cash = @ + amount]
  /\ unseen' = unseen + amount
  /\ UNCHANGED <<fired, tables, marks, run, truth, early, lost>>

\* Between the watch of 14:25 and the reading of the account at 14:30 a stop
\* may only trigger if "lateStop" is in Events.
StopFires(n) ==
  /\ n <= kis.shares /\ fired + n <= book
  /\ At("fetch") => "lateStop" \in Events
  /\ kis' = [cash |-> kis.cash + n, shares |-> kis.shares - n]
  /\ fired' = fired + n
  /\ UNCHANGED <<tables, marks, run, history>>

\* A bug: the fill is booked, but its price and time are left out of orders.
WatchSettlesUnpriced ==
  /\ At("idle")
  /\ fired > 0
  /\ book' = IF fired >= book THEN 0 ELSE book - fired
  /\ fired' = 0
  /\ UNCHANGED <<kis, since, snap, flows, cycles, safeStop, marks, run, history>>

\* mark_order_filled stamps the fill with the time the watch learns of it.  The
\* watch looks at the stops of open positions only.
WatchSettles ==
  /\ At("idle")
  /\ fired > 0
  /\ book' = IF fired >= book THEN 0 ELSE book - fired
  /\ since' = IF book > 0 THEN since + fired ELSE since
  /\ fired' = 0
  /\ UNCHANGED <<kis, snap, flows, cycles, safeStop, marks, run, history>>

Release ==
  /\ safeStop
  /\ safeStop' = FALSE
  /\ UNCHANGED <<kisVars, book, since, snap, flows, cycles, marks, run, history>>

-----------------------------------------------------------------------------
(* run_cycle.py: recover, read the account, judge the market.              *)

Recovered == [i \in DOMAIN cycles |->
  IF cycles[i] \in {"intent", "scoring", "deciding", "ordering"} THEN "failed" ELSE cycles[i]]

\* A bug: the cycles that died are not closed.
StartsUnrecovered ==
  /\ At("idle")
  /\ Len(cycles) < MaxCycles
  /\ fired = 0 \/ "lateStop" \in Events
  /\ run' = Process("fetch", NoAccount, NothingSeen)
  /\ UNCHANGED <<kisVars, tables, marks, history>>

Starts ==
  /\ At("idle")
  /\ Len(cycles) < MaxCycles
  /\ fired = 0 \/ "lateStop" \in Events
  /\ cycles' = Recovered
  /\ run' = Process("fetch", NoAccount, NothingSeen)
  /\ UNCHANGED <<kisVars, book, since, snap, flows, safeStop, marks, history>>

\* The baseline is what KIS calls the total of the day before; as prices move,
\* the account may be well above or well below it.
Bases == {0, 2 * MaxMoney}

FetchAccount(base) ==
  /\ At("fetch")
  /\ run' = Process("market",
              [cash |-> kis.cash, held |-> IF kis.shares > 0 THEN {"share"} ELSE {},
               heldValue |-> kis.shares, start |-> base, flow |-> 0],
              [moved |-> unseen, fired |-> fired])
  /\ UNCHANGED <<kisVars, tables, marks, history>>

BuildMarketState(marketHalt, pricesOk) ==
  /\ At("market")
  /\ run' = [run EXCEPT !.pc = "create", !.balanceOk = (book = run.acc.heldValue),
                        !.marketHalt = marketHalt, !.pricesOk = pricesOk]
  /\ UNCHANGED <<kisVars, tables, marks, history>>

\* No scores of the day or no price at all: the process ends before a cycle exists.
GivesUp ==
  /\ At("create")
  /\ run' = Idle
  /\ UNCHANGED <<kisVars, tables, marks, history>>

CreateCycle ==
  /\ At("create")
  /\ cycles' = Append(cycles, "intent")
  /\ GoTo("snapshot")
  /\ UNCHANGED <<kisVars, book, since, snap, flows, safeStop, marks, history>>

-----------------------------------------------------------------------------
(* Steps 0 to 2: cash reconciliation and snapshot, screening.              *)

\* expected_cash and _reconcile_cash; there is nothing to compare the first time.
Residual == IF snap.taken THEN run.acc.cash - (snap.cash + since) ELSE 0

\* The account as the gate sees it: with the flow found right now, and measured
\* from its own equity the first time.
Compared ==
  [run.acc EXCEPT !.flow = Residual,
                  !.start = IF snap.taken THEN run.acc.start ELSE Equity(run.acc)]

\* A bug: the flow found right now, not in cash_flows yet, is forgotten.
RecordSnapshotFlowsOnly ==
  /\ At("snapshot")
  /\ snap' = [taken |-> TRUE, cash |-> run.acc.cash, cum |-> flows]
  /\ since' = 0
  /\ run' = [run EXCEPT !.pc = "screen", !.seen = NothingSeen, !.residual = Residual,
                        !.comparable = snap.taken, !.acc = Compared]
  /\ unseen' = unseen - run.seen.moved
  /\ truth' = IF snap.taken THEN truth + run.seen.moved ELSE 0
  /\ early' = run.seen.fired
  /\ lost' = [lost EXCEPT !.before = lost.all]
  /\ UNCHANGED <<kisVars, book, flows, cycles, safeStop, marks>>

RecordSnapshot ==
  /\ At("snapshot")
  /\ snap' = [taken |-> TRUE, cash |-> run.acc.cash, cum |-> flows + Residual]
  /\ since' = 0
  /\ run' = [run EXCEPT !.pc = "screen", !.seen = NothingSeen, !.residual = Residual,
                        !.comparable = snap.taken, !.acc = Compared]
  /\ unseen' = unseen - run.seen.moved
  /\ truth' = IF snap.taken THEN truth + run.seen.moved ELSE 0
  /\ early' = run.seen.fired
  /\ lost' = [lost EXCEPT !.before = lost.all]
  /\ UNCHANGED <<kisVars, book, flows, cycles, safeStop, marks>>

\* Without a watchlist there is no decision, no gate and no record of the flow.
Screen(empty) ==
  /\ At("screen")
  /\ empty => "emptyList" \in Events /\ run.acc.heldValue = 0
  /\ Advance("scoring")
  /\ run' = IF empty THEN Process("order", NoAccount, NothingSeen) ELSE [run EXCEPT !.pc = "scored"]
  /\ lost' = IF empty THEN [lost EXCEPT !.all = @ + run.residual] ELSE lost
  /\ UNCHANGED <<kisVars, book, since, snap, flows, safeStop, marks, unseen, truth, early>>

StartDeciding ==
  /\ At("scored")
  /\ Advance("deciding")
  /\ GoTo("gate")
  /\ UNCHANGED <<kisVars, book, since, snap, flows, safeStop, marks, history>>

-----------------------------------------------------------------------------
(* Steps 3 and 4: the gate, the SafeStop, the flow, the plan.              *)

Verdict ==
  ScreenCycle([balanceOk |-> run.balanceOk, cashNegative |-> run.acc.cash < 0,
               residual |-> run.residual, marketHalt |-> run.marketHalt,
               pricesOk |-> run.pricesOk], run.acc)

Bar == barred' = IF run.balanceOk /\ Verdict.action \notin {"skip", "halt"}
                 THEN barred ELSE barred \cup {This}

\* A bug: a SafeStop of an earlier cycle is not looked at.
GateForgetful ==
  /\ At("gate")
  /\ run' = [run EXCEPT
       !.pc = IF Verdict.result = "safeStop" THEN "raise" ELSE "flow",
       !.action = Verdict.action,
       !.balanceOk = TRUE, !.marketHalt = FALSE, !.pricesOk = TRUE]
  /\ Bar
  /\ UNCHANGED <<kisVars, tables, traded, crashes, history>>

Gate ==
  /\ At("gate")
  /\ run' = [run EXCEPT
       !.pc = IF Verdict.result = "safeStop" /\ ~safeStop THEN "raise" ELSE "flow",
       !.action = IF safeStop /\ Verdict.action = "proceed" THEN "new_blocked"
                  ELSE Verdict.action,
       !.balanceOk = TRUE, !.marketHalt = FALSE, !.pricesOk = TRUE]
  /\ Bar
  /\ UNCHANGED <<kisVars, tables, traded, crashes, history>>

RaiseSafeStop ==
  /\ At("raise")
  /\ safeStop' = TRUE
  /\ GoTo("flow")
  /\ UNCHANGED <<kisVars, book, since, snap, flows, cycles, marks, history>>

\* A bug: new_blocked ends the cycle, so that nothing can be sold either.
RecordCashFlowBlocked ==
  /\ At("flow")
  /\ flows' = IF run.comparable THEN flows + run.residual ELSE flows
  /\ GoTo(IF run.action = "proceed" THEN "plan" ELSE "close")
  /\ UNCHANGED <<kisVars, book, since, snap, cycles, safeStop, marks, history>>

\* A bug: a halted cycle goes on after the record of its flow.
RecordCashFlowOnward ==
  /\ At("flow")
  /\ flows' = IF run.comparable THEN flows + run.residual ELSE flows
  /\ GoTo(IF run.action = "skip" THEN "close" ELSE "plan")
  /\ UNCHANGED <<kisVars, book, since, snap, cycles, safeStop, marks, history>>

\* The flow is recorded of a halted cycle too.
RecordCashFlow ==
  /\ At("flow")
  /\ flows' = IF run.comparable THEN flows + run.residual ELSE flows
  /\ GoTo(IF run.action \in {"proceed", "new_blocked"} THEN "plan" ELSE "close")
  /\ UNCHANGED <<kisVars, book, since, snap, cycles, safeStop, marks, history>>

Plans == {<<>>, <<[qty |-> 1, price |-> 1]>>}

PlanEntries(plan) ==
  /\ At("plan")
  /\ run.action = "new_blocked" => plan = <<>>
  /\ run' = IF Anomalous(run.acc, plan)
            THEN [Process("anomaly", NoAccount, NothingSeen) EXCEPT !.action = "halt"]
            ELSE [Process("order", NoAccount, NothingSeen) EXCEPT !.plan = plan]
  /\ UNCHANGED <<kisVars, tables, marks, history>>

RaiseAnomaly ==
  /\ At("anomaly")
  /\ safeStop' = TRUE
  /\ barred' = barred \cup {This}
  /\ GoTo("close")
  /\ UNCHANGED <<kisVars, book, since, snap, flows, cycles, traded, crashes, history>>

CloseCycle ==
  /\ At("close")
  /\ Advance(IF run.action = "skip" THEN "skipped" ELSE "failed")
  /\ run' = Idle
  /\ UNCHANGED <<kisVars, book, since, snap, flows, safeStop, marks, history>>

-----------------------------------------------------------------------------
(* Step 5: orders.                                                         *)

StartOrdering ==
  /\ At("order")
  /\ Advance("ordering")
  /\ GoTo("exits")
  /\ UNCHANGED <<kisVars, book, since, snap, flows, safeStop, marks, history>>

SellOne ==
  /\ At("exits")
  /\ book > 0 /\ kis.shares > 0
  /\ kis' = [cash |-> kis.cash + 1, shares |-> kis.shares - 1]
  /\ traded' = traded \cup {This}
  /\ GoTo("sold")
  /\ UNCHANGED <<fired, tables, barred, crashes, history>>

RecordSale ==
  /\ At("sold")
  /\ book' = book - 1
  /\ since' = since + 1
  /\ GoTo("exits")
  /\ UNCHANGED <<kisVars, snap, flows, cycles, safeStop, marks, history>>

ExitsDone ==
  /\ At("exits")
  /\ GoTo(IF run.plan = <<>> THEN "record" ELSE "entries")
  /\ UNCHANGED <<kisVars, tables, marks, history>>

\* An order that the money does not cover is refused by KIS.
BuyPlanned ==
  /\ At("entries")
  /\ \/ /\ kis.cash > 0
        /\ kis' = [cash |-> kis.cash - 1, shares |-> kis.shares + 1]
        /\ GoTo("bought")
     \/ UNCHANGED kis /\ GoTo("record")
  /\ traded' = traded \cup {This}
  /\ UNCHANGED <<fired, tables, barred, crashes, history>>

RecordPurchase ==
  /\ At("bought")
  /\ book' = book + 1
  /\ since' = since - 1
  /\ GoTo("record")
  /\ UNCHANGED <<kisVars, snap, flows, cycles, safeStop, marks, history>>

RecordCycle ==
  /\ At("record")
  /\ Advance("recorded")
  /\ run' = Idle
  /\ UNCHANGED <<kisVars, book, since, snap, flows, safeStop, marks, history>>

Crash ==
  /\ "crash" \in Events
  /\ ~At("idle")
  /\ crashes < MaxCrashes
  /\ crashes' = crashes + 1
  /\ run' = Idle
  /\ UNCHANGED <<kisVars, tables, barred, traded, history>>

Next ==
  \/ \E amount \in -MaxMoney .. MaxMoney : Transfer(amount)
  \/ \E n \in 1 .. MaxMoney : StopFires(n)
  \/ WatchSettles \/ Release
  \/ Starts
  \/ \E base \in Bases : FetchAccount(base)
  \/ \E marketHalt, pricesOk \in BOOLEAN : BuildMarketState(marketHalt, pricesOk)
  \/ GivesUp \/ CreateCycle \/ RecordSnapshot
  \/ \E empty \in BOOLEAN : Screen(empty)
  \/ StartDeciding \/ Gate \/ RaiseSafeStop \/ RecordCashFlow
  \/ \E plan \in Plans : PlanEntries(plan)
  \/ RaiseAnomaly \/ CloseCycle
  \/ StartOrdering \/ SellOne \/ RecordSale \/ ExitsDone \/ BuyPlanned \/ RecordPurchase
  \/ RecordCycle
  \/ Crash

Spec == Init /\ [][Next]_vars

-----------------------------------------------------------------------------
(* Properties                                                              *)

Statuses == {"intent", "scoring", "deciding", "ordering", "recorded", "failed", "skipped"}

\* Money, shares and the book stay counts, and each step of run finds what the
\* steps before it promise: a cycle is only closed at the gate when the verdict
\* was to skip or to halt, and from the first record of a cycle to its last one
\* it is the newest row of cycles.
CycleTypeOK ==
  /\ kis \in [cash : Nat, shares : Nat]
  /\ fired \in Nat /\ book \in Nat
  /\ since \in Int /\ flows \in Int /\ unseen \in Int /\ truth \in Int
  /\ early \in Nat /\ lost \in [all : Int, before : Int]
  /\ snap \in [taken : BOOLEAN, cash : Nat, cum : Int]
  /\ cycles \in Seq(Statuses)
  /\ safeStop \in BOOLEAN
  /\ barred \subseteq DOMAIN cycles /\ traded \subseteq DOMAIN cycles
  /\ run.pc \in RunSteps
  /\ run.pc \notin {"idle", "fetch", "market", "create"} =>
       cycles # <<>> /\ cycles[This] \notin {"recorded", "failed", "skipped"}
  /\ At("close") => run.action \in {"skip", "halt"}
  /\ crashes \in Nat

\* From the reconciliation to its record, the flow that was found is not in flows.
Window == {"screen", "scored", "gate", "raise", "flow"}

\* While no cycle has died, the reconciliations have recorded each transfer once
\* and nothing else, but for two things, and these exactly: the proceeds of a stop
\* that triggered before the account was read and that no watch had booked yet are
\* in, until the next reconciliation takes them out, and what a cycle without a
\* watchlist found is missing for good.  No sale, purchase or booked stop counts.
FlowsAreTransfers ==
  (crashes = 0 /\ run.pc \notin Window) => flows = truth + early - lost.all

\* While no cycle has died, the baseline the returns are measured against moves
\* once by each transfer, although the snapshot is taken before the flow is
\* recorded.  It too holds the proceeds of a stop that was not booked yet, until the
\* next snapshot, and what a cycle without a watchlist found is in the snapshot of
\* that cycle and in none of the later ones.
BaselineFollowsTransfers ==
  crashes = 0 /\ snap.taken => snap.cum = truth + early - lost.before

\* What the docstring of the cash reconciliation and a comment at the record say:
\* no movement of a trade is recorded, and no transfer is left out.
OnlyTransfersRecorded ==
  (crashes = 0 /\ run.pc \notin Window) => flows = truth

\* A cycle that came to the gate with an account other than the book, or that the
\* gate or the anomaly check told to stop, sends no order.
BarredCyclesDontTrade == barred \cap traded = {}

\* While a SafeStop is unreleased nothing is bought, also when a cycle of before
\* raised it; holdings may be sold.
NoEntryUnderSafeStop ==
  [][run.pc = "entries" /\ kis'.shares > kis.shares => ~safeStop]_vars

\* The cycles table keeps its promise, also across the death of a cycle.
Status == INSTANCE CycleStatus WITH status <- cycles
StatusPromise == Status!Spec
=============================================================================
