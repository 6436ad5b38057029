# AlphaLoop in TLA+

AlphaLoop buys and sells Korean stocks once a day for one account at the broker
KIS. In the morning a batch fetches prices and computes scores; a trading cycle of
14:30 selects, decides, passes risk gates and sends orders; a watch of every half
hour keeps a resident stop order at KIS over each holding; tables in PostgreSQL
("the journal") carry what one process must know of another. A backtest runs the
same rules over recorded days. This directory models that core, checks it with
TLC and proves part of it with TLAPS.

1. [Inventory](#1-inventory) – the parts of the system and what makes each correct
2. [Modules](#2-modules) – which module models which code, and how
3. [Runs](#3-runs) – what TLC checks, the bounds, the fairness
4. [Findings](#4-findings) – where the code and its documents disagree
5. [Proofs](#5-proofs) – what is proved, from what, and along which argument
6. [Not modelled](#6-not-modelled)
7. [Plan](#7-plan)

Run a model with `tlc -config Custody.cfg MCCustody.tla`, a proof with
`tlapm CycleRunProofs.tla`. `PROJECT.json` names, for each definition, the lines
it translates.

## 1. Inventory

| Part (under `src/`) | State it keeps | Operations | Modules |
|---|---|---|---|
| Risk engine, sizing (`risk/`) | none | cycle gate, order gate, anomaly switch, quantity | RiskEngine |
| Decision, entry plan (`pipeline/decision.py`, `pipeline/cycle.py`) | slots, money committed, planned orders of one run | decide, plan, anomaly check | EntryPlan |
| Trading cycle (`run_cycle.py`, `pipeline/cycle.py`, `pipeline/gates.py`) | row of `cycles`, account read, market state, verdict | recover, read, reconcile, snapshot, gate, order, close | CycleRun, CycleStatus, CycleExec |
| Orders (`exec/orders.py`), exits (`exec/exits.py`) | progress through the list of candidates | enter, book, register stop, link; raise stop, sell, book | CycleExec; SpecEngine (`decide_exit`) |
| Watch (`run_watch.py`) | orders of the day and positions as loaded | settle, register, revise | WatchRun |
| KIS client, orders (`broker/kis_client.py`) | – | place, revise, cancel, inquire | KisAccount |
| KIS client, requests (same file) | token in memory, token file, retry counters | token, `_get`, `_post_order` | KisRequest |
| Journal (`memory/journal.py`, `memory/schema.sql`) | `positions`, `orders`, `outcomes`; `cycles`, `account_snapshots`, `cash_flows`, `safe_stop_events`; `ingest_runs` | one function per statement | Book; CycleRun, CashFlow; Ingest |
| Cash flows (`ops/cashflow.py`) | rows of `cash_flows` | classify, absorb, confirm, reclassify, add | CashFlow |
| SafeStop (`ops/safestop.py`) | rows of `safe_stop_events` | release | CycleRun, CycleExec |
| Schedule (`ops/deploy/alphaloop.cron`) | – | 14:30 cycle, watches, 15:35 `--force` sweep | Custody |
| Daily ingest (`run_daily_ingest.py`, `data/corrections.py`) | `ingest_runs`, `daily_bars`, `daily_scores` | fetch, second sweep, resume, score, freshness check | Ingest |
| Backtest (`backtest/spec_engine.py`), costs (`core/costs.py`) | cash, positions, plan of the day, trades | stops, gate, exits, entries, anomaly switch | SpecEngine |
| Screening, indicators, ticks, trading days | none | pure | – |
| Walk-forward choice, evaluation, dashboard, login, operations | own | – | – |

**How the parts interact.** Batch, cycle and watch are separate processes that
cron starts; they never call each other. They meet in three places: the tables,
each statement of which is its own transaction (autocommit); the token file; and
the account at KIS, which answers late, refuses, fills in parts, and acts by
itself when a resident stop triggers. People act on all of it: they move money,
correct the labels of cash flows, release a SafeStop, start a batch. The cycle
hands its plan to `exec/` by an ordinary call. The backtest calls the functions
of `risk/` and `exec/exits.py` that the cycle calls, with a loop of its own.

**What is hard.**

* A stop triggers between any two steps of either process, so the account that
  was read is not the account that is acted on.
* A stop order lives one day. The next morning every holding is naked until the
  watch has registered it again, at the stop of the book.
* A revision gives a stop a new order number. All later recognition of its fill
  hangs on the book having that number.
* Order, booking, stop and link are four commits; a death may fall between any
  two. Recovery marks the cycle failed and does nothing else.
* A snapshot of the account is taken before the transfer it contains is
  recorded, and the next comparison starts from that snapshot. Rows of
  `cash_flows` change after a snapshot has summed them.
* The plan judges its orders one after the other; limits hold for the sum.
* A query has two retry budgets in one loop; an order has none, and what became
  of a send without an answer is not known.
* A batch that failed, died or ran too early leaves tables that look like those
  of one that did its work.

**What makes each part correct.**

| Part | Properties |
|---|---|
| Entry plan | exposure and slots hold for the whole plan; no stock twice; the anomaly switch never fires on the plan's own sizing |
| Holdings (Custody) | book and broker agree up to triggered stops; each share is in the position or in one outcome; a finished watch leaves every holding covered, at the trigger of the book, up to what KIS has just refused; stops only rise and never offer more than is held; a naked holding does not stay naked |
| Cycle | transfers are recorded once and no booked trade is taken for one; the baseline moves by them; a stopped cycle orders nothing; a SafeStop keeps entries out until a person releases it; rows of `cycles` only move forward, one open at a time |
| Cash flows | what was absorbed never comes back as a transfer; with right labels the flows are what people moved, up to rounding; the baseline of the returns catches up with every change of the rows, once |
| Requests | no request with an expired token; no order twice; retries bounded by the sum of both budgets; every call ends |
| Ingest | a batch counts each stock once per table; data that passes the freshness check lacks no stock but those the run left out without a failure; on a day without deaths the candidates are scored on yesterday's bars, up to the same; one failing call does not stop the day |
| Backtest | money is conserved through costs, partial exits and cancelled plans; fills at prices of the day; stops only rise; a SafeStop is for good; the limit of the day holds |

Where the code is exposed, at which line, and which property covers it, is the
list `hazards` in `PROJECT.json`; the ones no property covers yet say why.

## 2. Modules

```
RiskEngine ── EntryPlan ── MCEntryPlan          plan of one cycle
     │             └────── CycleRunProofs
     ├─────── CycleRun ────┘
     │           │  implements CycleStatus      a cycle over its tables
     └─────── SpecEngine ─ MCSpecEngine         the backtest
                   └────── SpecEngineProofs
KisAccount ┐
Book ──────┼─ CycleExec ┐
           └─ WatchRun ─┴─ Custody ── MCCustody  cycle, watch, broker, schedule
                                         └────── CustodyProofs ── CustodyStopsProofs

KisRequest ─── KisRequestProofs                 requests and the token
CashFlow ───── MCCashFlow                       money no trade explains
     └──────── CashFlowProofs
Ingest ─────── IngestProofs                     the batch and the freshness check
SumTheorems                                     sums over finite sets, used by SpecEngineProofs,
                                                CashFlowProofs, IngestProofs and CustodyProofs
```

Definitions have the names of the functions they translate, in the spelling of
TLA+ (`record_cash_flow` is `RecordCashFlow`). A definition marked "a bug",
"mistake" or "mutant" is a plausible error; a run is repeated with it in place of
the real one to see that the property can be violated. It is in no specification.

**RiskEngine** – `screen_cycle`, `check_new_buy`, `screen_order`,
`detect_anomaly`, `equal_weight_qty`, `position_qty` as operators. Money is whole
won and ratios whole percentages, so `a / b > p` is `100 * a > p * b`.

**EntryPlan** – the loop of `_plan_entries`, one action per way a candidate
leaves it (passed over, too small, no edge, refused, accepted) and `Finish` for
`detect_anomaly`. Price, liquidity cap and the state of the stock are chosen when
the candidate is looked at; the order of the candidates is left open, which
covers the score order of the code.

**KisAccount** (external, as `broker/kis_client.py` uses it) – shares held and
the orders of the day, in order of placement: `cands[-1]` of the code is the last
matching row. Real mode, so entries and exits are IOC. Order numbers are unique
within a day, and those of another day are never found again. Prices do not
appear: a stop may trigger whenever the market is open, and triggers are small
numbers of which only the order matters. What the client answers "rejected" to is
any `KISError` (`kis_client.py:486-491`, `508-513`), so with `stopReject` KIS refuses a
stop or the revision of a live one at will, with `exitReject` an exit, with
`buyReject` a purchase; a revision that is refused leaves the old order live.

**Book** – `positions`, `orders`, `outcomes`: one operator per function of
`memory/journal.py`, with primary keys where a duplicate would fail.

**CycleExec** – `execute_exits` and `execute_entries`, one action per broker call
and per commit. Which exit `decide_exit` chooses (hold, raise, sell all) is open.
The send and the inquiry inside `place_entry` and `place_exit` are one step. A
held SafeStop turns "proceed" into "new_blocked": exits run, entries do not.

**WatchRun** – `run_watch.py`: load the orders of the day, settle filled stops,
register missing ones, revise stale ones, with the lists computed where the code
computes them. After the close it only settles. Stop rows that KIS refused are
not kept. `watch.refused` is a history variable: the stocks whose stop KIS would not
take or revise in this run without a cause on our side.

**Custody** – the composition under the schedule: one cycle a day, watches at any
time when no cycle runs, the close of the market, the next day after the sweep of
15:35 (which may be missed when a fault is enabled), triggers between any two
steps, and the death of a process. A cycle finishes before the close, the last
watch may not.

**CycleRun** – the cycle around that: recovery, account, market state, row of
`cycles`, cash reconciliation and snapshot, gate, SafeStop, `cash_flows`, plan,
anomaly, orders, end. Exits and entries are sales and purchases of one share of
price 1, since Custody has their detail, and the settlement of a watch is one
step while no cycle runs. A unit of money is above the threshold under which
`ops/cashflow.py` calls a difference a fee, so each nonzero difference is a
transfer; what lies below it is CashFlow's subject. The baseline KIS reports
(`account.start`) is either of two values, one that trips the circuit breaker and
one that does not. `barred`, `traded`, `unseen`, `truth`, `early` and `lost` are
history variables: they record what happened and no action reads them to decide.

**CycleStatus** – what the `cycles` table promises: a new cycle only when the
others are closed, forward moves only, closed is final. CycleRun implements it
with `status <- cycles`.

**KisRequest** – the requests behind the calls of KisAccount, for several
processes with one token file. A call is a record whose `pc` goes headers →
(issue → write →) sent → done. The token: read from memory, else from the file,
else issued, at most once a minute; a file being written is torn until the write
ends. `_get` answers a reply by its class (answer, refusal for good, refusal for
now, server error, no answer) as the loop does, each class with its counter;
`_post_order` sends once, and an answer lost on the way is its own case. A
process may end at any step. Tokens live in units of the ten minutes the client
keeps as a margin: a request that was sent may grow older by one unit before it
is answered, since it times out after ten seconds.

**CashFlow** – `_reconcile_cash`, `classify`, `resolve` with the settings
(observation, signature), `record_account_snapshot`, `record_cash_flow`, and the
commands of `ops/cashflow.py`. Events are transfers, incomes and rounding; the
recording that follows the snapshot is a step of its own which a dead cycle
leaves out. Trades are left out: a recorded fill moves both sides of the
comparison.

**Ingest** – a batch of `run_daily_ingest.py` for either of two dates, started at
any hour, whole, `--resume`d, with `--limit` or both: symbols, targets, sweep stock
by stock, second sweep, flows-only sweep, rows of `ingest_runs`, indices, scores. KIS
may fail a call, or answer without a bar for any stock, which counts as a success.
`check_freshness` and the candidates of the cycle are read by the cycle of the day.
Of a bar only the date is kept, of a score the date of the bar it is of. `missed` is a
history variable: the stocks that the run which wrote the row of `daily_bars` left out
without counting a failure.

**SpecEngine** – the day loop of `spec_engine.run`: bars of the day, stops filled
at the stop or at a gap's open, gate, `decide_exit` in full (initial stop,
breakeven, partial, trail, time), entries under the limits of the day, anomaly
switch with the return of what the plan has set aside. Scores, momentum and ATR
are open choices; amounts are chosen so that costs are whole.

## 3. Runs

| Run | Instance | Distinct states | Shows |
|---|---|---|---|
| `entry_plan` | 4 stocks (symmetric), 3 positions | 23,193 | the plan stays within exposure and slots, no stock twice, no anomaly |
| `custody` | 2 stocks, lots of 2, 2 days, refused exits | 144,276 | book and account agree, each share is accounted for, no sale is booked twice, holdings are covered; with liveness |
| `custody_crash` | 2 stocks, 1 day, 2 deaths, refused stops, revisions and exits | 134,041 | a watch that completes covers what KIS lets it cover, and what is naked does not stay so; with liveness |
| `custody_faults` | 1 stock, 3 days, partial fills, failed inquiries, everything refused | 902,426 | stops follow the book and only rise |
| `cycle_run` | 3 cycles, 2 units of money, 1 death, late stops, empty watchlists | 662,118 | money, gate, SafeStop, refinement of CycleStatus |
| `ingest` | 3 stocks, 1 suspended, 2 batches, any `--limit` | 2,963,363 | counting, freshness, candidates, with deaths and empty answers |
| `kis_request` | 2 processes, 2 tries, 2 transient refusals | 214,450 | tokens, single sends, bounded retries, with liveness |
| `cash_flow` | 3 events, 4 snapshots, 2 commands | 3,736,747 | checksum and baseline under late labels, added and lost rows |
| `spec_engine` | 2 stocks, 3 days, 5 bars, capital 100 | 948,122 | money, fills, stops, limits of the backtest |

The runs `split_fill`, `stale_scores` and `unanswered_order` each violate one
property, and so do seven more configurations that are run by hand; see section 4.

**Bounds and why they are enough.** Every bound is a CONSTANT or a definition of
an MC module.

* EntryPlan: with 4 proposals and 3 positions the slots run out with a proposal
  left. The prices 7 and 20 of a capital of 100 and caps of 0, 3 and 9 make a
  cap drop an order, cut it and leave it alone. Accounts that already hold
  more than allowed, or whose holding leaves room for one order but not for two,
  are among the initial states.
* Custody: the second day is where yesterday's stops have expired; the third
  lets a stop that rose on the second day be registered again. Lots of 2 are what
  a partial fill needs; `custody_crash` has none. Two stocks let one's failure reach
  the other, and two deaths let the recovery of the first be cut short as well.
  `MaxLevel` is the highest trigger: 2 in the passing runs, so that one raise is
  possible above the initial stop. `custody_crash` needs one day only: a stop that is
  refused, or never placed because of a death, is what an expired one is on the next
  morning, and `WatchCovers` is proved for any number of days. `custody` refuses exits
  and no stops: with both it has 3,258,120 states and takes near five minutes, without a
  violation. The faults have one stock; `StopsFitHoldings`, `WatchKeepsCurrent` and
  `StopsAreRaised` are proved for any number of them.
* CycleRun: three cycles, so that one may raise a SafeStop or die, one find it,
  and one act after its release. `MaxMoney = 2` suffices for a transfer while a
  share is held.
* Ingest: two stocks that trade can fail in different sweeps, or be cut off by
  `--limit`, or be answered with nothing one by one; the third never has a bar. The second batch may repeat, resume or overwrite the first, for the same
  date or the other.
* KisRequest: two processes race for the file and for the token of the minute.
  With two of each, either budget can run out first, or both in turn.
  `TokenLife = 3` is a token that is fresh, one that is due for renewal while a
  request is under way, and one that has expired.
* CashFlow: a transfer, an income and a rounding in any order, with a snapshot
  before, between and after. 17 and -25 carry a signature in their last digit, 7
  carries one by accident, and 1 is below the threshold of an account of 40.
* SpecEngine: a purchase, a stop raised the next day, and a sale on the third.
  The bars have a fall within the day and an open below the stop. The limit of
  the second day may be above or below that of the first.

**Deadlock** is not checked where the last day, cycle, batch or event may leave
nothing to do.

**Fairness.** Two properties need it.

* `NakedIsTemporary`: `FairSpec` of Custody has weak fairness of the steps of a
  process that has started (it is a sequential program) and of `WatchBegins`
  (cron starts the watch all day long, whatever the last one did). Nothing is
  promised of the market, of the start of the cycle or of a release by a person,
  and a death is never forced. The property says a holding without a stop in an
  open market gets one, is sold, or the market closes – unless KIS refuses its stop in
  one run after the other, which nothing forbids, or a process died between an
  outcome and its close, after which every watch of the day stops at the duplicate
  key (`watch.pc = "aborted"`), before it reaches this stock or another.
* `CallsEnd`: `FairSpec` of KisRequest has weak fairness of each process's own
  steps (`Bearer` and `Reply`): the program is sequential, its sleeps are finite,
  and every request is answered or times out after ten seconds. Nothing is
  promised of the answer.

**What holds under which faults.** A property that needs a condition on what happened
names it: `NoDoubleOutcome` and the money properties of CycleRun that no process has
died, `QuietDayCandidatesCurrent` that no batch has.

* `custody` has refused exits, `custody_faults` everything but deaths, `custody_crash`
  deaths and refusals. Under a death `BookMatchesBroker`, `SharesAccounted`,
  `StopsOnlyRise` and others are violated, and where a document promises otherwise that
  is a finding. A refused exit makes `place_exit` look for the last order of the stock;
  that it finds what a stop has sold, and books it, is the interesting case of
  `NoDoubleOutcome` and `SharesAccounted`.
* A refused stop: `run_watch.py:168-171` reports it and ends with the holding uncovered
  (`test_watch.py:217`). So `WatchLeavesCovered` excepts the stocks of which KIS has
  refused the stop *in this run*, and no others: a position linked to a refused stop
  (`exec/orders.py:108`) or one of which an earlier run was refused must be covered.
  `WatchLeavesCurrent` does the same for revisions: `exits.py:195` raises the book also
  when KIS refuses, and the next watch must bring the stop to it.
* With partial fills `WatchLeavesCovered` and `SoldOnce` are violated without any
  death, which is why `WatchCovers` and `NoDoubleOutcome` ask for whole fills.
* CycleRun: what people moved is recorded once, with two exceptions the code makes and
  the properties count. A stop that triggers between the watch of 14:25 and the reading
  of the account is in the flows and in the baseline until the next reconciliation takes
  it out (`early`); what a cycle without a watchlist finds goes into the snapshot and
  not into `cash_flows` (`lost`). `OnlyTransfersRecorded`, without them, is what the
  documents say (section 4). Both events are switched on in `cycle_run`. A cycle without
  a watchlist never comes to the gate, so `BarredCyclesDontTrade` says nothing of it;
  it holds nothing and has no proposals.
* Ingest: fresh data may lack the stocks that `--limit` cut off and those KIS answered
  with nothing for. `FreshBarsComplete` and `QuietDayCandidatesCurrent` name exactly
  these (`missed`) and hold of all others; `FreshMeansComplete`, without them, is what
  the guide says (section 4). An outage, where no stock has a bar, is no exception:
  then `missed` is empty.
* All of KisRequest, `FreshBarsComplete` and `BaselineFollowsLabels` hold with deaths.
  `ChecksumHolds` excludes the transfers of which a death lost the row until a person
  has added it.

## 4. Findings

Three runs of `PROJECT.json` show a disagreement, and it quotes the lines:

| Run | Property | Code | The disagreement |
|---|---|---|---|
| `split_fill` | EveryFillIsBooked | `run_watch.py:97` | docs/10 says fills of a stop are booked in full or in part; the second part has the primary key of the first |
| `stale_scores` | CandidatesCurrent | `data/corrections.py:64` | docs/03 says the freshness check keeps a cycle from the data of a batch that failed; it judges each table by itself, so the bars of a second batch and the scores of a first one that lacked some stocks pass together |
| `unanswered_order` | SendIsInquired | `broker/kis_client.py:276` | docs/10 says a failed send is followed by one inquiry in the same cycle; a timeout is no `KISError` and ends the call |

Seven configurations show others and are run by hand, the first four with
`MCCustody.tla`, the next two with `CycleRun.tla`, the last with `Ingest.tla`:

| Configuration | Property | Code | The disagreement |
|---|---|---|---|
| `Recovery.cfg` | SafeStopOnlyForStops | `memory/journal.py:737` | docs/10 says recovery compares orders with fills at KIS and that no SafeStop follows a recovery; the code marks the cycle failed, and the next gate raises one |
| `ExitLeftover.cfg` | ClosedMeansSold | `exec/exits.py:338` | docs/10 says the next cycle sells the remainder of an exit; the position is closed and nothing remembers the remainder |
| `RefusedEntry.cfg` | BookNotAhead | `broker/kis_client.py:570` | after a refusal an earlier order of that stock is booked as the entry |
| `DoubleBooking.cfg` | SoldOnce | `exec/exits.py:325` | a comment says a sale is not booked twice; after a death between outcome and close it is |
| `LateStop.cfg` | OnlyTransfersRecorded | `pipeline/cycle.py:67` | the docstring calls a difference a transfer only when the holdings match; the code records it also when they do not |
| `LostTransfer.cfg` | OnlyTransfersRecorded | `pipeline/cycle.py:433` | a comment says the flow is recorded even when the cycle stops; with an empty watchlist it is not |
| `IncompleteBatch.cfg` | FreshMeansComplete | `run_daily_ingest.py:118`, `392` | docs/10 (10.3) says the rows written close the hole of empty answers; they do for an outage, not for a stock that trades and gets an empty answer, nor for a run with `--limit`, whose row replaces the one of the day |

Further points met while modelling, without a run of their own:

* An evening batch for the next day is never fresh then: `check_freshness` wants
  a row of the day itself (docs/03-architecture.md:35-36 expects the batch any
  time before the cycle).
* docs/10-operations.md:21 renews a token five minutes before its end; the code
  keeps ten. An answer of the server without `rt_cd` passes for a success. A token
  file left torn by a death ends every call of a client without a token in memory
  until it is deleted.
* docs/07-data-model.md:232 and docs/10-operations.md:294 call
  `cumulative_net_flow` a running sum. The code sums the rows again at every
  snapshot, so that corrected labels count (`BaselineFollowsLabels`).
* A row added late for money that was there before the first snapshot moves the
  baseline of the next snapshot as if it had just come in (`memory/journal.py:112`).
* The circuit breaker of the cycle corrects its baseline by the residual of this
  cycle only (`pipeline/cycle.py:379`), not by flows recorded earlier in the day.
* Backtest and cycle differ where both follow one rule: the backtest counts no
  day on which a stock has no price, buys with the places and the cash its exits
  have freed, and checks cash with costs; the cycle counts trading days, plans on
  the account read before the exits, and leaves cash to KIS.
* The grid of `run_walkforward.py:32` contains `max_positions = 3`, of which one
  equal share exceeds `single_order_pct`: such a variant ends at its first
  purchase. `PlanIsNeverAnomalous` names the condition it breaks.

## 5. Proofs

All theorems are checked by TLAPS (SMT with Z3, Zenon, LS4), for every value of
the constants that satisfies the named assumptions. TLC evaluates the assumptions
in the runs.

**CycleRunProofs, the plan** – `PlanTypes`, `ExposureIsBounded`, `SlotsAreBounded`,
`EntriesAreNew`, `PlanIsNeverAnomalous`, from `ParamAssumption` (parameters are
natural numbers, at least one position) and `PlanAssumption` (finitely many
stocks, positive prices, an account that is not in debt: the gate has halted any
other). The properties are not inductive by themselves. `PlanInv` adds

* `SlotsCounted`: the slots left are those neither held nor planned – without it a
  step could make the plan too long;
* `CodesApart`: a planned stock has left `todo`, and only stocks not held are
  proposals – without it `NoDoubleEntry` is lost at the next order;
* `OrdersSized`: an order times `MaxPositions` is within the equity. It follows
  from two facts about division (`EqualShare`, `CappedShare`) and gives
  `NeverAnomalous`: with `100 <= SinglePct * MaxPositions` no single order can be
  too large, and the slots bound the number of orders.

**CycleRunProofs, the cycle** – `CycleTypes`, `BarredNeverTrade`, `SafeStopStopsEntries`,
`StatusIsKept`, from `CycleAssumption` (the bounds are natural numbers), for any
number of cycles and deaths. `CycleInv` adds

* `RowsFollowRun`: all cycles but the last are closed, and the last one's status
  is the one that belongs to the step of the process – this makes each write a
  move forward in `CycleStatus`, and the recovery a move of at most one row;
* `VerdictKept` and `BarredKept`: which verdicts can still be there at which step,
  so a barred cycle never gets to the orders;
* `SafeStopKept`: a cycle that may enter, and any plan that is not empty, exclude
  an unreleased SafeStop. The steps that raise one come before the plan or
  without it.

`StatusIsKept` is the refinement: initial states map to initial states, and every
step is a step of `CycleStatus` or leaves `cycles` unchanged.

In the same module: `FlowsAreRecorded` and `BaselineIsMoved`, for any events.
`MoneyKept` is what holds while no cycle has died: cash at the broker = last snapshot +
fills recorded since + stops not recorded yet + transfers not seen yet + order in
flight, where the stops the snapshot already held (`early`) are left out; holdings =
book up to the stops and the order; the account that was read = the present one up to
what came after; recorded flows = what they should be (`Expected`), up to the one that
is being recorded; and before the first snapshot there is nothing at all (`Unopened`).
`FoundFlow` combines the first and third: the residual is what people had moved before
the reading, and the stops of this reading less those of the one before.

**KisRequestProofs** – `KisTypes`, `TokensLive`, `OrdersOnce`,
`QueriesAreBounded`, from `KisAssumption` (both budgets and the life of a token
are positive, the latter above the margin), for any number of processes. The
invariant `IInv` is about each call by itself:

* a token that was sent had more than the margin left, and grows older by at most
  one unit before its answer – otherwise `TokensAreLive` would not be kept by the
  passing of time;
* `CallOK`: before the answer to a send nothing of that call is accepted – without
  it a second acceptance could not be excluded. `CallInHand` is the same without
  this, for a call whose answer is being looked at;
* `SendsPaid`: each send of a query but the last is paid for by one of the two
  counters, and the try that uses up `MaxRetries` was an answer that counts for
  both. The bound of `QueriesBounded` is their sum.

**SpecEngineProofs** – from `SpecAssumption` (bars with positive prices, limits of
at least one position), `CostAssumption` and `PartialAssumption`, for any stocks,
days, bars, schedule of limits, rates and parameters of the exits.

`StopsRise` and `EntriesAllowed` rest on `SpecInv`:

* `TodoHeld`: the loops over the holdings look at holdings only, so that a step of
  a loop changes one holding and creates none;
* `PlanApart`: proposals, plan and holdings have no stock in common, and a plan
  exists only while entries are made – so the commitment of a plan touches no
  stop;
* `SlotsCounted`: the places left are the limit of the day less holdings and plan,
  and not negative once something is planned – an account above a lowered limit
  starts with none and plans nothing;
* `StoppedProposesNothing`: after a SafeStop neither proposals nor plan exist.

`DecideRises` is the heart of `StopsRise`: whichever rule of `decide_exit`
applies, the new stop is not below the old one unless everything is sold.

`MoneyIsConserved` has `MoneyInv`: cash and pnl are integers, every holding has a
size and a price, and the balance itself. It is inductive only with `SpecInv`,
because a commitment adds the plan to the holdings, and the two sums add up only
while they have no stock in common. Its heart is `SaleBalances`: the proceeds of a
sale are the cost of the shares sold and the profit that is booked, also for a
part of a holding – because the costs are proportional to the shares, as in the
code, which `CostAssumption` says of the whole numbers of the model.

`BacktestTyped` needs one condition more, `PartialAssumption` (`PartialOf # 1`): a
partial exit of all shares (`partial_frac = 1`) would leave a holding of none, which
`spec_engine.py` keeps and counts as a position. The proof failed without it.
`SalesPriced` is an action property; it follows from `MoneyInv` and the lemmas about
the prices of a bar.

**SumTheorems** – the recursion of `SumFunctionOnSet` is a `CHOOSE` inside a
recursive function, and the library's induction theorems take an operator as a
parameter, which no backend can instantiate. What can be used is that the
natural numbers are well-founded: if a statement about sums failed, it would
fail for some least cardinality, and from there it is a step to a contradiction
(`LeastCounterexample`). So are proved: a sum exists and unfolds (`SumIs`,
`SumRemove`), it does not depend on what is outside the set (`SumSame`), and it
is additive and changes by the difference at one place (`SumUnion`, `SumChange`).

**CashFlowProofs** – `FlowTyped`, `FlowsAddUp`, `BaselineIsTheRows`, from
`FlowAssumption`, for any amounts, thresholds, signatures, and any number of
events, cycles and commands. `FlowInv` adds

* `ExpectedKept`: what the account has beyond the last snapshot is exactly what
  has happened since – so the residual a cycle finds is that and nothing else;
* `ReconKept`: between the snapshot and the row, the resolution that moved the
  baseline has an external kind, and the row will have it too;
* `BaselineKept`: the baseline is the sum of the rows *and of the row that is about
  to be written*, since the snapshot comes first;
* `TransfersKept`: transfers told by rows, about to be told, not read yet and lost
  add up to all there were, within the rounding. `Slack` is the part of the
  rounding that may still come into a row: without it the step that writes one
  would use up more than the bound.

**IngestProofs** – `IngestTyped`, `StocksCountedOnce`, `FreshIsComplete`,
`QuietDayIsCurrent`, `CleanRunsAreFresh`, from `IngestAssumption`, for any number of
stocks, halted ones among them, and of batches. `IngestInv` adds

* `SweepCounts`: a stock is still to be done, has failed or is counted – two
  identities over cardinalities that the second sweep must not break;
* `SweepKept`: what a sweep has taken off its list is in the table, or in the `gaps`
  of the run; a run that wrote nothing has received nothing, so an outage has no row
  that passes;
* `RowsKept`: a good row of the bars is true, up to the stocks the run has left out,
  *when it is written and while it waits to be*; it stays true because bars are never
  deleted and because a run that replaces the row replaces `missed` with it;
* `BarsKept`, `LateKept`: a bar of today, which would make a score one day too new,
  comes only from a batch in the session;
* `QuietKept`: good bars come with their scores, or the batch is between the two
  and nobody has checked – this is where a death, or a cycle during the batch,
  breaks `CandidatesCurrent` (`StaleScores.cfg`);
* `CleanKept`: what a whole run has written by each of its last steps.

**CustodyProofs, CustodyStopsProofs** – twelve theorems from `CustodyAssumption`,
`BookAssumption` and `CrashAssumption` (finitely many stocks, a positive lot, bounds
that are natural numbers), for any number of stocks, days and levels, and wherever
stops trigger. Cycle and watch share the book and the account with no lock; the
invariant says what each of them may rely on between its steps. It has five layers,
each under the faults it survives:

| As long as | Invariant | Theorems |
|---|---|---|
| anything | `CustodyInv` | `CustodyInvariant` |
| no order is filled in part (`NoPartial`) | and `WholeKept`, `WatchedKept` | `TypesHold`, `WatchCovers` |
| no process has died (`crashes = 0`) | and `StopsKept` | `WatchKeepsCurrent`, `StopsFitHoldings`, `StopsAreRaised` |
| both | and `SalesKept` | `SharesAreAccounted`, `OutcomesAreSingle`, `FillsAreBooked`, `ClosedIsSold` |
| nothing fails but stops, revisions and exits that KIS refuses (`OnlyRefusals`) | and `BalanceKept`, `SweptKept` | `BookIsBalanced`, `BookIsNotAhead` |

That no process has died is a condition on the behaviour, not on the constants: the
theorems speak of each state before the first death. That a theorem needs its condition
is what the configurations of section 4 show: `SplitFill.cfg` violates
`EveryFillIsBooked` with partial fills, `ExitLeftover.cfg` `ClosedMeansSold`;
`DoubleBooking.cfg` violates `SoldOnce` with a death; `RefusedEntry.cfg` violates
`BookNotAhead` with a refused purchase.

`CustodyInv` holds whatever fails:

* `CycleReads`, `WatchReads`: what a process has read of the book is what the book
  still says, except for what it has changed itself – because the other does not
  run, and because KIS writes no table. The watch looks at its rows long after it
  loaded them; which columns may have moved by then depends on its phase;
* `CycleLocals`, `WatchLocals`: the order at hand is recorded, is of the stock at
  hand and has the purpose the next step takes it to have, so a linked stop is always
  a recorded stop of its own stock;
* `NumbersKept`: the number of a stop is of an earlier day or of an order of the same
  stock – a revision gives a new number, and without this the next revision or the
  settlement could reach another stock's order;
* `FillsKept`, `DatesKept`: no order is filled beyond its quantity, and nothing bears
  a date to come.

While orders are filled whole (`NoPartial`), `WholeInv` adds

* `WholeKept`: every amount of the account, of the book and of the locals is nothing
  or a lot. It needs that a cycle buys only what is not held, and that the fill a
  watch books is the fill of the order it has looked up;
* `WatchedKept`: a stock the watch has looked after has a live stop as long as the
  market is open and shares are left, or KIS has refused it in this run. The step that
  matters is the refused registration. It may have a cause on our side – less than a
  lot is held, or a live stop offers the lot already – and then the stock is sold or
  covered; any other refusal puts the stock into `watch.refused`.

`WatchCovers` follows, and with it that deaths, refusals and failed inquiries leave a
holding uncovered at most until the next watch to which KIS does not refuse its stop.
`TypesHold` bounds every amount, which needs whole fills.

While no process has died (orders may be refused, filled in part or answered with a
failure), `StopsKept` adds, of the stops that are live at KIS,

* `LiveKept`: there is at most one of a stock, it has shares left, and the number by
  which its position – or the process that has just placed it – knows it is its own.
  Its trigger is the one recorded with its order, and not above the level of the book
  or the one the book is being raised to: below it when KIS has refused a revision.
  `StopNumber`, `OrderId` and `Level` say where that knowledge is between the answer of
  KIS and the last commit: in the local variables of the process, in its order, in the
  position;
* `RoomKept`: it offers no more than is held, and with what it has sold and the book
  does not know yet no more than is on the book. The second half is what a
  registration anew needs: KIS knows the holdings only, the process sends the quantity
  of the book. While an exit is being booked the first half fails, and is not needed;
* `CycleCovers`, `WatchUncovered`: the stocks a process is about to place a stop for
  have none. For the watch this is what it found missing in the orders it fetched,
  several steps before;
* `RowsLinked`: a stop that was loaded with its position and is still live is still the
  one the position is linked to, so a revision is recorded with the right order although
  the rows are from before the registrations;
* `RowsCurrent`: a live stop is at the level of the book, or the watch has loaded it and
  will come to it (`Behind`), or KIS has refused its revision in this run. This is where
  the revisions do their work: what the cycle could not raise, the next watch does;
* `SnapshotKept`: the orders the watch has fetched are the ones at KIS, but for what
  has been filled or closed since.

Two facts about a step carry the proof. `AccountMoves`: it places no stop, or exactly
one, not below the one it replaces, of a stock with no other. `StocksKept`: what is known
of the stop of a position stays, or there was none, or it is being replaced; and the
book counts out only what the stop has sold. Each is proved once per action
(`AccountMovesStep`, `StocksKeptStep`), and `LiveStep`, `CoversStep`, `WatchStep` and
`SnapshotStep` need only them. `StopsAreRaised` follows from `AccountMoves`, `LiveKept`
and `BookRises`; the last holds whatever dies.

While no process has died and orders are filled whole, `SalesKept` adds what is sold of a
position. Two writers record a sale, the exit of the cycle and the settlement of the
watch, each in two commits, the outcome and the close. Refusals and failed inquiries
are allowed; an exit that KIS refuses finds the fill of the stop in the ledger and books
that, so the watch must find the position closed.

* `BookedOnce`: an open position whose order already has an outcome is the one the
  watch is closing at this moment – without it the next watch would meet the outcome
  again and stop at the duplicate key;
* `GoneKept`: a stock of which a stop or an exit has sold is not held any more. It has
  two parts, because the first (about the orders of the day) ends with the exits of the
  cycle, after which the stock may be bought again, and the second (about the stop the
  position is linked to) does not;
* `SharesKept`: a position has one entry, of a whole lot, under its own date; its
  outcome exists exactly when it has been sold. `ToBuy` and `Upserting` say where a
  stock is between the order for it and its position, when the entry of a date is there
  and the position still has the date before.

The heart are two lemmas about a step, each proved once per action. `FillPath`: a step
fills nothing, or one row, of one stock, by an exit, a purchase or the stop itself.
`SharesPath`: a step changes of the entries, positions and outcomes at most those of
one stock, and there in one of three ways – an entry comes, a position comes, an
outcome comes. Sums over the outcomes and entries are then sums over one element.

While nothing fails but stops, revisions and exits that are refused, two more facts turn
this into the balance:

* `BalanceKept`: what is missing of an open position was sold by its stop, or is being
  sold by the exit at hand; what is held without one is what the cycle has just bought.
  A refused purchase breaks the second half: the inquiry may find an earlier order;
* `SweptKept`: the watch after the close leaves no sale unbooked, so nothing is unknown
  when the numbers of the day are void the next morning. A failed inquiry breaks it,
  and `BookMatchesBroker` with it.

`BalanceIs` concludes: between two runs the book has what is held and what the stop of
the position has sold since. `BookIsBalanced` and `BookIsNotAhead` are this fact. A
SafeStop over the balance is raised when it is looked at between two runs, so it has no
other cause than such a stop; after a death it may have one (`Recovery.cfg`).

**Only model-checked.** Liveness (`NakedIsTemporary`, `CallsEnd`), which is out of
the prover's reach. Every safety property of a passing run is stated by a theorem, some
under conditions the run does not need, as the table above says.

## 6. Not modelled

* The paper mode, whose orders rest at KIS. Partial exits against the broker
  (`partial_frac = 0` in `config/`; SpecEngine has them). Volatility sizing and
  the Kelly ceiling (off in `config/`).
* An answer of KIS that has some bars of the window and lacks the last: in Ingest it has
  all of them or none. `--backfill` changes the window only.
* A failing inquiry inside `place_entry` in Custody, where it always answers; in
  KisRequest it may fail, but there is no book.
* Dry runs (`run_cycle.py` without `--live`, `run_watch.py --check`): they send
  nothing. `find_stop_gaps` only reports.
* Contents of `cycle_scores`, `decisions`, `risk_checks`; notifications.
* The value of the time-weighted return (a product of real numbers; CashFlow has
  the flow it is computed with).
* Two cycles at a time.
* The values of bars, flows and scores.
* The choice of parameters per window (`backtest/walkforward.py`), screening,
  indicators and evaluation: numeric code over data frames and statistics.
* Ticks and the calendar (pure functions), the login lockout (its own memory,
  nothing of the trading system), dashboard, operations (they read or report).

## 7. Plan

| Step | Modules | Content |
|---|---|---|
| done | RiskEngine, EntryPlan, CycleRunProofs | the plan and its theorems |
| done | KisAccount, Book, CycleExec, WatchRun, Custody | holdings and stops, with faults |
| done | CycleRun, CycleStatus, CycleRunProofs | cycle, money, refinement, and their theorems |
| done | Ingest, IngestProofs | batch, second sweep, resume, freshness, candidates |
| done | KisRequest, KisRequestProofs | token, retry budgets, single sends, and their theorems |
| done | CashFlow, CashFlowProofs | thresholds, labels, baseline of the returns, and their theorems |
| done | SpecEngine, SpecEngineProofs, SumTheorems | day loop of the backtest, and its theorems |
| done | CustodyProofs | what holds whatever fails, and while fills are whole |
| done | CustodyStopsProofs | stops while no process dies, sales, and the agreement of book and account |
| 1 | CycleRun | a second cycle that overlaps; rows of `risk_checks` in EntryPlan |
| 2 | Lockout, Ticks | failed logins and lock expiry in `dashboard/auth.py`; tick alignment as an operator |

An abstract specification worth stating then is a custody without
processes: shares are bought, covered, sold by a stop or by an exit, and booked,
each in one step; Custody without faults should implement it.
