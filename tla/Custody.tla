------------------------------- MODULE Custody -------------------------------
(***************************************************************************)
(* The custody of the holdings: the brokerage account, whose stops trigger *)
(* on their own, and the two processes that act on it and on the book, the *)
(* trading cycle and the watch.  They share the database and the account   *)
(* and no lock; cron keeps them apart, so one only starts when the other   *)
(* does not run.                                                           *)
(***************************************************************************)
EXTENDS CycleExec, WatchRun, Functions

CONSTANT MaxCrashes  \* bound: process deaths

ASSUME CrashAssumption == MaxCrashes \in Nat

VARIABLE crashes

clock == <<session, day>>
vars == <<kisVars, clock, bookVars, cycleVars, watchVars, crashes>>

Init ==
  /\ KisInit
  /\ BookInit
  /\ CycleInit
  /\ WatchInit
  /\ crashes = 0

Quiet == cyc.pc = "idle" /\ watch.pc = "idle"

StopTrigger ==
  /\ \E i \in DOMAIN ledger, n \in 1 .. Lot : StopTriggers(i, n)
  /\ UNCHANGED <<bookVars, cycleVars, watchVars, crashes>>

\* The cycle starts an hour before the close and has ended by then; the last
\* watch may still be running.
Close ==
  /\ cyc.pc = "idle"
  /\ MarketCloses
  /\ UNCHANGED <<bookVars, cycleVars, watchVars, crashes>>

\* The run after the close belongs to every day, unless a fault takes it out.
NewDay ==
  /\ Quiet
  /\ swept \/ Faults \cap {"crash", "ledgerFail", "partial"} # {}
  /\ DayBegins
  /\ cycled' = FALSE
  /\ swept' = FALSE
  /\ UNCHANGED <<bookVars, cyc, safeStop, watch, crashes>>

CycleStarts ==
  /\ Quiet
  /\ GateHalts \/ \E plan \in SUBSET Codes : GatePasses(plan)
  /\ UNCHANGED <<clock, watchVars, crashes>>

CycleRuns == CycleStep /\ UNCHANGED <<clock, watchVars, crashes>>

Release == ReleaseSafeStop /\ UNCHANGED <<clock, watchVars, crashes>>

WatchBegins ==
  /\ Quiet
  /\ WatchStarts \/ WatchNothing
  /\ UNCHANGED <<clock, cycleVars, crashes>>

WatchRuns == WatchGoesOn /\ UNCHANGED <<clock, cycleVars, crashes>>

\* A process dies and leaves what it has committed.  The next start of a cycle
\* marks the dead one failed (recover_pending_cycles) and changes nothing else.
Crash ==
  /\ "crash" \in Faults
  /\ crashes < MaxCrashes
  /\ ~Quiet
  /\ crashes' = crashes + 1
  /\ cyc' = IdleCycle
  /\ watch' = IdleWatch
  /\ UNCHANGED <<kisVars, clock, bookVars, cycled, safeStop, swept>>

Next ==
  \/ StopTrigger \/ Close \/ NewDay
  \/ CycleStarts \/ CycleRuns \/ Release
  \/ WatchBegins \/ WatchRuns
  \/ Crash

Spec == Init /\ [][Next]_vars

\* A process that has started goes on, and cron keeps starting the watch; the
\* market, the cycle's start and a person's release are not promised.
FairSpec ==
  /\ Spec
  /\ WF_vars(CycleRuns)
  /\ WF_vars(WatchRuns)
  /\ WF_vars(WatchBegins)

-----------------------------------------------------------------------------
(* Properties                                                              *)

\* Shares a linked stop has sold today and the book does not know of yet.
Unbooked(c) ==
  LET id == pos[c].active
  IN  IF pos[c].open /\ id # 0 /\ HasRow(ledger, orders[id].odno) /\ ~OutcomeTaken(id)
      THEN ledger[orders[id].odno[2]].filled
      ELSE 0

BookQty(c) == IF pos[c].open THEN pos[c].qty ELSE 0

\* Between two runs the book holds what KIS holds, up to the stops that
\* triggered since the last watch: while nothing fails but stops and exits that KIS
\* refuses, the balance gate only ever sees a difference the watch knows how to settle.
BookMatchesBroker ==
  Quiet => \A c \in Codes : BookQty(c) = held[c] + Unbooked(c)

\* The half of it a refused order must not break: the book never claims shares
\* that KIS does not hold for us.
BookNotAhead ==
  Quiet => \A c \in Codes : BookQty(c) <= held[c] + Unbooked(c)

\* What the guide promises of a recovery (docs/10-operations.md): when the gate stops
\* everything over a balance that does not match, the cause is a stop that triggered
\* since the last watch, never what a dead cycle left behind.
SafeStopOnlyForStops ==
  [][~safeStop /\ safeStop' => \A c \in Codes : BookQty(c) = held[c] + Unbooked(c)]_vars

\* A position is only closed when its shares are gone; what an exit left over
\* stays on the book, where the next cycle finds it.
ClosedMeansSold ==
  Quiet => \A c \in Codes : ~pos[c].open => held[c] = 0

\* Every fill of a resident stop, also the second part of one, can be booked:
\* no watch fails on an outcome that is already there.
EveryFillIsBooked == watch.pc # "aborted"

Bought(c, pid) ==
  {i \in DOMAIN orders : /\ orders[i].code = c /\ orders[i].pid = pid
                         /\ orders[i].purpose = "entry"}
BoughtQty(c, pid) == SumFunction([i \in Bought(c, pid) |-> orders[i].filled])

OutcomesOf(c, pid) == {o \in outcomes : o.code = c /\ o.pid = pid}
OutcomeQty(c, pid) == SumFunction([o \in OutcomesOf(c, pid) |-> o.qty])

\* Every share of a position is either still in it or in one of its outcomes, while
\* orders are filled whole and no process has died.
SharesAccounted ==
  Quiet => \A c \in Codes :
    pos[c].qty + OutcomeQty(c, pos[c].pid) = BoughtQty(c, pos[c].pid)

\* No share is booked as sold twice: the outcomes of a position never add up to more
\* than was bought (exits.py, book_exit).
SoldOnce ==
  \A o \in outcomes : OutcomeQty(o.code, o.pid) <= BoughtQty(o.code, o.pid)

\* While orders are filled whole and as long as no process has died that is so, whatever
\* orders are refused: a refused exit, too, books what the stop of the same day has sold.
NoDoubleOutcome == "partial" \notin Faults /\ crashes = 0 => SoldOnce

\* A resident stop over every share held, when the market is open.
Covered(c) ==
  \E i \in DOMAIN ledger :
    /\ ledger[i].code = c /\ ledger[i].kind = "stop" /\ ledger[i].live
    /\ Remaining(ledger[i]) = held[c]

\* When the watch has done its registrations with the market open and the orders
\* of the day known, whoever died before and while orders are filled whole, every position that still has shares is covered by a stop, but
\* for those whose stop KIS refused in this run without a cause on our side.
WatchLeavesCovered ==
  (watch.pc = "stale" /\ session = "open" /\ watch.known)
    => \A c \in Codes \ watch.refused : pos[c].open /\ held[c] > 0 => Covered(c)

\* At the end of such a run the stop at KIS has the trigger of the book, also where an
\* earlier revision was refused: what may be left is what was refused in this run too.
\* No process has died, but orders may be filled in part.
WatchLeavesCurrent ==
  (watch.pc = "stale" /\ watch.todo = {} /\ session = "open" /\ watch.known)
    => \A i \in DOMAIN ledger :
         (/\ ledger[i].kind = "stop" /\ ledger[i].live /\ pos[ledger[i].code].open
          /\ ledger[i].code \notin watch.refused)
           => ledger[i].trig = pos[ledger[i].code].stop

LiveStops(c) ==
  {i \in DOMAIN ledger : ledger[i].code = c /\ ledger[i].kind = "stop" /\ ledger[i].live}

\* The shares live stops offer are shares we hold, so no stop sells another one's,
\* while no process has died.
StopsWithinHoldings ==
  Quiet => \A c \in Codes :
    pos[c].open =>
      SumFunction([i \in LiveStops(c) |-> Remaining(ledger[i])]) <= held[c]

LiveTriggers(c) == {ledger[i].trig : i \in LiveStops(c)}

\* While no process dies, the stop of a position is only ever raised, in the book and
\* at KIS.
StopsOnlyRise ==
  [][\A c \in Codes :
       pos[c].open /\ pos'[c].open /\ pos'[c].pid = pos[c].pid
         => /\ pos'[c].stop >= pos[c].stop
            /\ \A old \in LiveTriggers(c), new \in LiveTriggers(c)' : new >= old]_vars

\* A position that has lost its stop while the market is open gets one again, is sold,
\* or the market closes: unless KIS refuses its stop again and again, or every watch
\* fails on an outcome that a dead one had booked already.
Naked(c) ==
  /\ session = "open"
  /\ pos[c].open
  /\ held[c] > 0
  /\ ~LiveStop(ledger, c)

NakedIsTemporary ==
  \A c \in Codes : []<>(~Naked(c) \/ c \in watch.refused \/ watch.pc = "aborted")
=============================================================================
