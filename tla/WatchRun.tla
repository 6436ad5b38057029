------------------------------ MODULE WatchRun ------------------------------
(***************************************************************************)
(* run_watch.py: the watch over the resident stops, run by cron every half *)
(* hour while the market is open and once after the close (--force).  It   *)
(* loads the open positions and today's orders once and judges from these  *)
(* two snapshots: stops that were filled are settled, missing ones are     *)
(* registered again, and those with an old trigger are revised.  After the *)
(* close it only settles.                                                  *)
(*                                                                         *)
(* The look for stop gaps (find_stop_gaps) only reports and is left out.   *)
(***************************************************************************)
EXTENDS Book

VARIABLES
  watch,  \* the watch process, see WatchState
  swept   \* the run after today's close has finished

watchVars == <<watch, swept>>

WatchSteps ==
  {"idle", "loaded", "settle", "settleOutcome", "settleClose", "aborted", "settled",
   "register", "registered", "expire", "link", "stale", "revised"}

\* open: the market was open at the start; rows: the positions loaded; led: the orders
\* fetched, if known; todo: codes of the current loop; any: something was settled;
\* refused: history, the codes whose stop KIS would not take or revise in this run
\* although it could have; the rest as in CycleExec.
WatchState(pc, open, rows) ==
  [pc |-> pc, open |-> open, rows |-> rows, led |-> <<>>, known |-> FALSE, todo |-> {},
   any |-> FALSE, refused |-> {}, code |-> NoCode, n |-> 0, id |-> 0, answer |-> NoAnswer]

IdleWatch == WatchState("idle", FALSE, <<>>)

WatchInit ==
  /\ watch = IdleWatch
  /\ swept = FALSE

WatchAt(pc) == watch.pc = pc

\* On to the loop pc over the codes todo, or to its next code.
Loop(pc, rows, todo) ==
  watch' = [watch EXCEPT !.pc = pc, !.rows = rows, !.todo = todo,
                         !.code = NoCode, !.n = 0, !.id = 0, !.answer = NoAnswer]
NextCode(pc, c) == Loop(pc, watch.rows, watch.todo \ {c})

Refused(c, answer, able) == When(answer = Rejected /\ able, {c})

WatchEnd ==
  /\ watch' = IdleWatch
  /\ swept' = (swept \/ ~watch.open)

-----------------------------------------------------------------------------
(* The two snapshots.                                                      *)

\* Open positions, each with the number and trigger of the stop order it is linked to.
LoadOpenPositions ==
  [c \in OpenCodes |->
     LET id == pos[c].active
     IN  [pid |-> pos[c].pid, qty |-> pos[c].qty, stop |-> pos[c].stop, active |-> id,
          odno |-> IF id = 0 THEN NoOdno ELSE orders[id].odno,
          trig |-> IF id = 0 THEN 0 ELSE orders[id].trig]]

\* With nothing held the run only leaves its record.
WatchNothing ==
  /\ WatchAt("idle")
  /\ session = "closed" /\ ~swept
  /\ OpenCodes = {}
  /\ swept' = TRUE
  /\ UNCHANGED <<watch, kisVars, bookVars>>

WatchStarts ==
  /\ WatchAt("idle")
  /\ OpenCodes # {}
  /\ session = "closed" => ~swept
  /\ watch' = WatchState("loaded", session = "open", LoadOpenPositions)
  /\ UNCHANGED <<swept, kisVars, bookVars>>

\* find_filled_stops: a linked stop with a fill in today's orders.
FilledStops(rows, led) ==
  {c \in DOMAIN rows : HasRow(led, rows[c].odno) /\ led[rows[c].odno[2]].filled > 0}

FetchDailyOrders ==
  /\ WatchAt("loaded")
  /\ \/ watch' = [watch EXCEPT !.pc = "settle", !.led = ledger, !.known = TRUE,
                               !.todo = FilledStops(watch.rows, ledger)]
     \/ "ledgerFail" \in Faults /\ watch' = [watch EXCEPT !.pc = "settle"]
  /\ UNCHANGED <<swept, kisVars, bookVars>>

-----------------------------------------------------------------------------
(* Settling the stops that were filled.                                    *)

Smaller(a, b) == IF a < b THEN a ELSE b

\* The position is read again; one the cycle has closed is not booked twice.
MarkFilled(c) ==
  LET n == Smaller(watch.led[watch.rows[c].odno[2]].filled, watch.rows[c].qty)
  IN  /\ WatchAt("settle") /\ c \in watch.todo
      /\ IF pos[c].open /\ pos[c].pid = watch.rows[c].pid
         THEN /\ MarkOrderFilled(watch.rows[c].active, n,
                                 IF n >= pos[c].qty THEN "filled" ELSE "partial")
              /\ watch' = [watch EXCEPT !.pc = "settleOutcome", !.code = c, !.n = n,
                                        !.id = watch.rows[c].active, !.any = TRUE]
         ELSE UNCHANGED orders /\ NextCode("settle", c)
      /\ UNCHANGED <<swept, kisVars, pos, outcomes>>

\* The outcome of a stop order has one id: a second one fails on the primary key
\* and takes the whole run down.
RecordStopHit ==
  /\ WatchAt("settleOutcome")
  /\ IF OutcomeTaken(watch.id)
     THEN watch' = [watch EXCEPT !.pc = "aborted"] /\ UNCHANGED outcomes
     ELSE /\ RecordOutcome(watch.id, watch.code, watch.rows[watch.code].pid, watch.n)
          /\ watch' = [watch EXCEPT !.pc = "settleClose"]
  /\ UNCHANGED <<swept, kisVars, pos, orders>>

SettlePosition ==
  /\ WatchAt("settleClose")
  /\ IF watch.n >= pos[watch.code].qty
     THEN ClosePosition(watch.code)
     ELSE ReducePosition(watch.code, watch.n)
  /\ NextCode("settle", watch.code)
  /\ UNCHANGED <<swept, kisVars, orders, outcomes>>

WatchAborts ==
  /\ WatchAt("aborted")
  /\ watch' = IdleWatch
  /\ UNCHANGED <<swept, kisVars, bookVars>>

\* Mutants of MissingStops: an expired link counts as a stop; the ledger is not asked.
MissingStopsUnlinkedOnly(rows) == {c \in DOMAIN rows : rows[c].active = 0}
MissingStopsAll(rows) == DOMAIN rows

\* find_missing_stops, on the positions loaded again when something was settled
\* and the orders of before.
MissingStops(rows) ==
  {c \in DOMAIN rows : rows[c].active = 0 \/ (watch.known /\ ~LiveStop(watch.led, c))}

SettlementDone ==
  LET rows == IF watch.any THEN LoadOpenPositions ELSE watch.rows
  IN  /\ WatchAt("settle") /\ watch.todo = {}
      /\ IF watch.open /\ DOMAIN rows # {}
         THEN Loop("register", rows, MissingStops(rows)) /\ UNCHANGED swept
         ELSE WatchEnd
      /\ UNCHANGED <<kisVars, bookVars>>

-----------------------------------------------------------------------------
(* Registering what is missing.                                            *)

RegisterMissing(c) ==
  /\ WatchAt("register") /\ c \in watch.todo
  /\ \E r \in PlaceStop(c, watch.rows[c].qty, watch.rows[c].stop) :
       /\ Apply(r)
       /\ watch' = [watch EXCEPT !.pc = "registered", !.code = c, !.answer = r.answer,
                     !.refused = @ \cup
                       Refused(c, r.answer, SellFits(c, watch.rows[c].qty) /\ ~LiveStop(ledger, c))]
  /\ UNCHANGED <<swept, bookVars>>

\* A refused order is recorded but not linked, and the next run tries again: its
\* row is never read, so it is not kept in orders.
RecordRegistered ==
  LET c == watch.code
  IN  /\ WatchAt("registered")
      /\ IF watch.answer = Rejected
         THEN UNCHANGED orders /\ NextCode("register", c)
         ELSE /\ RecordOrder(c, "stop", watch.rows[c].qty, watch.rows[c].stop, watch.answer)
              /\ watch' = [watch EXCEPT !.pc = IF watch.rows[c].active = 0 THEN "link" ELSE "expire",
                                        !.id = Len(orders) + 1]
      /\ UNCHANGED <<swept, kisVars, pos, outcomes>>

ExpireOldStop ==
  /\ WatchAt("expire")
  /\ CloseExpiredStop(watch.rows[watch.code].active)
  /\ watch' = [watch EXCEPT !.pc = "link"]
  /\ UNCHANGED <<swept, kisVars, pos, outcomes>>

LinkRegistered ==
  /\ WatchAt("link")
  /\ SetActiveStop(watch.code, watch.id)
  /\ NextCode("register", watch.code)
  /\ UNCHANGED <<swept, kisVars, orders, outcomes>>

-----------------------------------------------------------------------------
(* Revising what is out of date.                                           *)

\* Mutant of StaleStops: only a trigger above the stop of the book is out of date.
StaleStopsAbove(rows) == {c \in DOMAIN rows : rows[c].active # 0 /\ rows[c].trig > rows[c].stop}

\* find_stale_stops, still on the positions as they were before the registrations.
StaleStops(rows) == {c \in DOMAIN rows : rows[c].active # 0 /\ rows[c].trig # rows[c].stop}

RegistrationDone ==
  /\ WatchAt("register") /\ watch.todo = {}
  /\ Loop("stale", watch.rows, StaleStops(watch.rows))
  /\ UNCHANGED <<swept, kisVars, bookVars>>

\* A refusal is reported and the order stays as it was.
ReviseStale(c) ==
  /\ WatchAt("stale") /\ c \in watch.todo
  /\ \E r \in IF watch.rows[c].odno = NoOdno THEN {Unchanged(Rejected)}
              ELSE ReviseStop(c, watch.rows[c].odno, watch.rows[c].stop) :
       /\ Apply(r)
       /\ IF r.answer = Rejected
          THEN watch' = [watch EXCEPT !.todo = @ \ {c},
                           !.refused = @ \cup Refused(c, r.answer, IsLive(watch.rows[c].odno))]
          ELSE watch' = [watch EXCEPT !.pc = "revised", !.code = c, !.answer = r.answer]
  /\ UNCHANGED <<swept, bookVars>>

RecordStaleRevision ==
  /\ WatchAt("revised")
  /\ RecordStopRevision(watch.rows[watch.code].active, watch.rows[watch.code].stop,
                        watch.answer.odno)
  /\ NextCode("stale", watch.code)
  /\ UNCHANGED <<swept, kisVars, pos, outcomes>>

WatchEnds ==
  /\ WatchAt("stale") /\ watch.todo = {}
  /\ WatchEnd
  /\ UNCHANGED <<kisVars, bookVars>>

WatchGoesOn ==
  \/ FetchDailyOrders
  \/ \E c \in Codes : MarkFilled(c) \/ RegisterMissing(c) \/ ReviseStale(c)
  \/ RecordStopHit \/ SettlePosition \/ WatchAborts \/ SettlementDone
  \/ RecordRegistered \/ ExpireOldStop \/ LinkRegistered \/ RegistrationDone
  \/ RecordStaleRevision \/ WatchEnds
=============================================================================
