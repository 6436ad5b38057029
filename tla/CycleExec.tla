------------------------------ MODULE CycleExec ------------------------------
(***************************************************************************)
(* The part of a trading cycle that touches the account: the balance gate, *)
(* exec/exits.py (execute_exits) and exec/orders.py (execute_entries),     *)
(* called in this order by pipeline/cycle.py (run) with a live broker.     *)
(*                                                                         *)
(* Every broker call and every commit of the journal is a step of its own, *)
(* named by cyc.pc for what comes next, so that a stop may trigger and the *)
(* process may die in between.  What decide_exit makes of a holding, and   *)
(* which stocks the plan buys, is left open: a holding is kept, sold, or   *)
(* its stop is raised; partial_frac is 0, so no exit is partial.           *)
(***************************************************************************)
EXTENDS Book

VARIABLES
  cyc,      \* the cycle process, see CycleState
  cycled,   \* today's cycle has been started (cron starts one a day)
  safeStop  \* an unreleased safe_stop_events row exists

cycleVars == <<cyc, cycled, safeStop>>

CycleSteps ==
  {"idle", "exits", "revised", "raise", "exitSent", "exitOutcome", "exitClose",
   "entries", "entrySent", "upsert", "stop", "stopSent", "link"}

\* todo, plan: codes to do and to buy; rows: the positions execute_exits read;
\* the rest are the locals of the order at hand: n is a stop level or a number of
\* shares, id the recorded order, answer what the broker said.
CycleState(pc, todo, plan, rows) ==
  [pc |-> pc, todo |-> todo, plan |-> plan, rows |-> rows,
   code |-> NoCode, n |-> 0, id |-> 0, answer |-> NoAnswer]

NoRows == [c \in Codes |-> NoPosition]

IdleCycle == CycleState("idle", {}, {}, NoRows)

CycleInit ==
  /\ cyc = IdleCycle
  /\ cycled = FALSE
  /\ safeStop = FALSE

At(pc) == cyc.pc = pc

\* On to step pc with code c at hand, or back to the head of the loop without it.
GoTo(pc, c, n, id, answer) ==
  cyc' = [cyc EXCEPT !.pc = pc, !.code = c, !.n = n, !.id = id, !.answer = answer]
Back(pc, c) == cyc' = CycleState(pc, cyc.todo \ {c}, cyc.plan, cyc.rows)

-----------------------------------------------------------------------------
(* The gate.  A holding that differs from the book halts the cycle with a  *)
(* SafeStop before any order; an unreleased SafeStop lets exits run and    *)
(* drops the entries.                                                      *)

GateHalts ==
  /\ At("idle")
  /\ session = "open" /\ ~cycled
  /\ ~BookBalances
  /\ safeStop' = TRUE
  /\ cycled' = TRUE
  /\ UNCHANGED <<cyc, kisVars, bookVars>>

GatePasses(plan) ==
  /\ At("idle")
  /\ session = "open" /\ ~cycled
  /\ BookBalances
  /\ \A c \in plan : held[c] = 0
  /\ cyc' = CycleState("exits", OpenCodes, IF safeStop THEN {} ELSE plan, pos)
  /\ cycled' = TRUE
  /\ UNCHANGED <<safeStop, kisVars, bookVars>>

\* A person releases the SafeStop (ops/safestop.py).
ReleaseSafeStop ==
  /\ safeStop
  /\ safeStop' = FALSE
  /\ UNCHANGED <<cyc, cycled, kisVars, bookVars>>

-----------------------------------------------------------------------------
(* Exits.                                                                  *)

HoldPosition(c) ==
  /\ At("exits") /\ c \in cyc.todo
  /\ Back("exits", c)
  /\ UNCHANGED <<cycled, safeStop, kisVars, bookVars>>

\* Mutant of RaiseBrokerStop: the trailing stop may also fall.
RaiseBrokerStopAnyLevel(c, level) ==
  LET id == pos[c].active
  IN  /\ At("exits") /\ c \in cyc.todo
      /\ level # cyc.rows[c].stop
      /\ \E r \in IF id = 0 \/ orders[id].odno = NoOdno
                  THEN {Unchanged(Rejected)}
                  ELSE ReviseStop(c, orders[id].odno, level) :
           /\ Apply(r)
           /\ GoTo(IF r.answer = Rejected THEN "raise" ELSE "revised", c, level, id, r.answer)
      /\ UNCHANGED <<cycled, safeStop, bookVars>>

\* raise_stop: first the broker's order, then the book, whatever the broker says.
RaiseBrokerStop(c, level) ==
  LET id == pos[c].active
  IN  /\ At("exits") /\ c \in cyc.todo
      /\ level > cyc.rows[c].stop
      /\ \E r \in IF id = 0 \/ orders[id].odno = NoOdno
                  THEN {Unchanged(Rejected)}
                  ELSE ReviseStop(c, orders[id].odno, level) :
           /\ Apply(r)
           /\ GoTo(IF r.answer = Rejected THEN "raise" ELSE "revised", c, level, id, r.answer)
      /\ UNCHANGED <<cycled, safeStop, bookVars>>

RecordRevision ==
  /\ At("revised")
  /\ RecordStopRevision(cyc.id, cyc.n, cyc.answer.odno)
  /\ cyc' = [cyc EXCEPT !.pc = "raise"]
  /\ UNCHANGED <<cycled, safeStop, kisVars, pos, outcomes>>

RaiseBookStop ==
  /\ At("raise")
  /\ UpdateStop(cyc.code, cyc.n)
  /\ Back("exits", cyc.code)
  /\ UNCHANGED <<cycled, safeStop, kisVars, orders, outcomes>>

SendExit(c) ==
  /\ At("exits") /\ c \in cyc.todo
  /\ \E r \in PlaceExit(c, cyc.rows[c].qty) :
       /\ Apply(r)
       /\ GoTo("exitSent", c, r.answer.filled, 0, r.answer)
  /\ UNCHANGED <<cycled, safeStop, bookVars>>

RecordExit ==
  LET c == cyc.code
  IN  /\ At("exitSent")
      /\ RecordOrder(c, "exit", cyc.rows[c].qty, 0, cyc.answer)
      /\ IF cyc.answer.filled <= 0
         THEN Back("exits", c)
         ELSE GoTo("exitOutcome", c, cyc.n, Len(orders) + 1, cyc.answer)
      /\ UNCHANGED <<cycled, safeStop, kisVars, pos, outcomes>>

RecordExitOutcome ==
  LET c == cyc.code
  IN  /\ At("exitOutcome")
      /\ RecordOutcome(cyc.id, c, cyc.rows[c].pid, cyc.n)
      /\ cyc' = [cyc EXCEPT !.pc = "exitClose"]
      /\ UNCHANGED <<cycled, safeStop, kisVars, pos, orders>>

\* Mutant of SettleExit: the outcome is recorded and the position left open.
SettleExitForgotten ==
  /\ At("exitClose")
  /\ Back("exits", cyc.code)
  /\ UNCHANGED <<cycled, safeStop, kisVars, bookVars>>

\* The decision was a full exit, so the position is closed whatever was filled.
SettleExit ==
  /\ At("exitClose")
  /\ ClosePosition(cyc.code)
  /\ Back("exits", cyc.code)
  /\ UNCHANGED <<cycled, safeStop, kisVars, orders, outcomes>>

ExitsDone ==
  /\ At("exits") /\ cyc.todo = {}
  /\ cyc' = CycleState("entries", cyc.plan, {}, NoRows)
  /\ UNCHANGED <<cycled, safeStop, kisVars, bookVars>>

-----------------------------------------------------------------------------
(* Entries: buy, record, book the position, register its stop, link it.    *)

SendEntry(c) ==
  /\ At("entries") /\ c \in cyc.todo
  /\ \E r \in PlaceEntry(c, Lot) :
       /\ Apply(r)
       /\ GoTo("entrySent", c, r.answer.filled, 0, r.answer)
  /\ UNCHANGED <<cycled, safeStop, bookVars>>

RecordEntry ==
  /\ At("entrySent")
  /\ RecordOrder(cyc.code, "entry", Lot, 0, cyc.answer)
  /\ IF cyc.n <= 0
     THEN Back("entries", cyc.code)
     ELSE cyc' = [cyc EXCEPT !.pc = "upsert"]
  /\ UNCHANGED <<cycled, safeStop, kisVars, pos, outcomes>>

BookEntry ==
  /\ At("upsert")
  /\ UpsertEntryPosition(cyc.code, cyc.n)
  /\ cyc' = [cyc EXCEPT !.pc = "stop"]
  /\ UNCHANGED <<cycled, safeStop, kisVars, orders, outcomes>>

\* Mutant of RegisterStop: the stop is linked without being recorded first.
RegisterStopUnrecorded ==
  /\ At("stop")
  /\ \E r \in PlaceStop(cyc.code, cyc.n, 1) :
       /\ Apply(r)
       /\ cyc' = [cyc EXCEPT !.pc = "link", !.id = Len(orders) + 1, !.answer = r.answer]
  /\ UNCHANGED <<cycled, safeStop, bookVars>>

RegisterStop ==
  /\ At("stop")
  /\ \E r \in PlaceStop(cyc.code, cyc.n, 1) :
       /\ Apply(r)
       /\ cyc' = [cyc EXCEPT !.pc = "stopSent", !.answer = r.answer]
  /\ UNCHANGED <<cycled, safeStop, bookVars>>

RecordStop ==
  /\ At("stopSent")
  /\ RecordOrder(cyc.code, "stop", cyc.n, 1, cyc.answer)
  /\ cyc' = [cyc EXCEPT !.pc = "link", !.id = Len(orders) + 1]
  /\ UNCHANGED <<cycled, safeStop, kisVars, pos, outcomes>>

\* A refused stop is linked as well.
LinkStop ==
  /\ At("link")
  /\ SetActiveStop(cyc.code, cyc.id)
  /\ Back("entries", cyc.code)
  /\ UNCHANGED <<cycled, safeStop, kisVars, orders, outcomes>>

CycleEnds ==
  /\ At("entries") /\ cyc.todo = {}
  /\ cyc' = IdleCycle
  /\ UNCHANGED <<cycled, safeStop, kisVars, bookVars>>

CycleStep ==
  \/ \E c \in Codes :
       \/ HoldPosition(c)
       \/ \E level \in Levels : RaiseBrokerStop(c, level)
       \/ SendExit(c)
       \/ SendEntry(c)
  \/ RecordRevision \/ RaiseBookStop
  \/ RecordExit \/ RecordExitOutcome \/ SettleExit \/ ExitsDone
  \/ RecordEntry \/ BookEntry \/ RegisterStop \/ RecordStop \/ LinkStop \/ CycleEnds
=============================================================================
