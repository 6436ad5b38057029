-------------------------------- MODULE Book --------------------------------
(***************************************************************************)
(* The tables of memory/journal.py that say what we hold: positions,       *)
(* orders and outcomes.  Every function of the journal commits on its own, *)
(* so each of these operators is one atomic step of the process that calls *)
(* it.  A client order id and the id of its outcome are the position of    *)
(* the row in "orders"; a position id is the day of the cycle that opened  *)
(* it (there is one cycle a day).  A stop price is a level 1 .. MaxLevel.  *)
(***************************************************************************)
EXTENDS KisAccount

CONSTANT MaxLevel   \* bound: levels a stop may be raised to, entries start at 1

ASSUME BookAssumption == MaxLevel \in Nat \ {0}

VARIABLES
  pos,       \* [Codes -> position], the latest position of every code
  orders,    \* sequence of recorded orders
  outcomes   \* set of recorded outcomes

bookVars == <<pos, orders, outcomes>>

Levels == 1 .. MaxLevel

Position(open, qty, stop, active, pid) ==
  [open |-> open, qty |-> qty, stop |-> stop, active |-> active, pid |-> pid]

NoPosition == Position(FALSE, 0, 0, 0, 0)

BookInit ==
  /\ pos = [c \in Codes |-> NoPosition]
  /\ orders = <<>>
  /\ outcomes = {}

RecordOrder(c, purpose, qty, trig, answer) ==
  orders' = Append(orders,
    [code |-> c, purpose |-> purpose, pid |-> day, qty |-> qty, trig |-> trig,
     filled |-> answer.filled, odno |-> answer.odno, status |-> answer.status])

\* Mutant of UpsertEntryPosition: a stock bought again keeps the position it had.
UpsertEntryPositionOldId(c, qty) ==
  pos' = [pos EXCEPT ![c] =
    IF @.pid # 0 THEN [@ EXCEPT !.open = TRUE, !.qty = @ + qty, !.stop = 1, !.active = 0]
    ELSE Position(TRUE, qty, 1, 0, day)]

UpsertEntryPosition(c, qty) ==
  pos' = [pos EXCEPT ![c] =
    IF @.open THEN [@ EXCEPT !.qty = @ + qty, !.stop = 1]
    ELSE Position(TRUE, qty, 1, 0, day)]

SetActiveStop(c, id) == pos' = [pos EXCEPT ![c].active = id]

UpdateStop(c, level) == pos' = [pos EXCEPT ![c].stop = level]

ReducePosition(c, qty) ==
  pos' = [pos EXCEPT ![c].qty = IF qty > @ THEN 0 ELSE @ - qty]

ClosePosition(c) == pos' = [pos EXCEPT ![c].open = FALSE, ![c].qty = 0]

\* Mutant of RecordStopRevision: the number of the order is not replaced.
RecordStopRevisionOldNumber(id, trig, odno) ==
  orders' = [orders EXCEPT ![id].trig = trig]

\* The new order number replaces the old one, so the next revision finds it.
RecordStopRevision(id, trig, odno) ==
  orders' = [orders EXCEPT ![id].trig = trig,
                           ![id].odno = IF odno = NoOdno THEN @ ELSE odno]

MarkOrderFilled(id, filled, status) ==
  orders' = [orders EXCEPT ![id].filled = filled, ![id].status = status]

CloseExpiredStop(id) ==
  orders' = [orders EXCEPT ![id].status =
    IF @ \in {"submitted", "partial"} THEN "cancelled" ELSE @]

OutcomeTaken(id) == \E o \in outcomes : o.id = id

RecordOutcome(id, c, pid, qty) ==
  outcomes' = outcomes \cup {[id |-> id, code |-> c, pid |-> pid, qty |-> qty]}

\* load_open_positions and execute_exits look at these.
OpenCodes == {c \in Codes : pos[c].open /\ pos[c].qty > 0}

\* gates.reconcile_balance
BookBalances == \A c \in Codes : held[c] = IF pos[c].open THEN pos[c].qty ELSE 0
=============================================================================
