----------------------------- MODULE KisAccount -----------------------------
(***************************************************************************)
(* The brokerage account behind broker/kis_client.py: what is held, and    *)
(* the orders of the day as the daily order inquiry reports them.  KIS is  *)
(* not part of the repository; it is modelled from how the client uses it. *)
(*                                                                         *)
(* Prices are not tracked: a stop may trigger at any time the market is    *)
(* open.  An order number is <<day, position in the ledger>>; the ledger   *)
(* starts empty every day, so a number of yesterday is found no more.      *)
(***************************************************************************)
EXTENDS Integers, Sequences, FiniteSets

CONSTANTS
  Codes,   \* stock codes
  Lot,     \* shares of an entry order
  Faults,  \* what may go wrong, see FaultKinds
  MaxDays  \* bound: trading days

FaultKinds ==
  {"partial",    \* an order is filled in part
   "buyReject",  \* KIS refuses a buy
   "stopReject", \* KIS refuses a stop or its revision for a reason we do not know
   "exitReject", \* KIS refuses an exit likewise
   "crash",      \* a process dies between two steps
   "ledgerFail"} \* the daily order inquiry of the watch fails

ASSUME CustodyAssumption ==
  /\ IsFiniteSet(Codes)
  /\ Lot \in Nat \ {0}
  /\ Faults \subseteq FaultKinds
  /\ MaxDays \in Nat \ {0}

VARIABLES
  held,    \* [Codes -> Nat], the shares KIS holds for us
  ledger,  \* sequence of today's orders
  session, \* "open" or "closed"
  day

kisVars == <<held, ledger>>

NoCode == "none"
NoOdno == <<0, 0>>
NextOdno == <<day, Len(ledger) + 1>>

LedgerRow(c, kind, qty, filled, live, trig) ==
  [code |-> c, kind |-> kind, qty |-> qty, filled |-> filled, live |-> live, trig |-> trig]

Remaining(row) == row.qty - row.filled

HasRow(rows, odno) == odno[1] = day /\ odno[2] \in DOMAIN rows

LiveStop(rows, c) ==
  \E i \in DOMAIN rows : rows[i].code = c /\ rows[i].kind = "stop" /\ rows[i].live

KisInit ==
  /\ held = [c \in Codes |-> 0]
  /\ ledger = <<>>
  /\ session = "open"
  /\ day = 1

-----------------------------------------------------------------------------
(* What KIS does on its own.                                               *)

PartFills(n) == IF "partial" \in Faults THEN 1 .. n ELSE {n}

\* A resident stop triggers; it cannot sell more than is held.
StopTriggers(i, n) ==
  LET row == ledger[i]
  IN  /\ session = "open"
      /\ row.live
      /\ row.kind = "stop"
      /\ n \in PartFills(Remaining(row)) /\ n <= held[row.code]
      /\ ledger' = [ledger EXCEPT ![i].filled = @ + n, ![i].live = n < Remaining(row)]
      /\ held' = [held EXCEPT ![row.code] = @ - n]
      /\ UNCHANGED <<session, day>>

\* Orders are good for the day: what is left of them expires at the close.
MarketCloses ==
  /\ session = "open"
  /\ session' = "closed"
  /\ ledger' = [i \in DOMAIN ledger |-> [ledger[i] EXCEPT !.live = FALSE]]
  /\ UNCHANGED <<held, day>>

DayBegins ==
  /\ session = "closed"
  /\ day < MaxDays
  /\ session' = "open"
  /\ day' = day + 1
  /\ ledger' = <<>>
  /\ UNCHANGED held

-----------------------------------------------------------------------------
(* The client's order calls.  Each is one order and, for an entry or an    *)
(* exit, the inquiry that follows it.  A call is the set of its possible   *)
(* results: what the client answers and what the account is afterwards.    *)

Answer(filled, status, odno) == [filled |-> filled, status |-> status, odno |-> odno]

NoAnswer == Answer(0, "none", NoOdno)

Result(answer, rows, shares) == [answer |-> answer, ledger |-> rows, held |-> shares]

Unchanged(answer) == Result(answer, ledger, held)

Apply(result) == ledger' = result.ledger /\ held' = result.held

When(condition, S) == IF condition THEN S ELSE {}

\* A sell needs the shares; shares a live stop already offers may be refused.
SellFits(c, qty) == session = "open" /\ qty <= held[c]
SellRefusable(c, qty, fault) ==
  ~SellFits(c, qty) \/ LiveStop(ledger, c) \/ fault \in Faults

Submitted == Answer(0, "submitted", NextOdno)
Rejected == Answer(0, "rejected", NoOdno)

PlaceStop(c, qty, trig) ==
  When(SellFits(c, qty),
       {Result(Submitted, Append(ledger, LedgerRow(c, "stop", qty, 0, TRUE, trig)), held)})
  \cup When(SellRefusable(c, qty, "stopReject"), {Unchanged(Rejected)})

IsLive(odno) == session = "open" /\ HasRow(ledger, odno) /\ ledger[odno[2]].live

\* A revision replaces what is left of a live order by a new one, with a number of its
\* own; one that is refused leaves the order as it is.
ReviseStop(c, odno, trig) ==
  When(IsLive(odno),
       LET new == LedgerRow(c, "stop", Remaining(ledger[odno[2]]), 0, TRUE, trig)
       IN  {Result(Submitted, Append([ledger EXCEPT ![odno[2]].live = FALSE], new), held)})
  \cup When(~IsLive(odno) \/ "stopReject" \in Faults, {Unchanged(Rejected)})

FillStatus(filled, qty, none) ==
  IF filled >= qty THEN "filled" ELSE IF filled > 0 THEN "partial" ELSE none

\* What place_entry and place_exit make of a send that was refused: without an
\* order number they take the last order of that code in today's ledger.
RefusedAnswer(c, qty) ==
  LET rows == {i \in DOMAIN ledger : ledger[i].code = c}
      last == CHOOSE i \in rows : \A j \in rows : j <= i
  IN  IF rows = {} THEN Rejected
      ELSE Answer(ledger[last].filled, FillStatus(ledger[last].filled, qty, "submitted"), NoOdno)

\* The rest of an entry or an exit is cancelled at once (IOC).
IocFills(qty) == IF "partial" \in Faults THEN 0 .. qty ELSE {0, qty}

PlaceExit(c, qty) ==
  When(SellFits(c, qty),
       {Result(Answer(n, FillStatus(n, qty, "submitted"), NextOdno),
               Append(ledger, LedgerRow(c, "sell", qty, n, FALSE, 0)),
               [held EXCEPT ![c] = @ - n]) : n \in IocFills(qty)})
  \cup When(SellRefusable(c, qty, "exitReject"), {Unchanged(RefusedAnswer(c, qty))})

PlaceEntry(c, qty) ==
  When(session = "open",
       {Result(Answer(n, FillStatus(n, qty, "cancelled"), NextOdno),
               Append(ledger, LedgerRow(c, "buy", qty, n, FALSE, 0)),
               [held EXCEPT ![c] = @ + n]) : n \in IocFills(qty)})
  \cup When(session # "open" \/ "buyReject" \in Faults, {Unchanged(RefusedAnswer(c, qty))})
=============================================================================
