---------------------------- MODULE CustodyProofs ----------------------------
(***************************************************************************)
(* Proofs about the custody of the holdings, for any stocks, lots, levels  *)
(* and days.  The invariant has two layers here: what holds whatever       *)
(* fails, and what also holds while orders are filled whole.  The module   *)
(* CustodyStopsProofs adds what holds while no process dies, and the       *)
(* agreement of book and account.                                          *)
(***************************************************************************)
EXTENDS MCCustody, SumTheorems, SequenceTheorems, TLAPS

-----------------------------------------------------------------------------
(* Whatever fails.                                                         *)

Stops == 0 .. MaxLevel
Statuses == {"none", "submitted", "rejected", "filled", "partial", "cancelled"}
Answers == [filled : Nat, status : Statuses, odno : Odnos]

LedgerRows ==
  [code : Codes, kind : {"buy", "sell", "stop"}, qty : Nat, filled : Nat,
   live : BOOLEAN, trig : Stops]

Positions ==
  [open : BOOLEAN, qty : Nat, stop : Stops, active : Nat, pid : 0 .. MaxDays]

OrderRows ==
  [code : Codes, purpose : {"entry", "exit", "stop"}, pid : 1 .. MaxDays, qty : Nat,
   trig : Stops, filled : Nat, odno : Odnos, status : Statuses]

OutcomeRows == [id : Nat, code : Codes, pid : 0 .. MaxDays, qty : Nat]

CycleStates ==
  [pc : CycleSteps, todo : SUBSET Codes, plan : SUBSET Codes, rows : [Codes -> Positions],
   code : Codes \cup {NoCode}, n : Nat, id : Nat, answer : Answers]

LoadedRows ==
  [pid : 0 .. MaxDays, qty : Nat, stop : Stops, active : Nat, odno : Odnos, trig : Stops]

AccountTypes ==
  /\ held \in [Codes -> Nat] /\ ledger \in Seq(LedgerRows)
  /\ \A i \in DOMAIN ledger : ledger[i].live => ledger[i].kind = "stop"
  /\ session \in {"open", "closed"} /\ day \in 1 .. MaxDays

BookTypes ==
  /\ pos \in [Codes -> Positions] /\ orders \in Seq(OrderRows)
  /\ outcomes \subseteq OutcomeRows
  /\ \A o \in outcomes : o.id \in DOMAIN orders

StopOf(c, id) == id \in DOMAIN orders /\ orders[id].code = c /\ orders[id].purpose = "stop"

\* The stop of a position is an order of its stock, and a position is open while it
\* has shares.
PositionsKept ==
  \A c \in Codes :
    /\ pos[c].active # 0 => StopOf(c, pos[c].active)
    /\ pos[c].open <=> pos[c].qty > 0

ExitPhase == {"exits", "revised", "raise", "exitSent", "exitOutcome", "exitClose"}
EntryPhase == {"entries", "entrySent", "upsert", "stop", "stopSent", "link"}
CycleAtHand == CycleSteps \ {"idle", "exits", "entries"}

CycleTyped ==
  /\ cyc \in CycleStates
  /\ cyc.pc # "idle" => watch.pc = "idle" /\ session = "open" /\ cycled
  /\ cyc.pc \in CycleAtHand => cyc.code \in cyc.todo

\* The cycle has its stocks to itself: what it has read of them is what they are.
CycleReads ==
  /\ cyc.pc \in ExitPhase =>
       /\ \A c \in cyc.todo : pos[c] = cyc.rows[c] /\ pos[c].open
       /\ \A c \in cyc.plan : ~pos[c].open
  /\ cyc.pc \in EntryPhase =>
       \A c \in cyc.todo :
         pos[c].open <=> cyc.code = c /\ cyc.pc \in {"stop", "stopSent", "link"}
  /\ cyc.pc \in {"stop", "stopSent", "link"} =>
       LET p == pos[cyc.code]
       IN  p.qty = cyc.n /\ p.stop = 1 /\ p.active = 0 /\ p.pid = day

\* The number of a stop is of an earlier day, or of an order of its stock.
NumberOf(odno, c) == odno[1] < day \/ (HasRow(ledger, odno) /\ ledger[odno[2]].code = c)

NumbersKept ==
  \A i \in DOMAIN orders : orders[i].purpose = "stop" => NumberOf(orders[i].odno, orders[i].code)

\* The locals of the order at hand.
CycleLocals ==
  /\ cyc.pc \in {"revised", "raise"} =>
       /\ cyc.id = pos[cyc.code].active
       /\ cyc.n \in Levels /\ cyc.n > pos[cyc.code].stop
  /\ cyc.pc = "revised" => cyc.id # 0 /\ cyc.answer.odno # NoOdno
  /\ cyc.pc \in {"exitSent", "entrySent", "upsert"} => cyc.n = cyc.answer.filled
  /\ cyc.pc \in {"exitOutcome", "exitClose", "upsert", "stop", "stopSent", "link"} => cyc.n > 0
  /\ cyc.pc \in {"exitOutcome", "exitClose", "link"} =>
       /\ cyc.id \in DOMAIN orders /\ orders[cyc.id].code = cyc.code
       /\ orders[cyc.id].purpose = IF cyc.pc = "link" THEN "stop" ELSE "exit"
  /\ cyc.pc \in {"revised", "stopSent"} => NumberOf(cyc.answer.odno, cyc.code)

SettlePhase == {"settle", "settleOutcome", "settleClose"}
RegisterPhase == {"register", "registered", "expire", "link"}
StalePhase == {"stale", "revised"}
WatchAtHand ==
  {"settleOutcome", "settleClose", "registered", "expire", "link", "revised"}

WatchStates ==
  [pc : WatchSteps, open : BOOLEAN, rows : UNION {[C -> LoadedRows] : C \in SUBSET Codes},
   led : Seq(LedgerRows), known : BOOLEAN, todo : SUBSET Codes, any : BOOLEAN,
   refused : SUBSET Codes,
   code : Codes \cup {NoCode}, n : Nat, id : Nat, answer : Answers]

WatchTyped ==
  /\ watch \in WatchStates
  /\ watch.pc # "idle" => cyc.pc = "idle"
  /\ watch.todo \subseteq DOMAIN watch.rows
  /\ watch.pc \in WatchAtHand => watch.code \in watch.todo
  /\ watch.pc \in RegisterPhase \cup StalePhase => watch.open

\* The watch has the book to itself: its rows are the positions, but for what it has
\* settled or registered since it loaded them.
WatchReads ==
  watch.pc # "idle" =>
    /\ \A c \in Codes : pos[c].open => c \in DOMAIN watch.rows
    /\ \A c \in DOMAIN watch.rows :
         /\ watch.rows[c].active # 0 => StopOf(c, watch.rows[c].active)
         /\ watch.rows[c].active = 0 => watch.rows[c].odno = NoOdno /\ watch.rows[c].trig = 0
         /\ watch.rows[c].qty > 0
         /\ pos[c].pid = watch.rows[c].pid /\ pos[c].stop = watch.rows[c].stop
         /\ \/ pos[c].active = watch.rows[c].active
            \/ watch.pc \in RegisterPhase /\ c \notin watch.todo
            \/ watch.pc \in StalePhase
         /\ ~watch.any \/ watch.pc \in RegisterPhase \cup StalePhase => pos[c].qty = watch.rows[c].qty

\* What the watch is about to settle, to register or to revise.
WatchLocals ==
  /\ watch.pc = "loaded" => ~watch.known /\ ~watch.any /\ watch.todo = {}
  /\ watch.pc \in SettlePhase =>
       \A c \in watch.todo :
         /\ watch.known /\ watch.rows[c].active # 0
         /\ HasRow(watch.led, watch.rows[c].odno)
         /\ watch.led[watch.rows[c].odno[2]].filled > 0
  /\ watch.pc \in {"settleOutcome", "settleClose"} =>
       /\ watch.id = watch.rows[watch.code].active
       /\ watch.n > 0 /\ watch.any /\ pos[watch.code].open
  /\ watch.pc \in {"expire", "link"} => StopOf(watch.code, watch.id)
  /\ watch.pc = "expire" => watch.rows[watch.code].active # 0
  /\ watch.pc \in StalePhase => \A c \in watch.todo : watch.rows[c].active # 0
  /\ watch.pc \in {"registered", "revised"} => NumberOf(watch.answer.odno, watch.code)
  /\ watch.pc \in {"idle", "loaded", "register", "stale"} \cup SettlePhase => watch.answer = NoAnswer
  /\ \A c \in DOMAIN watch.rows : NumberOf(watch.rows[c].odno, c)

FlagsKept ==
  /\ {cycled, safeStop, swept} \subseteq BOOLEAN
  /\ crashes \in 0 .. MaxCrashes

\* No order is filled beyond its quantity.
FillsKept == \A i \in DOMAIN ledger : ledger[i].filled <= ledger[i].qty

\* What bears a date is not of the future.
DatesKept ==
  /\ \A c \in Codes : pos[c].pid <= day
  /\ \A i \in DOMAIN orders : orders[i].pid <= day
  /\ \A o \in outcomes : o.pid <= day

CustodyInv ==
  /\ AccountTypes /\ BookTypes /\ PositionsKept /\ FlagsKept
  /\ CycleTyped /\ CycleReads /\ CycleLocals
  /\ WatchTyped /\ WatchReads /\ WatchLocals
  /\ FillsKept /\ DatesKept /\ NumbersKept

-----------------------------------------------------------------------------
(* While orders are filled whole.                                          *)

Whole == {0, Lot}

WholeAccount ==
  /\ \A c \in Codes : held[c] \in Whole
  /\ \A i \in DOMAIN ledger :
       ledger[i].qty = Lot /\ ledger[i].filled \in Whole /\ (ledger[i].live => ledger[i].filled = 0)

WholeBook ==
  /\ \A c \in Codes : pos[c].qty \in Whole
  /\ \A i \in DOMAIN orders : orders[i].qty = Lot /\ orders[i].filled \in Whole
  /\ \A o \in outcomes : o.qty = Lot

\* The cycle buys only what is not held.
WholeCycle ==
  /\ cyc.answer.filled \in Whole
  /\ cyc.pc \in {"exitSent", "exitOutcome", "exitClose", "entrySent", "upsert", "stop", "stopSent", "link"}
       => cyc.n \in Whole
  /\ cyc.pc \in ExitPhase => \A c \in cyc.plan : held[c] = 0
  /\ cyc.pc = "entries" => \A c \in cyc.todo : held[c] = 0
  /\ cyc.pc \in EntryPhase => \A c \in cyc.todo \ {cyc.code} : held[c] = 0

WholeWatch ==
  /\ watch.pc # "idle" =>
       /\ \A c \in DOMAIN watch.rows : watch.rows[c].qty = Lot
       /\ \A i \in DOMAIN watch.led : watch.led[i].filled \in Whole
       /\ watch.answer.filled = 0
  /\ watch.pc \in {"settleOutcome", "settleClose"} => watch.n = Lot

WholeKept == WholeAccount /\ WholeBook /\ WholeCycle /\ WholeWatch

\* What the watch has done stays done, as long as there is something to cover: a stock
\* has its stop, unless KIS would not take it.
HasStop(c) == session = "open" /\ held[c] > 0 => LiveStop(ledger, c)
Watched(c) == HasStop(c) \/ c \in watch.refused

WatchedKept ==
  watch.pc # "idle" /\ watch.known =>
    /\ \A c \in Codes : LiveStop(watch.led, c) => HasStop(c)
    /\ watch.pc \in RegisterPhase =>
         \A c \in DOMAIN watch.rows : (c \in watch.todo /\ (watch.code # c \/ watch.pc = "register")) \/ Watched(c)
    /\ watch.pc \in StalePhase => \A c \in DOMAIN watch.rows : Watched(c)

-----------------------------------------------------------------------------
(* Sequences, and the calls to KIS.                                        *)

\* What Append does to a sequence.
LEMMA AppendIs ==
  ASSUME NEW S, NEW s \in Seq(S), NEW e \in S
  PROVE  /\ Append(s, e) \in Seq(S) /\ Len(Append(s, e)) = Len(s) + 1 /\ Len(s) \in Nat
         /\ DOMAIN Append(s, e) = DOMAIN s \cup {Len(s) + 1} /\ Len(s) + 1 \notin DOMAIN s
         /\ \A i \in DOMAIN s : Append(s, e)[i] = s[i]
         /\ Append(s, e)[Len(s) + 1] = e
OBVIOUS

\* What a change of one element does to a sequence.
LEMMA ChangeIs ==
  ASSUME NEW S, NEW s \in Seq(S), NEW i \in DOMAIN s, NEW e \in S, NEW t,
         t = [s EXCEPT ![i] = e]
  PROVE  /\ t \in Seq(S) /\ Len(t) = Len(s) /\ DOMAIN t = DOMAIN s
         /\ t[i] = e /\ \A j \in DOMAIN s \ {i} : t[j] = s[j]
OBVIOUS

\* The stocks, the levels and the order numbers.
LEMMA ConstantsAre ==
  /\ IsFiniteSet(Codes) /\ Lot \in Nat \ {0} /\ MaxDays \in Nat \ {0}
  /\ MaxLevel \in Nat \ {0} /\ 0 \in Stops /\ 1 \in Stops /\ Levels \subseteq Stops
  /\ NoOdno \in Odnos /\ NoAnswer \in Answers /\ NoPosition \in Positions
BY CustodyAssumption, BookAssumption
   DEF Stops, Levels, NoOdno, Odnos, NoAnswer, Answer, Answers, Statuses, NoPosition,
       Position, Positions

\* The number of the next order.
LEMMA NextOdnoIs ==
  ASSUME AccountTypes
  PROVE  /\ NextOdno = <<day, Len(ledger) + 1>> /\ NextOdno \in Odnos /\ NextOdno # NoOdno
         /\ NextOdno[1] = day /\ NextOdno[2] = Len(ledger) + 1
BY CustodyAssumption DEF AccountTypes, NextOdno, Odnos, NoOdno

\* The answers of KIS to an order.
LEMMA AnswersAre ==
  ASSUME AccountTypes
  PROVE  /\ Submitted \in Answers /\ Rejected \in Answers /\ Submitted # Rejected
         /\ Submitted.odno = NextOdno /\ Submitted.filled = 0
         /\ Rejected.odno = NoOdno /\ Rejected.filled = 0
BY NextOdnoIs, ConstantsAre DEF Submitted, Rejected, Answer, Answers, Statuses

\* A stop that is placed is accepted, and then it is live, or refused.
LEMMA PlaceStopIs ==
  ASSUME AccountTypes, NEW c \in Codes, NEW q \in Nat, NEW t \in Stops,
         NEW r \in PlaceStop(c, q, t), Apply(r)
  PROVE  /\ held' = held
         /\ \/ /\ r.answer = Submitted /\ SellFits(c, q)
               /\ ledger' = Append(ledger, LedgerRow(c, "stop", q, 0, TRUE, t))
            \/ /\ r.answer = Rejected /\ SellRefusable(c, q, "stopReject")
               /\ ledger' = ledger
<1>1. held' = r.held /\ ledger' = r.ledger
  BY DEF Apply
<1> DEFINE new == Result(Submitted, Append(ledger, LedgerRow(c, "stop", q, 0, TRUE, t)), held)
<1>2. \/ r = new /\ SellFits(c, q)
      \/ r = Unchanged(Rejected) /\ SellRefusable(c, q, "stopReject")
  BY DEF PlaceStop, When
<1>3. CASE r = new /\ SellFits(c, q)
  BY <1>1, <1>3 DEF Result
<1>4. CASE r = Unchanged(Rejected) /\ SellRefusable(c, q, "stopReject")
  BY <1>1, <1>4 DEF Result, Unchanged
<1> QED BY <1>2, <1>3, <1>4

\* A stop that is revised is replaced by a new one of what is left, or the call is refused.
LEMMA ReviseStopIs ==
  ASSUME AccountTypes, NEW c \in Codes, NEW odno, NEW t \in Stops,
         NEW r \in ReviseStop(c, odno, t), Apply(r)
  PROVE  /\ held' = held
         /\ \/ /\ r.answer = Submitted /\ session = "open"
               /\ HasRow(ledger, odno) /\ ledger[odno[2]].live
               /\ ledger' = Append([ledger EXCEPT ![odno[2]].live = FALSE],
                                   LedgerRow(c, "stop", Remaining(ledger[odno[2]]), 0, TRUE, t))
            \/ /\ r.answer = Rejected /\ ledger' = ledger
               /\ ~IsLive(odno) \/ "stopReject" \in Faults
<1>1. held' = r.held /\ ledger' = r.ledger
  BY DEF Apply
<1> DEFINE rows == Append([ledger EXCEPT ![odno[2]].live = FALSE],
                          LedgerRow(c, "stop", Remaining(ledger[odno[2]]), 0, TRUE, t))
<1>2. \/ r = Result(Submitted, rows, held) /\ IsLive(odno)
      \/ r = Unchanged(Rejected) /\ (~IsLive(odno) \/ "stopReject" \in Faults)
  BY DEF ReviseStop, When
<1>3. CASE r = Result(Submitted, rows, held) /\ IsLive(odno)
  <2>1. r.answer = Submitted /\ r.ledger = rows /\ r.held = held
    BY <1>3 DEF Result
  <2> QED BY <1>1, <1>3, <2>1 DEF IsLive
<1>4. CASE r = Unchanged(Rejected) /\ (~IsLive(odno) \/ "stopReject" \in Faults)
  BY <1>1, <1>4 DEF Unchanged, Result
<1> QED BY <1>2, <1>3, <1>4

\* A set of numbers up to a bound has a last element.
LEMMA LastIs ==
  ASSUME NEW n \in Nat, NEW S \in SUBSET (1 .. n), S # {}
  PROVE  \E i \in S : \A j \in S : j <= i
<1> DEFINE P(k) == \E i \in S : i = n - k
<1>1. \E k \in Nat : P(k)
  <2>1. PICK i \in S : TRUE
    OBVIOUS
  <2>2. n - i \in Nat /\ i = n - (n - i)
    BY <2>1
  <2> QED BY <2>2
<1>2. PICK k \in Nat : P(k) /\ \A l \in Nat : P(l) => k <= l
  <2> DEFINE T == {l \in Nat : P(l)}
  <2>1. T # {} /\ T \subseteq Nat
    BY <1>1
  <2>2. PICK k \in T : \A l \in T : k <= l
    <3> HIDE DEF T
    <3> QED BY <2>1, LeastCounterexample
  <2> QED BY <2>2
<1>3. PICK i \in S : i = n - k
  BY <1>2
<1>4. ASSUME NEW j \in S PROVE j <= i
  <2>1. n - j \in Nat /\ j = n - (n - j)
    OBVIOUS
  <2>2. P(n - j)
    BY <2>1
  <2> HIDE DEF P
  <2>3. k <= n - j
    BY <1>2, <2>1, <2>2
  <2> QED BY <1>3, <2>1, <2>3
<1> QED BY <1>3, <1>4

\* A refused order is answered with the last order of the stock, if there is one.
LEMMA RefusedAnswerIs ==
  ASSUME AccountTypes, NEW c \in Codes, NEW q \in Nat
  PROVE  /\ RefusedAnswer(c, q) \in Answers /\ RefusedAnswer(c, q).odno = NoOdno
         /\ \/ RefusedAnswer(c, q).filled = 0
            \/ \E i \in DOMAIN ledger :
                 ledger[i].code = c /\ RefusedAnswer(c, q).filled = ledger[i].filled
<1> DEFINE rows == {i \in DOMAIN ledger : ledger[i].code = c}
           last == CHOOSE i \in rows : \A j \in rows : j <= i
<1>1. CASE rows = {}
  <2>1. RefusedAnswer(c, q) = Rejected
    BY <1>1 DEF RefusedAnswer
  <2> QED BY <2>1, AnswersAre
<1>2. CASE rows # {}
  <2>1. rows \in SUBSET (1 .. Len(ledger)) /\ Len(ledger) \in Nat
    BY DEF AccountTypes
  <2>2. \E i \in rows : \A j \in rows : j <= i
    <3> HIDE DEF rows
    <3> QED BY <1>2, <2>1, LastIs
  <2>3. last \in rows
    <3> HIDE DEF rows
    <3> QED BY <2>2
  <2>4. last \in DOMAIN ledger /\ ledger[last].code = c /\ ledger[last] \in LedgerRows
    BY <2>3 DEF AccountTypes
  <2> DEFINE f == ledger[last].filled
             a == Answer(f, FillStatus(f, q, "submitted"), NoOdno)
  <2>5. RefusedAnswer(c, q) = a
    BY <1>2 DEF RefusedAnswer
  <2>6. a.filled = f /\ a.odno = NoOdno /\ a.status = FillStatus(f, q, "submitted")
    BY DEF Answer
  <2>7. f \in Nat
    BY <2>4 DEF LedgerRows
  <2> HIDE DEF last
  <2>8. a \in Answers
    BY <2>7, ConstantsAre DEF Answer, Answers, FillStatus, Statuses
  <2> HIDE DEF a
  <2> QED BY <2>4, <2>5, <2>6, <2>8
<1> QED BY <1>1, <1>2

\* An exit is filled at once in some part, or refused.
LEMMA PlaceExitIs ==
  ASSUME AccountTypes, NEW c \in Codes, NEW q \in Nat, NEW r \in PlaceExit(c, q), Apply(r)
  PROVE  /\ r.answer \in Answers
         /\ \/ \E n \in IocFills(q) :
                 /\ SellFits(c, q) /\ r.answer.filled = n /\ n \in 0 .. q
                 /\ ledger' = Append(ledger, LedgerRow(c, "sell", q, n, FALSE, 0))
                 /\ held' = [held EXCEPT ![c] = @ - n]
            \/ /\ r.answer = RefusedAnswer(c, q) /\ SellRefusable(c, q, "exitReject")
               /\ ledger' = ledger /\ held' = held
<1>1. held' = r.held /\ ledger' = r.ledger
  BY DEF Apply
<1> DEFINE filled(n) == Result(Answer(n, FillStatus(n, q, "submitted"), NextOdno),
                               Append(ledger, LedgerRow(c, "sell", q, n, FALSE, 0)),
                               [held EXCEPT ![c] = @ - n])
<1>2. \/ \E n \in IocFills(q) : r = filled(n) /\ SellFits(c, q)
      \/ r = Unchanged(RefusedAnswer(c, q)) /\ SellRefusable(c, q, "exitReject")
  BY DEF PlaceExit, When
<1>3. ASSUME NEW n \in IocFills(q), r = filled(n), SellFits(c, q)
      PROVE  /\ SellFits(c, q) /\ r.answer.filled = n /\ n \in 0 .. q /\ r.answer \in Answers
             /\ ledger' = Append(ledger, LedgerRow(c, "sell", q, n, FALSE, 0))
             /\ held' = [held EXCEPT ![c] = @ - n]
  <2>1. n \in 0 .. q
    BY <1>3 DEF IocFills
  <2>2. /\ r.answer = Answer(n, FillStatus(n, q, "submitted"), NextOdno)
        /\ r.ledger = Append(ledger, LedgerRow(c, "sell", q, n, FALSE, 0))
        /\ r.held = [held EXCEPT ![c] = @ - n]
    BY <1>3 DEF Result
  <2>3. r.answer.filled = n /\ r.answer \in Answers
    BY <2>1, <2>2, NextOdnoIs DEF Answer, Answers, FillStatus, Statuses
  <2> QED BY <1>1, <1>3, <2>1, <2>2, <2>3
<1>4. CASE r = Unchanged(RefusedAnswer(c, q)) /\ SellRefusable(c, q, "exitReject")
  BY <1>1, <1>4, RefusedAnswerIs DEF Unchanged, Result
<1> HIDE DEF filled
<1> QED BY <1>2, <1>3, <1>4

\* An entry is filled at once in some part, or refused.
LEMMA PlaceEntryIs ==
  ASSUME AccountTypes, NEW c \in Codes, NEW q \in Nat, NEW r \in PlaceEntry(c, q), Apply(r)
  PROVE  /\ r.answer \in Answers
         /\ \/ \E n \in IocFills(q) :
                 /\ session = "open" /\ r.answer.filled = n /\ n \in 0 .. q
                 /\ ledger' = Append(ledger, LedgerRow(c, "buy", q, n, FALSE, 0))
                 /\ held' = [held EXCEPT ![c] = @ + n]
            \/ /\ r.answer = RefusedAnswer(c, q) /\ (session # "open" \/ "buyReject" \in Faults)
               /\ ledger' = ledger /\ held' = held
<1>1. held' = r.held /\ ledger' = r.ledger
  BY DEF Apply
<1> DEFINE filled(n) == Result(Answer(n, FillStatus(n, q, "cancelled"), NextOdno),
                               Append(ledger, LedgerRow(c, "buy", q, n, FALSE, 0)),
                               [held EXCEPT ![c] = @ + n])
<1>2. \/ \E n \in IocFills(q) : r = filled(n) /\ session = "open"
      \/ r = Unchanged(RefusedAnswer(c, q)) /\ (session # "open" \/ "buyReject" \in Faults)
  BY DEF PlaceEntry, When
<1>3. ASSUME NEW n \in IocFills(q), r = filled(n), session = "open"
      PROVE  /\ session = "open" /\ r.answer.filled = n /\ n \in 0 .. q /\ r.answer \in Answers
             /\ ledger' = Append(ledger, LedgerRow(c, "buy", q, n, FALSE, 0))
             /\ held' = [held EXCEPT ![c] = @ + n]
  <2>1. n \in 0 .. q
    BY <1>3 DEF IocFills
  <2>2. /\ r.answer = Answer(n, FillStatus(n, q, "cancelled"), NextOdno)
        /\ r.ledger = Append(ledger, LedgerRow(c, "buy", q, n, FALSE, 0))
        /\ r.held = [held EXCEPT ![c] = @ + n]
    BY <1>3 DEF Result
  <2>3. r.answer.filled = n /\ r.answer \in Answers
    BY <2>1, <2>2, NextOdnoIs DEF Answer, Answers, FillStatus, Statuses
  <2> QED BY <1>1, <1>3, <2>1, <2>2, <2>3
<1>4. CASE r = Unchanged(RefusedAnswer(c, q)) /\ (session # "open" \/ "buyReject" \in Faults)
  BY <1>1, <1>4, RefusedAnswerIs DEF Unchanged, Result
<1> HIDE DEF filled
<1> QED BY <1>2, <1>3, <1>4

-----------------------------------------------------------------------------
(* The steps, by what they leave alone.                                    *)

Nature == StopTrigger \/ Close \/ NewDay
Others == Release \/ Crash

CycleLooks ==
  \/ Quiet /\ (GateHalts \/ \E plan \in SUBSET Codes : GatePasses(plan))
  \/ \E c \in Codes : HoldPosition(c)
  \/ ExitsDone \/ CycleEnds

CycleCalls ==
  \/ \E c \in Codes : \/ \E level \in Levels : RaiseBrokerStop(c, level)
                      \/ SendExit(c) \/ SendEntry(c)
  \/ RegisterStop

CycleBooks ==
  \/ RecordRevision \/ RaiseBookStop \/ RecordExit \/ RecordExitOutcome \/ SettleExit
  \/ RecordEntry \/ BookEntry \/ RecordStop \/ LinkStop

WatchLooks ==
  \/ Quiet /\ (WatchStarts \/ WatchNothing)
  \/ FetchDailyOrders \/ WatchAborts \/ SettlementDone \/ RegistrationDone \/ WatchEnds

WatchCalls == \E c \in Codes : RegisterMissing(c) \/ ReviseStale(c)

WatchBooks ==
  \/ \E c \in Codes : MarkFilled(c)
  \/ RecordStopHit \/ SettlePosition
  \/ RecordRegistered \/ ExpireOldStop \/ LinkRegistered \/ RecordStaleRevision

\* What each kind of step leaves alone.
LEMMA EveryStep ==
  ASSUME [Next]_vars
  PROVE  \/ Nature /\ UNCHANGED <<bookVars, cyc, safeStop, watch, crashes>>
         \/ Others /\ UNCHANGED <<kisVars, clock, bookVars, cycled, swept>>
         \/ CycleLooks /\ UNCHANGED <<kisVars, clock, bookVars, watchVars, crashes>>
         \/ CycleCalls /\ UNCHANGED <<clock, bookVars, cycled, safeStop, watchVars, crashes>>
         \/ CycleBooks /\ UNCHANGED <<kisVars, clock, cycled, safeStop, watchVars, crashes>>
         \/ WatchLooks /\ UNCHANGED <<kisVars, clock, bookVars, cycleVars, crashes>>
         \/ WatchCalls /\ UNCHANGED <<clock, bookVars, cycleVars, swept, crashes>>
         \/ WatchBooks /\ UNCHANGED <<kisVars, clock, cycleVars, swept, crashes>>
         \/ UNCHANGED vars
<1>1. CASE StopTrigger \/ Close \/ NewDay
  BY <1>1 DEF Nature, StopTrigger, Close, NewDay, cycleVars, watchVars
<1>2. CASE Release \/ Crash
  BY <1>2 DEF Others, Release, Crash, ReleaseSafeStop, watchVars
<1>3. CASE CycleStarts
  BY <1>3 DEF CycleStarts, CycleLooks, GateHalts, GatePasses
<1>4. CASE CycleRuns
  <2>1. CASE (\E c \in Codes : HoldPosition(c)) \/ ExitsDone \/ CycleEnds
    BY <1>4, <2>1 DEF CycleRuns, CycleLooks, HoldPosition, ExitsDone, CycleEnds
  <2>2. CASE CycleCalls
    BY <1>4, <2>2 DEF CycleRuns, CycleCalls, RaiseBrokerStop, SendExit, SendEntry, RegisterStop
  <2>3. CASE CycleBooks
    BY <1>4, <2>3 DEF CycleRuns, CycleBooks, RecordRevision, RaiseBookStop, RecordExit,
       RecordExitOutcome, SettleExit, RecordEntry, BookEntry, RecordStop, LinkStop
  <2> QED BY <1>4, <2>1, <2>2, <2>3 DEF CycleRuns, CycleStep, CycleCalls, CycleBooks
<1>5. CASE WatchBegins
  BY <1>5 DEF WatchBegins, WatchLooks, WatchStarts, WatchNothing
<1>6. CASE WatchRuns
  <2>1. CASE FetchDailyOrders \/ WatchAborts \/ SettlementDone \/ RegistrationDone \/ WatchEnds
    BY <1>6, <2>1 DEF WatchRuns, WatchLooks, FetchDailyOrders, WatchAborts, SettlementDone,
       RegistrationDone, WatchEnds
  <2>2. CASE WatchCalls
    BY <1>6, <2>2 DEF WatchRuns, WatchCalls, RegisterMissing, ReviseStale
  <2>3. CASE WatchBooks
    BY <1>6, <2>3 DEF WatchRuns, WatchBooks, MarkFilled, RecordStopHit, SettlePosition,
       RecordRegistered, ExpireOldStop, LinkRegistered, RecordStaleRevision
  <2> QED BY <1>6, <2>1, <2>2, <2>3 DEF WatchRuns, WatchGoesOn, WatchCalls, WatchBooks
<1>7. CASE UNCHANGED vars
  BY <1>7
<1> QED BY <1>1, <1>2, <1>3, <1>4, <1>5, <1>6, <1>7 DEF Next

-----------------------------------------------------------------------------
(* The account.                                                            *)

\* A row of the ledger.
LEMMA RowIs ==
  ASSUME NEW c \in Codes, NEW kind \in {"buy", "sell", "stop"}, NEW q \in Nat, NEW n \in Nat,
         NEW live \in BOOLEAN, NEW t \in Stops
  PROVE  LedgerRow(c, kind, q, n, live, t) \in LedgerRows
BY DEF LedgerRow, LedgerRows

\* What a row of the loaded positions holds.
LEMMA LoadedIs ==
  ASSUME watch \in WatchStates, NEW c \in DOMAIN watch.rows
  PROVE  watch.rows[c] \in LoadedRows /\ c \in Codes
<1>1. watch.rows \in UNION {[C -> LoadedRows] : C \in SUBSET Codes}
  BY DEF WatchStates
<1>2. PICK C \in SUBSET Codes : watch.rows \in [C -> LoadedRows]
  BY <1>1
<1> QED BY <1>2

\* A triggered stop.
LEMMA TriggerIs ==
  ASSUME AccountTypes, NEW i \in DOMAIN ledger, NEW n \in 1 .. Lot, StopTriggers(i, n)
  PROVE  LET row == ledger[i]
         IN  /\ row.live /\ row.kind = "stop" /\ row.code \in Codes /\ session = "open"
             /\ n \in PartFills(Remaining(row)) /\ n <= held[row.code] /\ n \in Nat \ {0}
             /\ n <= Remaining(row) \/ Remaining(row) <= 0
             /\ held' = [held EXCEPT ![row.code] = held[row.code] - n]
             /\ ledger' \in Seq(LedgerRows) /\ Len(ledger') = Len(ledger)
             /\ DOMAIN ledger' = DOMAIN ledger
             /\ \A j \in DOMAIN ledger \ {i} : ledger'[j] = ledger[j]
             /\ ledger'[i].code = row.code /\ ledger'[i].kind = row.kind
             /\ ledger'[i].qty = row.qty /\ ledger'[i].trig = row.trig
             /\ ledger'[i].filled = row.filled + n
             /\ ledger'[i].live = (n < Remaining(row))
             /\ UNCHANGED <<session, day>>
<1> DEFINE row == ledger[i]
           m == row.filled + n
           b == n < Remaining(row)
           new == [row EXCEPT !.filled = m, !.live = b]
<1>1. row \in LedgerRows
  BY DEF AccountTypes
<1>2. m \in Nat /\ b \in BOOLEAN
  BY <1>1 DEF LedgerRows
<1>5. ledger' = [ledger EXCEPT ![i] = new]
  BY <1>1 DEF StopTriggers
<1>3. new \in LedgerRows
  <2> HIDE DEF row, m, b
  <2> QED BY <1>1, <1>2 DEF LedgerRows
<1>4. /\ new.code = row.code /\ new.kind = row.kind /\ new.qty = row.qty /\ new.trig = row.trig
      /\ new.filled = m /\ new.live = b
  <2> HIDE DEF row, m, b
  <2> QED BY <1>1 DEF LedgerRows
<1>6. row.live /\ row.kind = "stop" /\ row.code \in Codes /\ session = "open"
  BY <1>1 DEF StopTriggers, LedgerRows
<1>7. /\ n \in PartFills(Remaining(row)) /\ n <= held[row.code]
      /\ held' = [held EXCEPT ![row.code] = held[row.code] - n]
      /\ UNCHANGED <<session, day>>
  BY DEF StopTriggers
<1>8. n <= Remaining(row) \/ Remaining(row) <= 0
  <2>1. row.qty \in Nat /\ row.filled \in Nat
    BY <1>1 DEF LedgerRows
  <2> QED BY <1>7, <2>1 DEF PartFills, Remaining
<1>9. n \in Nat \ {0}
  BY ConstantsAre
<1>10. ledger \in Seq(LedgerRows)
  BY DEF AccountTypes
<1> HIDE DEF row, new
<1>11. /\ ledger' \in Seq(LedgerRows) /\ Len(ledger') = Len(ledger) /\ DOMAIN ledger' = DOMAIN ledger
       /\ ledger'[i] = new /\ \A j \in DOMAIN ledger \ {i} : ledger'[j] = ledger[j]
  BY <1>3, <1>5, <1>10, ChangeIs
<1> QED BY <1>4, <1>6, <1>7, <1>8, <1>9, <1>11 DEF row, m, b

\* The close of the market.
LEMMA CloseIs ==
  ASSUME AccountTypes, MarketCloses
  PROVE  /\ session = "open" /\ session' = "closed" /\ UNCHANGED <<held, day>>
         /\ ledger' \in Seq(LedgerRows) /\ Len(ledger') = Len(ledger) /\ DOMAIN ledger' = DOMAIN ledger
         /\ \A i \in DOMAIN ledger :
              /\ ledger'[i].code = ledger[i].code /\ ledger'[i].kind = ledger[i].kind
              /\ ledger'[i].qty = ledger[i].qty /\ ledger'[i].filled = ledger[i].filled
              /\ ledger'[i].trig = ledger[i].trig /\ ledger'[i].live = FALSE
<1>1. ledger \in Seq(LedgerRows)
  BY DEF AccountTypes
<1>2. ledger' = [i \in DOMAIN ledger |-> [ledger[i] EXCEPT !.live = FALSE]]
  BY DEF MarketCloses
<1>3. \A i \in DOMAIN ledger : ledger[i] \in LedgerRows
  BY <1>1
<1>4. \A i \in DOMAIN ledger :
        /\ ledger'[i] \in LedgerRows
        /\ ledger'[i].code = ledger[i].code /\ ledger'[i].kind = ledger[i].kind
        /\ ledger'[i].qty = ledger[i].qty /\ ledger'[i].filled = ledger[i].filled
        /\ ledger'[i].trig = ledger[i].trig /\ ledger'[i].live = FALSE
  BY <1>2, <1>3 DEF LedgerRows
<1>5. DOMAIN ledger = 1 .. Len(ledger) /\ Len(ledger) \in Nat /\ DOMAIN ledger' = DOMAIN ledger
  BY <1>1, <1>2
<1>6. ledger' \in [1 .. Len(ledger) -> LedgerRows]
  BY <1>2, <1>4, <1>5
<1>7. ledger' \in Seq(LedgerRows) /\ Len(ledger') = Len(ledger)
  BY <1>5, <1>6
<1> QED BY <1>4, <1>5, <1>7 DEF MarketCloses

\* A new order at the end of the ledger.
LEMMA LedgerGrows ==
  ASSUME AccountTypes, NEW row \in LedgerRows, ledger' = Append(ledger, row),
         row.live => row.kind = "stop", row.filled <= row.qty, FillsKept,
         held' \in [Codes -> Nat], UNCHANGED <<session, day>>
  PROVE  AccountTypes' /\ FillsKept'
<1>1. ledger \in Seq(LedgerRows)
  BY DEF AccountTypes
<1>2. /\ ledger' \in Seq(LedgerRows) /\ DOMAIN ledger' = DOMAIN ledger \cup {Len(ledger) + 1}
      /\ \A i \in DOMAIN ledger : ledger'[i] = ledger[i]
      /\ ledger'[Len(ledger) + 1] = row
  BY <1>1, AppendIs
<1>3. \A i \in DOMAIN ledger' : ledger'[i].live => ledger'[i].kind = "stop"
  BY <1>2 DEF AccountTypes
<1>4. FillsKept'
  BY <1>2 DEF FillsKept
<1> QED BY <1>2, <1>3, <1>4 DEF AccountTypes

\* What a revision does to the ledger: the old order is no longer live, and the new one
\* is live with the rest.
LEMMA RevisedIs ==
  ASSUME AccountTypes, FillsKept, NEW c \in Codes, NEW j \in DOMAIN ledger, NEW t \in Stops,
         ledger' = Append([ledger EXCEPT ![j].live = FALSE],
                          LedgerRow(c, "stop", Remaining(ledger[j]), 0, TRUE, t))
  PROVE  /\ ledger' \in Seq(LedgerRows)
         /\ DOMAIN ledger' = DOMAIN ledger \cup {Len(ledger) + 1} /\ Len(ledger) + 1 \notin DOMAIN ledger
         /\ \A i \in DOMAIN ledger \ {j} : ledger'[i] = ledger[i]
         /\ ledger'[j].code = ledger[j].code /\ ledger'[j].kind = ledger[j].kind
         /\ ledger'[j].qty = ledger[j].qty /\ ledger'[j].filled = ledger[j].filled
         /\ ledger'[j].trig = ledger[j].trig /\ ledger'[j].live = FALSE
         /\ Remaining(ledger[j]) \in Nat
         /\ ledger'[Len(ledger) + 1] = LedgerRow(c, "stop", Remaining(ledger[j]), 0, TRUE, t)
         /\ ledger'[Len(ledger) + 1] \in LedgerRows
<1> DEFINE dead == [ledger[j] EXCEPT !.live = FALSE]
           row == LedgerRow(c, "stop", Remaining(ledger[j]), 0, TRUE, t)
           mid == [ledger EXCEPT ![j] = dead]
<1>1. ledger \in Seq(LedgerRows) /\ ledger[j] \in LedgerRows
  BY DEF AccountTypes
<1>2. /\ dead \in LedgerRows
      /\ dead.code = ledger[j].code /\ dead.kind = ledger[j].kind /\ dead.qty = ledger[j].qty
      /\ dead.filled = ledger[j].filled /\ dead.trig = ledger[j].trig /\ dead.live = FALSE
  BY <1>1 DEF LedgerRows
<1>3. Remaining(ledger[j]) \in Nat
  BY <1>1 DEF FillsKept, Remaining, LedgerRows
<1>4. row \in LedgerRows
  BY <1>3, RowIs
<1>5. ledger' = Append(mid, row)
  OBVIOUS
<1> HIDE DEF dead, row
<1>6. /\ mid \in Seq(LedgerRows) /\ Len(mid) = Len(ledger) /\ DOMAIN mid = DOMAIN ledger
      /\ mid[j] = dead /\ \A i \in DOMAIN ledger \ {j} : mid[i] = ledger[i]
  BY <1>1, <1>2, ChangeIs
<1> HIDE DEF mid
<1> DEFINE all == Append(mid, row)
<1>7. /\ all \in Seq(LedgerRows)
      /\ DOMAIN all = DOMAIN mid \cup {Len(mid) + 1} /\ Len(mid) + 1 \notin DOMAIN mid
      /\ \A i \in DOMAIN mid : all[i] = mid[i]
      /\ all[Len(mid) + 1] = row
  <2> HIDE DEF all
  <2>1. row \in LedgerRows /\ mid \in Seq(LedgerRows)
    BY <1>4, <1>6
  <2> QED BY <2>1, AppendIs DEF all
<1>8. ledger' = all
  BY <1>5
<1> HIDE DEF all
<1> QED BY <1>2, <1>3, <1>4, <1>6, <1>7, <1>8 DEF row

\* A call that places a stop keeps the account well typed.
LEMMA PlaceStopTypes ==
  ASSUME AccountTypes, FillsKept, NEW c \in Codes, NEW q \in Nat, NEW t \in Stops,
         NEW r \in PlaceStop(c, q, t), Apply(r), UNCHANGED clock
  PROVE  AccountTypes' /\ FillsKept' /\ r.answer \in Answers
<1>1. CASE ledger' = Append(ledger, LedgerRow(c, "stop", q, 0, TRUE, t))
  <2> DEFINE row == LedgerRow(c, "stop", q, 0, TRUE, t)
  <2>1. row \in LedgerRows /\ row.kind = "stop" /\ row.filled <= row.qty
    <3>1. row.kind = "stop" /\ row.filled = 0 /\ row.qty = q
      BY DEF LedgerRow
    <3>2. row \in LedgerRows
      BY RowIs
    <3> HIDE DEF row
    <3> QED BY <3>1, <3>2
  <2>2. held' \in [Codes -> Nat]
    BY PlaceStopIs DEF AccountTypes
  <2> HIDE DEF row
  <2>3. AccountTypes' /\ FillsKept'
    BY <1>1, <2>1, <2>2, LedgerGrows DEF clock, row
  <2> QED BY <2>3, PlaceStopIs, AnswersAre
<1>2. CASE ledger' = ledger
  BY <1>2, PlaceStopIs, AnswersAre DEF AccountTypes, FillsKept, clock
<1> QED BY <1>1, <1>2, PlaceStopIs

\* So does a call that revises one.
LEMMA ReviseStopTypes ==
  ASSUME AccountTypes, FillsKept, NEW c \in Codes, NEW odno, NEW t \in Stops,
         NEW r \in ReviseStop(c, odno, t), Apply(r), UNCHANGED clock
  PROVE  AccountTypes' /\ FillsKept' /\ r.answer \in Answers
<1>1. CASE ledger' = ledger
  BY <1>1, ReviseStopIs, AnswersAre DEF AccountTypes, FillsKept, clock
<1>2. CASE ledger' # ledger
  <2> DEFINE j == odno[2]
  <2>1. /\ r.answer = Submitted /\ j \in DOMAIN ledger /\ held' = held
        /\ ledger' = Append([ledger EXCEPT ![j].live = FALSE],
                            LedgerRow(c, "stop", Remaining(ledger[j]), 0, TRUE, t))
    BY <1>2, ReviseStopIs DEF HasRow
  <2> HIDE DEF j
  <2> DEFINE row == LedgerRow(c, "stop", Remaining(ledger[j]), 0, TRUE, t)
  <2>2. /\ ledger' \in Seq(LedgerRows)
        /\ DOMAIN ledger' = DOMAIN ledger \cup {Len(ledger) + 1}
        /\ \A i \in DOMAIN ledger \ {j} : ledger'[i] = ledger[i]
        /\ ledger'[j].live = FALSE
        /\ ledger'[j].qty = ledger[j].qty /\ ledger'[j].filled = ledger[j].filled
        /\ Remaining(ledger[j]) \in Nat
        /\ ledger'[Len(ledger) + 1] = row
    BY <2>1, RevisedIs
  <2>3. row.kind = "stop" /\ row.filled <= row.qty
    BY <2>2 DEF LedgerRow
  <2> HIDE DEF row
  <2>4. \A i \in DOMAIN ledger' : ledger'[i].live => ledger'[i].kind = "stop"
    BY <2>2, <2>3 DEF AccountTypes
  <2>5. FillsKept'
    BY <2>2, <2>3 DEF FillsKept
  <2> QED BY <2>1, <2>2, <2>4, <2>5, AnswersAre DEF AccountTypes, clock
<1> QED BY <1>1, <1>2

\* So does an exit.
LEMMA PlaceExitTypes ==
  ASSUME AccountTypes, FillsKept, NEW c \in Codes, NEW q \in Nat,
         NEW r \in PlaceExit(c, q), Apply(r), UNCHANGED clock
  PROVE  AccountTypes' /\ FillsKept' /\ r.answer \in Answers
<1>1. CASE ledger' = ledger /\ held' = held
  BY <1>1, PlaceExitIs DEF AccountTypes, FillsKept, clock
<1>2. ASSUME NEW n \in 0 .. q, SellFits(c, q),
             ledger' = Append(ledger, LedgerRow(c, "sell", q, n, FALSE, 0)),
             held' = [held EXCEPT ![c] = @ - n]
      PROVE  AccountTypes' /\ FillsKept'
  <2> DEFINE row == LedgerRow(c, "sell", q, n, FALSE, 0)
  <2>1. row \in LedgerRows /\ ~row.live /\ row.filled <= row.qty
    <3>1. ~row.live /\ row.filled = n /\ row.qty = q
      BY DEF LedgerRow
    <3>2. row \in LedgerRows
      <4>1. n \in Nat
        OBVIOUS
      <4> QED BY <4>1, RowIs, ConstantsAre
    <3> HIDE DEF row
    <3> QED BY <3>1, <3>2
  <2>2. held' \in [Codes -> Nat]
    <3>1. held \in [Codes -> Nat] /\ held[c] - n \in Nat
      BY <1>2 DEF AccountTypes, SellFits
    <3> QED BY <1>2, <3>1
  <2> HIDE DEF row
  <2> QED BY <1>2, <2>1, <2>2, LedgerGrows DEF clock, row
<1> QED BY <1>1, <1>2, PlaceExitIs

\* So does an entry.
LEMMA PlaceEntryTypes ==
  ASSUME AccountTypes, FillsKept, NEW c \in Codes, NEW q \in Nat,
         NEW r \in PlaceEntry(c, q), Apply(r), UNCHANGED clock
  PROVE  AccountTypes' /\ FillsKept' /\ r.answer \in Answers
<1>1. CASE ledger' = ledger /\ held' = held
  BY <1>1, PlaceEntryIs DEF AccountTypes, FillsKept, clock
<1>2. ASSUME NEW n \in 0 .. q,
             ledger' = Append(ledger, LedgerRow(c, "buy", q, n, FALSE, 0)),
             held' = [held EXCEPT ![c] = @ + n]
      PROVE  AccountTypes' /\ FillsKept'
  <2> DEFINE row == LedgerRow(c, "buy", q, n, FALSE, 0)
  <2>1. row \in LedgerRows /\ ~row.live /\ row.filled <= row.qty
    <3>1. ~row.live /\ row.filled = n /\ row.qty = q
      BY DEF LedgerRow
    <3>2. row \in LedgerRows
      <4>1. n \in Nat
        OBVIOUS
      <4> QED BY <4>1, RowIs, ConstantsAre
    <3> HIDE DEF row
    <3> QED BY <3>1, <3>2
  <2>2. held' \in [Codes -> Nat]
    <3>1. held \in [Codes -> Nat] /\ held[c] + n \in Nat
      BY <1>2 DEF AccountTypes
    <3> QED BY <1>2, <3>1
  <2> HIDE DEF row
  <2> QED BY <1>2, <2>1, <2>2, LedgerGrows DEF clock, row
<1> QED BY <1>1, <1>2, PlaceEntryIs

\* What the cycle has read of a stock, and the watch.
LEMMA ReadIs ==
  ASSUME CycleTyped
  PROVE  \A c \in Codes : cyc.rows[c] \in Positions /\ cyc.rows[c].qty \in Nat
BY DEF CycleTyped, CycleStates, Positions

\* The same of what the watch has loaded.
LEMMA LoadedQty ==
  ASSUME WatchTyped, NEW c \in DOMAIN watch.rows
  PROVE  /\ watch.rows[c].qty \in Nat /\ watch.rows[c].stop \in Stops
         /\ watch.rows[c].active \in Nat /\ watch.rows[c].odno \in Odnos
         /\ watch.rows[c].trig \in Stops /\ watch.rows[c].pid \in 0 .. MaxDays
BY LoadedIs DEF WatchTyped, LoadedRows

\* The account is well typed after every step.
LEMMA AccountStep ==
  ASSUME CustodyInv, [Next]_vars
  PROVE  AccountTypes' /\ FillsKept'
<1> USE DEF CustodyInv
<1>1. CASE UNCHANGED <<kisVars, clock>>
  BY <1>1 DEF kisVars, clock, AccountTypes, FillsKept
<1>2. CASE Nature
  <2>1. ASSUME NEW i \in DOMAIN ledger, NEW n \in 1 .. Lot, StopTriggers(i, n)
        PROVE  AccountTypes' /\ FillsKept'
    <3>1. /\ ledger[i] \in LedgerRows /\ held \in [Codes -> Nat]
          /\ ledger[i].code \in Codes /\ held[ledger[i].code] \in Nat
      BY <2>1, TriggerIs DEF AccountTypes
    <3>2. held[ledger[i].code] - n \in Nat
      BY <2>1, <3>1, TriggerIs
    <3>3. held' \in [Codes -> Nat]
      BY <2>1, <3>1, <3>2, TriggerIs
    <3>4. n <= Remaining(ledger[i])
      BY <2>1, <3>1, TriggerIs DEF PartFills, Remaining, LedgerRows
    <3>5. ledger[i].filled + n <= ledger[i].qty
      BY <2>1, <3>1, <3>4 DEF Remaining, LedgerRows
    <3>6. FillsKept'
      BY <2>1, <3>5, TriggerIs DEF FillsKept
    <3> QED BY <2>1, <3>3, <3>6, TriggerIs DEF AccountTypes
  <2>2. CASE Close
    BY <2>2, CloseIs DEF Close, AccountTypes, FillsKept
  <2>3. CASE NewDay
    <3>1. ledger' = <<>> /\ held' = held /\ session' = "open" /\ day' = day + 1 /\ day < MaxDays
      BY <2>3 DEF NewDay, DayBegins
    <3> QED BY <3>1, ConstantsAre DEF AccountTypes, FillsKept
  <2> QED BY <1>2, <2>1, <2>2, <2>3 DEF Nature, StopTrigger
<1>3. CASE CycleCalls /\ UNCHANGED clock
  <2>1. ASSUME NEW c \in Codes, NEW level \in Levels, RaiseBrokerStop(c, level)
        PROVE  AccountTypes' /\ FillsKept'
    <3>1. CASE UNCHANGED <<ledger, held>>
      BY <1>3, <3>1 DEF AccountTypes, FillsKept, clock
    <3>2. ASSUME NEW odno, NEW r \in ReviseStop(c, odno, level), Apply(r)
          PROVE  AccountTypes' /\ FillsKept'
      BY <1>3, <3>2, ReviseStopTypes, ConstantsAre
    <3> QED BY <2>1, <3>1, <3>2 DEF RaiseBrokerStop, Unchanged, Result, Apply
  <2>2. ASSUME NEW c \in Codes, SendExit(c) PROVE AccountTypes' /\ FillsKept'
    BY <1>3, <2>2, PlaceExitTypes, ReadIs DEF SendExit
  <2>3. ASSUME NEW c \in Codes, SendEntry(c) PROVE AccountTypes' /\ FillsKept'
    BY <1>3, <2>3, PlaceEntryTypes, ConstantsAre DEF SendEntry
  <2>4. CASE RegisterStop
    <3>1. cyc.code \in Codes /\ cyc.n \in Nat
      BY <2>4 DEF RegisterStop, At, CycleTyped, CycleStates, CycleAtHand, CycleSteps
    <3> QED BY <1>3, <2>4, <3>1, PlaceStopTypes, ConstantsAre DEF RegisterStop
  <2> QED BY <1>3, <2>1, <2>2, <2>3, <2>4 DEF CycleCalls
<1>4. CASE WatchCalls /\ UNCHANGED clock
  <2>1. ASSUME NEW c \in Codes, RegisterMissing(c) PROVE AccountTypes' /\ FillsKept'
    <3>1. c \in DOMAIN watch.rows
      BY <2>1 DEF RegisterMissing, WatchTyped
    <3> QED BY <1>4, <2>1, <3>1, LoadedQty, PlaceStopTypes DEF RegisterMissing
  <2>2. ASSUME NEW c \in Codes, ReviseStale(c) PROVE AccountTypes' /\ FillsKept'
    <3>1. c \in DOMAIN watch.rows
      BY <2>2 DEF ReviseStale, WatchTyped
    <3>2. CASE UNCHANGED <<ledger, held>>
      BY <1>4, <3>2 DEF AccountTypes, FillsKept, clock
    <3>3. ASSUME NEW odno, NEW r \in ReviseStop(c, odno, watch.rows[c].stop), Apply(r)
          PROVE  AccountTypes' /\ FillsKept'
      BY <1>4, <3>1, <3>3, LoadedQty, ReviseStopTypes
    <3> QED BY <2>2, <3>2, <3>3 DEF ReviseStale, Unchanged, Result, Apply
  <2> QED BY <1>4, <2>1, <2>2 DEF WatchCalls
<1> QED BY <1>1, <1>2, <1>3, <1>4, EveryStep DEF vars, kisVars, clock

-----------------------------------------------------------------------------
(* The book.                                                               *)

\* A recorded order is the last row.
LEMMA RecordOrderIs ==
  ASSUME AccountTypes, BookTypes, NEW c \in Codes, NEW purpose \in {"entry", "exit", "stop"},
         NEW q \in Nat, NEW t \in Stops, NEW answer \in Answers,
         RecordOrder(c, purpose, q, t, answer)
  PROVE  /\ orders' \in Seq(OrderRows) /\ Len(orders) + 1 \notin DOMAIN orders
         /\ DOMAIN orders' = DOMAIN orders \cup {Len(orders) + 1} /\ Len(orders) + 1 \in Nat
         /\ \A i \in DOMAIN orders : orders'[i] = orders[i]
         /\ orders'[Len(orders) + 1] =
              [code |-> c, purpose |-> purpose, pid |-> day, qty |-> q, trig |-> t,
               filled |-> answer.filled, odno |-> answer.odno, status |-> answer.status]
<1> DEFINE row == [code |-> c, purpose |-> purpose, pid |-> day, qty |-> q, trig |-> t,
                   filled |-> answer.filled, odno |-> answer.odno, status |-> answer.status]
<1>1. row \in OrderRows
  BY DEF AccountTypes, Answers, OrderRows
<1>2. orders' = Append(orders, row) /\ orders \in Seq(OrderRows)
  BY DEF RecordOrder, BookTypes
<1> HIDE DEF row
<1>3. /\ orders' \in Seq(OrderRows) /\ Len(orders) + 1 \notin DOMAIN orders
      /\ DOMAIN orders' = DOMAIN orders \cup {Len(orders) + 1} /\ Len(orders) + 1 \in Nat
      /\ \A i \in DOMAIN orders : orders'[i] = orders[i]
      /\ orders'[Len(orders) + 1] = row
  BY <1>1, <1>2, AppendIs
<1> QED BY <1>3 DEF row

\* What a later write leaves of an order.
Rewritten(id) ==
  /\ orders' \in Seq(OrderRows) /\ DOMAIN orders' = DOMAIN orders
  /\ \A i \in DOMAIN orders \ {id} : orders'[i] = orders[i]
  /\ orders'[id].code = orders[id].code /\ orders'[id].purpose = orders[id].purpose
  /\ orders'[id].pid = orders[id].pid /\ orders'[id].qty = orders[id].qty

\* A revision changes the trigger and the number of a stop.
LEMMA RevisionIs ==
  ASSUME BookTypes, NEW id \in DOMAIN orders, NEW t \in Stops, NEW odno \in Odnos,
         RecordStopRevision(id, t, odno)
  PROVE  /\ Rewritten(id) /\ orders'[id].trig = t /\ orders'[id].filled = orders[id].filled
         /\ orders'[id].odno = IF odno = NoOdno THEN orders[id].odno ELSE odno
<1> DEFINE row == orders[id]
           o == IF odno = NoOdno THEN row.odno ELSE odno
           new == [row EXCEPT !.trig = t, !.odno = o]
<1>1. orders \in Seq(OrderRows) /\ row \in OrderRows
  BY DEF BookTypes
<1>2. orders' = [orders EXCEPT ![id] = new]
  BY <1>1 DEF RecordStopRevision
<1>3. o \in Odnos
  BY <1>1 DEF OrderRows
<1> HIDE DEF o
<1>4. /\ new \in OrderRows /\ new.code = row.code /\ new.purpose = row.purpose
      /\ new.pid = row.pid /\ new.qty = row.qty /\ new.filled = row.filled
      /\ new.trig = t /\ new.odno = o
  BY <1>1, <1>3 DEF OrderRows
<1> HIDE DEF new
<1>5. /\ orders' \in Seq(OrderRows) /\ DOMAIN orders' = DOMAIN orders
      /\ orders'[id] = new /\ \A i \in DOMAIN orders \ {id} : orders'[i] = orders[i]
  BY <1>1, <1>2, <1>4, ChangeIs
<1> QED BY <1>4, <1>5 DEF o, Rewritten

\* A fill changes what is filled and the status.
LEMMA FillIs ==
  ASSUME BookTypes, NEW id \in DOMAIN orders, NEW n \in Nat, NEW status \in Statuses,
         MarkOrderFilled(id, n, status)
  PROVE  /\ Rewritten(id) /\ orders'[id].trig = orders[id].trig
         /\ orders'[id].filled = n /\ orders'[id].odno = orders[id].odno
<1> DEFINE row == orders[id]
           new == [row EXCEPT !.filled = n, !.status = status]
<1>1. orders \in Seq(OrderRows) /\ row \in OrderRows
  BY DEF BookTypes
<1>2. orders' = [orders EXCEPT ![id] = new]
  BY <1>1 DEF MarkOrderFilled
<1>3. /\ new \in OrderRows /\ new.code = row.code /\ new.purpose = row.purpose
      /\ new.pid = row.pid /\ new.qty = row.qty /\ new.filled = n
      /\ new.trig = row.trig /\ new.odno = row.odno
  BY <1>1 DEF OrderRows
<1> HIDE DEF new
<1>4. /\ orders' \in Seq(OrderRows) /\ DOMAIN orders' = DOMAIN orders
      /\ orders'[id] = new /\ \A i \in DOMAIN orders \ {id} : orders'[i] = orders[i]
  BY <1>1, <1>2, <1>3, ChangeIs
<1> QED BY <1>3, <1>4 DEF Rewritten

\* The expiry of an old stop changes the status only.
LEMMA ExpiryIs ==
  ASSUME BookTypes, NEW id \in DOMAIN orders, CloseExpiredStop(id)
  PROVE  /\ Rewritten(id) /\ orders'[id].trig = orders[id].trig
         /\ orders'[id].filled = orders[id].filled /\ orders'[id].odno = orders[id].odno
<1> DEFINE row == orders[id]
           status == IF row.status \in {"submitted", "partial"} THEN "cancelled" ELSE row.status
           new == [row EXCEPT !.status = status]
<1>1. orders \in Seq(OrderRows) /\ row \in OrderRows
  BY DEF BookTypes
<1>2. orders' = [orders EXCEPT ![id] = new]
  BY <1>1 DEF CloseExpiredStop
<1>3. status \in Statuses
  BY <1>1 DEF OrderRows, Statuses
<1> HIDE DEF status
<1>4. /\ new \in OrderRows /\ new.code = row.code /\ new.purpose = row.purpose
      /\ new.pid = row.pid /\ new.qty = row.qty /\ new.filled = row.filled
      /\ new.trig = row.trig /\ new.odno = row.odno
  BY <1>1, <1>3 DEF OrderRows
<1> HIDE DEF new
<1>5. /\ orders' \in Seq(OrderRows) /\ DOMAIN orders' = DOMAIN orders
      /\ orders'[id] = new /\ \A i \in DOMAIN orders \ {id} : orders'[i] = orders[i]
  BY <1>1, <1>2, <1>4, ChangeIs
<1> QED BY <1>4, <1>5 DEF Rewritten

-----------------------------------------------------------------------------
(* The steps of the cycle.                                                 *)

CycleTo(pc, c, n, id, answer) ==
  /\ cyc' \in CycleStates
  /\ cyc'.pc = pc /\ cyc'.todo = cyc.todo /\ cyc'.plan = cyc.plan /\ cyc'.rows = cyc.rows
  /\ cyc'.code = c /\ cyc'.n = n /\ cyc'.id = id /\ cyc'.answer = answer

CycleBack(pc, c) ==
  /\ cyc' \in CycleStates
  /\ cyc'.pc = pc /\ cyc'.todo = cyc.todo \ {c} /\ cyc'.plan = cyc.plan /\ cyc'.rows = cyc.rows
  /\ cyc'.code = NoCode /\ cyc'.n = 0 /\ cyc'.id = 0 /\ cyc'.answer = NoAnswer

\* The cycle goes on with a stock at hand.
LEMMA GoToIs ==
  ASSUME CycleTyped, NEW pc \in CycleSteps, NEW c \in Codes, NEW n \in Nat, NEW id \in Nat,
         NEW answer \in Answers, GoTo(pc, c, n, id, answer)
  PROVE  CycleTo(pc, c, n, id, answer)
BY DEF CycleTyped, GoTo, CycleTo, CycleStates

\* The cycle is done with a stock.
LEMMA BackIs ==
  ASSUME CycleTyped, NEW pc \in CycleSteps, NEW c, Back(pc, c)
  PROVE  CycleBack(pc, c)
BY ConstantsAre DEF CycleTyped, Back, CycleState, CycleBack, CycleStates

\* The fresh state of a process.
LEMMA FreshCycle ==
  ASSUME NEW pc \in CycleSteps, NEW todo \in SUBSET Codes, NEW plan \in SUBSET Codes,
         NEW rows \in [Codes -> Positions], cyc' = CycleState(pc, todo, plan, rows)
  PROVE  /\ cyc' \in CycleStates
         /\ cyc'.pc = pc /\ cyc'.todo = todo /\ cyc'.plan = plan /\ cyc'.rows = rows
         /\ cyc'.code = NoCode /\ cyc'.n = 0 /\ cyc'.id = 0 /\ cyc'.answer = NoAnswer
BY ConstantsAre DEF CycleState, CycleStates

\* One position changes.
Changed(c) ==
  /\ pos' \in [Codes -> Positions]
  /\ \A d \in Codes \ {c} : pos'[d] = pos[d]

\* Where the cycle is when a stock is at hand.
LEMMA AtHandIs ==
  ASSUME CycleTyped, cyc.pc \in CycleAtHand
  PROVE  /\ cyc.code \in Codes /\ cyc.code \in cyc.todo /\ cyc.n \in Nat /\ cyc.id \in Nat
         /\ cyc.answer \in Answers /\ cyc.answer.odno \in Odnos /\ cyc.answer.filled \in Nat
         /\ session = "open" /\ watch.pc = "idle" /\ cycled
BY DEF CycleTyped, CycleStates, CycleAtHand, Answers

\* A position and its linked order.
LEMMA PositionIs ==
  ASSUME BookTypes, PositionsKept, NEW c \in Codes
  PROVE  /\ pos[c] \in Positions /\ pos[c].qty \in Nat /\ pos[c].stop \in Stops
         /\ pos[c].active \in Nat /\ pos[c].pid \in 0 .. MaxDays /\ pos[c].open \in BOOLEAN
         /\ pos[c].active # 0 => /\ pos[c].active \in DOMAIN orders
                                 /\ orders[pos[c].active] \in OrderRows
                                 /\ orders[pos[c].active].odno \in Odnos
<1>1. pos[c] \in Positions
  BY DEF BookTypes
<1>2. /\ pos[c].qty \in Nat /\ pos[c].stop \in Stops /\ pos[c].active \in Nat
      /\ pos[c].pid \in 0 .. MaxDays /\ pos[c].open \in BOOLEAN
  BY <1>1 DEF Positions
<1>3. ASSUME pos[c].active # 0
      PROVE  /\ pos[c].active \in DOMAIN orders /\ orders[pos[c].active] \in OrderRows
             /\ orders[pos[c].active].odno \in Odnos
  <2>1. pos[c].active \in DOMAIN orders
    BY <1>3 DEF PositionsKept, StopOf
  <2>2. orders[pos[c].active] \in OrderRows
    BY <2>1 DEF BookTypes
  <2> QED BY <2>1, <2>2 DEF OrderRows
<1> QED BY <1>1, <1>2, <1>3

\* The read of the account and the book, by a cycle that may go on.
LEMMA GatePassesIs ==
  ASSUME CustodyInv, NEW plan \in SUBSET Codes, Quiet, GatePasses(plan)
  PROVE  /\ cyc' \in CycleStates /\ cyc'.pc = "exits" /\ cyc'.todo = OpenCodes
         /\ cyc'.plan \subseteq plan /\ cyc'.rows = pos /\ cyc'.code = NoCode
         /\ cyc'.n = 0 /\ cyc'.id = 0 /\ cyc'.answer = NoAnswer
         /\ cyc.pc = "idle" /\ watch.pc = "idle" /\ session = "open" /\ ~cycled /\ cycled'
         /\ BookBalances /\ \A c \in plan : held[c] = 0
         /\ UNCHANGED <<safeStop, kisVars, bookVars>>
<1> DEFINE bought == IF safeStop THEN {} ELSE plan
<1>1. cyc' = CycleState("exits", OpenCodes, bought, pos)
  BY DEF GatePasses
<1>2. OpenCodes \subseteq Codes /\ bought \subseteq plan /\ pos \in [Codes -> Positions]
  BY DEF OpenCodes, CustodyInv, BookTypes
<1>3. "exits" \in CycleSteps
  BY DEF CycleSteps
<1> HIDE DEF bought
<1>4. /\ cyc' \in CycleStates /\ cyc'.pc = "exits" /\ cyc'.todo = OpenCodes
      /\ cyc'.plan = bought /\ cyc'.rows = pos /\ cyc'.code = NoCode
      /\ cyc'.n = 0 /\ cyc'.id = 0 /\ cyc'.answer = NoAnswer
  BY <1>1, <1>2, <1>3, FreshCycle
<1> QED BY <1>2, <1>4 DEF GatePasses, Quiet, At

\* A holding is kept as it is.
LEMMA HoldPositionIs ==
  ASSUME CustodyInv, NEW c \in Codes, HoldPosition(c)
  PROVE  cyc.pc = "exits" /\ c \in cyc.todo /\ CycleBack("exits", c)
BY BackIs DEF CustodyInv, HoldPosition, At, CycleSteps

\* The cycle asks KIS to raise a stop.
LEMMA RaiseBrokerStopIs ==
  ASSUME CustodyInv, NEW c \in Codes, NEW level \in Levels, RaiseBrokerStop(c, level)
  PROVE  LET id == pos[c].active
             odno == orders[id].odno
         IN  /\ cyc.pc = "exits" /\ c \in cyc.todo /\ level > pos[c].stop /\ level \in Stops
             /\ held' = held
             /\ \/ /\ CycleTo("raise", c, level, id, Rejected) /\ ledger' = ledger
                   /\ id # 0 /\ odno # NoOdno => ~IsLive(odno) \/ "stopReject" \in Faults
                \/ /\ CycleTo("revised", c, level, id, Submitted) /\ id \in DOMAIN orders
                   /\ HasRow(ledger, odno) /\ odno[2] \in DOMAIN ledger /\ odno = <<day, odno[2]>>
                   /\ ledger[odno[2]].live
                   /\ ledger' = Append([ledger EXCEPT ![odno[2]].live = FALSE],
                                  LedgerRow(c, "stop", Remaining(ledger[odno[2]]), 0, TRUE, level))
<1> USE DEF CustodyInv
<1> DEFINE id == pos[c].active
           odno == orders[id].odno
<1>1. cyc.pc = "exits" /\ c \in cyc.todo /\ level > cyc.rows[c].stop
  BY DEF RaiseBrokerStop, At
<1>2. pos[c] = cyc.rows[c] /\ session = "open"
  BY <1>1 DEF CycleReads, CycleTyped, ExitPhase
<1>3. level > pos[c].stop /\ level \in Stops /\ level \in Nat
  BY <1>1, <1>2, ConstantsAre DEF Levels
<1>4. PICK r \in IF id = 0 \/ odno = NoOdno THEN {Unchanged(Rejected)}
                 ELSE ReviseStop(c, odno, level) :
        /\ Apply(r)
        /\ GoTo(IF r.answer = Rejected THEN "raise" ELSE "revised", c, level, id, r.answer)
  BY DEF RaiseBrokerStop
<1>5. id \in Nat
  BY PositionIs
<1>6. {"raise", "revised"} \subseteq CycleSteps
  BY DEF CycleSteps
<1>7. CASE id = 0 \/ odno = NoOdno
  <2>1. r.answer = Rejected /\ ledger' = ledger /\ held' = held
    BY <1>4, <1>7 DEF Unchanged, Result, Apply
  <2>2. CycleTo("raise", c, level, id, Rejected)
    BY <1>3, <1>4, <1>5, <1>6, <2>1, AnswersAre, GoToIs
  <2> QED BY <1>1, <1>3, <1>7, <2>1, <2>2
<1>8. CASE ~(id = 0 \/ odno = NoOdno)
  <2>1. r \in ReviseStop(c, odno, level)
    BY <1>4, <1>8
  <2>2. id \in DOMAIN orders /\ odno \in Odnos
    BY <1>8, PositionIs
  <2> HIDE DEF odno
  <2>3. CASE r.answer = Rejected
    <3>1. ledger' = ledger /\ held' = held
      BY <1>2, <1>3, <1>4, <2>1, <2>3, ReviseStopIs, AnswersAre
    <3>2. ~IsLive(odno) \/ "stopReject" \in Faults
      BY <1>2, <1>3, <1>4, <2>1, <2>3, ReviseStopIs, AnswersAre
    <3>3. CycleTo("raise", c, level, id, Rejected)
      BY <1>3, <1>4, <1>5, <1>6, <2>3, AnswersAre, GoToIs
    <3> QED BY <1>1, <1>3, <3>1, <3>2, <3>3 DEF odno
  <2>4. CASE r.answer # Rejected
    <3>1. /\ r.answer = Submitted /\ held' = held
          /\ HasRow(ledger, odno) /\ ledger[odno[2]].live
          /\ ledger' = Append([ledger EXCEPT ![odno[2]].live = FALSE],
                              LedgerRow(c, "stop", Remaining(ledger[odno[2]]), 0, TRUE, level))
      BY <1>3, <1>4, <2>1, <2>4, ReviseStopIs
    <3>2. CycleTo("revised", c, level, id, Submitted)
      BY <1>3, <1>4, <1>5, <1>6, <2>4, <3>1, AnswersAre, GoToIs
    <3>3. odno[2] \in DOMAIN ledger /\ odno = <<day, odno[2]>>
      BY <2>2, <3>1 DEF HasRow, Odnos
    <3> QED BY <1>1, <1>3, <2>2, <3>1, <3>2, <3>3 DEF odno
  <2> QED BY <2>3, <2>4
<1> QED BY <1>7, <1>8

\* The cycle goes on with the same locals.
LEMMA StayIs ==
  ASSUME CycleTyped, NEW pc \in CycleSteps, cyc' = [cyc EXCEPT !.pc = pc]
  PROVE  CycleTo(pc, cyc.code, cyc.n, cyc.id, cyc.answer)
BY DEF CycleTyped, CycleTo, CycleStates

\* The steps a cycle can be at.
LEMMA StepsAre ==
  /\ {"idle", "exits", "revised", "raise", "exitSent", "exitOutcome", "exitClose", "entries",
      "entrySent", "upsert", "stop", "stopSent", "link"} = CycleSteps
  /\ {"revised", "raise", "exitSent", "exitOutcome", "exitClose",
      "entrySent", "upsert", "stop", "stopSent", "link"} = CycleAtHand
BY DEF CycleSteps, CycleAtHand

\* A position whose stop is raised.
LEMMA UpdateStopIs ==
  ASSUME BookTypes, PositionsKept, NEW c \in Codes, NEW t \in Stops, UpdateStop(c, t)
  PROVE  /\ Changed(c) /\ pos'[c].stop = t /\ pos'[c].open = pos[c].open
         /\ pos'[c].qty = pos[c].qty /\ pos'[c].active = pos[c].active /\ pos'[c].pid = pos[c].pid
<1>1. pos \in [Codes -> Positions] /\ pos[c] \in Positions
  BY DEF BookTypes
<1> DEFINE new == [pos[c] EXCEPT !.stop = t]
<1>2. pos' = [pos EXCEPT ![c] = new]
  BY DEF UpdateStop
<1>3. /\ new \in Positions /\ new.stop = t /\ new.open = pos[c].open /\ new.qty = pos[c].qty
      /\ new.active = pos[c].active /\ new.pid = pos[c].pid
  BY <1>1 DEF Positions
<1> HIDE DEF new
<1> QED BY <1>1, <1>2, <1>3 DEF Changed

\* A position that is linked to a stop.
LEMMA SetActiveIs ==
  ASSUME BookTypes, PositionsKept, NEW c \in Codes, NEW id \in Nat, SetActiveStop(c, id)
  PROVE  /\ Changed(c) /\ pos'[c].stop = pos[c].stop /\ pos'[c].open = pos[c].open
         /\ pos'[c].qty = pos[c].qty /\ pos'[c].active = id /\ pos'[c].pid = pos[c].pid
<1>1. pos \in [Codes -> Positions] /\ pos[c] \in Positions
  BY DEF BookTypes
<1> DEFINE new == [pos[c] EXCEPT !.active = id]
<1>2. pos' = [pos EXCEPT ![c] = new]
  BY DEF SetActiveStop
<1>3. /\ new \in Positions /\ new.stop = pos[c].stop /\ new.open = pos[c].open
      /\ new.qty = pos[c].qty /\ new.active = id /\ new.pid = pos[c].pid
  BY <1>1 DEF Positions
<1> HIDE DEF new
<1> QED BY <1>1, <1>2, <1>3 DEF Changed

\* A position that is closed.
LEMMA ClosePositionIs ==
  ASSUME BookTypes, PositionsKept, NEW c \in Codes, ClosePosition(c)
  PROVE  /\ Changed(c) /\ pos'[c].stop = pos[c].stop /\ pos'[c].open = FALSE
         /\ pos'[c].qty = 0 /\ pos'[c].active = pos[c].active /\ pos'[c].pid = pos[c].pid
<1>1. pos \in [Codes -> Positions] /\ pos[c] \in Positions
  BY DEF BookTypes
<1> DEFINE new == [pos[c] EXCEPT !.open = FALSE, !.qty = 0]
<1>2. pos' = [pos EXCEPT ![c] = new]
  BY <1>1 DEF ClosePosition
<1>3. /\ new \in Positions /\ new.stop = pos[c].stop /\ new.open = FALSE
      /\ new.qty = 0 /\ new.active = pos[c].active /\ new.pid = pos[c].pid
  BY <1>1 DEF Positions
<1> HIDE DEF new
<1> QED BY <1>1, <1>2, <1>3 DEF Changed

\* A position that is reduced.
LEMMA ReduceIs ==
  ASSUME BookTypes, PositionsKept, NEW c \in Codes, NEW n \in Nat, n < pos[c].qty,
         ReducePosition(c, n)
  PROVE  /\ Changed(c) /\ pos'[c].stop = pos[c].stop /\ pos'[c].open = pos[c].open
         /\ pos'[c].qty = pos[c].qty - n /\ pos[c].qty - n \in Nat \ {0}
         /\ pos'[c].active = pos[c].active /\ pos'[c].pid = pos[c].pid
<1>1. pos \in [Codes -> Positions] /\ pos[c] \in Positions
  BY DEF BookTypes
<1> DEFINE q == IF n > pos[c].qty THEN 0 ELSE pos[c].qty - n
           new == [pos[c] EXCEPT !.qty = q]
<1>2. pos' = [pos EXCEPT ![c] = new]
  BY <1>1 DEF ReducePosition
<1>3. q = pos[c].qty - n /\ q \in Nat \ {0}
  BY PositionIs
<1> HIDE DEF q
<1>4. /\ new \in Positions /\ new.stop = pos[c].stop /\ new.open = pos[c].open
      /\ new.qty = q /\ new.active = pos[c].active /\ new.pid = pos[c].pid
  BY <1>1, <1>3 DEF Positions
<1> HIDE DEF new
<1> QED BY <1>1, <1>2, <1>3, <1>4 DEF Changed

\* A position that is opened.
LEMMA UpsertIs ==
  ASSUME AccountTypes, BookTypes, PositionsKept, NEW c \in Codes, NEW n \in Nat,
         ~pos[c].open, UpsertEntryPosition(c, n)
  PROVE  /\ Changed(c) /\ pos'[c].stop = 1 /\ pos'[c].open = TRUE
         /\ pos'[c].qty = n /\ pos'[c].active = 0 /\ pos'[c].pid = day
<1>1. pos \in [Codes -> Positions] /\ day \in 0 .. MaxDays
  BY DEF BookTypes, AccountTypes
<1> DEFINE new == Position(TRUE, n, 1, 0, day)
<1>2. pos' = [pos EXCEPT ![c] = new]
  BY DEF UpsertEntryPosition
<1>3. /\ new \in Positions /\ new.stop = 1 /\ new.open = TRUE
      /\ new.qty = n /\ new.active = 0 /\ new.pid = day
  BY <1>1, ConstantsAre DEF Positions, Position
<1> HIDE DEF new
<1> QED BY <1>1, <1>2, <1>3 DEF Changed

\* The revision of a stop is recorded.
LEMMA RecordRevisionIs ==
  ASSUME CustodyInv, RecordRevision
  PROVE  /\ cyc.pc = "revised" /\ CycleTo("raise", cyc.code, cyc.n, cyc.id, cyc.answer)
         /\ StopOf(cyc.code, cyc.id) /\ cyc.id = pos[cyc.code].active
         /\ Rewritten(cyc.id) /\ orders'[cyc.id].trig = cyc.n
         /\ orders'[cyc.id].filled = orders[cyc.id].filled
         /\ orders'[cyc.id].odno =
              IF cyc.answer.odno = NoOdno THEN orders[cyc.id].odno ELSE cyc.answer.odno
         /\ UNCHANGED <<pos, outcomes>>
<1> USE DEF CustodyInv
<1>1. cyc.pc = "revised"
  BY DEF RecordRevision, At
<1>2. cyc.code \in Codes /\ cyc.answer.odno \in Odnos
  BY <1>1, StepsAre, AtHandIs
<1>3. StopOf(cyc.code, cyc.id) /\ cyc.id = pos[cyc.code].active /\ cyc.n \in Stops
  BY <1>1, <1>2, ConstantsAre DEF CycleLocals, PositionsKept
<1>4. CycleTo("raise", cyc.code, cyc.n, cyc.id, cyc.answer)
  BY StepsAre, StayIs DEF RecordRevision
<1>5. /\ Rewritten(cyc.id) /\ orders'[cyc.id].trig = cyc.n
      /\ orders'[cyc.id].filled = orders[cyc.id].filled
      /\ orders'[cyc.id].odno =
           IF cyc.answer.odno = NoOdno THEN orders[cyc.id].odno ELSE cyc.answer.odno
  BY <1>2, <1>3, RevisionIs DEF RecordRevision, StopOf
<1> QED BY <1>1, <1>3, <1>4, <1>5 DEF RecordRevision

\* The stop of the book follows.
LEMMA RaiseBookStopIs ==
  ASSUME CustodyInv, RaiseBookStop
  PROVE  /\ cyc.pc = "raise" /\ cyc.code \in cyc.todo /\ CycleBack("exits", cyc.code)
         /\ cyc.code \in Codes /\ Changed(cyc.code)
         /\ pos'[cyc.code].stop = cyc.n /\ pos'[cyc.code].open = pos[cyc.code].open
         /\ pos'[cyc.code].qty = pos[cyc.code].qty /\ pos'[cyc.code].active = pos[cyc.code].active
         /\ pos'[cyc.code].pid = pos[cyc.code].pid
         /\ UNCHANGED <<orders, outcomes>>
<1> USE DEF CustodyInv
<1>1. cyc.pc = "raise"
  BY DEF RaiseBookStop, At
<1>2. cyc.code \in Codes /\ cyc.code \in cyc.todo
  BY <1>1, StepsAre, AtHandIs
<1>3. cyc.n \in Stops
  BY <1>1, ConstantsAre DEF CycleLocals
<1>4. CycleBack("exits", cyc.code)
  BY StepsAre, BackIs DEF RaiseBookStop
<1> QED BY <1>1, <1>2, <1>3, <1>4, UpdateStopIs DEF RaiseBookStop

\* The cycle sells a holding.
LEMMA SendExitIs ==
  ASSUME CustodyInv, NEW c \in Codes, SendExit(c)
  PROVE  /\ cyc.pc = "exits" /\ c \in cyc.todo /\ pos[c] = cyc.rows[c] /\ pos[c].open
         /\ \E answer \in Answers :
              /\ CycleTo("exitSent", c, answer.filled, 0, answer)
              /\ \/ /\ answer.filled \in IocFills(pos[c].qty) /\ answer.filled \in 0 .. pos[c].qty
                    /\ pos[c].qty <= held[c]
                    /\ ledger' = Append(ledger, LedgerRow(c, "sell", pos[c].qty, answer.filled, FALSE, 0))
                    /\ held' = [held EXCEPT ![c] = held[c] - answer.filled]
                 \/ /\ answer = RefusedAnswer(c, pos[c].qty) /\ SellRefusable(c, pos[c].qty, "exitReject")
                    /\ ledger' = ledger /\ held' = held
<1> USE DEF CustodyInv
<1>1. cyc.pc = "exits" /\ c \in cyc.todo
  BY DEF SendExit, At
<1>2. pos[c] = cyc.rows[c] /\ pos[c].open
  BY <1>1 DEF CycleReads, ExitPhase
<1>3. PICK r \in PlaceExit(c, pos[c].qty) :
        Apply(r) /\ GoTo("exitSent", c, r.answer.filled, 0, r.answer)
  BY <1>2 DEF SendExit
<1>4. pos[c].qty \in Nat
  BY PositionIs
<1> DEFINE q == pos[c].qty
           answer == r.answer
<1>5. /\ answer \in Answers
      /\ \/ \E n \in IocFills(q) :
              /\ SellFits(c, q) /\ answer.filled = n /\ n \in 0 .. q
              /\ ledger' = Append(ledger, LedgerRow(c, "sell", q, n, FALSE, 0))
              /\ held' = [held EXCEPT ![c] = @ - n]
         \/ /\ answer = RefusedAnswer(c, q) /\ SellRefusable(c, q, "exitReject")
            /\ ledger' = ledger /\ held' = held
  BY <1>3, <1>4, PlaceExitIs
<1>6. answer.filled \in Nat
  BY <1>5 DEF Answers
<1>7. CycleTo("exitSent", c, answer.filled, 0, answer)
  BY <1>3, <1>5, <1>6, StepsAre, GoToIs
<1> HIDE DEF q, answer
<1>8. \/ /\ answer.filled \in IocFills(q) /\ answer.filled \in 0 .. q /\ q <= held[c]
         /\ ledger' = Append(ledger, LedgerRow(c, "sell", q, answer.filled, FALSE, 0))
         /\ held' = [held EXCEPT ![c] = held[c] - answer.filled]
      \/ /\ answer = RefusedAnswer(c, q) /\ SellRefusable(c, q, "exitReject")
         /\ ledger' = ledger /\ held' = held
  BY <1>5 DEF SellFits, AccountTypes
<1> QED BY <1>1, <1>2, <1>5, <1>7, <1>8 DEF q

\* The exit is recorded.
LEMMA RecordExitIs ==
  ASSUME CustodyInv, RecordExit
  PROVE  /\ cyc.pc = "exitSent" /\ cyc.code \in cyc.todo /\ cyc.code \in Codes
         /\ \/ cyc.n = 0 /\ CycleBack("exits", cyc.code)
            \/ /\ cyc.n > 0
               /\ CycleTo("exitOutcome", cyc.code, cyc.n, Len(orders) + 1, cyc.answer)
         /\ orders' \in Seq(OrderRows) /\ Len(orders) + 1 \notin DOMAIN orders
         /\ DOMAIN orders' = DOMAIN orders \cup {Len(orders) + 1} /\ Len(orders) + 1 \in Nat
         /\ \A i \in DOMAIN orders : orders'[i] = orders[i]
         /\ orders'[Len(orders) + 1] =
              [code |-> cyc.code, purpose |-> "exit", pid |-> day, qty |-> pos[cyc.code].qty,
               trig |-> 0, filled |-> cyc.answer.filled, odno |-> cyc.answer.odno,
               status |-> cyc.answer.status]
         /\ UNCHANGED <<pos, outcomes>>
<1> USE DEF CustodyInv
<1>1. cyc.pc = "exitSent"
  BY DEF RecordExit, At
<1>2. /\ cyc.code \in Codes /\ cyc.code \in cyc.todo /\ cyc.n \in Nat /\ cyc.answer \in Answers
      /\ cyc.n = cyc.answer.filled
  BY <1>1, StepsAre, AtHandIs DEF CycleLocals
<1>3. pos[cyc.code] = cyc.rows[cyc.code] /\ pos[cyc.code].qty \in Nat
  BY <1>1, <1>2, PositionIs DEF CycleReads, ExitPhase
<1>4. RecordOrder(cyc.code, "exit", pos[cyc.code].qty, 0, cyc.answer)
  BY <1>3 DEF RecordExit
<1>5. /\ orders' \in Seq(OrderRows) /\ Len(orders) + 1 \notin DOMAIN orders
      /\ DOMAIN orders' = DOMAIN orders \cup {Len(orders) + 1} /\ Len(orders) + 1 \in Nat
      /\ \A i \in DOMAIN orders : orders'[i] = orders[i]
      /\ orders'[Len(orders) + 1] =
           [code |-> cyc.code, purpose |-> "exit", pid |-> day, qty |-> pos[cyc.code].qty,
            trig |-> 0, filled |-> cyc.answer.filled, odno |-> cyc.answer.odno,
            status |-> cyc.answer.status]
  <2> DEFINE c == cyc.code
             q == pos[cyc.code].qty
             a == cyc.answer
  <2>1. c \in Codes /\ q \in Nat /\ a \in Answers /\ RecordOrder(c, "exit", q, 0, a)
    BY <1>2, <1>3, <1>4
  <2>2. 0 \in Stops /\ "exit" \in {"entry", "exit", "stop"}
    BY ConstantsAre
  <2> HIDE DEF c, q, a
  <2>3. /\ orders' \in Seq(OrderRows) /\ Len(orders) + 1 \notin DOMAIN orders
        /\ DOMAIN orders' = DOMAIN orders \cup {Len(orders) + 1} /\ Len(orders) + 1 \in Nat
        /\ \A i \in DOMAIN orders : orders'[i] = orders[i]
        /\ orders'[Len(orders) + 1] =
             [code |-> c, purpose |-> "exit", pid |-> day, qty |-> q, trig |-> 0,
              filled |-> a.filled, odno |-> a.odno, status |-> a.status]
    BY <2>1, <2>2, RecordOrderIs
  <2> QED BY <2>3 DEF c, q, a
<1>6. CASE cyc.answer.filled <= 0
  <2>1. Back("exits", cyc.code) /\ cyc.n = 0
    BY <1>2, <1>6 DEF RecordExit
  <2>2. CycleBack("exits", cyc.code)
    BY <2>1, StepsAre, BackIs
  <2> QED BY <1>1, <1>2, <1>5, <2>1, <2>2 DEF RecordExit
<1>7. CASE ~(cyc.answer.filled <= 0)
  <2>1. GoTo("exitOutcome", cyc.code, cyc.n, Len(orders) + 1, cyc.answer)
    BY <1>7 DEF RecordExit
  <2>2. CycleTo("exitOutcome", cyc.code, cyc.n, Len(orders) + 1, cyc.answer)
    BY <1>2, <1>5, <2>1, StepsAre, GoToIs
  <2> QED BY <1>1, <1>2, <1>5, <1>7, <2>2 DEF RecordExit
<1> QED BY <1>6, <1>7

\* Its outcome is recorded.
LEMMA RecordExitOutcomeIs ==
  ASSUME CustodyInv, RecordExitOutcome
  PROVE  /\ cyc.pc = "exitOutcome" /\ cyc.code \in cyc.todo /\ cyc.code \in Codes
         /\ CycleTo("exitClose", cyc.code, cyc.n, cyc.id, cyc.answer)
         /\ outcomes' = outcomes \cup
              {[id |-> cyc.id, code |-> cyc.code, pid |-> pos[cyc.code].pid, qty |-> cyc.n]}
         /\ [id |-> cyc.id, code |-> cyc.code, pid |-> pos[cyc.code].pid, qty |-> cyc.n]
              \in OutcomeRows
         /\ cyc.id \in DOMAIN orders /\ UNCHANGED <<pos, orders>>
<1> USE DEF CustodyInv
<1>1. cyc.pc = "exitOutcome"
  BY DEF RecordExitOutcome, At
<1>2. cyc.code \in Codes /\ cyc.code \in cyc.todo /\ cyc.n \in Nat /\ cyc.id \in Nat
  BY <1>1, StepsAre, AtHandIs
<1>3. pos[cyc.code] = cyc.rows[cyc.code] /\ pos[cyc.code].pid \in 0 .. MaxDays
  BY <1>1, <1>2, PositionIs DEF CycleReads, ExitPhase
<1>4. CycleTo("exitClose", cyc.code, cyc.n, cyc.id, cyc.answer)
  BY StepsAre, StayIs DEF RecordExitOutcome
<1>5. cyc.id \in DOMAIN orders
  BY <1>1 DEF CycleLocals
<1> QED BY <1>1, <1>2, <1>3, <1>4, <1>5 DEF RecordExitOutcome, RecordOutcome, OutcomeRows

\* The position is closed.
LEMMA SettleExitIs ==
  ASSUME CustodyInv, SettleExit
  PROVE  /\ cyc.pc = "exitClose" /\ cyc.code \in cyc.todo /\ cyc.code \in Codes
         /\ CycleBack("exits", cyc.code) /\ Changed(cyc.code)
         /\ pos'[cyc.code].stop = pos[cyc.code].stop /\ pos'[cyc.code].open = FALSE
         /\ pos'[cyc.code].qty = 0 /\ pos'[cyc.code].active = pos[cyc.code].active
         /\ pos'[cyc.code].pid = pos[cyc.code].pid
         /\ UNCHANGED <<orders, outcomes>>
<1> USE DEF CustodyInv
<1>1. cyc.pc = "exitClose"
  BY DEF SettleExit, At
<1>2. cyc.code \in Codes /\ cyc.code \in cyc.todo
  BY <1>1, StepsAre, AtHandIs
<1>3. CycleBack("exits", cyc.code)
  BY StepsAre, BackIs DEF SettleExit
<1> QED BY <1>1, <1>2, <1>3, ClosePositionIs DEF SettleExit

\* The exits are done: the stocks to buy are next.
LEMMA ExitsDoneIs ==
  ASSUME CustodyInv, ExitsDone
  PROVE  /\ cyc' \in CycleStates /\ cyc'.pc = "entries" /\ cyc'.todo = cyc.plan /\ cyc'.plan = {}
         /\ cyc'.rows = NoRows /\ cyc'.code = NoCode
         /\ cyc'.n = 0 /\ cyc'.id = 0 /\ cyc'.answer = NoAnswer
         /\ cyc.pc = "exits" /\ cyc.todo = {} /\ cyc.plan \subseteq Codes
         /\ UNCHANGED <<cycled, safeStop>>
<1> USE DEF CustodyInv
<1>1. cyc.plan \subseteq Codes
  BY DEF CycleTyped, CycleStates
<1>2. NoRows \in [Codes -> Positions]
  BY ConstantsAre DEF NoRows
<1> QED BY <1>1, <1>2, StepsAre, FreshCycle DEF ExitsDone, At

\* The cycle buys a stock.
LEMMA SendEntryIs ==
  ASSUME CustodyInv, NEW c \in Codes, SendEntry(c)
  PROVE  /\ cyc.pc = "entries" /\ c \in cyc.todo /\ session = "open"
         /\ \E answer \in Answers :
              /\ CycleTo("entrySent", c, answer.filled, 0, answer)
              /\ \/ /\ answer.filled \in IocFills(Lot) /\ answer.filled \in 0 .. Lot
                    /\ ledger' = Append(ledger, LedgerRow(c, "buy", Lot, answer.filled, FALSE, 0))
                    /\ held' = [held EXCEPT ![c] = held[c] + answer.filled]
                 \/ /\ answer = RefusedAnswer(c, Lot) /\ "buyReject" \in Faults
                    /\ ledger' = ledger /\ held' = held
<1> USE DEF CustodyInv
<1>1. cyc.pc = "entries" /\ c \in cyc.todo /\ session = "open"
  BY DEF SendEntry, At, CycleTyped
<1>2. PICK r \in PlaceEntry(c, Lot) :
        Apply(r) /\ GoTo("entrySent", c, r.answer.filled, 0, r.answer)
  BY DEF SendEntry
<1>3. Lot \in Nat
  BY ConstantsAre
<1> DEFINE answer == r.answer
<1>4. /\ answer \in Answers
      /\ \/ \E n \in IocFills(Lot) :
              /\ answer.filled = n /\ n \in 0 .. Lot
              /\ ledger' = Append(ledger, LedgerRow(c, "buy", Lot, n, FALSE, 0))
              /\ held' = [held EXCEPT ![c] = @ + n]
         \/ /\ answer = RefusedAnswer(c, Lot) /\ "buyReject" \in Faults
            /\ ledger' = ledger /\ held' = held
  <2>1. r \in PlaceEntry(c, Lot) /\ Apply(r)
    BY <1>2
  <2> HIDE DEF CustodyInv
  <2>2. AccountTypes
    BY DEF CustodyInv
  <2>3. /\ r.answer \in Answers
        /\ \/ \E n \in IocFills(Lot) :
                /\ session = "open" /\ r.answer.filled = n /\ n \in 0 .. Lot
                /\ ledger' = Append(ledger, LedgerRow(c, "buy", Lot, n, FALSE, 0))
                /\ held' = [held EXCEPT ![c] = @ + n]
           \/ /\ r.answer = RefusedAnswer(c, Lot) /\ (session # "open" \/ "buyReject" \in Faults)
              /\ ledger' = ledger /\ held' = held
    BY <1>3, <2>1, <2>2, PlaceEntryIs
  <2> QED BY <1>1, <2>3
<1>5. answer.filled \in Nat
  BY <1>4 DEF Answers
<1>6. CycleTo("entrySent", c, answer.filled, 0, answer)
  BY <1>2, <1>4, <1>5, StepsAre, GoToIs
<1> HIDE DEF answer
<1>7. \/ /\ answer.filled \in IocFills(Lot) /\ answer.filled \in 0 .. Lot
         /\ ledger' = Append(ledger, LedgerRow(c, "buy", Lot, answer.filled, FALSE, 0))
         /\ held' = [held EXCEPT ![c] = held[c] + answer.filled]
      \/ /\ answer = RefusedAnswer(c, Lot) /\ "buyReject" \in Faults
         /\ ledger' = ledger /\ held' = held
  BY <1>4 DEF AccountTypes
<1> QED BY <1>1, <1>4, <1>6, <1>7

\* The entry is recorded.
LEMMA RecordEntryIs ==
  ASSUME CustodyInv, RecordEntry
  PROVE  /\ cyc.pc = "entrySent" /\ cyc.code \in cyc.todo /\ cyc.code \in Codes
         /\ \/ cyc.n = 0 /\ CycleBack("entries", cyc.code)
            \/ cyc.n > 0 /\ CycleTo("upsert", cyc.code, cyc.n, cyc.id, cyc.answer)
         /\ orders' \in Seq(OrderRows) /\ Len(orders) + 1 \notin DOMAIN orders
         /\ DOMAIN orders' = DOMAIN orders \cup {Len(orders) + 1} /\ Len(orders) + 1 \in Nat
         /\ \A i \in DOMAIN orders : orders'[i] = orders[i]
         /\ orders'[Len(orders) + 1] =
              [code |-> cyc.code, purpose |-> "entry", pid |-> day, qty |-> Lot,
               trig |-> 0, filled |-> cyc.answer.filled, odno |-> cyc.answer.odno,
               status |-> cyc.answer.status]
         /\ UNCHANGED <<pos, outcomes>>
<1> USE DEF CustodyInv
<1>1. cyc.pc = "entrySent"
  BY DEF RecordEntry, At
<1>2. cyc.code \in Codes /\ cyc.code \in cyc.todo /\ cyc.n \in Nat /\ cyc.answer \in Answers
  BY <1>1, StepsAre, AtHandIs
<1>3. /\ orders' \in Seq(OrderRows) /\ Len(orders) + 1 \notin DOMAIN orders
      /\ DOMAIN orders' = DOMAIN orders \cup {Len(orders) + 1} /\ Len(orders) + 1 \in Nat
      /\ \A i \in DOMAIN orders : orders'[i] = orders[i]
      /\ orders'[Len(orders) + 1] =
           [code |-> cyc.code, purpose |-> "entry", pid |-> day, qty |-> Lot,
            trig |-> 0, filled |-> cyc.answer.filled, odno |-> cyc.answer.odno,
            status |-> cyc.answer.status]
  <2> DEFINE c == cyc.code
             a == cyc.answer
  <2>1. c \in Codes /\ a \in Answers /\ RecordOrder(c, "entry", Lot, 0, a)
    BY <1>2 DEF RecordEntry
  <2>2. Lot \in Nat /\ 0 \in Stops /\ "entry" \in {"entry", "exit", "stop"}
    BY ConstantsAre
  <2> HIDE DEF c, a
  <2>3. /\ orders' \in Seq(OrderRows) /\ Len(orders) + 1 \notin DOMAIN orders
        /\ DOMAIN orders' = DOMAIN orders \cup {Len(orders) + 1} /\ Len(orders) + 1 \in Nat
        /\ \A i \in DOMAIN orders : orders'[i] = orders[i]
        /\ orders'[Len(orders) + 1] =
             [code |-> c, purpose |-> "entry", pid |-> day, qty |-> Lot, trig |-> 0,
              filled |-> a.filled, odno |-> a.odno, status |-> a.status]
    BY <2>1, <2>2, RecordOrderIs
  <2> QED BY <2>3 DEF c, a
<1>4. CASE cyc.n <= 0
  <2>1. Back("entries", cyc.code) /\ cyc.n = 0
    BY <1>2, <1>4 DEF RecordEntry
  <2>2. CycleBack("entries", cyc.code)
    BY <2>1, StepsAre, BackIs
  <2> QED BY <1>1, <1>2, <1>3, <2>1, <2>2 DEF RecordEntry
<1>5. CASE ~(cyc.n <= 0)
  <2>1. CycleTo("upsert", cyc.code, cyc.n, cyc.id, cyc.answer)
    BY <1>5, StepsAre, StayIs DEF RecordEntry
  <2> QED BY <1>1, <1>2, <1>3, <1>5, <2>1 DEF RecordEntry
<1> QED BY <1>4, <1>5

\* The position is opened.
LEMMA BookEntryIs ==
  ASSUME CustodyInv, BookEntry
  PROVE  /\ cyc.pc = "upsert" /\ cyc.code \in cyc.todo /\ cyc.code \in Codes
         /\ CycleTo("stop", cyc.code, cyc.n, cyc.id, cyc.answer)
         /\ cyc.n > 0 /\ ~pos[cyc.code].open /\ Changed(cyc.code)
         /\ pos'[cyc.code].stop = 1 /\ pos'[cyc.code].open = TRUE
         /\ pos'[cyc.code].qty = cyc.n /\ pos'[cyc.code].active = 0
         /\ pos'[cyc.code].pid = day
         /\ UNCHANGED <<orders, outcomes>>
<1> USE DEF CustodyInv
<1>1. cyc.pc = "upsert"
  BY DEF BookEntry, At
<1>2. cyc.code \in Codes /\ cyc.code \in cyc.todo /\ cyc.n \in Nat
  BY <1>1, StepsAre, AtHandIs
<1>3. ~pos[cyc.code].open /\ cyc.n > 0
  BY <1>1, <1>2 DEF CycleReads, CycleLocals, EntryPhase
<1>4. CycleTo("stop", cyc.code, cyc.n, cyc.id, cyc.answer)
  BY StepsAre, StayIs DEF BookEntry
<1> QED BY <1>1, <1>2, <1>3, <1>4, UpsertIs DEF BookEntry

\* Its stop is placed.
LEMMA RegisterStopIs ==
  ASSUME CustodyInv, RegisterStop
  PROVE  /\ cyc.pc = "stop" /\ cyc.code \in cyc.todo /\ cyc.code \in Codes
         /\ cyc.n > 0 /\ held' = held
         /\ \/ /\ CycleTo("stopSent", cyc.code, cyc.n, cyc.id, Submitted)
               /\ cyc.n <= held[cyc.code] /\ session = "open"
               /\ ledger' = Append(ledger, LedgerRow(cyc.code, "stop", cyc.n, 0, TRUE, 1))
            \/ /\ CycleTo("stopSent", cyc.code, cyc.n, cyc.id, Rejected)
               /\ SellRefusable(cyc.code, cyc.n, "stopReject") /\ ledger' = ledger
<1> USE DEF CustodyInv
<1>1. cyc.pc = "stop"
  BY DEF RegisterStop, At
<1>2. cyc.code \in Codes /\ cyc.code \in cyc.todo /\ cyc.n \in Nat
  BY <1>1, StepsAre, AtHandIs
<1>3. cyc.n > 0
  BY <1>1 DEF CycleLocals
<1>4. PICK r \in PlaceStop(cyc.code, cyc.n, 1) :
        Apply(r) /\ cyc' = [cyc EXCEPT !.pc = "stopSent", !.answer = r.answer]
  BY DEF RegisterStop
<1>5. 1 \in Stops /\ Submitted \in Answers /\ Rejected \in Answers
  BY ConstantsAre, AnswersAre
<1>6. ASSUME NEW a \in Answers, r.answer = a
      PROVE  CycleTo("stopSent", cyc.code, cyc.n, cyc.id, a)
  BY <1>4, <1>6, StepsAre DEF CycleTo, CycleTyped, CycleStates
<1>7. /\ held' = held
      /\ \/ /\ r.answer = Submitted /\ SellFits(cyc.code, cyc.n)
            /\ ledger' = Append(ledger, LedgerRow(cyc.code, "stop", cyc.n, 0, TRUE, 1))
         \/ /\ r.answer = Rejected /\ SellRefusable(cyc.code, cyc.n, "stopReject")
            /\ ledger' = ledger
  BY <1>2, <1>4, <1>5, PlaceStopIs
<1>8. CASE r.answer = Submitted
  BY <1>1, <1>2, <1>3, <1>5, <1>6, <1>7, <1>8, AnswersAre DEF SellFits
<1>9. CASE r.answer = Rejected
  BY <1>1, <1>2, <1>3, <1>5, <1>6, <1>7, <1>9, AnswersAre
<1> QED BY <1>7, <1>8, <1>9

\* The stop is recorded.
LEMMA RecordStopIs ==
  ASSUME CustodyInv, RecordStop
  PROVE  /\ cyc.pc = "stopSent" /\ cyc.code \in cyc.todo /\ cyc.code \in Codes
         /\ CycleTo("link", cyc.code, cyc.n, Len(orders) + 1, cyc.answer)
         /\ orders' \in Seq(OrderRows) /\ Len(orders) + 1 \notin DOMAIN orders
         /\ DOMAIN orders' = DOMAIN orders \cup {Len(orders) + 1} /\ Len(orders) + 1 \in Nat
         /\ \A i \in DOMAIN orders : orders'[i] = orders[i]
         /\ orders'[Len(orders) + 1] =
              [code |-> cyc.code, purpose |-> "stop", pid |-> day, qty |-> cyc.n,
               trig |-> 1, filled |-> cyc.answer.filled, odno |-> cyc.answer.odno,
               status |-> cyc.answer.status]
         /\ UNCHANGED <<pos, outcomes>>
<1> USE DEF CustodyInv
<1>1. cyc.pc = "stopSent"
  BY DEF RecordStop, At
<1>2. cyc.code \in Codes /\ cyc.code \in cyc.todo /\ cyc.n \in Nat /\ cyc.answer \in Answers
  BY <1>1, StepsAre, AtHandIs
<1>3. /\ orders' \in Seq(OrderRows) /\ Len(orders) + 1 \notin DOMAIN orders
      /\ DOMAIN orders' = DOMAIN orders \cup {Len(orders) + 1} /\ Len(orders) + 1 \in Nat
      /\ \A i \in DOMAIN orders : orders'[i] = orders[i]
      /\ orders'[Len(orders) + 1] =
           [code |-> cyc.code, purpose |-> "stop", pid |-> day, qty |-> cyc.n,
            trig |-> 1, filled |-> cyc.answer.filled, odno |-> cyc.answer.odno,
            status |-> cyc.answer.status]
  <2> DEFINE c == cyc.code
             a == cyc.answer
             q == cyc.n
  <2>1. c \in Codes /\ a \in Answers /\ q \in Nat /\ RecordOrder(c, "stop", q, 1, a)
    BY <1>2 DEF RecordStop
  <2>2. 1 \in Stops /\ "stop" \in {"entry", "exit", "stop"}
    BY ConstantsAre
  <2> HIDE DEF c, a, q
  <2>3. /\ orders' \in Seq(OrderRows) /\ Len(orders) + 1 \notin DOMAIN orders
        /\ DOMAIN orders' = DOMAIN orders \cup {Len(orders) + 1} /\ Len(orders) + 1 \in Nat
        /\ \A i \in DOMAIN orders : orders'[i] = orders[i]
        /\ orders'[Len(orders) + 1] =
             [code |-> c, purpose |-> "stop", pid |-> day, qty |-> q, trig |-> 1,
              filled |-> a.filled, odno |-> a.odno, status |-> a.status]
    BY <2>1, <2>2, RecordOrderIs
  <2> QED BY <2>3 DEF c, a, q
<1>4. cyc' = [cyc EXCEPT !.pc = "link", !.id = Len(orders) + 1]
  BY DEF RecordStop
<1>5. CycleTo("link", cyc.code, cyc.n, Len(orders) + 1, cyc.answer)
  BY <1>3, <1>4, StepsAre DEF CycleTo, CycleTyped, CycleStates
<1> QED BY <1>1, <1>2, <1>3, <1>5 DEF RecordStop

\* The stop is linked to its position.
LEMMA LinkStopIs ==
  ASSUME CustodyInv, LinkStop
  PROVE  /\ cyc.pc = "link" /\ cyc.code \in cyc.todo /\ cyc.code \in Codes
         /\ CycleBack("entries", cyc.code) /\ StopOf(cyc.code, cyc.id) /\ Changed(cyc.code)
         /\ pos'[cyc.code].stop = pos[cyc.code].stop /\ pos'[cyc.code].open = pos[cyc.code].open
         /\ pos'[cyc.code].qty = pos[cyc.code].qty /\ pos'[cyc.code].active = cyc.id
         /\ pos'[cyc.code].pid = pos[cyc.code].pid
         /\ UNCHANGED <<orders, outcomes>>
<1> USE DEF CustodyInv
<1>1. cyc.pc = "link"
  BY DEF LinkStop, At
<1>2. cyc.code \in Codes /\ cyc.code \in cyc.todo /\ cyc.id \in Nat
  BY <1>1, StepsAre, AtHandIs
<1>3. StopOf(cyc.code, cyc.id)
  BY <1>1 DEF CycleLocals, StopOf
<1>4. CycleBack("entries", cyc.code)
  BY StepsAre, BackIs DEF LinkStop
<1> QED BY <1>1, <1>2, <1>3, <1>4, SetActiveIs DEF LinkStop

\* The cycle ends.
LEMMA CycleEndsIs ==
  ASSUME CustodyInv, CycleEnds
  PROVE  /\ cyc' \in CycleStates /\ cyc'.pc = "idle" /\ cyc'.todo = {} /\ cyc'.plan = {}
         /\ cyc'.rows = NoRows /\ cyc'.code = NoCode
         /\ cyc'.n = 0 /\ cyc'.id = 0 /\ cyc'.answer = NoAnswer
         /\ cyc.pc = "entries" /\ cyc.todo = {} /\ UNCHANGED <<cycled, safeStop>>
<1>1. NoRows \in [Codes -> Positions]
  BY ConstantsAre DEF NoRows
<1> QED BY <1>1, StepsAre, FreshCycle DEF CycleEnds, At, IdleCycle

-----------------------------------------------------------------------------
(* The steps of the watch.                                                 *)

Rows == UNION {[C -> LoadedRows] : C \in SUBSET Codes}

WatchTo(pc, c, n, id, answer, any) ==
  /\ watch' \in WatchStates
  /\ watch'.pc = pc /\ watch'.open = watch.open /\ watch'.rows = watch.rows
  /\ watch'.led = watch.led /\ watch'.known = watch.known /\ watch'.todo = watch.todo
  /\ watch'.any = any /\ watch'.code = c /\ watch'.n = n /\ watch'.id = id /\ watch'.answer = answer
  /\ watch.refused \subseteq watch'.refused

WatchLoop(pc, rows, todo) ==
  /\ watch' \in WatchStates
  /\ watch'.pc = pc /\ watch'.open = watch.open /\ watch'.rows = rows
  /\ watch'.led = watch.led /\ watch'.known = watch.known /\ watch'.todo = todo
  /\ watch'.any = watch.any /\ watch'.answer = NoAnswer
  /\ watch.refused \subseteq watch'.refused

WatchFresh(pc, open, rows) ==
  /\ watch' \in WatchStates
  /\ watch'.pc = pc /\ watch'.open = open /\ watch'.rows = rows
  /\ watch'.led = <<>> /\ watch'.known = FALSE /\ watch'.todo = {}
  /\ watch'.any = FALSE /\ watch'.code = NoCode /\ watch'.n = 0 /\ watch'.id = 0
  /\ watch'.answer = NoAnswer

\* The steps a watch can be at.
LEMMA WatchStepsAre ==
  /\ {"idle", "loaded", "settle", "settleOutcome", "settleClose", "aborted", "settled",
      "register", "registered", "expire", "link", "stale", "revised"} = WatchSteps
  /\ {"settleOutcome", "settleClose", "registered", "expire", "link", "revised"} = WatchAtHand
BY DEF WatchSteps, WatchAtHand

\* The watch goes on to a loop.
LEMMA LoopIs ==
  ASSUME watch \in WatchStates, NEW pc \in WatchSteps, NEW rows \in Rows,
         NEW todo \in SUBSET Codes, Loop(pc, rows, todo)
  PROVE  WatchLoop(pc, rows, todo)
<1>1. NoAnswer \in Answers
  BY ConstantsAre
<1> QED BY <1>1 DEF Loop, WatchLoop, WatchStates, Rows

\* The watch is done with a stock.
LEMMA NextCodeIs ==
  ASSUME WatchTyped, NEW pc \in WatchSteps, NEW c, NextCode(pc, c)
  PROVE  WatchLoop(pc, watch.rows, watch.todo \ {c})
<1>1. watch.rows \in Rows /\ watch.todo \ {c} \in SUBSET Codes
  BY DEF WatchTyped, WatchStates, Rows
<1> QED BY <1>1, LoopIs DEF NextCode, WatchTyped

\* A new watch, or none.
LEMMA FreshWatch ==
  ASSUME NEW pc \in WatchSteps, NEW open \in BOOLEAN, NEW rows \in Rows,
         watch' = WatchState(pc, open, rows)
  PROVE  WatchFresh(pc, open, rows)
<1>1. NoAnswer \in Answers /\ <<>> \in Seq(LedgerRows)
  BY ConstantsAre
<1> QED BY <1>1 DEF WatchState, WatchFresh, WatchStates, Rows

\* No watch.
LEMMA NoWatch ==
  ASSUME watch' = IdleWatch
  PROVE  WatchFresh("idle", FALSE, <<>>)
<1>1. <<>> \in [{} -> LoadedRows] /\ {} \in SUBSET Codes
  OBVIOUS
<1>2. <<>> \in Rows
  BY <1>1 DEF Rows
<1> QED BY <1>2, FreshWatch DEF IdleWatch, WatchSteps

\* The watch goes on with the same locals.
LEMMA WatchStays ==
  ASSUME watch \in WatchStates, NEW pc \in WatchSteps, watch' = [watch EXCEPT !.pc = pc]
  PROVE  WatchTo(pc, watch.code, watch.n, watch.id, watch.answer, watch.any)
BY DEF WatchTo, WatchStates

\* What the watch has at hand.
LEMMA WatchHasAtHand ==
  ASSUME WatchTyped, watch.pc \in WatchAtHand
  PROVE  /\ watch.code \in Codes /\ watch.code \in watch.todo /\ watch.code \in DOMAIN watch.rows
         /\ watch.n \in Nat /\ watch.id \in Nat /\ watch.answer \in Answers
         /\ watch.answer.odno \in Odnos /\ watch.answer.filled \in Nat
         /\ cyc.pc = "idle"
BY WatchStepsAre DEF WatchTyped, WatchStates, Answers

\* The open positions, as they are loaded.
LEMMA LoadIs ==
  ASSUME BookTypes, PositionsKept
  PROVE  /\ LoadOpenPositions \in Rows /\ DOMAIN LoadOpenPositions = OpenCodes
         /\ OpenCodes = {c \in Codes : pos[c].open}
         /\ \A c \in OpenCodes :
              LET row == LoadOpenPositions[c]
                  id == pos[c].active
              IN  /\ row.pid = pos[c].pid /\ row.qty = pos[c].qty /\ row.stop = pos[c].stop
                  /\ row.active = id
                  /\ row.odno = IF id = 0 THEN NoOdno ELSE orders[id].odno
                  /\ row.trig = IF id = 0 THEN 0 ELSE orders[id].trig
<1>1. OpenCodes = {c \in Codes : pos[c].open} /\ OpenCodes \in SUBSET Codes
  BY DEF OpenCodes, PositionsKept
<1>2. ASSUME NEW c \in OpenCodes
      PROVE  LET row == LoadOpenPositions[c]
                 id == pos[c].active
             IN  /\ row \in LoadedRows
                 /\ row.pid = pos[c].pid /\ row.qty = pos[c].qty /\ row.stop = pos[c].stop
                 /\ row.active = id
                 /\ row.odno = IF id = 0 THEN NoOdno ELSE orders[id].odno
                 /\ row.trig = IF id = 0 THEN 0 ELSE orders[id].trig
  <2> DEFINE id == pos[c].active
             o == IF id = 0 THEN NoOdno ELSE orders[id].odno
             t == IF id = 0 THEN 0 ELSE orders[id].trig
             row == [pid |-> pos[c].pid, qty |-> pos[c].qty, stop |-> pos[c].stop, active |-> id,
                     odno |-> o, trig |-> t]
  <2>1. c \in Codes
    BY <1>1
  <2>2. LoadOpenPositions[c] = row
    BY DEF LoadOpenPositions
  <2>3. /\ pos[c].qty \in Nat /\ pos[c].stop \in Stops /\ id \in Nat /\ pos[c].pid \in 0 .. MaxDays
    BY <2>1, PositionIs
  <2>4. o \in Odnos
    BY <2>1, PositionIs, ConstantsAre
  <2>5. t \in Stops
    BY <2>1, PositionIs, ConstantsAre DEF OrderRows
  <2> HIDE DEF id, o, t
  <2>6. /\ row \in LoadedRows /\ row.pid = pos[c].pid /\ row.qty = pos[c].qty
        /\ row.stop = pos[c].stop /\ row.active = id /\ row.odno = o /\ row.trig = t
    BY <2>3, <2>4, <2>5 DEF LoadedRows
  <2> HIDE DEF row
  <2> QED BY <2>2, <2>6 DEF id, o, t
<1>3. LoadOpenPositions \in [OpenCodes -> LoadedRows]
  BY <1>2 DEF LoadOpenPositions
<1> QED BY <1>1, <1>2, <1>3 DEF Rows

\* A watch starts.
LEMMA WatchStartsIs ==
  ASSUME CustodyInv, Quiet, WatchStarts
  PROVE  /\ cyc.pc = "idle" /\ watch.pc = "idle" /\ OpenCodes # {} /\ swept' = swept
         /\ session = "closed" => ~swept
         /\ WatchFresh("loaded", session = "open", LoadOpenPositions)
<1> USE DEF CustodyInv
<1>1. LoadOpenPositions \in Rows
  BY LoadIs
<1>2. (session = "open") \in BOOLEAN
  OBVIOUS
<1>3. watch' = WatchState("loaded", session = "open", LoadOpenPositions)
  BY DEF WatchStarts
<1>4. WatchFresh("loaded", session = "open", LoadOpenPositions)
  BY <1>1, <1>2, <1>3, WatchStepsAre, FreshWatch
<1> QED BY <1>4 DEF WatchStarts, Quiet

\* The watch fetches the orders of the day, or fails to.
LEMMA FetchIs ==
  ASSUME CustodyInv, FetchDailyOrders
  PROVE  /\ watch.pc = "loaded" /\ swept' = swept
         /\ watch' \in WatchStates /\ watch'.pc = "settle" /\ watch'.open = watch.open
         /\ watch'.rows = watch.rows /\ watch'.any = watch.any /\ watch'.code = watch.code
         /\ watch'.n = watch.n /\ watch'.id = watch.id /\ watch'.answer = watch.answer
         /\ \/ /\ watch'.led = ledger /\ watch'.known = TRUE
               /\ watch'.todo = FilledStops(watch.rows, ledger)
            \/ /\ "ledgerFail" \in Faults /\ watch'.led = watch.led /\ watch'.known = watch.known
               /\ watch'.todo = watch.todo
<1> USE DEF CustodyInv
<1>1. watch \in WatchStates /\ watch.pc = "loaded" /\ swept' = swept
  BY DEF WatchTyped, FetchDailyOrders, WatchAt
<1>2. CASE watch' = [watch EXCEPT !.pc = "settle", !.led = ledger, !.known = TRUE,
                               !.todo = FilledStops(watch.rows, ledger)]
  <2> DEFINE filled == FilledStops(watch.rows, ledger)
  <2>1. filled \in SUBSET Codes
    BY <1>1, LoadedIs DEF FilledStops
  <2>2. ledger \in Seq(LedgerRows) /\ "settle" \in WatchSteps
    BY WatchStepsAre DEF AccountTypes
  <2> HIDE DEF filled
  <2>3. watch' = [watch EXCEPT !.pc = "settle", !.led = ledger, !.known = TRUE, !.todo = filled]
    BY <1>2 DEF filled
  <2>4. /\ watch' \in WatchStates /\ watch'.pc = "settle" /\ watch'.open = watch.open
         /\ watch'.rows = watch.rows /\ watch'.any = watch.any /\ watch'.code = watch.code
         /\ watch'.n = watch.n /\ watch'.id = watch.id /\ watch'.answer = watch.answer
         /\ watch'.led = ledger /\ watch'.known = TRUE /\ watch'.todo = filled
    <3> HIDE DEF CustodyInv
    <3> QED BY <1>1, <2>1, <2>2, <2>3 DEF WatchStates
  <2> QED BY <1>1, <2>4 DEF filled
<1>3. CASE "ledgerFail" \in Faults /\ watch' = [watch EXCEPT !.pc = "settle"]
  BY <1>1, <1>3, WatchStepsAre, WatchStays DEF WatchTo
<1> QED BY <1>2, <1>3 DEF FetchDailyOrders

\* A filled stop is marked, unless the cycle has closed the position since.
LEMMA MarkFilledIs ==
  ASSUME CustodyInv, NEW c \in Codes, MarkFilled(c)
  PROVE  LET id == watch.rows[c].active
             n == Smaller(watch.led[watch.rows[c].odno[2]].filled, watch.rows[c].qty)
         IN  /\ watch.pc = "settle" /\ c \in watch.todo /\ c \in DOMAIN watch.rows
             /\ StopOf(c, id) /\ id # 0 /\ UNCHANGED <<pos, outcomes, swept>>
             /\ \/ /\ pos[c].open /\ pos[c].pid = watch.rows[c].pid /\ n \in Nat \ {0}
                   /\ Rewritten(id) /\ orders'[id].trig = orders[id].trig
                   /\ orders'[id].filled = n /\ orders'[id].odno = orders[id].odno
                   /\ WatchTo("settleOutcome", c, n, id, watch.answer, TRUE)
                \/ /\ ~(pos[c].open /\ pos[c].pid = watch.rows[c].pid) /\ orders' = orders
                   /\ WatchLoop("settle", watch.rows, watch.todo \ {c})
<1> USE DEF CustodyInv
<1> DEFINE id == watch.rows[c].active
           led == watch.led[watch.rows[c].odno[2]].filled
           n == Smaller(led, watch.rows[c].qty)
<1>1. watch.pc = "settle" /\ c \in watch.todo /\ c \in DOMAIN watch.rows /\ watch.pc # "idle"
  BY DEF MarkFilled, WatchAt, WatchTyped
<1>2. StopOf(c, id) /\ id # 0
  BY <1>1 DEF WatchLocals, WatchReads, SettlePhase
<1>3. n \in Nat \ {0}
  <2>1. watch.rows[c].qty \in Nat /\ watch.rows[c].qty > 0
    BY <1>1, LoadedQty DEF WatchReads
  <2>2. HasRow(watch.led, watch.rows[c].odno) /\ led > 0
    BY <1>1 DEF WatchLocals, SettlePhase
  <2>3. watch.led \in Seq(LedgerRows) /\ watch.rows[c].odno[2] \in DOMAIN watch.led
    BY <2>2 DEF WatchTyped, WatchStates, HasRow
  <2>4. led \in Nat
    <3>1. watch.led[watch.rows[c].odno[2]] \in LedgerRows
      BY <2>3
    <3> QED BY <3>1 DEF LedgerRows
  <2> QED BY <2>1, <2>2, <2>4 DEF Smaller
<1>4. CASE pos[c].open /\ pos[c].pid = watch.rows[c].pid
  <2> DEFINE status == IF n >= pos[c].qty THEN "filled" ELSE "partial"
  <2>1. MarkOrderFilled(id, n, status)
    BY <1>4 DEF MarkFilled
  <2>2. watch' = [watch EXCEPT !.pc = "settleOutcome", !.code = c, !.n = n,
                               !.id = watch.rows[c].active, !.any = TRUE]
    BY <1>4 DEF MarkFilled
  <2>3. status \in Statuses /\ id \in DOMAIN orders /\ id \in Nat
    BY <1>2 DEF Statuses, StopOf, BookTypes
  <2> HIDE DEF n, status
  <2>4. /\ Rewritten(id) /\ orders'[id].trig = orders[id].trig
        /\ orders'[id].filled = n /\ orders'[id].odno = orders[id].odno
    <3> HIDE DEF id
    <3> QED BY <1>3, <2>1, <2>3, FillIs
  <2>5. WatchTo("settleOutcome", c, n, id, watch.answer, TRUE)
    <3> HIDE DEF CustodyInv
    <3>1. watch \in WatchStates
      BY DEF CustodyInv, WatchTyped
    <3> QED BY <1>3, <2>2, <2>3, <3>1, WatchStepsAre DEF WatchTo, WatchStates
  <2>6. UNCHANGED <<pos, outcomes, swept>>
    BY DEF MarkFilled
  <2> QED BY <1>1, <1>2, <1>3, <1>4, <2>4, <2>5, <2>6 DEF n
<1>5. CASE ~(pos[c].open /\ pos[c].pid = watch.rows[c].pid)
  <2>1. NextCode("settle", c) /\ orders' = orders /\ UNCHANGED <<pos, outcomes, swept>>
    BY <1>5 DEF MarkFilled
  <2>2. WatchLoop("settle", watch.rows, watch.todo \ {c})
    BY <2>1, WatchStepsAre, NextCodeIs
  <2> QED BY <1>1, <1>2, <1>5, <2>1, <2>2
<1> QED BY <1>4, <1>5

\* The outcome of the stop is recorded, or the watch fails on one that is there.
LEMMA RecordStopHitIs ==
  ASSUME CustodyInv, RecordStopHit
  PROVE  LET row == [id |-> watch.id, code |-> watch.code, pid |-> watch.rows[watch.code].pid,
                     qty |-> watch.n]
         IN  /\ watch.pc = "settleOutcome" /\ watch.code \in watch.todo /\ watch.code \in Codes
             /\ row \in OutcomeRows /\ watch.id \in DOMAIN orders
             /\ watch.rows[watch.code].pid = pos[watch.code].pid
             /\ UNCHANGED <<pos, orders, swept>>
             /\ \/ /\ OutcomeTaken(watch.id) /\ outcomes' = outcomes
                   /\ WatchTo("aborted", watch.code, watch.n, watch.id, watch.answer, watch.any)
                \/ /\ ~OutcomeTaken(watch.id) /\ outcomes' = outcomes \cup {row}
                   /\ WatchTo("settleClose", watch.code, watch.n, watch.id, watch.answer, watch.any)
<1> USE DEF CustodyInv
<1>1. watch.pc = "settleOutcome" /\ watch \in WatchStates
  BY DEF RecordStopHit, WatchAt, WatchTyped
<1>2. /\ watch.code \in Codes /\ watch.code \in watch.todo /\ watch.code \in DOMAIN watch.rows
      /\ watch.n \in Nat /\ watch.id \in Nat
  BY <1>1, WatchStepsAre, WatchHasAtHand
<1>3. watch.rows[watch.code].pid = pos[watch.code].pid /\ pos[watch.code].pid \in 0 .. MaxDays
  BY <1>1, <1>2, PositionIs DEF WatchReads
<1>4. watch.id \in DOMAIN orders
  BY <1>1, <1>2 DEF WatchLocals, WatchReads, SettlePhase, StopOf
<1> DEFINE row == [id |-> watch.id, code |-> watch.code, pid |-> watch.rows[watch.code].pid,
                   qty |-> watch.n]
<1>5. row \in OutcomeRows
  BY <1>2, <1>3 DEF OutcomeRows
<1>6. CASE OutcomeTaken(watch.id)
  <2>1. WatchTo("aborted", watch.code, watch.n, watch.id, watch.answer, watch.any)
    BY <1>1, <1>6, WatchStepsAre, WatchStays DEF RecordStopHit
  <2> QED BY <1>1, <1>2, <1>3, <1>4, <1>5, <1>6, <2>1 DEF RecordStopHit
<1>7. CASE ~OutcomeTaken(watch.id)
  <2>1. WatchTo("settleClose", watch.code, watch.n, watch.id, watch.answer, watch.any)
    BY <1>1, <1>7, WatchStepsAre, WatchStays DEF RecordStopHit
  <2>2. outcomes' = outcomes \cup {row}
    BY <1>7 DEF RecordStopHit, RecordOutcome
  <2> QED BY <1>1, <1>2, <1>3, <1>4, <1>5, <1>7, <2>1, <2>2 DEF RecordStopHit
<1> QED BY <1>6, <1>7

\* The position is closed, or reduced.
LEMMA SettlePositionIs ==
  ASSUME CustodyInv, SettlePosition
  PROVE  LET c == watch.code
         IN  /\ watch.pc = "settleClose" /\ c \in watch.todo /\ c \in Codes /\ Changed(c)
             /\ WatchLoop("settle", watch.rows, watch.todo \ {c})
             /\ pos[c].open /\ watch.n \in Nat
             /\ pos'[c].stop = pos[c].stop /\ pos'[c].active = pos[c].active
             /\ pos'[c].pid = pos[c].pid
             /\ \/ /\ watch.n >= pos[c].qty /\ ~pos'[c].open /\ pos'[c].qty = 0
                \/ /\ watch.n < pos[c].qty /\ pos'[c].open
                   /\ pos'[c].qty = pos[c].qty - watch.n /\ pos'[c].qty \in Nat \ {0}
             /\ UNCHANGED <<orders, outcomes, swept>>
<1> USE DEF CustodyInv
<1> DEFINE c == watch.code
<1>1. watch.pc = "settleClose"
  BY DEF SettlePosition, WatchAt
<1>2. c \in Codes /\ c \in watch.todo /\ watch.n \in Nat
  BY <1>1, WatchStepsAre, WatchHasAtHand
<1>3. pos[c].open /\ pos[c].qty \in Nat
  BY <1>1, <1>2, PositionIs DEF WatchLocals
<1>4. WatchLoop("settle", watch.rows, watch.todo \ {c})
  BY WatchStepsAre, NextCodeIs DEF SettlePosition
<1>5. UNCHANGED <<orders, outcomes, swept>>
  BY DEF SettlePosition
<1>6. CASE watch.n >= pos[c].qty
  <2>1. ClosePosition(c)
    BY <1>6 DEF SettlePosition
  <2> HIDE DEF c
  <2>2. /\ Changed(c) /\ pos'[c].stop = pos[c].stop /\ pos'[c].open = FALSE
        /\ pos'[c].qty = 0 /\ pos'[c].active = pos[c].active /\ pos'[c].pid = pos[c].pid
    BY <1>2, <2>1, ClosePositionIs
  <2> QED BY <1>1, <1>2, <1>3, <1>4, <1>5, <1>6, <2>2 DEF c
<1>7. CASE ~(watch.n >= pos[c].qty)
  <2>1. ReducePosition(c, watch.n) /\ watch.n < pos[c].qty
    BY <1>2, <1>3, <1>7 DEF SettlePosition
  <2> HIDE DEF c
  <2>2. /\ Changed(c) /\ pos'[c].stop = pos[c].stop /\ pos'[c].open = pos[c].open
        /\ pos'[c].qty = pos[c].qty - watch.n /\ pos[c].qty - watch.n \in Nat \ {0}
        /\ pos'[c].active = pos[c].active /\ pos'[c].pid = pos[c].pid
    BY <1>2, <2>1, ReduceIs
  <2> QED BY <1>1, <1>2, <1>3, <1>4, <1>5, <2>1, <2>2 DEF c
<1> QED BY <1>6, <1>7

\* The settlement is done: what is missing is next, or the watch ends.
LEMMA SettlementDoneIs ==
  ASSUME CustodyInv, SettlementDone
  PROVE  LET rows == IF watch.any THEN LoadOpenPositions ELSE watch.rows
         IN  /\ watch.pc = "settle" /\ watch.todo = {} /\ rows \in Rows
             /\ \/ /\ watch.open /\ DOMAIN rows # {} /\ swept' = swept
                   /\ WatchLoop("register", rows, MissingStops(rows))
                   /\ MissingStops(rows) \subseteq DOMAIN rows
                \/ /\ ~watch.open \/ DOMAIN rows = {}
                   /\ WatchFresh("idle", FALSE, <<>>) /\ swept' = (swept \/ ~watch.open)
<1> USE DEF CustodyInv
<1> DEFINE rows == IF watch.any THEN LoadOpenPositions ELSE watch.rows
<1>1. watch.pc = "settle" /\ watch.todo = {}
  BY DEF SettlementDone, WatchAt
<1>2. rows \in Rows
  BY LoadIs DEF WatchTyped, WatchStates, Rows
<1>3. CASE watch.open /\ DOMAIN rows # {}
  <2>1. Loop("register", rows, MissingStops(rows)) /\ swept' = swept
    BY <1>3 DEF SettlementDone
  <2>2. MissingStops(rows) \subseteq DOMAIN rows
    BY DEF MissingStops
  <2>3. DOMAIN rows \subseteq Codes
    BY <1>2 DEF Rows
  <2> HIDE DEF rows
  <2>4. WatchLoop("register", rows, MissingStops(rows))
    BY <1>2, <2>1, <2>2, <2>3, WatchStepsAre, LoopIs DEF WatchTyped
  <2> QED BY <1>1, <1>2, <1>3, <2>1, <2>2, <2>4 DEF rows
<1>4. CASE ~(watch.open /\ DOMAIN rows # {})
  <2>1. WatchEnd
    BY <1>4 DEF SettlementDone
  <2>2. WatchFresh("idle", FALSE, <<>>) /\ swept' = (swept \/ ~watch.open)
    BY <2>1, NoWatch DEF WatchEnd
  <2> QED BY <1>1, <1>2, <1>4, <2>2
<1> QED BY <1>3, <1>4

\* The watch places a stop that is missing.
LEMMA RegisterMissingIs ==
  ASSUME CustodyInv, NEW c \in Codes, RegisterMissing(c)
  PROVE  LET q == watch.rows[c].qty
             t == watch.rows[c].stop
         IN  /\ watch.pc = "register" /\ c \in watch.todo /\ c \in DOMAIN watch.rows
             /\ q \in Nat \ {0} /\ t \in Stops /\ held' = held
             /\ \/ /\ WatchTo("registered", c, watch.n, watch.id, Submitted, watch.any)
                   /\ q <= held[c] /\ session = "open"
                   /\ ledger' = Append(ledger, LedgerRow(c, "stop", q, 0, TRUE, t))
                \/ /\ WatchTo("registered", c, watch.n, watch.id, Rejected, watch.any)
                   /\ ledger' = ledger
                   /\ q <= held[c] /\ session = "open" =>
                        LiveStop(ledger, c) \/ c \in watch'.refused
<1> USE DEF CustodyInv
<1> DEFINE q == watch.rows[c].qty
           t == watch.rows[c].stop
<1>1. watch.pc = "register" /\ c \in watch.todo /\ c \in DOMAIN watch.rows /\ watch \in WatchStates
  BY DEF RegisterMissing, WatchAt, WatchTyped
<1>2. q \in Nat \ {0} /\ t \in Stops
  <2>1. q \in Nat /\ t \in Stops
    BY <1>1, LoadedQty
  <2>2. q > 0
    BY <1>1 DEF WatchReads
  <2> QED BY <2>1, <2>2
<1> DEFINE able == SellFits(c, q) /\ ~LiveStop(ledger, c)
<1>3. PICK r \in PlaceStop(c, q, t) :
        /\ Apply(r)
        /\ watch' = [watch EXCEPT !.pc = "registered", !.code = c, !.answer = r.answer,
                      !.refused = @ \cup Refused(c, r.answer, able)]
  BY DEF RegisterMissing
<1> HIDE DEF able
<1>4. ASSUME NEW a \in Answers, r.answer = a
      PROVE  /\ WatchTo("registered", c, watch.n, watch.id, a, watch.any)
             /\ a = Rejected /\ able => c \in watch'.refused
  BY <1>1, <1>3, <1>4, WatchStepsAre DEF WatchTo, WatchStates, Refused, When
<1>5. /\ held' = held
      /\ \/ /\ r.answer = Submitted /\ SellFits(c, q)
            /\ ledger' = Append(ledger, LedgerRow(c, "stop", q, 0, TRUE, t))
         \/ /\ r.answer = Rejected /\ SellRefusable(c, q, "stopReject")
            /\ ledger' = ledger
  <2> HIDE DEF q, t
  <2> QED BY <1>2, <1>3, PlaceStopIs
<1>6. CASE r.answer = Submitted
  <2>1. WatchTo("registered", c, watch.n, watch.id, Submitted, watch.any)
    BY <1>4, <1>6, AnswersAre
  <2> QED BY <1>1, <1>2, <1>5, <1>6, <2>1, AnswersAre DEF SellFits
<1>7. CASE r.answer = Rejected
  <2>1. WatchTo("registered", c, watch.n, watch.id, Rejected, watch.any) /\ (able => c \in watch'.refused)
    BY <1>4, <1>7, AnswersAre
  <2> QED BY <1>1, <1>2, <1>5, <1>7, <2>1, AnswersAre DEF able, SellFits
<1> QED BY <1>5, <1>6, <1>7

\* It is recorded, or the refusal is.
LEMMA RecordRegisteredIs ==
  ASSUME CustodyInv, RecordRegistered
  PROVE  LET c == watch.code
             id == Len(orders) + 1
         IN  /\ watch.pc = "registered" /\ c \in watch.todo /\ c \in Codes
             /\ c \in DOMAIN watch.rows
             /\ UNCHANGED <<pos, outcomes, swept>>
             /\ \/ /\ watch.answer = Rejected /\ orders' = orders
                   /\ WatchLoop("register", watch.rows, watch.todo \ {c})
                \/ /\ watch.answer # Rejected
                   /\ \/ /\ watch.rows[c].active = 0
                         /\ WatchTo("link", c, watch.n, id, watch.answer, watch.any)
                      \/ /\ watch.rows[c].active # 0
                         /\ WatchTo("expire", c, watch.n, id, watch.answer, watch.any)
                   /\ orders' \in Seq(OrderRows) /\ id \notin DOMAIN orders /\ id \in Nat \ {0}
                   /\ DOMAIN orders' = DOMAIN orders \cup {id}
                   /\ \A i \in DOMAIN orders : orders'[i] = orders[i]
                   /\ orders'[id] =
                        [code |-> c, purpose |-> "stop", pid |-> day, qty |-> watch.rows[c].qty,
                         trig |-> watch.rows[c].stop, filled |-> watch.answer.filled,
                         odno |-> watch.answer.odno, status |-> watch.answer.status]
<1> USE DEF CustodyInv
<1> DEFINE c == watch.code
           id == Len(orders) + 1
           q == watch.rows[c].qty
           t == watch.rows[c].stop
           a == watch.answer
<1>1. watch.pc = "registered" /\ watch \in WatchStates
  BY DEF RecordRegistered, WatchAt, WatchTyped
<1>2. c \in Codes /\ c \in watch.todo /\ c \in DOMAIN watch.rows /\ a \in Answers
  BY <1>1, WatchStepsAre, WatchHasAtHand
<1>3. q \in Nat /\ t \in Stops
  BY <1>2, LoadedQty
<1>4. UNCHANGED <<pos, outcomes, swept>>
  BY DEF RecordRegistered
<1>5. CASE a = Rejected
  <2>1. orders' = orders /\ NextCode("register", c)
    BY <1>5 DEF RecordRegistered
  <2>2. WatchLoop("register", watch.rows, watch.todo \ {c})
    BY <2>1, WatchStepsAre, NextCodeIs
  <2> QED BY <1>1, <1>2, <1>4, <1>5, <2>1, <2>2
<1>6. CASE a # Rejected
  <2> DEFINE pc == IF watch.rows[c].active = 0 THEN "link" ELSE "expire"
  <2>1. RecordOrder(c, "stop", q, t, a)
    BY <1>6 DEF RecordRegistered
  <2>2. watch' = [watch EXCEPT !.pc = pc, !.id = id]
    BY <1>6 DEF RecordRegistered
  <2>3. pc \in WatchSteps
    BY WatchStepsAre
  <2>4. "stop" \in {"entry", "exit", "stop"}
    OBVIOUS
  <2> HIDE DEF c, q, t, a, pc, CustodyInv
  <2>5. AccountTypes /\ BookTypes
    BY DEF CustodyInv
  <2>6. /\ orders' \in Seq(OrderRows) /\ id \notin DOMAIN orders
        /\ DOMAIN orders' = DOMAIN orders \cup {id} /\ id \in Nat
        /\ \A i \in DOMAIN orders : orders'[i] = orders[i]
        /\ orders'[id] =
             [code |-> c, purpose |-> "stop", pid |-> day, qty |-> q, trig |-> t,
              filled |-> a.filled, odno |-> a.odno, status |-> a.status]
    BY <1>2, <1>3, <2>1, <2>4, <2>5, RecordOrderIs
  <2>7. id # 0
    BY <2>5 DEF BookTypes
  <2> HIDE DEF id
  <2>8. WatchTo(pc, c, watch.n, id, a, watch.any)
    BY <1>1, <2>2, <2>3, <2>6 DEF WatchTo, WatchStates, c, a
  <2> QED BY <1>1, <1>2, <1>4, <1>6, <2>6, <2>7, <2>8 DEF c, q, t, a, id, pc
<1> QED BY <1>5, <1>6

\* The old stop has expired.
LEMMA ExpireOldStopIs ==
  ASSUME CustodyInv, ExpireOldStop
  PROVE  LET id == watch.rows[watch.code].active
         IN  /\ watch.pc = "expire" /\ watch.code \in watch.todo /\ watch.code \in Codes
             /\ watch.code \in DOMAIN watch.rows
             /\ WatchTo("link", watch.code, watch.n, watch.id, watch.answer, watch.any)
             /\ StopOf(watch.code, id) /\ id # 0
             /\ Rewritten(id) /\ orders'[id].trig = orders[id].trig
             /\ orders'[id].filled = orders[id].filled /\ orders'[id].odno = orders[id].odno
             /\ UNCHANGED <<pos, outcomes, swept>>
<1> USE DEF CustodyInv
<1> DEFINE id == watch.rows[watch.code].active
<1>1. watch.pc = "expire" /\ watch \in WatchStates /\ watch.pc # "idle"
  BY DEF ExpireOldStop, WatchAt, WatchTyped
<1>2. watch.code \in Codes /\ watch.code \in watch.todo /\ watch.code \in DOMAIN watch.rows
  BY <1>1, WatchStepsAre, WatchHasAtHand
<1>3. StopOf(watch.code, id) /\ id # 0
  BY <1>1, <1>2 DEF WatchLocals, WatchReads
<1>4. WatchTo("link", watch.code, watch.n, watch.id, watch.answer, watch.any)
  BY <1>1, WatchStepsAre, WatchStays DEF ExpireOldStop
<1>5. CloseExpiredStop(id) /\ id \in DOMAIN orders
  BY <1>3 DEF ExpireOldStop, StopOf
<1> HIDE DEF id
<1>6. /\ Rewritten(id) /\ orders'[id].trig = orders[id].trig
      /\ orders'[id].filled = orders[id].filled /\ orders'[id].odno = orders[id].odno
  BY <1>5, ExpiryIs
<1> QED BY <1>1, <1>2, <1>3, <1>4, <1>6 DEF ExpireOldStop, id

\* The stop is linked to its position.
LEMMA LinkRegisteredIs ==
  ASSUME CustodyInv, LinkRegistered
  PROVE  LET c == watch.code
         IN  /\ watch.pc = "link" /\ c \in watch.todo /\ c \in Codes /\ c \in DOMAIN watch.rows
             /\ WatchLoop("register", watch.rows, watch.todo \ {c})
             /\ StopOf(c, watch.id) /\ Changed(c)
             /\ pos'[c].stop = pos[c].stop /\ pos'[c].open = pos[c].open
             /\ pos'[c].qty = pos[c].qty /\ pos'[c].active = watch.id /\ pos'[c].pid = pos[c].pid
             /\ UNCHANGED <<orders, outcomes, swept>>
<1> USE DEF CustodyInv
<1> DEFINE c == watch.code
<1>1. watch.pc = "link" /\ watch.pc # "idle"
  BY DEF LinkRegistered, WatchAt
<1>2. c \in Codes /\ c \in watch.todo /\ c \in DOMAIN watch.rows /\ watch.id \in Nat
  BY <1>1, WatchStepsAre, WatchHasAtHand
<1>3. StopOf(c, watch.id)
  BY <1>1 DEF WatchLocals
<1>4. WatchLoop("register", watch.rows, watch.todo \ {c})
  BY WatchStepsAre, NextCodeIs DEF LinkRegistered
<1>5. SetActiveStop(c, watch.id) /\ UNCHANGED <<orders, outcomes, swept>>
  BY DEF LinkRegistered
<1> HIDE DEF c
<1>6. /\ Changed(c) /\ pos'[c].stop = pos[c].stop /\ pos'[c].open = pos[c].open
      /\ pos'[c].qty = pos[c].qty /\ pos'[c].active = watch.id /\ pos'[c].pid = pos[c].pid
  BY <1>2, <1>5, SetActiveIs
<1> QED BY <1>1, <1>2, <1>3, <1>4, <1>5, <1>6 DEF c

\* The registrations are done: what is out of date is next.
LEMMA RegistrationDoneIs ==
  ASSUME CustodyInv, RegistrationDone
  PROVE  /\ watch.pc = "register" /\ watch.todo = {} /\ swept' = swept /\ watch.open
         /\ WatchLoop("stale", watch.rows, StaleStops(watch.rows))
         /\ StaleStops(watch.rows) \subseteq DOMAIN watch.rows
<1> USE DEF CustodyInv
<1>1. watch.pc = "register" /\ watch.todo = {} /\ swept' = swept
  BY DEF RegistrationDone, WatchAt
<1>2. watch.rows \in Rows /\ StaleStops(watch.rows) \subseteq DOMAIN watch.rows
  BY DEF WatchTyped, WatchStates, Rows, StaleStops
<1>3. DOMAIN watch.rows \subseteq Codes
  BY <1>2 DEF Rows
<1>4. WatchLoop("stale", watch.rows, StaleStops(watch.rows))
  BY <1>2, <1>3, WatchStepsAre, LoopIs DEF RegistrationDone, WatchTyped
<1> QED BY <1>1, <1>2, <1>4 DEF WatchTyped, RegisterPhase

\* The watch asks KIS to revise a stop that is out of date.
LEMMA ReviseStaleIs ==
  ASSUME CustodyInv, NEW c \in Codes, ReviseStale(c)
  PROVE  LET odno == watch.rows[c].odno
             t == watch.rows[c].stop
         IN  /\ watch.pc = "stale" /\ c \in watch.todo /\ c \in DOMAIN watch.rows /\ t \in Stops
             /\ held' = held
             /\ \/ /\ WatchLoop("stale", watch.rows, watch.todo \ {c}) /\ ledger' = ledger
                   /\ IsLive(odno) => c \in watch'.refused
                \/ /\ WatchTo("revised", c, watch.n, watch.id, Submitted, watch.any)
                   /\ session = "open" /\ odno[2] \in DOMAIN ledger /\ odno = <<day, odno[2]>>
                   /\ ledger[odno[2]].live
                   /\ ledger' = Append([ledger EXCEPT ![odno[2]].live = FALSE],
                                       LedgerRow(c, "stop", Remaining(ledger[odno[2]]), 0, TRUE, t))
<1> USE DEF CustodyInv
<1> DEFINE odno == watch.rows[c].odno
           t == watch.rows[c].stop
<1>1. watch.pc = "stale" /\ c \in watch.todo /\ c \in DOMAIN watch.rows /\ watch \in WatchStates
  BY DEF ReviseStale, WatchAt, WatchTyped
<1>2. t \in Stops /\ odno \in Odnos
  BY <1>1, LoadedQty
<1>3. PICK r \in IF odno = NoOdno THEN {Unchanged(Rejected)} ELSE ReviseStop(c, odno, t) :
        /\ Apply(r)
        /\ IF r.answer = Rejected
           THEN watch' = [watch EXCEPT !.todo = @ \ {c},
                            !.refused = @ \cup Refused(c, r.answer, IsLive(odno))]
           ELSE watch' = [watch EXCEPT !.pc = "revised", !.code = c, !.answer = r.answer]
  BY DEF ReviseStale
<1>4. CASE r.answer = Rejected
  <2>1. WatchLoop("stale", watch.rows, watch.todo \ {c}) /\ (IsLive(odno) => c \in watch'.refused)
    <3> DEFINE turned == Refused(c, r.answer, IsLive(odno))
    <3>1. watch' = [watch EXCEPT !.todo = @ \ {c}, !.refused = @ \cup turned]
      BY <1>3, <1>4
    <3>2. turned \subseteq Codes /\ (IsLive(odno) => c \in turned)
      BY <1>4 DEF Refused, When
    <3>3. watch.answer = NoAnswer
      BY <1>1 DEF WatchLocals
    <3> HIDE DEF CustodyInv, turned
    <3> QED BY <1>1, <3>1, <3>2, <3>3 DEF WatchLoop, WatchStates
  <2>2. CASE odno = NoOdno
    <3>1. ledger' = ledger /\ held' = held
      BY <1>3, <2>2 DEF Unchanged, Result, Apply
    <3> QED BY <1>1, <1>2, <2>1, <2>2, <3>1
  <2>3. CASE odno # NoOdno
    <3>1. r \in ReviseStop(c, odno, t)
      BY <1>3, <2>3
    <3> HIDE DEF odno, t
    <3>2. ledger' = ledger /\ held' = held
      BY <1>2, <1>3, <1>4, <3>1, ReviseStopIs, AnswersAre
    <3> QED BY <1>1, <1>2, <2>1, <3>2 DEF odno, t
  <2> QED BY <2>2, <2>3
<1>5. CASE r.answer # Rejected
  <2>1. odno # NoOdno
    BY <1>3, <1>5 DEF Unchanged, Result
  <2>2. r \in ReviseStop(c, odno, t)
    BY <1>3, <2>1
  <2>3. watch' = [watch EXCEPT !.pc = "revised", !.code = c, !.answer = r.answer]
    BY <1>3, <1>5
  <2> HIDE DEF odno, t
  <2>4. /\ r.answer = Submitted /\ session = "open" /\ held' = held
        /\ HasRow(ledger, odno) /\ ledger[odno[2]].live
        /\ ledger' = Append([ledger EXCEPT ![odno[2]].live = FALSE],
                            LedgerRow(c, "stop", Remaining(ledger[odno[2]]), 0, TRUE, t))
    <3> HIDE DEF CustodyInv
    <3>1. AccountTypes /\ Apply(r)
      BY <1>3 DEF CustodyInv
    <3> QED BY <1>2, <1>5, <2>2, <3>1, ReviseStopIs
  <2>5. WatchTo("revised", c, watch.n, watch.id, Submitted, watch.any)
    <3>1. Submitted \in Answers
      BY AnswersAre
    <3> QED BY <1>1, <2>3, <2>4, <3>1, WatchStepsAre DEF WatchTo, WatchStates
  <2>6. odno[2] \in DOMAIN ledger /\ odno = <<day, odno[2]>>
    BY <1>2, <2>4 DEF HasRow, Odnos
  <2> QED BY <1>1, <1>2, <2>4, <2>5, <2>6 DEF odno, t
<1> QED BY <1>4, <1>5

\* The revision is recorded.
LEMMA RecordStaleRevisionIs ==
  ASSUME CustodyInv, RecordStaleRevision
  PROVE  LET id == watch.rows[watch.code].active
         IN  /\ watch.pc = "revised" /\ watch.code \in watch.todo /\ watch.code \in Codes
             /\ watch.code \in DOMAIN watch.rows
             /\ WatchLoop("stale", watch.rows, watch.todo \ {watch.code})
             /\ StopOf(watch.code, id) /\ id # 0
             /\ Rewritten(id) /\ orders'[id].filled = orders[id].filled
             /\ UNCHANGED <<pos, outcomes, swept>>
             /\ orders'[id].trig = watch.rows[watch.code].stop
             /\ orders'[id].odno =
                  IF watch.answer.odno = NoOdno THEN orders[id].odno ELSE watch.answer.odno
<1> USE DEF CustodyInv
<1> DEFINE id == watch.rows[watch.code].active
           t == watch.rows[watch.code].stop
           o == watch.answer.odno
<1>1. watch.pc = "revised" /\ watch \in WatchStates /\ watch.pc # "idle"
  BY DEF RecordStaleRevision, WatchAt, WatchTyped
<1>2. /\ watch.code \in Codes /\ watch.code \in watch.todo /\ watch.code \in DOMAIN watch.rows
      /\ o \in Odnos
  BY <1>1, WatchStepsAre, WatchHasAtHand
<1>3. StopOf(watch.code, id) /\ id # 0 /\ t \in Stops
  BY <1>1, <1>2, LoadedQty DEF WatchLocals, WatchReads, StalePhase
<1>4. WatchLoop("stale", watch.rows, watch.todo \ {watch.code})
  BY WatchStepsAre, NextCodeIs DEF RecordStaleRevision
<1>5. RecordStopRevision(id, t, o) /\ id \in DOMAIN orders
  BY <1>3 DEF RecordStaleRevision, StopOf
<1> HIDE DEF id, t, o
<1>6. /\ Rewritten(id) /\ orders'[id].trig = t /\ orders'[id].filled = orders[id].filled
      /\ orders'[id].odno = IF o = NoOdno THEN orders[id].odno ELSE o
  BY <1>2, <1>3, <1>5, RevisionIs
<1>7. UNCHANGED <<pos, outcomes, swept>>
  BY DEF RecordStaleRevision
<1> QED BY <1>1, <1>2, <1>3, <1>4, <1>6, <1>7 DEF id, t, o

\* The watch ends, with all its work done or without any.
LEMMA WatchEndIs ==
  ASSUME CustodyInv
  PROVE  /\ WatchEnds => /\ watch.pc = "stale" /\ watch.todo = {} /\ WatchFresh("idle", FALSE, <<>>)
                         /\ swept' = swept
         /\ WatchAborts => /\ watch.pc = "aborted" /\ WatchFresh("idle", FALSE, <<>>)
                           /\ swept' = swept
         /\ WatchNothing => /\ watch' = watch /\ swept' = TRUE /\ session = "closed"
                            /\ OpenCodes = {} /\ watch.pc = "idle"
<1> USE DEF CustodyInv
<1>1. ASSUME WatchEnds
      PROVE  /\ watch.pc = "stale" /\ watch.todo = {} /\ WatchFresh("idle", FALSE, <<>>)
             /\ swept' = swept
  <2>1. watch.pc = "stale" /\ watch.todo = {} /\ watch' = IdleWatch
        /\ swept' = (swept \/ ~watch.open)
    BY <1>1 DEF WatchEnds, WatchEnd, WatchAt
  <2>2. watch.open = TRUE /\ swept \in BOOLEAN
    BY <2>1 DEF WatchTyped, WatchStates, StalePhase, FlagsKept
  <2> QED BY <2>1, <2>2, NoWatch
<1>2. ASSUME WatchAborts
      PROVE  watch.pc = "aborted" /\ WatchFresh("idle", FALSE, <<>>) /\ swept' = swept
  BY <1>2, NoWatch DEF WatchAborts, WatchAt
<1> QED BY <1>1, <1>2 DEF WatchNothing, WatchAt

-----------------------------------------------------------------------------
(* What a step does to the book and to the account.                        *)

Recorded(row) ==
  /\ orders' \in Seq(OrderRows) /\ Len(orders) + 1 \notin DOMAIN orders
  /\ DOMAIN orders' = DOMAIN orders \cup {Len(orders) + 1} /\ Len(orders) + 1 \in Nat
  /\ \A i \in DOMAIN orders : orders'[i] = orders[i]
  /\ orders'[Len(orders) + 1] = row

BookChange ==
  \/ UNCHANGED bookVars
  \/ \E id \in DOMAIN orders :
       /\ Rewritten(id) /\ UNCHANGED <<pos, outcomes>>
       /\ orders'[id].odno = orders[id].odno \/ NumberOf(orders'[id].odno, orders[id].code)
  \/ \E row : /\ Recorded(row) /\ row.pid = day
              /\ row.purpose = "stop" => NumberOf(row.odno, row.code)
              /\ UNCHANGED <<pos, outcomes>>
  \/ \E c \in Codes :
       /\ Changed(c) /\ (pos'[c].open <=> pos'[c].qty > 0)
       /\ pos'[c].active # 0 => StopOf(c, pos'[c].active)
       /\ pos'[c].pid \in {pos[c].pid, day} /\ UNCHANGED <<orders, outcomes>>
  \/ \E row \in OutcomeRows :
       /\ row.id \in DOMAIN orders /\ row.pid <= day /\ outcomes' = outcomes \cup {row}
       /\ UNCHANGED <<pos, orders>>

\* What the cycle does to the book.
LEMMA CycleBooksIs ==
  ASSUME CustodyInv, CycleBooks
  PROVE  BookChange
<1> USE DEF CustodyInv
<1>1. CASE RecordRevision
  <2>1. /\ cyc.id \in DOMAIN orders /\ Rewritten(cyc.id) /\ UNCHANGED <<pos, outcomes>>
        /\ orders[cyc.id].code = cyc.code /\ cyc.pc = "revised"
        /\ orders'[cyc.id].odno = IF cyc.answer.odno = NoOdno THEN orders[cyc.id].odno
                                  ELSE cyc.answer.odno
    BY <1>1, StepsAre, RecordRevisionIs DEF StopOf
  <2>2. NumberOf(cyc.answer.odno, cyc.code)
    BY <2>1 DEF CycleLocals
  <2> QED BY <2>1, <2>2 DEF BookChange
<1>2. CASE RaiseBookStop
  <2>1. PositionsKept
    OBVIOUS
  <2>2. /\ cyc.code \in Codes /\ Changed(cyc.code) /\ pos'[cyc.code].open = pos[cyc.code].open
        /\ pos'[cyc.code].qty = pos[cyc.code].qty /\ pos'[cyc.code].active = pos[cyc.code].active
        /\ pos'[cyc.code].pid = pos[cyc.code].pid /\ UNCHANGED <<orders, outcomes>>
    BY <1>2, RaiseBookStopIs
  <2> QED BY <2>1, <2>2 DEF BookChange, PositionsKept
<1>3. CASE RecordExit
  <2> DEFINE row == [code |-> cyc.code, purpose |-> "exit", pid |-> day, qty |-> pos[cyc.code].qty,
                     trig |-> 0, filled |-> cyc.answer.filled, odno |-> cyc.answer.odno,
                     status |-> cyc.answer.status]
  <2>1. Recorded(row) /\ UNCHANGED <<pos, outcomes>>
    BY <1>3, RecordExitIs DEF Recorded
  <2>2. row.pid = day /\ row.purpose # "stop"
    OBVIOUS
  <2> HIDE DEF row
  <2> QED BY <2>1, <2>2 DEF BookChange
<1>4. CASE RecordExitOutcome
  <2> DEFINE row == [id |-> cyc.id, code |-> cyc.code, pid |-> pos[cyc.code].pid, qty |-> cyc.n]
  <2>1. /\ row \in OutcomeRows /\ cyc.id \in DOMAIN orders /\ outcomes' = outcomes \cup {row}
        /\ UNCHANGED <<pos, orders>> /\ cyc.code \in Codes
    BY <1>4, RecordExitOutcomeIs
  <2>2. row.id = cyc.id /\ row.pid = pos[cyc.code].pid
    OBVIOUS
  <2>3. pos[cyc.code].pid <= day
    BY <2>1 DEF DatesKept
  <2> HIDE DEF row
  <2> QED BY <2>1, <2>2, <2>3 DEF BookChange
<1>5. CASE SettleExit
  <2>1. /\ cyc.code \in Codes /\ Changed(cyc.code) /\ pos'[cyc.code].open = FALSE
        /\ pos'[cyc.code].qty = 0 /\ pos'[cyc.code].active = pos[cyc.code].active
        /\ pos'[cyc.code].pid = pos[cyc.code].pid /\ UNCHANGED <<orders, outcomes>>
    BY <1>5, SettleExitIs
  <2>2. pos[cyc.code].active # 0 => StopOf(cyc.code, pos[cyc.code].active)
    BY <2>1 DEF PositionsKept
  <2> QED BY <2>1, <2>2 DEF BookChange
<1>6. CASE RecordEntry
  <2> DEFINE row == [code |-> cyc.code, purpose |-> "entry", pid |-> day, qty |-> Lot,
                     trig |-> 0, filled |-> cyc.answer.filled, odno |-> cyc.answer.odno,
                     status |-> cyc.answer.status]
  <2>1. Recorded(row) /\ UNCHANGED <<pos, outcomes>>
    BY <1>6, RecordEntryIs DEF Recorded
  <2>2. row.pid = day /\ row.purpose # "stop"
    OBVIOUS
  <2> HIDE DEF row
  <2> QED BY <2>1, <2>2 DEF BookChange
<1>7. CASE BookEntry
  <2>1. /\ cyc.code \in Codes /\ Changed(cyc.code) /\ pos'[cyc.code].open = TRUE
        /\ pos'[cyc.code].qty = cyc.n /\ cyc.n > 0 /\ pos'[cyc.code].active = 0
        /\ pos'[cyc.code].pid = day /\ UNCHANGED <<orders, outcomes>>
    BY <1>7, BookEntryIs
  <2> QED BY <2>1 DEF BookChange
<1>8. CASE RecordStop
  <2> DEFINE row == [code |-> cyc.code, purpose |-> "stop", pid |-> day, qty |-> cyc.n,
                     trig |-> 1, filled |-> cyc.answer.filled, odno |-> cyc.answer.odno,
                     status |-> cyc.answer.status]
  <2>1. Recorded(row) /\ UNCHANGED <<pos, outcomes>> /\ cyc.pc = "stopSent"
    BY <1>8, RecordStopIs DEF Recorded
  <2>2. row.pid = day /\ NumberOf(row.odno, row.code)
    BY <2>1 DEF CycleLocals
  <2> HIDE DEF row
  <2> QED BY <2>1, <2>2 DEF BookChange
<1>9. CASE LinkStop
  <2>1. PositionsKept
    OBVIOUS
  <2>2. /\ cyc.code \in Codes /\ Changed(cyc.code) /\ pos'[cyc.code].open = pos[cyc.code].open
        /\ pos'[cyc.code].qty = pos[cyc.code].qty /\ pos'[cyc.code].active = cyc.id
        /\ StopOf(cyc.code, cyc.id)
        /\ pos'[cyc.code].pid = pos[cyc.code].pid /\ UNCHANGED <<orders, outcomes>>
    BY <1>9, LinkStopIs
  <2> QED BY <2>1, <2>2 DEF BookChange, PositionsKept
<1> QED BY <1>1, <1>2, <1>3, <1>4, <1>5, <1>6, <1>7, <1>8, <1>9 DEF CycleBooks

\* What the watch does to the book.
LEMMA WatchBooksIs ==
  ASSUME CustodyInv, WatchBooks
  PROVE  BookChange
<1> USE DEF CustodyInv
<1>1. ASSUME NEW c \in Codes, MarkFilled(c) PROVE BookChange
  <2> DEFINE id == watch.rows[c].active
  <2>1. /\ StopOf(c, id) /\ UNCHANGED <<pos, outcomes>>
        /\ orders' = orders \/ (Rewritten(id) /\ orders'[id].odno = orders[id].odno)
    BY <1>1, MarkFilledIs
  <2> QED BY <2>1 DEF BookChange, bookVars, StopOf
<1>2. CASE RecordStopHit
  <2> DEFINE row == [id |-> watch.id, code |-> watch.code, pid |-> watch.rows[watch.code].pid,
                     qty |-> watch.n]
  <2>1. /\ row \in OutcomeRows /\ watch.id \in DOMAIN orders
        /\ outcomes' = outcomes \/ outcomes' = outcomes \cup {row}
        /\ UNCHANGED <<pos, orders>> /\ watch.code \in Codes
        /\ watch.rows[watch.code].pid = pos[watch.code].pid
    BY <1>2, RecordStopHitIs
  <2>2. row.id = watch.id /\ row.pid = pos[watch.code].pid
    BY <2>1
  <2>3. pos[watch.code].pid <= day
    BY <2>1 DEF DatesKept
  <2> HIDE DEF row
  <2> QED BY <2>1, <2>2, <2>3 DEF BookChange, bookVars
<1>3. CASE SettlePosition
  <2> DEFINE c == watch.code
  <2>1. /\ c \in Codes /\ Changed(c) /\ UNCHANGED <<orders, outcomes>>
        /\ pos'[c].active = pos[c].active /\ pos'[c].pid = pos[c].pid
        /\ \/ ~pos'[c].open /\ pos'[c].qty = 0
           \/ pos'[c].open /\ pos'[c].qty \in Nat \ {0}
    BY <1>3, SettlePositionIs
  <2>2. pos[c].active # 0 => StopOf(c, pos[c].active)
    BY <2>1 DEF PositionsKept
  <2> HIDE DEF c
  <2>3. pos'[c].open <=> pos'[c].qty > 0
    BY <2>1
  <2> QED BY <2>1, <2>2, <2>3 DEF BookChange
<1>4. CASE RecordRegistered
  <2> DEFINE row == [code |-> watch.code, purpose |-> "stop", pid |-> day,
                     qty |-> watch.rows[watch.code].qty,
                     trig |-> watch.rows[watch.code].stop, filled |-> watch.answer.filled,
                     odno |-> watch.answer.odno, status |-> watch.answer.status]
  <2>1. /\ UNCHANGED <<pos, outcomes>> /\ watch.pc = "registered"
        /\ orders' = orders \/ Recorded(row)
    <3>1. Len(orders) + 1 \in Nat
      BY DEF BookTypes
    <3> QED BY <1>4, <3>1, WatchStepsAre, RecordRegisteredIs DEF Recorded
  <2>2. row.pid = day /\ NumberOf(row.odno, row.code)
    BY <2>1 DEF WatchLocals
  <2> HIDE DEF row
  <2> QED BY <2>1, <2>2 DEF BookChange, bookVars
<1>5. CASE ExpireOldStop
  <2> DEFINE id == watch.rows[watch.code].active
  <2>1. /\ StopOf(watch.code, id) /\ UNCHANGED <<pos, outcomes>>
        /\ Rewritten(id) /\ orders'[id].odno = orders[id].odno
    BY <1>5, ExpireOldStopIs
  <2> QED BY <2>1 DEF BookChange, StopOf
<1>6. CASE LinkRegistered
  <2> DEFINE c == watch.code
  <2>1. PositionsKept
    OBVIOUS
  <2>2. /\ c \in Codes /\ Changed(c) /\ pos'[c].open = pos[c].open
        /\ pos'[c].qty = pos[c].qty /\ pos'[c].active = watch.id /\ StopOf(c, watch.id)
        /\ pos'[c].pid = pos[c].pid /\ UNCHANGED <<orders, outcomes>>
    BY <1>6, LinkRegisteredIs
  <2> QED BY <2>1, <2>2 DEF BookChange, PositionsKept
<1>7. CASE RecordStaleRevision
  <2> DEFINE id == watch.rows[watch.code].active
  <2>1. /\ StopOf(watch.code, id) /\ UNCHANGED <<pos, outcomes>> /\ watch.pc = "revised"
        /\ Rewritten(id)
        /\ orders'[id].odno = IF watch.answer.odno = NoOdno THEN orders[id].odno
                              ELSE watch.answer.odno
    BY <1>7, WatchStepsAre, RecordStaleRevisionIs
  <2>2. NumberOf(watch.answer.odno, watch.code)
    BY <2>1 DEF WatchLocals
  <2> QED BY <2>1, <2>2 DEF BookChange, StopOf
<1> QED BY <1>1, <1>2, <1>3, <1>4, <1>5, <1>6, <1>7 DEF WatchBooks

\* What any step does to the book.
LEMMA BookChanges ==
  ASSUME CustodyInv, [Next]_vars
  PROVE  BookChange
<1>1. CASE UNCHANGED bookVars
  BY <1>1 DEF BookChange
<1> QED BY <1>1, EveryStep, CycleBooksIs, WatchBooksIs DEF vars

\* Orders are not forgotten, and keep their stock and purpose.
OrdersKept ==
  /\ DOMAIN orders \subseteq DOMAIN orders'
  /\ \A i \in DOMAIN orders : /\ orders'[i].code = orders[i].code
                              /\ orders'[i].purpose = orders[i].purpose
                              /\ orders'[i].pid = orders[i].pid

\* The ledger of a day only grows, and its orders keep their stock and kind.
LedgerKept ==
  /\ day' = day /\ DOMAIN ledger \subseteq DOMAIN ledger'
  /\ \A i \in DOMAIN ledger : /\ ledger'[i].code = ledger[i].code
                              /\ ledger'[i].kind = ledger[i].kind
                              /\ ledger'[i].qty = ledger[i].qty
                              /\ ledger'[i].filled >= ledger[i].filled
                              /\ ledger'[i].live => ledger[i].live

NewLedger == ledger' = <<>> /\ day' = day + 1

\* A later write keeps the orders, and so does a new row.
LEMMA OrdersStep ==
  ASSUME CustodyInv, [Next]_vars
  PROVE  OrdersKept
<1> USE DEF CustodyInv
<1>1. CASE UNCHANGED bookVars
  BY <1>1 DEF OrdersKept, bookVars
<1>2. ASSUME NEW id \in DOMAIN orders, Rewritten(id) PROVE OrdersKept
  BY <1>2 DEF Rewritten, OrdersKept
<1>3. ASSUME NEW row, Recorded(row) PROVE OrdersKept
  BY <1>3 DEF Recorded, OrdersKept
<1>4. CASE UNCHANGED orders
  BY <1>4 DEF OrdersKept
<1> QED BY <1>1, <1>2, <1>3, <1>4, BookChanges DEF BookChange

\* The link of a position stays the link to an order of its stock.
LEMMA StopOfKept ==
  ASSUME OrdersKept, NEW c, NEW id, StopOf(c, id)
  PROVE  StopOf(c, id)'
BY DEF OrdersKept, StopOf

\* A step writes only well typed rows.
LEMMA BookStep ==
  ASSUME CustodyInv, [Next]_vars
  PROVE  BookTypes' /\ PositionsKept'
<1> USE DEF CustodyInv
<1>1. OrdersKept
  BY OrdersStep
<1>2. CASE UNCHANGED bookVars
  BY <1>2 DEF BookTypes, PositionsKept, StopOf, bookVars
<1>3. CASE \E id \in DOMAIN orders : Rewritten(id) /\ UNCHANGED <<pos, outcomes>>
  <2>1. BookTypes'
    BY <1>3 DEF Rewritten, BookTypes
  <2>2. PositionsKept'
    BY <1>1, <1>3, StopOfKept DEF PositionsKept
  <2> QED BY <2>1, <2>2
<1>4. CASE \E row : Recorded(row) /\ UNCHANGED <<pos, outcomes>>
  <2>1. BookTypes'
    BY <1>4 DEF Recorded, BookTypes
  <2>2. PositionsKept'
    BY <1>1, <1>4, StopOfKept DEF PositionsKept
  <2> QED BY <2>1, <2>2
<1>5. ASSUME NEW c \in Codes, Changed(c), pos'[c].open <=> pos'[c].qty > 0,
             pos'[c].active # 0 => StopOf(c, pos'[c].active), UNCHANGED <<orders, outcomes>>
      PROVE  BookTypes' /\ PositionsKept'
  <2>1. BookTypes'
    BY <1>5 DEF Changed, BookTypes
  <2>2. PositionsKept'
    BY <1>5 DEF Changed, PositionsKept, StopOf
  <2> QED BY <2>1, <2>2
<1>6. ASSUME NEW row \in OutcomeRows, row.id \in DOMAIN orders, outcomes' = outcomes \cup {row},
             UNCHANGED <<pos, orders>>
      PROVE  BookTypes' /\ PositionsKept'
  BY <1>6 DEF BookTypes, PositionsKept, StopOf
<1> QED BY <1>2, <1>3, <1>4, <1>5, <1>6, BookChanges DEF BookChange

\* What is appended to the ledger leaves its orders as they are.
LEMMA AppendKeeps ==
  ASSUME AccountTypes, NEW row \in LedgerRows, ledger' = Append(ledger, row), day' = day
  PROVE  LedgerKept
<1>1. ledger \in Seq(LedgerRows) /\ \A i \in DOMAIN ledger : ledger[i] \in LedgerRows
  BY DEF AccountTypes
<1>2. DOMAIN ledger \subseteq DOMAIN ledger' /\ \A i \in DOMAIN ledger : ledger'[i] = ledger[i]
  BY <1>1, AppendIs
<1>3. \A i \in DOMAIN ledger : ledger[i].filled \in Nat
  BY <1>1 DEF LedgerRows
<1> QED BY <1>2, <1>3 DEF LedgerKept

\* So does a revision, but for the old order, which is no longer live.
LEMMA RevisionKeeps ==
  ASSUME AccountTypes, FillsKept, NEW c \in Codes, NEW j \in DOMAIN ledger, NEW t \in Stops,
         ledger' = Append([ledger EXCEPT ![j].live = FALSE],
                          LedgerRow(c, "stop", Remaining(ledger[j]), 0, TRUE, t)),
         day' = day
  PROVE  LedgerKept
<1>1. \A i \in DOMAIN ledger : ledger[i] \in LedgerRows
  BY DEF AccountTypes
<1>2. \A i \in DOMAIN ledger : ledger[i].filled \in Nat
  BY <1>1 DEF LedgerRows
<1>3. /\ DOMAIN ledger' = DOMAIN ledger \cup {Len(ledger) + 1}
      /\ \A i \in DOMAIN ledger \ {j} : ledger'[i] = ledger[i]
      /\ ledger'[j].code = ledger[j].code /\ ledger'[j].kind = ledger[j].kind
      /\ ledger'[j].qty = ledger[j].qty /\ ledger'[j].filled = ledger[j].filled
      /\ ledger'[j].live = FALSE
  BY RevisedIs
<1>4. \A i \in DOMAIN ledger : ledger'[i].filled = ledger[i].filled
  BY <1>3
<1>5. ASSUME NEW i \in DOMAIN ledger PROVE ledger'[i].filled >= ledger[i].filled
  <2> DEFINE f == ledger[i].filled
             g == ledger'[i].filled
  <2>1. f \in Nat /\ g = f
    BY <1>2, <1>4
  <2> HIDE DEF f, g
  <2>2. g >= f
    BY <2>1
  <2> QED BY <2>2 DEF f, g
<1>6. \A i \in DOMAIN ledger : /\ ledger'[i].code = ledger[i].code /\ ledger'[i].kind = ledger[i].kind
                                /\ ledger'[i].qty = ledger[i].qty
                                /\ ledger'[i].live => ledger[i].live
  BY <1>3
<1> QED BY <1>3, <1>5, <1>6 DEF LedgerKept

\* A step that leaves the ledger alone keeps it.
LEMMA LedgerStays ==
  ASSUME AccountTypes, UNCHANGED <<ledger, day>>
  PROVE  LedgerKept
<1>1. \A i \in DOMAIN ledger : ledger[i] \in LedgerRows
  BY DEF AccountTypes
<1>2. \A i \in DOMAIN ledger : ledger[i].filled \in Nat
  BY <1>1 DEF LedgerRows
<1>3. \A i \in DOMAIN ledger : ledger'[i].filled >= ledger[i].filled
  BY <1>2
<1> QED BY <1>3 DEF LedgerKept

\* The ledger is kept through the day.
LEMMA LedgerStep ==
  ASSUME CustodyInv, [Next]_vars
  PROVE  LedgerKept \/ (NewLedger /\ NewDay)
<1> USE DEF CustodyInv
<1>1. \A i \in DOMAIN ledger : ledger[i].filled \in Nat
  <2>1. \A i \in DOMAIN ledger : ledger[i] \in LedgerRows
    BY DEF AccountTypes
  <2> QED BY <2>1 DEF LedgerRows
<1>2. ASSUME UNCHANGED <<ledger, day>> PROVE LedgerKept
  BY <1>2, LedgerStays
<1>3. CASE Nature
  <2>1. ASSUME NEW i \in DOMAIN ledger, NEW n \in 1 .. Lot, StopTriggers(i, n)
        PROVE  LedgerKept
    <3>1. /\ DOMAIN ledger' = DOMAIN ledger /\ day' = day /\ n \in Nat /\ ledger[i].live
          /\ \A j \in DOMAIN ledger \ {i} : ledger'[j] = ledger[j]
          /\ ledger'[i].code = ledger[i].code /\ ledger'[i].kind = ledger[i].kind
          /\ ledger'[i].qty = ledger[i].qty
          /\ ledger'[i].filled = ledger[i].filled + n
      BY <2>1, TriggerIs
    <3> QED BY <1>1, <3>1 DEF LedgerKept
  <2>2. CASE Close
    <3>1. /\ day' = day /\ DOMAIN ledger' = DOMAIN ledger
          /\ \A i \in DOMAIN ledger :
              /\ ledger'[i].code = ledger[i].code /\ ledger'[i].kind = ledger[i].kind
              /\ ledger'[i].qty = ledger[i].qty /\ ledger'[i].filled = ledger[i].filled
              /\ ledger'[i].live = FALSE
      BY <2>2, CloseIs DEF Close
    <3>2. \A i \in DOMAIN ledger : ledger'[i].filled >= ledger[i].filled
      BY <1>1, <3>1
    <3> QED BY <3>1, <3>2 DEF LedgerKept
  <2>3. CASE NewDay
    BY <2>3 DEF NewDay, DayBegins, NewLedger
  <2> QED BY <1>3, <2>1, <2>2, <2>3 DEF Nature, StopTrigger
<1>4. CASE CycleCalls /\ UNCHANGED clock
  <2>1. ASSUME NEW c \in Codes, NEW level \in Levels, RaiseBrokerStop(c, level)
        PROVE  LedgerKept
    <3>1. level \in Stops
      BY ConstantsAre
    <3>2. CASE ledger' = ledger
      BY <1>2, <1>4, <3>2 DEF clock
    <3>3. CASE ledger' # ledger
      <4> DEFINE j == orders[pos[c].active].odno[2]
      <4>1. /\ j \in DOMAIN ledger
            /\ ledger' = Append([ledger EXCEPT ![j].live = FALSE],
                                LedgerRow(c, "stop", Remaining(ledger[j]), 0, TRUE, level))
        BY <2>1, <3>3, RaiseBrokerStopIs
      <4> HIDE DEF j
      <4> QED BY <1>4, <3>1, <4>1, RevisionKeeps DEF clock
    <3> QED BY <3>2, <3>3
  <2>2. ASSUME NEW c \in Codes, SendExit(c) PROVE LedgerKept
    <3>1. pos[c].qty \in Nat /\ 0 \in Stops
      BY PositionIs, ConstantsAre
    <3>2. PICK a \in Answers : \/ ledger' = ledger
                               \/ ledger' = Append(ledger, LedgerRow(c, "sell", pos[c].qty, a.filled, FALSE, 0))
      BY <2>2, SendExitIs
    <3>3. LedgerRow(c, "sell", pos[c].qty, a.filled, FALSE, 0) \in LedgerRows
      BY <3>1, RowIs DEF Answers
    <3>4. day' = day
      BY <1>4 DEF clock
    <3> HIDE DEF CustodyInv
    <3>5. AccountTypes
      BY DEF CustodyInv
    <3>6. CASE ledger' = ledger
      BY <1>2, <3>4, <3>6
    <3>7. CASE ledger' = Append(ledger, LedgerRow(c, "sell", pos[c].qty, a.filled, FALSE, 0))
      BY <3>3, <3>4, <3>5, <3>7, AppendKeeps
    <3> QED BY <3>2, <3>6, <3>7
  <2>3. ASSUME NEW c \in Codes, SendEntry(c) PROVE LedgerKept
    <3>1. Lot \in Nat /\ 0 \in Stops
      BY ConstantsAre
    <3>2. PICK a \in Answers : \/ ledger' = ledger
                               \/ ledger' = Append(ledger, LedgerRow(c, "buy", Lot, a.filled, FALSE, 0))
      BY <2>3, SendEntryIs
    <3>3. LedgerRow(c, "buy", Lot, a.filled, FALSE, 0) \in LedgerRows
      BY <3>1, RowIs DEF Answers
    <3>4. day' = day
      BY <1>4 DEF clock
    <3> HIDE DEF CustodyInv
    <3>5. AccountTypes
      BY DEF CustodyInv
    <3>6. CASE ledger' = ledger
      BY <1>2, <3>4, <3>6
    <3>7. CASE ledger' = Append(ledger, LedgerRow(c, "buy", Lot, a.filled, FALSE, 0))
      BY <3>3, <3>4, <3>5, <3>7, AppendKeeps
    <3> QED BY <3>2, <3>6, <3>7
  <2>4. CASE RegisterStop
    <3>1. cyc.code \in Codes /\ cyc.n \in Nat /\ 1 \in Stops
      BY <2>4, RegisterStopIs, ConstantsAre DEF CycleTyped, CycleStates
    <3>2. LedgerRow(cyc.code, "stop", cyc.n, 0, TRUE, 1) \in LedgerRows
      BY <3>1, RowIs
    <3> QED BY <1>2, <1>4, <2>4, <3>2, AppendKeeps, RegisterStopIs DEF clock
  <2> QED BY <1>4, <2>1, <2>2, <2>3, <2>4 DEF CycleCalls
<1>5. CASE WatchCalls /\ UNCHANGED clock
  <2>1. ASSUME NEW c \in Codes, RegisterMissing(c) PROVE LedgerKept
    <3> DEFINE q == watch.rows[c].qty
               t == watch.rows[c].stop
    <3>1. q \in Nat /\ t \in Stops
      BY <2>1, RegisterMissingIs
    <3>2. LedgerRow(c, "stop", q, 0, TRUE, t) \in LedgerRows
      BY <3>1, RowIs
    <3>3. ledger' = ledger \/ ledger' = Append(ledger, LedgerRow(c, "stop", q, 0, TRUE, t))
      BY <2>1, RegisterMissingIs
    <3>4. day' = day
      BY <1>5 DEF clock
    <3> HIDE DEF CustodyInv, q, t
    <3>5. AccountTypes
      BY DEF CustodyInv
    <3>6. CASE ledger' = ledger
      BY <1>2, <3>4, <3>6
    <3>7. CASE ledger' = Append(ledger, LedgerRow(c, "stop", q, 0, TRUE, t))
      BY <3>2, <3>4, <3>5, <3>7, AppendKeeps
    <3> QED BY <3>3, <3>6, <3>7
  <2>2. ASSUME NEW c \in Codes, ReviseStale(c) PROVE LedgerKept
    <3> DEFINE j == watch.rows[c].odno[2]
               t == watch.rows[c].stop
    <3>1. CASE ledger' = ledger
      BY <1>2, <1>5, <3>1 DEF clock
    <3>2. CASE ledger' # ledger
      <4>1. /\ j \in DOMAIN ledger /\ t \in Stops
            /\ ledger' = Append([ledger EXCEPT ![j].live = FALSE],
                                LedgerRow(c, "stop", Remaining(ledger[j]), 0, TRUE, t))
        BY <2>2, <3>2, ReviseStaleIs
      <4> HIDE DEF j, t
      <4> QED BY <1>5, <4>1, RevisionKeeps DEF clock
    <3> QED BY <3>1, <3>2
  <2> QED BY <1>5, <2>1, <2>2 DEF WatchCalls
<1> QED BY <1>2, <1>3, <1>4, <1>5, EveryStep DEF vars, kisVars, clock

\* NumberOf, of the next state.
NumberAfter(odno, c) ==
  odno[1] < day' \/ (odno[1] = day' /\ odno[2] \in DOMAIN ledger' /\ ledger'[odno[2]].code = c)

\* A number keeps its meaning.
LEMMA NumberOfKept ==
  ASSUME CustodyInv, LedgerKept \/ NewLedger, NEW odno \in Odnos, NEW c, NumberOf(odno, c)
  PROVE  NumberAfter(odno, c)
<1>1. CASE LedgerKept
  BY <1>1 DEF LedgerKept, NumberOf, HasRow, NumberAfter
<1>2. CASE NewLedger
  <2>1. day \in Nat /\ odno[1] \in Nat
    BY ConstantsAre DEF CustodyInv, AccountTypes, Odnos
  <2> QED BY <1>2, <2>1 DEF NewLedger, NumberOf, HasRow, NumberAfter
<1> QED BY <1>1, <1>2

-----------------------------------------------------------------------------
(* The invariant that holds whatever fails: the flags, the dates, the      *)
(* numbers.                                                                *)

\* No cycle.
LEMMA NoCycle ==
  ASSUME cyc' = IdleCycle
  PROVE  /\ cyc' \in CycleStates /\ cyc'.pc = "idle" /\ cyc'.todo = {} /\ cyc'.plan = {}
         /\ cyc'.rows = NoRows /\ cyc'.code = NoCode
         /\ cyc'.n = 0 /\ cyc'.id = 0 /\ cyc'.answer = NoAnswer
<1>1. NoRows \in [Codes -> Positions]
  BY ConstantsAre DEF NoRows
<1> QED BY <1>1, StepsAre, FreshCycle DEF IdleCycle

\* The two processes do not run at once.
LEMMA Apart ==
  ASSUME CycleTyped, WatchTyped
  PROVE  /\ CycleLooks => watch.pc = "idle"
         /\ CycleCalls \/ CycleBooks => watch.pc = "idle" /\ cyc.pc # "idle"
         /\ WatchLooks => cyc.pc = "idle"
         /\ WatchCalls \/ WatchBooks => cyc.pc = "idle" /\ watch.pc # "idle"
<1>1. ASSUME CycleLooks PROVE watch.pc = "idle"
  BY <1>1 DEF CycleLooks, CycleTyped, Quiet, HoldPosition, ExitsDone, CycleEnds, At
<1>2. ASSUME CycleCalls PROVE cyc.pc # "idle"
  BY <1>2 DEF CycleCalls, RaiseBrokerStop, SendExit, SendEntry, RegisterStop, At
<1>3. ASSUME CycleBooks PROVE cyc.pc # "idle"
  BY <1>3 DEF CycleBooks, RecordRevision, RaiseBookStop, RecordExit,
       RecordExitOutcome, SettleExit, RecordEntry, BookEntry, RecordStop, LinkStop, At
<1>4. ASSUME WatchLooks PROVE cyc.pc = "idle"
  BY <1>4 DEF WatchLooks, WatchTyped, Quiet, FetchDailyOrders, WatchAborts, SettlementDone,
       RegistrationDone, WatchEnds, WatchAt
<1>5. ASSUME WatchCalls PROVE watch.pc # "idle"
  BY <1>5 DEF WatchCalls, RegisterMissing, ReviseStale, WatchAt
<1>6. ASSUME WatchBooks PROVE watch.pc # "idle"
  BY <1>6 DEF WatchBooks, MarkFilled, RecordStopHit, SettlePosition,
       RecordRegistered, ExpireOldStop, LinkRegistered, RecordStaleRevision, WatchAt
<1> QED BY <1>1, <1>2, <1>3, <1>4, <1>5, <1>6 DEF CycleTyped, WatchTyped

\* Every flag has its type.
LEMMA FlagsStep ==
  ASSUME CustodyInv, [Next]_vars
  PROVE  FlagsKept'
<1> USE DEF CustodyInv
<1>1. cycled \in BOOLEAN /\ safeStop \in BOOLEAN /\ swept \in BOOLEAN /\ crashes \in 0 .. MaxCrashes
  BY DEF FlagsKept
<1>2. crashes' \in 0 .. MaxCrashes
  <2>1. CASE crashes' = crashes
    BY <1>1, <2>1
  <2>2. CASE Crash
    BY <1>1, <2>2, CrashAssumption DEF Crash
  <2>3. CASE Release
    BY <1>1, <2>3 DEF Release
  <2> QED BY <2>1, <2>2, <2>3, EveryStep DEF Others, vars
<1>3. safeStop' \in BOOLEAN
  <2>1. CASE CycleLooks
    BY <1>1, <2>1 DEF CycleLooks, GateHalts, GatePasses, HoldPosition, ExitsDone, CycleEnds
  <2>2. CASE Others
    BY <1>1, <2>2 DEF Others, Release, ReleaseSafeStop, Crash
  <2> QED BY <1>1, <2>1, <2>2, EveryStep DEF vars, cycleVars
<1>4. cycled' \in BOOLEAN
  <2>1. CASE CycleLooks
    BY <1>1, <2>1 DEF CycleLooks, GateHalts, GatePasses, HoldPosition, ExitsDone, CycleEnds
  <2>2. CASE Nature
    BY <1>1, <2>2 DEF Nature, StopTrigger, Close, NewDay, cycleVars
  <2> QED BY <1>1, <2>1, <2>2, EveryStep DEF vars, cycleVars
<1>5. swept' \in BOOLEAN
  <2>1. CASE WatchLooks
    BY <1>1, <2>1 DEF WatchLooks, WatchStarts, WatchNothing, FetchDailyOrders, WatchAborts,
       SettlementDone, RegistrationDone, WatchEnds, WatchEnd
  <2>2. CASE Nature
    BY <1>1, <2>2 DEF Nature, StopTrigger, Close, NewDay, watchVars
  <2> QED BY <1>1, <2>1, <2>2, EveryStep DEF vars, watchVars
<1> QED BY <1>2, <1>3, <1>4, <1>5 DEF FlagsKept

\* Nothing gets a date of the future.
LEMMA DatesStep ==
  ASSUME CustodyInv, [Next]_vars
  PROVE  DatesKept'
<1> USE DEF CustodyInv
<1>1. day \in Nat /\ day' \in Nat /\ day' >= day
  BY LedgerStep, ConstantsAre DEF LedgerKept, NewLedger, AccountTypes
<1>2. /\ \A c \in Codes : pos[c].pid \in Nat /\ pos[c].pid <= day
      /\ \A i \in DOMAIN orders : orders[i].pid \in Nat /\ orders[i].pid <= day
      /\ \A o \in outcomes : o.pid \in Nat /\ o.pid <= day
  <2>1. \A i \in DOMAIN orders : orders[i] \in OrderRows
    BY DEF BookTypes
  <2> QED BY <2>1, PositionIs DEF DatesKept, BookTypes, OrderRows, OutcomeRows
<1>3. CASE UNCHANGED bookVars
  BY <1>1, <1>2, <1>3 DEF DatesKept, bookVars
<1>4. ASSUME NEW id \in DOMAIN orders, Rewritten(id), UNCHANGED <<pos, outcomes>>
      PROVE  DatesKept'
  BY <1>1, <1>2, <1>4 DEF DatesKept, Rewritten
<1>5. ASSUME NEW row, Recorded(row), row.pid = day, UNCHANGED <<pos, outcomes>>
      PROVE  DatesKept'
  BY <1>1, <1>2, <1>5 DEF DatesKept, Recorded
<1>6. ASSUME NEW c \in Codes, Changed(c), pos'[c].pid \in {pos[c].pid, day},
             UNCHANGED <<orders, outcomes>>
      PROVE  DatesKept'
  BY <1>1, <1>2, <1>6 DEF DatesKept, Changed
<1>7. ASSUME NEW row \in OutcomeRows, row.pid <= day, outcomes' = outcomes \cup {row},
             UNCHANGED <<pos, orders>>
      PROVE  DatesKept'
  <2>1. row.pid \in Nat
    BY DEF OutcomeRows
  <2> QED BY <1>1, <1>2, <1>7, <2>1 DEF DatesKept
<1> QED BY <1>3, <1>4, <1>5, <1>6, <1>7, BookChanges DEF BookChange

\* Every stop has a number of its own stock.
LEMMA NumbersStep ==
  ASSUME CustodyInv, [Next]_vars
  PROVE  NumbersKept'
<1> USE DEF CustodyInv
<1>1. LedgerKept \/ NewLedger
  BY LedgerStep
<1>2. \A i \in DOMAIN orders' : orders'[i].odno \in Odnos
  <2>1. \A i \in DOMAIN orders' : orders'[i] \in OrderRows
    BY BookStep DEF BookTypes
  <2> QED BY <2>1 DEF OrderRows
<1>3. ASSUME NEW i \in DOMAIN orders', orders'[i].purpose = "stop"
      PROVE  NumberOf(orders'[i].odno, orders'[i].code)
  <2>1. CASE UNCHANGED orders
    BY <1>3, <2>1 DEF NumbersKept
  <2>2. ASSUME NEW id \in DOMAIN orders, Rewritten(id),
               orders'[id].odno = orders[id].odno \/ NumberOf(orders'[id].odno, orders[id].code)
        PROVE  NumberOf(orders'[i].odno, orders'[i].code)
    BY <1>3, <2>2 DEF NumbersKept, Rewritten
  <2>3. ASSUME NEW row, Recorded(row), row.purpose = "stop" => NumberOf(row.odno, row.code)
        PROVE  NumberOf(orders'[i].odno, orders'[i].code)
    BY <1>3, <2>3 DEF NumbersKept, Recorded
  <2> QED BY <2>1, <2>2, <2>3, BookChanges DEF BookChange, bookVars
<1>4. ASSUME NEW i \in DOMAIN orders', orders'[i].purpose = "stop"
      PROVE  NumberOf(orders[i].odno, orders[i].code)'
  <2>1. NumberAfter(orders'[i].odno, orders'[i].code)
    BY <1>1, <1>2, <1>3, <1>4, NumberOfKept
  <2> QED BY <2>1 DEF NumberAfter, NumberOf, HasRow
<1> QED BY <1>4 DEF NumbersKept

-----------------------------------------------------------------------------
(* The cycle.                                                              *)

CycleKept == CycleTyped' /\ CycleReads' /\ CycleLocals'

\* A cycle that does not run keeps what is said of it.
LEMMA CycleIdle ==
  ASSUME cyc' \in CycleStates, cyc'.pc = "idle"
  PROVE  CycleKept
BY StepsAre DEF CycleKept, CycleTyped, CycleReads, CycleLocals, ExitPhase, EntryPhase

\* So does one that is not at work while the account changes.
LEMMA CycleWaits ==
  ASSUME CustodyInv, LedgerKept,
         UNCHANGED <<cyc, cycled, session, pos, orders>>, watch'.pc = watch.pc
  PROVE  CycleKept
<1> USE DEF CustodyInv
<1>1. CycleTyped'
  BY DEF CycleTyped
<1>2. CycleReads'
  BY DEF CycleReads, LedgerKept
<1>3. cyc.pc \in {"revised", "stopSent"} => NumberAfter(cyc.answer.odno, cyc.code)
  <2>1. cyc.pc \in {"revised", "stopSent"} => cyc.answer.odno \in Odnos
    BY StepsAre, AtHandIs
  <2>2. cyc.pc \in {"revised", "stopSent"} => NumberOf(cyc.answer.odno, cyc.code)
    BY DEF CycleLocals
  <2> QED BY <2>1, <2>2, NumberOfKept
<1>4. CycleLocals'
  BY <1>3 DEF CycleLocals, NumberAfter, NumberOf, HasRow
<1> QED BY <1>1, <1>2, <1>4 DEF CycleKept

\* A stop that KIS has accepted has a number of its stock.
LEMMA SubmittedNumber ==
  ASSUME AccountTypes, day' = day, Len(ledger) + 1 \in DOMAIN ledger',
         NEW c, ledger'[Len(ledger) + 1].code = c
  PROVE  NumberAfter(Submitted.odno, c)
BY AnswersAre, NextOdnoIs DEF NumberAfter

\* A cycle that starts.
LEMMA GateKept ==
  ASSUME CustodyInv, NEW plan \in SUBSET Codes, Quiet, GatePasses(plan), UNCHANGED <<clock, watchVars>>
  PROVE  CycleKept
<1> USE DEF CustodyInv
<1>1. /\ cyc' \in CycleStates /\ cyc'.pc = "exits" /\ cyc'.todo = OpenCodes
      /\ cyc'.plan \subseteq plan /\ cyc'.rows = pos /\ cyc'.code = NoCode
      /\ watch.pc = "idle" /\ session = "open" /\ cycled'
      /\ BookBalances /\ (\A c \in plan : held[c] = 0) /\ UNCHANGED bookVars
  BY GatePassesIs
<1>2. UNCHANGED <<pos, orders, day, session, watch>>
  BY <1>1 DEF bookVars, clock, watchVars
<1>3. \A c \in plan : ~pos[c].open
  <2> SUFFICES ASSUME NEW c \in plan, pos[c].open PROVE FALSE
    OBVIOUS
  <2>1. pos[c].qty = held[c] /\ held[c] = 0
    BY <1>1 DEF BookBalances
  <2>2. pos[c].qty > 0
    BY DEF PositionsKept
  <2> QED BY <2>1, <2>2
<1>4. CycleTyped'
  BY <1>1, <1>2, StepsAre DEF CycleTyped
<1>5. \A c \in OpenCodes : pos[c].open
  BY DEF OpenCodes
<1>6. CycleReads'
  BY <1>1, <1>2, <1>3, <1>5 DEF CycleReads, EntryPhase
<1>7. CycleLocals'
  BY <1>1 DEF CycleLocals
<1> QED BY <1>4, <1>6, <1>7 DEF CycleKept

\* The calls of the cycle to KIS.
LEMMA CallsKept ==
  ASSUME CustodyInv, CycleCalls, UNCHANGED <<clock, bookVars, cycled, safeStop, watchVars>>
  PROVE  CycleKept
<1> USE DEF CustodyInv
<1>1. UNCHANGED <<pos, orders, day, session, watch, cycled>>
  BY DEF bookVars, clock, watchVars
<1>2. watch.pc = "idle" /\ cyc.pc # "idle" /\ session = "open" /\ cycled
  BY Apart DEF CycleTyped
<1>3. ASSUME NEW c \in Codes, NEW level \in Levels, RaiseBrokerStop(c, level)
      PROVE  CycleKept
  <2> DEFINE id == pos[c].active
             j == orders[id].odno[2]
  <2>1. cyc.pc = "exits" /\ c \in cyc.todo /\ level > pos[c].stop /\ cyc' \in CycleStates
        /\ cyc'.todo = cyc.todo /\ cyc'.plan = cyc.plan /\ cyc'.rows = cyc.rows
        /\ cyc'.code = c /\ cyc'.n = level /\ cyc'.id = id
    BY <1>3, RaiseBrokerStopIs DEF CycleTo
  <2>2. \/ cyc'.pc = "raise"
        \/ /\ cyc'.pc = "revised" /\ cyc'.answer = Submitted /\ id \in DOMAIN orders
           /\ j \in DOMAIN ledger
           /\ ledger' = Append([ledger EXCEPT ![j].live = FALSE],
                               LedgerRow(c, "stop", Remaining(ledger[j]), 0, TRUE, level))
    BY <1>3, RaiseBrokerStopIs DEF CycleTo
  <2>3. cyc'.pc = "revised" =>
          id # 0 /\ Submitted.odno # NoOdno /\ NumberAfter(Submitted.odno, c)
    <3> SUFFICES ASSUME cyc'.pc = "revised"
                 PROVE  id # 0 /\ Submitted.odno # NoOdno /\ NumberAfter(Submitted.odno, c)
      OBVIOUS
    <3>1. id # 0
      BY <2>2 DEF BookTypes
    <3>2. /\ j \in DOMAIN ledger /\ level \in Stops
          /\ ledger' = Append([ledger EXCEPT ![j].live = FALSE],
                              LedgerRow(c, "stop", Remaining(ledger[j]), 0, TRUE, level))
      BY <2>2, ConstantsAre
    <3> HIDE DEF j
    <3> DEFINE row == LedgerRow(c, "stop", Remaining(ledger[j]), 0, TRUE, level)
    <3>3. Len(ledger) + 1 \in DOMAIN ledger' /\ ledger'[Len(ledger) + 1] = row
      BY <3>2, RevisedIs
    <3>4. row.code = c
      BY DEF LedgerRow
    <3> HIDE DEF row
    <3>5. Submitted.odno # NoOdno
      BY AnswersAre, NextOdnoIs
    <3> QED BY <1>1, <3>1, <3>3, <3>4, <3>5, SubmittedNumber
  <2> HIDE DEF j
  <2>4. CycleTyped'
    BY <1>1, <1>2, <2>1, <2>2 DEF CycleTyped
  <2>5. CycleReads'
    BY <1>1, <2>1, <2>2 DEF CycleReads, ExitPhase, EntryPhase
  <2>6. CycleLocals'
    BY <1>1, <2>1, <2>2, <2>3 DEF CycleLocals, NumberAfter, NumberOf, HasRow
  <2> QED BY <2>4, <2>5, <2>6 DEF CycleKept
<1>4. ASSUME NEW c \in Codes, SendExit(c) PROVE CycleKept
  <2>1. /\ cyc.pc = "exits" /\ c \in cyc.todo /\ cyc' \in CycleStates /\ cyc'.pc = "exitSent"
        /\ cyc'.todo = cyc.todo /\ cyc'.plan = cyc.plan /\ cyc'.rows = cyc.rows
        /\ cyc'.code = c /\ cyc'.n = cyc'.answer.filled
    BY <1>4, SendExitIs DEF CycleTo
  <2>2. CycleTyped'
    BY <1>1, <1>2, <2>1 DEF CycleTyped
  <2>3. CycleReads'
    BY <1>1, <2>1 DEF CycleReads, ExitPhase, EntryPhase
  <2>4. CycleLocals'
    BY <1>1, <2>1 DEF CycleLocals
  <2> QED BY <2>2, <2>3, <2>4 DEF CycleKept
<1>5. ASSUME NEW c \in Codes, SendEntry(c) PROVE CycleKept
  <2>1. /\ cyc.pc = "entries" /\ c \in cyc.todo /\ cyc' \in CycleStates /\ cyc'.pc = "entrySent"
        /\ cyc'.todo = cyc.todo /\ cyc'.plan = cyc.plan /\ cyc'.rows = cyc.rows
        /\ cyc'.code = c /\ cyc'.n = cyc'.answer.filled
    BY <1>5, SendEntryIs DEF CycleTo
  <2>2. CycleTyped'
    BY <1>1, <1>2, <2>1 DEF CycleTyped
  <2>3. CycleReads'
    BY <1>1, <2>1 DEF CycleReads, ExitPhase, EntryPhase
  <2>4. CycleLocals'
    BY <1>1, <2>1 DEF CycleLocals
  <2> QED BY <2>2, <2>3, <2>4 DEF CycleKept
<1>6. CASE RegisterStop
  <2> DEFINE row == LedgerRow(cyc.code, "stop", cyc.n, 0, TRUE, 1)
  <2>1. /\ cyc.pc = "stop" /\ cyc.code \in cyc.todo /\ cyc.code \in Codes /\ cyc.n > 0
        /\ cyc' \in CycleStates /\ cyc'.pc = "stopSent"
        /\ cyc'.todo = cyc.todo /\ cyc'.plan = cyc.plan /\ cyc'.rows = cyc.rows
        /\ cyc'.code = cyc.code /\ cyc'.n = cyc.n
        /\ \/ cyc'.answer = Rejected
           \/ cyc'.answer = Submitted /\ ledger' = Append(ledger, row)
    BY <1>6, RegisterStopIs DEF CycleTo
  <2>2. NumberAfter(cyc'.answer.odno, cyc.code)
    <3>1. CASE cyc'.answer = Rejected
      <4>1. cyc'.answer.odno[1] = 0 /\ day' \in Nat \ {0}
        BY <1>1, <3>1, AnswersAre, ConstantsAre DEF NoOdno, AccountTypes
      <4> QED BY <4>1 DEF NumberAfter
    <3>2. CASE cyc'.answer = Submitted /\ ledger' = Append(ledger, row)
      <4>1. cyc.n \in Nat /\ 1 \in Stops
        BY ConstantsAre DEF CycleTyped, CycleStates
      <4>2. row \in LedgerRows
        BY <2>1, <4>1, RowIs
      <4>3. row.code = cyc.code
        BY DEF LedgerRow
      <4> HIDE DEF row
      <4>4. Len(ledger) + 1 \in DOMAIN ledger' /\ ledger'[Len(ledger) + 1] = row
        BY <3>2, <4>2, AppendIs DEF AccountTypes
      <4> QED BY <1>1, <3>2, <4>3, <4>4, SubmittedNumber
    <3> QED BY <2>1, <3>1, <3>2
  <2> HIDE DEF row
  <2>3. CycleTyped'
    BY <1>1, <1>2, <2>1 DEF CycleTyped
  <2>4. CycleReads'
    BY <1>1, <2>1 DEF CycleReads, ExitPhase, EntryPhase
  <2>5. CycleLocals'
    BY <1>1, <2>1, <2>2 DEF CycleLocals, NumberAfter, NumberOf, HasRow
  <2> QED BY <2>3, <2>4, <2>5 DEF CycleKept
<1> QED BY <1>3, <1>4, <1>5, <1>6 DEF CycleCalls

\* The writes of the cycle in the exits.
LEMMA ExitBooksKept ==
  ASSUME CustodyInv, UNCHANGED <<kisVars, clock, cycled, safeStop, watchVars>>,
         RecordRevision \/ RaiseBookStop \/ RecordExit \/ RecordExitOutcome \/ SettleExit
  PROVE  CycleKept
<1> USE DEF CustodyInv
<1>1. UNCHANGED <<ledger, day, session, watch, cycled>>
  BY DEF kisVars, clock, watchVars
<1>2. watch.pc = "idle" /\ session = "open" /\ cycled
  BY Apart DEF CycleTyped, CycleBooks
<1>3. CASE RecordRevision
  <2>1. /\ cyc.pc = "revised" /\ CycleTo("raise", cyc.code, cyc.n, cyc.id, cyc.answer)
        /\ UNCHANGED pos /\ cyc.code \in cyc.todo
    BY <1>3, StepsAre, RecordRevisionIs DEF CycleTyped
  <2>2. CycleTyped'
    BY <1>1, <1>2, <2>1 DEF CycleTyped, CycleTo
  <2>3. CycleReads'
    BY <1>1, <2>1 DEF CycleReads, ExitPhase, EntryPhase, CycleTo
  <2>4. CycleLocals'
    BY <1>1, <2>1 DEF CycleLocals, CycleTo
  <2> QED BY <2>2, <2>3, <2>4 DEF CycleKept
<1>4. CASE RaiseBookStop
  <2>1. /\ cyc.pc = "raise" /\ CycleBack("exits", cyc.code) /\ Changed(cyc.code)
        /\ pos'[cyc.code].open = pos[cyc.code].open
    BY <1>4, RaiseBookStopIs
  <2>2. CycleTyped'
    BY <1>1, <1>2, <2>1, StepsAre DEF CycleTyped, CycleBack
  <2>3. \A d \in cyc.plan : pos'[d].open = pos[d].open
    <3>1. cyc.plan \subseteq Codes
      BY DEF CycleTyped, CycleStates
    <3> QED BY <2>1, <3>1 DEF Changed
  <2>4. \A d \in cyc.todo \ {cyc.code} : pos'[d] = pos[d]
    BY <2>1 DEF Changed, CycleTyped, CycleStates
  <2>5. CycleReads'
    BY <2>1, <2>3, <2>4 DEF CycleReads, ExitPhase, EntryPhase, CycleBack
  <2>6. CycleLocals'
    BY <2>1 DEF CycleLocals, CycleBack
  <2> QED BY <2>2, <2>5, <2>6 DEF CycleKept
<1>5. CASE RecordExit
  <2>1. /\ cyc.pc = "exitSent" /\ cyc.code \in cyc.todo /\ UNCHANGED pos
        /\ \/ CycleBack("exits", cyc.code)
           \/ /\ cyc.n > 0
              /\ CycleTo("exitOutcome", cyc.code, cyc.n, Len(orders) + 1, cyc.answer)
        /\ Len(orders) + 1 \in DOMAIN orders'
        /\ orders'[Len(orders) + 1].code = cyc.code /\ orders'[Len(orders) + 1].purpose = "exit"
    BY <1>5, RecordExitIs
  <2>2. CycleTyped'
    BY <1>1, <1>2, <2>1, StepsAre DEF CycleTyped, CycleBack, CycleTo
  <2>3. CycleReads'
    BY <2>1 DEF CycleReads, ExitPhase, EntryPhase, CycleBack, CycleTo
  <2>4. CycleLocals'
    BY <2>1 DEF CycleLocals, CycleBack, CycleTo
  <2> QED BY <2>2, <2>3, <2>4 DEF CycleKept
<1>6. CASE RecordExitOutcome
  <2>1. /\ cyc.pc = "exitOutcome" /\ cyc.code \in cyc.todo
        /\ CycleTo("exitClose", cyc.code, cyc.n, cyc.id, cyc.answer)
        /\ UNCHANGED <<pos, orders>>
    BY <1>6, RecordExitOutcomeIs
  <2>2. CycleTyped'
    BY <1>1, <1>2, <2>1, StepsAre DEF CycleTyped, CycleTo
  <2>3. CycleReads'
    BY <2>1 DEF CycleReads, ExitPhase, EntryPhase, CycleTo
  <2>4. CycleLocals'
    BY <2>1 DEF CycleLocals, CycleTo
  <2> QED BY <2>2, <2>3, <2>4 DEF CycleKept
<1>7. CASE SettleExit
  <2>1. /\ cyc.pc = "exitClose" /\ CycleBack("exits", cyc.code) /\ Changed(cyc.code)
        /\ pos'[cyc.code].open = FALSE
    BY <1>7, SettleExitIs
  <2>2. CycleTyped'
    BY <1>1, <1>2, <2>1, StepsAre DEF CycleTyped, CycleBack
  <2>3. \A d \in cyc.plan : pos'[d].open => pos[d].open
    <3>1. cyc.plan \subseteq Codes
      BY DEF CycleTyped, CycleStates
    <3> QED BY <2>1, <3>1 DEF Changed
  <2>4. \A d \in cyc.todo \ {cyc.code} : pos'[d] = pos[d]
    BY <2>1 DEF Changed, CycleTyped, CycleStates
  <2>5. CycleReads'
    BY <2>1, <2>3, <2>4 DEF CycleReads, ExitPhase, EntryPhase, CycleBack
  <2>6. CycleLocals'
    BY <2>1 DEF CycleLocals, CycleBack
  <2> QED BY <2>2, <2>5, <2>6 DEF CycleKept
<1> QED BY <1>3, <1>4, <1>5, <1>6, <1>7

\* The writes of the cycle in the entries.
LEMMA EntryBooksKept ==
  ASSUME CustodyInv, UNCHANGED <<kisVars, clock, cycled, safeStop, watchVars>>,
         RecordEntry \/ BookEntry \/ RecordStop \/ LinkStop
  PROVE  CycleKept
<1> USE DEF CustodyInv
<1>1. UNCHANGED <<ledger, day, session, watch, cycled>>
  BY DEF kisVars, clock, watchVars
<1>2. watch.pc = "idle" /\ session = "open" /\ cycled
  BY Apart DEF CycleTyped, CycleBooks
<1>3. CASE RecordEntry
  <2>1. /\ cyc.pc = "entrySent" /\ cyc.code \in cyc.todo /\ UNCHANGED pos
        /\ \/ CycleBack("entries", cyc.code)
           \/ cyc.n > 0 /\ CycleTo("upsert", cyc.code, cyc.n, cyc.id, cyc.answer)
    BY <1>3, RecordEntryIs
  <2>2. CycleTyped'
    BY <1>1, <1>2, <2>1, StepsAre DEF CycleTyped, CycleBack, CycleTo
  <2>3. CycleReads'
    BY <2>1 DEF CycleReads, ExitPhase, EntryPhase, CycleBack, CycleTo
  <2>4. CycleLocals'
    BY <2>1 DEF CycleLocals, CycleBack, CycleTo
  <2> QED BY <2>2, <2>3, <2>4 DEF CycleKept
<1>4. CASE BookEntry
  <2>1. /\ cyc.pc = "upsert" /\ cyc.code \in cyc.todo /\ cyc.code \in Codes
        /\ CycleTo("stop", cyc.code, cyc.n, cyc.id, cyc.answer)
        /\ cyc.n > 0 /\ Changed(cyc.code)
        /\ pos'[cyc.code].stop = 1 /\ pos'[cyc.code].open = TRUE
        /\ pos'[cyc.code].qty = cyc.n /\ pos'[cyc.code].active = 0
        /\ pos'[cyc.code].pid = day
    BY <1>4, BookEntryIs
  <2>2. CycleTyped'
    BY <1>1, <1>2, <2>1, StepsAre DEF CycleTyped, CycleTo
  <2>3. \A d \in cyc.todo \ {cyc.code} : pos'[d] = pos[d]
    BY <2>1 DEF Changed, CycleTyped, CycleStates
  <2>4. CycleReads'
    BY <1>1, <2>1, <2>3 DEF CycleReads, ExitPhase, EntryPhase, CycleTo
  <2>5. CycleLocals'
    BY <2>1 DEF CycleLocals, CycleTo
  <2> QED BY <2>2, <2>4, <2>5 DEF CycleKept
<1>5. CASE RecordStop
  <2>1. /\ cyc.pc = "stopSent" /\ cyc.code \in cyc.todo /\ UNCHANGED pos
        /\ CycleTo("link", cyc.code, cyc.n, Len(orders) + 1, cyc.answer)
        /\ Len(orders) + 1 \in DOMAIN orders'
        /\ orders'[Len(orders) + 1].code = cyc.code /\ orders'[Len(orders) + 1].purpose = "stop"
    BY <1>5, RecordStopIs
  <2>2. CycleTyped'
    BY <1>1, <1>2, <2>1, StepsAre DEF CycleTyped, CycleTo
  <2>3. CycleReads'
    BY <1>1, <2>1 DEF CycleReads, ExitPhase, EntryPhase, CycleTo
  <2>4. CycleLocals'
    BY <2>1 DEF CycleLocals, CycleTo
  <2> QED BY <2>2, <2>3, <2>4 DEF CycleKept
<1>6. CASE LinkStop
  <2>1. /\ cyc.pc = "link" /\ CycleBack("entries", cyc.code) /\ Changed(cyc.code)
    BY <1>6, LinkStopIs
  <2>2. CycleTyped'
    BY <1>1, <1>2, <2>1, StepsAre DEF CycleTyped, CycleBack
  <2>3. \A d \in cyc.todo \ {cyc.code} : pos'[d] = pos[d]
    BY <2>1 DEF Changed, CycleTyped, CycleStates
  <2>4. CycleReads'
    BY <2>1, <2>3 DEF CycleReads, ExitPhase, EntryPhase, CycleBack
  <2>5. CycleLocals'
    BY <2>1 DEF CycleLocals, CycleBack
  <2> QED BY <2>2, <2>4, <2>5 DEF CycleKept
<1> QED BY <1>3, <1>4, <1>5, <1>6

\* What the cycle reads, and its way through its lists.
LEMMA LooksKept ==
  ASSUME CustodyInv, CycleLooks, UNCHANGED <<kisVars, clock, bookVars, watchVars, crashes>>
  PROVE  CycleKept
<1> USE DEF CustodyInv
<1>1. UNCHANGED <<ledger, day, session, watch, pos, orders>> /\ watch.pc = "idle"
  BY Apart DEF kisVars, clock, watchVars, bookVars
<1>2. CASE Quiet /\ GateHalts
  <2>1. cyc' = cyc /\ cyc.pc = "idle" /\ cyc \in CycleStates
    BY <1>2 DEF GateHalts, Quiet, CycleTyped
  <2> QED BY <2>1, CycleIdle
<1>3. ASSUME NEW plan \in SUBSET Codes, Quiet, GatePasses(plan) PROVE CycleKept
  BY <1>3, GateKept
<1>4. ASSUME NEW c \in Codes, HoldPosition(c) PROVE CycleKept
  <2>1. cyc.pc = "exits" /\ c \in cyc.todo /\ CycleBack("exits", c) /\ cycled' = cycled
    BY <1>4, HoldPositionIs DEF HoldPosition
  <2>2. CycleTyped'
    BY <1>1, <2>1, StepsAre DEF CycleTyped, CycleBack
  <2>3. CycleReads'
    BY <1>1, <2>1 DEF CycleReads, ExitPhase, EntryPhase, CycleBack
  <2>4. CycleLocals'
    BY <2>1 DEF CycleLocals, CycleBack
  <2> QED BY <2>2, <2>3, <2>4 DEF CycleKept
<1>5. CASE ExitsDone
  <2>1. /\ cyc.pc = "exits" /\ cyc' \in CycleStates /\ cyc'.pc = "entries" /\ cyc'.todo = cyc.plan
        /\ cycled' = cycled
    BY <1>5, ExitsDoneIs
  <2>2. CycleTyped'
    BY <1>1, <2>1, StepsAre DEF CycleTyped
  <2>3. CycleReads'
    BY <1>1, <2>1 DEF CycleReads, ExitPhase, EntryPhase
  <2>4. CycleLocals'
    BY <2>1 DEF CycleLocals
  <2> QED BY <2>2, <2>3, <2>4 DEF CycleKept
<1>6. CASE CycleEnds
  BY <1>6, CycleEndsIs, CycleIdle
<1> QED BY <1>2, <1>3, <1>4, <1>5, <1>6 DEF CycleLooks

\* What is said of the cycle holds after every step.
LEMMA CycleInvStep ==
  ASSUME CustodyInv, [Next]_vars
  PROVE  CycleKept
<1> USE DEF CustodyInv
<1>1. cyc \in CycleStates
  BY DEF CycleTyped
<1>2. CASE Nature /\ UNCHANGED <<bookVars, cyc, safeStop, watch, crashes>>
  <2>1. CASE StopTrigger
    <3>1. UNCHANGED <<cyc, cycled, session, day, pos, orders>>
      BY <1>2, <2>1 DEF StopTrigger, StopTriggers, cycleVars, bookVars
    <3>2. LedgerKept
      <4>1. ~NewDay
        <5>1. day \in Nat
          BY ConstantsAre DEF AccountTypes
        <5> QED BY <3>1, <5>1 DEF NewDay, DayBegins
      <4> QED BY <4>1, LedgerStep
    <3> QED BY <1>2, <3>1, <3>2, CycleWaits
  <2>2. CASE Close \/ NewDay
    <3>1. cyc.pc = "idle" /\ cyc' = cyc
      BY <1>2, <2>2 DEF Close, NewDay, Quiet
    <3> QED BY <1>1, <3>1, CycleIdle
  <2> QED BY <1>2, <2>1, <2>2 DEF Nature
<1>3. CASE Others /\ UNCHANGED <<kisVars, clock, bookVars, cycled, swept>>
  <2>1. CASE Release
    <3>1. UNCHANGED <<cyc, cycled, session, day, pos, orders, ledger, watch>>
      BY <1>3, <2>1 DEF Release, ReleaseSafeStop, bookVars, watchVars, kisVars, clock
    <3> QED BY <3>1, LedgerStays, CycleWaits
  <2>2. CASE Crash
    BY <2>2, NoCycle, CycleIdle DEF Crash
  <2> QED BY <1>3, <2>1, <2>2 DEF Others
<1>4. CASE CycleLooks /\ UNCHANGED <<kisVars, clock, bookVars, watchVars, crashes>>
  BY <1>4, LooksKept
<1>5. CASE CycleCalls /\ UNCHANGED <<clock, bookVars, cycled, safeStop, watchVars, crashes>>
  BY <1>5, CallsKept
<1>6. CASE CycleBooks /\ UNCHANGED <<kisVars, clock, cycled, safeStop, watchVars, crashes>>
  BY <1>6, ExitBooksKept, EntryBooksKept DEF CycleBooks
<1>7. CASE (WatchLooks \/ WatchCalls \/ WatchBooks) /\ UNCHANGED cycleVars
  <2>1. cyc.pc = "idle" /\ cyc' = cyc
    BY <1>7, Apart DEF cycleVars
  <2> QED BY <1>1, <2>1, CycleIdle
<1>8. CASE UNCHANGED vars
  <2>1. UNCHANGED <<cyc, cycled, session, day, pos, orders, ledger, watch>>
    BY <1>8 DEF vars, cycleVars, bookVars, watchVars, kisVars, clock
  <2> QED BY <2>1, LedgerStays, CycleWaits
<1> QED BY <1>2, <1>3, <1>4, <1>5, <1>6, <1>7, <1>8, EveryStep

-----------------------------------------------------------------------------
(* The watch.                                                              *)

WatchKept == WatchTyped' /\ WatchReads' /\ WatchLocals'

\* What is said of no watch.
LEMMA WatchGone ==
  ASSUME WatchFresh("idle", FALSE, <<>>)
  PROVE  WatchKept
<1>1. DOMAIN <<>> = {}
  OBVIOUS
<1>2. WatchTyped'
  BY <1>1, WatchStepsAre DEF WatchFresh, WatchTyped, RegisterPhase, StalePhase
<1>3. WatchReads'
  BY DEF WatchFresh, WatchReads
<1>4. WatchLocals'
  BY <1>1 DEF WatchFresh, WatchLocals, SettlePhase, StalePhase
<1> QED BY <1>2, <1>3, <1>4 DEF WatchKept

\* What the numbers of the watch are after a step.
LEMMA WatchNumbers ==
  ASSUME CustodyInv, LedgerKept \/ NewLedger
  PROVE  /\ \A c \in DOMAIN watch.rows : NumberAfter(watch.rows[c].odno, c)
         /\ watch.pc \in {"registered", "revised"} => NumberAfter(watch.answer.odno, watch.code)
<1> USE DEF CustodyInv
<1>1. ASSUME NEW c \in DOMAIN watch.rows PROVE NumberAfter(watch.rows[c].odno, c)
  <2>1. watch.rows[c].odno \in Odnos /\ NumberOf(watch.rows[c].odno, c)
    BY LoadedQty DEF WatchLocals
  <2> QED BY <2>1, NumberOfKept
<1>2. ASSUME watch.pc \in {"registered", "revised"}
      PROVE  NumberAfter(watch.answer.odno, watch.code)
  <2>1. watch.answer.odno \in Odnos /\ NumberOf(watch.answer.odno, watch.code)
    BY <1>2, WatchStepsAre, WatchHasAtHand DEF WatchLocals
  <2> QED BY <2>1, NumberOfKept
<1> QED BY <1>1, <1>2

\* A watch keeps what is said of it while it does not move, and the book with it.
LEMMA WatchWaits ==
  ASSUME CustodyInv, OrdersKept, LedgerKept \/ (NewLedger /\ watch.pc = "idle"), watch' = watch,
         watch.pc # "idle" => cyc'.pc = cyc.pc /\ pos' = pos
  PROVE  WatchKept
<1> USE DEF CustodyInv
<1>1. WatchTyped'
  BY DEF WatchTyped
<1>2. \A c \in DOMAIN watch.rows, id \in Nat : StopOf(c, id) => StopOf(c, id)'
  BY DEF OrdersKept, StopOf
<1>3. \A id \in Nat : StopOf(watch.code, id) => StopOf(watch.code, id)'
  BY DEF OrdersKept, StopOf
<1>4. WatchReads'
  <2>1. \A c \in DOMAIN watch.rows : watch.rows[c].active \in Nat
    BY LoadedQty
  <2> QED BY <1>2, <2>1 DEF WatchReads
<1>5. WatchLocals'
  <2>1. watch.id \in Nat
    BY DEF WatchTyped, WatchStates
  <2>2. /\ \A c \in DOMAIN watch.rows : NumberAfter(watch.rows[c].odno, c)
        /\ watch.pc \in {"registered", "revised"} => NumberAfter(watch.answer.odno, watch.code)
    BY WatchNumbers
  <2>3. watch.pc \in SettlePhase => day' = day
    BY DEF LedgerKept, SettlePhase
  <2>4. (watch.pc \in {"expire", "link"} => StopOf(watch.code, watch.id))'
    BY <1>3, <2>1 DEF WatchLocals
  <2>5. (watch.pc \in SettlePhase =>
          \A c \in watch.todo :
            /\ watch.known /\ watch.rows[c].active # 0
            /\ HasRow(watch.led, watch.rows[c].odno)
            /\ watch.led[watch.rows[c].odno[2]].filled > 0)'
    BY <2>3 DEF WatchLocals, HasRow
  <2>6. /\ (\A c \in DOMAIN watch.rows : NumberOf(watch.rows[c].odno, c))'
        /\ (watch.pc \in {"registered", "revised"} => NumberOf(watch.answer.odno, watch.code))'
    BY <2>2 DEF NumberAfter, NumberOf, HasRow
  <2> QED BY <2>4, <2>5, <2>6 DEF WatchLocals
<1> QED BY <1>1, <1>4, <1>5 DEF WatchKept

\* The rows of the watch stay what the book says, while it moves on.
LEMMA ReadsStay ==
  ASSUME CustodyInv, OrdersKept, pos' = pos, watch.pc # "idle", watch'.rows = watch.rows,
         watch.pc \in RegisterPhase =>
           (watch'.pc \in RegisterPhase /\ watch'.todo \subseteq watch.todo) \/ watch'.pc \in StalePhase,
         watch.pc \in StalePhase => watch'.pc \in StalePhase,
         watch'.pc \in RegisterPhase \cup StalePhase => watch.pc \in RegisterPhase \cup StalePhase,
         ~watch'.any => ~watch.any
  PROVE  WatchReads'
<1> USE DEF CustodyInv
<1>1. \A c \in DOMAIN watch.rows : watch.rows[c].active # 0 => StopOf(c, watch.rows[c].active)'
  BY DEF WatchReads, OrdersKept, StopOf
<1> QED BY <1>1 DEF WatchReads

\* Their numbers keep their meaning.
LEMMA RowsNumbered ==
  ASSUME CustodyInv, LedgerKept, watch'.rows = watch.rows
  PROVE  (\A c \in DOMAIN watch.rows : NumberOf(watch.rows[c].odno, c))'
<1>1. \A c \in DOMAIN watch.rows : NumberAfter(watch.rows[c].odno, c)
  BY WatchNumbers
<1> QED BY <1>1 DEF NumberAfter, NumberOf, HasRow

\* The watch starts on what is open.
LEMMA WatchStartsKept ==
  ASSUME CustodyInv, Quiet, WatchStarts, UNCHANGED <<kisVars, clock, bookVars, cycleVars>>
  PROVE  WatchKept
<1> USE DEF CustodyInv
<1> DEFINE rows == LoadOpenPositions
<1>1. UNCHANGED <<pos, orders, ledger, day, cyc>>
  BY DEF bookVars, kisVars, clock, cycleVars
<1>2. cyc.pc = "idle" /\ WatchFresh("loaded", session = "open", rows)
  BY WatchStartsIs
<1>3. /\ DOMAIN rows = {c \in Codes : pos[c].open}
      /\ \A c \in DOMAIN rows :
           /\ rows[c].pid = pos[c].pid /\ rows[c].qty = pos[c].qty /\ rows[c].stop = pos[c].stop
           /\ rows[c].active = pos[c].active
           /\ rows[c].active = 0 => rows[c].odno = NoOdno /\ rows[c].trig = 0
           /\ rows[c].active # 0 => rows[c].odno = orders[pos[c].active].odno
  BY LoadIs
<1> HIDE DEF rows
<1>4. WatchTyped'
  BY <1>1, <1>2, WatchStepsAre DEF WatchTyped, WatchFresh, RegisterPhase, StalePhase
<1>5. WatchReads'
  BY <1>1, <1>2, <1>3 DEF WatchReads, WatchFresh, PositionsKept, StopOf, RegisterPhase, StalePhase
<1>6. ASSUME NEW c \in DOMAIN rows PROVE NumberOf(rows[c].odno, c)
  <2>1. c \in Codes
    BY <1>3
  <2>2. CASE rows[c].active = 0
    BY <1>3, <2>2, ConstantsAre DEF NumberOf, NoOdno, AccountTypes
  <2>3. CASE rows[c].active # 0
    BY <1>3, <2>1, <2>3 DEF NumbersKept, PositionsKept, StopOf
  <2> QED BY <2>2, <2>3
<1>7. WatchLocals'
  BY <1>1, <1>2, <1>6 DEF WatchLocals, WatchFresh, SettlePhase, StalePhase, NumberOf, HasRow
<1> QED BY <1>4, <1>5, <1>7 DEF WatchKept

\* The watch has fetched the orders of the day, or not.
LEMMA FetchKept ==
  ASSUME CustodyInv, FetchDailyOrders, UNCHANGED <<kisVars, clock, bookVars, cycleVars>>
  PROVE  WatchKept
<1> USE DEF CustodyInv
<1>1. UNCHANGED <<pos, orders, ledger, day, cyc>>
  BY DEF bookVars, kisVars, clock, cycleVars
<1>2. LedgerKept /\ OrdersKept
  BY <1>1, LedgerStays DEF OrdersKept
<1>3. /\ watch.pc = "loaded" /\ watch' \in WatchStates /\ watch'.pc = "settle"
      /\ watch'.open = watch.open /\ watch'.rows = watch.rows /\ watch'.any = watch.any
      /\ watch'.answer = watch.answer
      /\ \/ watch'.led = ledger /\ watch'.known = TRUE /\ watch'.todo = FilledStops(watch.rows, ledger)
         \/ watch'.todo = watch.todo
  BY FetchIs
<1>4. WatchTyped'
  <2>1. FilledStops(watch.rows, ledger) \subseteq DOMAIN watch.rows
    BY DEF FilledStops
  <2> QED BY <1>1, <1>3, <2>1, WatchStepsAre DEF WatchTyped, RegisterPhase, StalePhase
<1>5. WatchReads'
  BY <1>1, <1>2, <1>3, ReadsStay DEF RegisterPhase, StalePhase
<1>6. ASSUME NEW c \in watch'.todo
      PROVE  /\ watch'.known /\ watch.rows[c].active # 0
             /\ HasRow(watch'.led, watch.rows[c].odno)
             /\ watch'.led[watch.rows[c].odno[2]].filled > 0
  <2>1. watch.todo = {}
    BY <1>3 DEF WatchLocals
  <2>2. /\ watch'.known /\ c \in DOMAIN watch.rows /\ HasRow(ledger, watch.rows[c].odno)
        /\ watch'.led = ledger /\ ledger[watch.rows[c].odno[2]].filled > 0
    BY <1>3, <2>1 DEF FilledStops
  <2>3. watch.rows[c].active = 0 => watch.rows[c].odno = NoOdno
    BY <1>3, <2>2 DEF WatchReads
  <2>4. watch.rows[c].odno # NoOdno
    BY <2>2, ConstantsAre DEF HasRow, NoOdno, AccountTypes
  <2> QED BY <2>2, <2>3, <2>4
<1>7. (\A c \in DOMAIN watch.rows : NumberOf(watch.rows[c].odno, c))'
  BY <1>2, <1>3, RowsNumbered
<1>8. WatchLocals'
  <2>1. watch.answer = NoAnswer
    BY <1>3 DEF WatchLocals
  <2> QED BY <1>1, <1>3, <1>6, <1>7, <2>1 DEF WatchLocals, StalePhase, HasRow
<1> QED BY <1>4, <1>5, <1>8 DEF WatchKept

\* The watch goes on to what is missing, or ends.
LEMMA SettlementDoneKept ==
  ASSUME CustodyInv, SettlementDone, UNCHANGED <<kisVars, clock, bookVars, cycleVars>>
  PROVE  WatchKept
<1> USE DEF CustodyInv
<1> DEFINE rows == IF watch.any THEN LoadOpenPositions ELSE watch.rows
<1>1. UNCHANGED <<pos, orders, ledger, day, cyc>>
  BY DEF bookVars, kisVars, clock, cycleVars
<1>2. watch.pc = "settle" /\ rows \in Rows
  BY SettlementDoneIs
<1>3. CASE WatchFresh("idle", FALSE, <<>>)
  BY <1>3, WatchGone
<1>4. CASE /\ watch.open /\ WatchLoop("register", rows, MissingStops(rows))
           /\ MissingStops(rows) \subseteq DOMAIN rows
  <2>1. cyc.pc = "idle"
    BY <1>2 DEF WatchTyped
  <2>2. /\ \A c \in Codes : pos[c].open => c \in DOMAIN rows
        /\ \A c \in DOMAIN rows :
             /\ c \in Codes /\ rows[c].pid = pos[c].pid /\ rows[c].qty = pos[c].qty
             /\ rows[c].stop = pos[c].stop /\ rows[c].active = pos[c].active
             /\ rows[c].active = 0 => rows[c].odno = NoOdno /\ rows[c].trig = 0
             /\ rows[c].qty > 0
             /\ rows[c].active # 0 => StopOf(c, rows[c].active)
             /\ NumberOf(rows[c].odno, c)
    <3>1. CASE watch.any
      <4> DEFINE loaded == LoadOpenPositions
      <4>1. /\ DOMAIN loaded = {c \in Codes : pos[c].open}
            /\ \A c \in DOMAIN loaded :
                 /\ loaded[c].pid = pos[c].pid /\ loaded[c].qty = pos[c].qty
                 /\ loaded[c].stop = pos[c].stop /\ loaded[c].active = pos[c].active
                 /\ loaded[c].active = 0 => loaded[c].odno = NoOdno /\ loaded[c].trig = 0
                 /\ loaded[c].active # 0 => loaded[c].odno = orders[pos[c].active].odno
        BY LoadIs
      <4> HIDE DEF loaded
      <4>2. ASSUME NEW c \in DOMAIN loaded
            PROVE  /\ loaded[c].qty > 0
                   /\ loaded[c].active # 0 => StopOf(c, loaded[c].active)
                   /\ NumberOf(loaded[c].odno, c)
        <5>1. c \in Codes /\ pos[c].open
          BY <4>1
        <5>2. loaded[c].qty > 0 /\ (loaded[c].active # 0 => StopOf(c, loaded[c].active))
          BY <4>1, <5>1 DEF PositionsKept
        <5>3. CASE loaded[c].active = 0
          BY <4>1, <5>2, <5>3, ConstantsAre DEF NumberOf, NoOdno, AccountTypes
        <5>4. CASE loaded[c].active # 0
          BY <4>1, <5>1, <5>2, <5>4 DEF NumbersKept, StopOf
        <5> QED BY <5>2, <5>3, <5>4
      <4>3. rows = loaded
        BY <3>1 DEF loaded
      <4> HIDE DEF rows
      <4> QED BY <4>1, <4>2, <4>3
    <3>2. CASE ~watch.any
      <4>1. rows = watch.rows
        BY <3>2
      <4> HIDE DEF rows
      <4>2. \A c \in DOMAIN rows : c \in Codes
        BY <1>2 DEF Rows
      <4> QED BY <1>2, <3>2, <4>1, <4>2 DEF WatchReads, WatchLocals, RegisterPhase, StalePhase
    <3> QED BY <3>1, <3>2
  <2> HIDE DEF rows
  <2>3. WatchTyped'
    BY <1>1, <1>4, <2>1, WatchStepsAre DEF WatchTyped, WatchLoop
  <2>4. WatchReads'
    BY <1>1, <1>4, <2>2 DEF WatchReads, WatchLoop, StopOf
  <2>5. WatchLocals'
    BY <1>1, <1>4, <2>2 DEF WatchLocals, WatchLoop, SettlePhase, StalePhase, NumberOf, HasRow
  <2> QED BY <2>3, <2>4, <2>5 DEF WatchKept
<1> QED BY <1>3, <1>4, SettlementDoneIs

\* The watch goes on to what is out of date.
LEMMA RegistrationDoneKept ==
  ASSUME CustodyInv, RegistrationDone, UNCHANGED <<kisVars, clock, bookVars, cycleVars>>
  PROVE  WatchKept
<1> USE DEF CustodyInv
<1>1. UNCHANGED <<pos, orders, ledger, day, cyc>>
  BY DEF bookVars, kisVars, clock, cycleVars
<1>2. LedgerKept /\ OrdersKept
  BY <1>1, LedgerStays DEF OrdersKept
<1>3. /\ watch.pc = "register" /\ watch.open
      /\ WatchLoop("stale", watch.rows, StaleStops(watch.rows))
      /\ StaleStops(watch.rows) \subseteq DOMAIN watch.rows
  BY RegistrationDoneIs
<1>4. cyc.pc = "idle"
  BY <1>3 DEF WatchTyped
<1>5. WatchTyped'
  BY <1>1, <1>3, <1>4, WatchStepsAre DEF WatchTyped, WatchLoop
<1>6. WatchReads'
  BY <1>1, <1>2, <1>3, ReadsStay DEF RegisterPhase, StalePhase, WatchLoop
<1>7. (\A c \in DOMAIN watch.rows : NumberOf(watch.rows[c].odno, c))'
  BY <1>2, <1>3, RowsNumbered DEF WatchLoop
<1>8. WatchLocals'
  BY <1>3, <1>7 DEF WatchLocals, WatchLoop, SettlePhase, StaleStops
<1> QED BY <1>5, <1>6, <1>8 DEF WatchKept

\* The calls of the watch to KIS.
LEMMA WatchCallsKept ==
  ASSUME CustodyInv, LedgerKept, WatchCalls, UNCHANGED <<clock, bookVars, cycleVars>>
  PROVE  WatchKept
<1> USE DEF CustodyInv
<1>1. UNCHANGED <<pos, orders, day, cyc>> /\ OrdersKept
  BY DEF bookVars, clock, cycleVars, OrdersKept
<1>2. cyc.pc = "idle"
  BY Apart
<1>3. ASSUME NEW c \in Codes, RegisterMissing(c) PROVE WatchKept
  <2> DEFINE row == LedgerRow(c, "stop", watch.rows[c].qty, 0, TRUE, watch.rows[c].stop)
  <2>1. /\ watch.pc = "register" /\ c \in watch.todo
        /\ watch.rows[c].qty \in Nat /\ watch.rows[c].stop \in Stops
        /\ \/ /\ WatchTo("registered", c, watch.n, watch.id, Submitted, watch.any)
              /\ ledger' = Append(ledger, row)
           \/ WatchTo("registered", c, watch.n, watch.id, Rejected, watch.any)
    BY <1>3, RegisterMissingIs
  <2>2. NumberAfter(watch'.answer.odno, c)
    <3>1. CASE watch'.answer = Rejected
      <4>1. watch'.answer.odno[1] = 0 /\ day' \in Nat \ {0}
        BY <1>1, <3>1, AnswersAre, ConstantsAre DEF NoOdno, AccountTypes
      <4> QED BY <4>1 DEF NumberAfter
    <3>2. CASE watch'.answer = Submitted /\ ledger' = Append(ledger, row)
      <4>1. row \in LedgerRows
        BY <2>1, ConstantsAre, RowIs
      <4>2. row.code = c
        BY DEF LedgerRow
      <4> HIDE DEF row
      <4>3. Len(ledger) + 1 \in DOMAIN ledger' /\ ledger'[Len(ledger) + 1] = row
        BY <3>2, <4>1, AppendIs DEF AccountTypes
      <4> QED BY <1>1, <3>2, <4>2, <4>3, SubmittedNumber
    <3> QED BY <2>1, <3>1, <3>2 DEF WatchTo
  <2> HIDE DEF row
  <2>3. /\ watch' \in WatchStates /\ watch'.pc = "registered" /\ watch'.open = watch.open
        /\ watch'.rows = watch.rows /\ watch'.todo = watch.todo /\ watch'.any = watch.any
        /\ watch'.code = c
    BY <2>1 DEF WatchTo
  <2> HIDE DEF CustodyInv
  <2>4. WatchTyped'
    BY <1>1, <1>2, <2>1, <2>3, WatchStepsAre DEF CustodyInv, WatchTyped, RegisterPhase
  <2>5. WatchReads'
    BY <1>1, <2>1, <2>3, ReadsStay DEF RegisterPhase, StalePhase
  <2>6. (\A d \in DOMAIN watch.rows : NumberOf(watch.rows[d].odno, d))'
    BY <2>3, RowsNumbered
  <2>7. (watch.pc \in {"registered", "revised"} => NumberOf(watch.answer.odno, watch.code))'
    BY <2>2, <2>3 DEF NumberAfter, NumberOf, HasRow
  <2>8. WatchLocals'
    BY <2>3, <2>6, <2>7 DEF WatchLocals, SettlePhase, StalePhase
  <2> QED BY <2>4, <2>5, <2>8 DEF WatchKept
<1>4. ASSUME NEW c \in Codes, ReviseStale(c) PROVE WatchKept
  <2> DEFINE j == watch.rows[c].odno[2]
             t == watch.rows[c].stop
  <2>1. /\ watch.pc = "stale" /\ c \in watch.todo /\ t \in Stops
        /\ \/ WatchLoop("stale", watch.rows, watch.todo \ {c})
           \/ /\ WatchTo("revised", c, watch.n, watch.id, Submitted, watch.any)
              /\ j \in DOMAIN ledger
              /\ ledger' = Append([ledger EXCEPT ![j].live = FALSE],
                                  LedgerRow(c, "stop", Remaining(ledger[j]), 0, TRUE, t))
    BY <1>4, ReviseStaleIs
  <2> HIDE DEF j, t
  <2>2. watch.open /\ \A d \in watch.todo : watch.rows[d].active # 0
    BY <2>1 DEF WatchLocals, WatchTyped, StalePhase
  <2>3. CASE WatchLoop("stale", watch.rows, watch.todo \ {c})
    <3> HIDE DEF CustodyInv
    <3>1. WatchTyped'
      BY <1>1, <1>2, <2>2, <2>3, WatchStepsAre DEF CustodyInv, WatchTyped, WatchLoop
    <3>2. WatchReads'
      BY <1>1, <2>1, <2>3, ReadsStay DEF RegisterPhase, StalePhase, WatchLoop
    <3>3. (\A d \in DOMAIN watch.rows : NumberOf(watch.rows[d].odno, d))'
      BY <2>3, RowsNumbered DEF WatchLoop
    <3>4. WatchLocals'
      BY <2>2, <2>3, <3>3 DEF WatchLocals, WatchLoop, SettlePhase
    <3> QED BY <3>1, <3>2, <3>4 DEF WatchKept
  <2>4. CASE ~WatchLoop("stale", watch.rows, watch.todo \ {c})
    <3>1. NumberAfter(Submitted.odno, c)
      <4> DEFINE row == LedgerRow(c, "stop", Remaining(ledger[j]), 0, TRUE, t)
      <4>1. Len(ledger) + 1 \in DOMAIN ledger' /\ ledger'[Len(ledger) + 1] = row
        BY <2>1, <2>4, RevisedIs
      <4>2. row.code = c
        BY DEF LedgerRow
      <4> HIDE DEF row
      <4> QED BY <1>1, <4>1, <4>2, SubmittedNumber
    <3>2. /\ watch' \in WatchStates /\ watch'.pc = "revised" /\ watch'.open = watch.open
          /\ watch'.rows = watch.rows /\ watch'.todo = watch.todo /\ watch'.any = watch.any
          /\ watch'.code = c /\ watch'.answer = Submitted
      BY <2>1, <2>4 DEF WatchTo
    <3> HIDE DEF CustodyInv
    <3>3. WatchTyped'
      BY <1>1, <1>2, <2>1, <2>2, <3>2, WatchStepsAre DEF CustodyInv, WatchTyped, StalePhase
    <3>4. WatchReads'
      BY <1>1, <2>1, <3>2, ReadsStay DEF RegisterPhase, StalePhase
    <3>5. (\A d \in DOMAIN watch.rows : NumberOf(watch.rows[d].odno, d))'
      BY <3>2, RowsNumbered
    <3>6. (watch.pc \in {"registered", "revised"} => NumberOf(watch.answer.odno, watch.code))'
      BY <3>1, <3>2 DEF NumberAfter, NumberOf, HasRow
    <3>7. WatchLocals'
      BY <2>2, <3>2, <3>5, <3>6 DEF WatchLocals, SettlePhase, StalePhase
    <3> QED BY <3>3, <3>4, <3>7 DEF WatchKept
  <2> QED BY <2>3, <2>4
<1> QED BY <1>3, <1>4 DEF WatchCalls

\* The writes of the watch in the settlement.
LEMMA SettleBooksKept ==
  ASSUME CustodyInv, LedgerKept, OrdersKept, UNCHANGED <<kisVars, clock, cycleVars>>,
         (\E c \in Codes : MarkFilled(c)) \/ RecordStopHit \/ SettlePosition
  PROVE  WatchKept
<1> USE DEF CustodyInv
<1>1. UNCHANGED <<ledger, day, cyc>>
  BY DEF kisVars, clock, cycleVars
<1>2. cyc.pc = "idle"
  BY Apart DEF WatchBooks
<1>3. /\ watch.pc = "settle" => watch.answer = NoAnswer
      /\ watch.pc \in SettlePhase =>
           \A d \in watch.todo :
             /\ watch.known /\ watch.rows[d].active # 0
             /\ HasRow(watch.led, watch.rows[d].odno)
             /\ watch.led[watch.rows[d].odno[2]].filled > 0
  BY DEF WatchLocals, SettlePhase
<1>4. ASSUME NEW c \in Codes, MarkFilled(c) PROVE WatchKept
  <2> DEFINE id == watch.rows[c].active
             n == Smaller(watch.led[watch.rows[c].odno[2]].filled, watch.rows[c].qty)
  <2>1. /\ watch.pc = "settle" /\ c \in watch.todo /\ c \in DOMAIN watch.rows /\ pos' = pos
        /\ \/ /\ pos[c].open /\ n \in Nat \ {0}
              /\ WatchTo("settleOutcome", c, n, id, watch.answer, TRUE)
           \/ WatchLoop("settle", watch.rows, watch.todo \ {c})
    BY <1>4, MarkFilledIs
  <2> HIDE DEF n, id
  <2>2. watch'.rows = watch.rows
    BY <2>1 DEF WatchTo, WatchLoop
  <2>3. (\A d \in DOMAIN watch.rows : NumberOf(watch.rows[d].odno, d))'
    BY <2>2, RowsNumbered
  <2>4. CASE WatchLoop("settle", watch.rows, watch.todo \ {c})
    <3> HIDE DEF CustodyInv
    <3>1. WatchTyped'
      BY <1>1, <1>2, <2>4, WatchStepsAre DEF CustodyInv, WatchTyped, WatchLoop, RegisterPhase, StalePhase
    <3>2. WatchReads'
      BY <1>1, <2>1, <2>4, ReadsStay DEF RegisterPhase, StalePhase, WatchLoop
    <3>3. WatchLocals'
      BY <1>1, <1>3, <2>1, <2>3, <2>4 DEF WatchLocals, WatchLoop, SettlePhase, StalePhase, HasRow
    <3> QED BY <3>1, <3>2, <3>3 DEF WatchKept
  <2>5. CASE pos[c].open /\ n \in Nat \ {0} /\ WatchTo("settleOutcome", c, n, id, watch.answer, TRUE)
    <3> HIDE DEF CustodyInv
    <3>1. WatchTyped'
      BY <1>1, <1>2, <2>1, <2>5, WatchStepsAre
         DEF CustodyInv, WatchTyped, WatchTo, RegisterPhase, StalePhase
    <3>2. WatchReads'
      BY <1>1, <2>1, <2>5, ReadsStay DEF RegisterPhase, StalePhase, WatchTo
    <3>3. WatchLocals'
      BY <1>1, <1>3, <2>1, <2>3, <2>5 DEF WatchLocals, WatchTo, SettlePhase, StalePhase, HasRow, id
    <3> QED BY <3>1, <3>2, <3>3 DEF WatchKept
  <2> QED BY <2>1, <2>4, <2>5
<1>5. CASE RecordStopHit
  <2>1. /\ watch.pc = "settleOutcome" /\ watch.code \in watch.todo /\ pos' = pos
        /\ \E pc \in {"aborted", "settleClose"} :
             WatchTo(pc, watch.code, watch.n, watch.id, watch.answer, watch.any)
    BY <1>5, RecordStopHitIs
  <2>2. /\ watch' \in WatchStates /\ watch'.pc \in {"aborted", "settleClose"}
        /\ watch'.open = watch.open /\ watch'.rows = watch.rows /\ watch'.led = watch.led
        /\ watch'.known = watch.known /\ watch'.todo = watch.todo /\ watch'.any = watch.any
        /\ watch'.code = watch.code /\ watch'.n = watch.n /\ watch'.id = watch.id
        /\ watch'.answer = watch.answer
    BY <2>1 DEF WatchTo
  <2>3. (\A d \in DOMAIN watch.rows : NumberOf(watch.rows[d].odno, d))'
    BY <2>2, RowsNumbered
  <2>4. watch.id = watch.rows[watch.code].active /\ watch.n > 0 /\ watch.any /\ pos[watch.code].open
        /\ watch.answer = NoAnswer
    BY <2>1 DEF WatchLocals, SettlePhase
  <2> HIDE DEF CustodyInv
  <2>5. WatchTyped'
    BY <1>1, <1>2, <2>1, <2>2, WatchStepsAre DEF CustodyInv, WatchTyped, RegisterPhase, StalePhase
  <2>6. WatchReads'
    BY <1>1, <2>1, <2>2, ReadsStay DEF RegisterPhase, StalePhase
  <2>7. WatchLocals'
    BY <1>1, <1>3, <2>1, <2>2, <2>3, <2>4 DEF WatchLocals, SettlePhase, StalePhase, HasRow
  <2> QED BY <2>5, <2>6, <2>7 DEF WatchKept
<1>6. CASE SettlePosition
  <2> DEFINE c == watch.code
  <2>1. /\ watch.pc = "settleClose" /\ c \in watch.todo /\ c \in Codes /\ Changed(c)
        /\ WatchLoop("settle", watch.rows, watch.todo \ {c})
        /\ pos[c].open /\ pos'[c].stop = pos[c].stop /\ pos'[c].active = pos[c].active
        /\ pos'[c].pid = pos[c].pid
    BY <1>6, SettlePositionIs
  <2>2. watch.any
    BY <2>1 DEF WatchLocals
  <2> HIDE DEF c
  <2>3. (\A d \in DOMAIN watch.rows : NumberOf(watch.rows[d].odno, d))'
    BY <2>1, RowsNumbered DEF WatchLoop
  <2>4. \A d \in Codes : /\ pos'[d].open => pos[d].open
                         /\ pos'[d].stop = pos[d].stop /\ pos'[d].active = pos[d].active
                         /\ pos'[d].pid = pos[d].pid
    BY <2>1 DEF Changed
  <2>5. DOMAIN watch.rows \subseteq Codes
    BY LoadedIs DEF WatchTyped
  <2>6. WatchTyped'
    BY <1>1, <1>2, <2>1, WatchStepsAre DEF WatchTyped, WatchLoop, RegisterPhase, StalePhase
  <2>7. \A d \in DOMAIN watch.rows : watch.rows[d].active # 0 => StopOf(d, watch.rows[d].active)'
    BY <2>1 DEF WatchReads, WatchLoop, OrdersKept, StopOf
  <2>8. WatchReads'
    BY <2>1, <2>2, <2>4, <2>5, <2>7 DEF WatchReads, WatchLoop, RegisterPhase, StalePhase
  <2>9. WatchLocals'
    BY <1>1, <1>3, <2>1, <2>3 DEF WatchLocals, WatchLoop, SettlePhase, StalePhase, HasRow
  <2> QED BY <2>6, <2>8, <2>9 DEF WatchKept
<1> QED BY <1>4, <1>5, <1>6

\* The writes of the watch in the registrations.
LEMMA RegisterBooksKept ==
  ASSUME CustodyInv, LedgerKept, OrdersKept, UNCHANGED <<kisVars, clock, cycleVars>>,
         RecordRegistered \/ ExpireOldStop \/ LinkRegistered
  PROVE  WatchKept
<1> USE DEF CustodyInv
<1>1. UNCHANGED <<ledger, day, cyc>>
  BY DEF kisVars, clock, cycleVars
<1>2. cyc.pc = "idle"
  BY Apart DEF WatchBooks
<1>3. watch.pc \in RegisterPhase => watch.open
  BY DEF WatchTyped
<1>4. CASE RecordRegistered
  <2> DEFINE c == watch.code
             id == Len(orders) + 1
  <2>1. /\ watch.pc = "registered" /\ c \in watch.todo /\ pos' = pos
        /\ \/ WatchLoop("register", watch.rows, watch.todo \ {c})
           \/ /\ \E pc \in {"link", "expire"} :
                   /\ pc = "expire" => watch.rows[c].active # 0
                   /\ WatchTo(pc, c, watch.n, id, watch.answer, watch.any)
              /\ id \in DOMAIN orders' /\ orders'[id].code = c /\ orders'[id].purpose = "stop"
    <3>1. /\ watch.pc = "registered" /\ c \in watch.todo /\ pos' = pos
          /\ \/ WatchLoop("register", watch.rows, watch.todo \ {c})
             \/ /\ \/ WatchTo("link", c, watch.n, id, watch.answer, watch.any)
                   \/ /\ watch.rows[c].active # 0
                      /\ WatchTo("expire", c, watch.n, id, watch.answer, watch.any)
                /\ id \in DOMAIN orders' /\ orders'[id].code = c /\ orders'[id].purpose = "stop"
      BY <1>4, RecordRegisteredIs
    <3> QED BY <3>1
  <2> HIDE DEF id
  <2>2. watch'.rows = watch.rows
    BY <2>1 DEF WatchTo, WatchLoop
  <2>3. (\A d \in DOMAIN watch.rows : NumberOf(watch.rows[d].odno, d))'
    BY <2>2, RowsNumbered
  <2>4. CASE WatchLoop("register", watch.rows, watch.todo \ {c})
    <3> HIDE DEF CustodyInv
    <3>1. WatchTyped'
      BY <1>1, <1>2, <1>3, <2>1, <2>4, WatchStepsAre DEF CustodyInv, WatchTyped, WatchLoop, RegisterPhase
    <3>2. WatchReads'
      BY <1>1, <2>1, <2>4, ReadsStay DEF RegisterPhase, StalePhase, WatchLoop
    <3>3. WatchLocals'
      BY <1>1, <2>1, <2>3, <2>4 DEF WatchLocals, WatchLoop, SettlePhase, StalePhase
    <3> QED BY <3>1, <3>2, <3>3 DEF WatchKept
  <2>5. ASSUME NEW pc \in {"link", "expire"}, pc = "expire" => watch.rows[c].active # 0,
               WatchTo(pc, c, watch.n, id, watch.answer, watch.any),
               id \in DOMAIN orders', orders'[id].code = c, orders'[id].purpose = "stop"
        PROVE  WatchKept
    <3> HIDE DEF CustodyInv
    <3>1. WatchTyped'
      BY <1>1, <1>2, <1>3, <2>1, <2>5, WatchStepsAre DEF CustodyInv, WatchTyped, WatchTo, RegisterPhase
    <3>2. WatchReads'
      BY <1>1, <2>1, <2>5, ReadsStay DEF RegisterPhase, StalePhase, WatchTo
    <3>3. WatchLocals'
      BY <1>1, <2>1, <2>3, <2>5 DEF WatchLocals, WatchTo, SettlePhase, StalePhase, StopOf
    <3> QED BY <3>1, <3>2, <3>3 DEF WatchKept
  <2> QED BY <2>1, <2>4, <2>5
<1>5. CASE ExpireOldStop
  <2>1. /\ watch.pc = "expire" /\ watch.code \in watch.todo /\ pos' = pos
        /\ WatchTo("link", watch.code, watch.n, watch.id, watch.answer, watch.any)
    BY <1>5, ExpireOldStopIs
  <2>2. (\A d \in DOMAIN watch.rows : NumberOf(watch.rows[d].odno, d))'
    BY <2>1, RowsNumbered DEF WatchTo
  <2>3. StopOf(watch.code, watch.id)'
    BY <2>1 DEF WatchLocals, WatchTo, OrdersKept, StopOf
  <2> HIDE DEF CustodyInv
  <2>4. WatchTyped'
    BY <1>1, <1>2, <1>3, <2>1, WatchStepsAre DEF CustodyInv, WatchTyped, WatchTo, RegisterPhase
  <2>5. WatchReads'
    BY <1>1, <2>1, ReadsStay DEF RegisterPhase, StalePhase, WatchTo
  <2>6. WatchLocals'
    BY <1>1, <2>1, <2>2, <2>3 DEF WatchLocals, WatchTo, SettlePhase, StalePhase
  <2> QED BY <2>4, <2>5, <2>6 DEF WatchKept
<1>6. CASE LinkRegistered
  <2> DEFINE c == watch.code
  <2>1. /\ watch.pc = "link" /\ c \in watch.todo /\ c \in Codes /\ Changed(c)
        /\ WatchLoop("register", watch.rows, watch.todo \ {c})
        /\ pos'[c].stop = pos[c].stop /\ pos'[c].open = pos[c].open
        /\ pos'[c].qty = pos[c].qty /\ pos'[c].pid = pos[c].pid
    BY <1>6, LinkRegisteredIs
  <2> HIDE DEF c
  <2>2. (\A d \in DOMAIN watch.rows : NumberOf(watch.rows[d].odno, d))'
    BY <2>1, RowsNumbered DEF WatchLoop
  <2>3. \A d \in Codes : /\ pos'[d].open = pos[d].open /\ pos'[d].qty = pos[d].qty
                         /\ pos'[d].stop = pos[d].stop /\ pos'[d].pid = pos[d].pid
                         /\ d # c => pos'[d].active = pos[d].active
    BY <2>1 DEF Changed
  <2>4. DOMAIN watch.rows \subseteq Codes
    BY LoadedIs DEF WatchTyped
  <2>5. WatchTyped'
    BY <1>1, <1>2, <1>3, <2>1, WatchStepsAre DEF WatchTyped, WatchLoop, RegisterPhase
  <2>6. \A d \in DOMAIN watch.rows : watch.rows[d].active # 0 => StopOf(d, watch.rows[d].active)'
    BY <2>1 DEF WatchReads, WatchLoop, OrdersKept, StopOf
  <2>7. WatchReads'
    BY <2>1, <2>3, <2>4, <2>6 DEF WatchReads, WatchLoop, RegisterPhase, StalePhase
  <2>8. WatchLocals'
    BY <2>1, <2>2 DEF WatchLocals, WatchLoop, SettlePhase, StalePhase
  <2> QED BY <2>5, <2>7, <2>8 DEF WatchKept
<1> QED BY <1>4, <1>5, <1>6

\* The write of the watch after a revision.
LEMMA StaleBooksKept ==
  ASSUME CustodyInv, LedgerKept, OrdersKept, UNCHANGED <<kisVars, clock, cycleVars>>,
         RecordStaleRevision
  PROVE  WatchKept
<1> USE DEF CustodyInv
<1>1. UNCHANGED <<ledger, day, cyc>>
  BY DEF kisVars, clock, cycleVars
<1>2. cyc.pc = "idle"
  BY Apart DEF WatchBooks
<1>3. /\ watch.pc = "revised" /\ watch.code \in watch.todo /\ pos' = pos
      /\ WatchLoop("stale", watch.rows, watch.todo \ {watch.code})
  BY RecordStaleRevisionIs
<1>4. watch.open /\ \A d \in watch.todo : watch.rows[d].active # 0
  BY <1>3 DEF WatchTyped, WatchLocals, StalePhase
<1>5. (\A d \in DOMAIN watch.rows : NumberOf(watch.rows[d].odno, d))'
  BY <1>3, RowsNumbered DEF WatchLoop
<1> HIDE DEF CustodyInv
<1>6. WatchTyped'
  BY <1>1, <1>2, <1>3, <1>4, WatchStepsAre DEF CustodyInv, WatchTyped, WatchLoop
<1>7. WatchReads'
  BY <1>1, <1>3, ReadsStay DEF RegisterPhase, StalePhase, WatchLoop
<1>8. WatchLocals'
  BY <1>3, <1>4, <1>5 DEF WatchLocals, WatchLoop, SettlePhase, StalePhase
<1> QED BY <1>6, <1>7, <1>8 DEF WatchKept

\* What is said of the watch holds after every step.
LEMMA WatchInvStep ==
  ASSUME CustodyInv, [Next]_vars
  PROVE  WatchKept
<1> USE DEF CustodyInv
<1>1. OrdersKept /\ (LedgerKept \/ (NewLedger /\ NewDay))
  BY OrdersStep, LedgerStep
<1>2. CASE Nature /\ UNCHANGED <<bookVars, cyc, safeStop, watch, crashes>>
  <2>1. NewDay => watch.pc = "idle"
    BY DEF NewDay, Quiet
  <2>2. pos' = pos /\ cyc' = cyc /\ watch' = watch
    BY <1>2 DEF bookVars
  <2> QED BY <1>1, <2>1, <2>2, WatchWaits
<1>3. CASE Others /\ UNCHANGED <<kisVars, clock, bookVars, cycled, swept>>
  <2>1. CASE Release
    <3>1. UNCHANGED <<cyc, pos, ledger, day, watch>>
      BY <1>3, <2>1 DEF Release, ReleaseSafeStop, bookVars, watchVars, kisVars, clock
    <3> QED BY <1>1, <3>1, LedgerStays, WatchWaits
  <2>2. CASE Crash
    BY <2>2, NoWatch, WatchGone DEF Crash
  <2> QED BY <1>3, <2>1, <2>2 DEF Others
<1>4. CASE (CycleLooks \/ CycleCalls \/ CycleBooks) /\ UNCHANGED <<clock, watchVars>>
  <2>1. watch' = watch /\ watch.pc = "idle" /\ day' = day
    BY <1>4, Apart DEF watchVars, clock
  <2> QED BY <1>1, <2>1, WatchWaits
<1>5. CASE WatchLooks /\ UNCHANGED <<kisVars, clock, bookVars, cycleVars>>
  <2>1. CASE Quiet /\ WatchNothing
    <3>1. UNCHANGED <<cyc, pos, ledger, day, watch>>
      BY <1>5, <2>1 DEF WatchNothing, bookVars, kisVars, clock, cycleVars
    <3> QED BY <1>1, <3>1, LedgerStays, WatchWaits
  <2>2. CASE WatchAborts \/ WatchEnds
    BY <2>2, WatchEndIs, WatchGone
  <2> QED BY <1>5, <2>1, <2>2, WatchStartsKept, FetchKept, SettlementDoneKept,
             RegistrationDoneKept DEF WatchLooks
<1>6. CASE (WatchCalls \/ WatchBooks) /\ UNCHANGED <<clock, cycleVars>>
  <2>1. LedgerKept
    <3>1. ~NewDay
      <4>1. watch.pc # "idle"
        BY <1>6, Apart
      <4> QED BY <4>1 DEF NewDay, Quiet
    <3> QED BY <1>1, <3>1
  <2>2. CASE WatchCalls /\ UNCHANGED bookVars
    BY <1>6, <2>1, <2>2, WatchCallsKept
  <2>3. CASE WatchBooks /\ UNCHANGED kisVars
    BY <1>1, <1>6, <2>1, <2>3, SettleBooksKept, RegisterBooksKept, StaleBooksKept DEF WatchBooks
  <2>4. CASE UNCHANGED <<bookVars, kisVars, watch>>
    <3>1. pos' = pos /\ cyc' = cyc
      BY <1>6, <2>4 DEF bookVars, cycleVars
    <3> QED BY <1>1, <2>1, <2>4, <3>1, WatchWaits
  <2>5. /\ WatchCalls => UNCHANGED bookVars
        /\ WatchBooks => UNCHANGED kisVars
    BY DEF WatchCalls, WatchBooks, RegisterMissing, ReviseStale, MarkFilled, RecordStopHit,
       SettlePosition, RecordRegistered, ExpireOldStop, LinkRegistered, RecordStaleRevision
  <2> QED BY <1>6, <2>2, <2>3, <2>5
<1>7. CASE UNCHANGED vars
  <2>1. UNCHANGED <<cyc, pos, ledger, day, watch>>
    BY <1>7 DEF vars, cycleVars, bookVars, watchVars, kisVars, clock
  <2> QED BY <1>1, <2>1, LedgerStays, WatchWaits
<1> QED BY <1>2, <1>3, <1>4, <1>5, <1>6, <1>7, EveryStep

-----------------------------------------------------------------------------
(* The invariant that holds whatever fails.                                *)

\* It holds at first.
LEMMA CustodyStarts ==
  ASSUME Init
  PROVE  CustodyInv
<1>1. AccountTypes /\ FillsKept
  BY ConstantsAre DEF Init, KisInit, AccountTypes, FillsKept
<1>2. BookTypes /\ PositionsKept /\ DatesKept /\ NumbersKept
  <2>1. /\ pos = [c \in Codes |-> NoPosition] /\ orders = <<>> /\ outcomes = {} /\ day = 1
    BY DEF Init, BookInit, KisInit
  <2>2. \A c \in Codes : pos[c].active = 0 /\ pos[c].open = FALSE /\ pos[c].qty = 0 /\ pos[c].pid = 0
    BY <2>1 DEF NoPosition, Position
  <2> QED BY <2>1, <2>2, ConstantsAre DEF BookTypes, PositionsKept, DatesKept, NumbersKept
<1>3. FlagsKept
  <2>1. cycled = FALSE /\ safeStop = FALSE /\ swept = FALSE /\ crashes = 0
    BY DEF Init, CycleInit, WatchInit
  <2>2. crashes \in 0 .. MaxCrashes
    BY <2>1, CrashAssumption
  <2> QED BY <2>1, <2>2 DEF FlagsKept
<1>4. /\ cyc \in CycleStates /\ cyc.pc = "idle"
  <2>1. NoRows \in [Codes -> Positions] /\ NoAnswer \in Answers
    BY ConstantsAre DEF NoRows
  <2> QED BY <2>1, StepsAre DEF Init, CycleInit, IdleCycle, CycleState, CycleStates
<1>5. CycleTyped /\ CycleReads /\ CycleLocals
  BY <1>4, StepsAre DEF CycleTyped, CycleReads, CycleLocals, ExitPhase, EntryPhase
<1>6. /\ watch \in WatchStates /\ watch.pc = "idle" /\ watch.rows = <<>> /\ watch.todo = {}
      /\ watch.answer = NoAnswer
  <2>1. <<>> \in [{} -> LoadedRows] /\ {} \in SUBSET Codes
    OBVIOUS
  <2>2. <<>> \in Rows
    BY <2>1 DEF Rows
  <2>3. NoAnswer \in Answers /\ <<>> \in Seq(LedgerRows)
    BY ConstantsAre
  <2> QED BY <2>2, <2>3, WatchStepsAre
          DEF Init, WatchInit, IdleWatch, WatchState, WatchStates, Rows
<1>7. WatchTyped /\ WatchReads /\ WatchLocals
  <2>1. DOMAIN <<>> = {}
    OBVIOUS
  <2> QED BY <1>5, <1>6, <2>1, WatchStepsAre
          DEF WatchTyped, WatchReads, WatchLocals, RegisterPhase, StalePhase, SettlePhase
<1> QED BY <1>1, <1>2, <1>3, <1>5, <1>7 DEF CustodyInv

\* Every step keeps it.
LEMMA CustodyStep ==
  ASSUME CustodyInv, [Next]_vars
  PROVE  CustodyInv'
<1>1. AccountTypes' /\ FillsKept'
  BY AccountStep
<1>2. BookTypes' /\ PositionsKept' /\ FlagsKept' /\ DatesKept' /\ NumbersKept'
  BY BookStep, FlagsStep, DatesStep, NumbersStep
<1>3. CycleTyped' /\ CycleReads' /\ CycleLocals' /\ WatchTyped' /\ WatchReads' /\ WatchLocals'
  BY CycleInvStep, WatchInvStep DEF CycleKept, WatchKept
<1> QED BY <1>1, <1>2, <1>3 DEF CustodyInv

\* Whatever fails, the cycle and the watch find the account and the book as they read them.
THEOREM CustodyInvariant == Spec => []CustodyInv
<1>1. Init => CustodyInv
  BY CustodyStarts
<1>2. CustodyInv /\ [Next]_vars => CustodyInv'
  BY CustodyStep
<1> QED BY <1>1, <1>2, PTL DEF Spec

-----------------------------------------------------------------------------
(* While orders are filled whole: every amount is nothing or a lot.        *)

NoPartial == "partial" \notin Faults

\* Nothing and a lot.
LEMMA WholeIs ==
  /\ Lot \in Nat \ {0} /\ 0 \in Whole /\ Lot \in Whole
  /\ \A n \in Whole : n \in Nat /\ (n > 0 => n = Lot)
BY ConstantsAre DEF Whole

\* An order of a lot leaves the amounts whole.
LEMMA WholeGrows ==
  ASSUME AccountTypes, WholeAccount, NEW row \in LedgerRows, ledger' = Append(ledger, row),
         row.qty = Lot, row.filled \in Whole, row.live => row.filled = 0,
         \A c \in Codes : held'[c] \in Whole
  PROVE  WholeAccount'
<1>1. /\ DOMAIN ledger' = DOMAIN ledger \cup {Len(ledger) + 1}
      /\ \A i \in DOMAIN ledger : ledger'[i] = ledger[i]
      /\ ledger'[Len(ledger) + 1] = row
  BY AppendIs DEF AccountTypes
<1> QED BY <1>1 DEF WholeAccount

\* So does a revision.
LEMMA WholeRevised ==
  ASSUME AccountTypes, FillsKept, WholeAccount, NEW c \in Codes, NEW j \in DOMAIN ledger,
         NEW t \in Stops, ledger[j].live, held' = held,
         ledger' = Append([ledger EXCEPT ![j].live = FALSE],
                          LedgerRow(c, "stop", Remaining(ledger[j]), 0, TRUE, t))
  PROVE  WholeAccount'
<1> DEFINE row == LedgerRow(c, "stop", Remaining(ledger[j]), 0, TRUE, t)
<1>1. /\ DOMAIN ledger' = DOMAIN ledger \cup {Len(ledger) + 1}
      /\ \A i \in DOMAIN ledger \ {j} : ledger'[i] = ledger[i]
      /\ ledger'[j].qty = ledger[j].qty /\ ledger'[j].filled = ledger[j].filled
      /\ ledger'[j].live = FALSE
      /\ ledger'[Len(ledger) + 1] = row
  BY RevisedIs
<1>2. Remaining(ledger[j]) = Lot
  BY WholeIs DEF WholeAccount, Remaining
<1>3. row.qty = Lot /\ row.filled = 0
  BY <1>2 DEF LedgerRow
<1> HIDE DEF row
<1>4. ASSUME NEW i \in DOMAIN ledger'
      PROVE  /\ ledger'[i].qty = Lot /\ ledger'[i].filled \in Whole
             /\ ledger'[i].live => ledger'[i].filled = 0
  <2>1. CASE i = Len(ledger) + 1
    BY <1>1, <1>3, <2>1, WholeIs
  <2>2. CASE i = j
    BY <1>1, <2>2 DEF WholeAccount
  <2>3. CASE i \in DOMAIN ledger \ {j}
    BY <1>1, <2>3 DEF WholeAccount
  <2> QED BY <1>1, <2>1, <2>2, <2>3
<1> QED BY <1>4 DEF WholeAccount

\* A stop triggers whole.
LEMMA WholeTriggers ==
  ASSUME NoPartial, AccountTypes, WholeAccount, NEW i \in DOMAIN ledger, NEW n \in 1 .. Lot,
         StopTriggers(i, n)
  PROVE  /\ WholeAccount' /\ held'[ledger[i].code] = 0 /\ ledger'[i].live = FALSE
         /\ \A c \in Codes \ {ledger[i].code} : held'[c] = held[c]
         /\ n = Lot
<1> DEFINE row == ledger[i]
           c == row.code
<1>1. /\ row.live /\ c \in Codes /\ n \in PartFills(Remaining(row)) /\ n <= held[c]
      /\ held' = [held EXCEPT ![c] = held[c] - n]
      /\ DOMAIN ledger' = DOMAIN ledger
      /\ \A j \in DOMAIN ledger \ {i} : ledger'[j] = ledger[j]
      /\ ledger'[i].qty = row.qty /\ ledger'[i].filled = row.filled + n
      /\ ledger'[i].live = (n < Remaining(row))
  BY TriggerIs
<1>2. row.qty = Lot /\ row.filled = 0 /\ held[c] \in Whole /\ held \in [Codes -> Nat]
  BY <1>1 DEF WholeAccount, AccountTypes
<1> HIDE DEF row, c
<1>3. Remaining(row) = Lot
  BY <1>2, WholeIs DEF Remaining
<1>4. n = Lot
  BY <1>1, <1>3 DEF PartFills, NoPartial
<1>5. held[c] = Lot /\ row.filled + n = Lot /\ ~(n < Remaining(row))
  BY <1>1, <1>2, <1>3, <1>4, WholeIs
<1>8. ledger'[i].live = FALSE /\ ledger'[i].filled = Lot /\ ledger'[i].qty = Lot
  <2>1. ledger'[i].filled = Lot /\ ledger'[i].qty = Lot
    BY <1>1, <1>2, <1>5
  <2>2. (n < Remaining(row)) = FALSE
    BY <1>5
  <2>3. ledger'[i].live = (n < Remaining(row))
    BY <1>1
  <2> HIDE DEF Remaining
  <2>4. ledger'[i].live = FALSE
    BY ONLY <2>2, <2>3
  <2> QED BY <2>1, <2>4
<1>6. held'[c] = 0 /\ \A d \in Codes \ {c} : held'[d] = held[d]
  BY <1>1, <1>2, <1>4, <1>5, WholeIs
<1>7. WholeAccount'
  <2>1. \A d \in Codes : held'[d] \in Whole
    BY <1>6, WholeIs DEF WholeAccount
  <2>2. \A k \in DOMAIN ledger' :
          /\ ledger'[k].qty = Lot /\ ledger'[k].filled \in Whole
          /\ ledger'[k].live => ledger'[k].filled = 0
    BY <1>1, <1>8, WholeIs DEF WholeAccount
  <2> QED BY <2>1, <2>2 DEF WholeAccount
<1> QED BY <1>4, <1>6, <1>7, <1>8 DEF row, c

\* An exit or an entry is answered with an amount that is whole.
LEMMA WholeAnswers ==
  ASSUME AccountTypes, WholeAccount, NEW c \in Codes, NEW q \in Nat
  PROVE  RefusedAnswer(c, q).filled \in Whole
BY RefusedAnswerIs, WholeIs DEF WholeAccount

\* The account is whole after the calls of the cycle, and so is what the cycle knows.
LEMMA WholeCycleCalls ==
  ASSUME NoPartial, CustodyInv, WholeKept, CycleCalls, UNCHANGED <<clock, bookVars, watchVars>>
  PROVE  WholeAccount' /\ WholeCycle'
<1> USE DEF CustodyInv, WholeKept
<1>1. held \in [Codes -> Nat] /\ \A c \in Codes : held[c] \in Whole
  BY DEF AccountTypes, WholeAccount
<1>2. ASSUME NEW c \in Codes, NEW level \in Levels, RaiseBrokerStop(c, level)
      PROVE  WholeAccount' /\ WholeCycle'
  <2> DEFINE j == orders[pos[c].active].odno[2]
  <2>1. /\ cyc.pc = "exits" /\ cyc'.plan = cyc.plan /\ cyc'.pc \in {"revised", "raise"}
        /\ cyc'.answer \in {Submitted, Rejected} /\ level \in Stops /\ held' = held
        /\ \/ ledger' = ledger
           \/ /\ j \in DOMAIN ledger /\ ledger[j].live
              /\ ledger' = Append([ledger EXCEPT ![j].live = FALSE],
                                  LedgerRow(c, "stop", Remaining(ledger[j]), 0, TRUE, level))
    BY <1>2, RaiseBrokerStopIs DEF CycleTo
  <2> HIDE DEF j
  <2>2. WholeAccount'
    <3>1. CASE ledger' = ledger
      BY <2>1, <3>1 DEF WholeAccount
    <3>2. CASE ledger' # ledger
      BY <2>1, <3>2, WholeRevised
    <3> QED BY <3>1, <3>2
  <2>3. cyc'.answer.filled = 0
    BY <2>1, AnswersAre
  <2>4. \A d \in cyc.plan : held'[d] = 0
    BY <2>1 DEF WholeCycle, ExitPhase
  <2>5. WholeCycle'
    BY <2>1, <2>3, <2>4, WholeIs DEF WholeCycle, EntryPhase
  <2> QED BY <2>2, <2>5
<1>3. ASSUME NEW c \in Codes, SendExit(c) PROVE WholeAccount' /\ WholeCycle'
  <2> DEFINE q == pos[c].qty
  <2>1. PICK answer \in Answers :
          /\ CycleTo("exitSent", c, answer.filled, 0, answer)
          /\ \/ /\ answer.filled \in IocFills(q) /\ answer.filled \in 0 .. q /\ q <= held[c]
                /\ ledger' = Append(ledger, LedgerRow(c, "sell", q, answer.filled, FALSE, 0))
                /\ held' = [held EXCEPT ![c] = held[c] - answer.filled]
             \/ /\ answer = RefusedAnswer(c, q) /\ ledger' = ledger /\ held' = held
    BY <1>3, SendExitIs
  <2>2. cyc.pc = "exits" /\ pos[c].open
    BY <1>3, SendExitIs
  <2>3. q = Lot
    BY <2>2, WholeIs DEF WholeBook, PositionsKept
  <2> DEFINE n == answer.filled
             row == LedgerRow(c, "sell", q, n, FALSE, 0)
  <2>4. /\ n \in Whole /\ WholeAccount'
        /\ \A d \in Codes : held[d] = 0 => held'[d] = 0
    <3>1. CASE answer = RefusedAnswer(c, q) /\ ledger' = ledger /\ held' = held
      <4>1. n \in Whole
        BY <2>3, <3>1, WholeIs, WholeAnswers
      <4> QED BY <3>1, <4>1 DEF WholeAccount
    <3>2. CASE /\ n \in IocFills(q) /\ n \in 0 .. q /\ q <= held[c] /\ ledger' = Append(ledger, row)
               /\ held' = [held EXCEPT ![c] = held[c] - n]
      <4>1. n \in {0, Lot} /\ n \in Nat
        BY <2>3, <3>2, WholeIs DEF IocFills, NoPartial
      <4>2. row \in LedgerRows
        BY <2>3, <4>1, WholeIs, ConstantsAre, RowIs
      <4>3. row.qty = Lot /\ row.filled = n /\ ~row.live
        BY <2>3 DEF LedgerRow
      <4>4. held[c] = Lot
        BY <1>1, <2>3, <3>2, WholeIs
      <4> HIDE DEF row, n
      <4>5. \A d \in Codes : held'[d] \in Whole
        BY <1>1, <3>2, <4>1, <4>4, WholeIs DEF Whole
      <4>6. \A d \in Codes : held[d] = 0 => held'[d] = 0
        BY <1>1, <3>2, <4>4, WholeIs
      <4>7. WholeAccount'
        BY <3>2, <4>1, <4>2, <4>3, <4>5, WholeGrows DEF Whole
      <4> QED BY <4>1, <4>6, <4>7 DEF Whole
    <3> QED BY <2>1, <3>1, <3>2
  <2> HIDE DEF row
  <2>5. cyc.plan \subseteq Codes
    BY DEF CycleTyped, CycleStates
  <2>6. \A d \in cyc.plan : held'[d] = 0
    BY <2>2, <2>4, <2>5 DEF WholeCycle, ExitPhase
  <2>7. WholeCycle'
    BY <2>1, <2>4, <2>6 DEF WholeCycle, CycleTo, EntryPhase
  <2> QED BY <2>4, <2>7
<1>4. ASSUME NEW c \in Codes, SendEntry(c) PROVE WholeAccount' /\ WholeCycle'
  <2>1. PICK answer \in Answers :
          /\ CycleTo("entrySent", c, answer.filled, 0, answer)
          /\ \/ /\ answer.filled \in IocFills(Lot) /\ answer.filled \in 0 .. Lot
                /\ ledger' = Append(ledger, LedgerRow(c, "buy", Lot, answer.filled, FALSE, 0))
                /\ held' = [held EXCEPT ![c] = held[c] + answer.filled]
             \/ /\ answer = RefusedAnswer(c, Lot) /\ ledger' = ledger /\ held' = held
    BY <1>4, SendEntryIs
  <2>2. cyc.pc = "entries" /\ c \in cyc.todo /\ cyc.todo \subseteq Codes
    BY <1>4, SendEntryIs DEF CycleTyped, CycleStates
  <2>3. held[c] = 0 /\ \A d \in cyc.todo : held[d] = 0
    BY <2>2 DEF WholeCycle
  <2> DEFINE n == answer.filled
             row == LedgerRow(c, "buy", Lot, n, FALSE, 0)
  <2>4. /\ n \in Whole /\ WholeAccount'
        /\ \A d \in Codes \ {c} : held'[d] = held[d]
    <3>1. CASE answer = RefusedAnswer(c, Lot) /\ ledger' = ledger /\ held' = held
      <4>1. n \in Whole
        BY <3>1, WholeIs, WholeAnswers
      <4> QED BY <3>1, <4>1 DEF WholeAccount
    <3>2. CASE /\ n \in IocFills(Lot) /\ n \in 0 .. Lot /\ ledger' = Append(ledger, row)
               /\ held' = [held EXCEPT ![c] = held[c] + n]
      <4>1. n \in {0, Lot} /\ n \in Nat
        BY <3>2, WholeIs DEF IocFills, NoPartial
      <4>2. row \in LedgerRows
        BY <4>1, WholeIs, ConstantsAre, RowIs
      <4>3. row.qty = Lot /\ row.filled = n /\ ~row.live
        BY DEF LedgerRow
      <4> HIDE DEF row, n
      <4>5. \A d \in Codes : held'[d] \in Whole
        BY <1>1, <2>3, <3>2, <4>1, WholeIs DEF Whole
      <4>6. \A d \in Codes \ {c} : held'[d] = held[d]
        BY <1>1, <3>2
      <4>7. WholeAccount'
        BY <3>2, <4>1, <4>2, <4>3, <4>5, WholeGrows DEF Whole
      <4> QED BY <4>1, <4>6, <4>7 DEF Whole
    <3> QED BY <2>1, <3>1, <3>2
  <2> HIDE DEF row
  <2>5. \A d \in cyc.todo \ {c} : held'[d] = 0
    BY <2>2, <2>3, <2>4
  <2>6. WholeCycle'
    BY <2>1, <2>4, <2>5 DEF WholeCycle, CycleTo, ExitPhase
  <2> QED BY <2>4, <2>6
<1>5. CASE RegisterStop
  <2> DEFINE row == LedgerRow(cyc.code, "stop", cyc.n, 0, TRUE, 1)
  <2>1. /\ cyc.pc = "stop" /\ cyc.code \in Codes /\ cyc.n > 0 /\ held' = held
        /\ cyc'.answer \in {Submitted, Rejected} /\ cyc'.pc = "stopSent" /\ cyc'.n = cyc.n
        /\ cyc'.todo = cyc.todo /\ cyc'.code = cyc.code
        /\ ledger' = ledger \/ ledger' = Append(ledger, row)
    BY <1>5, RegisterStopIs DEF CycleTo
  <2>2. cyc.n = Lot
    BY <2>1, WholeIs DEF WholeCycle
  <2>3. WholeAccount'
    <3>1. CASE ledger' = ledger
      BY <2>1, <3>1 DEF WholeAccount
    <3>2. CASE ledger' = Append(ledger, row)
      <4>1. row \in LedgerRows
        BY <2>1, <2>2, WholeIs, ConstantsAre, RowIs
      <4>2. row.qty = Lot /\ row.filled = 0
        BY <2>2 DEF LedgerRow
      <4> HIDE DEF row
      <4> QED BY <1>1, <2>1, <3>2, <4>1, <4>2, WholeIs, WholeGrows
    <3> QED BY <2>1, <3>1, <3>2
  <2> HIDE DEF row
  <2>4. cyc'.answer.filled = 0
    BY <2>1, AnswersAre
  <2>5. \A d \in cyc.todo \ {cyc.code} : held'[d] = 0
    BY <2>1 DEF WholeCycle, EntryPhase
  <2>6. WholeCycle'
    BY <2>1, <2>2, <2>4, <2>5, WholeIs DEF WholeCycle, ExitPhase
  <2> QED BY <2>3, <2>6
<1> QED BY <1>2, <1>3, <1>4, <1>5 DEF CycleCalls

\* The account after any step, and what the cycle knows of it.
LEMMA WholeAccountStep ==
  ASSUME NoPartial, CustodyInv, WholeKept, [Next]_vars
  PROVE  WholeAccount'
<1> USE DEF CustodyInv, WholeKept
<1>1. ASSUME UNCHANGED kisVars PROVE WholeAccount'
  BY <1>1 DEF kisVars, WholeAccount
<1>2. CASE Nature
  <2>1. ASSUME NEW i \in DOMAIN ledger, NEW n \in 1 .. Lot, StopTriggers(i, n)
        PROVE  WholeAccount'
    BY <2>1, WholeTriggers
  <2>2. CASE Close
    BY <2>2, CloseIs DEF Close, WholeAccount
  <2>3. CASE NewDay
    BY <2>3 DEF NewDay, DayBegins, WholeAccount
  <2> QED BY <1>2, <2>1, <2>2, <2>3 DEF Nature, StopTrigger
<1>3. CASE WatchCalls
  <2>1. ASSUME NEW c \in Codes, RegisterMissing(c) PROVE WholeAccount'
    <3> DEFINE q == watch.rows[c].qty
               t == watch.rows[c].stop
               row == LedgerRow(c, "stop", q, 0, TRUE, t)
    <3>1. /\ watch.pc = "register" /\ c \in DOMAIN watch.rows /\ t \in Stops /\ held' = held
          /\ ledger' = ledger \/ ledger' = Append(ledger, row)
      BY <2>1, RegisterMissingIs
    <3>2. q = Lot
      BY <3>1 DEF WholeWatch
    <3>3. row \in LedgerRows
      BY <3>1, <3>2, WholeIs, ConstantsAre, RowIs
    <3>4. row.qty = Lot /\ row.filled = 0
      BY <3>2 DEF LedgerRow
    <3> HIDE DEF row
    <3>5. CASE ledger' = Append(ledger, row)
      BY <3>1, <3>3, <3>4, <3>5, WholeIs, WholeGrows DEF WholeAccount
    <3> QED BY <1>1, <3>1, <3>5 DEF kisVars
  <2>2. ASSUME NEW c \in Codes, ReviseStale(c) PROVE WholeAccount'
    <3> DEFINE j == watch.rows[c].odno[2]
               t == watch.rows[c].stop
    <3>1. /\ t \in Stops /\ held' = held
          /\ \/ ledger' = ledger
             \/ /\ j \in DOMAIN ledger /\ ledger[j].live
                /\ ledger' = Append([ledger EXCEPT ![j].live = FALSE],
                                    LedgerRow(c, "stop", Remaining(ledger[j]), 0, TRUE, t))
      BY <2>2, ReviseStaleIs
    <3> HIDE DEF j, t
    <3> QED BY <1>1, <3>1, WholeRevised DEF kisVars
  <2> QED BY <1>3, <2>1, <2>2 DEF WatchCalls
<1>4. CASE CycleCalls /\ UNCHANGED <<clock, bookVars, watchVars>>
  BY <1>4, WholeCycleCalls
<1> QED BY <1>1, <1>2, <1>3, <1>4, EveryStep DEF vars

\* The cycle records amounts that are whole.
LEMMA WholeCycleBooks ==
  ASSUME CustodyInv, WholeKept, CycleBooks, UNCHANGED <<kisVars, clock, watchVars>>
  PROVE  WholeBook' /\ WholeCycle'
<1> USE DEF CustodyInv, WholeKept
<1>1. held' = held /\ cyc.plan \subseteq Codes /\ cyc.todo \subseteq Codes
  BY DEF kisVars, CycleTyped, CycleStates
<1>2. NoAnswer.filled = 0
  BY DEF NoAnswer, Answer
<1>3. CASE RecordRevision
  <2>1. /\ cyc.pc = "revised" /\ CycleTo("raise", cyc.code, cyc.n, cyc.id, cyc.answer)
        /\ cyc.id \in DOMAIN orders /\ Rewritten(cyc.id)
        /\ orders'[cyc.id].filled = orders[cyc.id].filled /\ UNCHANGED <<pos, outcomes>>
    BY <1>3, RecordRevisionIs DEF StopOf
  <2>2. WholeBook'
    BY <2>1 DEF Rewritten, WholeBook
  <2>3. WholeCycle'
    BY <1>1, <2>1 DEF CycleTo, WholeCycle, ExitPhase, EntryPhase
  <2> QED BY <2>2, <2>3
<1>4. CASE RaiseBookStop
  <2>1. /\ cyc.pc = "raise" /\ CycleBack("exits", cyc.code) /\ cyc.code \in Codes
        /\ Changed(cyc.code) /\ pos'[cyc.code].qty = pos[cyc.code].qty
        /\ UNCHANGED <<orders, outcomes>>
    BY <1>4, RaiseBookStopIs
  <2>2. WholeBook'
    BY <2>1 DEF Changed, WholeBook
  <2>3. WholeCycle'
    BY <1>1, <1>2, <2>1, WholeIs DEF CycleBack, WholeCycle, ExitPhase, EntryPhase
  <2> QED BY <2>2, <2>3
<1>5. CASE RecordExit
  <2> DEFINE row == [code |-> cyc.code, purpose |-> "exit", pid |-> day, qty |-> pos[cyc.code].qty,
                     trig |-> 0, filled |-> cyc.answer.filled, odno |-> cyc.answer.odno,
                     status |-> cyc.answer.status]
  <2>1. /\ cyc.pc = "exitSent" /\ cyc.code \in cyc.todo
        /\ \/ CycleBack("exits", cyc.code)
           \/ CycleTo("exitOutcome", cyc.code, cyc.n, Len(orders) + 1, cyc.answer)
        /\ Recorded(row) /\ UNCHANGED <<pos, outcomes>>
    BY <1>5, RecordExitIs DEF Recorded
  <2>2. row.qty = Lot /\ row.filled \in Whole
    <3>1. pos[cyc.code].open
      BY <2>1 DEF CycleReads, ExitPhase
    <3>2. pos[cyc.code].qty = Lot
      BY <1>1, <2>1, <3>1, WholeIs DEF WholeBook, PositionsKept
    <3> QED BY <3>2 DEF WholeCycle
  <2> HIDE DEF row
  <2>3. WholeBook'
    BY <2>1, <2>2 DEF Recorded, WholeBook
  <2>4. WholeCycle'
    BY <1>1, <1>2, <2>1, WholeIs DEF CycleBack, CycleTo, WholeCycle, ExitPhase, EntryPhase
  <2> QED BY <2>3, <2>4
<1>6. CASE RecordExitOutcome
  <2> DEFINE row == [id |-> cyc.id, code |-> cyc.code, pid |-> pos[cyc.code].pid, qty |-> cyc.n]
  <2>1. /\ cyc.pc = "exitOutcome" /\ CycleTo("exitClose", cyc.code, cyc.n, cyc.id, cyc.answer)
        /\ outcomes' = outcomes \cup {row} /\ UNCHANGED <<pos, orders>>
    BY <1>6, RecordExitOutcomeIs
  <2>2. row.qty = Lot
    BY <2>1, WholeIs DEF WholeCycle, CycleLocals
  <2> HIDE DEF row
  <2>3. WholeBook'
    BY <2>1, <2>2 DEF WholeBook
  <2>4. WholeCycle'
    BY <1>1, <2>1 DEF CycleTo, WholeCycle, ExitPhase, EntryPhase
  <2> QED BY <2>3, <2>4
<1>7. CASE SettleExit
  <2>1. /\ cyc.pc = "exitClose" /\ CycleBack("exits", cyc.code) /\ cyc.code \in Codes
        /\ Changed(cyc.code) /\ pos'[cyc.code].qty = 0 /\ UNCHANGED <<orders, outcomes>>
    BY <1>7, SettleExitIs
  <2>2. WholeBook'
    BY <2>1, WholeIs DEF Changed, WholeBook
  <2>3. WholeCycle'
    BY <1>1, <1>2, <2>1, WholeIs DEF CycleBack, WholeCycle, ExitPhase, EntryPhase
  <2> QED BY <2>2, <2>3
<1>8. CASE RecordEntry
  <2> DEFINE row == [code |-> cyc.code, purpose |-> "entry", pid |-> day, qty |-> Lot,
                     trig |-> 0, filled |-> cyc.answer.filled, odno |-> cyc.answer.odno,
                     status |-> cyc.answer.status]
  <2>1. /\ cyc.pc = "entrySent"
        /\ \/ CycleBack("entries", cyc.code)
           \/ CycleTo("upsert", cyc.code, cyc.n, cyc.id, cyc.answer)
        /\ Recorded(row) /\ UNCHANGED <<pos, outcomes>>
    BY <1>8, RecordEntryIs DEF Recorded
  <2>2. row.qty = Lot /\ row.filled \in Whole
    BY DEF WholeCycle
  <2> HIDE DEF row
  <2>3. WholeBook'
    BY <2>1, <2>2 DEF Recorded, WholeBook
  <2>4. WholeCycle'
    BY <1>1, <1>2, <2>1, WholeIs DEF CycleBack, CycleTo, WholeCycle, ExitPhase, EntryPhase
  <2> QED BY <2>3, <2>4
<1>9. CASE BookEntry
  <2>1. /\ cyc.pc = "upsert" /\ CycleTo("stop", cyc.code, cyc.n, cyc.id, cyc.answer)
        /\ cyc.code \in Codes /\ Changed(cyc.code) /\ pos'[cyc.code].qty = cyc.n
        /\ UNCHANGED <<orders, outcomes>>
    BY <1>9, BookEntryIs
  <2>2. cyc.n \in Whole
    BY <2>1 DEF WholeCycle
  <2>3. WholeBook'
    BY <2>1, <2>2 DEF Changed, WholeBook
  <2>4. WholeCycle'
    BY <1>1, <2>1 DEF CycleTo, WholeCycle, ExitPhase, EntryPhase
  <2> QED BY <2>3, <2>4
<1>10. CASE RecordStop
  <2> DEFINE row == [code |-> cyc.code, purpose |-> "stop", pid |-> day, qty |-> cyc.n,
                     trig |-> 1, filled |-> cyc.answer.filled, odno |-> cyc.answer.odno,
                     status |-> cyc.answer.status]
  <2>1. /\ cyc.pc = "stopSent" /\ CycleTo("link", cyc.code, cyc.n, Len(orders) + 1, cyc.answer)
        /\ Recorded(row) /\ UNCHANGED <<pos, outcomes>>
    BY <1>10, RecordStopIs DEF Recorded
  <2>2. row.qty = Lot /\ row.filled \in Whole
    BY <2>1, WholeIs DEF WholeCycle, CycleLocals
  <2> HIDE DEF row
  <2>3. WholeBook'
    BY <2>1, <2>2 DEF Recorded, WholeBook
  <2>4. WholeCycle'
    BY <1>1, <2>1 DEF CycleTo, WholeCycle, ExitPhase, EntryPhase
  <2> QED BY <2>3, <2>4
<1>11. CASE LinkStop
  <2>1. /\ cyc.pc = "link" /\ CycleBack("entries", cyc.code) /\ cyc.code \in Codes
        /\ Changed(cyc.code) /\ pos'[cyc.code].qty = pos[cyc.code].qty
        /\ UNCHANGED <<orders, outcomes>>
    BY <1>11, LinkStopIs
  <2>2. WholeBook'
    BY <2>1 DEF Changed, WholeBook
  <2>3. WholeCycle'
    BY <1>1, <1>2, <2>1, WholeIs DEF CycleBack, WholeCycle, ExitPhase, EntryPhase
  <2> QED BY <2>2, <2>3
<1> QED BY <1>3, <1>4, <1>5, <1>6, <1>7, <1>8, <1>9, <1>10, <1>11 DEF CycleBooks

\* The watch records amounts that are whole.
LEMMA WholeWatchBooks ==
  ASSUME CustodyInv, WholeKept, WatchBooks, UNCHANGED <<kisVars, clock, cycleVars>>
  PROVE  WholeBook'
<1> USE DEF CustodyInv, WholeKept
<1>1. /\ \A d \in DOMAIN watch.rows : watch.rows[d].qty = Lot
      /\ \A i \in DOMAIN watch.led : watch.led[i].filled \in Whole
      /\ watch.answer.filled = 0
  BY Apart DEF WholeWatch
<1>2. ASSUME NEW id \in DOMAIN orders, Rewritten(id), orders'[id].filled \in Whole,
             UNCHANGED <<pos, outcomes>>
      PROVE  WholeBook'
  BY <1>2 DEF Rewritten, WholeBook
<1>3. CASE UNCHANGED <<pos, outcomes, orders>>
  BY <1>3 DEF WholeBook
<1>4. ASSUME NEW c \in Codes, MarkFilled(c) PROVE WholeBook'
  <2> DEFINE j == watch.rows[c].odno[2]
             n == Smaller(watch.led[j].filled, watch.rows[c].qty)
             id == watch.rows[c].active
  <2>1. /\ watch.pc = "settle" /\ c \in watch.todo /\ c \in DOMAIN watch.rows
        /\ StopOf(c, id) /\ UNCHANGED <<pos, outcomes>>
        /\ \/ Rewritten(id) /\ orders'[id].filled = n
           \/ orders' = orders
    BY <1>4, MarkFilledIs
  <2>2. j \in DOMAIN watch.led
    BY <2>1 DEF WatchLocals, SettlePhase, HasRow
  <2>3. n = Smaller(watch.led[j].filled, Lot) /\ watch.led[j].filled \in Whole
    BY <1>1, <2>1, <2>2
  <2>4. n \in Whole
    BY <2>3, WholeIs DEF Smaller, Whole
  <2> HIDE DEF n
  <2> QED BY <1>2, <1>3, <2>1, <2>4 DEF StopOf
<1>5. CASE RecordStopHit
  <2> DEFINE row == [id |-> watch.id, code |-> watch.code, pid |-> watch.rows[watch.code].pid,
                     qty |-> watch.n]
  <2>1. /\ watch.pc = "settleOutcome" /\ UNCHANGED <<pos, orders>>
        /\ outcomes' = outcomes \/ outcomes' = outcomes \cup {row}
    BY <1>5, RecordStopHitIs
  <2>2. row.qty = Lot
    BY <2>1 DEF WholeWatch
  <2> HIDE DEF row
  <2> QED BY <2>1, <2>2 DEF WholeBook
<1>6. CASE SettlePosition
  <2> DEFINE c == watch.code
  <2>1. /\ watch.pc = "settleClose" /\ Changed(c) /\ c \in Codes /\ UNCHANGED <<orders, outcomes>>
        /\ pos'[c].qty = 0 \/ watch.n < pos[c].qty
    BY <1>6, SettlePositionIs
  <2>2. watch.n = Lot /\ pos[c].qty \in Whole
    BY <2>1 DEF WholeWatch, WholeBook
  <2> HIDE DEF c
  <2>3. pos'[c].qty = 0
    <3>1. pos[c].qty = 0 \/ pos[c].qty = Lot
      BY <2>2 DEF Whole
    <3>2. ~(watch.n < pos[c].qty)
      BY <2>2, <3>1, WholeIs
    <3> QED BY <2>1, <3>2
  <2> QED BY <2>1, <2>3, WholeIs DEF Changed, WholeBook
<1>7. CASE RecordRegistered
  <2> DEFINE c == watch.code
             row == [code |-> c, purpose |-> "stop", pid |-> day, qty |-> watch.rows[c].qty,
                     trig |-> watch.rows[c].stop, filled |-> watch.answer.filled,
                     odno |-> watch.answer.odno, status |-> watch.answer.status]
  <2>1. /\ UNCHANGED <<pos, outcomes>> /\ c \in DOMAIN watch.rows
        /\ orders' = orders \/ Recorded(row)
    BY <1>7, RecordRegisteredIs DEF Recorded
  <2>2. row.qty = Lot /\ row.filled \in Whole
    BY <1>1, <2>1, WholeIs
  <2> HIDE DEF row
  <2>3. CASE Recorded(row)
    BY <2>1, <2>2, <2>3 DEF Recorded, WholeBook
  <2> QED BY <1>3, <2>1, <2>3
<1>8. CASE ExpireOldStop
  <2> DEFINE id == watch.rows[watch.code].active
  <2>1. /\ StopOf(watch.code, id) /\ Rewritten(id) /\ orders'[id].filled = orders[id].filled
        /\ UNCHANGED <<pos, outcomes>>
    BY <1>8, ExpireOldStopIs
  <2> HIDE DEF id
  <2>2. id \in DOMAIN orders /\ orders'[id].filled \in Whole
    BY <2>1 DEF StopOf, WholeBook
  <2> QED BY <1>2, <2>1, <2>2
<1>9. CASE LinkRegistered
  <2> DEFINE c == watch.code
  <2>1. Changed(c) /\ c \in Codes /\ pos'[c].qty = pos[c].qty /\ UNCHANGED <<orders, outcomes>>
    BY <1>9, LinkRegisteredIs
  <2> HIDE DEF c
  <2> QED BY <2>1 DEF Changed, WholeBook
<1>10. CASE RecordStaleRevision
  <2> DEFINE id == watch.rows[watch.code].active
  <2>1. /\ StopOf(watch.code, id) /\ Rewritten(id) /\ orders'[id].filled = orders[id].filled
        /\ UNCHANGED <<pos, outcomes>>
    BY <1>10, RecordStaleRevisionIs
  <2> HIDE DEF id
  <2>2. id \in DOMAIN orders /\ orders'[id].filled \in Whole
    BY <2>1 DEF StopOf, WholeBook
  <2> QED BY <1>2, <2>1, <2>2
<1> QED BY <1>4, <1>5, <1>6, <1>7, <1>8, <1>9, <1>10 DEF WatchBooks

\* The book after any step.
LEMMA WholeBookStep ==
  ASSUME CustodyInv, WholeKept, [Next]_vars
  PROVE  WholeBook'
<1>1. CASE UNCHANGED bookVars
  BY <1>1 DEF bookVars, WholeKept, WholeBook
<1>2. CASE CycleBooks /\ UNCHANGED <<kisVars, clock, watchVars>>
  BY <1>2, WholeCycleBooks
<1>3. CASE WatchBooks /\ UNCHANGED <<kisVars, clock, cycleVars>>
  BY <1>3, WholeWatchBooks
<1> QED BY <1>1, <1>2, <1>3, EveryStep DEF vars

\* The cycle after any step.
LEMMA WholeCycleStep ==
  ASSUME NoPartial, CustodyInv, WholeKept, [Next]_vars
  PROVE  WholeCycle'
<1> USE DEF CustodyInv, WholeKept
<1>1. NoAnswer.filled = 0
  BY DEF NoAnswer, Answer
<1>2. cyc.plan \subseteq Codes /\ cyc.todo \subseteq Codes
  BY DEF CycleTyped, CycleStates
<1>3. ASSUME cyc'.pc = "idle", cyc'.answer = NoAnswer PROVE WholeCycle'
  BY <1>1, <1>3, WholeIs DEF WholeCycle, ExitPhase, EntryPhase
<1>4. ASSUME cyc' = cyc, \A c \in Codes : held[c] = 0 => held'[c] = 0
      PROVE  WholeCycle'
  BY <1>2, <1>4 DEF WholeCycle
<1>5. CASE Nature /\ UNCHANGED cyc
  <2>1. ASSUME NEW i \in DOMAIN ledger, NEW n \in 1 .. Lot, StopTriggers(i, n)
        PROVE  \A c \in Codes : held[c] = 0 => held'[c] = 0
    BY <2>1, WholeTriggers
  <2>2. Close \/ NewDay => held' = held
    BY DEF Close, NewDay, MarketCloses, DayBegins
  <2> QED BY <1>4, <1>5, <2>1, <2>2 DEF Nature, StopTrigger
<1>6. CASE Others /\ UNCHANGED kisVars
  <2>1. CASE Release
    BY <1>4, <1>6, <2>1 DEF Release, ReleaseSafeStop, kisVars
  <2>2. CASE Crash
    BY <1>3, <2>2, NoCycle DEF Crash
  <2> QED BY <1>6, <2>1, <2>2 DEF Others
<1>7. CASE CycleLooks /\ UNCHANGED kisVars
  <2>1. held' = held
    BY <1>7 DEF kisVars
  <2>2. CASE GateHalts
    BY <1>4, <2>1, <2>2 DEF GateHalts
  <2>3. ASSUME NEW plan \in SUBSET Codes, Quiet, GatePasses(plan) PROVE WholeCycle'
    <3>1. /\ cyc'.pc = "exits" /\ cyc'.plan \subseteq plan /\ cyc'.answer = NoAnswer
          /\ \A c \in plan : held[c] = 0
      BY <2>3, GatePassesIs
    <3> QED BY <1>1, <2>1, <3>1, WholeIs DEF WholeCycle, ExitPhase, EntryPhase
  <2>4. ASSUME NEW c \in Codes, HoldPosition(c) PROVE WholeCycle'
    <3>1. cyc.pc = "exits" /\ CycleBack("exits", c)
      BY <2>4, HoldPositionIs
    <3> QED BY <1>1, <2>1, <3>1, WholeIs DEF WholeCycle, CycleBack, ExitPhase, EntryPhase
  <2>5. CASE ExitsDone
    <3>1. /\ cyc'.pc = "entries" /\ cyc'.todo = cyc.plan /\ cyc'.code = NoCode
          /\ cyc'.answer = NoAnswer /\ cyc.pc = "exits"
      BY <2>5, ExitsDoneIs
    <3> QED BY <1>1, <2>1, <3>1, WholeIs DEF WholeCycle, ExitPhase, EntryPhase
  <2>6. CASE CycleEnds
    BY <1>3, <2>6, CycleEndsIs
  <2> QED BY <1>7, <2>2, <2>3, <2>4, <2>5, <2>6 DEF CycleLooks
<1>8. CASE CycleCalls /\ UNCHANGED <<clock, bookVars, watchVars>>
  BY <1>8, WholeCycleCalls
<1>9. CASE CycleBooks /\ UNCHANGED <<kisVars, clock, watchVars>>
  BY <1>9, WholeCycleBooks
<1>10. CASE (WatchLooks \/ WatchBooks) /\ UNCHANGED <<kisVars, cycleVars>>
  BY <1>4, <1>10 DEF kisVars, cycleVars
<1>11. CASE WatchCalls /\ UNCHANGED cycleVars
  <2>1. cyc' = cyc /\ cyc.pc = "idle" /\ \A c \in Codes : held[c] = 0 => held'[c] = 0
    <3>1. held' = held
      BY <1>11, RegisterMissingIs, ReviseStaleIs DEF WatchCalls
    <3> QED BY <1>11, <3>1, Apart DEF cycleVars
  <2> QED BY <1>4, <2>1
<1>12. CASE UNCHANGED vars
  BY <1>4, <1>12 DEF vars, kisVars, cycleVars
<1> QED BY <1>5, <1>6, <1>7, <1>8, <1>9, <1>10, <1>11, <1>12, EveryStep

\* The watch after any step.
LEMMA WholeWatchStep ==
  ASSUME CustodyInv, WholeKept, [Next]_vars
  PROVE  WholeWatch'
<1> USE DEF CustodyInv, WholeKept
<1>1. NoAnswer.filled = 0
  BY DEF NoAnswer, Answer
<1>2. WatchFresh("idle", FALSE, <<>>) => WholeWatch'
  BY DEF WatchFresh, WholeWatch
<1>3. watch' = watch => WholeWatch'
  BY DEF WholeWatch
<1>4. ASSUME NEW pc \in WatchSteps, NEW todo, watch.pc # "idle",
             pc \notin {"settleOutcome", "settleClose"}, WatchLoop(pc, watch.rows, todo)
      PROVE  WholeWatch'
  BY <1>1, <1>4 DEF WatchLoop, WholeWatch
<1>5. OpenCodes = {c \in Codes : pos[c].open} /\ DOMAIN LoadOpenPositions = OpenCodes
  BY LoadIs
<1>6. \A c \in DOMAIN LoadOpenPositions : LoadOpenPositions[c].qty = Lot
  <2>1. ASSUME NEW c \in OpenCodes PROVE LoadOpenPositions[c].qty = Lot
    <3>1. LoadOpenPositions[c].qty = pos[c].qty /\ pos[c].open /\ c \in Codes
      BY <1>5, LoadIs
    <3> QED BY <3>1, WholeIs DEF WholeBook, PositionsKept
  <2> QED BY <1>5, <2>1
<1>7. CASE UNCHANGED watch \/ Others
  <2>1. watch' = watch \/ watch' = IdleWatch
    BY <1>7 DEF Others, Release, Crash, watchVars
  <2> QED BY <1>2, <1>3, <2>1, NoWatch
<1>8. CASE WatchLooks
  <2>1. CASE Quiet /\ WatchStarts
    <3>1. WatchFresh("loaded", session = "open", LoadOpenPositions)
      BY <2>1, WatchStartsIs
    <3>2. DOMAIN <<>> = {}
      OBVIOUS
    <3> QED BY <1>1, <1>6, <3>1, <3>2 DEF WatchFresh, WholeWatch
  <2>2. CASE FetchDailyOrders
    <3>1. /\ watch.pc = "loaded" /\ watch'.pc = "settle" /\ watch'.rows = watch.rows
          /\ watch'.answer = watch.answer /\ watch'.led \in {watch.led, ledger}
      BY <2>2, FetchIs
    <3> QED BY <3>1 DEF WholeWatch, WholeAccount
  <2>3. CASE WatchNothing
    BY <1>3, <2>3, WatchEndIs
  <2>4. CASE WatchAborts \/ WatchEnds
    BY <1>2, <2>4, WatchEndIs
  <2>5. CASE SettlementDone
    <3> DEFINE rows == IF watch.any THEN LoadOpenPositions ELSE watch.rows
    <3>1. /\ watch.pc = "settle"
          /\ WatchLoop("register", rows, MissingStops(rows)) \/ WatchFresh("idle", FALSE, <<>>)
      BY <2>5, SettlementDoneIs
    <3>2. \A c \in DOMAIN rows : rows[c].qty = Lot
      BY <1>6, <3>1 DEF WholeWatch
    <3>3. \A i \in DOMAIN watch.led : watch.led[i].filled \in Whole
      BY <3>1 DEF WholeWatch
    <3> HIDE DEF rows
    <3>4. WatchLoop("register", rows, MissingStops(rows)) => WholeWatch'
      BY <1>1, <3>2, <3>3 DEF WatchLoop, WholeWatch
    <3> QED BY <1>2, <3>1, <3>4
  <2>6. CASE RegistrationDone
    BY <1>4, <2>6, RegistrationDoneIs, WatchStepsAre
  <2> QED BY <1>8, <2>1, <2>2, <2>3, <2>4, <2>5, <2>6 DEF WatchLooks
<1>9. ASSUME NEW pc, NEW c, NEW n, NEW id, NEW answer, NEW any, watch.pc # "idle",
             pc # "idle", WatchTo(pc, c, n, id, answer, any), answer.filled = 0,
             pc \in {"settleOutcome", "settleClose"} => n = Lot
      PROVE  WholeWatch'
  BY <1>9 DEF WatchTo, WholeWatch
<1>10. CASE WatchCalls
  <2>1. ASSUME NEW c \in Codes, RegisterMissing(c) PROVE WholeWatch'
    <3>1. /\ watch.pc = "register"
          /\ \E answer \in {Submitted, Rejected} :
               WatchTo("registered", c, watch.n, watch.id, answer, watch.any)
      BY <2>1, RegisterMissingIs
    <3>2. \A answer \in {Submitted, Rejected} : answer.filled = 0
      BY AnswersAre
    <3> QED BY <1>9, <3>1, <3>2
  <2>2. ASSUME NEW c \in Codes, ReviseStale(c) PROVE WholeWatch'
    <3>1. /\ watch.pc = "stale"
          /\ \/ WatchLoop("stale", watch.rows, watch.todo \ {c})
             \/ WatchTo("revised", c, watch.n, watch.id, Submitted, watch.any)
      BY <2>2, ReviseStaleIs
    <3> QED BY <1>4, <1>9, <3>1, AnswersAre, WatchStepsAre
  <2> QED BY <1>10, <2>1, <2>2 DEF WatchCalls
<1>11. CASE WatchBooks
  <2>1. watch.pc # "idle"
    BY <1>11, Apart
  <2>2. watch.answer.filled = 0
    BY <2>1 DEF WholeWatch
  <2>3. ASSUME NEW c \in Codes, MarkFilled(c) PROVE WholeWatch'
    <3> DEFINE j == watch.rows[c].odno[2]
               n == Smaller(watch.led[j].filled, watch.rows[c].qty)
               id == watch.rows[c].active
    <3>1. /\ watch.pc = "settle" /\ c \in watch.todo /\ c \in DOMAIN watch.rows
          /\ \/ WatchTo("settleOutcome", c, n, id, watch.answer, TRUE)
             \/ WatchLoop("settle", watch.rows, watch.todo \ {c})
      BY <2>3, MarkFilledIs
    <3>2. j \in DOMAIN watch.led /\ watch.led[j].filled > 0
      BY <3>1 DEF WatchLocals, SettlePhase, HasRow
    <3>3. watch.led[j].filled \in Whole /\ watch.rows[c].qty = Lot
      BY <2>1, <3>1, <3>2 DEF WholeWatch
    <3>4. n = Lot
      BY <3>2, <3>3, WholeIs DEF Smaller
    <3> HIDE DEF n, id, j
    <3>5. WatchTo("settleOutcome", c, n, id, watch.answer, TRUE) => WholeWatch'
      BY <1>9, <2>1, <2>2, <3>4
    <3> QED BY <1>4, <2>1, <3>1, <3>5, WatchStepsAre
  <2>4. CASE RecordStopHit
    <3>1. /\ watch.pc = "settleOutcome"
          /\ \E pc \in {"aborted", "settleClose"} :
               WatchTo(pc, watch.code, watch.n, watch.id, watch.answer, watch.any)
      BY <2>4, RecordStopHitIs
    <3>2. watch.n = Lot
      BY <3>1 DEF WholeWatch
    <3> QED BY <1>9, <2>1, <2>2, <3>1, <3>2
  <2>5. CASE SettlePosition \/ LinkRegistered \/ RecordStaleRevision
    <3>1. \E pc \in {"settle", "register", "stale"} : \E todo : WatchLoop(pc, watch.rows, todo)
      BY <2>5, SettlePositionIs, LinkRegisteredIs, RecordStaleRevisionIs
    <3> QED BY <1>4, <2>1, <3>1, WatchStepsAre
  <2>6. CASE RecordRegistered
    <3>1. \/ \E todo : WatchLoop("register", watch.rows, todo)
          \/ \E pc \in {"link", "expire"} : \E id :
               WatchTo(pc, watch.code, watch.n, id, watch.answer, watch.any)
      BY <2>6, RecordRegisteredIs
    <3> QED BY <1>4, <1>9, <2>1, <2>2, <3>1, WatchStepsAre
  <2>7. CASE ExpireOldStop
    <3>1. WatchTo("link", watch.code, watch.n, watch.id, watch.answer, watch.any)
      BY <2>7, ExpireOldStopIs
    <3> QED BY <1>9, <2>1, <2>2, <3>1
  <2> QED BY <1>11, <2>3, <2>4, <2>5, <2>6, <2>7 DEF WatchBooks
<1> QED BY <1>7, <1>8, <1>10, <1>11, EveryStep DEF vars, watchVars

\* What is whole stays whole.
LEMMA WholeStep ==
  ASSUME NoPartial, CustodyInv, WholeKept, [Next]_vars
  PROVE  WholeKept'
BY WholeAccountStep, WholeBookStep, WholeCycleStep, WholeWatchStep DEF WholeKept

-----------------------------------------------------------------------------
(* What the watch has covered.                                             *)

\* A stock with a stop keeps one while the watch runs.
LEMMA HasStopStays ==
  ASSUME NoPartial, CustodyInv, WholeKept, [Next]_vars, watch.pc # "idle",
         NEW c \in Codes, HasStop(c)
  PROVE  HasStop(c)'
<1> USE DEF CustodyInv, WholeKept
<1>1. cyc.pc = "idle" /\ ~NewDay /\ ~CycleLooks /\ ~CycleCalls /\ ~CycleBooks
  BY Apart DEF WatchTyped, NewDay, Quiet
<1>2. ASSUME UNCHANGED <<session, held, ledger>> PROVE HasStop(c)'
  BY <1>2 DEF HasStop, LiveStop
<1>3. ASSUME held' = held, session' = session,
             \A i \in DOMAIN ledger : ledger[i].code = c /\ ledger[i].kind = "stop" /\ ledger[i].live
               => \E k \in DOMAIN ledger' :
                    ledger'[k].code = c /\ ledger'[k].kind = "stop" /\ ledger'[k].live
      PROVE  HasStop(c)'
  BY <1>3 DEF HasStop, LiveStop
<1>4. CASE Nature
  <2>1. ASSUME NEW i \in DOMAIN ledger, NEW n \in 1 .. Lot, StopTriggers(i, n)
        PROVE  HasStop(c)'
    <3>1. /\ held'[ledger[i].code] = 0
          /\ \A d \in Codes \ {ledger[i].code} : held'[d] = held[d]
      BY <2>1, WholeTriggers
    <3>2. /\ DOMAIN ledger' = DOMAIN ledger /\ session' = session
          /\ \A j \in DOMAIN ledger \ {i} : ledger'[j] = ledger[j]
      BY <2>1, TriggerIs
    <3>3. CASE ledger[i].code = c
      BY <3>1, <3>3 DEF HasStop
    <3>4. CASE ledger[i].code # c
      BY <3>1, <3>2, <3>4 DEF HasStop, LiveStop
    <3> QED BY <3>3, <3>4
  <2>2. CASE Close
    BY <2>2, CloseIs DEF Close, HasStop
  <2> QED BY <1>1, <1>4, <2>1, <2>2 DEF Nature, StopTrigger
<1>5. CASE WatchCalls /\ UNCHANGED clock
  <2>1. ASSUME NEW d \in Codes, RegisterMissing(d) PROVE HasStop(c)'
    <3> DEFINE row == LedgerRow(d, "stop", watch.rows[d].qty, 0, TRUE, watch.rows[d].stop)
    <3>1. /\ held' = held /\ d \in DOMAIN watch.rows
          /\ watch.rows[d].qty \in Nat \ {0} /\ watch.rows[d].stop \in Stops
          /\ ledger' = ledger \/ ledger' = Append(ledger, row)
      BY <2>1, RegisterMissingIs
    <3>2. row \in LedgerRows
      BY <3>1, ConstantsAre, RowIs
    <3> HIDE DEF row
    <3>3. \A i \in DOMAIN ledger : i \in DOMAIN ledger' /\ ledger'[i] = ledger[i]
      BY <3>1, <3>2, AppendIs DEF AccountTypes
    <3> QED BY <1>3, <1>5, <3>1, <3>3 DEF clock
  <2>2. ASSUME NEW d \in Codes, ReviseStale(d) PROVE HasStop(c)'
    <3> DEFINE odno == watch.rows[d].odno
               j == odno[2]
               t == watch.rows[d].stop
    <3>1. /\ held' = held /\ d \in DOMAIN watch.rows /\ t \in Stops
          /\ \/ ledger' = ledger
             \/ /\ j \in DOMAIN ledger /\ odno = <<day, j>>
                /\ ledger' = Append([ledger EXCEPT ![j].live = FALSE],
                                    LedgerRow(d, "stop", Remaining(ledger[j]), 0, TRUE, t))
      BY <2>2, ReviseStaleIs
    <3>2. NumberOf(odno, d)
      BY <3>1 DEF WatchLocals
    <3>3. CASE ledger' = ledger
      BY <1>2, <1>5, <3>1, <3>3 DEF clock
    <3>4. CASE ledger' # ledger
      <4>1. ledger[j].code = d
        <5>1. odno[1] = day
          <6>1. odno = <<day, j>>
            BY <3>1, <3>4
          <6> HIDE DEF odno, j
          <6> QED BY <6>1
        <5>2. ~(odno[1] < day)
          BY <5>1 DEF AccountTypes
        <5> QED BY <3>2, <5>2 DEF NumberOf
      <4> HIDE DEF j, t, odno
      <4>2. /\ \A i \in DOMAIN ledger \ {j} : i \in DOMAIN ledger' /\ ledger'[i] = ledger[i]
            /\ Len(ledger) + 1 \in DOMAIN ledger'
            /\ ledger'[Len(ledger) + 1] = LedgerRow(d, "stop", Remaining(ledger[j]), 0, TRUE, t)
        BY <3>1, <3>4, RevisedIs
      <4>3. /\ ledger'[Len(ledger) + 1].code = d /\ ledger'[Len(ledger) + 1].kind = "stop"
            /\ ledger'[Len(ledger) + 1].live
        BY <4>2 DEF LedgerRow
      <4> QED BY <1>3, <1>5, <3>1, <4>1, <4>2, <4>3 DEF clock
    <3> QED BY <3>3, <3>4
  <2> QED BY <1>5, <2>1, <2>2 DEF WatchCalls
<1> QED BY <1>1, <1>2, <1>4, <1>5, EveryStep DEF kisVars, clock, vars

\* A registration leaves its stock with a stop, or finds it with one, unless KIS refuses.
LEMMA RegisterCovers ==
  ASSUME CustodyInv, WholeKept, NEW c \in Codes, RegisterMissing(c), session' = session
  PROVE  Watched(c)'
<1> USE DEF CustodyInv, WholeKept
<1> DEFINE q == watch.rows[c].qty
           row == LedgerRow(c, "stop", q, 0, TRUE, watch.rows[c].stop)
<1>1. /\ watch.pc = "register" /\ c \in DOMAIN watch.rows /\ q \in Nat \ {0}
      /\ watch.rows[c].stop \in Stops /\ held' = held
      /\ \/ ledger' = Append(ledger, row)
         \/ /\ ledger' = ledger
            /\ q <= held[c] /\ session = "open" => LiveStop(ledger, c) \/ c \in watch'.refused
  BY RegisterMissingIs
<1>2. q = Lot
  BY <1>1 DEF WholeWatch
<1>3. CASE ledger' # Append(ledger, row)
  <2>1. /\ LiveStop(ledger, c) \/ c \in watch'.refused \/ session # "open" \/ ~(Lot <= held[c])
        /\ ledger' = ledger
    BY <1>1, <1>2, <1>3
  <2>2. ~(Lot <= held[c]) => ~(held[c] > 0)
    <3>1. held[c] = 0 \/ held[c] = Lot
      BY DEF WholeAccount, Whole
    <3> QED BY <3>1, WholeIs
  <2> QED BY <1>1, <2>1, <2>2 DEF Watched, HasStop, LiveStop
<1>4. CASE ledger' = Append(ledger, row)
  <2>1. row \in LedgerRows
    BY <1>1, ConstantsAre, RowIs
  <2>2. row.code = c /\ row.kind = "stop" /\ row.live
    BY DEF LedgerRow
  <2> HIDE DEF row
  <2>3. Len(ledger) + 1 \in DOMAIN ledger' /\ ledger'[Len(ledger) + 1] = row
    BY <1>4, <2>1, AppendIs DEF AccountTypes
  <2> QED BY <2>2, <2>3 DEF Watched, HasStop, LiveStop
<1> QED BY <1>3, <1>4

\* What the watch has covered stays covered.
LEMMA WatchedStep ==
  ASSUME NoPartial, CustodyInv, WholeKept, WatchedKept, [Next]_vars
  PROVE  WatchedKept'
<1> USE DEF CustodyInv
<1>1. ASSUME watch'.pc = "idle" \/ ~watch'.known PROVE WatchedKept'
  BY <1>1 DEF WatchedKept
<1>2. ASSUME watch.pc # "idle" PROVE \A c \in Codes : HasStop(c) => HasStop(c)'
  BY <1>2, HasStopStays
<1>3. DOMAIN watch.rows \subseteq Codes
  BY LoadedIs DEF WatchTyped
<1> HIDE DEF CustodyInv
<1>4. CASE UNCHANGED watch
  <2>1. CASE watch.pc = "idle"
    BY <1>1, <1>4, <2>1
  <2>2. CASE watch.pc # "idle"
    BY <1>2, <1>3, <1>4, <2>2 DEF WatchedKept, Watched, LiveStop
  <2> QED BY <2>1, <2>2
<1>5. CASE Others
  BY <1>1, <1>4, <1>5, NoWatch DEF Others, Release, Crash, WatchFresh, watchVars
<1>6. ASSUME NEW c \in Codes, RegisterMissing(c), UNCHANGED clock PROVE WatchedKept'
  <2>1. /\ watch.pc = "register" /\ c \in watch.todo /\ watch'.pc = "registered" /\ watch'.code = c
        /\ watch'.rows = watch.rows /\ watch'.led = watch.led /\ watch'.known = watch.known
        /\ watch'.todo = watch.todo /\ watch.refused \subseteq watch'.refused
    BY <1>6, RegisterMissingIs DEF WatchTo
  <2>2. Watched(c)'
    BY <1>6, RegisterCovers DEF clock
  <2>3. \A d \in Codes : HasStop(d) => HasStop(d)'
    BY <1>2, <2>1
  <2>4. \A d \in Codes : Watched(d) => Watched(d)'
    BY <2>1, <2>3 DEF Watched
  <2> QED BY <1>3, <2>1, <2>2, <2>3, <2>4 DEF WatchedKept, RegisterPhase, StalePhase, LiveStop
<1>7. ASSUME NEW c \in Codes, ReviseStale(c) PROVE WatchedKept'
  <2>1. /\ watch.pc = "stale" /\ watch'.pc \in {"stale", "revised"}
        /\ watch'.rows = watch.rows /\ watch'.led = watch.led /\ watch'.known = watch.known
        /\ watch.refused \subseteq watch'.refused
    BY <1>7, ReviseStaleIs DEF WatchTo, WatchLoop
  <2>3. \A d \in Codes : HasStop(d) => HasStop(d)'
    BY <1>2, <2>1
  <2>4. \A d \in Codes : Watched(d) => Watched(d)'
    BY <2>1, <2>3 DEF Watched
  <2> QED BY <1>3, <2>1, <2>3, <2>4 DEF WatchedKept, RegisterPhase, StalePhase, LiveStop
<1>8. CASE WatchLooks /\ UNCHANGED <<kisVars, clock>>
  <2>1. UNCHANGED <<ledger, held, session>>
    BY <1>8 DEF kisVars, clock
  <2>2. CASE Quiet /\ WatchStarts
    BY <1>1, <2>2, WatchStartsIs DEF WatchFresh
  <2>3. CASE FetchDailyOrders
    <3>1. /\ watch.pc = "loaded" /\ watch'.pc = "settle"
          /\ watch'.led = ledger \/ watch'.known = watch.known
      BY <2>3, FetchIs
    <3>2. ~watch.known
      BY <3>1 DEF CustodyInv, WatchLocals
    <3> QED BY <1>1, <2>1, <3>1, <3>2 DEF WatchedKept, RegisterPhase, StalePhase, HasStop
  <2>4. CASE WatchNothing
    BY <1>4, <2>4, WatchEndIs
  <2>5. CASE WatchAborts \/ WatchEnds
    BY <1>1, <2>5, WatchEndIs DEF WatchFresh
  <2>6. CASE SettlementDone
    <3> DEFINE rows == IF watch.any THEN LoadOpenPositions ELSE watch.rows
    <3>1. /\ watch.pc = "settle" /\ rows \in Rows
          /\ WatchLoop("register", rows, MissingStops(rows)) \/ WatchFresh("idle", FALSE, <<>>)
      BY <2>6, SettlementDoneIs
    <3>2. DOMAIN rows \subseteq Codes
      BY <3>1 DEF Rows
    <3> HIDE DEF rows
    <3>3. ASSUME WatchLoop("register", rows, MissingStops(rows)), watch.known PROVE WatchedKept'
      <4>1. \A c \in DOMAIN rows : c \notin MissingStops(rows) => HasStop(c)
        BY <3>1, <3>2, <3>3 DEF MissingStops, WatchedKept
      <4>2. /\ watch'.pc = "register" /\ watch'.rows = rows /\ watch'.todo = MissingStops(rows)
            /\ watch'.led = watch.led
        BY <3>3 DEF WatchLoop
      <4>3. \A c \in Codes : LiveStop(watch.led, c) => HasStop(c)
        BY <3>1, <3>3 DEF WatchedKept
      <4> QED BY <2>1, <3>2, <4>1, <4>2, <4>3
              DEF WatchedKept, Watched, RegisterPhase, StalePhase, HasStop, LiveStop
    <3> QED BY <1>1, <3>1, <3>3 DEF WatchLoop, WatchFresh
  <2>7. CASE RegistrationDone
    <3>1. /\ watch.pc = "register" /\ watch.todo = {} /\ watch'.pc = "stale"
          /\ watch'.rows = watch.rows /\ watch'.led = watch.led /\ watch'.known = watch.known
          /\ watch.refused \subseteq watch'.refused
      BY <2>7, RegistrationDoneIs DEF WatchLoop
    <3> QED BY <2>1, <3>1 DEF WatchedKept, Watched, RegisterPhase, StalePhase, HasStop, LiveStop
  <2> QED BY <1>8, <2>2, <2>3, <2>4, <2>5, <2>6, <2>7 DEF WatchLooks
<1>9. CASE WatchBooks /\ UNCHANGED <<kisVars, clock>>
  <2>1. UNCHANGED <<ledger, held, session>>
    BY <1>9 DEF kisVars, clock
  <2>2. ASSUME watch.pc \in SettlePhase, watch'.pc \in SettlePhase \cup {"aborted"},
               watch'.led = watch.led, watch'.known = watch.known
        PROVE  WatchedKept'
    BY <2>1, <2>2 DEF WatchedKept, RegisterPhase, StalePhase, SettlePhase, HasStop, LiveStop
  <2>3. ASSUME watch.pc \in RegisterPhase \ {"register"}, watch'.rows = watch.rows,
               watch'.led = watch.led, watch'.known = watch.known,
               watch.refused \subseteq watch'.refused,
               \/ watch'.pc = "register" /\ watch'.todo = watch.todo \ {watch.code}
               \/ /\ watch'.pc \in RegisterPhase \ {"register"}
                  /\ watch'.todo = watch.todo /\ watch'.code = watch.code
        PROVE  WatchedKept'
    BY <2>1, <2>3 DEF WatchedKept, Watched, RegisterPhase, StalePhase, HasStop, LiveStop
  <2>4. ASSUME watch.pc = "revised", watch'.rows = watch.rows,
               watch'.led = watch.led, watch'.known = watch.known, watch'.pc = "stale",
               watch.refused \subseteq watch'.refused
        PROVE  WatchedKept'
    BY <2>1, <2>4 DEF WatchedKept, Watched, RegisterPhase, StalePhase, HasStop, LiveStop
  <2>5. ASSUME NEW c \in Codes, MarkFilled(c) PROVE WatchedKept'
    BY <2>2, <2>5, MarkFilledIs DEF WatchTo, WatchLoop, SettlePhase
  <2>6. CASE RecordStopHit
    BY <2>2, <2>6, RecordStopHitIs DEF WatchTo, SettlePhase
  <2>7. CASE SettlePosition
    BY <2>2, <2>7, SettlePositionIs DEF WatchLoop, SettlePhase
  <2>8. CASE RecordRegistered
    BY <2>3, <2>8, RecordRegisteredIs DEF WatchTo, WatchLoop, RegisterPhase
  <2>9. CASE ExpireOldStop
    BY <2>3, <2>9, ExpireOldStopIs DEF WatchTo, RegisterPhase
  <2>10. CASE LinkRegistered
    BY <2>3, <2>10, LinkRegisteredIs DEF WatchLoop, RegisterPhase
  <2>11. CASE RecordStaleRevision
    BY <2>4, <2>11, RecordStaleRevisionIs DEF WatchLoop
  <2> QED BY <1>9, <2>5, <2>6, <2>7, <2>8, <2>9, <2>10, <2>11 DEF WatchBooks
<1> QED BY <1>4, <1>5, <1>6, <1>7, <1>8, <1>9, EveryStep DEF WatchCalls, vars, watchVars

\* What is said of whole fills is true at first.
LEMMA WholeStarts ==
  ASSUME Init
  PROVE  WholeKept /\ WatchedKept
<1>1. /\ held = [c \in Codes |-> 0] /\ ledger = <<>> /\ orders = <<>> /\ outcomes = {}
      /\ pos = [c \in Codes |-> NoPosition] /\ cyc = IdleCycle /\ watch = IdleWatch
  BY DEF Init, KisInit, BookInit, CycleInit, WatchInit
<1>2. /\ cyc.pc = "idle" /\ cyc.answer = NoAnswer /\ watch.pc = "idle" /\ NoAnswer.filled = 0
      /\ NoPosition.qty = 0
  BY <1>1 DEF IdleCycle, CycleState, IdleWatch, WatchState, NoAnswer, Answer, NoPosition, Position
<1>3. WholeAccount /\ WholeBook
  BY <1>1, <1>2, WholeIs DEF WholeAccount, WholeBook
<1>4. WholeCycle
  BY <1>2, WholeIs DEF WholeCycle, ExitPhase, EntryPhase
<1>5. WholeWatch /\ WatchedKept
  BY <1>2 DEF WholeWatch, WatchedKept
<1> QED BY <1>3, <1>4, <1>5 DEF WholeKept

\* The invariant while orders are filled whole.
WholeInv == CustodyInv /\ WholeKept /\ WatchedKept

\* Whether orders may be filled in part is settled by the constants.
LEMMA WholeInvariant == Spec /\ NoPartial => []WholeInv
<1>1. NoPartial => [](NoPartial)
  <2>1. NoPartial => NoPartial'
    BY DEF NoPartial
  <2> QED BY <2>1, PTL
<1>2. Init => WholeInv
  BY CustodyStarts, WholeStarts DEF WholeInv
<1>3. NoPartial /\ WholeInv /\ [Next]_vars => WholeInv'
  BY CustodyStep, WholeStep, WatchedStep DEF WholeInv
<1> QED BY <1>1, <1>2, <1>3, PTL DEF Spec

\* While orders are filled whole, every amount of the account and of the book is one
\* the run over the bounds of its instance allows.
LEMMA WholeTyped ==
  ASSUME WholeInv
  PROVE  CustodyTypeOK
<1> USE DEF WholeInv, CustodyInv, WholeKept
<1>1. Whole \subseteq Shares
  <2>1. Lot * MaxDays \in Nat /\ Lot <= Lot * MaxDays
    <3>1. PICK k \in Nat : MaxDays = k + 1
      <4>1. MaxDays - 1 \in Nat /\ MaxDays = (MaxDays - 1) + 1
        BY ConstantsAre
      <4> QED BY <4>1
    <3>2. Lot * MaxDays = Lot * k + Lot /\ Lot * k \in Nat
      BY <3>1, ConstantsAre
    <3> QED BY <3>2, WholeIs
  <2> QED BY <2>1, WholeIs DEF Whole, Shares
<1>2. held \in [Codes -> Shares]
  BY <1>1 DEF AccountTypes, WholeAccount
<1>3. \A i \in DOMAIN ledger :
        /\ ledger[i].code \in Codes /\ ledger[i].filled \in 0 .. ledger[i].qty
        /\ ledger[i].live => ledger[i].kind = "stop"
  <2>1. \A i \in DOMAIN ledger : ledger[i] \in LedgerRows
    BY DEF AccountTypes
  <2>2. \A i \in DOMAIN ledger :
          ledger[i].code \in Codes /\ ledger[i].filled \in Nat /\ ledger[i].qty \in Nat
    BY <2>1 DEF LedgerRows
  <2> QED BY <2>2 DEF FillsKept, AccountTypes
<1>4. pos \in [Codes -> [open : BOOLEAN, qty : Shares, stop : 0 .. MaxLevel,
                         active : 0 .. Len(orders), pid : 0 .. MaxDays]]
  <2>1. ASSUME NEW c \in Codes
        PROVE  pos[c] \in [open : BOOLEAN, qty : Shares, stop : 0 .. MaxLevel,
                           active : 0 .. Len(orders), pid : 0 .. MaxDays]
    <3>1. pos[c] \in Positions /\ pos[c].active \in Nat /\ orders \in Seq(OrderRows)
      BY PositionIs DEF BookTypes
    <3>2. pos[c].active \in 0 .. Len(orders)
      BY <3>1, PositionIs
    <3>3. pos[c].qty \in Shares
      BY <1>1 DEF WholeBook
    <3> QED BY <3>1, <3>2, <3>3 DEF Positions, Stops
  <2> QED BY <2>1 DEF BookTypes
<1>5. \A c \in Codes : pos[c].active # 0 => orders[pos[c].active].code = c
  BY DEF PositionsKept, StopOf
<1>6. \A i \in DOMAIN orders : orders[i].odno \in Odnos /\ orders[i].filled \in 0 .. orders[i].qty
  <2>1. \A i \in DOMAIN orders : orders[i] \in OrderRows
    BY DEF BookTypes
  <2>2. \A i \in DOMAIN orders : orders[i].odno \in Odnos
    BY <2>1 DEF OrderRows
  <2>3. \A n \in Whole : n \in 0 .. Lot
    BY WholeIs DEF Whole
  <2> QED BY <2>2, <2>3 DEF WholeBook
<1> QED BY <1>2, <1>3, <1>4, <1>5, <1>6
        DEF CustodyTypeOK, AccountTypes, BookTypes, CycleTyped, CycleStates, WatchTyped,
            WatchStates, FlagsKept

\* Every variable has its type, and the stop a position is linked to is an order of its
\* stock, for any number of stocks, days and levels, while orders are filled whole.
THEOREM TypesHold == Spec /\ NoPartial => []CustodyTypeOK
<1>1. WholeInv => CustodyTypeOK
  BY WholeTyped
<1> QED BY <1>1, WholeInvariant, PTL

\* When the watch has registered what was missing, with the market open and the orders of
\* the day known, every position that has shares is covered by a stop over all of them,
\* unless KIS has refused that stop in this very run, over shares that were free: also
\* when stops were refused before, or processes have died and left whatever they had
\* committed.
THEOREM WatchCovers == Spec /\ NoPartial => []WatchLeavesCovered
<1>1. WholeInv => WatchLeavesCovered
  <2> SUFFICES ASSUME WholeInv, watch.pc = "stale", session = "open", watch.known,
                      NEW c \in Codes \ watch.refused, pos[c].open, held[c] > 0
               PROVE  Covered(c)
    BY DEF WatchLeavesCovered
  <2>1. c \in DOMAIN watch.rows
    BY DEF WholeInv, CustodyInv, WatchReads
  <2>2. LiveStop(ledger, c)
    BY <2>1 DEF WholeInv, WatchedKept, Watched, HasStop, StalePhase
  <2>3. PICK i \in DOMAIN ledger : ledger[i].code = c /\ ledger[i].kind = "stop" /\ ledger[i].live
    BY <2>2 DEF LiveStop
  <2>4. ledger[i].qty = Lot /\ ledger[i].filled = 0 /\ held[c] = Lot
    BY <2>3, WholeIs DEF WholeInv, WholeKept, WholeAccount
  <2>5. Remaining(ledger[i]) = held[c]
    BY <2>4, WholeIs DEF Remaining
  <2> QED BY <2>3, <2>5 DEF Covered
<1> QED BY <1>1, WholeInvariant, PTL
=============================================================================
