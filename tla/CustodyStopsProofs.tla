-------------------------- MODULE CustodyStopsProofs --------------------------
(***************************************************************************)
(* More proofs about the custody of the holdings, on top of the invariant  *)
(* of CustodyProofs that holds whatever fails, in three more layers: the   *)
(* stops at KIS as long as no process has died; what is bought and sold of *)
(* a position while orders are also filled whole; and the balance of book  *)
(* and account while nothing fails but stops and exits that KIS refuses.   *)
(***************************************************************************)
EXTENDS CustodyProofs

-----------------------------------------------------------------------------
(* While no process dies.                                                  *)

\* The order a position is linked to, or is about to be.
OrderId(c) ==
  IF cyc.code = c /\ cyc.pc = "link" THEN cyc.id
  ELSE IF watch.code = c /\ watch.pc \in {"expire", "link"} THEN watch.id
  ELSE pos[c].active

\* The cycle has an answer of KIS about the stop that it has not recorded.
CycleSent(c) == cyc.code = c /\ cyc.pc \in {"stopSent", "revised"}
\* So has the watch.
WatchSent(c) ==
  /\ watch.code = c
  /\ watch.pc = "revised" \/ (watch.pc = "registered" /\ watch.answer # Rejected)

\* The number of the stop at KIS, as far as a process or the book knows it.
StopNumber(c) ==
  IF CycleSent(c) THEN cyc.answer.odno
  ELSE IF WatchSent(c) THEN watch.answer.odno
  ELSE IF OrderId(c) = 0 THEN NoOdno
  ELSE orders[OrderId(c)].odno

\* The level the stop is at, or is being raised to.
Level(c) == IF cyc.code = c /\ cyc.pc \in {"revised", "raise"} THEN cyc.n ELSE pos[c].stop

\* A stop just sent is at this level; one on record is at the trigger of its order, which
\* is below the level when KIS has refused to revise it.
AtLevel(c, t) ==
  IF CycleSent(c) \/ WatchSent(c) THEN t = Level(c)
  ELSE t = orders[OrderId(c)].trig /\ t <= Level(c)

\* A live order is the one its position is linked to, and not above the level of the book.
LiveFits(i) ==
  LET c == ledger[i].code
  IN  StopNumber(c) = <<day, i>> /\ AtLevel(c, ledger[i].trig)

\* A live stop is the only one of its stock and belongs to its position.
LiveKept ==
  /\ \A i, j \in DOMAIN ledger :
       ledger[i].live /\ ledger[j].live /\ ledger[i].code = ledger[j].code => i = j
  /\ \A i \in DOMAIN ledger : ledger[i].live => session = "open" /\ Remaining(ledger[i]) > 0
  /\ \A i \in DOMAIN ledger : ledger[i].live /\ pos[ledger[i].code].open => LiveFits(i)

\* KIS has no live stop of the stock.
NoLive(c) == \A i \in DOMAIN ledger : ledger[i].live => ledger[i].code # c

\* Only a position closed by today's cycle leaves a stop behind, and the stocks the cycle
\* is about to cover have none.
CycleCovers ==
  /\ ~cycled => \A c \in Codes : ~pos[c].open => NoLive(c)
  /\ cyc.pc \in ExitPhase => \A c \in cyc.plan : NoLive(c)
  /\ cyc.pc \in EntryPhase =>
       \A c \in cyc.todo : (cyc.code = c /\ cyc.pc \in {"stopSent", "link"}) \/ NoLive(c)
  /\ \A c \in Codes : pos[c].open /\ pos[c].active = 0 =>
       cyc.code = c /\ cyc.pc \in {"stop", "stopSent", "link"}

\* Neither have those the watch is about to cover.
WatchUncovered ==
  watch.pc \in RegisterPhase =>
    \A c \in watch.todo : (watch.code = c /\ watch.pc # "register") \/ NoLive(c)

\* The stop the watch has loaded with a position is at KIS.
RowLive(c, i) == ledger[i].live /\ watch.rows[c].odno = <<day, i>>

\* Then it is still the one of the position.
RowsLinked ==
  /\ watch.pc \in RegisterPhase \cup StalePhase =>
       \A c \in DOMAIN watch.rows : \A i \in DOMAIN ledger :
         RowLive(c, i) =>
           /\ pos[c].active = watch.rows[c].active
           /\ ~(watch.code = c /\ watch.pc \in {"registered", "expire", "link"})
  /\ watch.pc = "revised" =>
       /\ watch.answer.odno # NoOdno
       /\ pos[watch.code].active = watch.rows[watch.code].active

\* What the watch has still to bring to the level of the book.
Behind(c) ==
  IF watch.pc \in RegisterPhase THEN c \in StaleStops(watch.rows) ELSE c \in watch.todo

\* A live stop is at that level, or the watch will see to it, unless KIS has refused.
RowsCurrent ==
  watch.pc \in RegisterPhase \cup StalePhase =>
    \A i \in DOMAIN ledger :
      LET c == ledger[i].code
      IN  ledger[i].live /\ pos[c].open =>
            \/ ledger[i].trig = pos[c].stop
            \/ RowLive(c, i) /\ (Behind(c) \/ c \in watch.refused)

WatchCoversNew == WatchUncovered /\ RowsLinked /\ RowsCurrent

\* The orders the watch has fetched, and what has become of them.
SnapshotKept ==
  watch.pc \in SettlePhase \cup {"loaded"} =>
    /\ \A c \in DOMAIN watch.rows :
         watch.rows[c].active # 0 =>
           /\ watch.rows[c].odno = orders[watch.rows[c].active].odno
           /\ watch.rows[c].trig = orders[watch.rows[c].active].trig
    /\ watch.known =>
         /\ DOMAIN ledger = DOMAIN watch.led
         /\ \A i \in DOMAIN ledger :
              /\ watch.led[i].code = ledger[i].code /\ watch.led[i].kind = ledger[i].kind
              /\ watch.led[i].filled <= ledger[i].filled
              /\ ledger[i].live => watch.led[i].live
    /\ watch.pc \in {"settleOutcome", "settleClose"} =>
         watch.n <= watch.led[watch.rows[watch.code].odno[2]].filled
    /\ watch.pc = "settleClose" => OutcomeTaken(watch.id)

\* The book knows what the stop has sold.
Settled(c) ==
  /\ ~WatchSent(c) /\ OutcomeTaken(OrderId(c))
  /\ ~(watch.pc = "settleClose" /\ watch.code = c)

\* The cycle has sold shares and the book still has them.
Exiting(c) == cyc.code = c /\ cyc.pc \in {"exitSent", "exitOutcome", "exitClose"} /\ cyc.n > 0

\* What a stop has sold and the book still has.
Unsettled(i) == IF Settled(ledger[i].code) THEN 0 ELSE ledger[i].filled

\* A live stop offers no more than is held, and with what it has sold and the book
\* does not know of yet no more than is on the book.
Room(i) ==
  LET c == ledger[i].code
  IN  /\ Exiting(c) \/ Remaining(ledger[i]) <= held[c]
      /\ Remaining(ledger[i]) + Unsettled(i) <= pos[c].qty

\* Every live stop of a position offers shares there are.
RoomKept == \A i \in DOMAIN ledger : ledger[i].live /\ pos[ledger[i].code].open => Room(i)

\* What holds besides, while no process dies.
StopsKept == LiveKept /\ CycleCovers /\ WatchCoversNew /\ SnapshotKept /\ RoomKept

\* No process dies in this step; anything else may fail.
NoCrash == ~Crash

-----------------------------------------------------------------------------
(* What a step makes of the live stops, and of what is known of them.       *)

\* A live stop that stays: what it sells is held no more.
KeptLive(i) ==
  /\ i \in DOMAIN ledger /\ ledger[i].live
  /\ ledger'[i].code = ledger[i].code /\ ledger'[i].trig = ledger[i].trig
  /\ session' = session /\ day' = day /\ Remaining(ledger'[i]) > 0
  /\ \E n \in 0 .. ledger[i].qty :
       /\ Remaining(ledger'[i]) = Remaining(ledger[i]) - n
       /\ ledger'[i].filled = ledger[i].filled + n
       /\ Exiting(ledger[i].code)' \/ held'[ledger[i].code] >= held[ledger[i].code] - n

\* No stop is placed.
NoNewLive == \A i \in DOMAIN ledger' : ledger'[i].live => KeptLive(i)

\* The process at hand knows the stop it has just placed, and the book allows for it.
StopFits(c, q, t) ==
  /\ session = "open" /\ UNCHANGED <<session, day, held, pos, orders>>
  /\ pos[c].open /\ q <= pos[c].qty /\ q <= held[c]
  /\ StopNumber(c)' = <<day, Len(ledger) + 1>> /\ Level(c)' = t /\ AtLevel(c, t)'
  /\ \/ cyc'.pc \in {"revised", "stopSent"} /\ cyc'.code = c
     \/ watch'.pc \in {"registered", "revised"} /\ watch'.code = c

\* The one live stop of a stock is placed, not below the one it replaces.
NewStop(c, q, t) ==
  LET k == Len(ledger) + 1
  IN  /\ StopFits(c, q, t) /\ q > 0
      /\ k \in DOMAIN ledger' /\ k \notin DOMAIN ledger
      /\ ledger'[k].code = c /\ ledger'[k].qty = q /\ ledger'[k].filled = 0 /\ ledger'[k].trig = t
      /\ \A i \in DOMAIN ledger' \ {k} : ledger'[i].live => KeptLive(i) /\ ledger[i].code # c
      /\ \A i \in DOMAIN ledger : ledger[i].live /\ ledger[i].code = c => ledger[i].trig <= t

\* A stop of the stock is placed.
Renewed(c) == \E q \in 1 .. pos[c].qty, t \in Stops : NewStop(c, q, t)

\* A step places one stop at most.
AccountMoves == NoNewLive \/ \E c \in Codes : Renewed(c)

\* The number and the level of a stop stay what they are.
ViewKept(c) ==
  /\ StopNumber(c)' = StopNumber(c)
  /\ StopNumber(c) # NoOdno => \A t \in Stops : AtLevel(c, t) => AtLevel(c, t)'

\* The book only counts out what the stop has sold.
FundsKept(c) ==
  /\ Exiting(c) => Exiting(c)'
  /\ \/ pos'[c].qty = pos[c].qty /\ (Settled(c) => Settled(c)')
     \/ /\ Settled(c)' /\ ~Settled(c)
        /\ \A i \in DOMAIN ledger : ledger[i].live /\ ledger[i].code = c =>
             pos'[c].qty >= pos[c].qty - ledger[i].filled

\* KIS refuses a call about a stop, where there is none.
CallRefused(c) == NoLive(c) /\ StopNumber(c)' = StopNumber(c) /\ ~Exiting(c)

\* What is known of the stop of a position stays, unless there was none or it is replaced.
StockKept(c) ==
  pos'[c].open =>
    \/ pos[c].open /\ ViewKept(c) /\ FundsKept(c)
    \/ pos[c].open /\ CallRefused(c)
    \/ ~pos[c].open /\ NoLive(c)
    \/ Renewed(c)

\* For all stocks.
StocksKept == \A c \in Codes : StockKept(c)

\* No process has a stop of the stock under way.
CycleFree(c) == ~(cyc.code = c /\ cyc.pc \in {"revised", "raise", "stopSent", "link"})
\* Neither has the watch.
WatchFree(c) == ~(watch.code = c /\ watch.pc \in {"expire", "link"}) /\ ~WatchSent(c)

\* An order of the day.
LEMMA RowOf ==
  ASSUME AccountTypes, FillsKept, NEW i \in DOMAIN ledger
  PROVE  /\ ledger[i] \in LedgerRows /\ ledger[i].code \in Codes /\ ledger[i].qty \in Nat
         /\ ledger[i].filled \in Nat /\ ledger[i].filled <= ledger[i].qty
         /\ ledger[i].trig \in Stops /\ ledger[i].trig \in Nat /\ ledger[i].live \in BOOLEAN
         /\ Remaining(ledger[i]) \in Nat
         /\ Remaining(ledger[i]) = ledger[i].qty - ledger[i].filled
         /\ ledger[i].live => ledger[i].kind = "stop"
         /\ i \in Nat /\ i > 0 /\ Len(ledger) \in Nat /\ i <= Len(ledger)
         /\ held[ledger[i].code] \in Nat /\ day \in Nat /\ day > 0 /\ <<day, i>> # NoOdno
<1>1. ledger[i] \in LedgerRows /\ ledger \in Seq(LedgerRows)
  BY DEF AccountTypes
<1>2. /\ ledger[i].code \in Codes /\ ledger[i].qty \in Nat /\ ledger[i].filled \in Nat
      /\ ledger[i].trig \in Stops /\ ledger[i].live \in BOOLEAN
  BY <1>1 DEF LedgerRows
<1>3. ledger[i].filled <= ledger[i].qty
  BY DEF FillsKept
<1>4. i \in Nat /\ i > 0 /\ Len(ledger) \in Nat /\ i <= Len(ledger)
  BY <1>1
<1>5. held[ledger[i].code] \in Nat /\ day \in Nat /\ day > 0
  BY <1>2, ConstantsAre DEF AccountTypes
<1>6. <<day, i>> # NoOdno
  BY <1>5 DEF NoOdno
<1> QED BY <1>1, <1>2, <1>3, <1>4, <1>5, <1>6, ConstantsAre DEF AccountTypes, Remaining, Stops

\* A live stop that is not touched stays.
LEMMA LiveStays ==
  ASSUME AccountTypes, FillsKept, LiveKept, NEW i \in DOMAIN ledger, ledger[i].live,
         ledger'[i] = ledger[i], UNCHANGED <<session, day>>,
         held'[ledger[i].code] >= held[ledger[i].code] \/ Exiting(ledger[i].code)'
  PROVE  KeptLive(i)
<1>1. Remaining(ledger[i]) > 0
  BY DEF LiveKept
<1>2. 0 \in 0 .. ledger[i].qty /\ Remaining(ledger'[i]) = Remaining(ledger[i]) - 0
      /\ ledger'[i].filled = ledger[i].filled + 0 /\ held[ledger[i].code] - 0 = held[ledger[i].code]
  BY RowOf
<1> QED BY <1>1, <1>2 DEF KeptLive

\* So do all of them when the account is not touched.
LEMMA AllStay ==
  ASSUME AccountTypes, FillsKept, LiveKept, UNCHANGED <<ledger, session, day, held>>
  PROVE  NoNewLive
<1> SUFFICES ASSUME NEW i \in DOMAIN ledger', ledger'[i].live PROVE KeptLive(i)
  BY DEF NoNewLive
<1>1. held'[ledger[i].code] >= held[ledger[i].code]
  BY RowOf
<1> QED BY <1>1, LiveStays

\* An order to buy or to sell is not live.
LEMMA OrderStays ==
  ASSUME AccountTypes, FillsKept, LiveKept, NEW row \in LedgerRows, ~row.live,
         ledger' = Append(ledger, row), UNCHANGED <<session, day>>,
         \A c \in Codes : held'[c] >= held[c] \/ Exiting(c)'
  PROVE  NoNewLive
<1> SUFFICES ASSUME NEW i \in DOMAIN ledger', ledger'[i].live PROVE KeptLive(i)
  BY DEF NoNewLive
<1>1. i \in DOMAIN ledger /\ ledger'[i] = ledger[i]
  BY AppendIs DEF AccountTypes
<1>2. held'[ledger[i].code] >= held[ledger[i].code] \/ Exiting(ledger[i].code)'
  BY <1>1, RowOf
<1> QED BY <1>1, <1>2, LiveStays

\* A stop that triggers sells, and stays live when some of it is left.
LEMMA TriggerStays ==
  ASSUME AccountTypes, FillsKept, LiveKept, NEW i \in DOMAIN ledger, NEW n \in 1 .. Lot,
         StopTriggers(i, n)
  PROVE  NoNewLive
<1> DEFINE row == ledger[i]
<1>1. /\ row.live /\ row.code \in Codes /\ session = "open" /\ n <= held[row.code]
      /\ held' = [held EXCEPT ![row.code] = held[row.code] - n]
      /\ DOMAIN ledger' = DOMAIN ledger /\ UNCHANGED <<session, day>>
      /\ \A j \in DOMAIN ledger \ {i} : ledger'[j] = ledger[j]
      /\ ledger'[i].code = row.code /\ ledger'[i].trig = row.trig
      /\ ledger'[i].qty = row.qty /\ ledger'[i].filled = row.filled + n
      /\ ledger'[i].live = (n < Remaining(row))
  BY TriggerIs
<1>2. held \in [Codes -> Nat] /\ n \in Nat /\ row.qty \in Nat /\ row.filled \in Nat
      /\ Remaining(row) = row.qty - row.filled
  BY RowOf, CustodyAssumption DEF AccountTypes
<1>3. held'[row.code] = held[row.code] - n
      /\ \A d \in Codes \ {row.code} : held'[d] = held[d]
  BY <1>1, <1>2
<1> SUFFICES ASSUME NEW j \in DOMAIN ledger', ledger'[j].live PROVE KeptLive(j)
  BY DEF NoNewLive
<1>4. CASE j = i
  <2>1. n < Remaining(row)
    BY <1>1, <1>4
  <2>2. Remaining(ledger'[i]) = Remaining(row) - n /\ Remaining(row) - n > 0 /\ n \in 0 .. row.qty
    BY <1>1, <1>2, <2>1 DEF Remaining
  <2>3. held'[row.code] >= held[row.code] - n
    BY <1>1, <1>2, <1>3
  <2> QED BY <1>1, <1>4, <2>2, <2>3 DEF KeptLive
<1>5. CASE j # i
  <2>1. j \in DOMAIN ledger /\ ledger'[j] = ledger[j] /\ ledger[j].live
    BY <1>1, <1>5
  <2>2. ledger[j].code \in Codes \ {row.code}
    BY <1>1, <1>5, <2>1, RowOf DEF LiveKept
  <2>3. held'[ledger[j].code] >= held[ledger[j].code]
    BY <1>3, <2>2, <1>2
  <2> QED BY <1>1, <2>1, <2>3, LiveStays
<1> QED BY <1>4, <1>5

\* A stop is placed, and any other of its stock is gone.
LEMMA StopComes ==
  ASSUME CustodyInv, LiveKept, NEW c \in Codes, NEW q \in Nat \ {0}, NEW t \in Stops,
         StopFits(c, q, t), NEW k, k = Len(ledger) + 1,
         DOMAIN ledger' = DOMAIN ledger \cup {k}, k \notin DOMAIN ledger,
         ledger'[k].code = c, ledger'[k].qty = q, ledger'[k].filled = 0, ledger'[k].trig = t,
         \A i \in DOMAIN ledger : ledger'[i].live => ledger'[i] = ledger[i] /\ ledger[i].code # c,
         \A i \in DOMAIN ledger : ledger[i].live /\ ledger[i].code = c => ledger[i].trig <= t
  PROVE  Renewed(c)
<1>1. AccountTypes /\ FillsKept /\ BookTypes /\ PositionsKept
  BY DEF CustodyInv
<1>2. ASSUME NEW i \in DOMAIN ledger' \ {k}, ledger'[i].live
      PROVE  KeptLive(i) /\ ledger[i].code # c
  <2>1. i \in DOMAIN ledger /\ ledger'[i] = ledger[i] /\ ledger[i].live /\ ledger[i].code # c
    BY <1>2
  <2>2. UNCHANGED <<session, day, held>>
    BY DEF StopFits
  <2>3. held'[ledger[i].code] >= held[ledger[i].code]
    BY <1>1, <2>1, <2>2, RowOf
  <2> QED BY <1>1, <2>1, <2>2, <2>3, LiveStays
<1>3. q \in 1 .. pos[c].qty
  BY <1>1, PositionIs DEF StopFits
<1>4. NewStop(c, q, t)
  BY <1>2 DEF NewStop
<1> QED BY <1>3, <1>4 DEF Renewed

\* When the stock had no stop.
LEMMA StopPlaced ==
  ASSUME CustodyInv, LiveKept, NEW c \in Codes, NEW q \in Nat \ {0}, NEW t \in Stops,
         StopFits(c, q, t), NoLive(c), NEW row \in LedgerRows, ledger' = Append(ledger, row),
         row.code = c, row.qty = q, row.filled = 0, row.trig = t
  PROVE  Renewed(c)
<1> DEFINE k == Len(ledger) + 1
<1>1. /\ DOMAIN ledger' = DOMAIN ledger \cup {k} /\ k \notin DOMAIN ledger
      /\ \A i \in DOMAIN ledger : ledger'[i] = ledger[i]
      /\ ledger'[k] = row
  BY AppendIs DEF CustodyInv, AccountTypes
<1>2. k = Len(ledger) + 1
  OBVIOUS
<1> HIDE DEF k
<1>3. \A i \in DOMAIN ledger : ledger'[i].live => ledger'[i] = ledger[i] /\ ledger[i].code # c
  BY <1>1 DEF NoLive
<1>4. \A i \in DOMAIN ledger : ledger[i].live /\ ledger[i].code = c => ledger[i].trig <= t
  BY DEF NoLive
<1> QED BY <1>1, <1>2, <1>3, <1>4, StopComes

\* What is known of a stop no process has under way.
LEMMA FreeView ==
  ASSUME NEW c, CycleFree(c), WatchFree(c)
  PROVE  /\ OrderId(c) = pos[c].active /\ ~CycleSent(c) /\ ~WatchSent(c)
         /\ StopNumber(c) = IF pos[c].active = 0 THEN NoOdno ELSE orders[pos[c].active].odno
         /\ Level(c) = pos[c].stop
         /\ \A t : AtLevel(c, t) <=> t = orders[pos[c].active].trig /\ t <= pos[c].stop
<1>1. OrderId(c) = pos[c].active
  BY DEF CycleFree, WatchFree, OrderId
<1>2. ~CycleSent(c) /\ ~WatchSent(c)
  BY DEF CycleFree, WatchFree, CycleSent, WatchSent
<1>3. Level(c) = pos[c].stop
  BY DEF CycleFree, Level
<1> QED BY <1>1, <1>2, <1>3 DEF StopNumber, AtLevel

\* And of one that no process will have under way.
LEMMA FreeViewNext ==
  ASSUME NEW c, CycleFree(c)', WatchFree(c)'
  PROVE  /\ OrderId(c)' = pos'[c].active /\ ~CycleSent(c)' /\ ~WatchSent(c)'
         /\ StopNumber(c)' = IF pos'[c].active = 0 THEN NoOdno ELSE orders'[pos'[c].active].odno
         /\ Level(c)' = pos'[c].stop
         /\ \A t : AtLevel(c, t)' <=> t = orders'[pos'[c].active].trig /\ t <= pos'[c].stop
<1>1. OrderId(c)' = pos'[c].active
  BY DEF CycleFree, WatchFree, OrderId
<1>2. ~CycleSent(c)' /\ ~WatchSent(c)'
  BY DEF CycleFree, WatchFree, CycleSent, WatchSent
<1>3. Level(c)' = pos'[c].stop
  BY DEF CycleFree, Level
<1> QED BY <1>1, <1>2, <1>3 DEF StopNumber, AtLevel

\* A live stop of a position is the order it is linked to, and not above the level of the book.
LEMMA LiveIs ==
  ASSUME CustodyInv, LiveKept, NEW i \in DOMAIN ledger, ledger[i].live, NEW c,
         c = ledger[i].code, pos[c].open, CycleFree(c), WatchFree(c)
  PROVE  /\ c \in Codes /\ pos[c].active # 0 /\ orders[pos[c].active].odno = <<day, i>>
         /\ ledger[i].trig = orders[pos[c].active].trig /\ ledger[i].trig <= pos[c].stop
<1>1. c \in Codes /\ <<day, i>> # NoOdno
  BY RowOf DEF CustodyInv
<1>2. StopNumber(c) = <<day, i>> /\ AtLevel(c, ledger[i].trig)
  BY DEF LiveKept, LiveFits
<1> QED BY <1>1, <1>2, FreeView

\* What the balance of a live stop says, unless its stock is being sold.
LEMMA RoomIs ==
  ASSUME CustodyInv, RoomKept, NEW i \in DOMAIN ledger, ledger[i].live, NEW c,
         c = ledger[i].code, pos[c].open
  PROVE  /\ Exiting(c) \/ Remaining(ledger[i]) <= held[c]
         /\ Remaining(ledger[i]) <= pos[c].qty
         /\ ~Settled(c) => Remaining(ledger[i]) + ledger[i].filled <= pos[c].qty
<1>1. Remaining(ledger[i]) \in Nat /\ ledger[i].filled \in Nat /\ pos[c].qty \in Nat
  BY RowOf, PositionIs DEF CustodyInv
<1>2. Room(i)
  BY DEF RoomKept
<1>3. /\ Exiting(c) \/ Remaining(ledger[i]) <= held[c]
      /\ Remaining(ledger[i]) + Unsettled(i) <= pos[c].qty
  BY <1>2 DEF Room
<1>4. Unsettled(i) = IF Settled(c) THEN 0 ELSE ledger[i].filled
  BY DEF Unsettled
<1> QED BY <1>1, <1>3, <1>4

\* A revision replaces the stop, or it is refused and leaves it as it is.
LEMMA RaiseMoves ==
  ASSUME CustodyInv, StopsKept, NEW c \in Codes, NEW level \in Levels,
         RaiseBrokerStop(c, level), UNCHANGED <<clock, bookVars, watchVars>>
  PROVE  (NoNewLive /\ pos[c].open /\ ViewKept(c) /\ FundsKept(c)) \/ Renewed(c)
<1> DEFINE id == pos[c].active
           odno == orders[id].odno
           j == odno[2]
           q == Remaining(ledger[j])
<1>0. AccountTypes /\ FillsKept /\ LiveKept /\ BookTypes /\ PositionsKept /\ CycleTyped /\ RoomKept
  BY DEF CustodyInv, StopsKept
<1>1. /\ cyc.pc = "exits" /\ c \in cyc.todo /\ level > pos[c].stop /\ level \in Stops
      /\ held' = held
      /\ \/ CycleTo("raise", c, level, id, Rejected) /\ ledger' = ledger
         \/ /\ CycleTo("revised", c, level, id, Submitted) /\ id \in DOMAIN orders
            /\ HasRow(ledger, odno) /\ j \in DOMAIN ledger /\ odno = <<day, j>>
            /\ ledger[j].live
            /\ ledger' = Append([ledger EXCEPT ![j].live = FALSE],
                                LedgerRow(c, "stop", Remaining(ledger[j]), 0, TRUE, level))
  BY RaiseBrokerStopIs
<1> HIDE DEF id, odno, j
<1>2. CASE cyc'.pc = "raise"
  <2>0. CycleTo("raise", c, level, id, Rejected) /\ ledger' = ledger
    BY <1>1, <1>2 DEF CycleTo
  <2> USE DEF id, odno, j
  <2>1. NoNewLive
    BY <1>0, <1>1, <2>0, AllStay DEF clock
  <2>2. pos[c].open /\ watch.pc = "idle" /\ watch'.pc = "idle" /\ UNCHANGED <<pos, orders, outcomes>>
    BY <1>0, <1>1 DEF CustodyInv, CycleReads, ExitPhase, CycleTyped, bookVars, watchVars
  <2>3. cyc.pc = "exits" /\ cyc'.pc = "raise" /\ cyc'.code = c /\ cyc'.n = level
    BY <1>1, <2>0 DEF CycleTo
  <2>4. CycleFree(c) /\ WatchFree(c) /\ ~Exiting(c)
    BY <2>2, <2>3 DEF CycleFree, WatchFree, WatchSent, Exiting
  <2>5. /\ ~CycleSent(c)' /\ ~WatchSent(c)' /\ OrderId(c)' = pos[c].active /\ Level(c)' = level
    BY <2>2, <2>3 DEF CycleSent, WatchSent, OrderId, Level
  <2>6. /\ ~CycleSent(c) /\ ~WatchSent(c) /\ OrderId(c) = pos[c].active /\ Level(c) = pos[c].stop
    BY <2>4, FreeView
  <2>7. \A t \in Stops : t <= pos[c].stop => t <= level
    <3>1. pos[c].stop \in Nat /\ level \in Nat /\ level > pos[c].stop
      <4>1. pos[c].stop \in Stops /\ level \in Stops
        BY <1>0, <1>1, PositionIs
      <4> HIDE DEF id, odno, j, q
      <4> QED BY <1>1, <4>1, ConstantsAre DEF Stops
    <3> HIDE DEF id, odno, j, q
    <3> QED BY <3>1, ConstantsAre DEF Stops
  <2>8. ViewKept(c)
    <3>1. StopNumber(c)' = StopNumber(c)
      BY <2>2, <2>5, <2>6 DEF StopNumber
    <3> QED BY <2>2, <2>5, <2>6, <2>7, <3>1 DEF ViewKept, AtLevel
  <2>9. FundsKept(c)
    BY <2>2, <2>4, <2>5, <2>6 DEF FundsKept, Settled, OutcomeTaken
  <2> QED BY <2>1, <2>2, <2>8, <2>9
<1>3. CASE cyc'.pc # "raise"
  <2>1. /\ CycleTo("revised", c, level, id, Submitted)
        /\ id \in DOMAIN orders /\ HasRow(ledger, odno) /\ j \in DOMAIN ledger
        /\ odno = <<day, j>> /\ ledger[j].live
        /\ ledger' = Append([ledger EXCEPT ![j].live = FALSE],
                            LedgerRow(c, "stop", Remaining(ledger[j]), 0, TRUE, level))
    BY <1>1, <1>3 DEF CycleTo
  <2> USE DEF id, odno, j
  <2>2. pos[c].open /\ watch.pc = "idle" /\ session = "open"
    BY <1>0, <1>1 DEF CustodyInv, CycleReads, ExitPhase, CycleTyped
  <2>3. ledger[j].code = c
    <3>1. id # 0
      BY <1>0, <2>1 DEF BookTypes
    <3>2. StopOf(c, id)
      BY <1>0, <3>1 DEF PositionsKept
    <3>3. NumberOf(odno, c)
      BY <3>2 DEF CustodyInv, NumbersKept, StopOf
    <3>4. odno[1] = day /\ day \in Nat
      BY <2>1, ConstantsAre DEF HasRow, CustodyInv, AccountTypes
    <3> HIDE DEF odno, id
    <3> QED BY <3>3, <3>4 DEF NumberOf
  <2>4. CycleFree(c) /\ WatchFree(c) /\ ~Exiting(c)
    BY <1>1, <2>2 DEF CycleFree, WatchFree, WatchSent, Exiting
  <2> HIDE DEF j, odno, id
  <2>5. ledger[j].trig <= pos[c].stop
    BY <1>0, <2>1, <2>2, <2>3, <2>4, LiveIs
  <2>6. ledger[j].trig <= level
    <3>1. ledger[j].trig \in Nat /\ pos[c].stop \in Nat /\ level \in Nat /\ level > pos[c].stop
      BY <1>0, <1>1, <2>1, RowOf, PositionIs, ConstantsAre DEF Stops
    <3> QED BY ONLY <2>5, <3>1
  <2>7. q <= held[c] /\ q <= pos[c].qty
    BY <1>0, <2>1, <2>2, <2>3, <2>4, RoomIs
  <2>8. q \in Nat \ {0}
    BY <1>0, <2>1, RowOf DEF LiveKept
  <2>9. /\ CycleSent(c)' /\ StopNumber(c)' = <<day, Len(ledger) + 1>>
        /\ Level(c)' = level /\ AtLevel(c, level)'
        /\ cyc'.pc = "revised" /\ cyc'.code = c
    <3>1. cyc'.pc = "revised" /\ cyc'.code = c /\ cyc'.n = level /\ cyc'.answer = Submitted
      BY <2>1 DEF CycleTo
    <3>2. CycleSent(c)'
      BY <3>1 DEF CycleSent
    <3>3. Submitted.odno = <<day, Len(ledger) + 1>>
      BY <1>0, AnswersAre, NextOdnoIs
    <3> QED BY <3>1, <3>2, <3>3 DEF StopNumber, Level, AtLevel
  <2>10. StopFits(c, q, level)
    <3>1. UNCHANGED <<session, day, held, pos, orders>>
      BY <1>1 DEF clock, bookVars
    <3> QED BY <2>2, <2>7, <2>9, <3>1 DEF StopFits
  <2> DEFINE k == Len(ledger) + 1
         row == LedgerRow(c, "stop", Remaining(ledger[j]), 0, TRUE, level)
  <2>11. /\ DOMAIN ledger' = DOMAIN ledger \cup {k} /\ k \notin DOMAIN ledger
         /\ \A i \in DOMAIN ledger \ {j} : ledger'[i] = ledger[i]
         /\ ledger'[j].live = FALSE /\ ledger'[k] = row
    BY <1>0, <1>1, <2>1, RevisedIs
  <2>12. row.code = c /\ row.qty = q /\ row.filled = 0 /\ row.trig = level
    BY DEF LedgerRow
  <2>13. k = Len(ledger) + 1
    OBVIOUS
  <2> HIDE DEF k, row, q
  <2>14. \A i \in DOMAIN ledger :
           ledger'[i].live => ledger'[i] = ledger[i] /\ ledger[i].code # c
    BY <1>0, <2>1, <2>3, <2>11 DEF LiveKept
  <2>15. \A i \in DOMAIN ledger : ledger[i].live /\ ledger[i].code = c => ledger[i].trig <= level
    BY <1>0, <2>1, <2>3, <2>6 DEF LiveKept
  <2>16. ledger'[k].code = c /\ ledger'[k].qty = q /\ ledger'[k].filled = 0 /\ ledger'[k].trig = level
    BY <2>11, <2>12
  <2> QED BY <1>0, <1>1, <2>8, <2>10, <2>11, <2>13, <2>14, <2>15, <2>16, StopComes
<1> QED BY <1>2, <1>3

\* The stop of a new position is placed where there is none.
LEMMA RegisterMoves ==
  ASSUME CustodyInv, StopsKept, RegisterStop, UNCHANGED <<clock, bookVars, watchVars>>,
         NEW c \in Codes, c = cyc.code
  PROVE  (NoNewLive /\ pos[c].open /\ CallRefused(c)) \/ Renewed(c)
<1> DEFINE q == cyc.n
<1>0. AccountTypes /\ FillsKept /\ LiveKept /\ CycleTyped /\ CycleCovers
  BY DEF CustodyInv, StopsKept
<1>1. /\ cyc.pc = "stop" /\ c \in cyc.todo /\ c \in Codes /\ q > 0 /\ held' = held
      /\ \/ /\ CycleTo("stopSent", c, q, cyc.id, Submitted)
            /\ q <= held[c] /\ session = "open"
            /\ ledger' = Append(ledger, LedgerRow(c, "stop", q, 0, TRUE, 1))
         \/ CycleTo("stopSent", c, q, cyc.id, Rejected) /\ ledger' = ledger
  BY RegisterStopIs
<1>2. CASE CycleTo("stopSent", c, q, cyc.id, Rejected) /\ ledger' = ledger
  <2>1. NoNewLive
    BY <1>0, <1>1, <1>2, AllStay DEF clock
  <2>2. NoLive(c)
    BY <1>0, <1>1 DEF CycleCovers, EntryPhase
  <2>3. pos[c].open /\ pos[c].active = 0
    BY <1>1 DEF CustodyInv, CycleReads, EntryPhase
  <2>4. StopNumber(c) = NoOdno /\ ~Exiting(c)
    <3>1. watch.pc = "idle"
      BY <1>0, <1>1 DEF CycleTyped
    <3>2. ~CycleSent(c) /\ ~WatchSent(c) /\ OrderId(c) = 0 /\ ~Exiting(c)
      BY <1>1, <2>3, <3>1 DEF CycleSent, WatchSent, OrderId, Exiting
    <3> QED BY <3>2 DEF StopNumber
  <2>5. StopNumber(c)' = NoOdno
    <3>1. cyc'.pc = "stopSent" /\ cyc'.code = c /\ cyc'.answer = Rejected
      BY <1>2 DEF CycleTo
    <3>2. CycleSent(c)' /\ Rejected.odno = NoOdno
      BY <1>0, <3>1, AnswersAre DEF CycleSent
    <3> QED BY <3>1, <3>2 DEF StopNumber
  <2> QED BY <2>1, <2>2, <2>3, <2>4, <2>5 DEF CallRefused
<1>3. CASE ~(CycleTo("stopSent", c, q, cyc.id, Rejected) /\ ledger' = ledger)
  <2>1. NoLive(c)
    BY <1>0, <1>1 DEF CycleCovers, EntryPhase
  <2>2. pos[c].open /\ pos[c].qty = q /\ pos[c].stop = 1
    BY <1>1 DEF CustodyInv, CycleReads, EntryPhase
  <2>3. q \in Nat \ {0}
    BY <1>0, <1>1, AtHandIs DEF CycleAtHand, CycleSteps
  <2>4. StopFits(c, q, 1)
    <3>1. UNCHANGED <<session, day, held, pos, orders>>
      BY <1>1 DEF clock, bookVars
    <3>2. cyc'.pc = "stopSent" /\ cyc'.code = c /\ cyc'.answer = Submitted
      BY <1>1, <1>3 DEF CycleTo
    <3>3. CycleSent(c)'
      BY <3>2 DEF CycleSent
    <3>4. Submitted.odno = <<day, Len(ledger) + 1>>
      BY <1>0, AnswersAre, NextOdnoIs
    <3>5. StopNumber(c)' = <<day, Len(ledger) + 1>> /\ Level(c)' = 1 /\ AtLevel(c, 1)'
      BY <2>2, <3>1, <3>2, <3>3, <3>4 DEF StopNumber, Level, AtLevel
    <3>6. session = "open" /\ q <= held[c]
      BY <1>1, <1>3
    <3>7. q <= pos[c].qty
      BY <2>2, <2>3
    <3> HIDE DEF q
    <3> QED BY <2>2, <3>1, <3>2, <3>5, <3>6, <3>7 DEF StopFits
  <2> DEFINE row == LedgerRow(c, "stop", q, 0, TRUE, 1)
  <2>5. row.code = c /\ row.qty = q /\ row.filled = 0 /\ row.trig = 1
    BY DEF LedgerRow
  <2>6. row \in LedgerRows
    BY <1>1, <2>3, ConstantsAre, RowIs
  <2>7. ledger' = Append(ledger, row)
    BY <1>1, <1>3
  <2>8. c \in Codes /\ 1 \in Stops
    BY <1>1, ConstantsAre
  <2> HIDE DEF row, q
  <2> QED BY <1>0, <2>1, <2>3, <2>4, <2>5, <2>6, <2>7, <2>8, StopPlaced
<1> QED BY <1>2, <1>3

\* So is the one the watch finds missing.
LEMMA MissingMoves ==
  ASSUME CustodyInv, StopsKept, NEW c \in Codes, RegisterMissing(c),
         UNCHANGED <<clock, bookVars, cycleVars>>
  PROVE  (NoNewLive /\ pos[c].open /\ CallRefused(c)) \/ Renewed(c)
<1> DEFINE q == watch.rows[c].qty
<1>9. PICK t \in Stops : t = watch.rows[c].stop
  BY RegisterMissingIs
<1>0. AccountTypes /\ FillsKept /\ LiveKept /\ WatchTyped /\ WatchReads /\ WatchCoversNew
  BY DEF CustodyInv, StopsKept
<1>1. /\ watch.pc = "register" /\ c \in watch.todo /\ c \in DOMAIN watch.rows
      /\ q \in Nat \ {0} /\ t \in Stops /\ held' = held
      /\ \/ /\ WatchTo("registered", c, watch.n, watch.id, Submitted, watch.any)
            /\ q <= held[c] /\ session = "open"
            /\ ledger' = Append(ledger, LedgerRow(c, "stop", q, 0, TRUE, t))
         \/ WatchTo("registered", c, watch.n, watch.id, Rejected, watch.any) /\ ledger' = ledger
  BY <1>9, RegisterMissingIs
<1>2. CASE WatchTo("registered", c, watch.n, watch.id, Rejected, watch.any) /\ ledger' = ledger
  <2>1. NoNewLive
    BY <1>0, <1>1, <1>2, AllStay DEF clock
  <2>2. NoLive(c)
    BY <1>0, <1>1 DEF WatchCoversNew, WatchUncovered, RegisterPhase
  <2>3. pos[c].open /\ cyc.pc = "idle"
    <3>1. pos[c].qty = q /\ cyc.pc = "idle"
      BY <1>0, <1>1 DEF WatchReads, RegisterPhase, WatchTyped
    <3> QED BY <1>1, <3>1 DEF CustodyInv, PositionsKept
  <2>4. StopNumber(c)' = StopNumber(c) /\ ~Exiting(c)
    <3>1. watch'.pc = "registered" /\ watch'.answer = Rejected /\ UNCHANGED <<cyc, pos, orders>>
      BY <1>2 DEF WatchTo, bookVars, cycleVars
    <3>2. /\ ~CycleSent(c) /\ ~CycleSent(c)' /\ ~WatchSent(c) /\ ~WatchSent(c)'
          /\ OrderId(c) = pos[c].active /\ OrderId(c)' = pos'[c].active /\ ~Exiting(c)
      BY <1>1, <2>3, <3>1 DEF CycleSent, WatchSent, OrderId, Exiting
    <3> QED BY <3>1, <3>2 DEF StopNumber
  <2> QED BY <2>1, <2>2, <2>3, <2>4 DEF CallRefused
<1>3. CASE ~(WatchTo("registered", c, watch.n, watch.id, Rejected, watch.any) /\ ledger' = ledger)
  <2>1. NoLive(c)
    BY <1>0, <1>1 DEF WatchCoversNew, WatchUncovered, RegisterPhase
  <2>2. pos[c].stop = t /\ pos[c].qty = q /\ cyc.pc = "idle"
    BY <1>0, <1>1, <1>9 DEF WatchReads, RegisterPhase, WatchTyped
  <2>3. pos[c].open
    BY <1>1, <2>2 DEF CustodyInv, PositionsKept
  <2>4. StopFits(c, q, t)
    <3>1. UNCHANGED <<session, day, held, pos, orders, cyc>>
      BY <1>1 DEF clock, bookVars, cycleVars
    <3>2. watch'.pc = "registered" /\ watch'.code = c /\ watch'.answer = Submitted
      BY <1>1, <1>3 DEF WatchTo
    <3>3. WatchSent(c)' /\ ~CycleSent(c)' /\ Level(c)' = pos'[c].stop
      BY <1>0, <2>2, <3>1, <3>2, AnswersAre DEF WatchSent, CycleSent, Level
    <3>4. Submitted.odno = <<day, Len(ledger) + 1>>
      BY <1>0, AnswersAre, NextOdnoIs
    <3>5. StopNumber(c)' = <<day, Len(ledger) + 1>> /\ Level(c)' = t /\ AtLevel(c, t)'
      BY <2>2, <3>1, <3>2, <3>3, <3>4 DEF StopNumber, AtLevel
    <3>6. session = "open" /\ q <= held[c]
      BY <1>1, <1>3
    <3>7. q <= pos[c].qty
      BY <1>1, <2>2
    <3> HIDE DEF q
    <3> QED BY <2>3, <3>1, <3>2, <3>5, <3>6, <3>7 DEF StopFits
  <2> DEFINE row == LedgerRow(c, "stop", q, 0, TRUE, t)
  <2>5. row.code = c /\ row.qty = q /\ row.filled = 0 /\ row.trig = t
    BY DEF LedgerRow
  <2>6. row \in LedgerRows
    BY <1>1, RowIs
  <2>7. ledger' = Append(ledger, row)
    BY <1>1, <1>3
  <2> HIDE DEF row, q
  <2> QED BY <1>0, <1>1, <2>1, <2>4, <2>5, <2>6, <2>7, StopPlaced
<1> QED BY <1>2, <1>3

\* The watch revises the stop the position is linked to, or leaves everything as it is.
LEMMA StaleMoves ==
  ASSUME CustodyInv, StopsKept, NEW c \in Codes, ReviseStale(c),
         UNCHANGED <<clock, bookVars, cycleVars>>
  PROVE  LET odno == watch.rows[c].odno
             j == odno[2]
         IN  /\ watch.pc = "stale" /\ c \in watch.todo /\ c \in DOMAIN watch.rows
             /\ \/ /\ NoNewLive /\ UNCHANGED <<held, ledger>>
                   /\ WatchLoop("stale", watch.rows, watch.todo \ {c})
                   /\ IsLive(odno) => c \in watch'.refused
                \/ /\ Renewed(c) /\ WatchTo("revised", c, watch.n, watch.id, Submitted, watch.any)
                   /\ pos[c].active = watch.rows[c].active /\ Submitted.odno # NoOdno
                   /\ j \in DOMAIN ledger /\ ledger[j].live /\ held' = held
                   /\ ledger' = Append([ledger EXCEPT ![j].live = FALSE],
                                       LedgerRow(c, "stop", Remaining(ledger[j]), 0, TRUE,
                                                 watch.rows[c].stop))
<1> DEFINE odno == watch.rows[c].odno
           j == odno[2]
           q == Remaining(ledger[j])
<1>9. PICK t \in Stops : t = watch.rows[c].stop
  BY ReviseStaleIs
<1>0. AccountTypes /\ FillsKept /\ LiveKept /\ WatchTyped /\ WatchReads /\ WatchLocals
      /\ RowsLinked /\ RoomKept
  BY DEF CustodyInv, StopsKept, WatchCoversNew
<1>1. /\ watch.pc = "stale" /\ c \in watch.todo /\ c \in DOMAIN watch.rows /\ t \in Stops
      /\ held' = held
      /\ \/ /\ WatchLoop("stale", watch.rows, watch.todo \ {c}) /\ ledger' = ledger
            /\ IsLive(odno) => c \in watch'.refused
         \/ /\ WatchTo("revised", c, watch.n, watch.id, Submitted, watch.any)
            /\ session = "open" /\ j \in DOMAIN ledger /\ odno = <<day, j>>
            /\ ledger[j].live
            /\ ledger' = Append([ledger EXCEPT ![j].live = FALSE],
                                LedgerRow(c, "stop", Remaining(ledger[j]), 0, TRUE, t))
  BY <1>9, ReviseStaleIs
<1>2. CASE WatchLoop("stale", watch.rows, watch.todo \ {c}) /\ ledger' = ledger
           /\ (IsLive(odno) => c \in watch'.refused)
  <2>1. NoNewLive
    BY <1>0, <1>1, <1>2, AllStay DEF clock
  <2> QED BY <1>1, <1>2, <2>1
<1>3. CASE /\ WatchTo("revised", c, watch.n, watch.id, Submitted, watch.any)
           /\ session = "open" /\ j \in DOMAIN ledger /\ odno = <<day, j>>
           /\ ledger[j].live
           /\ ledger' = Append([ledger EXCEPT ![j].live = FALSE],
                               LedgerRow(c, "stop", Remaining(ledger[j]), 0, TRUE, t))
  <2>1. NumberOf(odno, c) /\ day \in Nat
    <3>1. NumberOf(odno, c)
      BY <1>0, <1>1 DEF WatchLocals
    <3>2. day \in Nat
      BY <1>0, ConstantsAre DEF AccountTypes
    <3> QED BY <3>1, <3>2
  <2>2. RowLive(c, j) /\ pos[c].active = watch.rows[c].active
    <3>1. RowLive(c, j)
      BY <1>3 DEF RowLive
    <3> HIDE DEF j
    <3> QED BY <1>0, <1>1, <1>3, <3>1 DEF RowsLinked, StalePhase
  <2>3. pos[c].stop = t /\ pos[c].open /\ cyc.pc = "idle"
    <3>1. /\ pos[c].stop = t /\ pos[c].qty = watch.rows[c].qty /\ watch.rows[c].qty > 0
          /\ cyc.pc = "idle"
      BY <1>0, <1>1, <1>9 DEF WatchReads, StalePhase, WatchTyped
    <3> QED BY <3>1 DEF CustodyInv, PositionsKept
  <2>4. CycleFree(c) /\ WatchFree(c) /\ ~Exiting(c)
    BY <1>1, <2>3 DEF CycleFree, WatchFree, WatchSent, Exiting
  <2> HIDE DEF j, odno
  <2>5. ledger[j].code = c
    <3>1. odno[1] = day /\ odno[2] = j
      BY <1>3
    <3> QED BY <2>1, <3>1 DEF NumberOf
  <2>6. ledger[j].trig <= t
    BY <1>0, <1>3, <2>3, <2>4, <2>5, LiveIs
  <2>7. q <= held[c] /\ q <= pos[c].qty
    BY <1>0, <1>3, <2>3, <2>4, <2>5, RoomIs
  <2>8. q \in Nat \ {0}
    BY <1>0, <1>3, RowOf DEF LiveKept
  <2>9. StopFits(c, q, t)
    <3>1. UNCHANGED <<session, day, held, pos, orders, cyc>>
      BY <1>1 DEF clock, bookVars, cycleVars
    <3>2. watch'.pc = "revised" /\ watch'.code = c /\ watch'.answer = Submitted
      BY <1>3 DEF WatchTo
    <3>3. WatchSent(c)' /\ ~CycleSent(c)' /\ Level(c)' = pos'[c].stop
      BY <2>3, <3>1, <3>2 DEF WatchSent, CycleSent, Level
    <3>4. Submitted.odno = <<day, Len(ledger) + 1>>
      BY <1>0, AnswersAre, NextOdnoIs
    <3>5. StopNumber(c)' = <<day, Len(ledger) + 1>> /\ Level(c)' = t /\ AtLevel(c, t)'
      BY <2>3, <3>1, <3>2, <3>3, <3>4 DEF StopNumber, AtLevel
    <3> HIDE DEF q
    <3> QED BY <1>3, <2>3, <2>7, <3>1, <3>2, <3>5 DEF StopFits
  <2> DEFINE k == Len(ledger) + 1
         row == LedgerRow(c, "stop", Remaining(ledger[j]), 0, TRUE, t)
  <2>10. /\ DOMAIN ledger' = DOMAIN ledger \cup {k} /\ k \notin DOMAIN ledger
         /\ \A i \in DOMAIN ledger \ {j} : ledger'[i] = ledger[i]
         /\ ledger'[j].live = FALSE /\ ledger'[k] = row
    BY <1>0, <1>1, <1>3, RevisedIs
  <2>11. row.code = c /\ row.qty = q /\ row.filled = 0 /\ row.trig = t
    BY DEF LedgerRow
  <2>12. k = Len(ledger) + 1
    OBVIOUS
  <2> HIDE DEF k, row, q
  <2>13. \A i \in DOMAIN ledger :
           ledger'[i].live => ledger'[i] = ledger[i] /\ ledger[i].code # c
    BY <1>0, <1>3, <2>5, <2>10 DEF LiveKept
  <2>14. \A i \in DOMAIN ledger : ledger[i].live /\ ledger[i].code = c => ledger[i].trig <= t
    BY <1>0, <1>3, <2>5, <2>6 DEF LiveKept
  <2>15. ledger'[k].code = c /\ ledger'[k].qty = q /\ ledger'[k].filled = 0 /\ ledger'[k].trig = t
    BY <2>10, <2>11
  <2>16. Renewed(c)
    BY <1>0, <1>1, <2>8, <2>9, <2>10, <2>12, <2>13, <2>14, <2>15, StopComes
  <2>17. Submitted.odno # NoOdno
    BY <1>0, AnswersAre, NextOdnoIs
  <2> USE DEF j, odno
  <2> QED BY <1>1, <1>3, <1>9, <2>2, <2>16, <2>17
<1> QED BY <1>1, <1>2, <1>3

\* A sale of the cycle leaves the stops where they are: more may be offered than is left.
LEMMA SaleMoves ==
  ASSUME CustodyInv, StopsKept, NEW c \in Codes, SendExit(c), UNCHANGED <<clock, watchVars>>
  PROVE  NoNewLive
<1>0. AccountTypes /\ FillsKept /\ LiveKept /\ BookTypes /\ PositionsKept
  BY DEF CustodyInv, StopsKept
<1>1. PICK answer \in Answers :
        /\ CycleTo("exitSent", c, answer.filled, 0, answer)
        /\ \/ /\ answer.filled \in 0 .. pos[c].qty /\ pos[c].qty <= held[c]
              /\ ledger' = Append(ledger, LedgerRow(c, "sell", pos[c].qty, answer.filled, FALSE, 0))
              /\ held' = [held EXCEPT ![c] = held[c] - answer.filled]
           \/ ledger' = ledger /\ held' = held
  BY SendExitIs
<1> DEFINE n == answer.filled
           q == pos[c].qty
           row == LedgerRow(c, "sell", q, n, FALSE, 0)
<1>2. CASE ledger' = ledger /\ held' = held
  BY <1>0, <1>2, AllStay DEF clock
<1>3. CASE ledger' = Append(ledger, row) /\ n \in 0 .. q /\ held' = [held EXCEPT ![c] = held[c] - n]
  <2>1. n \in Nat /\ q \in Nat /\ held \in [Codes -> Nat]
    BY <1>0, PositionIs DEF Answers, AccountTypes
  <2>2. row \in LedgerRows
    BY <2>1, ConstantsAre, RowIs
  <2>3. ~row.live
    BY DEF LedgerRow
  <2>4. n = 0 \/ Exiting(c)'
    BY <1>1, <2>1 DEF CycleTo, Exiting
  <2>5. held' = [held EXCEPT ![c] = held[c] - n]
    BY <1>3
  <2>6. ledger' = Append(ledger, row)
    BY <1>3
  <2> HIDE DEF row, n, q
  <2>7. \A d \in Codes : held'[d] >= held[d] \/ Exiting(d)'
    <3> SUFFICES ASSUME NEW d \in Codes PROVE held'[d] >= held[d] \/ Exiting(d)'
      OBVIOUS
    <3>1. CASE d # c \/ n = 0
      BY <2>1, <2>5, <3>1
    <3> QED BY <2>4, <3>1
  <2> QED BY <1>0, <2>2, <2>3, <2>6, <2>7, OrderStays DEF clock
<1> QED BY <1>1, <1>2, <1>3

\* So does a purchase.
LEMMA PurchaseMoves ==
  ASSUME CustodyInv, StopsKept, NEW c \in Codes, SendEntry(c), UNCHANGED <<clock, watchVars>>
  PROVE  NoNewLive
<1>0. AccountTypes /\ FillsKept /\ LiveKept
  BY DEF CustodyInv, StopsKept
<1>1. PICK answer \in Answers :
        \/ /\ ledger' = Append(ledger, LedgerRow(c, "buy", Lot, answer.filled, FALSE, 0))
           /\ held' = [held EXCEPT ![c] = held[c] + answer.filled]
        \/ ledger' = ledger /\ held' = held
  BY SendEntryIs
<1> DEFINE n == answer.filled
           row == LedgerRow(c, "buy", Lot, n, FALSE, 0)
<1>2. CASE ledger' = ledger /\ held' = held
  BY <1>0, <1>2, AllStay DEF clock
<1>3. CASE ledger' = Append(ledger, row) /\ held' = [held EXCEPT ![c] = held[c] + n]
  <2>1. n \in Nat /\ held \in [Codes -> Nat]
    BY <1>0 DEF Answers, AccountTypes
  <2>2. row \in LedgerRows
    BY <2>1, ConstantsAre, RowIs
  <2>3. ~row.live
    BY DEF LedgerRow
  <2>4. held' = [held EXCEPT ![c] = held[c] + n]
    BY <1>3
  <2>5. ledger' = Append(ledger, row)
    BY <1>3
  <2> HIDE DEF row, n
  <2>6. \A d \in Codes : held'[d] >= held[d]
    BY <2>1, <2>4
  <2> QED BY <1>0, <2>2, <2>3, <2>5, <2>6, OrderStays DEF clock
<1> QED BY <1>1, <1>2, <1>3

\* Every step leaves the live stops of the account, or places one.
LEMMA AccountMovesStep ==
  ASSUME CustodyInv, StopsKept, [Next]_vars
  PROVE  AccountMoves
<1>0. AccountTypes /\ FillsKept /\ LiveKept /\ CycleTyped
  BY DEF CustodyInv, StopsKept
<1>1. CASE UNCHANGED <<kisVars, clock>>
  BY <1>0, <1>1, AllStay DEF kisVars, clock, AccountMoves
<1>2. CASE Nature
  <2>1. CASE StopTrigger
    BY <1>0, <2>1, TriggerStays DEF StopTrigger, AccountMoves
  <2>2. CASE Close
    BY <1>0, <2>2, CloseIs DEF Close, AccountMoves, NoNewLive
  <2>3. CASE NewDay
    BY <2>3 DEF NewDay, DayBegins, AccountMoves, NoNewLive
  <2> QED BY <1>2, <2>1, <2>2, <2>3 DEF Nature
<1>3. CASE CycleCalls /\ UNCHANGED <<clock, bookVars, cycled, safeStop, watchVars, crashes>>
  <2>1. ASSUME NEW c \in Codes, NEW level \in Levels, RaiseBrokerStop(c, level)
        PROVE  AccountMoves
    BY <1>3, <2>1, RaiseMoves DEF AccountMoves
  <2>2. ASSUME NEW c \in Codes, SendExit(c) PROVE AccountMoves
    BY <1>3, <2>2, SaleMoves DEF AccountMoves
  <2>3. ASSUME NEW c \in Codes, SendEntry(c) PROVE AccountMoves
    BY <1>3, <2>3, PurchaseMoves DEF AccountMoves
  <2>4. CASE RegisterStop
    <3>1. cyc.code \in Codes
      BY <2>4, RegisterStopIs
    <3>2. PICK c \in Codes : c = cyc.code
      BY <3>1
    <3> QED BY <1>3, <2>4, <3>2, RegisterMoves DEF AccountMoves
  <2> QED BY <1>3, <2>1, <2>2, <2>3, <2>4 DEF CycleCalls
<1>4. CASE WatchCalls /\ UNCHANGED <<clock, bookVars, cycleVars, swept, crashes>>
  <2>1. ASSUME NEW c \in Codes, RegisterMissing(c) PROVE AccountMoves
    BY <1>4, <2>1, MissingMoves DEF AccountMoves
  <2>2. ASSUME NEW c \in Codes, ReviseStale(c) PROVE AccountMoves
    <3>1. NoNewLive \/ Renewed(c)
      BY <1>4, <2>2, StaleMoves
    <3> QED BY <3>1 DEF AccountMoves
  <2> QED BY <1>4, <2>1, <2>2 DEF WatchCalls
<1> QED BY <1>1, <1>2, <1>3, <1>4, EveryStep DEF vars, kisVars, clock

-----------------------------------------------------------------------------
(* What every step leaves of what is known of the stop of a stock.          *)

\* The order a position is linked to keeps its number and its trigger.
LinkKept(c) ==
  pos[c].active # 0 =>
    /\ orders'[pos[c].active].odno = orders[pos[c].active].odno
    /\ orders'[pos[c].active].trig = orders[pos[c].active].trig

\* Later orders do not touch it, nor does a write to the order of another stock.
LEMMA LinkStays ==
  ASSUME CustodyInv, NEW c \in Codes,
         \/ orders' = orders
         \/ \A i \in DOMAIN orders : orders'[i] = orders[i]
         \/ \E id \in DOMAIN orders : Rewritten(id) /\ orders[id].code # c
         \/ \E id \in DOMAIN orders : /\ Rewritten(id) /\ orders'[id].odno = orders[id].odno
                                      /\ orders'[id].trig = orders[id].trig
  PROVE  LinkKept(c)
<1> SUFFICES ASSUME pos[c].active # 0
             PROVE  /\ orders'[pos[c].active].odno = orders[pos[c].active].odno
                    /\ orders'[pos[c].active].trig = orders[pos[c].active].trig
  BY DEF LinkKept
<1>1. pos[c].active \in DOMAIN orders /\ orders[pos[c].active].code = c
  BY DEF CustodyInv, PositionsKept, StopOf
<1>2. CASE orders' = orders \/ \A i \in DOMAIN orders : orders'[i] = orders[i]
  BY <1>1, <1>2
<1>3. ASSUME NEW id \in DOMAIN orders, Rewritten(id), orders[id].code # c
      PROVE  orders'[pos[c].active] = orders[pos[c].active]
  BY <1>1, <1>3 DEF Rewritten
<1>4. ASSUME NEW id \in DOMAIN orders, Rewritten(id),
             orders'[id].odno = orders[id].odno, orders'[id].trig = orders[id].trig
      PROVE  /\ orders'[pos[c].active].odno = orders[pos[c].active].odno
             /\ orders'[pos[c].active].trig = orders[pos[c].active].trig
  BY <1>1, <1>4 DEF Rewritten
<1> QED BY <1>2, <1>3, <1>4

\* A stock that no process touches before or after a step.
LEMMA StockWaits ==
  ASSUME NEW c \in Codes, pos'[c].open => pos[c].open, pos'[c].stop = pos[c].stop,
         pos'[c].active = pos[c].active, pos'[c].qty = pos[c].qty, LinkKept(c),
         CycleFree(c), CycleFree(c)', WatchFree(c), WatchFree(c)',
         Exiting(c) => Exiting(c)', outcomes \subseteq outcomes',
         watch'.pc = "settleClose" /\ watch'.code = c => ~Settled(c)
  PROVE  StockKept(c)
<1>1. ViewKept(c)
  BY FreeView, FreeViewNext DEF ViewKept, LinkKept
<1>2. Settled(c) => Settled(c)'
  <2> SUFFICES ASSUME Settled(c) PROVE Settled(c)'
    OBVIOUS
  <2>1. OutcomeTaken(pos[c].active)
    BY FreeView DEF Settled
  <2>2. PICK o \in outcomes : o.id = pos[c].active
    BY <2>1 DEF OutcomeTaken
  <2>3. o \in outcomes' /\ o.id = OrderId(c)' /\ ~WatchSent(c)'
    BY <2>2, FreeViewNext
  <2> QED BY <2>3 DEF Settled, OutcomeTaken
<1> QED BY <1>1, <1>2 DEF StockKept, FundsKept

\* While neither process nor the book moves, nothing changes.
LEMMA StockStands ==
  ASSUME NEW c \in Codes, UNCHANGED <<bookVars, cyc, watch>>
  PROVE  StockKept(c)
<1>1. /\ UNCHANGED <<pos, orders, outcomes, cyc, watch>>
      /\ CycleSent(c)' = CycleSent(c) /\ WatchSent(c)' = WatchSent(c)
      /\ OrderId(c)' = OrderId(c) /\ Level(c)' = Level(c) /\ Exiting(c)' = Exiting(c)
  BY DEF bookVars, CycleSent, WatchSent, OrderId, Level, Exiting
<1>2. StopNumber(c)' = StopNumber(c)
  BY <1>1 DEF StopNumber
<1>3. \A t \in Stops : AtLevel(c, t)' <=> AtLevel(c, t)
  BY <1>1 DEF AtLevel
<1>4. Settled(c)' = Settled(c)
  BY <1>1 DEF Settled, OutcomeTaken
<1> QED BY <1>1, <1>2, <1>3, <1>4 DEF StockKept, ViewKept, FundsKept

\* A step of the cycle that leaves a stock alone.
LEMMA CycleElsewhere ==
  ASSUME CustodyInv, NEW c \in Codes, watch' = watch, watch.pc = "idle", pos'[c] = pos[c],
         LinkKept(c), outcomes \subseteq outcomes', CycleFree(c), CycleFree(c)',
         Exiting(c) => Exiting(c)'
  PROVE  StockKept(c)
<1>1. WatchFree(c) /\ WatchFree(c)' /\ watch'.pc # "settleClose"
  BY DEF WatchFree, WatchSent
<1> QED BY <1>1, StockWaits

\* A step of the watch that leaves a stock alone.
LEMMA WatchElsewhere ==
  ASSUME CustodyInv, NEW c \in Codes, cyc' = cyc, cyc.pc = "idle", pos'[c] = pos[c],
         LinkKept(c), outcomes \subseteq outcomes', WatchFree(c), WatchFree(c)',
         watch'.pc = "settleClose" /\ watch'.code = c => ~Settled(c)
  PROVE  StockKept(c)
<1>1. CycleFree(c) /\ CycleFree(c)' /\ ~Exiting(c)
  BY DEF CycleFree, Exiting
<1> QED BY <1>1, StockWaits

\* Looking changes nothing.
LEMMA LooksLeave ==
  ASSUME CustodyInv, NEW c \in Codes,
         \/ CycleLooks /\ UNCHANGED <<kisVars, clock, bookVars, watchVars, crashes>>
         \/ WatchLooks /\ UNCHANGED <<kisVars, clock, bookVars, cycleVars, crashes>>
  PROVE  StockKept(c)
<1>0. CycleTyped /\ WatchTyped
  BY DEF CustodyInv
<1>1. pos' = pos /\ orders' = orders /\ outcomes' = outcomes /\ LinkKept(c)
  BY LinkStays DEF bookVars
<1>2. CASE CycleLooks /\ UNCHANGED <<kisVars, clock, bookVars, watchVars, crashes>>
  <2>1. cyc.pc \in {"idle", "exits", "entries"} /\ cyc'.pc \in {"idle", "exits", "entries"}
    <3>1. CASE Quiet /\ (GateHalts \/ \E plan \in SUBSET Codes : GatePasses(plan))
      BY <3>1, GatePassesIs DEF Quiet, GateHalts
    <3>2. ASSUME NEW d \in Codes, HoldPosition(d)
          PROVE  cyc.pc = "exits" /\ cyc'.pc = "exits"
      BY <3>2, HoldPositionIs DEF CycleBack
    <3>3. CASE ExitsDone
      BY <3>3, ExitsDoneIs
    <3>4. CASE CycleEnds
      BY <3>4, CycleEndsIs
    <3> QED BY <1>2, <3>1, <3>2, <3>3, <3>4 DEF CycleLooks
  <2>2. CycleFree(c) /\ CycleFree(c)' /\ ~Exiting(c)
    BY <2>1 DEF CycleFree, Exiting
  <2>3. watch' = watch /\ watch.pc = "idle"
    BY <1>0, <1>2, Apart DEF watchVars
  <2> QED BY <1>1, <2>2, <2>3, CycleElsewhere
<1>3. CASE WatchLooks /\ UNCHANGED <<kisVars, clock, bookVars, cycleVars, crashes>>
  <2>1. /\ watch.pc \in {"idle", "loaded", "settle", "aborted", "register", "stale"}
        /\ watch'.pc \in {"idle", "loaded", "settle", "register", "stale"}
    <3>1. CASE Quiet /\ (WatchStarts \/ WatchNothing)
      BY <3>1, WatchStartsIs, WatchEndIs DEF WatchFresh
    <3>2. CASE FetchDailyOrders
      BY <3>2, FetchIs
    <3>3. CASE WatchAborts \/ WatchEnds
      BY <3>3, WatchEndIs DEF WatchFresh
    <3>4. CASE SettlementDone
      BY <3>4, SettlementDoneIs DEF WatchLoop, WatchFresh
    <3>5. CASE RegistrationDone
      BY <3>5, RegistrationDoneIs DEF WatchLoop
    <3> QED BY <1>3, <3>1, <3>2, <3>3, <3>4, <3>5 DEF WatchLooks
  <2>2. WatchFree(c) /\ WatchFree(c)' /\ watch'.pc # "settleClose"
    BY <2>1 DEF WatchFree, WatchSent
  <2>3. cyc' = cyc /\ cyc.pc = "idle"
    BY <1>0, <1>3, Apart DEF cycleVars
  <2> QED BY <1>1, <2>2, <2>3, WatchElsewhere
<1> QED BY <1>2, <1>3

\* The calls of the cycle.
LEMMA CallsLeave ==
  ASSUME CustodyInv, StopsKept, CycleCalls, NEW c \in Codes,
         UNCHANGED <<clock, bookVars, cycled, safeStop, watchVars, crashes>>
  PROVE  StockKept(c)
<1>0. CycleTyped /\ WatchTyped
  BY DEF CustodyInv
<1>1. /\ pos' = pos /\ outcomes' = outcomes /\ LinkKept(c)
      /\ watch' = watch /\ watch.pc = "idle"
  BY <1>0, LinkStays, Apart DEF bookVars, watchVars
<1>2. ASSUME NEW d \in Codes, NEW level \in Levels, RaiseBrokerStop(d, level)
      PROVE  StockKept(c)
  <2>1. CASE c = d
    BY <1>2, <2>1, RaiseMoves DEF StockKept
  <2>2. CASE c # d
    <3>1. cyc.pc = "exits" /\ cyc'.code = d
      BY <1>2, RaiseBrokerStopIs DEF CycleTo
    <3>2. CycleFree(c) /\ CycleFree(c)' /\ ~Exiting(c)
      BY <2>2, <3>1 DEF CycleFree, Exiting
    <3> QED BY <1>1, <3>2, CycleElsewhere
  <2> QED BY <2>1, <2>2
<1>3. ASSUME NEW d \in Codes, SendExit(d) \/ SendEntry(d)
      PROVE  StockKept(c)
  <2>1. cyc.pc \in {"exits", "entries"} /\ cyc'.pc \in {"exitSent", "entrySent"}
    BY <1>3, SendExitIs, SendEntryIs DEF CycleTo
  <2>2. CycleFree(c) /\ CycleFree(c)' /\ ~Exiting(c)
    BY <2>1 DEF CycleFree, Exiting
  <2> QED BY <1>1, <2>2, CycleElsewhere
<1>4. CASE RegisterStop
  <2>1. CASE c = cyc.code
    BY <1>4, <2>1, RegisterMoves DEF StockKept
  <2>2. CASE c # cyc.code
    <3>1. cyc.pc = "stop" /\ cyc'.code = cyc.code
      BY <1>4, RegisterStopIs DEF CycleTo
    <3>2. CycleFree(c) /\ CycleFree(c)' /\ ~Exiting(c)
      BY <2>2, <3>1 DEF CycleFree, Exiting
    <3> QED BY <1>1, <3>2, CycleElsewhere
  <2> QED BY <2>1, <2>2
<1> QED BY <1>2, <1>3, <1>4 DEF CycleCalls

\* A revised stop has the number of its answer, first in the cycle and then in the book.
LEMMA RevisionLeaves ==
  ASSUME CustodyInv, RecordRevision, watch' = watch, NEW c \in Codes, c = cyc.code
  PROVE  StockKept(c)
<1> DEFINE id == cyc.id
<1>1. /\ cyc.pc = "revised" /\ CycleTo("raise", c, cyc.n, id, cyc.answer)
      /\ StopOf(c, id) /\ id = pos[c].active
      /\ orders'[id].trig = cyc.n
      /\ orders'[id].odno = IF cyc.answer.odno = NoOdno THEN orders[id].odno ELSE cyc.answer.odno
      /\ UNCHANGED <<pos, outcomes>>
  BY RecordRevisionIs
<1>2. cyc'.pc = "raise" /\ cyc'.code = c /\ cyc'.n = cyc.n /\ watch.pc = "idle" /\ watch'.pc = "idle"
  BY <1>1 DEF CycleTo, CustodyInv, CycleTyped
<1>3. id # 0 /\ pos'[c].active = id
  BY <1>1 DEF StopOf, CustodyInv, BookTypes
<1> HIDE DEF id
<1>4. /\ CycleSent(c) /\ ~CycleSent(c)' /\ ~WatchSent(c) /\ ~WatchSent(c)'
      /\ OrderId(c) = id /\ OrderId(c)' = id
      /\ Level(c) = cyc.n /\ Level(c)' = cyc.n
  BY <1>1, <1>2, <1>3 DEF CycleSent, WatchSent, OrderId, Level
<1>5. ViewKept(c)
  <2>1. cyc.answer.odno # NoOdno
    BY <1>1 DEF CustodyInv, CycleLocals
  <2>2. \A t \in Stops : t <= t
    BY ConstantsAre DEF Stops
  <2> QED BY <1>1, <1>3, <1>4, <2>1, <2>2 DEF ViewKept, StopNumber, AtLevel
<1>6. Settled(c) => Settled(c)'
  BY <1>1, <1>2, <1>4 DEF Settled, OutcomeTaken
<1>7. ~Exiting(c)
  BY <1>1 DEF Exiting
<1> QED BY <1>1, <1>5, <1>6, <1>7 DEF StockKept, FundsKept

\* Its level is raised in the book last.
LEMMA RaiseLeaves ==
  ASSUME CustodyInv, RaiseBookStop, watch' = watch, NEW c \in Codes, c = cyc.code
  PROVE  StockKept(c)
<1>1. /\ cyc.pc = "raise" /\ CycleBack("exits", c) /\ c \in Codes
      /\ pos'[c].stop = cyc.n /\ pos'[c].open = pos[c].open
      /\ pos'[c].qty = pos[c].qty /\ pos'[c].active = pos[c].active
      /\ UNCHANGED <<orders, outcomes>>
  BY RaiseBookStopIs
<1>2. cyc'.pc = "exits" /\ watch.pc = "idle" /\ watch'.pc = "idle"
  BY <1>1 DEF CycleBack, CustodyInv, CycleTyped
<1>3. /\ ~CycleSent(c) /\ ~CycleSent(c)' /\ ~WatchSent(c) /\ ~WatchSent(c)'
      /\ OrderId(c) = pos[c].active /\ OrderId(c)' = pos[c].active
      /\ Level(c) = cyc.n /\ Level(c)' = cyc.n
  <2>1. ~CycleSent(c) /\ ~CycleSent(c)' /\ ~WatchSent(c) /\ ~WatchSent(c)'
    BY <1>1, <1>2 DEF CycleSent, WatchSent
  <2>2. CycleFree(c)' /\ WatchFree(c)'
    BY <1>2 DEF CycleFree, WatchFree, WatchSent
  <2>3. cyc.pc = "raise" /\ cyc.code = c
    BY <1>1
  <2>4. OrderId(c) = pos[c].active /\ Level(c) = cyc.n
    BY <1>2, <2>3 DEF OrderId, Level
  <2>5. OrderId(c)' = pos'[c].active /\ Level(c)' = pos'[c].stop
    BY <2>2, FreeViewNext
  <2>6. pos'[c].active = pos[c].active /\ pos'[c].stop = cyc.n
    BY <1>1
  <2> QED BY <2>1, <2>4, <2>5, <2>6
<1>4. ViewKept(c)
  BY <1>1, <1>3 DEF ViewKept, StopNumber, AtLevel
<1>5. Settled(c) => Settled(c)'
  BY <1>1, <1>2, <1>3 DEF Settled, OutcomeTaken
<1>6. ~Exiting(c)
  BY <1>1 DEF Exiting
<1> QED BY <1>1, <1>4, <1>5, <1>6 DEF StockKept, FundsKept

\* So it is with the first stop of a position: recorded ...
LEMMA RecordLeaves ==
  ASSUME CustodyInv, RecordStop, watch' = watch, NEW c \in Codes, c = cyc.code
  PROVE  StockKept(c)
<1> DEFINE id == Len(orders) + 1
<1>1. /\ cyc.pc = "stopSent" /\ CycleTo("link", c, cyc.n, id, cyc.answer)
      /\ id \notin DOMAIN orders
      /\ orders'[id] = [code |-> c, purpose |-> "stop", pid |-> day, qty |-> cyc.n,
                        trig |-> 1, filled |-> cyc.answer.filled, odno |-> cyc.answer.odno,
                        status |-> cyc.answer.status]
      /\ UNCHANGED <<pos, outcomes>>
  BY RecordStopIs
<1>2. /\ cyc'.pc = "link" /\ cyc'.code = c /\ cyc'.id = id
      /\ watch.pc = "idle" /\ watch'.pc = "idle"
  BY <1>1 DEF CycleTo, CustodyInv, CycleTyped
<1>3. orders'[id].trig = 1 /\ orders'[id].odno = cyc.answer.odno
  BY <1>1
<1>4. id # 0
  BY DEF CustodyInv, BookTypes
<1>5. pos[c].active = 0 /\ pos[c].stop = 1 /\ pos' = pos
  BY <1>1 DEF CustodyInv, CycleReads, EntryPhase
<1> HIDE DEF id
<1>6. /\ CycleSent(c) /\ ~CycleSent(c)' /\ ~WatchSent(c) /\ ~WatchSent(c)'
      /\ OrderId(c) = 0 /\ OrderId(c)' = id
      /\ Level(c) = 1 /\ Level(c)' = 1
  BY <1>1, <1>2, <1>4, <1>5 DEF CycleSent, WatchSent, OrderId, Level
<1>7. ViewKept(c)
  BY <1>3, <1>4, <1>6 DEF ViewKept, StopNumber, AtLevel
<1>8. ~Settled(c)
  <2>1. 0 \notin DOMAIN orders
    BY DEF CustodyInv, BookTypes
  <2> QED BY <1>6, <2>1 DEF Settled, OutcomeTaken, CustodyInv, BookTypes
<1>9. ~Exiting(c)
  BY <1>1 DEF Exiting
<1> QED BY <1>5, <1>7, <1>8, <1>9 DEF StockKept, FundsKept

\* ... and then linked.
LEMMA LinkLeaves ==
  ASSUME CustodyInv, LinkStop, watch' = watch, NEW c \in Codes, c = cyc.code
  PROVE  StockKept(c)
<1> DEFINE id == cyc.id
<1>1. /\ cyc.pc = "link" /\ CycleBack("entries", c) /\ StopOf(c, id)
      /\ pos'[c].stop = pos[c].stop /\ pos'[c].open = pos[c].open
      /\ pos'[c].qty = pos[c].qty /\ pos'[c].active = id
      /\ UNCHANGED <<orders, outcomes>>
  BY LinkStopIs
<1>2. cyc'.pc = "entries" /\ watch.pc = "idle" /\ watch'.pc = "idle"
  BY <1>1 DEF CycleBack, CustodyInv, CycleTyped
<1>3. id # 0
  BY <1>1 DEF StopOf, CustodyInv, BookTypes
<1> HIDE DEF id
<1>4. /\ ~CycleSent(c) /\ ~CycleSent(c)' /\ ~WatchSent(c) /\ ~WatchSent(c)'
      /\ OrderId(c) = id /\ OrderId(c)' = id
      /\ Level(c) = pos[c].stop /\ Level(c)' = pos[c].stop
  <2>1. ~CycleSent(c) /\ ~CycleSent(c)' /\ ~WatchSent(c) /\ ~WatchSent(c)'
    BY <1>1, <1>2 DEF CycleSent, WatchSent
  <2>2. CycleFree(c)' /\ WatchFree(c)'
    BY <1>2 DEF CycleFree, WatchFree, WatchSent
  <2>3. cyc.pc = "link" /\ cyc.code = c /\ cyc.id = id
    BY <1>1 DEF id
  <2>4. OrderId(c) = id /\ Level(c) = pos[c].stop
    BY <1>2, <2>3 DEF OrderId, Level
  <2>5. OrderId(c)' = pos'[c].active /\ Level(c)' = pos'[c].stop
    BY <2>2, FreeViewNext
  <2>6. pos'[c].active = id /\ pos'[c].stop = pos[c].stop
    BY <1>1
  <2> QED BY <2>1, <2>4, <2>5, <2>6
<1>5. ViewKept(c)
  BY <1>1, <1>3, <1>4 DEF ViewKept, StopNumber, AtLevel
<1>6. Settled(c) => Settled(c)'
  BY <1>1, <1>2, <1>4 DEF Settled, OutcomeTaken
<1>7. ~Exiting(c)
  BY <1>1 DEF Exiting
<1> QED BY <1>1, <1>5, <1>6, <1>7 DEF StockKept, FundsKept

\* The commits of the cycle.
LEMMA CycleBooksLeave ==
  ASSUME CustodyInv, StopsKept, CycleBooks, NEW c \in Codes,
         UNCHANGED <<kisVars, clock, cycled, safeStop, watchVars, crashes>>
  PROVE  StockKept(c)
<1>0. CycleTyped /\ WatchTyped /\ CycleCovers
  BY DEF CustodyInv, StopsKept
<1>1. watch' = watch /\ watch.pc = "idle"
  BY <1>0, Apart DEF watchVars
<1>2. ASSUME c # cyc.code, pos'[c] = pos[c], LinkKept(c), outcomes \subseteq outcomes',
             cyc'.code \in {cyc.code, NoCode}, cyc'.pc \in {"exits", "entries"} \/ cyc'.code = cyc.code
      PROVE  StockKept(c)
  <2>1. CycleFree(c) /\ CycleFree(c)' /\ ~Exiting(c)
    BY <1>2 DEF CycleFree, Exiting
  <2> QED BY <1>1, <1>2, <2>1, CycleElsewhere
<1>3. CASE RecordRevision
  <2>1. CASE c = cyc.code
    BY <1>1, <1>3, <2>1, RevisionLeaves
  <2>2. CASE c # cyc.code
    <3>1. /\ cyc'.code = cyc.code /\ Rewritten(cyc.id) /\ StopOf(cyc.code, cyc.id)
          /\ pos' = pos /\ outcomes' = outcomes
      BY <1>3, RecordRevisionIs DEF CycleTo
    <3>2. cyc.id \in DOMAIN orders /\ orders[cyc.id].code # c
      BY <2>2, <3>1 DEF StopOf
    <3>3. LinkKept(c)
      BY <3>1, <3>2, LinkStays
    <3> QED BY <1>2, <2>2, <3>1, <3>3
  <2> QED BY <2>1, <2>2
<1>4. CASE RaiseBookStop
  <2>1. CASE c = cyc.code
    BY <1>1, <1>4, <2>1, RaiseLeaves
  <2>2. CASE c # cyc.code
    <3>1. /\ cyc'.pc = "exits" /\ cyc'.code = NoCode /\ Changed(cyc.code)
          /\ orders' = orders /\ outcomes' = outcomes
      BY <1>4, RaiseBookStopIs DEF CycleBack
    <3>2. LinkKept(c) /\ pos'[c] = pos[c]
      BY <2>2, <3>1, LinkStays DEF Changed
    <3> QED BY <1>2, <2>2, <3>1, <3>2
  <2> QED BY <2>1, <2>2
<1>5. CASE RecordExit
  <2>1. /\ cyc.pc = "exitSent" /\ pos' = pos /\ outcomes' = outcomes
        /\ \A i \in DOMAIN orders : orders'[i] = orders[i]
        /\ \/ cyc.n = 0 /\ cyc'.pc = "exits"
           \/ cyc'.pc = "exitOutcome" /\ cyc'.code = cyc.code /\ cyc'.n = cyc.n
    BY <1>5, RecordExitIs DEF CycleBack, CycleTo
  <2>2. CycleFree(c) /\ CycleFree(c)' /\ (Exiting(c) => Exiting(c)')
    BY <2>1 DEF CycleFree, Exiting
  <2>3. LinkKept(c)
    BY <2>1, LinkStays
  <2> QED BY <1>1, <2>1, <2>2, <2>3, CycleElsewhere
<1>6. CASE RecordExitOutcome
  <2>1. /\ cyc.pc = "exitOutcome" /\ UNCHANGED <<pos, orders>> /\ outcomes \subseteq outcomes'
        /\ cyc'.pc = "exitClose" /\ cyc'.code = cyc.code /\ cyc'.n = cyc.n
    BY <1>6, RecordExitOutcomeIs DEF CycleTo
  <2>2. CycleFree(c) /\ CycleFree(c)' /\ (Exiting(c) => Exiting(c)')
    BY <2>1 DEF CycleFree, Exiting
  <2>3. LinkKept(c)
    BY <2>1, LinkStays
  <2> QED BY <1>1, <2>1, <2>2, <2>3, CycleElsewhere
<1>7. CASE SettleExit
  <2>1. /\ cyc'.pc = "exits" /\ cyc'.code = NoCode /\ Changed(cyc.code)
        /\ orders' = orders /\ outcomes' = outcomes /\ pos'[cyc.code].open = FALSE
    BY <1>7, SettleExitIs DEF CycleBack
  <2>2. CASE c = cyc.code
    BY <2>1, <2>2 DEF StockKept
  <2>3. CASE c # cyc.code
    <3>1. LinkKept(c) /\ pos'[c] = pos[c]
      BY <2>1, <2>3, LinkStays DEF Changed
    <3> QED BY <1>2, <2>1, <2>3, <3>1
  <2> QED BY <2>2, <2>3
<1>8. CASE RecordEntry
  <2>1. /\ cyc.pc = "entrySent" /\ pos' = pos /\ outcomes' = outcomes
        /\ \A i \in DOMAIN orders : orders'[i] = orders[i]
        /\ cyc'.pc \in {"entries", "upsert"}
    BY <1>8, RecordEntryIs DEF CycleBack, CycleTo
  <2>2. CycleFree(c) /\ CycleFree(c)' /\ ~Exiting(c)
    BY <2>1 DEF CycleFree, Exiting
  <2>3. LinkKept(c)
    BY <2>1, LinkStays
  <2> QED BY <1>1, <2>1, <2>2, <2>3, CycleElsewhere
<1>9. CASE BookEntry
  <2>1. /\ cyc.pc = "upsert" /\ cyc.code \in cyc.todo
        /\ cyc'.pc = "stop" /\ cyc'.code = cyc.code /\ Changed(cyc.code)
        /\ orders' = orders /\ outcomes' = outcomes
    BY <1>9, BookEntryIs DEF CycleTo
  <2>2. CASE c = cyc.code
    <3>1. NoLive(c) /\ ~pos[c].open
      BY <1>0, <1>9, <2>1, <2>2, BookEntryIs DEF CycleCovers, EntryPhase
    <3> QED BY <3>1 DEF StockKept
  <2>3. CASE c # cyc.code
    <3>1. LinkKept(c) /\ pos'[c] = pos[c]
      BY <2>1, <2>3, LinkStays DEF Changed
    <3> QED BY <1>2, <2>1, <2>3, <3>1
  <2> QED BY <2>2, <2>3
<1>10. CASE RecordStop
  <2>1. CASE c = cyc.code
    BY <1>1, <1>10, <2>1, RecordLeaves
  <2>2. CASE c # cyc.code
    <3>1. /\ cyc'.code = cyc.code /\ pos' = pos /\ outcomes' = outcomes
          /\ \A i \in DOMAIN orders : orders'[i] = orders[i]
      BY <1>10, RecordStopIs DEF CycleTo
    <3>2. LinkKept(c)
      BY <3>1, LinkStays
    <3> QED BY <1>2, <2>2, <3>1, <3>2
  <2> QED BY <2>1, <2>2
<1>11. CASE LinkStop
  <2>1. CASE c = cyc.code
    BY <1>1, <1>11, <2>1, LinkLeaves
  <2>2. CASE c # cyc.code
    <3>1. /\ cyc'.pc = "entries" /\ cyc'.code = NoCode /\ Changed(cyc.code)
          /\ orders' = orders /\ outcomes' = outcomes
      BY <1>11, LinkStopIs DEF CycleBack
    <3>2. LinkKept(c) /\ pos'[c] = pos[c]
      BY <2>2, <3>1, LinkStays DEF Changed
    <3> QED BY <1>2, <2>2, <3>1, <3>2
  <2> QED BY <2>1, <2>2
<1> QED BY <1>3, <1>4, <1>5, <1>6, <1>7, <1>8, <1>9, <1>10, <1>11 DEF CycleBooks

\* The calls of the watch.
LEMMA WatchCallsLeave ==
  ASSUME CustodyInv, StopsKept, WatchCalls, NEW c \in Codes,
         UNCHANGED <<clock, bookVars, cycleVars, swept, crashes>>
  PROVE  StockKept(c)
<1>0. CycleTyped /\ WatchTyped
  BY DEF CustodyInv
<1>1. /\ pos' = pos /\ outcomes' = outcomes /\ LinkKept(c)
      /\ cyc' = cyc /\ cyc.pc = "idle"
  BY <1>0, LinkStays, Apart DEF bookVars, cycleVars
<1>2. ASSUME NEW d \in Codes, RegisterMissing(d) PROVE StockKept(c)
  <2>1. CASE c = d
    BY <1>2, <2>1, MissingMoves DEF StockKept
  <2>2. CASE c # d
    <3>1. watch.pc = "register" /\ watch'.code = d /\ watch'.pc = "registered"
      BY <1>2, RegisterMissingIs DEF WatchTo
    <3>2. WatchFree(c) /\ WatchFree(c)'
      BY <2>2, <3>1 DEF WatchFree, WatchSent
    <3> QED BY <1>1, <3>1, <3>2, WatchElsewhere
  <2> QED BY <2>1, <2>2
<1>3. ASSUME NEW d \in Codes, ReviseStale(d) PROVE StockKept(c)
  <2>1. /\ watch.pc = "stale"
        /\ \/ watch'.pc = "stale"
           \/ Renewed(d) /\ watch'.pc = "revised" /\ watch'.code = d
    BY <1>3, StaleMoves DEF WatchLoop, WatchTo
  <2>2. CASE c = d /\ Renewed(d)
    BY <2>2 DEF StockKept
  <2>3. CASE watch'.pc = "stale" \/ (c # d /\ watch'.pc = "revised" /\ watch'.code = d)
    <3>1. WatchFree(c) /\ WatchFree(c)'
      BY <2>1, <2>3 DEF WatchFree, WatchSent
    <3> QED BY <1>1, <2>1, <2>3, <3>1, WatchElsewhere
  <2> QED BY <2>1, <2>2, <2>3
<1> QED BY <1>2, <1>3 DEF WatchCalls

\* What the watch has counted of a stop it has sold.
LEMMA SoldIs ==
  ASSUME CustodyInv, StopsKept, watch.pc = "settleClose", NEW c \in Codes, c = watch.code,
         NEW i \in DOMAIN ledger, ledger[i].live, ledger[i].code = c
  PROVE  watch.n <= ledger[i].filled
<1>0. CycleTyped /\ WatchTyped /\ WatchReads /\ WatchLocals /\ AccountTypes /\ FillsKept
      /\ LiveKept /\ SnapshotKept
  BY DEF CustodyInv, StopsKept
<1>1. /\ cyc.pc = "idle" /\ c \in watch.todo /\ c \in DOMAIN watch.rows
  BY <1>0, WatchHasAtHand DEF WatchAtHand
<1>2. pos[c].open /\ watch.known /\ watch.rows[c].active # 0
  BY <1>0, <1>1 DEF WatchLocals, SettlePhase
<1>3. pos[c].active = watch.rows[c].active
  BY <1>0, <1>1 DEF WatchReads, RegisterPhase, StalePhase
<1>4. CycleFree(c) /\ WatchFree(c)
  BY <1>1 DEF CycleFree, WatchFree, WatchSent
<1>5. orders[pos[c].active].odno = <<day, i>>
  BY <1>0, <1>2, <1>4, LiveIs
<1>6. watch.rows[c].odno = <<day, i>>
  BY <1>0, <1>1, <1>2, <1>3, <1>5 DEF SnapshotKept, SettlePhase
<1>7. watch.n <= watch.led[watch.rows[c].odno[2]].filled /\ watch.led[i].filled <= ledger[i].filled
      /\ i \in DOMAIN watch.led
  BY <1>0, <1>2 DEF SnapshotKept, SettlePhase
<1>8. watch.n <= watch.led[i].filled
  BY <1>6, <1>7
<1>9. watch.n \in Nat /\ watch.led[i].filled \in Nat /\ ledger[i].filled \in Nat
  <2>1. watch.led \in Seq(LedgerRows) /\ watch.n \in Nat
    BY <1>0 DEF WatchTyped, WatchStates
  <2>2. watch.led[i] \in LedgerRows
    BY <1>7, <2>1
  <2>3. watch.led[i].filled \in Nat
    BY <2>2 DEF LedgerRows
  <2> QED BY <1>0, <2>1, <2>3, RowOf
<1> QED BY <1>7, <1>8, <1>9

\* A position is only closed when nothing of its stop is left.
LEMMA SettledWhole ==
  ASSUME CustodyInv, StopsKept, watch.pc = "settleClose", NEW c \in Codes, c = watch.code,
         watch.n >= pos[c].qty
  PROVE  NoLive(c)
<1> SUFFICES ASSUME NEW i \in DOMAIN ledger, ledger[i].live, ledger[i].code = c
             PROVE  FALSE
  BY DEF NoLive
<1>1. LiveKept /\ RoomKept /\ WatchLocals /\ WatchTyped /\ AccountTypes /\ FillsKept
      /\ BookTypes /\ PositionsKept
  BY DEF CustodyInv, StopsKept
<1>2. pos[c].open /\ ~Settled(c)
  BY <1>1 DEF WatchLocals, Settled
<1>3. Remaining(ledger[i]) + ledger[i].filled <= pos[c].qty /\ Remaining(ledger[i]) > 0
  BY <1>1, <1>2, RoomIs DEF LiveKept
<1>4. watch.n <= ledger[i].filled
  BY SoldIs
<1>5. watch.n \in Nat /\ ledger[i].filled \in Nat /\ Remaining(ledger[i]) \in Nat /\ pos[c].qty \in Nat
  BY <1>1, RowOf, PositionIs DEF WatchTyped, WatchStates
<1> QED BY <1>3, <1>4, <1>5

\* The commits of the watch while it settles.
LEMMA SettleLeaves ==
  ASSUME CustodyInv, StopsKept, NEW c \in Codes, cyc' = cyc,
         (\E d \in Codes : MarkFilled(d)) \/ RecordStopHit \/ SettlePosition
  PROVE  StockKept(c)
<1>0. CycleTyped /\ WatchTyped /\ WatchReads /\ WatchLocals /\ BookTypes /\ PositionsKept
      /\ SnapshotKept
  BY DEF CustodyInv, StopsKept
<1>1. cyc.pc = "idle"
  BY <1>0, Apart DEF WatchBooks
<1>2. ASSUME NEW d \in Codes, MarkFilled(d) PROVE StockKept(c)
  <2>1. /\ watch.pc = "settle" /\ watch'.pc \in {"settle", "settleOutcome"}
        /\ pos' = pos /\ outcomes' = outcomes
        /\ \/ orders' = orders
           \/ \E id \in DOMAIN orders : /\ Rewritten(id) /\ orders'[id].odno = orders[id].odno
                                        /\ orders'[id].trig = orders[id].trig
    BY <1>2, MarkFilledIs DEF WatchTo, WatchLoop, StopOf
  <2>2. WatchFree(c) /\ WatchFree(c)' /\ watch'.pc # "settleClose"
    BY <2>1 DEF WatchFree, WatchSent
  <2>3. LinkKept(c)
    BY <2>1, LinkStays
  <2> QED BY <1>1, <2>1, <2>2, <2>3, WatchElsewhere
<1>3. CASE RecordStopHit
  <2>1. /\ watch.pc = "settleOutcome" /\ UNCHANGED <<pos, orders>> /\ outcomes \subseteq outcomes'
        /\ \/ watch'.pc = "aborted"
           \/ ~OutcomeTaken(watch.id) /\ watch'.pc = "settleClose" /\ watch'.code = watch.code
    BY <1>3, RecordStopHitIs DEF WatchTo
  <2>2. WatchFree(c) /\ WatchFree(c)' /\ CycleFree(c)
    BY <1>1, <2>1 DEF WatchFree, WatchSent, CycleFree
  <2>3. LinkKept(c)
    BY <2>1, LinkStays
  <2>4. ASSUME watch'.pc = "settleClose", watch'.code = c PROVE ~Settled(c)
    <3>1. watch.code = c /\ ~OutcomeTaken(watch.id)
      BY <2>1, <2>4
    <3>2. c \in DOMAIN watch.rows /\ watch.id = watch.rows[c].active
      BY <1>0, <2>1, <3>1 DEF WatchTyped, WatchAtHand, WatchLocals
    <3>3. pos[c].active = watch.id
      BY <1>0, <2>1, <3>2 DEF WatchReads, RegisterPhase, StalePhase
    <3> QED BY <2>2, <3>1, <3>3, FreeView DEF Settled
  <2> QED BY <1>1, <2>1, <2>2, <2>3, <2>4, WatchElsewhere
<1>4. CASE SettlePosition
  <2>1. /\ watch.pc = "settleClose" /\ watch.code \in Codes /\ Changed(watch.code)
        /\ watch'.pc = "settle"
        /\ pos'[watch.code].stop = pos[watch.code].stop
        /\ pos'[watch.code].active = pos[watch.code].active
        /\ \/ watch.n >= pos[watch.code].qty /\ ~pos'[watch.code].open
           \/ pos[watch.code].open /\ pos'[watch.code].qty = pos[watch.code].qty - watch.n
        /\ UNCHANGED <<orders, outcomes>>
    BY <1>4, SettlePositionIs DEF WatchLoop
  <2>2. LinkKept(c) /\ WatchFree(c) /\ WatchFree(c)' /\ CycleFree(c) /\ CycleFree(c)' /\ ~Exiting(c)
    BY <1>1, <2>1, LinkStays DEF WatchFree, WatchSent, CycleFree, Exiting
  <2>3. CASE c # watch.code
    <3>1. pos'[c] = pos[c]
      BY <2>1, <2>3 DEF Changed
    <3> QED BY <1>1, <2>1, <2>2, <3>1, WatchElsewhere
  <2>4. CASE c = watch.code /\ ~pos'[c].open
    BY <2>4 DEF StockKept
  <2>5. CASE c = watch.code /\ pos'[c].open
    <3>1. /\ pos'[c].stop = pos[c].stop /\ pos'[c].active = pos[c].active
          /\ pos[c].open /\ pos'[c].qty = pos[c].qty - watch.n
      BY <2>1, <2>5
    <3>2. ViewKept(c)
      BY <2>2, <3>1, FreeView, FreeViewNext DEF ViewKept, LinkKept
    <3>3. ~Settled(c)
      BY <2>1, <2>5 DEF Settled
    <3>4. Settled(c)'
      <4>1. OutcomeTaken(watch.id)
        BY <1>0, <2>1 DEF SnapshotKept, SettlePhase
      <4>2. c \in DOMAIN watch.rows /\ watch.id = watch.rows[c].active
        BY <1>0, <2>1, <2>5 DEF WatchTyped, WatchAtHand, WatchLocals
      <4>3. pos[c].active = watch.id
        BY <1>0, <2>1, <4>2 DEF WatchReads, RegisterPhase, StalePhase
      <4>4. PICK o \in outcomes : o.id = pos'[c].active
        BY <3>1, <4>1, <4>3 DEF OutcomeTaken
      <4>5. o \in outcomes' /\ o.id = OrderId(c)' /\ ~WatchSent(c)'
        BY <2>1, <2>2, <4>4, FreeViewNext
      <4> QED BY <2>1, <4>5 DEF Settled, OutcomeTaken
    <3>5. \A i \in DOMAIN ledger : ledger[i].live /\ ledger[i].code = c =>
            pos'[c].qty >= pos[c].qty - ledger[i].filled
      <4> SUFFICES ASSUME NEW i \in DOMAIN ledger, ledger[i].live, ledger[i].code = c
                   PROVE  pos'[c].qty >= pos[c].qty - ledger[i].filled
        OBVIOUS
      <4>1. watch.n <= ledger[i].filled
        BY <2>1, <2>5, SoldIs
      <4>2. watch.n \in Nat /\ ledger[i].filled \in Nat /\ pos[c].qty \in Nat
        BY <1>0, RowOf, PositionIs DEF WatchTyped, WatchStates, CustodyInv
      <4> QED BY <3>1, <4>1, <4>2
    <3> QED BY <2>2, <3>1, <3>2, <3>3, <3>4, <3>5 DEF StockKept, FundsKept
  <2> QED BY <2>3, <2>4, <2>5
<1> QED BY <1>2, <1>3, <1>4

\* The stop the watch has placed has the number of its answer, then of its order ...
LEMMA RegisteredLeaves ==
  ASSUME CustodyInv, RecordRegistered, cyc' = cyc, watch.answer # Rejected,
         NEW c \in Codes, c = watch.code
  PROVE  StockKept(c)
<1> DEFINE id == Len(orders) + 1
<1>1. /\ watch.pc = "registered" /\ c \in watch.todo /\ c \in DOMAIN watch.rows
      /\ UNCHANGED <<pos, outcomes>>
      /\ id \in Nat \ {0}
      /\ watch'.pc \in {"link", "expire"} /\ watch'.code = c /\ watch'.id = id
      /\ orders'[id] = [code |-> c, purpose |-> "stop", pid |-> day, qty |-> watch.rows[c].qty,
                        trig |-> watch.rows[c].stop, filled |-> watch.answer.filled,
                        odno |-> watch.answer.odno, status |-> watch.answer.status]
  BY RecordRegisteredIs DEF WatchTo
<1>2. orders'[id].trig = watch.rows[c].stop /\ orders'[id].odno = watch.answer.odno
  BY <1>1
<1>3. id # 0 /\ cyc.pc = "idle" /\ cyc'.pc = "idle"
  BY <1>1 DEF CustodyInv, WatchTyped
<1>4. pos[c].stop = watch.rows[c].stop /\ pos' = pos
  BY <1>1 DEF CustodyInv, WatchReads
<1> HIDE DEF id
<1>5. WatchSent(c) /\ ~WatchSent(c)' /\ ~CycleSent(c) /\ ~CycleSent(c)'
  BY <1>1, <1>3 DEF WatchSent, CycleSent
<1>6. OrderId(c)' = id
  BY <1>1, <1>3 DEF OrderId
<1>7. Level(c) = watch.rows[c].stop /\ Level(c)' = watch.rows[c].stop
  BY <1>3, <1>4 DEF Level
<1>8. ViewKept(c)
  <2>1. \A t \in Stops : t <= t
    BY ConstantsAre DEF Stops
  <2> QED BY <1>2, <1>3, <1>5, <1>6, <1>7, <2>1 DEF ViewKept, StopNumber, AtLevel
<1>9. ~Settled(c) /\ ~Exiting(c)
  BY <1>3, <1>5 DEF Settled, Exiting
<1> QED BY <1>4, <1>8, <1>9 DEF StockKept, FundsKept

\* ... while the old one expires ...
LEMMA ExpiryLeaves ==
  ASSUME CustodyInv, ExpireOldStop, cyc' = cyc, NEW c \in Codes, c = watch.code
  PROVE  StockKept(c)
<1> DEFINE id == watch.id
<1>1. /\ watch.pc = "expire" /\ watch'.pc = "link" /\ watch'.code = c /\ watch'.id = id
      /\ StopOf(c, watch.rows[c].active) /\ Rewritten(watch.rows[c].active)
      /\ orders'[watch.rows[c].active].trig = orders[watch.rows[c].active].trig
      /\ orders'[watch.rows[c].active].odno = orders[watch.rows[c].active].odno
      /\ UNCHANGED <<pos, outcomes>>
  BY ExpireOldStopIs DEF WatchTo
<1>2. cyc.pc = "idle" /\ cyc'.pc = "idle"
  BY <1>1 DEF CustodyInv, WatchTyped
<1>3. StopOf(c, id)
  BY <1>1 DEF CustodyInv, WatchLocals
<1>4. id \in DOMAIN orders /\ id # 0
  BY <1>3 DEF StopOf, CustodyInv, BookTypes
<1>5. orders'[id].trig = orders[id].trig /\ orders'[id].odno = orders[id].odno
  BY <1>1, <1>4 DEF Rewritten
<1>6. ~WatchSent(c) /\ ~WatchSent(c)' /\ ~CycleSent(c) /\ ~CycleSent(c)'
  BY <1>1, <1>2 DEF WatchSent, CycleSent
<1>7. OrderId(c) = id /\ OrderId(c)' = id
  BY <1>1, <1>2 DEF OrderId
<1>8. Level(c) = pos[c].stop /\ Level(c)' = pos[c].stop
  BY <1>1, <1>2 DEF Level
<1> HIDE DEF id
<1>9. ViewKept(c)
  BY <1>4, <1>5, <1>6, <1>7, <1>8 DEF ViewKept, StopNumber, AtLevel
<1>10. Settled(c) => Settled(c)'
  BY <1>1, <1>6, <1>7 DEF Settled, OutcomeTaken
<1>11. ~Exiting(c)
  BY <1>2 DEF Exiting
<1> QED BY <1>1, <1>9, <1>10, <1>11 DEF StockKept, FundsKept

\* ... and at last of its position.
LEMMA RegisteredLinkLeaves ==
  ASSUME CustodyInv, LinkRegistered, cyc' = cyc, NEW c \in Codes, c = watch.code
  PROVE  StockKept(c)
<1> DEFINE id == watch.id
<1>1. /\ watch.pc = "link" /\ watch'.pc = "register" /\ StopOf(c, id)
      /\ pos'[c].stop = pos[c].stop /\ pos'[c].open = pos[c].open
      /\ pos'[c].qty = pos[c].qty /\ pos'[c].active = id
      /\ UNCHANGED <<orders, outcomes>>
  BY LinkRegisteredIs DEF WatchLoop
<1>2. cyc.pc = "idle" /\ cyc'.pc = "idle"
  BY <1>1 DEF CustodyInv, WatchTyped
<1>3. id # 0
  BY <1>1 DEF StopOf, CustodyInv, BookTypes
<1>4. ~WatchSent(c) /\ ~WatchSent(c)' /\ ~CycleSent(c) /\ ~CycleSent(c)'
  BY <1>1, <1>2 DEF WatchSent, CycleSent
<1>5. OrderId(c) = id
  BY <1>1, <1>2 DEF OrderId
<1>6. CycleFree(c)' /\ WatchFree(c)'
  BY <1>1, <1>2 DEF CycleFree, WatchFree, WatchSent
<1>7. OrderId(c)' = pos'[c].active /\ Level(c)' = pos'[c].stop
  BY <1>6, FreeViewNext
<1>8. Level(c) = pos[c].stop
  BY <1>2 DEF Level
<1> HIDE DEF id
<1>9. OrderId(c)' = id /\ Level(c)' = pos[c].stop
  BY <1>1, <1>7
<1>10. ViewKept(c)
  BY <1>1, <1>3, <1>4, <1>5, <1>8, <1>9 DEF ViewKept, StopNumber, AtLevel
<1>11. Settled(c) => Settled(c)'
  BY <1>1, <1>4, <1>5, <1>9 DEF Settled, OutcomeTaken
<1>12. ~Exiting(c)
  BY <1>2 DEF Exiting
<1> QED BY <1>1, <1>10, <1>11, <1>12 DEF StockKept, FundsKept

\* A stop the watch has revised has the number of its answer, then of its order.
LEMMA StaleRevisionLeaves ==
  ASSUME CustodyInv, StopsKept, RecordStaleRevision, cyc' = cyc, NEW c \in Codes, c = watch.code
  PROVE  StockKept(c)
<1> DEFINE id == watch.rows[c].active
<1>1. /\ watch.pc = "revised" /\ watch'.pc = "stale" /\ c \in DOMAIN watch.rows
      /\ StopOf(c, id) /\ id # 0
      /\ orders'[id].trig = watch.rows[c].stop
      /\ orders'[id].odno = IF watch.answer.odno = NoOdno THEN orders[id].odno ELSE watch.answer.odno
      /\ UNCHANGED <<pos, outcomes>>
  BY RecordStaleRevisionIs DEF WatchLoop
<1>2. watch.answer.odno # NoOdno /\ pos[c].active = id
  BY <1>1 DEF StopsKept, WatchCoversNew, RowsLinked
<1>3. pos[c].stop = watch.rows[c].stop /\ pos' = pos
  BY <1>1 DEF CustodyInv, WatchReads
<1>4. cyc.pc = "idle" /\ cyc'.pc = "idle"
  BY <1>1 DEF CustodyInv, WatchTyped
<1>5. WatchSent(c) /\ ~WatchSent(c)' /\ ~CycleSent(c) /\ ~CycleSent(c)'
  BY <1>1, <1>4 DEF WatchSent, CycleSent
<1> HIDE DEF id
<1>6. OrderId(c)' = id
  BY <1>1, <1>2, <1>3, <1>4 DEF OrderId
<1>7. Level(c) = watch.rows[c].stop /\ Level(c)' = watch.rows[c].stop
  BY <1>3, <1>4 DEF Level
<1>8. ViewKept(c)
  <2>1. \A t \in Stops : t <= t
    BY ConstantsAre DEF Stops
  <2> QED BY <1>1, <1>2, <1>5, <1>6, <1>7, <2>1 DEF ViewKept, StopNumber, AtLevel
<1>9. ~Settled(c) /\ ~Exiting(c)
  BY <1>4, <1>5 DEF Settled, Exiting
<1> QED BY <1>3, <1>8, <1>9 DEF StockKept, FundsKept

\* The commits of the watch while it registers.
LEMMA RegisterLeaves ==
  ASSUME CustodyInv, StopsKept, NEW c \in Codes, cyc' = cyc,
         RecordRegistered \/ ExpireOldStop \/ LinkRegistered \/ RecordStaleRevision
  PROVE  StockKept(c)
<1>0. CycleTyped /\ WatchTyped /\ BookTypes
  BY DEF CustodyInv
<1>1. cyc.pc = "idle"
  BY <1>0, Apart DEF WatchBooks
<1>2. CASE RecordRegistered
  <2>1. CASE c = watch.code /\ watch.answer # Rejected
    BY <1>2, <2>1, RegisteredLeaves
  <2>2. CASE ~(c = watch.code /\ watch.answer # Rejected)
    <3>1. /\ watch.pc = "registered" /\ UNCHANGED <<pos, outcomes>>
          /\ orders' = orders \/ \A i \in DOMAIN orders : orders'[i] = orders[i]
          /\ \/ watch'.pc = "register"
             \/ /\ watch'.pc \in {"link", "expire"} /\ watch'.code = watch.code
                /\ watch.answer # Rejected
      BY <1>2, RecordRegisteredIs DEF WatchTo, WatchLoop
    <3>2. WatchFree(c) /\ WatchFree(c)' /\ watch'.pc # "settleClose"
      BY <2>2, <3>1 DEF WatchFree, WatchSent
    <3>3. LinkKept(c)
      BY <3>1, LinkStays
    <3> QED BY <1>1, <3>1, <3>2, <3>3, WatchElsewhere
  <2> QED BY <2>1, <2>2
<1>3. CASE ExpireOldStop
  <2>1. CASE c = watch.code
    BY <1>3, <2>1, ExpiryLeaves
  <2>2. CASE c # watch.code
    <3>1. /\ watch.pc = "expire" /\ watch'.pc = "link" /\ watch'.code = watch.code
          /\ UNCHANGED <<pos, outcomes>>
          /\ \E id \in DOMAIN orders : Rewritten(id) /\ orders[id].code # c
      BY <1>3, <2>2, ExpireOldStopIs DEF WatchTo, StopOf
    <3>2. WatchFree(c) /\ WatchFree(c)' /\ watch'.pc # "settleClose"
      BY <2>2, <3>1 DEF WatchFree, WatchSent
    <3>3. LinkKept(c)
      BY <3>1, LinkStays
    <3> QED BY <1>1, <3>1, <3>2, <3>3, WatchElsewhere
  <2> QED BY <2>1, <2>2
<1>4. CASE LinkRegistered
  <2>1. CASE c = watch.code
    BY <1>4, <2>1, RegisteredLinkLeaves
  <2>2. CASE c # watch.code
    <3>1. /\ watch.pc = "link" /\ watch'.pc = "register" /\ Changed(watch.code)
          /\ UNCHANGED <<orders, outcomes>>
      BY <1>4, LinkRegisteredIs DEF WatchLoop
    <3>2. WatchFree(c) /\ WatchFree(c)' /\ watch'.pc # "settleClose"
      BY <2>2, <3>1 DEF WatchFree, WatchSent
    <3>3. LinkKept(c) /\ pos'[c] = pos[c]
      BY <2>2, <3>1, LinkStays DEF Changed
    <3> QED BY <1>1, <3>1, <3>2, <3>3, WatchElsewhere
  <2> QED BY <2>1, <2>2
<1>5. CASE RecordStaleRevision
  <2>1. CASE c = watch.code
    BY <1>5, <2>1, StaleRevisionLeaves
  <2>2. CASE c # watch.code
    <3>1. /\ watch.pc = "revised" /\ watch'.pc = "stale" /\ UNCHANGED <<pos, outcomes>>
          /\ \E id \in DOMAIN orders : Rewritten(id) /\ orders[id].code # c
      BY <1>5, <2>2, RecordStaleRevisionIs DEF WatchLoop, StopOf
    <3>2. WatchFree(c) /\ WatchFree(c)' /\ watch'.pc # "settleClose"
      BY <2>2, <3>1 DEF WatchFree, WatchSent
    <3>3. LinkKept(c)
      BY <3>1, LinkStays
    <3> QED BY <1>1, <3>1, <3>2, <3>3, WatchElsewhere
  <2> QED BY <2>1, <2>2
<1> QED BY <1>2, <1>3, <1>4, <1>5

\* Every step, while no process dies.
LEMMA StocksKeptStep ==
  ASSUME NoCrash, CustodyInv, StopsKept, [Next]_vars
  PROVE  StocksKept
<1> SUFFICES ASSUME NEW c \in Codes PROVE StockKept(c)
  BY DEF StocksKept
<1>1. CASE UNCHANGED <<bookVars, cyc, watch>>
  BY <1>1, StockStands
<1>2. CASE Others
  <2>1. CASE Release /\ UNCHANGED bookVars
    <3>1. UNCHANGED <<cyc, watch>>
      BY <2>1 DEF Release, ReleaseSafeStop, watchVars
    <3> QED BY <2>1, <3>1, StockStands
  <2>2. ~Crash
    BY DEF Crash, NoCrash
  <2>3. Release => UNCHANGED bookVars
    BY DEF Release, ReleaseSafeStop
  <2> QED BY <1>2, <2>1, <2>2, <2>3 DEF Others
<1>3. CASE CycleLooks /\ UNCHANGED <<kisVars, clock, bookVars, watchVars, crashes>>
  BY <1>3, LooksLeave
<1>4. CASE CycleCalls /\ UNCHANGED <<clock, bookVars, cycled, safeStop, watchVars, crashes>>
  BY <1>4, CallsLeave
<1>5. CASE CycleBooks /\ UNCHANGED <<kisVars, clock, cycled, safeStop, watchVars, crashes>>
  BY <1>5, CycleBooksLeave
<1>6. CASE WatchLooks /\ UNCHANGED <<kisVars, clock, bookVars, cycleVars, crashes>>
  BY <1>6, LooksLeave
<1>7. CASE WatchCalls /\ UNCHANGED <<clock, bookVars, cycleVars, swept, crashes>>
  BY <1>7, WatchCallsLeave
<1>8. CASE WatchBooks /\ UNCHANGED <<kisVars, clock, cycleVars, swept, crashes>>
  <2>1. cyc' = cyc
    BY <1>8 DEF cycleVars
  <2>2. CASE (\E d \in Codes : MarkFilled(d)) \/ RecordStopHit \/ SettlePosition
    BY <2>1, <2>2, SettleLeaves
  <2>3. CASE RecordRegistered \/ ExpireOldStop \/ LinkRegistered \/ RecordStaleRevision
    BY <2>1, <2>3, RegisterLeaves
  <2> QED BY <1>8, <2>2, <2>3 DEF WatchBooks
<1>9. CASE UNCHANGED vars
  BY <1>9, StockStands DEF vars, cycleVars, watchVars
<1> QED BY <1>1, <1>2, <1>3, <1>4, <1>5, <1>6, <1>7, <1>8, <1>9, EveryStep

-----------------------------------------------------------------------------
(* What is known of the stops, after every step.                           *)

\* A live stop that stays is still the one its position is linked to.
LEMMA KeptFits ==
  ASSUME CustodyInv, LiveKept, NEW i \in DOMAIN ledger', ledger'[i].live, KeptLive(i),
         NEW c \in Codes, c = ledger[i].code, StockKept(c), pos'[c].open
  PROVE  pos[c].open /\ FundsKept(c) /\ LiveFits(i)'
<1>1. /\ i \in DOMAIN ledger /\ ledger[i].live /\ day' = day
      /\ ledger'[i].code = c /\ ledger'[i].trig = ledger[i].trig
  BY DEF KeptLive
<1>2. ~NoLive(c)
  BY <1>1 DEF NoLive
<1>3. ~Renewed(c)
  <2> SUFFICES ASSUME NEW q \in 1 .. pos[c].qty, NEW t \in Stops, NewStop(c, q, t) PROVE FALSE
    BY DEF Renewed
  <2>1. /\ Len(ledger) + 1 \notin DOMAIN ledger
        /\ \A j \in DOMAIN ledger' \ {Len(ledger) + 1} :
             ledger'[j].live => ledger[j].code # c
    BY DEF NewStop
  <2>2. i # Len(ledger) + 1
    BY ONLY <1>1, <2>1
  <2> QED BY <1>1, <2>1, <2>2
<1>4. pos[c].open /\ ViewKept(c) /\ FundsKept(c)
  BY <1>2, <1>3 DEF StockKept, CallRefused
<1>5. StopNumber(c) = <<day, i>> /\ AtLevel(c, ledger[i].trig) /\ ledger[i].trig \in Stops
  BY <1>1, <1>4, RowOf DEF LiveKept, LiveFits, CustodyInv
<1>6. <<day, i>> # NoOdno
  BY <1>1, RowOf DEF CustodyInv
<1>7. StopNumber(c)' = <<day', i>> /\ AtLevel(c, ledger[i].trig)'
  BY <1>1, <1>4, <1>5, <1>6 DEF ViewKept
<1> QED BY <1>1, <1>4, <1>7 DEF LiveFits

\* It offers no more than there is.
LEMMA KeptRoom ==
  ASSUME CustodyInv, CustodyInv', LiveKept, RoomKept, NEW i \in DOMAIN ledger', ledger'[i].live,
         KeptLive(i), NEW c \in Codes, c = ledger[i].code, StockKept(c), pos'[c].open
  PROVE  Room(i)'
<1>1. /\ i \in DOMAIN ledger /\ ledger[i].live /\ ledger'[i].code = c
  BY DEF KeptLive
<1>2. PICK n \in 0 .. ledger[i].qty :
       /\ Remaining(ledger'[i]) = Remaining(ledger[i]) - n
       /\ ledger'[i].filled = ledger[i].filled + n
       /\ Exiting(c)' \/ held'[c] >= held[c] - n
  BY DEF KeptLive
<1>3. pos[c].open /\ FundsKept(c)
  BY KeptFits
<1>4. /\ Exiting(c) \/ Remaining(ledger[i]) <= held[c]
      /\ Remaining(ledger[i]) <= pos[c].qty
      /\ ~Settled(c) => Remaining(ledger[i]) + ledger[i].filled <= pos[c].qty
  BY <1>1, <1>3, RoomIs
<1>5. /\ n \in Nat /\ Remaining(ledger[i]) \in Nat /\ ledger[i].filled \in Nat
      /\ held[c] \in Nat /\ pos[c].qty \in Nat /\ held'[c] \in Nat /\ pos'[c].qty \in Nat
  <2>1. n \in Nat /\ Remaining(ledger[i]) \in Nat /\ ledger[i].filled \in Nat /\ held[c] \in Nat
    BY <1>1, <1>2, RowOf DEF CustodyInv
  <2>2. held'[c] \in Nat /\ pos'[c] \in Positions /\ pos[c] \in Positions
    BY DEF CustodyInv, AccountTypes, BookTypes
  <2>3. pos[c].qty \in Nat /\ pos'[c].qty \in Nat
    BY <2>2 DEF Positions
  <2> QED BY <2>1, <2>2, <2>3
<1>6. Exiting(c)' \/ Remaining(ledger'[i]) <= held'[c]
  <2>1. CASE Exiting(c)
    BY <1>3, <2>1 DEF FundsKept
  <2>2. CASE ~Exiting(c) /\ ~Exiting(c)'
    <3>1. Remaining(ledger[i]) <= held[c] /\ held'[c] >= held[c] - n
      BY <1>2, <1>4, <2>2
    <3>2. Remaining(ledger'[i]) <= held'[c]
      BY ONLY <1>2, <1>5, <3>1
    <3> QED BY <3>2
  <2> QED BY <2>1, <2>2
<1>7. Remaining(ledger'[i]) + Unsettled(i)' <= pos'[c].qty
  <2>1. Unsettled(i)' = IF Settled(c)' THEN 0 ELSE ledger'[i].filled
    BY <1>1 DEF Unsettled
  <2>2. CASE pos'[c].qty = pos[c].qty /\ (Settled(c) => Settled(c)')
    <3>1. CASE Settled(c)'
      <4>1. Unsettled(i)' = 0
        BY <2>1, <3>1
      <4> QED BY <1>2, <1>4, <1>5, <2>2, <4>1
    <3>2. CASE ~Settled(c)'
      <4>1. Unsettled(i)' = ledger'[i].filled
        BY <2>1, <3>2
      <4>2. Remaining(ledger[i]) + ledger[i].filled <= pos[c].qty
        BY <1>4, <2>2, <3>2
      <4>3. pos'[c].qty = pos[c].qty
        BY <2>2
      <4> QED BY ONLY <1>2, <1>5, <4>1, <4>2, <4>3
    <3> QED BY <3>1, <3>2
  <2>3. CASE /\ Settled(c)' /\ ~Settled(c)
             /\ \A j \in DOMAIN ledger : ledger[j].live /\ ledger[j].code = c =>
                  pos'[c].qty >= pos[c].qty - ledger[j].filled
    <3>1. Unsettled(i)' = 0
      BY <2>1, <2>3
    <3>2. Remaining(ledger[i]) + ledger[i].filled <= pos[c].qty
      BY <1>4, <2>3
    <3>3. pos'[c].qty >= pos[c].qty - ledger[i].filled
      BY <1>1, <2>3
    <3> QED BY ONLY <1>2, <1>5, <3>1, <3>2, <3>3
  <2> QED BY <1>3, <2>2, <2>3 DEF FundsKept
<1> QED BY <1>1, <1>6, <1>7 DEF Room

\* A new stop is the one its position is to be linked to, and offers what is held.
LEMMA NewFits ==
  ASSUME CustodyInv, NEW c \in Codes, NEW q \in 1 .. pos[c].qty, NEW t \in Stops,
         NewStop(c, q, t), NEW k, k = Len(ledger) + 1
  PROVE  /\ session' = "open" /\ Remaining(ledger'[k]) > 0 /\ ledger'[k].code = c
         /\ LiveFits(k)' /\ Room(k)'
<1>1. /\ session = "open" /\ UNCHANGED <<session, day, held, pos>>
      /\ q <= pos[c].qty /\ q <= held[c]
      /\ StopNumber(c)' = <<day, k>> /\ AtLevel(c, t)'
  BY DEF NewStop, StopFits
<1>2. /\ q > 0 /\ ledger'[k].code = c /\ ledger'[k].qty = q /\ ledger'[k].filled = 0
      /\ ledger'[k].trig = t
  BY DEF NewStop
<1>3. pos[c].qty \in Nat /\ q \in Nat
  BY PositionIs DEF CustodyInv
<1>4. Remaining(ledger'[k]) = q
  BY <1>2, <1>3 DEF Remaining
<1>5. LiveFits(k)'
  BY <1>1, <1>2 DEF LiveFits
<1>6. Unsettled(k)' = 0
  BY <1>2 DEF Unsettled
<1>7. Room(k)'
  BY <1>1, <1>2, <1>3, <1>4, <1>6 DEF Room
<1> QED BY <1>1, <1>2, <1>4, <1>5, <1>7

\* The live stops, after every step.
LEMMA LiveStep ==
  ASSUME CustodyInv, CustodyInv', StopsKept, AccountMoves, StocksKept
  PROVE  LiveKept' /\ RoomKept'
<1>0. LiveKept /\ RoomKept
  BY DEF StopsKept
<1>1. ASSUME NEW i \in DOMAIN ledger', ledger'[i].live, KeptLive(i)
      PROVE  /\ i \in DOMAIN ledger /\ ledger[i].live /\ ledger'[i].code = ledger[i].code
             /\ session' = "open" /\ Remaining(ledger'[i]) > 0
             /\ pos'[ledger'[i].code].open => LiveFits(i)' /\ Room(i)'
  <2>1. /\ i \in DOMAIN ledger /\ ledger[i].live /\ ledger'[i].code = ledger[i].code
        /\ session' = "open" /\ Remaining(ledger'[i]) > 0
    BY <1>0, <1>1 DEF KeptLive, LiveKept
  <2>2. ledger[i].code \in Codes
    BY <2>1, RowOf DEF CustodyInv
  <2>3. PICK c \in Codes : c = ledger[i].code
    BY <2>2
  <2>4. ASSUME pos'[c].open PROVE LiveFits(i)' /\ Room(i)'
    <3>1. StockKept(c)
      BY DEF StocksKept
    <3> QED BY <1>0, <1>1, <2>3, <2>4, <3>1, KeptFits, KeptRoom
  <2> QED BY <2>1, <2>3, <2>4
<1>2. CASE NoNewLive
  <2>1. \A i \in DOMAIN ledger' : ledger'[i].live => KeptLive(i)
    BY <1>2 DEF NoNewLive
  <2>2. ASSUME NEW i \in DOMAIN ledger', NEW j \in DOMAIN ledger', ledger'[i].live,
               ledger'[j].live, ledger'[i].code = ledger'[j].code
        PROVE  i = j
    BY <1>0, <1>1, <2>1, <2>2 DEF LiveKept
  <2> QED BY <1>1, <2>1, <2>2 DEF LiveKept, RoomKept
<1>3. ASSUME NEW c \in Codes, NEW q \in 1 .. pos[c].qty, NEW t \in Stops, NewStop(c, q, t)
      PROVE  LiveKept' /\ RoomKept'
  <2> DEFINE k == Len(ledger) + 1
  <2>1. ASSUME NEW i, i = k
        PROVE  /\ session' = "open" /\ Remaining(ledger'[i]) > 0 /\ ledger'[i].code = c
               /\ LiveFits(i)' /\ Room(i)'
    BY <1>3, <2>1, NewFits
  <2>2. \A i \in DOMAIN ledger' \ {k} : ledger'[i].live => KeptLive(i) /\ ledger[i].code # c
    BY <1>3 DEF NewStop
  <2> HIDE DEF k
  <2>3. ASSUME NEW i \in DOMAIN ledger', NEW j \in DOMAIN ledger', ledger'[i].live,
               ledger'[j].live, ledger'[i].code = ledger'[j].code
        PROVE  i = j
    <3>1. CASE i = k \/ j = k
      BY <1>1, <2>1, <2>2, <2>3, <3>1
    <3>2. CASE i # k /\ j # k
      BY <1>0, <1>1, <2>2, <2>3, <3>2 DEF LiveKept
    <3> QED BY <3>1, <3>2
  <2>4. ASSUME NEW i \in DOMAIN ledger', ledger'[i].live
        PROVE  /\ session' = "open" /\ Remaining(ledger'[i]) > 0
               /\ pos'[ledger'[i].code].open => LiveFits(i)' /\ Room(i)'
    <3>1. CASE i = k
      BY <2>1, <3>1
    <3>2. CASE i # k
      BY <1>1, <2>2, <2>4, <3>2
    <3> QED BY <3>1, <3>2
  <2> QED BY <2>3, <2>4 DEF LiveKept, RoomKept
<1> QED BY <1>2, <1>3 DEF AccountMoves, Renewed

-----------------------------------------------------------------------------
(* Where the cycle finds no stop.                                          *)

\* A step places no stop for a stock that is not in the book, nor for one that no
\* process has at hand.
LEMMA NoneComes ==
  ASSUME CustodyInv, AccountMoves, NEW c \in Codes, NoLive(c),
         ~Renewed(c)
  PROVE  NoLive(c)'
<1> SUFFICES ASSUME NEW i \in DOMAIN ledger', ledger'[i].live PROVE ledger'[i].code # c
  BY DEF NoLive
<1>1. ASSUME KeptLive(i) PROVE ledger'[i].code # c
  BY <1>1 DEF KeptLive, NoLive
<1>2. ASSUME NEW d \in Codes, NEW q \in 1 .. pos[d].qty, NEW t \in Stops, NewStop(d, q, t)
      PROVE  ledger'[i].code # c
  <2>1. d # c
    BY <1>2 DEF Renewed
  <2>2. ledger'[Len(ledger) + 1].code = d
    BY <1>2 DEF NewStop
  <2>3. CASE i = Len(ledger) + 1
    BY <2>1, <2>2, <2>3
  <2>4. CASE i # Len(ledger) + 1
    <3>1. KeptLive(i)
      BY <1>2, <2>4 DEF NewStop
    <3> QED BY <1>1, <3>1
  <2> QED BY <2>3, <2>4
<1> QED BY <1>1, <1>2 DEF AccountMoves, NoNewLive, Renewed

\* Who places a stop.
LEMMA RenewedBy ==
  ASSUME NEW c, Renewed(c)
  PROVE  /\ pos[c].open /\ pos' = pos /\ session = "open" /\ UNCHANGED <<session, day, held, orders>>
         /\ \/ cyc'.pc \in {"revised", "stopSent"} /\ cyc'.code = c
            \/ watch'.pc \in {"registered", "revised"} /\ watch'.code = c
BY DEF Renewed, NewStop, StopFits

\* The ways of the cycle.
CyclePath ==
  \/ cyc'.pc = cyc.pc /\ cyc'.code = cyc.code /\ cyc'.todo = cyc.todo /\ cyc'.plan = cyc.plan
  \/ cyc'.pc = "idle"
  \/ /\ cyc.pc = "idle" /\ cyc'.pc = "exits" /\ ~cycled /\ ledger' = ledger
     /\ BookBalances /\ \A c \in cyc'.plan : held[c] = 0
  \/ cyc.pc \in ExitPhase /\ cyc'.pc \in ExitPhase /\ cyc'.plan = cyc.plan
  \/ cyc.pc = "exits" /\ cyc'.pc = "entries" /\ cyc'.todo = cyc.plan
  \/ /\ cyc.pc \in EntryPhase /\ cyc'.pc \in EntryPhase /\ cyc'.todo \subseteq cyc.todo
     /\ \/ cyc.pc \notin {"stopSent", "link"}
        \/ cyc.pc = "stopSent" /\ cyc'.pc = "link" /\ cyc'.code = cyc.code
        \/ cyc.code \notin cyc'.todo
     /\ \/ cyc.pc \in {"entries", "entrySent"}
        \/ cyc'.pc \in {"stop", "stopSent", "link"} /\ cyc'.code = cyc.code
        \/ cyc.code \notin cyc'.todo

\* Every step is one of them.
LEMMA CycleGoes ==
  ASSUME CustodyInv, [Next]_vars
  PROVE  CyclePath
<1>1. CASE cyc' = cyc
  BY <1>1 DEF CyclePath
<1>2. CASE Crash
  BY <1>2 DEF Crash, CyclePath, IdleCycle, CycleState
<1>3. CASE Release
  BY <1>3 DEF Release, ReleaseSafeStop, CyclePath
<1>4. CASE CycleLooks /\ UNCHANGED kisVars
  <2>1. CASE GateHalts
    BY <2>1 DEF GateHalts, CyclePath
  <2>2. ASSUME NEW plan \in SUBSET Codes, Quiet, GatePasses(plan) PROVE CyclePath
    BY <2>2, GatePassesIs DEF CyclePath, kisVars
  <2>3. ASSUME NEW c \in Codes, HoldPosition(c) PROVE CyclePath
    BY <2>3, HoldPositionIs DEF CycleBack, CyclePath, ExitPhase
  <2>4. CASE ExitsDone
    BY <2>4, ExitsDoneIs DEF CyclePath
  <2>5. CASE CycleEnds
    BY <2>5, CycleEndsIs DEF CyclePath
  <2> QED BY <1>4, <2>1, <2>2, <2>3, <2>4, <2>5 DEF CycleLooks
<1>5. CASE CycleCalls
  <2>1. ASSUME NEW c \in Codes, NEW level \in Levels, RaiseBrokerStop(c, level)
        PROVE  CyclePath
    <3>1. cyc.pc = "exits" /\ cyc'.pc \in {"raise", "revised"} /\ cyc'.plan = cyc.plan
      BY <2>1, RaiseBrokerStopIs DEF CycleTo
    <3> QED BY <3>1 DEF CyclePath, ExitPhase
  <2>2. ASSUME NEW c \in Codes, SendExit(c) PROVE CyclePath
    BY <2>2, SendExitIs DEF CycleTo, CyclePath, ExitPhase
  <2>3. ASSUME NEW c \in Codes, SendEntry(c) PROVE CyclePath
    BY <2>3, SendEntryIs DEF CycleTo, CyclePath, EntryPhase
  <2>4. CASE RegisterStop
    <3>1. /\ cyc.pc = "stop" /\ cyc'.pc = "stopSent" /\ cyc'.todo = cyc.todo
          /\ cyc'.code = cyc.code
      BY <2>4, RegisterStopIs DEF CycleTo
    <3> QED BY <3>1 DEF CyclePath, EntryPhase
  <2> QED BY <1>5, <2>1, <2>2, <2>3, <2>4 DEF CycleCalls
<1>6. CASE CycleBooks
  <2>1. CASE RecordRevision
    BY <2>1, RecordRevisionIs DEF CycleTo, CyclePath, ExitPhase
  <2>2. CASE RaiseBookStop
    BY <2>2, RaiseBookStopIs DEF CycleBack, CyclePath, ExitPhase
  <2>3. CASE RecordExit
    <3>1. cyc.pc = "exitSent" /\ cyc'.pc \in {"exits", "exitOutcome"} /\ cyc'.plan = cyc.plan
      BY <2>3, RecordExitIs DEF CycleTo, CycleBack
    <3> QED BY <3>1 DEF CyclePath, ExitPhase
  <2>4. CASE RecordExitOutcome
    BY <2>4, RecordExitOutcomeIs DEF CycleTo, CyclePath, ExitPhase
  <2>5. CASE SettleExit
    BY <2>5, SettleExitIs DEF CycleBack, CyclePath, ExitPhase
  <2>6. CASE RecordEntry
    <3>1. cyc.pc = "entrySent" /\ cyc'.pc \in {"entries", "upsert"} /\ cyc'.todo \subseteq cyc.todo
      BY <2>6, RecordEntryIs DEF CycleTo, CycleBack
    <3> QED BY <3>1 DEF CyclePath, EntryPhase
  <2>7. CASE BookEntry
    BY <2>7, BookEntryIs DEF CycleTo, CyclePath, EntryPhase
  <2>8. CASE RecordStop
    BY <2>8, RecordStopIs DEF CycleTo, CyclePath, EntryPhase
  <2>9. CASE LinkStop
    BY <2>9, LinkStopIs DEF CycleBack, CyclePath, EntryPhase
  <2> QED BY <1>6, <2>1, <2>2, <2>3, <2>4, <2>5, <2>6, <2>7, <2>8, <2>9 DEF CycleBooks
<1> QED BY <1>1, <1>2, <1>3, <1>4, <1>5, <1>6, EveryStep DEF Others, cycleVars, vars

\* The stocks the cycle is to buy have no stop, until it places one.
LEMMA PlanStep ==
  ASSUME CustodyInv, CustodyInv', StopsKept, AccountMoves, CyclePath
  PROVE  /\ cyc'.pc \in ExitPhase => \A c \in cyc'.plan : NoLive(c)'
         /\ cyc'.pc \in EntryPhase =>
              \A c \in cyc'.todo : (cyc'.code = c /\ cyc'.pc \in {"stopSent", "link"}) \/ NoLive(c)'
<1>0. CycleCovers /\ CycleReads
  BY DEF StopsKept, CustodyInv
<1>1. /\ cyc.plan \subseteq Codes /\ cyc.todo \subseteq Codes
      /\ cyc'.plan \subseteq Codes /\ cyc'.todo \subseteq Codes
      /\ cyc'.pc # "idle" => watch'.pc = "idle"
  BY DEF CustodyInv, CycleTyped, CycleStates
<1>2. ASSUME NEW c \in Codes, cyc.pc \in ExitPhase, c \in cyc.plan PROVE NoLive(c)'
  <2>1. NoLive(c) /\ ~pos[c].open
    BY <1>0, <1>2 DEF CycleCovers, CycleReads
  <2> QED BY <2>1, RenewedBy, NoneComes
<1>3. CASE cyc'.pc \in ExitPhase
  <2> SUFFICES ASSUME NEW c \in Codes, c \in cyc'.plan PROVE NoLive(c)'
    BY <1>1, <1>3 DEF ExitPhase, EntryPhase
  <2>1. CASE cyc.pc \in ExitPhase /\ cyc'.plan = cyc.plan
    BY <1>2, <2>1
  <2>2. CASE ~cycled /\ BookBalances /\ held[c] = 0 /\ ledger' = ledger
    <3>1. ~pos[c].open
      <4>1. pos[c].open => pos[c].qty > 0 /\ pos[c].qty = held[c]
        BY <2>2 DEF CustodyInv, PositionsKept, BookBalances
      <4> QED BY <2>2, <4>1
    <3>2. NoLive(c)
      BY <1>0, <2>2, <3>1 DEF CycleCovers
    <3> QED BY <2>2, <3>2 DEF NoLive
  <2> QED BY <1>3, <2>1, <2>2 DEF CyclePath, ExitPhase, EntryPhase
<1>4. CASE cyc'.pc \in EntryPhase
  <2> SUFFICES ASSUME NEW c \in Codes, c \in cyc'.todo
               PROVE  (cyc'.code = c /\ cyc'.pc \in {"stopSent", "link"}) \/ NoLive(c)'
    BY <1>1, <1>4 DEF ExitPhase, EntryPhase
  <2>1. CASE cyc.pc = "exits" /\ cyc'.todo = cyc.plan
    BY <1>2, <2>1 DEF ExitPhase
  <2>2. CASE cyc.pc \in EntryPhase /\ c \in cyc.todo /\ NoLive(c)
    <3>1. CASE Renewed(c)
      <4>1. watch'.pc = "idle"
        BY <1>1, <1>4 DEF EntryPhase
      <4>2. cyc'.pc \in {"revised", "stopSent"} /\ cyc'.code = c
        BY <3>1, <4>1, RenewedBy
      <4> QED BY <1>4, <4>2 DEF EntryPhase
    <3>2. CASE ~Renewed(c)
      BY <2>2, <3>2, NoneComes
    <3> QED BY <3>1, <3>2
  <2>3. CASE /\ cyc.pc \in {"stopSent", "link"} /\ cyc.code = c
             /\ cyc'.pc \in {"stopSent", "link"} /\ cyc'.code = c
    BY <2>3
  <2>4. \/ cyc.pc = "exits" /\ cyc'.todo = cyc.plan
        \/ cyc.pc \in EntryPhase /\ c \in cyc.todo
    BY <1>4 DEF CyclePath, EntryPhase, ExitPhase
  <2>5. cyc.pc \in EntryPhase => (cyc.code = c /\ cyc.pc \in {"stopSent", "link"}) \/ NoLive(c) \/ c \notin cyc.todo
    BY <1>0 DEF CycleCovers
  <2>6. cyc.pc \in {"stopSent", "link"} /\ cyc.code = c =>
          cyc'.pc \in {"stopSent", "link"} /\ cyc'.code = c
    BY <1>4 DEF CyclePath, EntryPhase, ExitPhase
  <2> QED BY <2>1, <2>2, <2>3, <2>4, <2>5, <2>6
<1> QED BY <1>3, <1>4

\* What becomes of the positions.
PositionsMove ==
  \/ pos' = pos /\ (cyc'.pc = cyc.pc /\ cyc'.code = cyc.code)
  \/ pos' = pos /\ cyc.pc \notin {"stop", "stopSent", "link"}
  \/ pos' = pos /\ cyc.pc \in {"stop", "stopSent"} /\ cyc'.pc \in {"stopSent", "link"}
       /\ cyc'.code = cyc.code
  \/ \E c \in Codes :
       /\ Changed(c)
       /\ \/ cyc.pc = "upsert" /\ cyc'.pc = "stop" /\ cyc'.code = c
          \/ /\ cyc.pc \in {"raise", "exitClose"} /\ pos'[c].active = pos[c].active
             /\ pos'[c].open => pos[c].open
          \/ cyc.pc = "link" /\ cyc.code = c /\ pos'[c].active # 0
          \/ /\ cyc.pc = "idle" /\ watch.pc # "idle"
             /\ pos'[c].open => pos[c].open
             /\ pos'[c].active \in {pos[c].active} \cup (Nat \ {0})
             /\ pos'[c].open \/ NoLive(c)

\* In every step.
LEMMA PositionsGo ==
  ASSUME NoCrash, CustodyInv, StopsKept, [Next]_vars
  PROVE  PositionsMove
<1>0. BookTypes /\ CycleTyped /\ WatchTyped
  BY DEF CustodyInv
<1>1. CASE UNCHANGED <<cyc, pos>>
  BY <1>1 DEF PositionsMove
<1>2. CASE Others
  <2>1. CASE Release
    BY <2>1 DEF Release, ReleaseSafeStop, PositionsMove, bookVars
  <2>2. ~Crash
    BY DEF Crash, NoCrash
  <2> QED BY <1>2, <2>1, <2>2 DEF Others
<1>3. CASE CycleLooks /\ UNCHANGED bookVars
  <2>1. cyc.pc \in {"idle", "exits", "entries"}
    BY <1>3 DEF CycleLooks, Quiet, HoldPosition, ExitsDone, CycleEnds, At
  <2> QED BY <1>3, <2>1 DEF PositionsMove, bookVars
<1>4. CASE CycleCalls /\ UNCHANGED bookVars
  <2>1. CASE RegisterStop
    <3>1. cyc.pc = "stop" /\ cyc'.pc = "stopSent" /\ cyc'.code = cyc.code
      BY <2>1, RegisterStopIs DEF CycleTo
    <3> QED BY <1>4, <3>1 DEF PositionsMove, bookVars
  <2>2. CASE ~RegisterStop
    <3>1. cyc.pc \in {"exits", "entries"}
      BY <1>4, <2>2 DEF CycleCalls, RaiseBrokerStop, SendExit, SendEntry, At
    <3> QED BY <1>4, <3>1 DEF PositionsMove, bookVars
  <2> QED BY <2>1, <2>2
<1>5. CASE CycleBooks
  <2>1. CASE RecordRevision \/ RecordExit \/ RecordExitOutcome \/ RecordEntry
    <3>1. pos' = pos /\ cyc.pc \in {"revised", "exitSent", "exitOutcome", "entrySent"}
      BY <2>1, RecordRevisionIs, RecordExitIs, RecordExitOutcomeIs, RecordEntryIs
    <3> QED BY <3>1 DEF PositionsMove
  <2>2. CASE RaiseBookStop
    BY <2>2, RaiseBookStopIs DEF PositionsMove
  <2>3. CASE SettleExit
    BY <2>3, SettleExitIs DEF PositionsMove
  <2>4. CASE BookEntry
    BY <2>4, BookEntryIs DEF PositionsMove, CycleTo
  <2>5. CASE RecordStop
    BY <2>5, RecordStopIs DEF PositionsMove, CycleTo
  <2>6. CASE LinkStop
    BY <1>0, <2>6, LinkStopIs DEF PositionsMove, StopOf, BookTypes
  <2> QED BY <1>5, <2>1, <2>2, <2>3, <2>4, <2>5, <2>6 DEF CycleBooks
<1>6. CASE WatchBooks /\ UNCHANGED cycleVars
  <2>0. cyc.pc = "idle" /\ watch.pc # "idle"
    BY <1>0, <1>6, Apart
  <2>1. CASE UNCHANGED pos
    BY <1>6, <2>1 DEF PositionsMove, cycleVars
  <2>2. CASE SettlePosition
    <3>1. PICK c \in Codes : c = watch.code
      BY <2>2, SettlePositionIs
    <3>2. /\ watch.pc = "settleClose" /\ Changed(c) /\ pos[c].open
          /\ pos'[c].active = pos[c].active /\ (pos'[c].open \/ watch.n >= pos[c].qty)
      BY <2>2, <3>1, SettlePositionIs
    <3>3. pos'[c].open \/ NoLive(c)
      BY <3>1, <3>2, SettledWhole
    <3> QED BY <2>0, <3>2, <3>3 DEF PositionsMove
  <2>3. CASE LinkRegistered
    <3>1. PICK c \in Codes : c = watch.code
      BY <2>3, LinkRegisteredIs
    <3>2. Changed(c) /\ pos'[c].open = pos[c].open /\ pos'[c].active = watch.id /\ StopOf(c, watch.id)
          /\ watch.pc = "link"
      BY <2>3, <3>1, LinkRegisteredIs
    <3>3. watch.id \in Nat \ {0}
      BY <1>0, <3>2 DEF StopOf, BookTypes
    <3>4. pos[c].open
      <4>1. c \in DOMAIN watch.rows
        BY <2>3, <3>1, LinkRegisteredIs
      <4>2. pos[c].qty = watch.rows[c].qty /\ watch.rows[c].qty > 0
        BY <3>2, <4>1 DEF CustodyInv, WatchReads, RegisterPhase
      <4> QED BY <4>2 DEF CustodyInv, PositionsKept
    <3> QED BY <2>0, <3>2, <3>3, <3>4 DEF PositionsMove
  <2>4. CASE WatchBooks /\ ~SettlePosition /\ ~LinkRegistered
    BY <2>1, <2>4 DEF WatchBooks, MarkFilled, RecordStopHit, RecordRegistered, ExpireOldStop,
       RecordStaleRevision
  <2> QED BY <1>6, <2>2, <2>3, <2>4
<1> QED BY <1>1, <1>2, <1>3, <1>4, <1>5, <1>6, EveryStep DEF vars, cycleVars, bookVars

\* What the cycle leaves uncovered is what it closes, and what it is about to cover.
LEMMA CoversStep ==
  ASSUME NoCrash, CustodyInv, CustodyInv', StopsKept, AccountMoves, [Next]_vars
  PROVE  CycleCovers'
<1>0. CycleCovers /\ CycleTyped /\ LiveKept /\ PositionsMove
  BY PositionsGo DEF StopsKept, CustodyInv
<1>1. ~cycled' => \A c \in Codes : ~pos'[c].open => NoLive(c)'
  <2> SUFFICES ASSUME ~cycled', NEW c \in Codes, ~pos'[c].open PROVE NoLive(c)'
    OBVIOUS
  <2>1. CASE NewDay
    BY <2>1 DEF NewDay, DayBegins, NoLive
  <2>2. CASE ~NewDay
    <3>1. ~cycled
      <4>1. CASE CycleLooks
        BY <4>1 DEF CycleLooks, GateHalts, GatePasses, HoldPosition, ExitsDone, CycleEnds
      <4>2. CASE Nature
        BY <2>2, <4>2 DEF Nature, StopTrigger, Close, cycleVars
      <4> QED BY <4>1, <4>2, EveryStep DEF vars, cycleVars
    <3>2. cyc.pc = "idle"
      BY <1>0, <3>1 DEF CycleTyped
    <3>3. NoLive(c)
      <4>1. CASE ~pos[c].open
        BY <1>0, <3>1, <4>1 DEF CycleCovers
      <4>2. CASE pos[c].open
        BY <1>0, <3>2, <4>2 DEF PositionsMove, Changed
      <4> QED BY <4>1, <4>2
    <3>4. ~Renewed(c)
      BY RenewedBy
    <3> QED BY <3>3, <3>4, NoneComes
  <2> QED BY <2>1, <2>2
<1>2. ASSUME NEW c \in Codes, pos'[c].open, pos'[c].active = 0
      PROVE  cyc'.code = c /\ cyc'.pc \in {"stop", "stopSent", "link"}
  <2>1. pos[c].open /\ pos[c].active = 0 => cyc.code = c /\ cyc.pc \in {"stop", "stopSent", "link"}
    BY <1>0 DEF CycleCovers
  <2>2. CASE pos' = pos
    <3>1. pos[c].open /\ pos[c].active = 0
      BY <1>2, <2>2
    <3>2. cyc.code = c /\ cyc.pc \in {"stop", "stopSent", "link"}
      BY <2>1, <3>1
    <3>3. CASE cyc'.pc = cyc.pc /\ cyc'.code = cyc.code
      BY <3>2, <3>3
    <3>4. CASE /\ cyc.pc \in {"stop", "stopSent"} /\ cyc'.pc \in {"stopSent", "link"}
               /\ cyc'.code = cyc.code
      BY <3>2, <3>4
    <3>5. CASE cyc.pc = "link" /\ pos'[cyc.code].active # 0
      BY <1>2, <3>2, <3>5
    <3> QED BY <1>0, <3>2, <3>3, <3>4, <3>5 DEF PositionsMove
  <2>3. ASSUME NEW d \in Codes, Changed(d), cyc.pc = "upsert", cyc'.pc = "stop", cyc'.code = d
        PROVE  cyc'.code = c /\ cyc'.pc \in {"stop", "stopSent", "link"}
    <3>1. CASE c = d
      BY <2>3, <3>1
    <3>2. CASE c # d
      BY <1>2, <2>1, <2>3, <3>2 DEF Changed
    <3> QED BY <3>1, <3>2
  <2>4. ASSUME NEW d \in Codes, Changed(d), cyc.pc \notin {"stop", "stopSent", "link"},
               pos'[d].open => pos[d].open,
               pos'[d].active = 0 => pos[d].active = 0
        PROVE  FALSE
    <3>1. pos[c].open /\ pos[c].active = 0
      BY <1>2, <2>4 DEF Changed
    <3> QED BY <2>1, <2>4, <3>1
  <2>5. ASSUME NEW d \in Codes, Changed(d), cyc.pc = "link", cyc.code = d, pos'[d].active # 0
        PROVE  FALSE
    <3>1. c # d
      BY <1>2, <2>5
    <3> QED BY <1>2, <2>1, <2>5, <3>1 DEF Changed
  <2>6. CASE pos' # pos
    <3>1. PICK d \in Codes :
            /\ Changed(d)
            /\ \/ cyc.pc = "upsert" /\ cyc'.pc = "stop" /\ cyc'.code = d
               \/ /\ cyc.pc \in {"raise", "exitClose"} /\ pos'[d].active = pos[d].active
                  /\ pos'[d].open => pos[d].open
               \/ cyc.pc = "link" /\ cyc.code = d /\ pos'[d].active # 0
               \/ /\ cyc.pc = "idle"
                  /\ pos'[d].open => pos[d].open
                  /\ pos'[d].active \in {pos[d].active} \cup (Nat \ {0})
      BY <1>0, <2>6 DEF PositionsMove
    <3>2. pos'[d].active = pos[d].active => (pos'[d].active = 0 => pos[d].active = 0)
      OBVIOUS
    <3>3. pos'[d].active \in {pos[d].active} \cup (Nat \ {0}) => (pos'[d].active = 0 => pos[d].active = 0)
      OBVIOUS
    <3> QED BY <2>3, <2>4, <2>5, <3>1, <3>2, <3>3
  <2> QED BY <2>2, <2>6
<1>3. CyclePath
  BY CycleGoes
<1> QED BY <1>1, <1>2, <1>3, PlanStep DEF CycleCovers

-----------------------------------------------------------------------------
(* What the watch finds.                                                   *)

\* The ways of the watch once it registers ...
RegisterPath ==
  /\ watch.pc \in RegisterPhase /\ watch'.pc \in RegisterPhase
  /\ watch'.todo \subseteq watch.todo
  /\ \/ watch.pc = "register" /\ watch'.code \in watch.todo /\ pos' = pos
     \/ watch.pc # "register" /\ watch'.pc # "register" /\ watch'.code = watch.code /\ pos' = pos
     \/ /\ watch.pc # "register" /\ watch'.pc = "register" /\ watch.code \notin watch'.todo
        /\ pos' # pos => /\ watch.pc = "link" /\ watch.code \in Codes /\ Changed(watch.code)
                         /\ pos'[watch.code].open = pos[watch.code].open
                         /\ pos'[watch.code].stop = pos[watch.code].stop

\* ... and once it revises.
StalePath ==
  /\ pos' = pos
  /\ \/ watch.pc = "register" /\ watch'.pc = "stale" /\ watch'.todo = StaleStops(watch.rows)
     \/ /\ watch.pc = "stale" /\ watch'.pc = "stale"
        /\ \E c \in watch.todo :
             /\ watch'.todo = watch.todo \ {c}
             /\ IsLive(watch.rows[c].odno) => c \in watch'.refused
     \/ /\ watch.pc = "stale" /\ watch'.pc = "revised" /\ watch'.todo = watch.todo
        /\ watch'.answer.odno # NoOdno
        /\ pos[watch'.code].active = watch.rows[watch'.code].active
     \/ /\ watch.pc = "revised" /\ watch'.pc = "stale" /\ watch'.todo = watch.todo \ {watch.code}

\* It goes one of these ways, or it does not register or revise, or begins to register.
WatchPath ==
  \/ watch'.pc \notin RegisterPhase \cup StalePhase
  \/ watch' = watch /\ pos' = pos
  \/ SettlementDone /\ watch'.pc = "register" /\ UNCHANGED <<ledger, day, pos>>
  \/ /\ watch'.rows = watch.rows /\ watch.refused \subseteq watch'.refused
     /\ RegisterPath \/ StalePath

\* Every step is one of them.
LEMMA WatchGoes ==
  ASSUME CustodyInv, StopsKept, [Next]_vars
  PROVE  WatchPath
<1>1. CASE watch.pc \notin RegisterPhase \cup StalePhase /\ watch' = watch
  BY <1>1 DEF WatchPath
<1>2. CASE Crash
  BY <1>2 DEF Crash, WatchPath, IdleWatch, WatchState, RegisterPhase, StalePhase
<1>3. CASE WatchLooks /\ UNCHANGED <<kisVars, clock, bookVars>>
  <2>0. pos' = pos
    BY <1>3 DEF bookVars
  <2>1. CASE Quiet /\ (WatchStarts \/ WatchNothing)
    <3>1. watch'.pc \in {"loaded", "idle"}
      BY <2>1, WatchStartsIs DEF WatchFresh, WatchNothing, Quiet
    <3> QED BY <3>1 DEF WatchPath, RegisterPhase, StalePhase
  <2>2. CASE FetchDailyOrders
    BY <2>2, FetchIs DEF WatchPath, RegisterPhase, StalePhase
  <2>3. CASE WatchAborts \/ WatchEnds
    <3>1. watch' = IdleWatch
      BY <2>3 DEF WatchAborts, WatchEnds, WatchEnd
    <3> QED BY <3>1, NoWatch DEF WatchFresh, WatchPath, RegisterPhase, StalePhase
  <2>4. CASE SettlementDone
    <3>1. watch'.pc \in {"register", "idle"}
      BY <2>4, SettlementDoneIs DEF WatchLoop, WatchFresh
    <3> QED BY <1>3, <2>0, <2>4, <3>1 DEF WatchPath, RegisterPhase, StalePhase, kisVars, clock
  <2>5. CASE RegistrationDone
    <3>1. /\ watch.pc = "register" /\ watch'.pc = "stale" /\ watch'.rows = watch.rows
          /\ watch'.todo = StaleStops(watch.rows) /\ watch.refused \subseteq watch'.refused
      BY <2>5, RegistrationDoneIs DEF WatchLoop
    <3> QED BY <2>0, <3>1 DEF WatchPath, StalePath
  <2> QED BY <1>3, <2>1, <2>2, <2>3, <2>4, <2>5 DEF WatchLooks
<1>4. CASE WatchCalls /\ UNCHANGED <<clock, bookVars, cycleVars>>
  <2>0. pos' = pos
    BY <1>4 DEF bookVars
  <2>1. ASSUME NEW c \in Codes, RegisterMissing(c) PROVE WatchPath
    <3>1. /\ watch.pc = "register" /\ watch'.pc = "registered" /\ watch'.rows = watch.rows
          /\ watch'.todo = watch.todo /\ watch'.code = c /\ c \in watch.todo
          /\ watch.refused \subseteq watch'.refused
      BY <2>1, RegisterMissingIs DEF WatchTo
    <3> QED BY <2>0, <3>1 DEF WatchPath, RegisterPath, RegisterPhase
  <2>2. ASSUME NEW c \in Codes, ReviseStale(c) PROVE WatchPath
    <3>1. /\ watch.pc = "stale" /\ c \in watch.todo /\ watch'.rows = watch.rows
          /\ watch.refused \subseteq watch'.refused
          /\ \/ /\ watch'.pc = "stale" /\ watch'.todo = watch.todo \ {c}
                /\ IsLive(watch.rows[c].odno) => c \in watch'.refused
             \/ /\ watch'.pc = "revised" /\ watch'.todo = watch.todo /\ watch'.code = c
                /\ watch'.answer.odno # NoOdno /\ pos[c].active = watch.rows[c].active
      BY <1>4, <2>2, StaleMoves DEF WatchLoop, WatchTo
    <3> QED BY <2>0, <3>1 DEF WatchPath, StalePath
  <2> QED BY <1>4, <2>1, <2>2 DEF WatchCalls
<1>5. CASE WatchBooks
  <2>1. CASE (\E c \in Codes : MarkFilled(c)) \/ RecordStopHit \/ SettlePosition
    <3>1. watch'.pc \in {"settle", "settleOutcome", "settleClose", "aborted"}
      BY <2>1, MarkFilledIs, RecordStopHitIs, SettlePositionIs DEF WatchTo, WatchLoop
    <3> QED BY <3>1 DEF WatchPath, RegisterPhase, StalePhase
  <2>2. CASE RecordRegistered
    <3>1. /\ watch.pc = "registered" /\ watch'.rows = watch.rows /\ pos' = pos
          /\ watch.refused \subseteq watch'.refused
          /\ \/ watch'.pc = "register" /\ watch'.todo = watch.todo \ {watch.code}
             \/ /\ watch'.pc \in {"link", "expire"} /\ watch'.todo = watch.todo
                /\ watch'.code = watch.code
      BY <2>2, RecordRegisteredIs DEF WatchTo, WatchLoop
    <3> QED BY <3>1 DEF WatchPath, RegisterPath, RegisterPhase
  <2>3. CASE ExpireOldStop
    <3>1. /\ watch.pc = "expire" /\ watch'.rows = watch.rows /\ pos' = pos
          /\ watch.refused \subseteq watch'.refused
          /\ watch'.pc = "link" /\ watch'.todo = watch.todo /\ watch'.code = watch.code
      BY <2>3, ExpireOldStopIs DEF WatchTo
    <3> QED BY <3>1 DEF WatchPath, RegisterPath, RegisterPhase
  <2>4. CASE LinkRegistered
    <3>1. /\ watch.pc = "link" /\ watch'.rows = watch.rows
          /\ watch.refused \subseteq watch'.refused
          /\ watch'.pc = "register" /\ watch'.todo = watch.todo \ {watch.code}
          /\ watch.code \in Codes /\ Changed(watch.code)
          /\ pos'[watch.code].open = pos[watch.code].open
          /\ pos'[watch.code].stop = pos[watch.code].stop
      BY <2>4, LinkRegisteredIs DEF WatchLoop
    <3> QED BY <3>1 DEF WatchPath, RegisterPath, RegisterPhase
  <2>5. CASE RecordStaleRevision
    <3>1. /\ watch.pc = "revised" /\ watch'.rows = watch.rows /\ pos' = pos
          /\ watch.refused \subseteq watch'.refused
          /\ watch'.pc = "stale" /\ watch'.todo = watch.todo \ {watch.code}
      BY <2>5, RecordStaleRevisionIs DEF WatchLoop
    <3> QED BY <3>1 DEF WatchPath, StalePath
  <2> QED BY <1>5, <2>1, <2>2, <2>3, <2>4, <2>5 DEF WatchBooks
<1>6. CASE watch' = watch /\ watch.pc \in RegisterPhase \cup StalePhase
  <2>1. watch.pc # "idle" /\ CycleTyped /\ WatchTyped
    BY <1>6 DEF RegisterPhase, StalePhase, CustodyInv
  <2>2. ~CycleBooks
    BY <2>1, Apart
  <2>3. UNCHANGED bookVars \/ WatchBooks
    BY <2>2, EveryStep DEF vars
  <2>4. CASE UNCHANGED bookVars
    BY <1>6, <2>4 DEF WatchPath, bookVars
  <2> QED BY <1>5, <2>3, <2>4
<1> QED BY <1>1, <1>2, <1>3, <1>4, <1>5, <1>6, EveryStep DEF Others, Release, watchVars, vars

\* What the watch has loaded, when it is done with the settlement.
LEMMA LoadedAre ==
  ASSUME CustodyInv, StopsKept, SettlementDone, NEW rows,
         rows = IF watch.any THEN LoadOpenPositions ELSE watch.rows, NEW c \in DOMAIN rows
  PROVE  /\ c \in Codes /\ pos[c].open /\ CycleFree(c) /\ WatchFree(c) /\ cyc.pc = "idle"
         /\ rows[c].active = pos[c].active /\ rows[c].stop = pos[c].stop
         /\ rows[c].active # 0 => /\ rows[c].odno = orders[pos[c].active].odno
                                  /\ rows[c].trig = orders[pos[c].active].trig
<1>1. watch.pc = "settle" /\ WatchTyped /\ WatchReads /\ SnapshotKept /\ BookTypes /\ PositionsKept
  BY SettlementDoneIs DEF CustodyInv, StopsKept
<1>2. cyc.pc = "idle"
  BY <1>1 DEF WatchTyped
<1>3. CASE watch.any
  BY <1>1, <1>2, <1>3, LoadIs DEF CycleFree, WatchFree, WatchSent
<1>4. CASE ~watch.any
  <2>1. rows = watch.rows /\ c \in Codes
    BY <1>1, <1>4, LoadedIs DEF WatchTyped
  <2>2. /\ watch.rows[c].qty > 0 /\ pos[c].qty = watch.rows[c].qty
        /\ pos[c].stop = watch.rows[c].stop /\ pos[c].active = watch.rows[c].active
    BY <1>1, <1>4, <2>1 DEF WatchReads, RegisterPhase, StalePhase
  <2>3. watch.rows[c].active # 0 =>
          /\ watch.rows[c].odno = orders[watch.rows[c].active].odno
          /\ watch.rows[c].trig = orders[watch.rows[c].active].trig
    BY <1>1, <2>1 DEF SnapshotKept, SettlePhase
  <2>4. pos[c].open
    BY <1>1, <2>1, <2>2 DEF PositionsKept
  <2> QED BY <1>1, <1>2, <2>1, <2>2, <2>3, <2>4 DEF CycleFree, WatchFree, WatchSent
<1> QED BY <1>3, <1>4

\* What it takes to be missing is missing.
LEMMA MissingAre ==
  ASSUME CustodyInv, StopsKept, SettlementDone, NEW rows,
         rows = IF watch.any THEN LoadOpenPositions ELSE watch.rows, NEW c \in MissingStops(rows)
  PROVE  NoLive(c)
<1>1. watch.pc = "settle" /\ SnapshotKept /\ CycleCovers /\ AccountTypes
  BY SettlementDoneIs DEF CustodyInv, StopsKept
<1>2. c \in DOMAIN rows /\ (rows[c].active = 0 \/ (watch.known /\ ~LiveStop(watch.led, c)))
  BY DEF MissingStops
<1>3. CASE rows[c].active = 0
  <2>1. c \in Codes /\ pos[c].open /\ pos[c].active = 0 /\ cyc.pc = "idle"
    BY <1>2, <1>3, LoadedAre
  <2> QED BY <1>1, <2>1 DEF CycleCovers
<1>4. CASE watch.known /\ ~LiveStop(watch.led, c)
  <2> SUFFICES ASSUME NEW i \in DOMAIN ledger, ledger[i].live, ledger[i].code = c PROVE FALSE
    BY DEF NoLive
  <2>1. i \in DOMAIN watch.led /\ watch.led[i].code = c /\ watch.led[i].kind = ledger[i].kind
        /\ watch.led[i].live
    BY <1>1, <1>4 DEF SnapshotKept, SettlePhase
  <2>2. ledger[i].kind = "stop"
    BY <1>1 DEF AccountTypes
  <2> QED BY <1>4, <2>1, <2>2 DEF LiveStop
<1> QED BY <1>2, <1>3, <1>4

\* What it has loaded of a stop at KIS is what is known of it, so it takes it to be out of
\* date when it is not at the level of the book.
LEMMA StaleAre ==
  ASSUME CustodyInv, StopsKept, SettlementDone, NEW rows,
         rows = IF watch.any THEN LoadOpenPositions ELSE watch.rows,
         NEW i \in DOMAIN ledger, ledger[i].live, NEW c, c = ledger[i].code, pos[c].open,
         ledger[i].trig # pos[c].stop
  PROVE  c \in StaleStops(rows) /\ rows[c].odno = <<day, i>>
<1>0. LiveKept /\ WatchReads
  BY DEF CustodyInv, StopsKept
<1>1. watch.pc = "settle" /\ c \in Codes
  BY SettlementDoneIs, RowOf DEF CustodyInv
<1>2. c \in DOMAIN rows
  <2>1. CASE watch.any
    BY <1>1, <2>1, LoadIs DEF CustodyInv
  <2>2. CASE ~watch.any
    BY <1>0, <1>1, <2>2 DEF WatchReads
  <2> QED BY <2>1, <2>2
<1>3. /\ CycleFree(c) /\ WatchFree(c)
      /\ rows[c].active = pos[c].active /\ rows[c].stop = pos[c].stop
      /\ rows[c].active # 0 => /\ rows[c].odno = orders[pos[c].active].odno
                               /\ rows[c].trig = orders[pos[c].active].trig
  BY <1>2, LoadedAre
<1>4. pos[c].active # 0 /\ orders[pos[c].active].odno = <<day, i>>
      /\ ledger[i].trig = orders[pos[c].active].trig
  BY <1>0, <1>3, LiveIs
<1> QED BY <1>2, <1>3, <1>4 DEF StaleStops

\* A number of before is not given to a new stop.
LEMMA RowWas ==
  ASSUME CustodyInv, AccountMoves, NEW odno, NEW c, NumberOf(odno, c),
         NEW i \in DOMAIN ledger', ledger'[i].live, odno = <<day', i>>
  PROVE  KeptLive(i) /\ day' = day /\ ledger[i].code = c
<1>0. day \in Nat
  BY ConstantsAre DEF CustodyInv, AccountTypes
<1>1. CASE KeptLive(i)
  <2>1. day' = day
    BY <1>1 DEF KeptLive
  <2>2. odno[1] = day /\ odno[2] = i
    BY <2>1
  <2> QED BY <1>0, <1>1, <2>1, <2>2 DEF NumberOf
<1>2. ASSUME NEW d \in Codes, NEW q \in 1 .. pos[d].qty, NEW t \in Stops, NewStop(d, q, t), ~KeptLive(i)
      PROVE  FALSE
  <2>1. i \notin DOMAIN ledger /\ day' = day
    BY <1>2 DEF NewStop, StopFits
  <2>2. odno[1] = day /\ odno[2] = i
    BY <2>1
  <2> QED BY <1>0, <2>1, <2>2 DEF NumberOf, HasRow
<1> QED BY <1>1, <1>2 DEF AccountMoves, NoNewLive, Renewed

\* A stop that comes while the watch registers or revises is at the level of the book.
LEMMA ComesCurrent ==
  ASSUME CustodyInv, CustodyInv', AccountMoves, watch'.pc # "idle",
         NEW i \in DOMAIN ledger', ledger'[i].live, ~KeptLive(i)
  PROVE  ledger'[i].trig = pos'[ledger'[i].code].stop
<1>0. PICK d \in Codes : Renewed(d)
  BY DEF AccountMoves, NoNewLive
<1>1. PICK q \in 1 .. pos[d].qty, t \in Stops : NewStop(d, q, t)
  BY <1>0 DEF Renewed
<1>2. i = Len(ledger) + 1
  BY <1>1 DEF NewStop
<1>3. ledger'[i].code = d /\ ledger'[i].trig = t /\ Level(d)' = t
  BY <1>1, <1>2 DEF NewStop, StopFits
<1>4. cyc'.pc = "idle"
  BY DEF CustodyInv, WatchTyped
<1> QED BY <1>3, <1>4 DEF Level

\* What the watch leaves to be covered is not covered.
LEMMA UncoveredStep ==
  ASSUME CustodyInv, CustodyInv', StopsKept, AccountMoves, WatchPath
  PROVE  WatchUncovered'
<1>0. WatchUncovered /\ WatchTyped
  BY DEF StopsKept, WatchCoversNew, CustodyInv
<1>1. CASE SettlementDone /\ watch'.pc = "register" /\ UNCHANGED <<ledger, day, pos>>
  <2> DEFINE rows == IF watch.any THEN LoadOpenPositions ELSE watch.rows
  <2>1. watch'.todo = MissingStops(rows)
    BY <1>1, SettlementDoneIs DEF WatchLoop, WatchFresh
  <2>2. rows = IF watch.any THEN LoadOpenPositions ELSE watch.rows
    OBVIOUS
  <2> HIDE DEF rows
  <2>3. \A c \in MissingStops(rows) : NoLive(c)'
    BY <1>1, <2>2, MissingAre DEF NoLive
  <2> QED BY <2>1, <2>3 DEF WatchUncovered
<1>2. ASSUME watch'.pc \in RegisterPhase, watch.pc \in RegisterPhase, NEW c \in watch'.todo,
             watch' = watch \/ RegisterPath
      PROVE  (watch'.code = c /\ watch'.pc # "register") \/ NoLive(c)'
  <2>1. c \in watch.todo /\ c \in Codes
    BY <1>0, <1>2 DEF RegisterPath, WatchTyped, WatchStates
  <2>2. CASE watch.code = c /\ watch.pc # "register"
    BY <1>2, <2>2 DEF RegisterPath
  <2>3. CASE NoLive(c)
    <3>1. CASE Renewed(c)
      <4>1. cyc'.pc = "idle"
        BY <1>2 DEF CustodyInv, WatchTyped, RegisterPhase
      <4> QED BY <3>1, <4>1, RenewedBy
    <3>2. CASE ~Renewed(c)
      BY <2>1, <2>3, <3>2, NoneComes
    <3> QED BY <3>1, <3>2
  <2> QED BY <1>0, <1>2, <2>1, <2>2, <2>3 DEF WatchUncovered
<1> QED BY <1>1, <1>2 DEF WatchUncovered, WatchPath, RegisterPath, StalePath, RegisterPhase, StalePhase

\* A stop at KIS that the watch has loaded with a position stays the one of the position.
LEMMA LinkedStep ==
  ASSUME CustodyInv, CustodyInv', StopsKept, AccountMoves, WatchPath
  PROVE  RowsLinked'
<1>0. WatchUncovered /\ RowsLinked /\ WatchLocals
  BY DEF StopsKept, WatchCoversNew, CustodyInv
<1>1. CASE watch'.pc \notin RegisterPhase \cup StalePhase
  BY <1>1 DEF RowsLinked, RegisterPhase, StalePhase
<1>2. CASE SettlementDone /\ watch'.pc = "register" /\ UNCHANGED <<ledger, day, pos>>
  <2> DEFINE rows == IF watch.any THEN LoadOpenPositions ELSE watch.rows
  <2>1. watch'.rows = rows
    BY <1>2, SettlementDoneIs DEF WatchLoop, WatchFresh
  <2>2. rows = IF watch.any THEN LoadOpenPositions ELSE watch.rows
    OBVIOUS
  <2> HIDE DEF rows
  <2>3. \A c \in DOMAIN rows : pos[c].active = rows[c].active
    BY <1>2, <2>2, LoadedAre
  <2> QED BY <1>2, <2>1, <2>3 DEF RowsLinked
<1>3. CASE /\ watch.pc \in RegisterPhase \cup StalePhase /\ watch'.rows = watch.rows
           /\ (watch' = watch /\ pos' = pos) \/ RegisterPath \/ StalePath
  <2>1. ASSUME NEW c \in DOMAIN watch.rows, NEW i \in DOMAIN ledger', RowLive(c, i)'
        PROVE  /\ pos'[c].active = watch.rows[c].active
               /\ ~(watch'.code = c /\ watch'.pc \in {"registered", "expire", "link"})
    <3>1. NumberOf(watch.rows[c].odno, c)
      BY <1>0 DEF WatchLocals
    <3>2. ledger'[i].live /\ watch.rows[c].odno = <<day', i>>
      BY <1>3, <2>1 DEF RowLive
    <3>3. KeptLive(i) /\ day' = day /\ ledger[i].code = c
      BY <3>1, <3>2, RowWas
    <3>4. i \in DOMAIN ledger /\ RowLive(c, i)
      BY <3>2, <3>3 DEF RowLive, KeptLive
    <3>5. /\ pos[c].active = watch.rows[c].active
          /\ ~(watch.code = c /\ watch.pc \in {"registered", "expire", "link"})
      BY <1>0, <1>3, <3>4 DEF RowsLinked
    <3>6. ASSUME watch.pc = "register", watch'.code \in watch.todo PROVE watch'.code # c
      BY <1>0, <3>3, <3>4, <3>6 DEF WatchUncovered, RegisterPhase, NoLive, RowLive
    <3>7. pos'[c].active = pos[c].active
      <4>1. CASE pos' = pos
        BY <4>1
      <4>2. CASE watch.pc = "link" /\ watch.code \in Codes /\ Changed(watch.code)
        <5>1. c \in Codes \ {watch.code}
          BY <3>3, <3>4, <3>5, <4>2, RowOf DEF CustodyInv
        <5> QED BY <4>2, <5>1 DEF Changed
      <4> QED BY <1>3, <4>1, <4>2 DEF RegisterPath, StalePath
    <3>8. ~(watch'.code = c /\ watch'.pc \in {"registered", "expire", "link"})
      BY <1>3, <3>5, <3>6 DEF RegisterPath, StalePath, RegisterPhase
    <3> QED BY <3>5, <3>7, <3>8
  <2>2. watch'.pc = "revised" => /\ watch'.answer.odno # NoOdno
                                 /\ pos'[watch'.code].active = watch.rows[watch'.code].active
    BY <1>0, <1>3 DEF RowsLinked, RegisterPath, StalePath, RegisterPhase
  <2> QED BY <1>3, <2>1, <2>2 DEF RowsLinked
<1> QED BY <1>1, <1>2, <1>3 DEF WatchPath, RegisterPath, StalePath, RegisterPhase, StalePhase

\* What is not at the level of the book stays to be revised, or has been refused.
LEMMA CurrentStep ==
  ASSUME CustodyInv, CustodyInv', StopsKept, AccountMoves, WatchPath
  PROVE  RowsCurrent'
<1>0. RowsCurrent /\ LiveKept
  BY DEF StopsKept, WatchCoversNew
<1> SUFFICES ASSUME watch'.pc \in RegisterPhase \cup StalePhase,
                    NEW i \in DOMAIN ledger', ledger'[i].live,
                    NEW c, c = ledger'[i].code, pos'[c].open
             PROVE  \/ ledger'[i].trig = pos'[c].stop
                    \/ RowLive(c, i)' /\ (Behind(c)' \/ c \in watch'.refused)
  BY DEF RowsCurrent
<1>1. CASE ~KeptLive(i)
  BY <1>1, ComesCurrent DEF RegisterPhase, StalePhase
<1>2. CASE KeptLive(i)
  <2>1. /\ i \in DOMAIN ledger /\ ledger[i].live /\ ledger[i].code = c
        /\ ledger'[i].trig = ledger[i].trig /\ day' = day
    BY <1>2 DEF KeptLive
  <2>2. c \in Codes /\ session = "open"
    BY <1>0, <2>1, RowOf DEF CustodyInv, LiveKept
  <2>3. pos'[c].open = pos[c].open /\ pos'[c].stop = pos[c].stop
    <3>1. CASE pos' = pos
      BY <3>1
    <3>2. CASE /\ watch.code \in Codes /\ Changed(watch.code)
               /\ pos'[watch.code].open = pos[watch.code].open
               /\ pos'[watch.code].stop = pos[watch.code].stop
      BY <2>2, <3>2 DEF Changed
    <3> QED BY <3>1, <3>2 DEF WatchPath, RegisterPath, StalePath
  <2> SUFFICES ASSUME ledger[i].trig # pos[c].stop
               PROVE  RowLive(c, i)' /\ (Behind(c)' \/ c \in watch'.refused)
    BY <2>1, <2>3
  <2>4. CASE SettlementDone /\ watch'.pc = "register" /\ UNCHANGED <<ledger, day, pos>>
    <3> DEFINE rows == IF watch.any THEN LoadOpenPositions ELSE watch.rows
    <3>1. watch'.rows = rows
      BY <2>4, SettlementDoneIs DEF WatchLoop, WatchFresh
    <3>2. rows = IF watch.any THEN LoadOpenPositions ELSE watch.rows
      OBVIOUS
    <3> HIDE DEF rows
    <3>3. c \in StaleStops(rows) /\ rows[c].odno = <<day, i>>
      BY <2>1, <2>3, <2>4, <3>2, StaleAre
    <3> QED BY <2>1, <2>4, <3>1, <3>3 DEF RowLive, Behind, RegisterPhase, StaleStops
  <2>5. CASE /\ watch.pc \in RegisterPhase \cup StalePhase /\ watch'.rows = watch.rows
             /\ watch.refused \subseteq watch'.refused
             /\ (watch' = watch /\ pos' = pos) \/ RegisterPath \/ StalePath
    <3>1. RowLive(c, i) /\ (Behind(c) \/ c \in watch.refused)
      BY <1>0, <2>1, <2>3, <2>5 DEF RowsCurrent
    <3>2. RowLive(c, i)'
      BY <2>1, <2>5, <3>1 DEF RowLive
    <3>3. CASE c \in watch.refused
      BY <2>5, <3>2, <3>3
    <3>4. CASE Behind(c)
      <4>1. StaleStops(watch'.rows) = StaleStops(watch.rows)
        BY <2>5
      <4>2. CASE watch' = watch
        BY <3>2, <3>4, <4>2 DEF Behind
      <4>3. CASE RegisterPath
        BY <3>2, <3>4, <4>1, <4>3 DEF RegisterPath, Behind
      <4>4. CASE StalePath
        <5>1. CASE watch.pc = "register" /\ watch'.pc = "stale" /\ watch'.todo = StaleStops(watch.rows)
          BY <3>2, <3>4, <5>1 DEF Behind, RegisterPhase
        <5>2. ASSUME watch.pc = "stale", watch'.pc = "stale", NEW d \in watch.todo,
                     watch'.todo = watch.todo \ {d},
                     IsLive(watch.rows[d].odno) => d \in watch'.refused
              PROVE  Behind(c)' \/ c \in watch'.refused
          <6>1. c \in watch.todo
            BY <3>4, <5>2 DEF Behind, RegisterPhase
          <6>2. CASE c # d
            BY <5>2, <6>1, <6>2 DEF Behind, RegisterPhase
          <6>3. CASE c = d
            <7>1. IsLive(watch.rows[c].odno)
              BY <2>1, <2>2, <3>1 DEF RowLive, IsLive, HasRow
            <7> QED BY <5>2, <6>3, <7>1
          <6> QED BY <6>2, <6>3
        <5>3. CASE watch.pc = "stale" /\ watch'.pc = "revised" /\ watch'.todo = watch.todo
          BY <3>2, <3>4, <5>3 DEF Behind, RegisterPhase
        <5>4. CASE /\ watch.pc = "revised" /\ watch'.pc = "stale"
                   /\ watch'.todo = watch.todo \ {watch.code}
          <6>1. c # watch.code
            <7> SUFFICES ASSUME c = watch.code PROVE FALSE
              OBVIOUS
            <7>1. WatchSent(c) /\ cyc.pc = "idle"
              BY <5>4 DEF WatchSent, CustodyInv, WatchTyped
            <7>2. AtLevel(c, ledger[i].trig)
              BY <1>0, <2>1, <2>3 DEF LiveKept, LiveFits
            <7> QED BY <7>1, <7>2 DEF AtLevel, Level
          <6> QED BY <3>2, <3>4, <5>4, <6>1 DEF Behind, RegisterPhase
        <5> QED BY <3>2, <4>4, <5>1, <5>2, <5>3, <5>4 DEF StalePath
      <4> QED BY <2>5, <4>2, <4>3, <4>4
    <3> QED BY <3>1, <3>3, <3>4
  <2> QED BY <2>4, <2>5 DEF WatchPath, RegisterPath, StalePath, RegisterPhase, StalePhase
<1> QED BY <1>1, <1>2

\* What is known of the stops while the watch registers and revises holds after every step.
LEMMA WatchStep ==
  ASSUME CustodyInv, CustodyInv', StopsKept, AccountMoves, [Next]_vars
  PROVE  WatchCoversNew'
<1>1. WatchPath
  BY WatchGoes
<1> QED BY <1>1, UncoveredStep, LinkedStep, CurrentStep DEF WatchCoversNew

-----------------------------------------------------------------------------
(* The orders the watch works from.                                        *)

\* What the account may do to the orders while the watch works from its copy of them.
LedgerAges ==
  /\ DOMAIN ledger' = DOMAIN ledger
  /\ \A i \in DOMAIN ledger :
       /\ ledger'[i].code = ledger[i].code /\ ledger'[i].kind = ledger[i].kind
       /\ ledger'[i].filled >= ledger[i].filled /\ ledger[i].filled \in Int /\ ledger'[i].filled \in Int
       /\ ledger'[i].live => ledger[i].live

\* The order of a row the watch has loaded keeps its number and its trigger.
RowsStay ==
  \A c \in DOMAIN watch.rows :
    watch.rows[c].active # 0 =>
      /\ orders'[watch.rows[c].active].odno = orders[watch.rows[c].active].odno
      /\ orders'[watch.rows[c].active].trig = orders[watch.rows[c].active].trig

\* The ways of the watch while it settles.
SettlePath ==
  \/ watch'.pc \notin SettlePhase \cup {"loaded"}
  \/ watch' = watch /\ UNCHANGED <<orders, outcomes>> /\ LedgerAges
  \/ WatchFresh("loaded", session = "open", LoadOpenPositions) /\ UNCHANGED <<orders, pos>>
  \/ /\ watch.pc = "loaded" /\ watch'.pc = "settle" /\ watch'.rows = watch.rows
     /\ UNCHANGED <<orders, ledger>>
     /\ watch'.known => watch'.led = ledger
  \/ /\ watch.pc \in SettlePhase /\ watch'.pc \in SettlePhase
     /\ watch'.rows = watch.rows /\ watch'.led = watch.led /\ watch'.known = watch.known
     /\ ledger' = ledger /\ RowsStay
     /\ \/ watch'.pc = "settle"
        \/ /\ watch.pc = "settle" /\ watch'.pc = "settleOutcome"
           /\ watch'.n <= watch.led[watch.rows[watch'.code].odno[2]].filled
        \/ /\ watch.pc = "settleOutcome" /\ watch'.pc = "settleClose"
           /\ watch'.n = watch.n /\ watch'.code = watch.code
           /\ OutcomeTaken(watch.id)'

\* While a watch is at work, nature only lets the orders age.
LEMMA LedgerAgesStep ==
  ASSUME CustodyInv, Nature, watch.pc # "idle"
  PROVE  LedgerAges
<1>0. AccountTypes /\ FillsKept
  BY DEF CustodyInv
<1>1. \A i \in DOMAIN ledger : ledger[i].filled \in Int /\ ledger[i].filled + 0 = ledger[i].filled
  BY <1>0, RowOf
<1>2. ASSUME NEW i \in DOMAIN ledger, NEW n \in 1 .. Lot, StopTriggers(i, n) PROVE LedgerAges
  <2>1. /\ ledger[i].live /\ DOMAIN ledger' = DOMAIN ledger
        /\ \A j \in DOMAIN ledger \ {i} : ledger'[j] = ledger[j]
        /\ ledger'[i].code = ledger[i].code /\ ledger'[i].kind = ledger[i].kind
        /\ ledger'[i].filled = ledger[i].filled + n /\ n \in Nat
    BY <1>0, <1>2, TriggerIs
  <2>2. ledger'[i].filled \in Int /\ ledger'[i].filled >= ledger[i].filled
    BY <1>1, <2>1
  <2>3. ASSUME NEW j \in DOMAIN ledger \ {i}
        PROVE  /\ ledger'[j].code = ledger[j].code /\ ledger'[j].kind = ledger[j].kind
               /\ ledger'[j].filled >= ledger[j].filled /\ ledger'[j].filled \in Int
               /\ ledger'[j].live => ledger[j].live
    BY <1>1, <2>1
  <2> QED BY <1>1, <2>1, <2>2, <2>3 DEF LedgerAges
<1>3. ASSUME MarketCloses PROVE LedgerAges
  <2>1. /\ DOMAIN ledger' = DOMAIN ledger
        /\ \A i \in DOMAIN ledger :
             /\ ledger'[i].code = ledger[i].code /\ ledger'[i].kind = ledger[i].kind
             /\ ledger'[i].filled = ledger[i].filled /\ ledger'[i].live = FALSE
    BY <1>0, <1>3, CloseIs
  <2> QED BY <1>1, <2>1 DEF LedgerAges
<1>4. ~NewDay
  BY DEF NewDay, Quiet
<1> QED BY <1>2, <1>3, <1>4 DEF Nature, StopTrigger, Close

\* Every step is one of them.
LEMMA SettleGoes ==
  ASSUME NoCrash, CustodyInv, StopsKept, [Next]_vars
  PROVE  SettlePath
<1>0. AccountTypes /\ FillsKept /\ CycleTyped /\ WatchTyped /\ WatchReads /\ WatchLocals
  BY DEF CustodyInv
<1>1. CASE watch.pc = "idle" /\ watch' = watch
  BY <1>1 DEF SettlePath, SettlePhase
<1>2. CASE watch' = watch /\ watch.pc # "idle" /\ (Nature \/ ledger' = ledger) /\ UNCHANGED bookVars
  <2>1. LedgerAges
    <3>1. CASE Nature
      BY <1>2, <3>1, LedgerAgesStep
    <3>2. CASE ledger' = ledger
      <4>1. \A i \in DOMAIN ledger : ledger[i].filled \in Int /\ ledger[i].filled >= ledger[i].filled
        BY <1>0, RowOf
      <4> QED BY <3>2, <4>1 DEF LedgerAges
    <3> QED BY <1>2, <3>1, <3>2
  <2> QED BY <1>2, <2>1 DEF SettlePath, bookVars
<1>3. CASE WatchLooks /\ UNCHANGED <<kisVars, clock, bookVars>>
  <2>1. CASE Quiet /\ WatchStarts
    <3>1. WatchFresh("loaded", session = "open", LoadOpenPositions)
      BY <2>1, WatchStartsIs
    <3> QED BY <1>3, <3>1 DEF SettlePath, bookVars
  <2>2. CASE Quiet /\ WatchNothing
    <3>1. watch' = watch /\ watch.pc = "idle"
      BY <2>2 DEF Quiet, WatchNothing
    <3> QED BY <1>1, <3>1
  <2>3. CASE FetchDailyOrders
    <3>1. /\ watch.pc = "loaded" /\ watch'.pc = "settle" /\ watch'.rows = watch.rows
          /\ watch'.led = ledger \/ watch'.known = watch.known
      BY <2>3, FetchIs
    <3>2. ~watch.known
      BY <1>0, <3>1 DEF WatchLocals
    <3> QED BY <1>3, <3>1, <3>2 DEF SettlePath, bookVars, kisVars
  <2>4. CASE WatchAborts \/ WatchEnds
    <3>1. watch' = IdleWatch
      BY <2>4 DEF WatchAborts, WatchEnds, WatchEnd
    <3> QED BY <3>1, NoWatch DEF WatchFresh, SettlePath, SettlePhase
  <2>5. CASE SettlementDone
    <3>1. watch'.pc \in {"register", "idle"}
      BY <2>5, SettlementDoneIs DEF WatchLoop, WatchFresh
    <3> QED BY <3>1 DEF SettlePath, SettlePhase
  <2>6. CASE RegistrationDone
    <3>1. watch'.pc = "stale"
      BY <2>6, RegistrationDoneIs DEF WatchLoop
    <3> QED BY <3>1 DEF SettlePath, SettlePhase
  <2> QED BY <1>3, <2>1, <2>2, <2>3, <2>4, <2>5, <2>6 DEF WatchLooks
<1>4. CASE WatchCalls
  <2>1. ASSUME NEW c \in Codes, RegisterMissing(c) PROVE watch'.pc \notin SettlePhase \cup {"loaded"}
    BY <2>1, RegisterMissingIs DEF WatchTo, SettlePhase
  <2>2. ASSUME NEW c \in Codes, ReviseStale(c) PROVE watch'.pc \notin SettlePhase \cup {"loaded"}
    <3>1. watch'.pc \in {"stale", "revised"}
      BY <2>2, ReviseStaleIs DEF WatchTo, WatchLoop
    <3> QED BY <3>1 DEF SettlePhase
  <2> QED BY <1>4, <2>1, <2>2 DEF WatchCalls, SettlePath
<1>5. CASE WatchBooks /\ UNCHANGED <<kisVars, clock>>
  <2>1. ASSUME NEW c \in Codes, MarkFilled(c) PROVE SettlePath
    <3> DEFINE id == watch.rows[c].active
               n == Smaller(watch.led[watch.rows[c].odno[2]].filled, watch.rows[c].qty)
    <3>1. /\ watch.pc = "settle" /\ c \in DOMAIN watch.rows
          /\ \/ /\ Rewritten(id) /\ orders'[id].trig = orders[id].trig
                /\ orders'[id].odno = orders[id].odno
                /\ WatchTo("settleOutcome", c, n, id, watch.answer, TRUE)
             \/ orders' = orders /\ WatchLoop("settle", watch.rows, watch.todo \ {c})
      BY <2>1, MarkFilledIs
    <3>2. n <= watch.led[watch.rows[c].odno[2]].filled
      <4>1. HasRow(watch.led, watch.rows[c].odno) /\ watch.rows[c].qty \in Nat
        <5>1. c \in watch.todo
          BY <2>1, MarkFilledIs
        <5> QED BY <1>0, <3>1, <5>1, LoadedQty DEF WatchLocals, SettlePhase, WatchTyped
      <4>2. watch.led[watch.rows[c].odno[2]] \in LedgerRows
        BY <1>0, <4>1 DEF HasRow, WatchTyped, WatchStates
      <4>3. watch.led[watch.rows[c].odno[2]].filled \in Nat
        BY <4>2 DEF LedgerRows
      <4> QED BY <4>1, <4>3 DEF Smaller
    <3> HIDE DEF n
    <3>3. RowsStay
      <4>1. \A d \in DOMAIN watch.rows : watch.rows[d].active # 0 => watch.rows[d].active \in DOMAIN orders
        BY <1>0, <3>1 DEF WatchReads, StopOf
      <4> QED BY <3>1, <4>1 DEF RowsStay, Rewritten
    <3> QED BY <1>5, <3>1, <3>2, <3>3 DEF SettlePath, SettlePhase, WatchTo, WatchLoop, kisVars
  <2>2. CASE RecordStopHit
    <3>1. /\ watch.pc = "settleOutcome" /\ orders' = orders
          /\ \/ WatchTo("aborted", watch.code, watch.n, watch.id, watch.answer, watch.any)
             \/ WatchTo("settleClose", watch.code, watch.n, watch.id, watch.answer, watch.any)
      BY <2>2, RecordStopHitIs
    <3>2. OutcomeTaken(watch.id)'
      <4>1. CASE OutcomeTaken(watch.id) /\ outcomes' = outcomes /\ watch'.id = watch.id
        BY <4>1 DEF OutcomeTaken
      <4>2. ASSUME NEW row, row.id = watch.id, outcomes' = outcomes \cup {row}, watch'.id = watch.id
            PROVE  OutcomeTaken(watch.id)'
        <5>1. row \in outcomes'
          BY <4>2
        <5> QED BY <4>2, <5>1 DEF OutcomeTaken
      <4>3. watch'.id = watch.id
        BY <3>1 DEF WatchTo
      <4>4. \/ OutcomeTaken(watch.id) /\ outcomes' = outcomes
            \/ \E row : row.id = watch.id /\ outcomes' = outcomes \cup {row}
        <5> DEFINE row == [id |-> watch.id, code |-> watch.code,
                           pid |-> watch.rows[watch.code].pid, qty |-> watch.n]
        <5>1. \/ OutcomeTaken(watch.id) /\ outcomes' = outcomes
              \/ outcomes' = outcomes \cup {row}
          BY <2>2, RecordStopHitIs
        <5>2. row.id = watch.id
          OBVIOUS
        <5> HIDE DEF row
        <5> QED BY <5>1, <5>2
      <4> QED BY <4>1, <4>2, <4>3, <4>4
    <3>3. RowsStay
      BY <3>1 DEF RowsStay
    <3>4. watch'.pc = "settleClose" => watch'.id = watch.id
      BY <3>1 DEF WatchTo
    <3> QED BY <1>5, <3>1, <3>2, <3>3, <3>4 DEF SettlePath, SettlePhase, WatchTo, kisVars
  <2>3. CASE SettlePosition
    <3>1. watch.pc = "settleClose" /\ orders' = orders
          /\ WatchLoop("settle", watch.rows, watch.todo \ {watch.code})
      BY <2>3, SettlePositionIs
    <3>2. RowsStay
      BY <3>1 DEF RowsStay
    <3> QED BY <1>5, <3>1, <3>2 DEF SettlePath, SettlePhase, WatchLoop, kisVars
  <2>4. CASE RecordRegistered \/ ExpireOldStop \/ LinkRegistered \/ RecordStaleRevision
    <3>1. watch'.pc \in {"register", "expire", "link", "stale"}
      BY <2>4, RecordRegisteredIs, ExpireOldStopIs, LinkRegisteredIs, RecordStaleRevisionIs
      DEF WatchTo, WatchLoop
    <3> QED BY <3>1 DEF SettlePath, SettlePhase
  <2> QED BY <1>5, <2>1, <2>2, <2>3, <2>4 DEF WatchBooks
<1>6. CASE Others
  <2>1. Release
    BY <1>6 DEF Others, Crash, NoCrash
  <2>2. watch' = watch /\ ledger' = ledger /\ UNCHANGED bookVars
    BY <2>1 DEF Release, ReleaseSafeStop, watchVars, kisVars, bookVars
  <2> QED BY <1>1, <1>2, <2>2
<1> QED BY <1>0, <1>1, <1>2, <1>3, <1>4, <1>5, <1>6, EveryStep, Apart DEF watchVars, kisVars, vars

\* What the watch has fetched holds, until it has settled.
LEMMA SnapshotStep ==
  ASSUME NoCrash, CustodyInv, StopsKept, [Next]_vars
  PROVE  SnapshotKept'
<1>0. SettlePath /\ SnapshotKept /\ AccountTypes /\ FillsKept
  BY SettleGoes DEF StopsKept, CustodyInv
<1>1. CASE watch'.pc \notin SettlePhase \cup {"loaded"}
  BY <1>1 DEF SnapshotKept, SettlePhase
<1>2. CASE watch' = watch /\ UNCHANGED <<orders, outcomes>> /\ LedgerAges
  <2> SUFFICES ASSUME watch.pc \in SettlePhase \cup {"loaded"} PROVE SnapshotKept'
    BY <1>2 DEF SnapshotKept, SettlePhase
  <2>1. \A c \in DOMAIN watch.rows :
          watch.rows[c].active # 0 =>
            /\ watch.rows[c].odno = orders[watch.rows[c].active].odno
            /\ watch.rows[c].trig = orders[watch.rows[c].active].trig
    BY <1>0 DEF SnapshotKept
  <2>2. ASSUME watch.known
        PROVE  /\ DOMAIN ledger' = DOMAIN watch.led
               /\ \A i \in DOMAIN ledger' :
                    /\ watch.led[i].code = ledger'[i].code /\ watch.led[i].kind = ledger'[i].kind
                    /\ watch.led[i].filled <= ledger'[i].filled
                    /\ ledger'[i].live => watch.led[i].live
    <3>1. DOMAIN ledger = DOMAIN watch.led /\ DOMAIN ledger' = DOMAIN ledger
      BY <1>0, <1>2, <2>2 DEF SnapshotKept, LedgerAges
    <3> SUFFICES ASSUME NEW i \in DOMAIN ledger
                 PROVE  /\ watch.led[i].code = ledger'[i].code /\ watch.led[i].kind = ledger'[i].kind
                        /\ watch.led[i].filled <= ledger'[i].filled
                        /\ ledger'[i].live => watch.led[i].live
      BY <3>1
    <3>2. /\ watch.led[i].code = ledger[i].code /\ watch.led[i].kind = ledger[i].kind
          /\ watch.led[i].filled <= ledger[i].filled
          /\ ledger[i].live => watch.led[i].live
      BY <1>0, <2>2 DEF SnapshotKept
    <3>3. /\ ledger'[i].code = ledger[i].code /\ ledger'[i].kind = ledger[i].kind
          /\ ledger'[i].filled >= ledger[i].filled /\ ledger[i].filled \in Int /\ ledger'[i].filled \in Int
          /\ ledger'[i].live => ledger[i].live
      BY <1>2 DEF LedgerAges
    <3>4. watch.led[i].filled \in Int
      <4>1. watch.led \in Seq(LedgerRows)
        BY DEF CustodyInv, WatchTyped, WatchStates
      <4>2. watch.led[i] \in LedgerRows
        BY <3>1, <4>1
      <4> QED BY <4>2 DEF LedgerRows
    <3>5. watch.led[i].filled <= ledger'[i].filled
      BY ONLY <3>2, <3>3, <3>4
    <3> QED BY <3>2, <3>3, <3>5
  <2>3. watch.pc \in {"settleOutcome", "settleClose"} =>
          watch.n <= watch.led[watch.rows[watch.code].odno[2]].filled
    BY <1>0 DEF SnapshotKept
  <2>4. watch.pc = "settleClose" => OutcomeTaken(watch.id)'
    BY <1>0, <1>2 DEF SnapshotKept, OutcomeTaken
  <2> QED BY <1>2, <2>1, <2>2, <2>3, <2>4 DEF SnapshotKept
<1>3. CASE WatchFresh("loaded", session = "open", LoadOpenPositions) /\ UNCHANGED <<orders, pos>>
  <2>1. \A c \in DOMAIN LoadOpenPositions :
          LoadOpenPositions[c].active # 0 =>
            /\ LoadOpenPositions[c].odno = orders[LoadOpenPositions[c].active].odno
            /\ LoadOpenPositions[c].trig = orders[LoadOpenPositions[c].active].trig
    BY LoadIs DEF CustodyInv
  <2>2. watch'.rows = LoadOpenPositions /\ watch'.known = FALSE /\ watch'.pc = "loaded"
    BY <1>3 DEF WatchFresh
  <2> HIDE DEF LoadOpenPositions
  <2> QED BY <1>3, <2>1, <2>2 DEF SnapshotKept, SettlePhase
<1>4. CASE /\ watch.pc = "loaded" /\ watch'.pc = "settle" /\ watch'.rows = watch.rows
           /\ UNCHANGED <<orders, ledger>>
           /\ watch'.known => watch'.led = ledger
  <2>1. \A i \in DOMAIN ledger : ledger[i].filled <= ledger[i].filled
    BY <1>0, RowOf
  <2> QED BY <1>0, <1>4, <2>1 DEF SnapshotKept, SettlePhase
<1>5. CASE /\ watch.pc \in SettlePhase /\ watch'.pc \in SettlePhase
           /\ watch'.rows = watch.rows /\ watch'.led = watch.led /\ watch'.known = watch.known
           /\ ledger' = ledger /\ RowsStay
           /\ \/ watch'.pc = "settle"
              \/ /\ watch.pc = "settle" /\ watch'.pc = "settleOutcome"
                 /\ watch'.n <= watch.led[watch.rows[watch'.code].odno[2]].filled
              \/ /\ watch.pc = "settleOutcome" /\ watch'.pc = "settleClose"
                 /\ watch'.n = watch.n /\ watch'.code = watch.code
                 /\ OutcomeTaken(watch.id)'
  <2>1. \A c \in DOMAIN watch.rows :
          watch.rows[c].active # 0 =>
            /\ watch.rows[c].odno = orders'[watch.rows[c].active].odno
            /\ watch.rows[c].trig = orders'[watch.rows[c].active].trig
    BY <1>0, <1>5 DEF SnapshotKept, RowsStay
  <2>2. watch'.pc \in {"settleOutcome", "settleClose"} =>
          watch'.n <= watch'.led[watch'.rows[watch'.code].odno[2]].filled
    BY <1>0, <1>5 DEF SnapshotKept
  <2>3. watch'.pc = "settleClose" => OutcomeTaken(watch.id)'
    BY <1>5 DEF OutcomeTaken
  <2>4. watch.known =>
          /\ DOMAIN ledger = DOMAIN watch.led
          /\ \A i \in DOMAIN ledger :
               /\ watch.led[i].code = ledger[i].code /\ watch.led[i].kind = ledger[i].kind
               /\ watch.led[i].filled <= ledger[i].filled
               /\ ledger[i].live => watch.led[i].live
    BY <1>0, <1>5 DEF SnapshotKept
  <2>5. watch'.rows = watch.rows /\ watch'.led = watch.led /\ watch'.known = watch.known
        /\ ledger' = ledger
    BY <1>5
  <2> QED BY <2>1, <2>2, <2>3, <2>4, <2>5 DEF SnapshotKept
<1> QED BY <1>0, <1>1, <1>2, <1>3, <1>4, <1>5 DEF SettlePath

-----------------------------------------------------------------------------
(* The invariant while no process dies.                                    *)

\* It holds at first: there is nothing.
LEMMA StopsStart ==
  ASSUME Init
  PROVE  StopsKept
<1>1. /\ ledger = <<>> /\ pos = [c \in Codes |-> NoPosition] /\ cyc = IdleCycle /\ watch = IdleWatch
  BY DEF Init, KisInit, BookInit, CycleInit, WatchInit
<1>2. cyc.pc = "idle" /\ watch.pc = "idle" /\ DOMAIN ledger = {} /\ \A c \in Codes : ~pos[c].open
  BY <1>1 DEF IdleCycle, CycleState, IdleWatch, WatchState, NoPosition, Position
<1>3. LiveKept /\ RoomKept
  BY <1>2 DEF LiveKept, RoomKept
<1>4. CycleCovers /\ WatchCoversNew /\ SnapshotKept
  BY <1>2 DEF CycleCovers, NoLive, ExitPhase, EntryPhase, WatchCoversNew, WatchUncovered,
              RowsLinked, RowsCurrent, RegisterPhase, StalePhase, SnapshotKept, SettlePhase
<1> QED BY <1>3, <1>4 DEF StopsKept

\* Every step keeps it.
LEMMA StopsStep ==
  ASSUME NoCrash, CustodyInv, StopsKept, [Next]_vars
  PROVE  StopsKept'
<1>1. CustodyInv'
  BY CustodyStep
<1>2. AccountMoves
  BY AccountMovesStep
<1>3. StocksKept
  BY StocksKeptStep
<1>4. LiveKept' /\ RoomKept'
  BY <1>1, <1>2, <1>3, LiveStep
<1>5. CycleCovers'
  BY <1>1, <1>2, CoversStep
<1>6. WatchCoversNew'
  BY <1>1, <1>2, WatchStep
<1>7. SnapshotKept'
  BY SnapshotStep
<1> QED BY <1>4, <1>5, <1>6, <1>7 DEF StopsKept

\* Deaths are counted: where there have been none, none has happened in the last step.
LEMMA DeathsCount ==
  ASSUME CustodyInv, [Next]_vars, crashes' = 0
  PROVE  crashes = 0 /\ NoCrash
<1>1. crashes \in Nat /\ crashes + 1 # 0
  BY DEF CustodyInv, FlagsKept
<1>2. NoCrash
  BY <1>1 DEF NoCrash, Crash
<1>3. ASSUME Others PROVE crashes = 0
  BY <1>2, <1>3 DEF Others, NoCrash, Release
<1> QED BY <1>2, <1>3, EveryStep DEF vars

\* As long as no process has died the stops at KIS are as the book has them.
LEMMA StopsInvariant == Spec => [](CustodyInv /\ (crashes = 0 => StopsKept))
<1>1. Init => CustodyInv /\ StopsKept
  BY CustodyStarts, StopsStart
<1>2. CustodyInv /\ (crashes = 0 => StopsKept) /\ [Next]_vars
        => (CustodyInv /\ (crashes = 0 => StopsKept))'
  BY CustodyStep, DeathsCount, StopsStep
<1> QED BY <1>1, <1>2, PTL DEF Spec

\* At the end of a watch in an open market every stop at KIS of an open position has the
\* trigger that the book has for it, also where the cycle's revision was refused before,
\* unless KIS has refused the revision in this very run: as long as no process has died.
THEOREM WatchKeepsCurrent == Spec => [](crashes = 0 => WatchLeavesCurrent)
<1>1. CustodyInv /\ StopsKept => WatchLeavesCurrent
  <2> SUFFICES ASSUME CustodyInv, StopsKept, watch.pc = "stale", watch.todo = {},
                      NEW i \in DOMAIN ledger, ledger[i].live, pos[ledger[i].code].open,
                      ledger[i].code \notin watch.refused
               PROVE  ledger[i].trig = pos[ledger[i].code].stop
    BY DEF WatchLeavesCurrent
  <2>1. ~Behind(ledger[i].code)
    BY DEF Behind, RegisterPhase
  <2> QED BY <2>1 DEF StopsKept, WatchCoversNew, RowsCurrent, StalePhase
<1> QED BY <1>1, StopsInvariant, PTL

\* Between two runs the stops at KIS offer no more shares of a position than are held, so
\* no stop sells what is not there, however orders were filled, refused or cut off, as
\* long as no process has died.
THEOREM StopsFitHoldings == Spec => [](crashes = 0 => StopsWithinHoldings)
<1>1. CustodyInv /\ StopsKept => StopsWithinHoldings
  <2> SUFFICES ASSUME CustodyInv, StopsKept, Quiet, NEW c \in Codes, pos[c].open
               PROVE  SumFunction([i \in LiveStops(c) |-> Remaining(ledger[i])]) <= held[c]
    BY DEF StopsWithinHoldings
  <2> DEFINE S == LiveStops(c)
             f == [i \in S |-> Remaining(ledger[i])]
  <2>0. LiveKept /\ RoomKept /\ AccountTypes /\ FillsKept
    BY DEF CustodyInv, StopsKept
  <2>1. SumFunction(f) = SumFunctionOnSet(f, S)
    BY DEF SumFunction
  <2>2. held[c] \in Nat
    BY <2>0 DEF AccountTypes
  <2>3. CASE S = {}
    <3>1. SumFunctionOnSet(f, S) = 0
      BY <2>3, SumEmpty
    <3> QED BY <2>1, <2>2, <3>1
  <2>4. ASSUME NEW k \in S PROVE SumFunction(f) <= held[c]
    <3>1. k \in DOMAIN ledger /\ ledger[k].live /\ ledger[k].code = c
      BY <2>4 DEF LiveStops
    <3>2. S = {k}
      BY <2>0, <3>1 DEF LiveStops, LiveKept
    <3>3. Remaining(ledger[k]) \in Nat /\ f[k] = Remaining(ledger[k])
      BY <2>0, <2>4, <3>1, RowOf
    <3>4. \A y \in S : f[y] \in Int
      BY <3>2, <3>3
    <3>5. ~Exiting(c)
      BY DEF Quiet, Exiting
    <3>6. Remaining(ledger[k]) <= held[c]
      BY <2>0, <3>1, <3>5, RoomIs
    <3> HIDE DEF f
    <3>7. IsFiniteSet(S) /\ S \ {k} = {}
      BY <3>2, FS_Singleton
    <3>8. SumFunctionOnSet(f, S) = f[k] + SumFunctionOnSet(f, S \ {k})
      BY <2>4, <3>4, <3>7, SumRemove
    <3>9. SumFunctionOnSet(f, S \ {k}) = 0
      BY <3>7, SumEmpty
    <3> QED BY <2>1, <3>3, <3>6, <3>8, <3>9
  <2> QED BY <2>3, <2>4
<1> QED BY <1>1, StopsInvariant, PTL

\* The book raises the stop of a position and never lowers it.
LEMMA BookRises ==
  ASSUME CustodyInv, [Next]_vars, NEW c \in Codes, pos[c].open, pos'[c].open
  PROVE  pos'[c].stop >= pos[c].stop
<1>0. pos[c].stop \in Nat /\ pos[c].stop >= pos[c].stop
  BY PositionIs, ConstantsAre DEF CustodyInv, Stops
<1>1. CASE pos'[c] = pos[c]
  BY <1>0, <1>1
<1>2. CASE CycleBooks
  <2>1. CASE RecordRevision \/ RecordExit \/ RecordExitOutcome \/ RecordEntry \/ RecordStop
    BY <1>1, <2>1, RecordRevisionIs, RecordExitIs, RecordExitOutcomeIs, RecordEntryIs, RecordStopIs
  <2>2. CASE RaiseBookStop
    <3>1. cyc.pc = "raise" /\ Changed(cyc.code) /\ pos'[cyc.code].stop = cyc.n
      BY <2>2, RaiseBookStopIs
    <3>2. cyc.n \in Nat /\ cyc.n > pos[cyc.code].stop
      BY <3>1 DEF CustodyInv, CycleLocals, Levels
    <3> QED BY <1>0, <1>1, <3>1, <3>2 DEF Changed
  <2>3. CASE SettleExit \/ BookEntry
    BY <1>1, <2>3, SettleExitIs, BookEntryIs DEF Changed
  <2>4. CASE LinkStop
    BY <1>0, <1>1, <2>4, LinkStopIs DEF Changed
  <2> QED BY <1>2, <2>1, <2>2, <2>3, <2>4 DEF CycleBooks
<1>3. CASE WatchBooks
  <2>1. CASE SettlePosition
    <3>1. Changed(watch.code) /\ pos'[watch.code].stop = pos[watch.code].stop
      BY <2>1, SettlePositionIs
    <3> QED BY <1>0, <1>1, <3>1 DEF Changed
  <2>2. CASE LinkRegistered
    <3>1. Changed(watch.code) /\ pos'[watch.code].stop = pos[watch.code].stop
      BY <2>2, LinkRegisteredIs
    <3> QED BY <1>0, <1>1, <3>1 DEF Changed
  <2>3. CASE ~SettlePosition /\ ~LinkRegistered
    BY <1>1, <1>3, <2>3 DEF WatchBooks, MarkFilled, RecordStopHit, RecordRegistered, ExpireOldStop,
       RecordStaleRevision
  <2> QED BY <2>1, <2>2, <2>3
<1>4. CASE UNCHANGED bookVars
  BY <1>1, <1>4 DEF bookVars
<1> QED BY <1>2, <1>3, <1>4, EveryStep DEF Others, Release, Crash, Nature, StopTrigger, Close, NewDay,
            watchVars, vars

\* A stop at KIS keeps its trigger, and the one that replaces it is not below it.
LEMMA StopsRise ==
  ASSUME CustodyInv, LiveKept, AccountMoves, NEW c \in Codes,
         NEW old \in LiveTriggers(c), NEW new \in LiveTriggers(c)'
  PROVE  new >= old
<1>1. PICK i \in DOMAIN ledger : ledger[i].live /\ ledger[i].code = c /\ old = ledger[i].trig
  BY DEF LiveTriggers, LiveStops
<1>2. PICK k \in DOMAIN ledger' : ledger'[k].live /\ ledger'[k].code = c /\ new = ledger'[k].trig
  BY DEF LiveTriggers, LiveStops
<1>3. old \in Nat
  BY <1>1, RowOf DEF CustodyInv
<1>4. CASE KeptLive(k)
  <2>1. k = i /\ new = ledger[k].trig
    BY <1>1, <1>2, <1>4 DEF KeptLive, LiveKept
  <2> QED BY <1>1, <1>3, <2>1
<1>5. ASSUME NEW d \in Codes, NEW q \in 1 .. pos[d].qty, NEW t \in Stops, NewStop(d, q, t),
             ~KeptLive(k)
      PROVE  new >= old
  <2>1. ledger'[k].code = d /\ ledger'[k].trig = t
    BY <1>2, <1>5 DEF NewStop
  <2>2. old <= t
    BY <1>1, <1>2, <1>5, <2>1 DEF NewStop
  <2>3. t \in Nat
    BY ConstantsAre DEF Stops
  <2> QED BY <1>2, <1>3, <2>1, <2>2, <2>3
<1> QED BY <1>2, <1>4, <1>5 DEF AccountMoves, NoNewLive, Renewed

\* The stop of a position is only ever raised, in the book and at KIS, whatever is refused,
\* filled in part or answered with a failure, in a run of the system where no process dies.
THEOREM StopsAreRaised == Spec /\ [](crashes = 0) => StopsOnlyRise
<1> DEFINE Rises(c) ==
      pos[c].open /\ pos'[c].open /\ pos'[c].pid = pos[c].pid
        => /\ pos'[c].stop >= pos[c].stop
           /\ \A old \in LiveTriggers(c), new \in LiveTriggers(c)' : new >= old
<1>1. CustodyInv /\ StopsKept /\ (crashes = 0)' /\ [Next]_vars => [\A c \in Codes : Rises(c)]_vars
  <2> SUFFICES ASSUME CustodyInv, StopsKept, crashes' = 0, [Next]_vars, NEW c \in Codes
               PROVE  Rises(c)
    OBVIOUS
  <2>1. pos[c].open /\ pos'[c].open => pos'[c].stop >= pos[c].stop
    BY BookRises
  <2>2. \A old \in LiveTriggers(c), new \in LiveTriggers(c)' : new >= old
    BY DeathsCount, AccountMovesStep, StopsRise DEF StopsKept
  <2> QED BY <2>1, <2>2
<1> QED BY <1>1, StopsInvariant, PTL DEF Spec, StopsOnlyRise

-----------------------------------------------------------------------------
(* While orders are filled whole and no process dies: what is bought and   *)
(* sold of a position, in the book and at KIS.                             *)

\* The stop of a position has sold its shares today.
Sold(c) == HasRow(ledger, StopNumber(c)) /\ ledger[StopNumber(c)[2]].filled > 0

\* The watch has recorded what a stop has sold, and not closed its position yet.
Settling(c) == watch.code = c /\ watch.pc = "settleClose"

\* The cycle has bought shares that the book does not have yet.
Buying(c) == cyc.code = c /\ cyc.pc \in {"entrySent", "upsert"}

\* The sale of a position is recorded once: it is closed before a watch can see it again.
BookedOnce ==
  /\ \A c \in Codes : pos[c].open /\ OutcomeTaken(OrderId(c)) => Settling(c)
  /\ EveryFillIsBooked

\* What a stop or an exit has sold is gone, and so is what the book has closed.
GoneKept ==
  /\ ~cycled \/ cyc.pc \in ExitPhase =>
       \A i \in DOMAIN ledger : ledger[i].filled > 0 => held[ledger[i].code] = 0
  /\ \A c \in Codes :
       held[c] = 0 \/ IF pos[c].open THEN ~Sold(c) /\ ~Exiting(c) ELSE Buying(c) /\ cyc.n > 0

\* The cycle has not bought the stock today.
ToBuy(c) ==
  \/ ~cycled
  \/ cyc.pc \in ExitPhase
  \/ cyc.pc \in EntryPhase /\ c \in cyc.todo /\ (cyc.code = c => cyc.pc \in {"entries", "entrySent"})

\* The cycle has recorded that it has.
Upserting(c) == cyc.code = c /\ cyc.pc = "upsert"

\* The one entry of the position of that day.
BoughtWhole(c, pid) == \E k \in DOMAIN orders : Bought(c, pid) = {k} /\ orders[k].filled = Lot

\* The book has the shares and knows of no sale of them.
Holding(c) ==
  pos[c].open /\ ~Settling(c) /\ ~(cyc.code = c /\ cyc.pc = "exitClose")

\* What is recorded of the shares of a stock.
SharesOf(c) ==
  /\ ToBuy(c) => Bought(c, day) = {}
  /\ ToBuy(c) \/ Upserting(c) => pos[c].pid # day /\ OutcomesOf(c, day) = {}
  /\ Upserting(c) => BoughtWhole(c, day)
  /\ pos[c].open => pos[c].pid # 0
  /\ pos[c].pid # 0 =>
       /\ BoughtWhole(c, pos[c].pid)
       /\ Holding(c) <=> OutcomesOf(c, pos[c].pid) = {}

\* Every position has one entry, and one outcome when it has been sold.
SharesKept ==
  /\ \A c \in Codes : SharesOf(c)
  /\ \A o \in outcomes :
       o.pid # 0 /\ OutcomesOf(o.code, o.pid) = {o} /\ BoughtWhole(o.code, o.pid)

\* What holds besides, while orders are filled whole and no process dies.
SalesKept == BookedOnce /\ GoneKept /\ SharesKept

-----------------------------------------------------------------------------
(* What a step fills.                                                      *)

\* An order keeps its stock, and what is filled of it.
RowStays(i) ==
  i \in DOMAIN ledger /\ ledger'[i].code = ledger[i].code /\ ledger'[i].filled = ledger[i].filled

\* No order is filled, though new ones may come.
NoFill ==
  /\ UNCHANGED <<held, day>> /\ DOMAIN ledger \subseteq DOMAIN ledger'
  /\ \A i \in DOMAIN ledger' : RowStays(i) \/ (i \notin DOMAIN ledger /\ ledger'[i].filled = 0)

\* One order is, or a new one comes filled: it is of one stock.
FillOf(c) ==
  /\ day' = day /\ DOMAIN ledger \subseteq DOMAIN ledger'
  /\ \A d \in Codes \ {c} : held'[d] = held[d]
  /\ \A i \in DOMAIN ledger' :
       \/ RowStays(i)
       \/ ledger'[i].code = c /\ (i \in DOMAIN ledger => ledger[i].code = c)

\* What a step does to the shares held.
FillPath ==
  \/ NoFill
  \/ NewDay /\ NewLedger
  \/ \E i \in DOMAIN ledger, c \in Codes :
       /\ ledger[i].live /\ ledger[i].code = c /\ ledger'[i].filled = Lot
       /\ FillOf(c) /\ held[c] = Lot /\ held'[c] = 0
       /\ UNCHANGED <<bookVars, cyc, cycled, safeStop, watch, swept, session>>
  \/ \E c \in Codes :
       /\ FillOf(c) /\ held'[c] = 0
       /\ cyc.pc = "exits" /\ cyc'.pc = "exitSent" /\ cyc'.code = c /\ cyc'.n > 0
       /\ UNCHANGED <<bookVars, cycled, safeStop, watch, swept, session>>
  \/ \E c \in Codes :
       /\ FillOf(c) /\ held[c] = 0 /\ held'[c] = Lot
       /\ cyc.pc = "entries" /\ c \in cyc.todo
       /\ cyc'.pc = "entrySent" /\ cyc'.code = c /\ cyc'.n = Lot
       /\ UNCHANGED <<bookVars, cycled, safeStop, watch, swept, session>>

\* A new order.
LEMMA AppendFills ==
  ASSUME AccountTypes, NEW row \in LedgerRows, ledger' = Append(ledger, row), day' = day
  PROVE  /\ row.filled = 0 /\ held' = held => NoFill
         /\ \A c \in Codes : row.code = c /\ (\A d \in Codes \ {c} : held'[d] = held[d]) => FillOf(c)
<1> DEFINE k == Len(ledger) + 1
<1>1. /\ DOMAIN ledger' = DOMAIN ledger \cup {k} /\ k \notin DOMAIN ledger
      /\ \A i \in DOMAIN ledger : ledger'[i] = ledger[i]
      /\ ledger'[k] = row
  BY AppendIs DEF AccountTypes
<1> HIDE DEF k
<1> QED BY <1>1 DEF NoFill, FillOf, RowStays

\* A stop is filled whole.
LEMMA TriggerFills ==
  ASSUME NoPartial, CustodyInv, WholeKept, NEW i \in DOMAIN ledger, NEW n \in 1 .. Lot,
         StopTriggers(i, n), NEW c, c = ledger[i].code
  PROVE  /\ c \in Codes /\ ledger[i].live /\ ledger'[i].filled = Lot /\ FillOf(c)
         /\ held[c] = Lot /\ held'[c] = 0 /\ session' = session
<1>0. AccountTypes /\ WholeAccount
  BY DEF CustodyInv, WholeKept
<1>1. /\ ledger[i].live /\ c \in Codes /\ n <= held[c] /\ DOMAIN ledger' = DOMAIN ledger
      /\ \A j \in DOMAIN ledger \ {i} : ledger'[j] = ledger[j]
      /\ ledger'[i].code = c /\ ledger'[i].filled = ledger[i].filled + n
      /\ UNCHANGED <<session, day>>
  BY <1>0, TriggerIs
<1>2. held'[c] = 0 /\ n = Lot /\ \A d \in Codes \ {c} : held'[d] = held[d]
  BY <1>0, WholeTriggers
<1>3. held[c] = Lot /\ ledger'[i].filled = Lot
  <2>1. ledger[i].filled = 0 /\ held[c] \in Whole
    BY <1>0, <1>1 DEF WholeAccount
  <2>2. held[c] = Lot
    <3>1. held[c] \in Whole /\ Lot <= held[c]
      BY <1>1, <1>2, <2>1
    <3>2. held[c] \in Nat /\ (held[c] > 0 => held[c] = Lot) /\ Lot \in Nat \ {0}
      BY <3>1, WholeIs
    <3> QED BY ONLY <3>1, <3>2
  <2>3. ledger'[i].filled = 0 + Lot
    BY <1>1, <1>2, <2>1
  <2> QED BY <2>2, <2>3, WholeIs
<1>4. FillOf(c)
  BY <1>1, <1>2 DEF FillOf, RowStays
<1> QED BY <1>1, <1>2, <1>3, <1>4

\* A sale of the cycle is filled whole or not at all.
LEMMA SaleFills ==
  ASSUME NoPartial, CustodyInv, WholeKept, NEW c \in Codes, SendExit(c),
         UNCHANGED <<clock, watchVars>>
  PROVE  /\ cyc.pc = "exits" /\ cyc'.pc = "exitSent" /\ cyc'.code = c
         /\ \/ NoFill /\ cyc'.n = 0
            \/ /\ NoFill /\ UNCHANGED kisVars
               /\ \E i \in DOMAIN ledger : ledger[i].code = c /\ ledger[i].filled = cyc'.n
            \/ FillOf(c) /\ held'[c] = 0 /\ cyc'.n > 0
<1>0. AccountTypes /\ WholeAccount /\ WholeBook /\ PositionsKept
  BY DEF CustodyInv, WholeKept
<1> DEFINE q == pos[c].qty
<1>1. PICK answer \in Answers :
        /\ CycleTo("exitSent", c, answer.filled, 0, answer)
        /\ \/ /\ answer.filled \in IocFills(q) /\ answer.filled \in 0 .. q /\ q <= held[c]
              /\ ledger' = Append(ledger, LedgerRow(c, "sell", q, answer.filled, FALSE, 0))
              /\ held' = [held EXCEPT ![c] = held[c] - answer.filled]
           \/ /\ answer = RefusedAnswer(c, q) /\ ledger' = ledger /\ held' = held
  BY SendExitIs
<1>2. cyc.pc = "exits" /\ pos[c].open
  BY SendExitIs
<1>3. q = Lot /\ q \in Nat
  BY <1>0, <1>2, WholeIs DEF WholeBook, PositionsKept
<1> DEFINE n == answer.filled
           row == LedgerRow(c, "sell", q, n, FALSE, 0)
<1>4. cyc'.pc = "exitSent" /\ cyc'.code = c /\ cyc'.n = n
  BY <1>1 DEF CycleTo
<1>5. CASE answer = RefusedAnswer(c, q) /\ ledger' = ledger /\ held' = held
  <2>1. n = 0 \/ \E i \in DOMAIN ledger : ledger[i].code = c /\ ledger[i].filled = n
    BY <1>0, <1>3, <1>5, RefusedAnswerIs
  <2>2. NoFill
    BY <1>5 DEF NoFill, RowStays, clock
  <2> QED BY <1>2, <1>4, <1>5, <2>1, <2>2 DEF kisVars
<1>6. CASE /\ n \in IocFills(q) /\ n \in 0 .. q /\ q <= held[c] /\ ledger' = Append(ledger, row)
           /\ held' = [held EXCEPT ![c] = held[c] - n]
  <2>1. n \in {0, Lot} /\ n \in Nat
    BY <1>3, <1>6, WholeIs DEF IocFills, NoPartial
  <2>2. row \in LedgerRows
    BY <1>3, <2>1, WholeIs, ConstantsAre, RowIs
  <2>3. row.code = c /\ row.filled = n
    BY DEF LedgerRow
  <2>4. held[c] = Lot /\ held \in [Codes -> Nat]
    BY <1>0, <1>3, <1>6, WholeIs DEF WholeAccount, AccountTypes
  <2>5. ledger' = Append(ledger, row) /\ held' = [held EXCEPT ![c] = Lot - n] /\ day' = day
    BY <1>6, <2>4 DEF clock
  <2> HIDE DEF row, n
  <2>6. CASE n = 0
    <3>1. held' = held
      BY <2>4, <2>5, <2>6, WholeIs
    <3> QED BY <1>0, <1>2, <1>4, <2>2, <2>3, <2>5, <2>6, <3>1, AppendFills
  <2>7. CASE n = Lot
    <3>1. held'[c] = 0 /\ \A d \in Codes \ {c} : held'[d] = held[d]
      BY <2>4, <2>5, <2>7, WholeIs
    <3>2. n > 0
      BY <2>7, WholeIs
    <3> QED BY <1>0, <1>2, <1>4, <2>2, <2>3, <2>5, <3>1, <3>2, AppendFills
  <2> QED BY <2>1, <2>6, <2>7
<1> QED BY <1>1, <1>5, <1>6

\* So is a purchase.
LEMMA PurchaseFills ==
  ASSUME NoPartial, CustodyInv, WholeKept, NEW c \in Codes, SendEntry(c),
         UNCHANGED <<clock, watchVars>>
  PROVE  /\ cyc.pc = "entries" /\ c \in cyc.todo /\ cyc'.pc = "entrySent" /\ cyc'.code = c
         /\ cyc'.todo = cyc.todo /\ held[c] = 0
         /\ \/ NoFill /\ cyc'.n = 0
            \/ NoFill /\ "buyReject" \in Faults
            \/ FillOf(c) /\ held'[c] = Lot /\ cyc'.n = Lot
<1>0. AccountTypes /\ WholeAccount /\ WholeCycle
  BY DEF CustodyInv, WholeKept
<1>1. PICK answer \in Answers :
        /\ CycleTo("entrySent", c, answer.filled, 0, answer)
        /\ \/ /\ answer.filled \in IocFills(Lot) /\ answer.filled \in 0 .. Lot
              /\ ledger' = Append(ledger, LedgerRow(c, "buy", Lot, answer.filled, FALSE, 0))
              /\ held' = [held EXCEPT ![c] = held[c] + answer.filled]
           \/ /\ answer = RefusedAnswer(c, Lot) /\ "buyReject" \in Faults
              /\ ledger' = ledger /\ held' = held
  BY SendEntryIs
<1>2. cyc.pc = "entries" /\ c \in cyc.todo /\ held[c] = 0 /\ held \in [Codes -> Nat]
  BY <1>0, SendEntryIs DEF WholeCycle, AccountTypes
<1> DEFINE n == answer.filled
           row == LedgerRow(c, "buy", Lot, n, FALSE, 0)
<1>4. cyc'.pc = "entrySent" /\ cyc'.code = c /\ cyc'.n = n /\ cyc'.todo = cyc.todo
  BY <1>1 DEF CycleTo
<1>5. CASE "buyReject" \in Faults /\ ledger' = ledger /\ held' = held
  <2>1. NoFill
    BY <1>5 DEF NoFill, RowStays, clock
  <2> QED BY <1>2, <1>4, <1>5, <2>1
<1>6. CASE /\ n \in IocFills(Lot) /\ ledger' = Append(ledger, row)
           /\ held' = [held EXCEPT ![c] = held[c] + n]
  <2>1. n \in {0, Lot} /\ n \in Nat
    BY <1>6, WholeIs DEF IocFills, NoPartial
  <2>2. row \in LedgerRows
    BY <2>1, WholeIs, ConstantsAre, RowIs
  <2>3. row.code = c /\ row.filled = n
    BY DEF LedgerRow
  <2>4. ledger' = Append(ledger, row) /\ held' = [held EXCEPT ![c] = n] /\ day' = day
    <3>1. held[c] + n = n
      BY <1>2, <2>1
    <3> QED BY <1>6, <3>1 DEF clock
  <2> HIDE DEF row, n
  <2>5. CASE n = 0
    <3>1. held' = held
      BY <1>2, <2>4, <2>5
    <3> QED BY <1>0, <1>2, <1>4, <2>2, <2>3, <2>4, <2>5, <3>1, AppendFills
  <2>6. CASE n = Lot
    <3>1. held'[c] = Lot /\ \A d \in Codes \ {c} : held'[d] = held[d]
      BY <1>2, <2>4, <2>6
    <3> QED BY <1>0, <1>2, <1>4, <2>2, <2>3, <2>4, <2>6, <3>1, AppendFills
  <2> QED BY <2>1, <2>5, <2>6
<1> QED BY <1>1, <1>5, <1>6

\* A revision of a stop is none.
LEMMA RevisionFills ==
  ASSUME AccountTypes, FillsKept, NEW c \in Codes, NEW j \in DOMAIN ledger, NEW t \in Stops,
         ledger' = Append([ledger EXCEPT ![j].live = FALSE],
                          LedgerRow(c, "stop", Remaining(ledger[j]), 0, TRUE, t)),
         held' = held, day' = day
  PROVE  NoFill
<1> DEFINE k == Len(ledger) + 1
           row == LedgerRow(c, "stop", Remaining(ledger[j]), 0, TRUE, t)
<1>1. /\ DOMAIN ledger' = DOMAIN ledger \cup {k} /\ k \notin DOMAIN ledger
      /\ \A i \in DOMAIN ledger \ {j} : ledger'[i] = ledger[i]
      /\ ledger'[j].code = ledger[j].code /\ ledger'[j].filled = ledger[j].filled
      /\ ledger'[k] = row
  BY RevisedIs
<1>2. row.filled = 0
  BY DEF LedgerRow
<1> HIDE DEF k, row
<1> QED BY <1>1, <1>2 DEF NoFill, RowStays

\* Nothing is filled where KIS is not asked.
LEMMA NothingFilled ==
  ASSUME UNCHANGED <<kisVars, day>>
  PROVE  NoFill
BY DEF kisVars, NoFill, RowStays

\* What the shares held are after every step.
LEMMA FillsGo ==
  ASSUME NoPartial, NoCrash, CustodyInv, WholeKept, StopsKept, [Next]_vars
  PROVE  FillPath
<1>0. AccountTypes /\ FillsKept /\ WholeAccount
  BY DEF CustodyInv, WholeKept
<1>1. CASE UNCHANGED <<kisVars, day>>
  BY <1>1, NothingFilled DEF FillPath
<1>2. CASE Nature /\ UNCHANGED <<bookVars, cyc, safeStop, watch>>
  <2>1. ASSUME NEW i \in DOMAIN ledger, NEW n \in 1 .. Lot, StopTriggers(i, n), StopTrigger
        PROVE  FillPath
    <3> DEFINE c == ledger[i].code
    <3>1. /\ c \in Codes /\ ledger[i].live /\ ledger'[i].filled = Lot /\ FillOf(c)
          /\ held[c] = Lot /\ held'[c] = 0 /\ session' = session
      BY <2>1, TriggerFills
    <3>2. UNCHANGED <<bookVars, cyc, cycled, safeStop, watch, swept, session>>
      BY <1>2, <2>1, <3>1 DEF StopTrigger, cycleVars, watchVars
    <3> QED BY <3>1, <3>2 DEF FillPath
  <2>2. CASE MarketCloses
    <3>1. NoFill
      BY <1>0, <2>2, CloseIs DEF NoFill, RowStays
    <3> QED BY <3>1 DEF FillPath
  <2>3. CASE NewDay
    BY <2>3 DEF NewDay, DayBegins, NewLedger, FillPath
  <2> QED BY <1>2, <2>1, <2>2, <2>3 DEF Nature, StopTrigger, Close
<1>3. CASE WatchCalls /\ UNCHANGED clock
  <2>1. ASSUME NEW c \in Codes, RegisterMissing(c) PROVE NoFill
    <3> DEFINE q == watch.rows[c].qty
               t == watch.rows[c].stop
               row == LedgerRow(c, "stop", q, 0, TRUE, t)
    <3>1. /\ q \in Nat /\ t \in Stops /\ held' = held
          /\ ledger' = ledger \/ ledger' = Append(ledger, row)
      BY <2>1, RegisterMissingIs
    <3>2. row \in LedgerRows /\ row.filled = 0
      BY <3>1, RowIs DEF LedgerRow
    <3> HIDE DEF row
    <3> QED BY <1>0, <1>3, <3>1, <3>2, AppendFills, NothingFilled DEF kisVars, clock
  <2>2. ASSUME NEW c \in Codes, ReviseStale(c) PROVE NoFill
    <3> DEFINE j == watch.rows[c].odno[2]
               t == watch.rows[c].stop
    <3>1. /\ t \in Stops /\ held' = held
          /\ \/ ledger' = ledger
             \/ /\ j \in DOMAIN ledger
                /\ ledger' = Append([ledger EXCEPT ![j].live = FALSE],
                                    LedgerRow(c, "stop", Remaining(ledger[j]), 0, TRUE, t))
      BY <2>2, ReviseStaleIs
    <3> HIDE DEF j, t
    <3>2. day' = day
      BY <1>3 DEF clock
    <3> QED BY <1>0, <3>1, <3>2, RevisionFills, NothingFilled DEF kisVars
  <2> QED BY <1>3, <2>1, <2>2 DEF WatchCalls, FillPath
<1>4. CASE CycleCalls /\ UNCHANGED <<clock, bookVars, cycled, safeStop, watchVars>>
  <2>1. ASSUME NEW c \in Codes, NEW level \in Levels, RaiseBrokerStop(c, level) PROVE NoFill
    <3> DEFINE j == orders[pos[c].active].odno[2]
    <3>1. /\ level \in Stops /\ held' = held
          /\ \/ ledger' = ledger
             \/ /\ j \in DOMAIN ledger
                /\ ledger' = Append([ledger EXCEPT ![j].live = FALSE],
                                    LedgerRow(c, "stop", Remaining(ledger[j]), 0, TRUE, level))
      BY <2>1, RaiseBrokerStopIs
    <3> HIDE DEF j
    <3>2. day' = day
      BY <1>4 DEF clock
    <3> QED BY <1>0, <3>1, <3>2, RevisionFills, NothingFilled DEF kisVars
  <2>2. ASSUME NEW c \in Codes, SendExit(c) PROVE FillPath
    <3>1. /\ cyc.pc = "exits" /\ cyc'.pc = "exitSent" /\ cyc'.code = c
          /\ NoFill \/ (FillOf(c) /\ held'[c] = 0 /\ cyc'.n > 0)
      BY <1>4, <2>2, SaleFills
    <3> QED BY <1>4, <3>1 DEF FillPath, clock, watchVars
  <2>3. ASSUME NEW c \in Codes, SendEntry(c) PROVE FillPath
    <3>1. /\ cyc.pc = "entries" /\ c \in cyc.todo /\ cyc'.pc = "entrySent" /\ cyc'.code = c
          /\ held[c] = 0 /\ (NoFill \/ (FillOf(c) /\ held'[c] = Lot /\ cyc'.n = Lot))
      BY <1>4, <2>3, PurchaseFills
    <3> QED BY <1>4, <3>1 DEF FillPath, clock, watchVars
  <2>4. CASE RegisterStop
    <3> DEFINE c == cyc.code
               q == cyc.n
               row == LedgerRow(c, "stop", q, 0, TRUE, 1)
    <3>1. /\ c \in Codes /\ cyc.pc = "stop" /\ held' = held
          /\ ledger' = ledger \/ ledger' = Append(ledger, row)
      BY <2>4, RegisterStopIs
    <3>2. q \in Nat
      BY <3>1, AtHandIs, StepsAre DEF CustodyInv
    <3>3. row \in LedgerRows /\ row.filled = 0
      BY <3>1, <3>2, ConstantsAre, RowIs DEF LedgerRow
    <3> HIDE DEF row
    <3>4. day' = day
      BY <1>4 DEF clock
    <3> QED BY <1>0, <3>1, <3>3, <3>4, AppendFills, NothingFilled DEF kisVars, FillPath
  <2> QED BY <1>4, <2>1, <2>2, <2>3, <2>4 DEF CycleCalls, FillPath
<1> QED BY <1>1, <1>2, <1>3, <1>4, EveryStep DEF clock, vars

-----------------------------------------------------------------------------
(* The number of a stop.                                                   *)

\* The order a position is linked to, or is about to be, is a stop of its stock.
LEMMA OrderIs ==
  ASSUME CustodyInv, NEW c \in Codes
  PROVE  OrderId(c) = 0 \/ (StopOf(c, OrderId(c)) /\ OrderId(c) # 0)
<1>1. CASE cyc.code = c /\ cyc.pc = "link"
  <2>1. cyc.id \in DOMAIN orders /\ orders[cyc.id].code = c /\ orders[cyc.id].purpose = "stop"
    BY <1>1 DEF CustodyInv, CycleLocals
  <2>2. cyc.id # 0
    BY <2>1 DEF CustodyInv, BookTypes
  <2> QED BY <1>1, <2>1, <2>2 DEF OrderId, StopOf
<1>2. CASE ~(cyc.code = c /\ cyc.pc = "link") /\ watch.code = c /\ watch.pc \in {"expire", "link"}
  <2>1. StopOf(c, watch.id)
    BY <1>2 DEF CustodyInv, WatchLocals
  <2>2. watch.id # 0
    BY <2>1 DEF CustodyInv, BookTypes, StopOf
  <2> QED BY <1>2, <2>1, <2>2 DEF OrderId
<1>3. CASE /\ ~(cyc.code = c /\ cyc.pc = "link")
           /\ ~(watch.code = c /\ watch.pc \in {"expire", "link"})
  BY <1>3 DEF OrderId, CustodyInv, PositionsKept
<1> QED BY <1>1, <1>2, <1>3

\* The number of a stop is one of its own stock, or of an earlier day.
LEMMA NumberIs ==
  ASSUME CustodyInv, NEW c \in Codes
  PROVE  NumberOf(StopNumber(c), c)
<1>1. CASE CycleSent(c)
  BY <1>1 DEF CycleSent, StopNumber, CustodyInv, CycleLocals
<1>2. CASE ~CycleSent(c) /\ WatchSent(c)
  BY <1>2 DEF WatchSent, StopNumber, CustodyInv, WatchLocals
<1>3. CASE ~CycleSent(c) /\ ~WatchSent(c) /\ OrderId(c) = 0
  <2>1. StopNumber(c) = NoOdno
    BY <1>3 DEF StopNumber
  <2>2. NoOdno[1] < day
    BY DEF NoOdno, CustodyInv, AccountTypes
  <2> QED BY <2>1, <2>2 DEF NumberOf
<1>4. CASE ~CycleSent(c) /\ ~WatchSent(c) /\ OrderId(c) # 0
  <2>1. StopOf(c, OrderId(c))
    BY <1>4, OrderIs
  <2>2. StopNumber(c) = orders[OrderId(c)].odno
    BY <1>4 DEF StopNumber
  <2> QED BY <2>1, <2>2 DEF StopOf, CustodyInv, NumbersKept
<1> QED BY <1>1, <1>2, <1>3, <1>4

\* A stop that has sold something is an order of the day, of its stock.
LEMMA SoldRow ==
  ASSUME CustodyInv, NEW c \in Codes, Sold(c)
  PROVE  \E i \in DOMAIN ledger :
           /\ StopNumber(c)[1] = day /\ StopNumber(c)[2] = i
           /\ ledger[i].code = c /\ ledger[i].filled > 0
<1>1. NumberOf(StopNumber(c), c)
  BY NumberIs
<1>2. HasRow(ledger, StopNumber(c)) /\ day \in Nat
  BY ConstantsAre DEF Sold, CustodyInv, AccountTypes
<1>3. ledger[StopNumber(c)[2]].code = c
  BY <1>1, <1>2 DEF NumberOf, HasRow
<1> QED BY <1>2, <1>3 DEF Sold, HasRow

\* The number of the stop of a position stays, unless it is replaced.
LEMMA NumberStays ==
  ASSUME NoCrash, CustodyInv, StopsKept, [Next]_vars, NEW c \in Codes, pos[c].open, pos'[c].open
  PROVE  \/ StopNumber(c)' = StopNumber(c) /\ (Exiting(c) => Exiting(c)')
         \/ Renewed(c)
<1>1. StockKept(c)
  BY StocksKeptStep DEF StocksKept
<1> QED BY <1>1 DEF StockKept, ViewKept, FundsKept, CallRefused

\* A new stop has sold nothing, and there is something to sell.
LEMMA RenewedHolds ==
  ASSUME CustodyInv, CustodyInv', NEW c \in Codes, Renewed(c)
  PROVE  ~Sold(c)' /\ held' = held /\ held[c] > 0 /\ ~Exiting(c)'
<1>1. PICK q \in 1 .. pos[c].qty, t \in Stops : NewStop(c, q, t)
  BY DEF Renewed
<1>2. held[c] \in Nat /\ pos[c].qty \in Nat
  BY PositionIs DEF CustodyInv, AccountTypes
<1>3. /\ q <= held[c] /\ q > 0 /\ held' = held /\ StopNumber(c)' = <<day, Len(ledger) + 1>>
      /\ ledger'[Len(ledger) + 1].filled = 0
  BY <1>1 DEF NewStop, StopFits
<1>4. held[c] > 0
  BY <1>2, <1>3
<1>5. ~Sold(c)'
  <2>1. StopNumber(c)'[2] = Len(ledger) + 1
    BY <1>3
  <2> QED BY <1>3, <2>1 DEF Sold
<1>6. ~Exiting(c)'
  <2>1. \/ cyc'.pc \in {"revised", "stopSent"} /\ cyc'.code = c
        \/ watch'.pc \in {"registered", "revised"} /\ watch'.code = c
    BY RenewedBy
  <2> QED BY <2>1 DEF Exiting, CustodyInv, WatchTyped
<1> QED BY <1>3, <1>4, <1>5, <1>6

-----------------------------------------------------------------------------
(* What a step does to the shares of a stock, as the book has them.        *)

\* What a step that books nothing of a stock leaves of it.
StockStays(c) ==
  /\ pos'[c].pid = pos[c].pid /\ (pos'[c].open => pos[c].open)
  /\ pos[c].open => pos'[c].open \/ Exiting(c) \/ Settling(c)
  /\ Holding(c)' <=> Holding(c)
  /\ Upserting(c)' => Upserting(c)
  /\ OrderId(c)' = OrderId(c) \/ OrderId(c)' \notin DOMAIN orders
  /\ Settling(c) => Settling(c)' \/ ~pos'[c].open

\* No entry is recorded, and those there are keep what was filled.
EntriesStay ==
  /\ \A k \in DOMAIN orders : orders[k].purpose = "entry" => orders'[k].filled = orders[k].filled
  /\ \A k \in DOMAIN orders' \ DOMAIN orders : orders'[k].purpose # "entry"

\* The cycle touches nothing of a stock that is booked.
CycleAway(c) == ~(cyc.code = c /\ cyc.pc \in {"link", "exitClose", "upsert"})
\* Neither does the watch.
WatchAway(c) == ~(watch.code = c /\ watch.pc \in {"expire", "link", "settleClose"})

\* A stock that is not touched.
LEMMA StockAway ==
  ASSUME NEW c, pos'[c].pid = pos[c].pid, pos'[c].open = pos[c].open,
         pos'[c].active = pos[c].active,
         CycleAway(c), CycleAway(c)', WatchAway(c), WatchAway(c)'
  PROVE  StockStays(c)
<1>1. OrderId(c)' = OrderId(c)
  BY DEF OrderId, CycleAway, WatchAway
<1>2. Holding(c)' <=> Holding(c)
  BY DEF Holding, Settling, CycleAway, WatchAway
<1>3. ~Upserting(c)' /\ ~Settling(c)
  BY DEF Upserting, Settling, CycleAway, WatchAway
<1> QED BY <1>1, <1>2, <1>3 DEF StockStays

\* Neither process moves.
LEMMA StockRests ==
  ASSUME NEW c, pos' = pos, cyc' = cyc, watch' = watch
  PROVE  StockStays(c)
BY DEF StockStays, Holding, Settling, Upserting, OrderId

\* The exits come first in a day.
LEMMA ExitsFirst ==
  ASSUME CustodyInv, [Next]_vars, ~NewDay
  PROVE  /\ ~cycled' => ~cycled
         /\ cyc'.pc \in ExitPhase => cyc.pc \in ExitPhase \/ ~cycled
<1>1. ~cycled' => ~cycled
  <2>1. CASE Nature
    BY <2>1 DEF Nature, StopTrigger, Close, cycleVars
  <2>2. CASE CycleLooks
    <3>1. cycled' = TRUE \/ cycled' = cycled
      BY <2>2 DEF CycleLooks, GateHalts, GatePasses, HoldPosition, ExitsDone, CycleEnds
    <3> QED BY <3>1
  <2>3. CASE cycled' = cycled
    BY <2>3
  <2> QED BY <2>1, <2>2, <2>3, EveryStep DEF cycleVars, vars
<1>2. CyclePath
  BY CycleGoes
<1> QED BY <1>1, <1>2 DEF CyclePath, ExitPhase, EntryPhase

\* What is to be bought was to be bought, but for a new day.
LEMMA ToBuyStays ==
  ASSUME CustodyInv, [Next]_vars, NEW c \in Codes, ToBuy(c)', ~NewDay
  PROVE  ToBuy(c)
<1>1. /\ ~cycled' => ~cycled
      /\ cyc'.pc \in ExitPhase => cyc.pc \in ExitPhase \/ ~cycled
  BY ExitsFirst
<1>2. CyclePath
  BY CycleGoes
<1>3. CASE ~cycled' \/ cyc'.pc \in ExitPhase
  BY <1>1, <1>3 DEF ToBuy
<1>5. CASE /\ cyc'.pc \in EntryPhase /\ c \in cyc'.todo
           /\ cyc'.code = c => cyc'.pc \in {"entries", "entrySent"}
  <2>1. CASE cyc'.pc = cyc.pc /\ cyc'.code = cyc.code /\ cyc'.todo = cyc.todo
    BY <1>5, <2>1 DEF ToBuy
  <2>2. CASE cyc.pc = "exits"
    BY <2>2 DEF ToBuy, ExitPhase
  <2>3. CASE /\ cyc.pc \in EntryPhase /\ cyc'.todo \subseteq cyc.todo
             /\ \/ cyc.pc \in {"entries", "entrySent"}
                \/ cyc'.pc \in {"stop", "stopSent", "link"} /\ cyc'.code = cyc.code
                \/ cyc.code \notin cyc'.todo
    BY <1>5, <2>3 DEF ToBuy
  <2> QED BY <1>2, <1>5, <2>1, <2>2, <2>3 DEF CyclePath, ExitPhase, EntryPhase
<1> QED BY <1>3, <1>5 DEF ToBuy
\* An entry is recorded.
EntryComes(c) ==
  /\ cyc.pc = "entrySent" /\ cyc.code = c /\ c \in cyc.todo
  /\ UNCHANGED <<pos, outcomes, day>>
  /\ \E k \in Nat :
       /\ k \notin DOMAIN orders /\ DOMAIN orders' = DOMAIN orders \cup {k}
       /\ \A i \in DOMAIN orders : orders'[i] = orders[i]
       /\ orders'[k].code = c /\ orders'[k].pid = day /\ orders'[k].purpose = "entry"
       /\ orders'[k].filled = cyc.n
  /\ (cyc.n = 0 /\ ~Upserting(c)') \/ (cyc.n > 0 /\ Upserting(c)')
  /\ OrderId(c)' = OrderId(c) /\ ~ToBuy(c)'
  /\ \A d \in Codes \ {c} : StockStays(d)

\* A position is opened.
PositionComes(c) ==
  /\ Upserting(c) /\ ~pos[c].open
  /\ pos'[c].open /\ pos'[c].pid = day /\ Holding(c)' /\ ~Upserting(c)' /\ ~ToBuy(c)'
  /\ OrderId(c)' = 0 /\ StopNumber(c)' = NoOdno /\ ~Exiting(c)'
  /\ UNCHANGED <<orders, outcomes, day>>
  /\ \A d \in Codes \ {c} : StockStays(d)

\* The outcome of a position is recorded: of an exit, or of its stop.
OutcomeComes(c) ==
  /\ Holding(c) /\ ~Holding(c)' /\ ~Upserting(c)' /\ ~Settling(c)
  /\ \E o \in OutcomeRows :
       /\ o.code = c /\ o.pid = pos[c].pid /\ outcomes' = outcomes \cup {o}
       /\ \/ o.id \in DOMAIN orders /\ orders[o.id].purpose = "exit"
          \/ o.id = OrderId(c) /\ o.id # 0 /\ Settling(c)'
  /\ OrderId(c)' = OrderId(c)
  /\ UNCHANGED <<pos, orders, day>>
  /\ \A d \in Codes \ {c} : StockStays(d)

\* The ways of the book.
SharesPath ==
  \/ UNCHANGED <<outcomes, day>> /\ EntriesStay /\ \A c \in Codes : StockStays(c)
  \/ NewDay /\ UNCHANGED <<bookVars, cyc, watch>>
  \/ \E c \in Codes : EntryComes(c) \/ PositionComes(c) \/ OutcomeComes(c)

\* Later writes leave the entries alone.
LEMMA StopRewritten ==
  ASSUME NEW id, NEW c, StopOf(c, id), Rewritten(id)
  PROVE  EntriesStay
BY DEF EntriesStay, StopOf, Rewritten

\* The commits of the cycle in the exits.
LEMMA ExitShares ==
  ASSUME CustodyInv, UNCHANGED <<clock, watch>>, watch.pc = "idle",
         RecordRevision \/ RaiseBookStop \/ RecordExit \/ RecordExitOutcome \/ SettleExit
  PROVE  SharesPath
<1>0. /\ day' = day /\ \A c \in Codes : WatchAway(c) /\ WatchAway(c)'
      /\ \A c \in Codes : ~Settling(c) /\ ~Settling(c)'
  BY DEF clock, WatchAway, Settling
<1>1. CASE RecordRevision
  <2>1. /\ cyc.pc = "revised" /\ cyc'.pc = "raise" /\ StopOf(cyc.code, cyc.id) /\ Rewritten(cyc.id)
        /\ UNCHANGED <<pos, outcomes>>
    BY <1>1, RecordRevisionIs DEF CycleTo
  <2>2. \A c \in Codes : StockStays(c)
    BY <1>0, <2>1, StockAway DEF CycleAway
  <2>3. EntriesStay
    BY <2>1, StopRewritten
  <2> QED BY <1>0, <2>1, <2>2, <2>3 DEF SharesPath
<1>2. CASE RaiseBookStop
  <2>1. /\ cyc.pc = "raise" /\ cyc'.pc = "exits" /\ cyc.code \in Codes /\ Changed(cyc.code)
        /\ pos'[cyc.code].open = pos[cyc.code].open
        /\ pos'[cyc.code].active = pos[cyc.code].active
        /\ pos'[cyc.code].pid = pos[cyc.code].pid /\ UNCHANGED <<orders, outcomes>>
    BY <1>2, RaiseBookStopIs DEF CycleBack
  <2>2. ASSUME NEW c \in Codes PROVE StockStays(c)
    <3>1. /\ pos'[c].open = pos[c].open /\ pos'[c].active = pos[c].active
          /\ pos'[c].pid = pos[c].pid
      BY <2>1 DEF Changed
    <3> QED BY <1>0, <2>1, <3>1, StockAway DEF CycleAway
  <2> QED BY <1>0, <2>1, <2>2 DEF SharesPath, EntriesStay
<1>3. CASE RecordExit
  <2> DEFINE k == Len(orders) + 1
  <2>1. /\ cyc.pc = "exitSent" /\ cyc'.pc \in {"exits", "exitOutcome"}
        /\ DOMAIN orders' = DOMAIN orders \cup {k}
        /\ \A i \in DOMAIN orders : orders'[i] = orders[i]
        /\ orders'[k].purpose = "exit" /\ UNCHANGED <<pos, outcomes>>
    BY <1>3, RecordExitIs DEF CycleTo, CycleBack
  <2> HIDE DEF k
  <2>2. \A c \in Codes : StockStays(c)
    BY <1>0, <2>1, StockAway DEF CycleAway
  <2>3. EntriesStay
    BY <2>1 DEF EntriesStay
  <2> QED BY <1>0, <2>1, <2>2, <2>3 DEF SharesPath
<1>4. CASE RecordExitOutcome
  <2>1. PICK c \in Codes : c = cyc.code
    BY <1>4, RecordExitOutcomeIs
  <2> DEFINE o == [id |-> cyc.id, code |-> cyc.code, pid |-> pos[cyc.code].pid, qty |-> cyc.n]
  <2>2. /\ cyc.pc = "exitOutcome" /\ c \in cyc.todo /\ cyc'.pc = "exitClose" /\ cyc'.code = c
        /\ outcomes' = outcomes \cup {o} /\ o \in OutcomeRows /\ UNCHANGED <<pos, orders>>
    BY <1>4, <2>1, RecordExitOutcomeIs DEF CycleTo
  <2>3. o.code = c /\ o.pid = pos[c].pid /\ o.id = cyc.id
    BY <2>1
  <2> HIDE DEF o
  <2>4. pos[c].open
    BY <2>2 DEF CustodyInv, CycleReads, ExitPhase
  <2>5. cyc.id \in DOMAIN orders /\ orders[cyc.id].purpose = "exit"
    BY <2>2 DEF CustodyInv, CycleLocals
  <2>6. /\ Holding(c) /\ ~Holding(c)' /\ ~Upserting(c)' /\ OrderId(c)' = OrderId(c)
    BY <1>0, <2>2, <2>4 DEF Holding, Upserting, OrderId, WatchAway
  <2>7. ASSUME NEW d \in Codes \ {c} PROVE StockStays(d)
    BY <1>0, <2>1, <2>2, StockAway DEF CycleAway
  <2>8. OutcomeComes(c)
    BY <1>0, <2>2, <2>3, <2>5, <2>6, <2>7 DEF OutcomeComes
  <2> QED BY <2>8 DEF SharesPath
<1>5. CASE SettleExit
  <2>1. PICK c \in Codes : c = cyc.code
    BY <1>5, SettleExitIs
  <2>2. /\ cyc.pc = "exitClose" /\ cyc'.pc = "exits" /\ Changed(c)
        /\ pos'[c].open = FALSE /\ pos'[c].pid = pos[c].pid /\ pos'[c].active = pos[c].active
        /\ UNCHANGED <<orders, outcomes>>
    BY <1>5, <2>1, SettleExitIs DEF CycleBack
  <2>3. StockStays(c)
    <3>1. Exiting(c)
      BY <2>1, <2>2 DEF CustodyInv, CycleLocals, Exiting
    <3> QED BY <1>0, <2>1, <2>2, <3>1 DEF StockStays, Holding, Upserting, OrderId, WatchAway
  <2>4. ASSUME NEW d \in Codes \ {c} PROVE StockStays(d)
    <3>1. pos'[d] = pos[d]
      BY <2>2 DEF Changed
    <3> QED BY <1>0, <2>1, <2>2, <3>1, StockAway DEF CycleAway
  <2> QED BY <1>0, <2>2, <2>3, <2>4 DEF SharesPath, EntriesStay
<1> QED BY <1>1, <1>2, <1>3, <1>4, <1>5

\* The commits of the cycle in the entries.
LEMMA EntryShares ==
  ASSUME CustodyInv, UNCHANGED <<clock, watch, cycled>>, watch.pc = "idle",
         RecordEntry \/ BookEntry \/ RecordStop \/ LinkStop
  PROVE  SharesPath
<1>0. /\ day' = day /\ \A c \in Codes : WatchAway(c) /\ WatchAway(c)'
      /\ \A c \in Codes : ~Settling(c) /\ ~Settling(c)'
  BY DEF clock, WatchAway, Settling
<1>1. CASE RecordEntry
  <2>1. PICK c \in Codes : c = cyc.code
    BY <1>1, RecordEntryIs
  <2> DEFINE k == Len(orders) + 1
  <2>2. /\ cyc.pc = "entrySent" /\ c \in cyc.todo
        /\ \/ cyc.n = 0 /\ cyc'.pc = "entries" /\ cyc'.todo = cyc.todo \ {c}
           \/ cyc.n > 0 /\ cyc'.pc = "upsert" /\ cyc'.code = c
        /\ k \notin DOMAIN orders /\ k \in Nat /\ DOMAIN orders' = DOMAIN orders \cup {k}
        /\ \A i \in DOMAIN orders : orders'[i] = orders[i]
        /\ UNCHANGED <<pos, outcomes>>
    BY <1>1, <2>1, RecordEntryIs DEF CycleTo, CycleBack
  <2>3. /\ orders'[k].code = c /\ orders'[k].pid = day /\ orders'[k].purpose = "entry"
        /\ orders'[k].filled = cyc.answer.filled
    BY <1>1, <2>1, RecordEntryIs
  <2>4. cyc.n = cyc.answer.filled /\ cycled
    BY <2>2 DEF CustodyInv, CycleLocals, CycleTyped
  <2> HIDE DEF k
  <2>5. /\ OrderId(c)' = OrderId(c) /\ ~ToBuy(c)'
        /\ (cyc.n = 0 /\ ~Upserting(c)') \/ (cyc.n > 0 /\ Upserting(c)')
    <3>1. cyc'.pc # "link" /\ cyc.pc # "link" /\ cyc'.pc \notin ExitPhase /\ cycled'
      BY <2>2, <2>4 DEF ExitPhase
    <3>2. OrderId(c)' = OrderId(c)
      BY <1>0, <2>2, <3>1 DEF OrderId, WatchAway
    <3>3. ~(/\ cyc'.pc \in EntryPhase /\ c \in cyc'.todo
            /\ cyc'.code = c => cyc'.pc \in {"entries", "entrySent"})
      BY <2>2
    <3>4. ~ToBuy(c)'
      BY <3>1, <3>3 DEF ToBuy
    <3>5. (cyc.n = 0 /\ ~Upserting(c)') \/ (cyc.n > 0 /\ Upserting(c)')
      <4>1. CASE cyc.n = 0 /\ cyc'.pc = "entries"
        <5>1. ~Upserting(c)'
          BY <4>1 DEF Upserting
        <5> QED BY <4>1, <5>1
      <4>2. CASE cyc.n > 0 /\ cyc'.pc = "upsert" /\ cyc'.code = c
        <5>1. Upserting(c)'
          BY <4>2 DEF Upserting
        <5> QED BY <4>2, <5>1
      <4> QED BY <2>2, <4>1, <4>2
    <3> QED BY <3>2, <3>4, <3>5
  <2>6. ASSUME NEW d \in Codes \ {c} PROVE StockStays(d)
    BY <1>0, <2>1, <2>2, StockAway DEF CycleAway
  <2>7. EntryComes(c)
    BY <1>0, <2>1, <2>2, <2>3, <2>4, <2>5, <2>6 DEF EntryComes
  <2> QED BY <2>7 DEF SharesPath
<1>2. CASE BookEntry
  <2>1. PICK c \in Codes : c = cyc.code
    BY <1>2, BookEntryIs
  <2>2. /\ cyc.pc = "upsert" /\ c \in cyc.todo /\ cyc'.pc = "stop" /\ cyc'.code = c
        /\ ~pos[c].open /\ Changed(c) /\ pos'[c].open = TRUE /\ pos'[c].active = 0
        /\ pos'[c].pid = day /\ UNCHANGED <<orders, outcomes>>
    BY <1>2, <2>1, BookEntryIs DEF CycleTo
  <2>3. cycled
    BY <2>2 DEF CustodyInv, CycleTyped
  <2>4. OrderId(c)' = 0 /\ ~CycleSent(c)' /\ ~WatchSent(c)' /\ ~Exiting(c)'
    BY <1>0, <2>2 DEF OrderId, CycleSent, WatchSent, Exiting
  <2>5. StopNumber(c)' = NoOdno
    BY <2>4 DEF StopNumber
  <2>6. Upserting(c) /\ Holding(c)' /\ ~Upserting(c)' /\ ~ToBuy(c)'
    BY <1>0, <2>1, <2>2, <2>3 DEF Upserting, Holding, ToBuy, ExitPhase, EntryPhase
  <2>7. ASSUME NEW d \in Codes \ {c} PROVE StockStays(d)
    <3>1. pos'[d] = pos[d]
      BY <2>2 DEF Changed
    <3> QED BY <1>0, <2>1, <2>2, <3>1, StockAway DEF CycleAway
  <2>8. PositionComes(c)
    BY <1>0, <2>2, <2>4, <2>5, <2>6, <2>7 DEF PositionComes
  <2> QED BY <2>8 DEF SharesPath
<1>3. CASE RecordStop
  <2>1. PICK c \in Codes : c = cyc.code
    BY <1>3, RecordStopIs
  <2> DEFINE k == Len(orders) + 1
  <2>2. /\ cyc.pc = "stopSent" /\ cyc'.pc = "link" /\ cyc'.code = c /\ cyc'.id = k
        /\ k \notin DOMAIN orders /\ DOMAIN orders' = DOMAIN orders \cup {k}
        /\ \A i \in DOMAIN orders : orders'[i] = orders[i]
        /\ orders'[k].purpose = "stop" /\ UNCHANGED <<pos, outcomes>>
    BY <1>3, <2>1, RecordStopIs DEF CycleTo
  <2> HIDE DEF k
  <2>3. StockStays(c)
    <3>1. OrderId(c)' = k
      BY <2>2 DEF OrderId
    <3> QED BY <1>0, <2>2, <3>1 DEF StockStays, Holding, Upserting
  <2>4. ASSUME NEW d \in Codes \ {c} PROVE StockStays(d)
    BY <1>0, <2>1, <2>2, StockAway DEF CycleAway
  <2> QED BY <1>0, <2>2, <2>3, <2>4 DEF SharesPath, EntriesStay
<1>4. CASE LinkStop
  <2>1. PICK c \in Codes : c = cyc.code
    BY <1>4, LinkStopIs
  <2>2. /\ cyc.pc = "link" /\ cyc'.pc = "entries" /\ Changed(c)
        /\ pos'[c].open = pos[c].open /\ pos'[c].active = cyc.id
        /\ pos'[c].pid = pos[c].pid /\ UNCHANGED <<orders, outcomes>>
    BY <1>4, <2>1, LinkStopIs DEF CycleBack
  <2>3. StockStays(c)
    BY <1>0, <2>1, <2>2 DEF StockStays, Holding, Upserting, OrderId, WatchAway
  <2>4. ASSUME NEW d \in Codes \ {c} PROVE StockStays(d)
    <3>1. pos'[d] = pos[d]
      BY <2>2 DEF Changed
    <3> QED BY <1>0, <2>1, <2>2, <3>1, StockAway DEF CycleAway
  <2> QED BY <1>0, <2>2, <2>3, <2>4 DEF SharesPath, EntriesStay
<1> QED BY <1>1, <1>2, <1>3, <1>4
\* The commits of the watch while it settles.
LEMMA SettleShares ==
  ASSUME CustodyInv, WholeKept, StopsKept, UNCHANGED <<clock, cyc>>, cyc.pc = "idle",
         (\E c \in Codes : MarkFilled(c)) \/ RecordStopHit \/ SettlePosition
  PROVE  SharesPath
<1>0. /\ day' = day /\ \A c \in Codes : CycleAway(c) /\ CycleAway(c)'
  BY DEF clock, CycleAway
<1>1. ASSUME NEW d \in Codes, MarkFilled(d) PROVE SharesPath
  <2> DEFINE id == watch.rows[d].active
  <2>1. /\ watch.pc = "settle" /\ StopOf(d, id) /\ UNCHANGED <<pos, outcomes>>
        /\ watch'.pc \in {"settle", "settleOutcome"}
        /\ Rewritten(id) \/ orders' = orders
    BY <1>1, MarkFilledIs DEF WatchTo, WatchLoop
  <2> HIDE DEF id
  <2>2. \A c \in Codes : StockStays(c)
    BY <1>0, <2>1, StockAway DEF WatchAway
  <2>3. EntriesStay
    BY <2>1, StopRewritten DEF EntriesStay
  <2> QED BY <1>0, <2>1, <2>2, <2>3 DEF SharesPath
<1>2. CASE RecordStopHit
  <2>1. PICK c \in Codes : c = watch.code
    BY <1>2, RecordStopHitIs
  <2> DEFINE o == [id |-> watch.id, code |-> watch.code, pid |-> watch.rows[watch.code].pid,
                   qty |-> watch.n]
  <2>2. /\ watch.pc = "settleOutcome" /\ o \in OutcomeRows
        /\ watch.rows[c].pid = pos[c].pid /\ UNCHANGED <<pos, orders>>
        /\ \/ outcomes' = outcomes /\ watch'.pc = "aborted"
           \/ outcomes' = outcomes \cup {o} /\ watch'.pc = "settleClose" /\ watch'.code = c
    BY <1>2, <2>1, RecordStopHitIs DEF WatchTo
  <2>3. o.code = c /\ o.pid = pos[c].pid /\ o.id = watch.id
    BY <2>1, <2>2
  <2> HIDE DEF o
  <2>4. CASE outcomes' = outcomes /\ watch'.pc = "aborted"
    <3>1. \A d \in Codes : StockStays(d)
      BY <1>0, <2>2, <2>4, StockAway DEF WatchAway
    <3> QED BY <1>0, <2>2, <2>4, <3>1 DEF SharesPath, EntriesStay
  <2>5. CASE outcomes' = outcomes \cup {o} /\ watch'.pc = "settleClose" /\ watch'.code = c
    <3>1. /\ pos[c].open /\ watch.id = watch.rows[c].active /\ watch.id # 0
          /\ watch.rows[c].active = pos[c].active
      BY <2>1, <2>2, WatchHasAtHand, WatchStepsAre
      DEF CustodyInv, WatchLocals, WatchReads, SettlePhase, RegisterPhase, StalePhase
    <3>2. /\ Holding(c) /\ ~Holding(c)' /\ ~Upserting(c)' /\ OrderId(c)' = OrderId(c)
          /\ ~Settling(c) /\ Settling(c)' /\ OrderId(c) = watch.id
      BY <1>0, <2>2, <2>5, <3>1 DEF Holding, Upserting, OrderId, Settling, CycleAway
    <3>3. ASSUME NEW d \in Codes \ {c} PROVE StockStays(d)
      BY <1>0, <2>1, <2>2, <2>5, StockAway DEF WatchAway
    <3>4. OutcomeComes(c)
      BY <1>0, <2>2, <2>3, <2>5, <3>1, <3>2, <3>3 DEF OutcomeComes
    <3> QED BY <3>4 DEF SharesPath
  <2> QED BY <2>2, <2>4, <2>5
<1>3. CASE SettlePosition
  <2>1. PICK c \in Codes : c = watch.code
    BY <1>3, SettlePositionIs
  <2>2. /\ watch.pc = "settleClose" /\ watch'.pc = "settle" /\ Changed(c)
        /\ pos'[c].pid = pos[c].pid /\ pos'[c].active = pos[c].active
        /\ ~pos'[c].open \/ watch.n < pos[c].qty
        /\ UNCHANGED <<orders, outcomes>>
    BY <1>3, <2>1, SettlePositionIs DEF WatchLoop
  <2>3. ~pos'[c].open
    <3>1. watch.n = Lot /\ pos[c].qty \in Whole
      BY <2>2 DEF WholeKept, WholeWatch, WholeBook
    <3>2. ~(watch.n < pos[c].qty)
      BY <3>1, WholeIs DEF Whole
    <3> QED BY <2>2, <3>2
  <2>4. StockStays(c)
    BY <1>0, <2>1, <2>2, <2>3 DEF StockStays, Holding, Upserting, OrderId, Settling, CycleAway
  <2>5. ASSUME NEW d \in Codes \ {c} PROVE StockStays(d)
    <3>1. pos'[d] = pos[d]
      BY <2>2 DEF Changed
    <3> QED BY <1>0, <2>1, <2>2, <3>1, StockAway DEF WatchAway
  <2> QED BY <1>0, <2>2, <2>4, <2>5 DEF SharesPath, EntriesStay
<1> QED BY <1>1, <1>2, <1>3

\* The commits of the watch while it registers.
LEMMA RegisterShares ==
  ASSUME CustodyInv, StopsKept, UNCHANGED <<clock, cyc>>, cyc.pc = "idle",
         RecordRegistered \/ ExpireOldStop \/ LinkRegistered \/ RecordStaleRevision
  PROVE  SharesPath
<1>0. /\ day' = day /\ \A c \in Codes : CycleAway(c) /\ CycleAway(c)'
  BY DEF clock, CycleAway
<1>1. CASE RecordRegistered
  <2>1. PICK c \in Codes : c = watch.code
    BY <1>1, RecordRegisteredIs
  <2> DEFINE k == Len(orders) + 1
  <2>2. /\ watch.pc = "registered" /\ UNCHANGED <<pos, outcomes>>
        /\ \/ orders' = orders /\ watch'.pc = "register"
           \/ /\ watch'.pc \in {"link", "expire"} /\ watch'.code = c /\ watch'.id = k
              /\ k \notin DOMAIN orders /\ DOMAIN orders' = DOMAIN orders \cup {k}
              /\ \A i \in DOMAIN orders : orders'[i] = orders[i]
              /\ orders'[k].purpose = "stop"
    BY <1>1, <2>1, RecordRegisteredIs DEF WatchTo, WatchLoop
  <2> HIDE DEF k
  <2>3. CASE orders' = orders /\ watch'.pc = "register"
    <3>1. \A d \in Codes : StockStays(d)
      BY <1>0, <2>2, <2>3, StockAway DEF WatchAway
    <3> QED BY <1>0, <2>2, <2>3, <3>1 DEF SharesPath, EntriesStay
  <2>4. CASE watch'.pc # "register"
    <3>1. StockStays(c)
      <4>1. OrderId(c)' = k /\ k \notin DOMAIN orders
        BY <1>0, <2>2, <2>4 DEF OrderId, CycleAway
      <4> QED BY <1>0, <2>2, <2>4, <4>1 DEF StockStays, Holding, Upserting, Settling, CycleAway
    <3>2. ASSUME NEW d \in Codes \ {c} PROVE StockStays(d)
      BY <1>0, <2>1, <2>2, <2>4, StockAway DEF WatchAway
    <3> QED BY <1>0, <2>2, <2>4, <3>1, <3>2 DEF SharesPath, EntriesStay
  <2> QED BY <2>2, <2>3, <2>4
<1>2. CASE ExpireOldStop
  <2> DEFINE id == watch.rows[watch.code].active
  <2>1. /\ watch.pc = "expire" /\ watch'.pc = "link" /\ watch'.code = watch.code
        /\ watch'.id = watch.id
        /\ StopOf(watch.code, id) /\ Rewritten(id) /\ UNCHANGED <<pos, outcomes>>
    BY <1>2, ExpireOldStopIs DEF WatchTo
  <2> HIDE DEF id
  <2>2. \A c \in Codes : StockStays(c)
    BY <1>0, <2>1 DEF StockStays, Holding, Upserting, OrderId, Settling, CycleAway
  <2>3. EntriesStay
    BY <2>1, StopRewritten
  <2> QED BY <1>0, <2>1, <2>2, <2>3 DEF SharesPath
<1>3. CASE LinkRegistered
  <2>1. PICK c \in Codes : c = watch.code
    BY <1>3, LinkRegisteredIs
  <2>2. /\ watch.pc = "link" /\ watch'.pc = "register" /\ Changed(c)
        /\ pos'[c].open = pos[c].open /\ pos'[c].active = watch.id
        /\ pos'[c].pid = pos[c].pid /\ UNCHANGED <<orders, outcomes>>
    BY <1>3, <2>1, LinkRegisteredIs DEF WatchLoop
  <2>3. StockStays(c)
    BY <1>0, <2>1, <2>2 DEF StockStays, Holding, Upserting, OrderId, Settling, CycleAway
  <2>4. ASSUME NEW d \in Codes \ {c} PROVE StockStays(d)
    <3>1. pos'[d] = pos[d]
      BY <2>2 DEF Changed
    <3> QED BY <1>0, <2>1, <2>2, <3>1, StockAway DEF WatchAway
  <2> QED BY <1>0, <2>2, <2>3, <2>4 DEF SharesPath, EntriesStay
<1>4. CASE RecordStaleRevision
  <2> DEFINE id == watch.rows[watch.code].active
  <2>1. /\ watch.pc = "revised" /\ watch'.pc = "stale" /\ StopOf(watch.code, id) /\ Rewritten(id)
        /\ UNCHANGED <<pos, outcomes>>
    BY <1>4, RecordStaleRevisionIs DEF WatchLoop
  <2> HIDE DEF id
  <2>2. \A c \in Codes : StockStays(c)
    BY <1>0, <2>1, StockAway DEF WatchAway
  <2>3. EntriesStay
    BY <2>1, StopRewritten
  <2> QED BY <1>0, <2>1, <2>2, <2>3 DEF SharesPath
<1> QED BY <1>1, <1>2, <1>3, <1>4

\* Looking and calling leaves the shares in the book alone.
LEMMA BookWaits ==
  ASSUME UNCHANGED <<bookVars, day>>, \A c \in Codes : StockStays(c)
  PROVE  SharesPath
BY DEF bookVars, SharesPath, EntriesStay

\* Every step is one of the ways of the book.
LEMMA SharesGo ==
  ASSUME NoCrash, CustodyInv, WholeKept, StopsKept, [Next]_vars
  PROVE  SharesPath
<1>0. CycleTyped /\ WatchTyped
  BY DEF CustodyInv
<1>1. CASE UNCHANGED <<bookVars, cyc, watch, day>>
  BY <1>1, StockRests, BookWaits DEF bookVars
<1>2. CASE Nature /\ UNCHANGED <<bookVars, cyc, watch>>
  <2>1. CASE NewDay
    BY <1>2, <2>1 DEF SharesPath
  <2>2. CASE ~NewDay
    <3>1. day' = day
      BY <1>2, <2>2 DEF Nature, StopTrigger, StopTriggers, Close, MarketCloses
    <3> QED BY <1>1, <1>2, <3>1
  <2> QED BY <2>1, <2>2
<1>3. CASE Others
  BY <1>3 DEF Others, Crash, NoCrash, Release, ReleaseSafeStop, SharesPath, EntriesStay,
              StockStays, Holding, Settling, Upserting, OrderId, bookVars, watchVars, clock
<1>4. CASE (CycleLooks \/ CycleCalls) /\ UNCHANGED <<clock, bookVars, watchVars>>
  <2> DEFINE Away == /\ cyc.pc \notin {"link", "exitClose", "upsert"}
                     /\ cyc'.pc \notin {"link", "exitClose", "upsert"}
  <2>1. Away
    <3>1. ASSUME NEW plan \in SUBSET Codes, Quiet, GatePasses(plan) PROVE Away
      BY <3>1, GatePassesIs
    <3>2. CASE Quiet /\ GateHalts
      BY <3>2 DEF Quiet, GateHalts
    <3>3. ASSUME NEW c \in Codes, HoldPosition(c) PROVE Away
      BY <3>3, HoldPositionIs DEF CycleBack
    <3>4. CASE ExitsDone
      BY <3>4, ExitsDoneIs
    <3>5. CASE CycleEnds
      BY <3>5, CycleEndsIs
    <3>6. ASSUME NEW c \in Codes, NEW level \in Levels, RaiseBrokerStop(c, level) PROVE Away
      <4>1. cyc.pc = "exits" /\ cyc'.pc \in {"raise", "revised"}
        BY <3>6, RaiseBrokerStopIs DEF CycleTo
      <4> QED BY <4>1
    <3>7. ASSUME NEW c \in Codes, SendExit(c) PROVE Away
      BY <3>7, SendExitIs DEF CycleTo
    <3>8. ASSUME NEW c \in Codes, SendEntry(c) PROVE Away
      BY <3>8, SendEntryIs DEF CycleTo
    <3>9. CASE RegisterStop
      <4>1. cyc.pc = "stop" /\ cyc'.pc = "stopSent"
        BY <3>9, RegisterStopIs DEF CycleTo
      <4> QED BY <4>1
    <3> QED BY <1>4, <3>1, <3>2, <3>3, <3>4, <3>5, <3>6, <3>7, <3>8, <3>9 DEF CycleLooks, CycleCalls
  <2>2. watch.pc = "idle" /\ watch' = watch
    BY <1>0, <1>4, Apart DEF watchVars
  <2>3. \A c \in Codes : StockStays(c)
    BY <1>4, <2>1, <2>2, StockAway DEF CycleAway, WatchAway, bookVars
  <2> QED BY <1>4, <2>3, BookWaits DEF clock
<1>5. CASE CycleBooks /\ UNCHANGED <<clock, cycled, watchVars>>
  <2>1. watch.pc = "idle" /\ watch' = watch
    BY <1>0, <1>5, Apart DEF watchVars
  <2> QED BY <1>5, <2>1, ExitShares, EntryShares DEF CycleBooks
<1>6. CASE (WatchLooks \/ WatchCalls) /\ UNCHANGED <<clock, bookVars, cycleVars>>
  <2> DEFINE Away == /\ watch.pc \notin {"expire", "link", "settleClose"}
                     /\ watch'.pc \notin {"expire", "link", "settleClose"}
  <2>1. Away
    <3>1. CASE Quiet /\ WatchStarts
      BY <3>1, WatchStartsIs DEF WatchFresh
    <3>2. CASE Quiet /\ WatchNothing
      BY <3>2 DEF Quiet, WatchNothing
    <3>3. CASE FetchDailyOrders
      BY <3>3, FetchIs
    <3>4. CASE WatchAborts \/ WatchEnds
      BY <3>4 DEF WatchAborts, WatchEnds, WatchEnd, WatchAt, IdleWatch, WatchState
    <3>5. CASE SettlementDone
      <4>1. watch.pc = "settle" /\ watch'.pc \in {"register", "idle"}
        BY <3>5, SettlementDoneIs DEF WatchLoop, WatchFresh
      <4> QED BY <4>1
    <3>6. CASE RegistrationDone
      BY <3>6, RegistrationDoneIs DEF WatchLoop
    <3>7. ASSUME NEW c \in Codes, RegisterMissing(c) PROVE Away
      <4>1. watch.pc = "register" /\ watch'.pc = "registered"
        BY <3>7, RegisterMissingIs DEF WatchTo
      <4> QED BY <4>1
    <3>8. ASSUME NEW c \in Codes, ReviseStale(c) PROVE Away
      <4>1. watch.pc = "stale" /\ watch'.pc \in {"stale", "revised"}
        BY <3>8, ReviseStaleIs DEF WatchLoop, WatchTo
      <4> QED BY <4>1
    <3> QED BY <1>6, <3>1, <3>2, <3>3, <3>4, <3>5, <3>6, <3>7, <3>8 DEF WatchLooks, WatchCalls
  <2>2. cyc.pc = "idle" /\ cyc' = cyc
    BY <1>0, <1>6, Apart DEF cycleVars
  <2>3. \A c \in Codes : StockStays(c)
    BY <1>6, <2>1, <2>2, StockAway DEF CycleAway, WatchAway, bookVars
  <2> QED BY <1>6, <2>3, BookWaits DEF clock
<1>7. CASE WatchBooks /\ UNCHANGED <<clock, cycleVars>>
  <2>1. cyc.pc = "idle" /\ cyc' = cyc
    BY <1>0, <1>7, Apart DEF cycleVars
  <2> QED BY <1>7, <2>1, SettleShares, RegisterShares DEF WatchBooks
<1> QED BY <1>1, <1>2, <1>3, <1>4, <1>5, <1>6, <1>7, EveryStep DEF clock, vars, cycleVars, watchVars

-----------------------------------------------------------------------------
(* A sale is recorded once.                                                *)

\* The orders that have an outcome are in the book.
LEMMA TakenIn ==
  ASSUME CustodyInv, NEW id, OutcomeTaken(id)
  PROVE  id \in DOMAIN orders /\ id # 0
BY DEF OutcomeTaken, CustodyInv, BookTypes

\* The watch never finds the sale of a stop recorded before it records it.
LEMMA WatchGoesThrough ==
  ASSUME NoCrash, CustodyInv, StopsKept, BookedOnce, [Next]_vars
  PROVE  EveryFillIsBooked'
<1> USE DEF EveryFillIsBooked
<1>0. CycleTyped /\ WatchTyped
  BY DEF CustodyInv
<1>1. CASE watch' = watch
  BY <1>1 DEF BookedOnce
<1>2. CASE WatchLooks
  <2>1. CASE Quiet /\ WatchStarts
    BY <2>1, WatchStartsIs DEF WatchFresh
  <2>2. CASE Quiet /\ WatchNothing
    BY <1>1, <2>2 DEF WatchNothing
  <2>3. CASE FetchDailyOrders
    BY <2>3, FetchIs
  <2>4. CASE WatchAborts \/ WatchEnds
    BY <2>4 DEF WatchAborts, WatchEnds, WatchEnd, IdleWatch, WatchState
  <2>5. CASE SettlementDone
    <3>1. watch'.pc \in {"register", "idle"}
      BY <2>5, SettlementDoneIs DEF WatchLoop, WatchFresh
    <3> QED BY <3>1
  <2>6. CASE RegistrationDone
    BY <2>6, RegistrationDoneIs DEF WatchLoop
  <2> QED BY <1>2, <2>1, <2>2, <2>3, <2>4, <2>5, <2>6 DEF WatchLooks
<1>3. CASE WatchCalls
  <2>1. ASSUME NEW c \in Codes, RegisterMissing(c) PROVE EveryFillIsBooked'
    <3>1. watch'.pc = "registered"
      BY <2>1, RegisterMissingIs DEF WatchTo
    <3> QED BY <3>1
  <2>2. ASSUME NEW c \in Codes, ReviseStale(c) PROVE EveryFillIsBooked'
    <3>1. watch'.pc \in {"stale", "revised"}
      BY <2>2, ReviseStaleIs DEF WatchLoop, WatchTo
    <3> QED BY <3>1
  <2> QED BY <1>3, <2>1, <2>2 DEF WatchCalls
<1>4. CASE WatchBooks
  <2>1. ASSUME NEW c \in Codes, MarkFilled(c) PROVE EveryFillIsBooked'
    <3>1. watch'.pc \in {"settle", "settleOutcome"}
      BY <2>1, MarkFilledIs DEF WatchTo, WatchLoop
    <3> QED BY <3>1
  <2>2. CASE RecordStopHit
    <3>1. PICK c \in Codes : c = watch.code
      BY <2>2, RecordStopHitIs
    <3>2. /\ watch.pc = "settleOutcome"
          /\ OutcomeTaken(watch.id) \/ watch'.pc = "settleClose"
      BY <2>2, RecordStopHitIs DEF WatchTo
    <3>3. ~OutcomeTaken(watch.id)
      <4>1. cyc.pc = "idle" /\ c \in DOMAIN watch.rows
        BY <3>1, <3>2, WatchHasAtHand, WatchStepsAre DEF CustodyInv
      <4>2. pos[c].open /\ watch.id = watch.rows[c].active /\ watch.rows[c].active = pos[c].active
        BY <3>1, <3>2, <4>1 DEF CustodyInv, WatchLocals, WatchReads, RegisterPhase, StalePhase
      <4>3. OrderId(c) = watch.id /\ ~Settling(c)
        BY <3>2, <4>1, <4>2 DEF OrderId, Settling
      <4> QED BY <4>2, <4>3 DEF BookedOnce
    <3> QED BY <3>2, <3>3
  <2>3. CASE SettlePosition
    BY <2>3, SettlePositionIs DEF WatchLoop
  <2>4. CASE RecordRegistered
    <3>1. watch'.pc \in {"register", "link", "expire"}
      BY <2>4, RecordRegisteredIs DEF WatchTo, WatchLoop
    <3> QED BY <3>1
  <2>5. CASE ExpireOldStop
    BY <2>5, ExpireOldStopIs DEF WatchTo
  <2>6. CASE LinkRegistered
    BY <2>6, LinkRegisteredIs DEF WatchLoop
  <2>7. CASE RecordStaleRevision
    BY <2>7, RecordStaleRevisionIs DEF WatchLoop
  <2> QED BY <1>4, <2>1, <2>2, <2>3, <2>4, <2>5, <2>6, <2>7 DEF WatchBooks
<1>5. CASE Others
  BY <1>1, <1>5 DEF Others, Crash, NoCrash, Release, watchVars
<1> QED BY <1>1, <1>2, <1>3, <1>4, <1>5, EveryStep DEF watchVars, vars

\* What is booked stays booked once.
LEMMA BookedStep ==
  ASSUME NoCrash, CustodyInv, WholeKept, StopsKept, BookedOnce, [Next]_vars
  PROVE  BookedOnce'
<1>1. EveryFillIsBooked'
  BY WatchGoesThrough
<1>2. ASSUME NEW c \in Codes, StockStays(c), outcomes' = outcomes, pos'[c].open,
             OutcomeTaken(OrderId(c))'
      PROVE  Settling(c)'
  <2>1. OutcomeTaken(OrderId(c)')
    BY <1>2 DEF OutcomeTaken
  <2>2. OrderId(c)' \in DOMAIN orders
    BY <2>1, TakenIn
  <2>3. OrderId(c)' = OrderId(c) /\ pos[c].open
    BY <1>2, <2>2 DEF StockStays
  <2>4. Settling(c)
    BY <2>1, <2>3 DEF BookedOnce
  <2> QED BY <1>2, <2>4 DEF StockStays
<1>3. ASSUME NEW c \in Codes, pos'[c].open, OutcomeTaken(OrderId(c))' PROVE Settling(c)'
  <2>1. CASE UNCHANGED <<outcomes, day>> /\ EntriesStay /\ \A d \in Codes : StockStays(d)
    BY <1>2, <1>3, <2>1
  <2>2. CASE NewDay /\ UNCHANGED <<bookVars, cyc, watch>>
    <3>1. StockStays(c) /\ outcomes' = outcomes
      BY <2>2, StockRests DEF bookVars
    <3> QED BY <1>2, <1>3, <3>1
  <2>3. ASSUME NEW d \in Codes, EntryComes(d) PROVE Settling(c)'
    <3>1. CASE c = d
      <4>1. OrderId(d)' = OrderId(d) /\ UNCHANGED <<pos, outcomes>> /\ cyc.pc = "entrySent"
            /\ cyc.code = d /\ d \in cyc.todo
        BY <2>3 DEF EntryComes
      <4>2. ~pos[d].open
        BY <4>1 DEF CustodyInv, CycleReads, EntryPhase
      <4> QED BY <1>3, <3>1, <4>1, <4>2
    <3>2. CASE c # d
      <4>1. StockStays(c) /\ outcomes' = outcomes
        BY <2>3, <3>2 DEF EntryComes
      <4> QED BY <1>2, <1>3, <4>1
    <3> QED BY <3>1, <3>2
  <2>4. ASSUME NEW d \in Codes, PositionComes(d) PROVE Settling(c)'
    <3>1. CASE c = d
      <4>1. OrderId(d)' = 0 /\ outcomes' = outcomes
        BY <2>4 DEF PositionComes
      <4>2. OutcomeTaken(0)
        BY <1>3, <3>1, <4>1 DEF OutcomeTaken
      <4> QED BY <4>2, TakenIn
    <3>2. CASE c # d
      <4>1. StockStays(c) /\ outcomes' = outcomes
        BY <2>4, <3>2 DEF PositionComes
      <4> QED BY <1>2, <1>3, <4>1
    <3> QED BY <3>1, <3>2
  <2>5. ASSUME NEW d \in Codes, OutcomeComes(d) PROVE Settling(c)'
    <3>1. PICK o \in OutcomeRows :
            /\ outcomes' = outcomes \cup {o}
            /\ \/ o.id \in DOMAIN orders /\ orders[o.id].purpose = "exit"
               \/ o.id = OrderId(d) /\ o.id # 0 /\ Settling(d)'
      BY <2>5 DEF OutcomeComes
    <3>2. /\ UNCHANGED <<pos, orders>> /\ ~Settling(d) /\ OrderId(d)' = OrderId(d)
          /\ c # d => StockStays(c)
      BY <2>5 DEF OutcomeComes
    <3>3. o.id \in DOMAIN orders /\ o.id # 0
      BY <2>5, <3>1, OrderIs DEF StopOf, CustodyInv, BookTypes
    <3>4. PICK p \in outcomes' : p.id = OrderId(c)'
      BY <1>3 DEF OutcomeTaken
    <3>5. p.id \in DOMAIN orders
      BY <3>1, <3>3, <3>4, TakenIn DEF OutcomeTaken
    <3>6. OrderId(c)' = OrderId(c) /\ pos[c].open
      BY <1>3, <3>2, <3>4, <3>5 DEF StockStays
    <3>7. CASE p \in outcomes
      <4>1. OutcomeTaken(OrderId(c))
        BY <3>4, <3>6, <3>7 DEF OutcomeTaken
      <4>2. Settling(c)
        BY <3>6, <4>1 DEF BookedOnce
      <4> QED BY <1>3, <3>2, <4>2 DEF StockStays
    <3>8. CASE p = o
      <4>1. OrderId(c) = o.id
        BY <3>4, <3>6, <3>8
      <4>2. StopOf(c, o.id)
        BY <3>3, <4>1, OrderIs
      <4>3. o.id = OrderId(d) /\ Settling(d)'
        BY <3>1, <4>2 DEF StopOf
      <4>4. StopOf(d, o.id)
        BY <2>5, <3>3, <4>3, OrderIs
      <4>5. c = d
        BY <4>2, <4>4 DEF StopOf
      <4> QED BY <4>3, <4>5
    <3> QED BY <3>1, <3>4, <3>7, <3>8
  <2> QED BY <2>1, <2>2, <2>3, <2>4, <2>5, SharesGo DEF SharesPath
<1> QED BY <1>1, <1>3 DEF BookedOnce

-----------------------------------------------------------------------------
(* What is sold is gone.                                                   *)

\* The sales and purchases of the cycle, from the call to the book.
LEMMA DealsGo ==
  ASSUME NoCrash, CustodyInv, [Next]_vars, NEW c \in Codes
  PROVE  /\ Exiting(c)' => Exiting(c) \/ (SendExit(c) /\ UNCHANGED <<clock, watchVars>>)
         /\ Buying(c)' => \/ Buying(c) /\ cyc'.n = cyc.n
                          \/ SendEntry(c) /\ UNCHANGED <<clock, watchVars>>
         /\ Buying(c) => (Buying(c)' /\ cyc'.n = cyc.n) \/ cyc.n = 0 \/ pos'[c].open
<1> USE DEF Exiting, Buying
<1>1. CASE cyc' = cyc
  BY <1>1
<1>2. CASE Others
  BY <1>1, <1>2 DEF Others, Crash, NoCrash, Release, ReleaseSafeStop
<1>3. CASE CycleLooks
  <2> DEFINE Idle == {"idle", "exits", "entries"}
  <2>1. cyc.pc \in Idle /\ cyc'.pc \in Idle
    <3>1. ASSUME NEW plan \in SUBSET Codes, Quiet, GatePasses(plan)
          PROVE  cyc.pc \in Idle /\ cyc'.pc \in Idle
      BY <3>1, GatePassesIs
    <3>2. ASSUME Quiet, GateHalts PROVE cyc.pc \in Idle /\ cyc'.pc \in Idle
      BY <3>2 DEF Quiet, GateHalts
    <3>3. ASSUME NEW d \in Codes, HoldPosition(d) PROVE cyc.pc \in Idle /\ cyc'.pc \in Idle
      BY <3>3, HoldPositionIs DEF CycleBack
    <3>4. ASSUME ExitsDone PROVE cyc.pc \in Idle /\ cyc'.pc \in Idle
      BY <3>4, ExitsDoneIs
    <3>5. ASSUME CycleEnds PROVE cyc.pc \in Idle /\ cyc'.pc \in Idle
      BY <3>5, CycleEndsIs
    <3> QED BY <1>3, <3>1, <3>2, <3>3, <3>4, <3>5 DEF CycleLooks
  <2> QED BY <2>1
<1>4. CASE CycleCalls /\ UNCHANGED <<clock, watchVars>>
  <2>1. ASSUME NEW d \in Codes, NEW level \in Levels, RaiseBrokerStop(d, level)
        PROVE  cyc.pc = "exits" /\ cyc'.pc \in {"raise", "revised"}
    BY <2>1, RaiseBrokerStopIs DEF CycleTo
  <2>2. ASSUME NEW d \in Codes, SendExit(d)
        PROVE  cyc.pc = "exits" /\ cyc'.pc = "exitSent" /\ cyc'.code = d
    BY <2>2, SendExitIs DEF CycleTo
  <2>3. ASSUME NEW d \in Codes, SendEntry(d)
        PROVE  cyc.pc = "entries" /\ cyc'.pc = "entrySent" /\ cyc'.code = d
    BY <2>3, SendEntryIs DEF CycleTo
  <2>4. ASSUME RegisterStop PROVE cyc.pc = "stop" /\ cyc'.pc = "stopSent"
    BY <2>4, RegisterStopIs DEF CycleTo
  <2> QED BY <1>4, <2>1, <2>2, <2>3, <2>4 DEF CycleCalls
<1>5. CASE CycleBooks
  <2>1. CASE RecordRevision
    BY <2>1, RecordRevisionIs DEF CycleTo
  <2>2. CASE RaiseBookStop
    BY <2>2, RaiseBookStopIs DEF CycleBack
  <2>3. CASE RecordExit
    BY <2>3, RecordExitIs DEF CycleTo, CycleBack
  <2>4. CASE RecordExitOutcome
    BY <2>4, RecordExitOutcomeIs DEF CycleTo
  <2>5. CASE SettleExit
    BY <2>5, SettleExitIs DEF CycleBack
  <2>6. CASE RecordEntry
    <3>1. /\ cyc.pc = "entrySent"
          /\ \/ cyc.n = 0 /\ cyc'.pc = "entries"
             \/ cyc'.pc = "upsert" /\ cyc'.code = cyc.code /\ cyc'.n = cyc.n
      BY <2>6, RecordEntryIs DEF CycleTo, CycleBack
    <3> QED BY <3>1
  <2>7. CASE BookEntry
    <3>1. cyc.pc = "upsert" /\ cyc'.pc = "stop" /\ pos'[cyc.code].open
      BY <2>7, BookEntryIs DEF CycleTo
    <3> QED BY <3>1
  <2>8. CASE RecordStop
    BY <2>8, RecordStopIs DEF CycleTo
  <2>9. CASE LinkStop
    BY <2>9, LinkStopIs DEF CycleBack
  <2> QED BY <1>5, <2>1, <2>2, <2>3, <2>4, <2>5, <2>6, <2>7, <2>8, <2>9 DEF CycleBooks
<1> QED BY <1>1, <1>2, <1>3, <1>4, <1>5, EveryStep DEF cycleVars, vars

\* What the watch has recorded has been sold.
LEMMA SettlingSold ==
  ASSUME CustodyInv, WholeKept, StopsKept, NEW c \in Codes, Settling(c)
  PROVE  Sold(c)
<1>1. watch.pc = "settleClose" /\ watch.code = c
  BY DEF Settling
<1>2. cyc.pc = "idle" /\ c \in DOMAIN watch.rows /\ c \in watch.todo
  BY <1>1, WatchHasAtHand, WatchStepsAre DEF CustodyInv
<1>3. /\ watch.known /\ watch.rows[c].active # 0 /\ HasRow(watch.led, watch.rows[c].odno)
      /\ watch.rows[c].active = pos[c].active
  BY <1>1, <1>2
  DEF CustodyInv, WatchLocals, WatchReads, SettlePhase, RegisterPhase, StalePhase
<1>4. StopNumber(c) = orders[pos[c].active].odno
  BY <1>1, <1>2, <1>3 DEF StopNumber, CycleSent, WatchSent, OrderId
<1> DEFINE odno == watch.rows[c].odno
<1>5. /\ odno = StopNumber(c) /\ DOMAIN ledger = DOMAIN watch.led
      /\ \A i \in DOMAIN ledger : watch.led[i].filled <= ledger[i].filled
      /\ watch.n <= watch.led[odno[2]].filled
  BY <1>1, <1>2, <1>3, <1>4 DEF StopsKept, SnapshotKept, SettlePhase
<1> HIDE DEF odno
<1>6. HasRow(ledger, odno)
  BY <1>3, <1>5 DEF HasRow, odno
<1>7. watch.n = Lot
  BY <1>1 DEF WholeKept, WholeWatch
<1>8. odno[2] \in DOMAIN ledger
  BY <1>6 DEF HasRow
<1>9. ledger[odno[2]].filled \in Nat /\ watch.led[odno[2]].filled \in Nat
  <2>1. watch.led[odno[2]] \in LedgerRows
    BY <1>5, <1>8 DEF CustodyInv, WatchTyped, WatchStates
  <2> QED BY <1>8, <2>1, RowOf DEF CustodyInv, LedgerRows
<1>10. ledger[odno[2]].filled > 0
  <2>1. Lot <= watch.led[odno[2]].filled /\ watch.led[odno[2]].filled <= ledger[odno[2]].filled
    BY <1>5, <1>7, <1>8
  <2>2. Lot \in Nat /\ Lot > 0
    BY WholeIs
  <2> QED BY ONLY <1>9, <2>1, <2>2
<1> QED BY <1>5, <1>6, <1>10 DEF Sold

\* A purchase is one of the position that is opened.
LEMMA OpenedIs ==
  ASSUME SharesPath, NEW c \in Codes, ~pos[c].open, pos'[c].open
  PROVE  PositionComes(c)
<1>1. ~StockStays(c) /\ ~(pos' = pos)
  BY DEF StockStays
<1>2. ASSUME NEW d \in Codes, EntryComes(d) \/ OutcomeComes(d) PROVE FALSE
  BY <1>1, <1>2 DEF EntryComes, OutcomeComes
<1>3. ASSUME NEW d \in Codes, PositionComes(d), d # c PROVE FALSE
  BY <1>1, <1>3 DEF PositionComes
<1> QED BY <1>1, <1>2, <1>3 DEF SharesPath, bookVars

\* A position is closed by the cycle or by the watch.
LEMMA ClosedIs ==
  ASSUME SharesPath, NEW c \in Codes, pos[c].open, ~pos'[c].open
  PROVE  Exiting(c) \/ Settling(c)
<1>1. ~(pos' = pos) /\ (StockStays(c) => Exiting(c) \/ Settling(c))
  BY DEF StockStays
<1>2. ASSUME NEW d \in Codes, EntryComes(d) \/ OutcomeComes(d) PROVE FALSE
  BY <1>1, <1>2 DEF EntryComes, OutcomeComes
<1>3. ASSUME NEW d \in Codes, PositionComes(d) PROVE StockStays(c)
  BY <1>3 DEF PositionComes
<1> QED BY <1>1, <1>2, <1>3 DEF SharesPath, bookVars

\* A new position has no stop that could have sold it.
LEMMA OpenedUnsold ==
  ASSUME CustodyInv, NEW c \in Codes, PositionComes(c)
  PROVE  ~Sold(c)' /\ ~Exiting(c)' /\ day' = day
<1>1. StopNumber(c)' = NoOdno /\ day' = day /\ ~Exiting(c)'
  BY DEF PositionComes
<1>2. NoOdno[1] # day
  BY DEF NoOdno, CustodyInv, AccountTypes
<1> QED BY <1>1, <1>2 DEF Sold, HasRow

\* Where shares are held after a step they were held before, or have just been bought.
LEMMA HeldComes ==
  ASSUME CustodyInv, FillPath, [Next]_vars, NEW c \in Codes, held'[c] # 0, held[c] = 0
  PROVE  ~pos[c].open /\ pos' = pos /\ Buying(c)' /\ cyc'.n > 0
<1>1. PICK d \in Codes :
        /\ FillOf(d) /\ held[d] = 0 /\ held'[d] = Lot
        /\ cyc.pc = "entries" /\ d \in cyc.todo
        /\ cyc'.pc = "entrySent" /\ cyc'.code = d /\ cyc'.n = Lot
        /\ UNCHANGED <<bookVars, cycled, safeStop, watch, swept, session>>
  <2>1. CASE NoFill
    BY <2>1 DEF NoFill
  <2>2. CASE NewDay
    BY <2>2 DEF NewDay, DayBegins
  <2>3. ASSUME NEW d \in Codes, FillOf(d), held'[d] = 0
        PROVE  FALSE
    BY <2>3 DEF FillOf
  <2> QED BY <2>1, <2>2, <2>3 DEF FillPath
<1>2. d = c
  BY <1>1 DEF FillOf
<1>3. ~pos[c].open
  BY <1>1, <1>2 DEF CustodyInv, CycleReads, EntryPhase
<1> QED BY <1>1, <1>2, <1>3, WholeIs DEF Buying, bookVars

\* While the number of a stop stays, it has sold what it had sold, or it has just been filled.
LEMMA SoldComes ==
  ASSUME CustodyInv, FillPath, NEW c \in Codes, StopNumber(c)' = StopNumber(c), Sold(c)', held[c] # 0
  PROVE  Sold(c) \/ held'[c] = 0
<1> DEFINE sn == StopNumber(c)
<1>1. NumberOf(sn, c)
  BY NumberIs
<1>2. sn[1] = day' /\ sn[2] \in DOMAIN ledger' /\ ledger'[sn[2]].filled > 0
  BY DEF Sold, HasRow
<1>3. CASE NewDay /\ NewLedger
  BY <1>2, <1>3 DEF NewLedger
<1>4. CASE day' = day
  <2>1. HasRow(ledger, sn) /\ ledger[sn[2]].code = c
    BY <1>1, <1>2, <1>4, ConstantsAre DEF NumberOf, CustodyInv, AccountTypes
  <2> HIDE DEF sn
  <2>2. sn[2] \in DOMAIN ledger
    BY <2>1 DEF HasRow
  <2>3. RowStays(sn[2]) => Sold(c)
    BY <1>2, <2>1 DEF RowStays, Sold, sn
  <2>4. CASE NoFill
    BY <1>2, <2>2, <2>3, <2>4 DEF NoFill
  <2>5. ASSUME NEW d \in Codes, FillOf(d), held'[d] = 0
        PROVE  Sold(c) \/ held'[c] = 0
    BY <1>2, <2>1, <2>2, <2>3, <2>5 DEF FillOf
  <2>6. ASSUME NEW d \in Codes, FillOf(d), held[d] = 0
        PROVE  Sold(c)
    BY <1>2, <2>1, <2>2, <2>3, <2>6 DEF FillOf
  <2>7. CASE NewDay /\ NewLedger
    BY <1>3, <2>7
  <2> QED BY <2>4, <2>5, <2>6, <2>7 DEF FillPath
<1> QED BY <1>3, <1>4 DEF FillPath, NoFill, FillOf

\* What has been filled before the exits are over is gone.
LEMMA FilledGone ==
  ASSUME CustodyInv, FillPath, GoneKept, [Next]_vars, ~cycled' \/ cyc'.pc \in ExitPhase,
         NEW i \in DOMAIN ledger', ledger'[i].filled > 0
  PROVE  held'[ledger'[i].code] = 0
<1>1. CASE NewDay
  BY <1>1 DEF NewDay, DayBegins
<1>2. CASE ~NewDay
  <2>1. ~cycled \/ cyc.pc \in ExitPhase
    BY <1>2, ExitsFirst
  <2>2. ASSUME i \in DOMAIN ledger, ledger[i].filled > 0
        PROVE  held[ledger[i].code] = 0 /\ ledger[i].code \in Codes
    BY <2>1, <2>2, RowOf DEF GoneKept, CustodyInv
  <2>3. CASE NoFill
    BY <2>2, <2>3 DEF NoFill, RowStays
  <2>4. ASSUME NEW d \in Codes, FillOf(d), held'[d] = 0
        PROVE  held'[ledger'[i].code] = 0
    BY <2>2, <2>4 DEF FillOf, RowStays
  <2>5. cyc.pc # "entries"
    BY <2>1 DEF CustodyInv, CycleTyped, ExitPhase
  <2> QED BY <1>2, <2>3, <2>4, <2>5 DEF FillPath
<1> QED BY <1>1, <1>2

\* What is held of a stock has not been sold, or is not in the book yet.
LEMMA GoneStep ==
  ASSUME NoPartial, NoCrash, CustodyInv, CustodyInv', WholeKept, StopsKept, GoneKept, [Next]_vars
  PROVE  GoneKept'
<1>1. FillPath /\ SharesPath
  BY FillsGo, SharesGo
<1>2. ASSUME NEW c \in Codes, held'[c] # 0
      PROVE  IF pos'[c].open THEN ~Sold(c)' /\ ~Exiting(c)' ELSE Buying(c)' /\ cyc'.n > 0
  <2>1. CASE held[c] = 0
    BY <1>1, <1>2, <2>1, HeldComes
  <2>2. CASE held[c] # 0 /\ ~pos[c].open /\ pos'[c].open
    BY <1>1, <2>2, OpenedIs, OpenedUnsold
  <2>3. CASE held[c] # 0 /\ ~pos[c].open /\ ~pos'[c].open
    <3>1. Buying(c) /\ cyc.n > 0
      BY <2>3 DEF GoneKept
    <3> QED BY <2>3, <3>1, DealsGo
  <2>4. CASE held[c] # 0 /\ pos[c].open /\ ~pos'[c].open
    <3>1. ~Sold(c) /\ ~Exiting(c)
      BY <2>4 DEF GoneKept
    <3> QED BY <1>1, <2>4, <3>1, ClosedIs, SettlingSold
  <2>5. CASE held[c] # 0 /\ pos[c].open /\ pos'[c].open
    <3>1. ~Sold(c) /\ ~Exiting(c)
      BY <2>5 DEF GoneKept
    <3>2. CASE Renewed(c)
      BY <2>5, <3>2, RenewedHolds
    <3>3. CASE ~Renewed(c)
      <4>1. ~Sold(c)'
        BY <1>1, <1>2, <2>5, <3>1, <3>3, NumberStays, SoldComes
      <4>2. ASSUME Exiting(c)' PROVE FALSE
        <5>1. SendExit(c) /\ UNCHANGED <<clock, watchVars>>
          BY <3>1, <4>2, DealsGo
        <5>2. cyc.pc = "exits" /\ cyc'.n > 0
          BY <4>2, <5>1, SaleFills DEF Exiting
        <5>3. FillOf(c) /\ held'[c] = 0
          <6>1. ASSUME NEW i \in DOMAIN ledger, ledger[i].code = c, ledger[i].filled = cyc'.n
                PROVE  FALSE
            BY <2>5, <5>2, <6>1 DEF GoneKept, ExitPhase
          <6> QED BY <5>1, <5>2, <6>1, SaleFills
        <5> QED BY <1>2, <5>3
      <4> QED BY <2>5, <4>1, <4>2
    <3> QED BY <3>2, <3>3
  <2> QED BY <2>1, <2>2, <2>3, <2>4, <2>5
<1> QED BY <1>1, <1>2, FilledGone DEF GoneKept

-----------------------------------------------------------------------------
(* The shares that are recorded.                                           *)

\* The entries of a stock are what they were, but perhaps those of a day.
EntriesSame(c, d) ==
  \A p \in 0 .. MaxDays : p # d =>
    Bought(c, p)' = Bought(c, p) /\ (BoughtWhole(c, p) => BoughtWhole(c, p)')

\* So are its outcomes.
OutcomesSame(c, d) == \A p \in 0 .. MaxDays : p # d => OutcomesOf(c, p)' = OutcomesOf(c, p)

\* A day that no record bears.
NoDate == MaxDays + 1

\* Days are no later than the last.
LEMMA DaysAre ==
  ASSUME CustodyInv
  PROVE  /\ day \in 0 .. MaxDays /\ day # NoDate /\ day # 0
         /\ \A c \in Codes : pos[c].pid \in 0 .. MaxDays /\ pos[c].pid # NoDate
         /\ \A o \in outcomes : o.code \in Codes /\ o.pid \in 0 .. MaxDays /\ o.pid # NoDate
<1>1. MaxDays \in Nat
  BY ConstantsAre
<1>2. day \in 1 .. MaxDays
  BY DEF CustodyInv, AccountTypes
<1>3. \A c \in Codes : pos[c].pid \in 0 .. MaxDays
  BY PositionIs DEF CustodyInv
<1>4. \A o \in outcomes : o.code \in Codes /\ o.pid \in 0 .. MaxDays
  BY DEF CustodyInv, BookTypes, OutcomeRows
<1>5. \A p \in 0 .. MaxDays : p # NoDate
  BY <1>1 DEF NoDate
<1>6. day \in 0 .. MaxDays /\ day # 0
  BY <1>1, <1>2
<1> QED BY <1>3, <1>4, <1>5, <1>6

\* An order of the book stays, and only the day's entry comes.
LEMMA EntriesFrom ==
  ASSUME OrdersKept, NEW c, NEW d,
         \A k \in DOMAIN orders : orders[k].purpose = "entry" => orders'[k].filled = orders[k].filled,
         \A k \in DOMAIN orders' \ DOMAIN orders :
           orders'[k].purpose # "entry" \/ orders'[k].code # c \/ orders'[k].pid = d
  PROVE  EntriesSame(c, d)
<1> SUFFICES ASSUME NEW p \in 0 .. MaxDays, p # d
             PROVE  Bought(c, p)' = Bought(c, p) /\ (BoughtWhole(c, p) => BoughtWhole(c, p)')
  BY DEF EntriesSame
<1>1. Bought(c, p)' = Bought(c, p)
  BY DEF Bought, OrdersKept
<1>2. ASSUME NEW k \in DOMAIN orders, Bought(c, p) = {k}
      PROVE  k \in DOMAIN orders' /\ orders'[k].filled = orders[k].filled
  BY <1>2 DEF Bought, OrdersKept
<1> QED BY <1>1, <1>2 DEF BoughtWhole

\* A stock that is left alone keeps what is recorded of its shares.
LEMMA SharesStay ==
  ASSUME CustodyInv, [Next]_vars, ~NewDay, day' = day, NEW c \in Codes, SharesOf(c),
         StockStays(c), EntriesSame(c, NoDate), OutcomesSame(c, NoDate)
  PROVE  SharesOf(c)'
<1>1. ToBuy(c)' => ToBuy(c)
  BY ToBuyStays
<1>2. /\ day \in 0 .. MaxDays /\ day # NoDate
      /\ pos[c].pid \in 0 .. MaxDays /\ pos[c].pid # NoDate
  BY DaysAre
<1>3. PICK p \in 0 .. MaxDays : p = pos[c].pid
  BY <1>2
<1>4. PICK d \in 0 .. MaxDays : d = day
  BY <1>2
<1>5. /\ Bought(c, d)' = Bought(c, d) /\ OutcomesOf(c, d)' = OutcomesOf(c, d)
      /\ BoughtWhole(c, d) => BoughtWhole(c, d)'
      /\ OutcomesOf(c, p)' = OutcomesOf(c, p)
      /\ BoughtWhole(c, p) => BoughtWhole(c, p)'
  BY <1>2, <1>3, <1>4 DEF EntriesSame, OutcomesSame
<1>6. d = day' /\ p = pos'[c].pid
  BY <1>3, <1>4 DEF StockStays
<1> QED BY <1>1, <1>3, <1>4, <1>5, <1>6 DEF SharesOf, StockStays

\* So do the outcomes.
LEMMA OutcomesStay ==
  ASSUME outcomes' = outcomes, NEW c, NEW d
  PROVE  OutcomesSame(c, d)
BY DEF OutcomesSame, OutcomesOf

\* And the entries, where none is recorded.
LEMMA EntriesRest ==
  ASSUME OrdersKept, EntriesStay, NEW c, NEW d
  PROVE  EntriesSame(c, d)
BY EntriesFrom DEF EntriesStay

\* What is recorded of the outcomes stays, when none comes.
LEMMA OutcomeRowsStay ==
  ASSUME CustodyInv, SharesKept, outcomes' = outcomes, NEW c \in Codes, NEW p \in 0 .. MaxDays,
         NEW o \in outcomes, o.code = c, o.pid = p, EntriesSame(c, NoDate)
  PROVE  o.pid # 0 /\ OutcomesOf(c, p)' = {o} /\ BoughtWhole(c, p)'
<1>1. p # NoDate
  BY DaysAre
<1> QED BY <1>1 DEF SharesKept, EntriesSame, OutcomesOf

\* A new day finds nothing of its date.
LEMMA NewDayShares ==
  ASSUME CustodyInv, SharesKept, NewDay, UNCHANGED <<bookVars, cyc, watch>>
  PROVE  SharesKept'
<1>0. UNCHANGED <<pos, orders, outcomes, cyc, watch>>
  BY DEF bookVars
<1>1. day' = day + 1 /\ cyc.pc = "idle" /\ day \in Nat
  BY ConstantsAre DEF NewDay, DayBegins, Quiet, CustodyInv, AccountTypes
<1>2. /\ \A i \in DOMAIN orders : orders[i].pid # day'
      /\ \A o \in outcomes : o.pid # day'
      /\ \A c \in Codes : pos[c].pid # day'
  <2>1. /\ \A c \in Codes : pos[c].pid \in Nat /\ pos[c].pid <= day
        /\ \A i \in DOMAIN orders : orders[i].pid \in Nat /\ orders[i].pid <= day
        /\ \A o \in outcomes : o.pid \in Nat /\ o.pid <= day
    <3>1. MaxDays \in Nat
      BY ConstantsAre
    <3>2. \A c \in Codes : pos[c].pid \in Nat /\ pos[c].pid <= day
      BY <3>1, PositionIs DEF CustodyInv, DatesKept
    <3>3. \A i \in DOMAIN orders : orders[i].pid \in Nat /\ orders[i].pid <= day
      <4>1. \A i \in DOMAIN orders : orders[i] \in OrderRows
        BY DEF CustodyInv, BookTypes
      <4> QED BY <3>1, <4>1 DEF CustodyInv, DatesKept, OrderRows
    <3>4. \A o \in outcomes : o.pid \in Nat /\ o.pid <= day
      BY <3>1 DEF CustodyInv, DatesKept, BookTypes, OutcomeRows
    <3> QED BY <3>2, <3>3, <3>4
  <2> QED BY <1>1, <2>1
<1>3. ASSUME NEW c \in Codes PROVE SharesOf(c)'
  <2>1. Bought(c, day)' = {} /\ OutcomesOf(c, day)' = {} /\ ~Upserting(c)'
    BY <1>0, <1>1, <1>2 DEF Bought, OutcomesOf, Upserting
  <2>2. Holding(c)' <=> Holding(c)
    BY <1>0 DEF Holding, Settling
  <2>3. BoughtWhole(c, pos[c].pid)' <=> BoughtWhole(c, pos[c].pid)
    BY <1>0 DEF BoughtWhole, Bought
  <2>4. OutcomesOf(c, pos[c].pid)' = OutcomesOf(c, pos[c].pid)
    BY <1>0 DEF OutcomesOf
  <2> QED BY <1>0, <1>2, <2>1, <2>2, <2>3, <2>4 DEF SharesOf, SharesKept
<1>4. ASSUME NEW o \in outcomes
      PROVE  /\ OutcomesOf(o.code, o.pid)' = OutcomesOf(o.code, o.pid)
             /\ BoughtWhole(o.code, o.pid)' <=> BoughtWhole(o.code, o.pid)
  BY <1>0 DEF OutcomesOf, BoughtWhole, Bought
<1> QED BY <1>0, <1>3, <1>4 DEF SharesKept

\* Where nothing of the shares is booked.
LEMMA QuietShares ==
  ASSUME CustodyInv, SharesKept, OrdersKept, [Next]_vars, UNCHANGED <<outcomes, day>>, ~NewDay,
         EntriesStay, \A c \in Codes : StockStays(c)
  PROVE  SharesKept'
<1>1. ASSUME NEW c \in Codes PROVE SharesOf(c)'
  BY <1>1, SharesStay, EntriesRest, OutcomesStay DEF SharesKept
<1>2. ASSUME NEW o \in outcomes
      PROVE  o.pid # 0 /\ OutcomesOf(o.code, o.pid)' = {o} /\ BoughtWhole(o.code, o.pid)'
  <2>1. PICK c \in Codes, p \in 0 .. MaxDays : c = o.code /\ p = o.pid
    BY DaysAre
  <2>2. o.pid # 0 /\ OutcomesOf(c, p)' = {o} /\ BoughtWhole(c, p)'
    BY <2>1, OutcomeRowsStay, EntriesRest
  <2> QED BY <2>1, <2>2
<1> QED BY <1>1, <1>2 DEF SharesKept

\* A stock that is left alone, where no outcome of it comes.
LEMMA OtherShares ==
  ASSUME CustodyInv, SharesKept, [Next]_vars, ~NewDay, day' = day, NEW c \in Codes,
         StockStays(c), EntriesSame(c, NoDate), OutcomesSame(c, NoDate)
  PROVE  SharesOf(c)'
BY SharesStay DEF SharesKept

\* An entry is recorded: the one of its day.
LEMMA EntrySharesKept ==
  ASSUME CustodyInv, CustodyInv', WholeKept, SharesKept, OrdersKept, [Next]_vars, ~NewDay,
         NEW c \in Codes, EntryComes(c)
  PROVE  SharesKept'
<1>1. /\ cyc.pc = "entrySent" /\ cyc.code = c /\ c \in cyc.todo /\ UNCHANGED <<pos, outcomes, day>>
      /\ \A d \in Codes \ {c} : StockStays(d)
      /\ ~ToBuy(c)' /\ (Upserting(c)' => cyc.n > 0)
  BY DEF EntryComes
<1>2. PICK k \in Nat :
        /\ k \notin DOMAIN orders /\ DOMAIN orders' = DOMAIN orders \cup {k}
        /\ \A i \in DOMAIN orders : orders'[i] = orders[i]
        /\ orders'[k].code = c /\ orders'[k].pid = day /\ orders'[k].purpose = "entry"
        /\ orders'[k].filled = cyc.n
  BY DEF EntryComes
<1>3. /\ Bought(c, day) = {} /\ pos[c].pid # day /\ OutcomesOf(c, day) = {} /\ ToBuy(c)
  <2>1. ToBuy(c)
    BY <1>1 DEF ToBuy, EntryPhase
  <2> QED BY <2>1 DEF SharesKept, SharesOf
<1>4. ~pos[c].open
  BY <1>1 DEF CustodyInv, CycleReads, EntryPhase
<1>5. PICK d \in 0 .. MaxDays : d = day
  BY DaysAre
<1>6. \A e \in Codes \ {c} : EntriesSame(e, NoDate)
  BY <1>2, EntriesFrom
<1>7. EntriesSame(c, d)
  BY <1>2, <1>5, EntriesFrom
<1>8. SharesOf(c)'
  <2>1. ASSUME Upserting(c)' PROVE BoughtWhole(c, day)'
    <3>1. Bought(c, day)' = {k}
      BY <1>1, <1>2, <1>3 DEF Bought
    <3>2. cyc.n = Lot
      BY <1>1, <2>1, WholeIs DEF WholeKept, WholeCycle
    <3> QED BY <1>2, <3>1, <3>2 DEF BoughtWhole
  <2>2. OutcomesOf(c, day)' = {} /\ pos'[c].pid # day' /\ ~pos'[c].open
    BY <1>1, <1>3, <1>4 DEF OutcomesOf
  <2>3. PICK p \in 0 .. MaxDays : p = pos[c].pid
    BY DaysAre
  <2>4. /\ BoughtWhole(c, p) => BoughtWhole(c, p)'
        /\ OutcomesOf(c, p)' = OutcomesOf(c, p)
    BY <1>1, <1>3, <1>5, <1>7, <2>3 DEF EntriesSame, OutcomesOf
  <2>5. ~Holding(c) /\ ~Holding(c)'
    BY <1>1, <1>4 DEF Holding
  <2>6. p # 0 => BoughtWhole(c, p) /\ OutcomesOf(c, p) # {}
    BY <2>3, <2>5 DEF SharesKept, SharesOf
  <2> QED BY <1>1, <2>1, <2>2, <2>3, <2>4, <2>5, <2>6 DEF SharesOf
<1>9. ASSUME NEW e \in Codes \ {c} PROVE SharesOf(e)'
  BY <1>1, <1>6, OutcomesStay, OtherShares
<1>10. ASSUME NEW o \in outcomes
       PROVE  o.pid # 0 /\ OutcomesOf(o.code, o.pid)' = {o} /\ BoughtWhole(o.code, o.pid)'
  <2>1. PICK e \in Codes, p \in 0 .. MaxDays : e = o.code /\ p = o.pid
    BY DaysAre
  <2>2. CASE e # c
    <3>1. o.pid # 0 /\ OutcomesOf(e, p)' = {o} /\ BoughtWhole(e, p)'
      BY <1>1, <1>6, <2>1, <2>2, OutcomeRowsStay
    <3> QED BY <2>1, <3>1
  <2>3. CASE e = c
    <3>1. p # d
      BY <1>3, <1>5, <2>1, <2>3 DEF OutcomesOf
    <3>2. BoughtWhole(c, p) => BoughtWhole(c, p)'
      BY <1>7, <3>1 DEF EntriesSame
    <3>3. o.pid # 0 /\ OutcomesOf(c, p) = {o} /\ BoughtWhole(c, p)
      BY <2>1, <2>3 DEF SharesKept
    <3>4. OutcomesOf(c, p)' = OutcomesOf(c, p)
      BY <1>1 DEF OutcomesOf
    <3> QED BY <2>1, <2>3, <3>2, <3>3, <3>4
  <2> QED BY <2>2, <2>3
<1> QED BY <1>1, <1>8, <1>9, <1>10 DEF SharesKept

\* A position is opened for the entry of the day.
LEMMA PositionSharesKept ==
  ASSUME CustodyInv, SharesKept, OrdersKept, [Next]_vars, ~NewDay, NEW c \in Codes, PositionComes(c)
  PROVE  SharesKept'
<1>1. /\ Upserting(c) /\ pos'[c].open /\ pos'[c].pid = day /\ Holding(c)' /\ ~Upserting(c)'
      /\ ~ToBuy(c)' /\ UNCHANGED <<orders, outcomes, day>>
      /\ \A d \in Codes \ {c} : StockStays(d)
  BY DEF PositionComes
<1>2. \A e \in Codes : EntriesSame(e, NoDate)
  BY <1>1, EntriesRest DEF EntriesStay
<1>3. SharesOf(c)'
  <2>1. BoughtWhole(c, day) /\ OutcomesOf(c, day) = {} /\ day # 0
    BY <1>1, DaysAre DEF SharesKept, SharesOf
  <2>2. BoughtWhole(c, pos[c].pid)' /\ OutcomesOf(c, pos[c].pid)' = {} /\ pos'[c].pid # 0
    BY <1>1, <2>1 DEF BoughtWhole, Bought, OutcomesOf
  <2> QED BY <1>1, <2>2 DEF SharesOf
<1>4. ASSUME NEW e \in Codes \ {c} PROVE SharesOf(e)'
  BY <1>1, <1>2, OutcomesStay, OtherShares
<1>5. ASSUME NEW o \in outcomes
      PROVE  o.pid # 0 /\ OutcomesOf(o.code, o.pid)' = {o} /\ BoughtWhole(o.code, o.pid)'
  <2>1. PICK e \in Codes, p \in 0 .. MaxDays : e = o.code /\ p = o.pid
    BY DaysAre
  <2>2. o.pid # 0 /\ OutcomesOf(e, p)' = {o} /\ BoughtWhole(e, p)'
    BY <1>1, <1>2, <2>1, OutcomeRowsStay
  <2> QED BY <2>1, <2>2
<1> QED BY <1>1, <1>3, <1>4, <1>5 DEF SharesKept

\* The outcome of a position is recorded: the first it has.
LEMMA OutcomeSharesKept ==
  ASSUME CustodyInv, SharesKept, OrdersKept, [Next]_vars, ~NewDay, NEW c \in Codes, OutcomeComes(c)
  PROVE  SharesKept'
<1>1. /\ Holding(c) /\ ~Holding(c)' /\ ~Upserting(c)' /\ UNCHANGED <<pos, orders, day>>
      /\ \A d \in Codes \ {c} : StockStays(d)
  BY DEF OutcomeComes
<1>2. PICK o \in OutcomeRows : o.code = c /\ o.pid = pos[c].pid /\ outcomes' = outcomes \cup {o}
  BY DEF OutcomeComes
<1>3. PICK p \in 0 .. MaxDays : p = pos[c].pid /\ p # NoDate
  BY DaysAre
<1>4. PICK d \in 0 .. MaxDays : d = day
  BY DaysAre
<1>5. p # 0 /\ OutcomesOf(c, p) = {} /\ BoughtWhole(c, p)
  BY <1>1, <1>3 DEF SharesKept, SharesOf, Holding
<1>6. \A e \in Codes : EntriesSame(e, NoDate)
  BY <1>1, EntriesRest DEF EntriesStay
<1>7. /\ \A e \in Codes \ {c} : OutcomesSame(e, NoDate)
      /\ OutcomesSame(c, p)
  BY <1>2, <1>3 DEF OutcomesSame, OutcomesOf
<1>8. OutcomesOf(c, p)' = {o} /\ BoughtWhole(c, p)'
  <2>1. OutcomesOf(c, p)' = {o}
    BY <1>2, <1>3, <1>5 DEF OutcomesOf
  <2>2. BoughtWhole(c, p)'
    BY <1>1, <1>5 DEF BoughtWhole, Bought
  <2> QED BY <2>1, <2>2
<1>9. SharesOf(c)'
  <2>1. ASSUME ToBuy(c)'
        PROVE  Bought(c, d)' = {} /\ p # d /\ OutcomesOf(c, d)' = {}
    <3>1. ToBuy(c)
      BY <2>1, ToBuyStays
    <3>2. Bought(c, d) = {} /\ p # d /\ OutcomesOf(c, d) = {}
      BY <1>3, <1>4, <3>1 DEF SharesKept, SharesOf
    <3> QED BY <1>1, <1>7, <3>2 DEF OutcomesSame, Bought
  <2>2. d = day' /\ p = pos'[c].pid
    BY <1>1, <1>3, <1>4
  <2> QED BY <1>1, <1>5, <1>8, <2>1, <2>2 DEF SharesOf
<1>10. ASSUME NEW e \in Codes \ {c} PROVE SharesOf(e)'
  BY <1>1, <1>6, <1>7, OtherShares
<1>11. ASSUME NEW q \in outcomes'
       PROVE  q.pid # 0 /\ OutcomesOf(q.code, q.pid)' = {q} /\ BoughtWhole(q.code, q.pid)'
  <2>1. CASE q = o
    <3>1. q.code = c /\ q.pid = p
      BY <1>2, <1>3, <2>1
    <3> QED BY <1>5, <1>8, <2>1, <3>1
  <2>2. CASE q \in outcomes
    <3>1. PICK e \in Codes, r \in 0 .. MaxDays : e = q.code /\ r = q.pid
      BY <2>2, DaysAre
    <3>2. r # 0 /\ OutcomesOf(e, r) = {q} /\ BoughtWhole(e, r)
      BY <2>2, <3>1 DEF SharesKept
    <3>3. ~(e = c /\ r = p)
      BY <1>5, <3>2
    <3>4. OutcomesOf(e, r)' = {q}
      BY <1>2, <1>3, <3>2, <3>3 DEF OutcomesOf
    <3>5. BoughtWhole(e, r)'
      BY <1>1, <3>2 DEF BoughtWhole, Bought
    <3> QED BY <3>1, <3>2, <3>4, <3>5
  <2> QED BY <1>2, <2>1, <2>2
<1> QED BY <1>9, <1>10, <1>11 DEF SharesKept

\* What is recorded of the shares, after every step.
LEMMA SharesStep ==
  ASSUME NoCrash, CustodyInv, CustodyInv', WholeKept, StopsKept, SharesKept, [Next]_vars
  PROVE  SharesKept'
<1>1. SharesPath /\ OrdersKept
  BY SharesGo, OrdersStep
<1>2. CASE NewDay
  <2>1. UNCHANGED <<bookVars, cyc, watch>>
    BY <1>2 DEF NewDay
  <2> QED BY <1>2, <2>1, NewDayShares
<1>3. CASE ~NewDay
  BY <1>1, <1>3, QuietShares, EntrySharesKept, PositionSharesKept, OutcomeSharesKept DEF SharesPath
<1> QED BY <1>2, <1>3

-----------------------------------------------------------------------------
(* The invariant while orders are filled whole and no process dies.        *)

\* It holds at first: nothing is recorded.
LEMMA SalesStart ==
  ASSUME Init
  PROVE  SalesKept
<1>1. /\ ledger = <<>> /\ held = [c \in Codes |-> 0] /\ pos = [c \in Codes |-> NoPosition]
      /\ orders = <<>> /\ outcomes = {} /\ cyc = IdleCycle /\ watch = IdleWatch /\ day = 1
  BY DEF Init, KisInit, BookInit, CycleInit, WatchInit
<1>2. /\ cyc.pc = "idle" /\ watch.pc = "idle" /\ DOMAIN ledger = {} /\ DOMAIN orders = {}
      /\ \A c \in Codes : ~pos[c].open /\ pos[c].pid = 0 /\ held[c] = 0
  BY <1>1 DEF IdleCycle, CycleState, IdleWatch, WatchState, NoPosition, Position
<1>3. BookedOnce
  BY <1>2 DEF BookedOnce, EveryFillIsBooked
<1>4. GoneKept
  BY <1>2 DEF GoneKept
<1>5. ASSUME NEW c \in Codes PROVE SharesOf(c)
  <2>1. Bought(c, day) = {} /\ OutcomesOf(c, day) = {} /\ ~Upserting(c)
    BY <1>1, <1>2 DEF Bought, OutcomesOf, Upserting
  <2> QED BY <1>1, <1>2, <2>1 DEF SharesOf
<1> QED BY <1>1, <1>3, <1>4, <1>5 DEF SalesKept, SharesKept

\* All of it.
SalesInv == CustodyInv /\ WholeKept /\ StopsKept /\ SalesKept

\* Every step keeps it.
LEMMA SalesStep ==
  ASSUME NoPartial, NoCrash, WholeInv, StopsKept, SalesKept, [Next]_vars
  PROVE  SalesKept'
<1>1. CustodyInv /\ WholeKept /\ CustodyInv'
  BY CustodyStep DEF WholeInv
<1>2. BookedOnce' /\ GoneKept' /\ SharesKept'
  BY <1>1, BookedStep, GoneStep, SharesStep DEF SalesKept
<1> QED BY <1>2 DEF SalesKept

\* It holds as long as no process has died.
LEMMA SalesInvariant == Spec /\ NoPartial => [](crashes = 0 => SalesInv)
<1>1. NoPartial => []NoPartial
  <2>1. NoPartial => NoPartial'
    BY DEF NoPartial
  <2> QED BY <2>1, PTL
<1>2. Init => SalesKept
  BY SalesStart
<1>3. NoPartial /\ WholeInv /\ (crashes = 0 => StopsKept) /\ (crashes = 0 => SalesKept) /\ [Next]_vars
        => (crashes = 0 => SalesKept)'
  BY DeathsCount, SalesStep DEF WholeInv
<1>4. WholeInv /\ StopsKept /\ SalesKept => SalesInv
  BY DEF WholeInv, SalesInv
<1> QED BY <1>1, <1>2, <1>3, <1>4, WholeInvariant, StopsInvariant, PTL DEF Spec

\* The sum of no values, and of one.
LEMMA SumsAre ==
  ASSUME NEW f
  PROVE  /\ DOMAIN f = {} => SumFunction(f) = 0
         /\ \A x : DOMAIN f = {x} /\ f[x] \in Int => SumFunction(f) = f[x]
<1>1. SumFunction(f) = SumFunctionOnSet(f, DOMAIN f)
  BY DEF SumFunction
<1>2. DOMAIN f = {} => SumFunction(f) = 0
  BY <1>1, SumEmpty
<1>3. ASSUME NEW x, DOMAIN f = {x}, f[x] \in Int PROVE SumFunction(f) = f[x]
  <2>1. IsFiniteSet({}) /\ {x} = {} \cup {x} /\ x \notin {} /\ \A y \in {} \cup {x} : f[y] \in Int
    BY <1>3, FS_EmptySet
  <2>2. SumFunctionOnSet(f, {} \cup {x}) = f[x] + SumFunctionOnSet(f, {})
    BY <2>1, SumAdd
  <2>3. SumFunctionOnSet(f, {}) = 0
    BY SumEmpty
  <2> QED BY <1>1, <1>3, <2>1, <2>2, <2>3
<1> QED BY <1>2, <1>3

\* What was bought for a position that has its one entry.
LEMMA BoughtWholeIs ==
  ASSUME NEW c, NEW p, BoughtWhole(c, p)
  PROVE  BoughtQty(c, p) = Lot
<1>1. PICK k \in DOMAIN orders : Bought(c, p) = {k} /\ orders[k].filled = Lot
  BY DEF BoughtWhole
<1> DEFINE f == [i \in Bought(c, p) |-> orders[i].filled]
<1>2. DOMAIN f = {k} /\ f[k] = Lot /\ Lot \in Int
  BY <1>1, WholeIs
<1> HIDE DEF f
<1>3. SumFunction(f) = Lot
  BY <1>2, SumsAre
<1> QED BY <1>3 DEF BoughtQty, f

\* What was sold of it, when it has an outcome.
LEMMA OutcomeIs ==
  ASSUME SalesInv, NEW o \in outcomes, NEW c, NEW p, o.code = c, o.pid = p
  PROVE  OutcomeQty(c, p) = Lot /\ BoughtQty(c, p) = Lot
<1>1. OutcomesOf(c, p) = {o} /\ BoughtWhole(c, p)
  BY DEF SalesInv, SalesKept, SharesKept
<1> DEFINE f == [x \in OutcomesOf(c, p) |-> x.qty]
<1>2. DOMAIN f = {o} /\ f[o] = Lot /\ Lot \in Int
  BY <1>1, WholeIs DEF SalesInv, WholeKept, WholeBook
<1> HIDE DEF f
<1>3. SumFunction(f) = Lot
  BY <1>2, SumsAre
<1> QED BY <1>1, <1>3, BoughtWholeIs DEF OutcomeQty, f

\* Between two runs every share bought for a position is either still in it or in its
\* outcome: while orders are filled whole and as long as no process has died, the settlement
\* of the watch and the exits of the cycle never book a sale twice, nor forget one.
THEOREM SharesAreAccounted == Spec /\ NoPartial => [](crashes = 0 => SharesAccounted)
<1>1. SalesInv => SharesAccounted
  <2> SUFFICES ASSUME SalesInv, Quiet, NEW c \in Codes
               PROVE  pos[c].qty + OutcomeQty(c, pos[c].pid) = BoughtQty(c, pos[c].pid)
    BY DEF SharesAccounted
  <2>0. CustodyInv /\ SharesKept /\ WholeBook
    BY DEF SalesInv, SalesKept, WholeKept
  <2>1. PICK p \in 0 .. MaxDays : p = pos[c].pid
    BY <2>0, DaysAre
  <2>2. SharesOf(c)
    BY <2>0 DEF SharesKept
  <2>3. Holding(c) <=> pos[c].open
    BY DEF Quiet, Holding, Settling
  <2>4. pos[c].qty \in Whole /\ (pos[c].open <=> pos[c].qty > 0)
    BY <2>0 DEF WholeBook, CustodyInv, PositionsKept
  <2>5. pos[c].qty = IF pos[c].open THEN Lot ELSE 0
    <3>1. pos[c].qty \in {0, Lot} /\ Lot > 0 /\ Lot \in Nat /\ ~(0 > 0)
      BY <2>4, WholeIs DEF Whole
    <3> QED BY <2>4, <3>1
  <2>6. OutcomesOf(c, p) = {} => OutcomeQty(c, p) = 0
    BY SumsAre DEF OutcomeQty
  <2>7. OutcomesOf(c, p) # {} => OutcomeQty(c, p) = Lot
    BY OutcomeIs DEF OutcomesOf
  <2>8. CASE p = 0
    <3>1. Bought(c, p) = {}
      <4>1. \A i \in DOMAIN orders : orders[i].pid \in 1 .. MaxDays
        <5>1. \A i \in DOMAIN orders : orders[i] \in OrderRows
          BY <2>0 DEF CustodyInv, BookTypes
        <5> QED BY <5>1 DEF OrderRows
      <4>2. \A i \in DOMAIN orders : orders[i].pid # 0
        BY <4>1
      <4> QED BY <2>8, <4>2 DEF Bought
    <3>2. BoughtQty(c, p) = 0
      BY <3>1, SumsAre DEF BoughtQty
    <3>3. OutcomesOf(c, p) = {}
      BY <2>0, <2>8 DEF SharesKept, OutcomesOf
    <3>4. ~pos[c].open
      BY <2>1, <2>2, <2>8 DEF SharesOf
    <3> QED BY <2>1, <2>5, <2>6, <3>2, <3>3, <3>4
  <2>9. CASE p # 0
    <3>1. BoughtWhole(c, p) /\ (pos[c].open <=> OutcomesOf(c, p) = {})
      BY <2>1, <2>2, <2>3, <2>9 DEF SharesOf
    <3>2. BoughtQty(c, p) = Lot
      BY <3>1, BoughtWholeIs
    <3> QED BY <2>1, <2>5, <2>6, <2>7, <3>1, <3>2, WholeIs
  <2> QED BY <2>8, <2>9
<1> QED BY <1>1, SalesInvariant, PTL

\* No share is booked as sold twice, by the exit of the cycle and by the settlement of the
\* watch, as long as orders are filled whole and no process has died, whatever is refused.
THEOREM OutcomesAreSingle == Spec => []NoDoubleOutcome
<1>1. SalesInv => NoDoubleOutcome
  <2> SUFFICES ASSUME SalesInv, NEW o \in outcomes
               PROVE  OutcomeQty(o.code, o.pid) <= BoughtQty(o.code, o.pid)
    BY DEF NoDoubleOutcome, SoldOnce
  <2>1. OutcomeQty(o.code, o.pid) = Lot /\ BoughtQty(o.code, o.pid) = Lot
    BY OutcomeIs
  <2> QED BY <2>1, WholeIs
<1>2. ~(crashes = 0) => NoDoubleOutcome
  BY DEF NoDoubleOutcome
<1>3. ~NoPartial => []NoDoubleOutcome
  <2>1. ~NoPartial => (~NoPartial)'
    BY DEF NoPartial
  <2>2. ~NoPartial => NoDoubleOutcome
    BY DEF NoPartial, NoDoubleOutcome
  <2> QED BY <2>1, <2>2, PTL
<1> QED BY <1>1, <1>2, <1>3, SalesInvariant, PTL

\* The watch never finds an outcome that is already there, as long as orders are filled whole
\* and no process has died.
THEOREM FillsAreBooked == Spec /\ NoPartial => [](crashes = 0 => EveryFillIsBooked)
<1>1. SalesInv => EveryFillIsBooked
  BY DEF SalesInv, SalesKept, BookedOnce
<1> QED BY <1>1, SalesInvariant, PTL

\* A position the book has closed is sold, as long as orders are filled whole and no process
\* has died.
THEOREM ClosedIsSold == Spec /\ NoPartial => [](crashes = 0 => ClosedMeansSold)
<1>1. SalesInv => ClosedMeansSold
  BY DEF SalesInv, SalesKept, GoneKept, ClosedMeansSold, Quiet, Buying
<1> QED BY <1>1, SalesInvariant, PTL

-----------------------------------------------------------------------------
(* While nothing fails, but for stops and exits that KIS refuses.           *)

\* What is gone is known to be sold, and what the cycle has bought is there.
BalanceKept ==
  \A c \in Codes : IF pos[c].open THEN held[c] = 0 => Sold(c) \/ Exiting(c)
                   ELSE Buying(c) => held[c] = cyc.n

\* The watch after the close leaves no sale unbooked.
SweptKept ==
  /\ swept => session = "closed" /\ watch.pc = "idle" /\ \A c \in Codes : pos[c].open => ~Sold(c)
  /\ watch.pc # "idle" /\ ~watch.open => session = "closed"
  /\ watch.pc \in SettlePhase /\ ~watch.open =>
       \A c \in Codes : pos[c].open => c \in watch.todo \/ ~Sold(c)

\* Stops and exits may be refused; nothing else fails.
OnlyRefusals == Faults \subseteq {"stopReject", "exitReject"}

\* Then no order is filled in part, and no process dies.
LEMMA RefusalsAre ==
  ASSUME OnlyRefusals
  PROVE  /\ NoPartial /\ NoCrash /\ "buyReject" \notin Faults /\ "ledgerFail" \notin Faults
         /\ NewDay => swept
BY DEF OnlyRefusals, NoPartial, NoCrash, Crash, NewDay

\* What a stop has sold stays sold, but for a new day.
LEMMA SoldStays ==
  ASSUME OnlyRefusals, CustodyInv, FillPath, SweptKept, NEW c \in Codes, pos[c].open,
         StopNumber(c)' = StopNumber(c), Sold(c), held[c] = 0, held'[c] = 0
  PROVE  Sold(c)' \/ Exiting(c)'
<1> DEFINE sn == StopNumber(c)
<1>1. /\ sn[1] = day /\ sn[2] \in DOMAIN ledger /\ ledger[sn[2]].filled > 0
      /\ ledger[sn[2]].code = c
  BY SoldRow DEF Sold, HasRow
<1>2. ~NewDay
  BY RefusalsAre DEF SweptKept
<1> HIDE DEF sn
<1>3. ASSUME day' = day, sn[2] \in DOMAIN ledger', RowStays(sn[2]) PROVE Sold(c)'
  <2>1. sn = StopNumber(c)'
    BY DEF sn
  <2>2. sn[1] = day' /\ sn[2] \in DOMAIN ledger' /\ ledger'[sn[2]].filled > 0
    BY <1>1, <1>3 DEF RowStays
  <2> QED BY <2>1, <2>2 DEF Sold, HasRow
<1>4. CASE NoFill
  BY <1>1, <1>3, <1>4 DEF NoFill
<1>5. ASSUME NEW d \in Codes, FillOf(d), d # c PROVE Sold(c)'
  BY <1>1, <1>3, <1>5 DEF FillOf
<1>6. ASSUME NEW d \in Codes, held[d] = Lot \/ held'[d] = Lot PROVE d # c
  BY <1>6, WholeIs
<1>7. ASSUME NEW d \in Codes, d = c, cyc'.pc = "exitSent", cyc'.code = d, cyc'.n > 0
      PROVE  Exiting(c)'
  BY <1>7 DEF Exiting
<1> QED BY <1>2, <1>4, <1>5, <1>6, <1>7 DEF FillPath

\* What has just been sold, has been by the stop of the position or by the cycle.
LEMMA SaleIs ==
  ASSUME CustodyInv, StopsKept, FillPath, NEW c \in Codes, pos[c].open,
         StopNumber(c)' = StopNumber(c), held[c] # 0, held'[c] = 0
  PROVE  Sold(c)' \/ Exiting(c)'
<1>1. CASE NoFill
  BY <1>1 DEF NoFill
<1>2. CASE NewDay
  BY <1>2 DEF NewDay, DayBegins
<1>3. ASSUME NEW d \in Codes, FillOf(d), d # c PROVE FALSE
  BY <1>3 DEF FillOf
<1>4. ASSUME NEW i \in DOMAIN ledger, ledger[i].live, ledger[i].code = c,
             ledger'[i].filled = Lot, FillOf(c)
      PROVE  Sold(c)'
  <2>1. LiveFits(i)
    BY <1>4 DEF StopsKept, LiveKept
  <2>2. StopNumber(c)' = <<day, i>>
    BY <1>4, <2>1 DEF LiveFits
  <2>3. day' = day /\ i \in DOMAIN ledger' /\ ledger'[i].filled > 0
    BY <1>4, WholeIs DEF FillOf
  <2> QED BY <2>2, <2>3 DEF Sold, HasRow
<1>5. ASSUME cyc'.pc = "exitSent", cyc'.code = c, cyc'.n > 0
      PROVE  Exiting(c)'
  BY <1>5 DEF Exiting
<1> QED BY <1>1, <1>2, <1>3, <1>4, <1>5, WholeIs DEF FillPath

\* What the cycle has bought is there until it is in the book: no stop sells it.
LEMMA BoughtRests ==
  ASSUME CustodyInv, StopsKept, FillPath, NEW c \in Codes, Buying(c)
  PROVE  ~pos[c].open /\ held'[c] = held[c]
<1>1. /\ cyc.pc \in EntryPhase /\ cyc.code = c /\ cyc.pc \in {"entrySent", "upsert"}
      /\ c \in cyc.todo
  BY StepsAre, AtHandIs DEF Buying, EntryPhase, CustodyInv
<1>2. NoLive(c)
  BY <1>1 DEF StopsKept, CycleCovers
<1>3. ~pos[c].open
  BY <1>1 DEF CustodyInv, CycleReads
<1>4. CASE NoFill
  BY <1>3, <1>4 DEF NoFill
<1>5. CASE NewDay
  BY <1>3, <1>5 DEF NewDay, DayBegins
<1>6. ASSUME NEW i \in DOMAIN ledger, NEW d \in Codes, ledger[i].live, ledger[i].code = d, FillOf(d)
      PROVE  held'[c] = held[c]
  BY <1>2, <1>6 DEF NoLive, FillOf
<1> QED BY <1>1, <1>3, <1>4, <1>5, <1>6 DEF FillPath

\* The shares of an open position.
LEMMA OpenBalance ==
  ASSUME OnlyRefusals, CustodyInv, CustodyInv', WholeKept, StopsKept, BalanceKept, SweptKept,
         FillPath, SharesPath, [Next]_vars, NEW c \in Codes, pos'[c].open, held'[c] = 0
  PROVE  Sold(c)' \/ Exiting(c)'
<1>0. NoCrash
  BY RefusalsAre
<1>1. CASE ~pos[c].open
  <2>1. PositionComes(c)
    BY <1>1, OpenedIs
  <2>2. Buying(c) /\ cyc.n > 0
    BY <2>1 DEF PositionComes, Upserting, Buying, CustodyInv, CycleLocals
  <2>3. held[c] = cyc.n /\ held'[c] = held[c]
    BY <1>1, <2>2, BoughtRests DEF BalanceKept
  <2> QED BY <2>2, <2>3
<1>2. CASE pos[c].open /\ Renewed(c)
  BY <1>2, RenewedHolds
<1>3. CASE pos[c].open /\ ~Renewed(c)
  <2>1. StopNumber(c)' = StopNumber(c) /\ (Exiting(c) => Exiting(c)')
    BY <1>0, <1>3, NumberStays
  <2>2. CASE held[c] = 0
    BY <1>3, <2>1, <2>2, SoldStays DEF BalanceKept
  <2>3. CASE held[c] # 0
    BY <1>3, <2>1, <2>3, SaleIs
  <2> QED BY <2>2, <2>3
<1> QED BY <1>1, <1>2, <1>3

\* What is held is what the book has, but for what it is about to have.
LEMMA BalanceStep ==
  ASSUME OnlyRefusals, CustodyInv, CustodyInv', WholeKept, StopsKept, BalanceKept, SweptKept,
         [Next]_vars
  PROVE  BalanceKept'
<1>0. NoCrash /\ NoPartial /\ "buyReject" \notin Faults
  BY RefusalsAre
<1>1. FillPath /\ SharesPath
  BY <1>0, FillsGo, SharesGo
<1>2. ASSUME NEW c \in Codes, Buying(c)', ~pos'[c].open
      PROVE  held'[c] = cyc'.n
  <2>1. CASE Buying(c) /\ cyc'.n = cyc.n
    BY <1>1, <2>1, BoughtRests DEF BalanceKept
  <2>2. CASE SendEntry(c) /\ UNCHANGED <<clock, watchVars>>
    <3>1. /\ held[c] = 0
          /\ (NoFill /\ cyc'.n = 0) \/ (held'[c] = Lot /\ cyc'.n = Lot)
      BY <1>0, <2>2, PurchaseFills
    <3> QED BY <3>1 DEF NoFill
  <2> QED BY <1>0, <1>2, <2>1, <2>2, DealsGo
<1> QED BY <1>1, <1>2, OpenBalance DEF BalanceKept

\* The market does not open again on the same day.
LEMMA ClosedStays ==
  ASSUME [Next]_vars, session = "closed", ~NewDay
  PROVE  session' = "closed"
<1>1. CASE session' = session
  BY <1>1
<1>2. CASE Nature
  BY <1>2 DEF Nature, StopTrigger, StopTriggers, Close, MarketCloses
<1> QED BY <1>1, <1>2, EveryStep DEF clock, vars

\* Nothing is bought after the close, and nothing is sold.
LEMMA UnsoldStays ==
  ASSUME NoCrash, CustodyInv, StopsKept, FillPath, SharesPath, [Next]_vars, session = "closed",
         ~NewDay, NEW c \in Codes, pos'[c].open
  PROVE  pos[c].open /\ (Sold(c)' => Sold(c))
<1>0. cyc.pc = "idle" /\ \A i \in DOMAIN ledger : ~ledger[i].live
  BY DEF CustodyInv, CycleTyped, StopsKept, LiveKept
<1>1. pos[c].open
  BY <1>0, OpenedIs DEF PositionComes, Upserting
<1>2. NoFill
  BY <1>0 DEF FillPath
<1>3. StopNumber(c)' = StopNumber(c)
  <2>1. ~Renewed(c)
    BY RenewedBy
  <2> QED BY <1>1, <2>1, NumberStays
<1> DEFINE sn == StopNumber(c)
<1>4. ASSUME Sold(c)' PROVE Sold(c)
  <2>1. sn[1] = day /\ sn[2] \in DOMAIN ledger' /\ ledger'[sn[2]].filled > 0
    BY <1>2, <1>3, <1>4 DEF Sold, HasRow, NoFill
  <2>2. NumberOf(sn, c) /\ day \in Nat
    BY NumberIs, ConstantsAre DEF CustodyInv, AccountTypes
  <2>3. sn[2] \in DOMAIN ledger
    BY <2>1, <2>2 DEF NumberOf, HasRow
  <2> HIDE DEF sn
  <2>4. ledger[sn[2]].filled > 0
    BY <1>2, <2>1, <2>3 DEF NoFill, RowStays
  <2> QED BY <2>1, <2>3, <2>4 DEF Sold, HasRow, sn
<1> QED BY <1>1, <1>4

\* The ways of the watch after the close.
SweepPath ==
  \/ UNCHANGED <<watch, swept>> /\ ~NewDay
  \/ NewDay /\ UNCHANGED watch /\ watch.pc = "idle" /\ ~swept'
  \/ /\ watch.pc = "idle" /\ UNCHANGED <<watch, bookVars>> /\ swept' /\ session = "closed"
     /\ \A c \in Codes : ~pos[c].open
  \/ /\ watch.pc = "idle" /\ swept' = swept /\ (session = "closed" => ~swept)
     /\ watch'.pc = "loaded" /\ watch'.open = (session = "open")
  \/ /\ watch.pc = "loaded" /\ swept' = swept /\ watch'.pc = "settle" /\ watch'.open = watch.open
     /\ watch'.todo = FilledStops(watch.rows, ledger) /\ UNCHANGED <<kisVars, clock, bookVars, cyc>>
  \/ /\ watch.pc # "idle" /\ swept' = swept
     /\ watch'.pc = "idle" \/ (watch'.open = watch.open /\ watch'.pc \notin SettlePhase \cup {"idle"})
  \/ /\ watch.pc = "settle" /\ watch.todo = {} /\ watch'.pc = "idle" /\ ~NewDay
     /\ swept' = (swept \/ ~watch.open)
  \/ /\ watch.pc \in SettlePhase /\ watch'.pc \in SettlePhase /\ watch'.open = watch.open
     /\ swept' = swept /\ \A c \in watch.todo : c \in watch'.todo \/ ~pos'[c].open

\* The calls and the commits of the watch.
LEMMA WatchSweeps ==
  ASSUME CustodyInv, WholeKept, StopsKept, WatchCalls \/ WatchBooks, swept' = swept
  PROVE  SweepPath
<1> DEFINE Away ==
      /\ watch.pc # "idle" /\ watch'.open = watch.open /\ watch'.pc \notin SettlePhase \cup {"idle"}
<1>1. ASSUME NEW c \in Codes, RegisterMissing(c) PROVE Away
  <2>1. watch.pc = "register" /\ watch'.pc = "registered" /\ watch'.open = watch.open
    BY <1>1, RegisterMissingIs DEF WatchTo
  <2> QED BY <2>1 DEF SettlePhase
<1>2. ASSUME NEW c \in Codes, ReviseStale(c) PROVE Away
  <2>1. watch.pc = "stale" /\ watch'.pc \in {"stale", "revised"} /\ watch'.open = watch.open
    BY <1>2, ReviseStaleIs DEF WatchLoop, WatchTo
  <2> QED BY <2>1 DEF SettlePhase
<1>3. CASE RecordRegistered
  <2>1. /\ watch.pc = "registered" /\ watch'.pc \in {"register", "link", "expire"}
        /\ watch'.open = watch.open
    BY <1>3, RecordRegisteredIs DEF WatchTo, WatchLoop
  <2> QED BY <2>1 DEF SettlePhase, SweepPath
<1>4. CASE ExpireOldStop
  <2>1. watch.pc = "expire" /\ watch'.pc = "link" /\ watch'.open = watch.open
    BY <1>4, ExpireOldStopIs DEF WatchTo
  <2> QED BY <2>1 DEF SettlePhase, SweepPath
<1>5. CASE LinkRegistered
  <2>1. watch.pc = "link" /\ watch'.pc = "register" /\ watch'.open = watch.open
    BY <1>5, LinkRegisteredIs DEF WatchLoop
  <2> QED BY <2>1 DEF SettlePhase, SweepPath
<1>6. CASE RecordStaleRevision
  <2>1. watch.pc = "revised" /\ watch'.pc = "stale" /\ watch'.open = watch.open
    BY <1>6, RecordStaleRevisionIs DEF WatchLoop
  <2> QED BY <2>1 DEF SettlePhase, SweepPath
<1>7. ASSUME NEW c \in Codes, MarkFilled(c) PROVE SweepPath
  <2>1. /\ watch.pc = "settle" /\ watch'.open = watch.open
        /\ \/ watch'.pc = "settleOutcome" /\ watch'.todo = watch.todo
           \/ /\ watch'.pc = "settle" /\ watch'.todo = watch.todo \ {c} /\ pos' = pos
              /\ c \in DOMAIN watch.rows /\ ~(pos[c].open /\ pos[c].pid = watch.rows[c].pid)
    BY <1>7, MarkFilledIs DEF WatchTo, WatchLoop
  <2>2. c \in DOMAIN watch.rows => pos[c].pid = watch.rows[c].pid
    BY <2>1 DEF CustodyInv, WatchReads
  <2> QED BY <2>1, <2>2 DEF SettlePhase, SweepPath
<1>8. CASE RecordStopHit
  <2>1. /\ watch.pc = "settleOutcome" /\ watch'.open = watch.open /\ watch'.todo = watch.todo
        /\ watch'.pc \in {"aborted", "settleClose"}
    BY <1>8, RecordStopHitIs DEF WatchTo
  <2> QED BY <2>1 DEF SettlePhase, SweepPath
<1>9. CASE SettlePosition
  <2>1. PICK c \in Codes : c = watch.code
    BY <1>9, SettlePositionIs
  <2>2. /\ watch.pc = "settleClose" /\ watch'.open = watch.open /\ watch'.pc = "settle"
        /\ watch'.todo = watch.todo \ {c} /\ (watch.n < pos[c].qty \/ ~pos'[c].open)
    BY <1>9, <2>1, SettlePositionIs DEF WatchLoop
  <2>3. ~(watch.n < pos[c].qty)
    <3>1. watch.n = Lot /\ pos[c].qty \in Whole
      BY <2>2 DEF WholeKept, WholeWatch, WholeBook
    <3> QED BY <3>1, WholeIs DEF Whole
  <2> QED BY <2>2, <2>3 DEF SettlePhase, SweepPath
<1> QED BY <1>1, <1>2, <1>3, <1>4, <1>5, <1>6, <1>7, <1>8, <1>9 DEF WatchCalls, WatchBooks, SweepPath

\* What the watch looks at.
LEMMA LooksSweep ==
  ASSUME OnlyRefusals, CustodyInv, WatchLooks, UNCHANGED <<kisVars, clock, bookVars, cycleVars>>
  PROVE  SweepPath
<1>0. ~NewDay
  <2>1. session' = session
    BY DEF clock
  <2> QED BY <2>1 DEF NewDay, DayBegins
<1>1. CASE Quiet /\ WatchStarts
  BY <1>1, WatchStartsIs DEF WatchFresh, SweepPath
<1>2. CASE Quiet /\ WatchNothing
  <2>1. /\ watch.pc = "idle" /\ UNCHANGED <<watch, bookVars>> /\ swept' /\ session = "closed"
        /\ OpenCodes = {}
    BY <1>2, WatchEndIs
  <2>2. \A c \in Codes : ~pos[c].open
    BY <2>1, LoadIs DEF CustodyInv
  <2> QED BY <2>1, <2>2 DEF SweepPath
<1>3. CASE FetchDailyOrders
  <2>1. /\ watch.pc = "loaded" /\ swept' = swept /\ watch'.pc = "settle" /\ watch'.open = watch.open
        /\ watch'.todo = FilledStops(watch.rows, ledger)
    BY <1>3, FetchIs, RefusalsAre
  <2> QED BY <2>1 DEF SweepPath, cycleVars
<1>4. CASE WatchAborts \/ WatchEnds
  BY <1>4, WatchEndIs DEF WatchFresh, SweepPath
<1>5. CASE SettlementDone
  <2>1. /\ watch.pc = "settle" /\ watch.todo = {}
        /\ \/ watch.open /\ swept' = swept /\ watch'.pc = "register" /\ watch'.open = watch.open
           \/ watch'.pc = "idle" /\ swept' = (swept \/ ~watch.open)
    BY <1>5, SettlementDoneIs DEF WatchLoop, WatchFresh
  <2>2. CASE watch'.pc = "register"
    BY <2>1, <2>2 DEF SweepPath, SettlePhase
  <2>3. CASE watch'.pc = "idle" /\ swept' = (swept \/ ~watch.open)
    BY <1>0, <2>1, <2>3 DEF SweepPath
  <2> QED BY <2>1, <2>2, <2>3
<1>6. CASE RegistrationDone
  <2>1. watch.pc = "register" /\ watch'.pc = "stale" /\ watch'.open = watch.open /\ swept' = swept
    BY <1>6, RegistrationDoneIs DEF WatchLoop
  <2> QED BY <2>1 DEF SweepPath, SettlePhase
<1> QED BY <1>1, <1>2, <1>3, <1>4, <1>5, <1>6 DEF WatchLooks

\* Every step is one of them.
LEMMA SweepGoes ==
  ASSUME OnlyRefusals, CustodyInv, WholeKept, StopsKept, [Next]_vars
  PROVE  SweepPath
<1>1. CASE UNCHANGED <<watch, swept>>
  <2>1. CASE NewDay
    <3>1. watch.pc = "idle" /\ ~swept'
      BY <2>1 DEF NewDay, Quiet
    <3> QED BY <1>1, <2>1, <3>1 DEF SweepPath
  <2> QED BY <1>1, <2>1 DEF SweepPath
<1>2. CASE Nature /\ UNCHANGED watch
  <2>1. CASE NewDay
    <3>1. watch.pc = "idle" /\ ~swept'
      BY <2>1 DEF NewDay, Quiet
    <3> QED BY <1>2, <2>1, <3>1 DEF SweepPath
  <2>2. CASE StopTrigger \/ Close
    <3>1. swept' = swept
      BY <2>2 DEF StopTrigger, Close, watchVars
    <3> QED BY <1>1, <1>2, <3>1
  <2> QED BY <1>2, <2>1, <2>2 DEF Nature
<1>3. CASE Others /\ swept' = swept
  BY <1>1, <1>3, RefusalsAre DEF Others, Crash, NoCrash, Release, watchVars
<1>4. CASE WatchLooks /\ UNCHANGED <<kisVars, clock, bookVars, cycleVars>>
  BY <1>4, LooksSweep
<1>5. CASE (WatchCalls \/ WatchBooks) /\ swept' = swept
  BY <1>5, WatchSweeps
<1> QED BY <1>1, <1>2, <1>3, <1>4, <1>5, EveryStep DEF watchVars, vars

\* A watch that starts finds every stop that has sold something.
LEMMA FetchFinds ==
  ASSUME CustodyInv, StopsKept, watch.pc = "loaded", NEW c \in Codes, pos[c].open, Sold(c)
  PROVE  c \in FilledStops(watch.rows, ledger)
<1>1. cyc.pc = "idle" /\ CycleFree(c) /\ WatchFree(c)
  BY DEF CustodyInv, WatchTyped, CycleFree, WatchFree, WatchSent
<1>2. /\ c \in DOMAIN watch.rows /\ pos[c].active = watch.rows[c].active
      /\ watch.rows[c].active = 0 => watch.rows[c].odno = NoOdno
  BY DEF CustodyInv, WatchReads, RegisterPhase, StalePhase
<1>3. watch.rows[c].active # 0 => watch.rows[c].odno = orders[pos[c].active].odno
  BY <1>2 DEF StopsKept, SnapshotKept
<1>4. StopNumber(c) = watch.rows[c].odno
  BY <1>1, <1>2, <1>3, FreeView
<1> QED BY <1>2, <1>4 DEF Sold, FilledStops

\* The watch after the close leaves no sale unbooked, in every step.
LEMMA SweptStep ==
  ASSUME OnlyRefusals, CustodyInv, WholeKept, StopsKept, SweptKept, [Next]_vars
  PROVE  SweptKept'
<1>0. NoCrash /\ NoPartial
  BY RefusalsAre
<1>1. FillPath /\ SharesPath /\ SweepPath
  BY <1>0, FillsGo, SharesGo, SweepGoes
<1>2. NewDay => watch.pc = "idle" /\ watch' = watch /\ ~swept'
  BY DEF NewDay, Quiet
<1>3. ASSUME session = "closed", ~NewDay
      PROVE  /\ session' = "closed"
             /\ \A c \in Codes : pos'[c].open => pos[c].open /\ (Sold(c)' => Sold(c))
  BY <1>0, <1>1, <1>3, ClosedStays, UnsoldStays
<1>4. swept => session = "closed" /\ watch.pc = "idle" /\ \A c \in Codes : pos[c].open => ~Sold(c)
  BY DEF SweptKept
<1>5. watch.pc # "idle" /\ ~watch.open => session = "closed"
  BY DEF SweptKept
<1>6. watch.pc \in SettlePhase /\ ~watch.open =>
        \A c \in Codes : pos[c].open => c \in watch.todo \/ ~Sold(c)
  BY DEF SweptKept
<1>7. ASSUME swept'
      PROVE  session' = "closed" /\ watch'.pc = "idle" /\ \A c \in Codes : pos'[c].open => ~Sold(c)'
  <2>1. CASE swept
    <3>1. session = "closed" /\ watch.pc = "idle"
      BY <1>4, <2>1
    <3>2. watch'.pc = "idle"
      BY <1>1, <1>7, <2>1, <3>1 DEF SweepPath, SettlePhase
    <3> QED BY <1>2, <1>3, <1>4, <1>7, <2>1, <3>1, <3>2
  <2>2. CASE ~swept
    <3>1. \/ /\ watch.pc = "idle" /\ watch' = watch /\ session = "closed"
             /\ \A c \in Codes : ~pos[c].open
          \/ watch.pc = "settle" /\ watch.todo = {} /\ watch'.pc = "idle" /\ ~watch.open
      BY <1>1, <1>7, <2>2 DEF SweepPath
    <3>2. session = "closed" /\ watch'.pc = "idle" /\ \A c \in Codes : pos[c].open => ~Sold(c)
      BY <1>5, <1>6, <3>1 DEF SettlePhase
    <3> QED BY <1>2, <1>3, <1>7, <3>2
  <2> QED BY <2>1, <2>2
<1>8. ASSUME watch'.pc # "idle", ~watch'.open
      PROVE  session' = "closed"
  <2>1. session = "closed" /\ ~NewDay
    <3>1. ~NewDay
      BY <1>2, <1>8
    <3>2. \/ watch' = watch
          \/ watch.pc # "idle" /\ watch'.open = watch.open
          \/ watch'.open = (session = "open")
      BY <1>1, <1>8, <3>1 DEF SweepPath, SettlePhase
    <3>3. session \in {"open", "closed"}
      BY DEF CustodyInv, AccountTypes
    <3> QED BY <1>5, <1>8, <3>1, <3>2, <3>3
  <2> QED BY <1>3, <2>1
<1>9. ASSUME watch'.pc \in SettlePhase, ~watch'.open, NEW c \in Codes, pos'[c].open,
             c \notin watch'.todo
      PROVE  ~Sold(c)'
  <2>1. watch'.pc # "idle"
    BY <1>9 DEF SettlePhase
  <2>2. ~NewDay
    BY <1>2, <2>1
  <2>3. \/ watch' = watch
        \/ /\ watch.pc = "loaded" /\ watch'.open = watch.open
           /\ watch'.todo = FilledStops(watch.rows, ledger)
        \/ /\ watch.pc \in SettlePhase /\ watch'.open = watch.open
           /\ \A d \in watch.todo : d \in watch'.todo \/ ~pos'[d].open
    <3>1. watch'.pc # "loaded"
      BY <1>9 DEF SettlePhase
    <3> QED BY <1>1, <1>9, <2>1, <2>2, <3>1 DEF SweepPath
  <2>4. watch.pc # "idle" /\ ~watch.open
    BY <1>9, <2>1, <2>3 DEF SettlePhase
  <2>5. pos[c].open /\ (Sold(c)' => Sold(c))
    BY <1>3, <1>5, <1>9, <2>2, <2>4
  <2>6. CASE watch.pc = "loaded" /\ watch'.todo = FilledStops(watch.rows, ledger)
    BY <1>9, <2>5, <2>6, FetchFinds
  <2>7. CASE watch.pc \in SettlePhase /\ c \notin watch.todo
    BY <1>6, <2>4, <2>5, <2>7
  <2> QED BY <1>9, <2>3, <2>6, <2>7
<1> QED BY <1>7, <1>8, <1>9 DEF SweptKept

\* While nothing else fails, all of it.
BalanceInv == SalesInv /\ BalanceKept /\ SweptKept

\* It holds throughout.
LEMMA BalanceInvariant == Spec /\ OnlyRefusals => []BalanceInv
<1>1. OnlyRefusals => [](OnlyRefusals /\ NoPartial)
  <2>1. OnlyRefusals => OnlyRefusals'
    BY DEF OnlyRefusals
  <2>2. OnlyRefusals => NoPartial
    BY RefusalsAre
  <2> QED BY <2>1, <2>2, PTL
<1>2. OnlyRefusals /\ crashes = 0 /\ [Next]_vars => (crashes = 0)'
  <2>1. ASSUME OnlyRefusals, crashes = 0, Others PROVE crashes' = 0
    BY <2>1, RefusalsAre DEF Others, NoCrash, Release
  <2> QED BY <2>1, EveryStep DEF vars
<1>3. Init => crashes = 0
  BY DEF Init
<1>4. Init => BalanceKept /\ SweptKept
  <2> SUFFICES ASSUME Init PROVE BalanceKept /\ SweptKept
    OBVIOUS
  <2>1. /\ pos = [c \in Codes |-> NoPosition] /\ cyc = IdleCycle /\ watch = IdleWatch
        /\ swept = FALSE
    BY DEF Init, BookInit, CycleInit, WatchInit
  <2>2. cyc.pc = "idle" /\ watch.pc = "idle" /\ \A c \in Codes : ~pos[c].open
    BY <2>1 DEF IdleCycle, CycleState, IdleWatch, WatchState, NoPosition, Position
  <2> QED BY <2>1, <2>2 DEF BalanceKept, Buying, SweptKept, SettlePhase
<1>5. OnlyRefusals /\ SalesInv /\ SalesInv' /\ BalanceKept /\ SweptKept /\ [Next]_vars
        => (BalanceKept /\ SweptKept)'
  BY BalanceStep, SweptStep DEF SalesInv
<1>6. SalesInv /\ BalanceKept /\ SweptKept <=> BalanceInv
  BY DEF BalanceInv
<1> QED BY <1>1, <1>2, <1>3, <1>4, <1>5, <1>6, SalesInvariant, PTL DEF Spec

\* Between two runs, what is in the book of a stock is what is held and what its stop has
\* sold since.
LEMMA BalanceIs ==
  ASSUME BalanceInv, Quiet, NEW c \in Codes
  PROVE  BookQty(c) = held[c] + Unbooked(c)
<1>0. /\ CustodyInv /\ WholeAccount /\ WholeBook /\ BookedOnce /\ GoneKept /\ BalanceKept
  BY DEF BalanceInv, SalesInv, SalesKept, WholeKept
<1>1. /\ ~Exiting(c) /\ ~Buying(c) /\ ~Settling(c) /\ CycleFree(c) /\ WatchFree(c)
  BY DEF Quiet, Exiting, Buying, Settling, CycleFree, WatchFree, WatchSent
<1> DEFINE id == pos[c].active
           sn == orders[id].odno
<1>2. OrderId(c) = id /\ StopNumber(c) = IF id = 0 THEN NoOdno ELSE sn
  BY <1>1, FreeView
<1>3. CASE ~pos[c].open
  <2>1. held[c] = 0
    BY <1>0, <1>1, <1>3 DEF GoneKept
  <2> QED BY <1>3, <2>1 DEF BookQty, Unbooked
<1>4. CASE pos[c].open
  <2>1. pos[c].qty = Lot /\ held[c] \in {0, Lot} /\ Lot \in Nat /\ Lot > 0
    <3>1. pos[c].qty \in {0, Lot} /\ pos[c].qty > 0 /\ ~(0 > 0)
      BY <1>0, <1>4, WholeIs DEF WholeBook, Whole, CustodyInv, PositionsKept
    <3>2. held[c] \in {0, Lot} /\ Lot \in Nat /\ Lot > 0
      BY <1>0, WholeIs DEF WholeAccount, Whole
    <3> QED BY <3>1, <3>2
  <2>2. ~OutcomeTaken(id)
    BY <1>0, <1>1, <1>2, <1>4 DEF BookedOnce
  <2>3. held[c] = 0 <=> Sold(c)
    BY <1>0, <1>1, <1>4 DEF GoneKept, BalanceKept
  <2>4. NoOdno[1] # day
    BY <1>0 DEF NoOdno, CustodyInv, AccountTypes
  <2>5. Sold(c) <=> id # 0 /\ HasRow(ledger, sn) /\ ledger[sn[2]].filled > 0
    BY <1>2, <2>4 DEF Sold, HasRow
  <2>6. HasRow(ledger, sn) => ledger[sn[2]].filled \in {0, Lot}
    BY <1>0 DEF HasRow, WholeAccount, Whole
  <2>7. Unbooked(c) = IF id # 0 /\ HasRow(ledger, sn) THEN ledger[sn[2]].filled ELSE 0
    BY <1>4, <2>2 DEF Unbooked
  <2>8. BookQty(c) = Lot
    BY <1>4, <2>1 DEF BookQty
  <2> HIDE DEF sn, id
  <2>9. Unbooked(c) = IF Sold(c) THEN Lot ELSE 0
    <3>1. CASE Sold(c)
      <4>1. ledger[sn[2]].filled = Lot
        BY <2>1, <2>5, <2>6, <3>1
      <4> QED BY <2>5, <2>7, <3>1, <4>1
    <3>2. CASE ~Sold(c)
      <4>1. id # 0 /\ HasRow(ledger, sn) => ledger[sn[2]].filled = 0
        BY <2>1, <2>5, <2>6, <3>2
      <4> QED BY <2>7, <3>2, <4>1
    <3> QED BY <3>1, <3>2
  <2>10. CASE Sold(c)
    BY <2>1, <2>3, <2>8, <2>9, <2>10
  <2>11. CASE ~Sold(c)
    BY <2>1, <2>3, <2>8, <2>9, <2>11
  <2> QED BY <2>10, <2>11
<1> QED BY <1>3, <1>4

\* Between two runs the book holds what KIS holds, up to the stops that have triggered since
\* the last watch: the balance gate of the cycle sees no other difference, also when stops,
\* revisions and exits are refused.
THEOREM BookIsBalanced == Spec /\ OnlyRefusals => []BookMatchesBroker
<1>1. BalanceInv => BookMatchesBroker
  BY BalanceIs DEF BookMatchesBroker
<1> QED BY <1>1, BalanceInvariant, PTL

\* The book never claims shares that KIS does not hold for us, while nothing
\* fails but stops and exits that are refused.
THEOREM BookIsNotAhead == Spec /\ OnlyRefusals => []BookNotAhead
<1>1. BalanceInv => BookNotAhead
  <2> SUFFICES ASSUME BalanceInv, Quiet, NEW c \in Codes
               PROVE  BookQty(c) <= held[c] + Unbooked(c)
    BY DEF BookNotAhead
  <2>1. BookQty(c) = held[c] + Unbooked(c)
    BY BalanceIs
  <2>2. BookQty(c) \in Nat
    BY PositionIs DEF BookQty, BalanceInv, SalesInv, CustodyInv
  <2> QED BY <2>1, <2>2
<1> QED BY <1>1, BalanceInvariant, PTL
=============================================================================
