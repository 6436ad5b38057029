-------------------------- MODULE SpecEngineProofs --------------------------
(***************************************************************************)
(* Proofs about the backtest, for any stocks, bars, days and parameters    *)
(* and any schedule of limits.  First the stops and the entries, which do  *)
(* not depend on any quantity; then the types, and the money.              *)
(***************************************************************************)
EXTENDS SpecEngine, FiniteSetTheorems, SumTheorems, TLAPS

\* A holding as far as its prices go.
HoldingOK(h) ==
  /\ h = [qty |-> h.qty, entry |-> h.entry, initial |-> h.initial, stop |-> h.stop,
          days |-> h.days, breakeven |-> h.breakeven]
  /\ h.entry \in Int /\ h.stop \in Int

BookOK(book) == book = [c \in Codes |-> book[c]] /\ \A c \in Codes : HoldingOK(book[c])

TypesKept ==
  /\ BookOK(positions) /\ BookOK(planned)
  /\ bar \in [Codes -> Bars \cup {NoBar}]
  /\ max \in Nat /\ slots \in Int
  /\ buys \subseteq Codes
  /\ step \in {"night", "stops", "exits", "entries", "close"}

\* The loops over the holdings only look at holdings.
TodoHeld == step \in {"stops", "exits"} => todo \subseteq In(positions)

\* What is proposed, what is planned and what is held are apart, and a plan
\* exists only while the entries are made.
PlanApart ==
  /\ buys \cap In(positions) = {}
  /\ buys \cap In(planned) = {}
  /\ In(planned) \cap In(positions) = {}
  /\ step # "entries" => In(planned) = {}

\* The places left are those neither held nor planned; a plan has not used more.
SlotsCounted ==
  step = "entries" =>
    /\ slots = max - Cardinality(In(positions)) - Cardinality(In(planned))
    /\ In(planned) # {} => slots >= 0

\* After a SafeStop nothing is proposed.
StoppedProposesNothing == safeStopped => buys = {} /\ In(planned) = {}

SpecInv == TypesKept /\ TodoHeld /\ PlanApart /\ SlotsCounted /\ StoppedProposesNothing

-----------------------------------------------------------------------------
(* Lemmas about holdings and books.                                        *)

\* The holdings are finitely many.
LEMMA FewHoldings ==
  ASSUME NEW book
  PROVE  /\ IsFiniteSet(In(book)) /\ In(book) \subseteq Codes
         /\ Cardinality(In(book)) \in Nat
<1>1. IsFiniteSet(Codes)
  BY SpecAssumption, FS_Interval DEF Codes
<1>2. In(book) \subseteq Codes
  BY DEF In
<1> QED BY <1>1, <1>2, FS_Subset, FS_CardinalityType

\* No holding is a holding as far as its prices go.
LEMMA NoneOK == HoldingOK(None)
BY DEF HoldingOK, None

\* Whatever rule applies, unless all is sold the stop is as high as before.
LEMMA DecideRises ==
  ASSUME NEW h, HoldingOK(h), NEW price, NEW trail \in Int, NEW thesisValid
  PROVE  LET act == DecideExit(h, price, trail, thesisValid)
         IN  act.kind # "full" => act.stop \in Int /\ act.stop >= h.stop
<1>1. BreakevenStop(h) \in Int /\ BreakevenStop(h) >= h.stop
  BY DEF BreakevenStop, HoldingOK
<1>2. h.stop \in Int
  BY DEF HoldingOK
<1> DEFINE act == DecideExit(h, price, trail, thesisValid)
           hit == ~thesisValid \/ price <= h.stop
           up == ~h.breakeven /\ h.entry > h.initial /\ 2 * price >= Halves(h, BreakevenHalves)
           slow == h.days > MaxHoldDays /\ h.entry > h.initial /\ 2 * price < Halves(h, ProgressHalves)
<1>3. CASE hit
  BY <1>3 DEF DecideExit, Action
<1>4. CASE ~hit /\ up
  BY <1>1, <1>4 DEF DecideExit, Action
<1>5. CASE ~hit /\ ~up /\ trail > h.stop
  BY <1>2, <1>5 DEF DecideExit, Action
<1>6. CASE ~hit /\ ~up /\ ~(trail > h.stop)
  BY <1>2, <1>6 DEF DecideExit, Action
<1> QED BY <1>3, <1>4, <1>5, <1>6

\* What an action leaves of a holding is one as far as its prices go.
LEMMA KeptOK ==
  ASSUME NEW h, HoldingOK(h), NEW act, act.stop \in Int, NEW qty
  PROVE  HoldingOK(Kept(h, act, qty)) /\ Kept(h, act, qty).stop = act.stop
BY DEF HoldingOK, Kept

\* One holding changes, to none or to one that is as well protected.
LEMMA OneHoldingChanges ==
  ASSUME BookOK(positions), NEW c \in In(positions), NEW h, HoldingOK(h),
         h # None => h.stop >= positions[c].stop,
         positions' = [positions EXCEPT ![c] = h]
  PROVE  /\ BookOK(positions')
         /\ In(positions') \subseteq In(positions)
         /\ In(positions) \ {c} \subseteq In(positions')
         /\ \A d \in In(positions) \cap In(positions') : positions'[d].stop >= positions[d].stop
<1>1. c \in Codes
  BY DEF In
<1>2. \A d \in Codes : positions'[d] = IF d = c THEN h ELSE positions[d]
  BY <1>1 DEF BookOK
<1>3. positions' = [d \in Codes |-> positions'[d]]
  BY <1>1 DEF BookOK
<1>4. BookOK(positions')
  BY <1>2, <1>3 DEF BookOK
<1>5. In(positions') \subseteq In(positions) /\ In(positions) \ {c} \subseteq In(positions')
  BY <1>2 DEF In
<1>6. ASSUME NEW d \in In(positions) \cap In(positions')
      PROVE  positions'[d].stop >= positions[d].stop
  <2>1. CASE d = c
    BY <1>2, <2>1 DEF In
  <2>2. CASE d # c
    <3>1. positions'[d] = positions[d] /\ positions[d].stop \in Int
      BY <1>2, <2>2 DEF In, BookOK, HoldingOK
    <3> QED BY <3>1
  <2> QED BY <2>1, <2>2
<1> QED BY <1>4, <1>5, <1>6
-----------------------------------------------------------------------------
(* The steps.  A step keeps the invariant, lowers no stop and buys only    *)
(* what is allowed.                                                        *)

Rises == \A c \in In(positions) \cap In(positions') : positions'[c].stop >= positions[c].stop

Allowed ==
  /\ safeStopped => safeStopped'
  /\ ~(In(positions') \subseteq In(positions)) =>
       ~safeStopped /\ Cardinality(In(positions')) <= max

\* A step that leaves the holdings alone.
LEMMA NothingTraded ==
  ASSUME SpecInv, UNCHANGED positions, safeStopped => safeStopped'
  PROVE  Rises /\ Allowed
<1>1. \A c \in In(positions) : positions[c].stop \in Int
  BY DEF SpecInv, TypesKept, BookOK, HoldingOK, In
<1>2. In(positions') = In(positions)
  BY DEF In
<1> QED BY <1>1, <1>2 DEF Rises, Allowed

\* A step of a loop over the holdings: one of them is looked at.
LEMMA OneLookedAt ==
  ASSUME SpecInv, NEW c \in todo, step \in {"stops", "exits"}, NEW h, HoldingOK(h),
         h # None => h.stop >= positions[c].stop,
         positions' = [positions EXCEPT ![c] = h], todo' = todo \ {c},
         UNCHANGED <<bar, step, max, buys, planned, slots, safeStopped>>
  PROVE  SpecInv' /\ Rises /\ Allowed
<1>1. c \in In(positions) /\ BookOK(positions)
  BY DEF SpecInv, TypesKept, TodoHeld
<1>2. /\ BookOK(positions')
      /\ In(positions') \subseteq In(positions)
      /\ In(positions) \ {c} \subseteq In(positions')
      /\ Rises
  BY <1>1, OneHoldingChanges DEF Rises
<1>3. TypesKept'
  BY <1>2 DEF SpecInv, TypesKept, BookOK
<1>4. In(planned') = In(planned)
  BY DEF In
<1>5. TodoHeld' /\ PlanApart' /\ SlotsCounted' /\ StoppedProposesNothing'
  BY <1>2, <1>4 DEF SpecInv, TodoHeld, PlanApart, SlotsCounted, StoppedProposesNothing
<1>6. Allowed
  BY <1>2 DEF Allowed
<1> QED BY <1>2, <1>3, <1>5, <1>6 DEF SpecInv

\* The stop of a holding is looked at.
LEMMA CheckStopStep ==
  ASSUME SpecInv, NEW c \in Codes, CheckStop(c)
  PROVE  SpecInv' /\ Rises /\ Allowed
<1>1. c \in todo /\ step = "stops" /\ todo' = todo \ {c}
  BY DEF CheckStop, First
<1>2. UNCHANGED <<bar, step, max, buys, planned, slots, safeStopped>>
  BY DEF CheckStop, dayVars, plan
<1>3. CASE positions' = [positions EXCEPT ![c] = None]
  BY <1>1, <1>2, <1>3, NoneOK, OneLookedAt
<1>4. CASE positions' = [positions EXCEPT ![c] = positions[c]]
  <2>1. HoldingOK(positions[c]) /\ positions[c].stop >= positions[c].stop
    BY DEF SpecInv, TypesKept, BookOK, HoldingOK
  <2> QED BY <1>1, <1>2, <1>4, <2>1, OneLookedAt
<1> QED BY <1>3, <1>4 DEF CheckStop, Sell, Keep

\* A holding is kept, halved or sold.
LEMMA ExitStep ==
  ASSUME SpecInv, NEW c \in Codes, NEW trail \in Stops, NEW thesisValid \in BOOLEAN,
         Exit(c, trail, thesisValid)
  PROVE  SpecInv' /\ Rises /\ Allowed
<1> DEFINE h == positions[c]
           act == DecideExit(h, Px(c), trail, thesisValid)
           part == h.qty \div PartialOf
<1>1. c \in todo /\ step = "exits" /\ todo' = todo \ {c}
  BY DEF Exit, First
<1>2. UNCHANGED <<bar, step, max, buys, planned, slots, safeStopped>>
  BY DEF Exit, dayVars, plan
<1>3. HoldingOK(h) /\ trail \in Int
  BY SpecAssumption DEF SpecInv, TypesKept, BookOK
<1>4. act.kind # "full" => act.stop \in Int /\ act.stop >= h.stop
  BY <1>3, DecideRises
<1>5. CASE act.kind = "full"
  <2>1. positions' = [positions EXCEPT ![c] = None]
    BY <1>5 DEF Exit, Sell
  <2> QED BY <1>1, <1>2, <2>1, NoneOK, OneLookedAt
<1>6. CASE act.kind = "partial"
  <2>1. positions' = [positions EXCEPT ![c] = Kept(h, act, h.qty - part)]
    BY <1>6 DEF Exit, Sell
  <2>2. HoldingOK(Kept(h, act, h.qty - part)) /\ Kept(h, act, h.qty - part).stop = act.stop
    <3> HIDE DEF act, part
    <3> QED BY <1>3, <1>4, <1>6, KeptOK
  <2> QED BY <1>1, <1>2, <1>4, <1>6, <2>1, <2>2, OneLookedAt
<1>7. CASE act.kind \notin {"full", "partial"}
  <2>1. positions' = [positions EXCEPT ![c] = Kept(h, act, h.qty)]
    BY <1>7 DEF Exit, Keep
  <2>2. HoldingOK(Kept(h, act, h.qty)) /\ Kept(h, act, h.qty).stop = act.stop
    <3> HIDE DEF act
    <3> QED BY <1>3, <1>4, <1>7, KeptOK
  <2> QED BY <1>1, <1>2, <1>4, <1>7, <2>1, <2>2, OneLookedAt
<1> QED BY <1>5, <1>6, <1>7

\* An entry is planned, or refused.
LEMMA PlanEntryStep ==
  ASSUME SpecInv, NEW c \in Codes, NEW cap \in Caps, NEW stop \in Stops, PlanEntry(c, cap, stop)
  PROVE  SpecInv' /\ Rises /\ Allowed
<1>1. /\ step = "entries" /\ step' = step /\ slots > 0 /\ c \in buys /\ buys' = buys \ {c}
      /\ UNCHANGED <<bar, max, todo, positions, safeStopped>>
  BY DEF PlanEntry, dayVars
<1>2. Rises /\ Allowed
  BY <1>1, NothingTraded
<1>3. CASE UNCHANGED <<planned, slots>>
  <2>1. In(planned') = In(planned) /\ In(positions') = In(positions)
    BY <1>1, <1>3 DEF In
  <2> QED BY <1>1, <1>2, <1>3, <2>1
          DEF SpecInv, TypesKept, BookOK, TodoHeld, PlanApart, SlotsCounted, StoppedProposesNothing
<1>4. ASSUME NEW qty, Enter(c, qty, stop) PROVE SpecInv'
  <2> DEFINE h == Bought(qty, Px(c), stop)
  <2>1. planned' = [planned EXCEPT ![c] = h] /\ slots' = slots - 1
    BY <1>4 DEF Enter
  <2>2. h # None
    <3>1. h.qty > 0 /\ h.qty = qty
      BY <1>4 DEF Enter, Bought
    <3>2. None.qty = 0 /\ ~(0 > 0)
      BY DEF None
    <3> QED BY <3>1, <3>2
  <2>3. HoldingOK(h)
    <3>1. Px(c) \in Int /\ stop \in Int
      BY SpecAssumption DEF SpecInv, TypesKept, Px, NoBar
    <3> QED BY <3>1 DEF HoldingOK, Bought
  <2> HIDE DEF h
  <2>4. \A d \in Codes : planned'[d] = IF d = c THEN h ELSE planned[d]
    BY <2>1 DEF SpecInv, TypesKept, BookOK
  <2>5. In(planned') = In(planned) \cup {c}
    BY <2>2, <2>4 DEF In
  <2>6. BookOK(planned')
    BY <2>1, <2>3, <2>4 DEF BookOK, SpecInv, TypesKept
  <2>7. Cardinality(In(planned')) = Cardinality(In(planned)) + 1
    <3>1. c \notin In(planned)
      BY <1>1 DEF SpecInv, PlanApart
    <3> QED BY <2>5, <3>1, FewHoldings, FS_AddElement
  <2>8. In(positions') = In(positions)
    BY <1>1 DEF In
  <2>9. TypesKept'
    BY <1>1, <2>1, <2>6 DEF SpecInv, TypesKept, BookOK
  <2>10. TodoHeld' /\ PlanApart' /\ StoppedProposesNothing'
    BY <1>1, <2>5, <2>8 DEF SpecInv, TypesKept, TodoHeld, PlanApart, StoppedProposesNothing
  <2>11. SlotsCounted'
    <3>1. /\ Cardinality(In(positions)) \in Nat /\ Cardinality(In(planned)) \in Nat
          /\ max \in Nat /\ slots \in Int
          /\ slots = max - Cardinality(In(positions)) - Cardinality(In(planned))
      BY <1>1, FewHoldings DEF SpecInv, TypesKept, SlotsCounted
    <3>2. /\ slots' = max' - Cardinality(In(positions')) - Cardinality(In(planned'))
          /\ slots' >= 0
      BY <1>1, <2>1, <2>7, <2>8, <3>1
    <3> QED BY <3>2 DEF SlotsCounted
  <2> QED BY <2>9, <2>10, <2>11 DEF SpecInv
<1> QED BY <1>2, <1>3, <1>4 DEF PlanEntry, Refuse

\* The plan is carried out or cancelled.
LEMMA CommitPlanStep ==
  ASSUME SpecInv, CommitPlan
  PROVE  SpecInv' /\ Rises /\ Allowed
<1>1. /\ step = "entries" /\ step' = "close" /\ buys' = {} /\ slots' = 0 /\ max' = 0
      /\ planned' = [c \in Codes |-> None] /\ UNCHANGED <<bar, todo>>
  BY DEF CommitPlan, dayVars
<1>2. In(planned') = {} /\ BookOK(planned')
  BY <1>1, NoneOK DEF In, BookOK
<1>3. ASSUME BookOK(positions') PROVE SpecInv'
  BY <1>1, <1>2, <1>3
     DEF SpecInv, TypesKept, BookOK, TodoHeld, PlanApart, SlotsCounted, StoppedProposesNothing
<1>4. CASE UNCHANGED positions /\ safeStopped' = TRUE
  <2>1. BookOK(positions')
    BY <1>4 DEF SpecInv, TypesKept, BookOK
  <2> QED BY <1>3, <1>4, <2>1, NothingTraded
<1>5. CASE /\ positions' = [c \in Codes |-> IF planned[c] # None THEN planned[c] ELSE positions[c]]
           /\ UNCHANGED safeStopped
  <2>1. BookOK(positions')
    BY <1>5 DEF SpecInv, TypesKept, BookOK
  <2>2. In(positions') = In(positions) \cup In(planned)
    BY <1>5 DEF In
  <2>3. Rises
    <3>1. ASSUME NEW c \in In(positions) PROVE positions'[c] = positions[c] /\ positions[c].stop \in Int
      BY <1>5 DEF In, SpecInv, TypesKept, PlanApart, BookOK, HoldingOK
    <3> QED BY <3>1 DEF Rises
  <2>4. ASSUME In(planned) # {} PROVE ~safeStopped /\ Cardinality(In(positions')) <= max
    <3>1. /\ slots >= 0 /\ slots \in Int /\ max \in Nat
          /\ slots = max - Cardinality(In(positions)) - Cardinality(In(planned))
          /\ ~safeStopped /\ In(planned) \cap In(positions) = {}
      BY <1>1, <2>4 DEF SpecInv, TypesKept, PlanApart, SlotsCounted, StoppedProposesNothing
    <3>2. Cardinality(In(positions')) =
            Cardinality(In(positions)) + Cardinality(In(planned)) - Cardinality(In(positions) \cap In(planned))
      BY <2>2, FewHoldings, FS_Union
    <3>3. Cardinality(In(positions) \cap In(planned)) = 0
      BY <3>1, FS_EmptySet
    <3> QED BY <3>1, <3>2, <3>3, FewHoldings
  <2>5. Allowed
    BY <1>5, <2>2, <2>4 DEF Allowed
  <2> QED BY <1>3, <1>5, <2>1, <2>3, <2>5 DEF SpecInv, TypesKept
<1> QED BY <1>4, <1>5 DEF CommitPlan

\* The steps that trade nothing.
LEMMA QuietStep ==
  ASSUME SpecInv,
         \/ DayBegins \/ NothingToDo \/ ExitsDone \/ DayEnds
         \/ \E b \in SUBSET Codes : Gate(b)
         \/ \E c \in Codes : SkipExit(c)
         \/ UNCHANGED vars
  PROVE  SpecInv' /\ Rises /\ Allowed
<1>0. UNCHANGED <<positions, safeStopped, planned>>
  BY DEF DayBegins, NothingToDo, ExitsDone, DayEnds, Gate, SkipExit, vars, plan
<1>1. Rises /\ Allowed
  BY <1>0, NothingTraded
<1>2. In(positions') = In(positions) /\ In(planned') = In(planned)
  BY <1>0 DEF In
<1>3. ASSUME bar' \in [Codes -> Bars \cup {NoBar}], max' \in Nat, slots' \in Int, buys' \subseteq Codes,
             step' \in {"night", "stops", "exits", "entries", "close"}
      PROVE  TypesKept'
  BY <1>0, <1>3 DEF SpecInv, TypesKept
<1> USE DEF SpecInv, TypesKept, TodoHeld, PlanApart, SlotsCounted, StoppedProposesNothing
<1>4. CASE DayBegins
  <2>1. /\ step' = "stops" /\ step = "night" /\ todo' = In(positions)
        /\ bar' \in [Codes -> Bars \cup {NoBar}] /\ UNCHANGED <<max, buys, slots>>
    BY <1>4 DEF DayBegins, plan
  <2>2. TypesKept'
    BY <1>3, <2>1
  <2>3. TodoHeld' /\ PlanApart' /\ SlotsCounted' /\ StoppedProposesNothing'
    BY <1>0, <1>2, <2>1
  <2> QED BY <1>1, <2>2, <2>3
<1>5. CASE NothingToDo
  <2>1. step' = "close" /\ step = "stops" /\ UNCHANGED <<bar, todo, max, buys, slots>>
    BY <1>5 DEF NothingToDo, plan, dayVars
  <2>2. TypesKept'
    BY <1>3, <2>1
  <2>3. TodoHeld' /\ PlanApart' /\ SlotsCounted' /\ StoppedProposesNothing'
    BY <1>0, <1>2, <2>1
  <2> QED BY <1>1, <2>2, <2>3
<1>6. CASE ExitsDone
  <2>1. /\ step = "exits" /\ step' = "entries" /\ max' \in Nat
        /\ slots' = max' - Cardinality(In(positions)) /\ UNCHANGED <<bar, buys, todo>>
    BY <1>6, SpecAssumption DEF ExitsDone, dayVars
  <2>2. In(planned) = {} /\ Cardinality(In(planned)) = 0 /\ Cardinality(In(positions)) \in Nat
    BY <2>1, FewHoldings, FS_EmptySet
  <2>3. TypesKept'
    BY <1>3, <2>1, <2>2
  <2>4. SlotsCounted'
    BY <1>2, <2>1, <2>2
  <2>5. TodoHeld' /\ PlanApart' /\ StoppedProposesNothing'
    BY <1>0, <1>2, <2>1, <2>2
  <2> QED BY <1>1, <2>3, <2>4, <2>5
<1>7. CASE DayEnds
  <2>1. /\ step' = "night" /\ step = "close" /\ UNCHANGED <<todo, max, buys, slots>>
        /\ bar' \in [Codes -> Bars \cup {NoBar}]
    BY <1>7 DEF DayEnds, plan
  <2>2. TypesKept'
    BY <1>3, <2>1
  <2>3. TodoHeld' /\ PlanApart' /\ SlotsCounted' /\ StoppedProposesNothing'
    BY <1>0, <1>2, <2>1
  <2> QED BY <1>1, <2>2, <2>3
<1>8. ASSUME NEW b \in SUBSET Codes, Gate(b) PROVE SpecInv'
  <2>1. /\ step' = "exits" /\ step = "stops" /\ todo' = In(positions)
        /\ buys' = b /\ b \subseteq Codes \ In(positions) /\ (safeStopped => b = {})
        /\ UNCHANGED <<bar, max, slots>>
    BY <1>8 DEF Gate, dayVars
  <2>2. TypesKept'
    BY <1>3, <2>1
  <2>3. TodoHeld' /\ PlanApart' /\ SlotsCounted' /\ StoppedProposesNothing'
    BY <1>0, <1>2, <2>1
  <2> QED BY <1>1, <2>2, <2>3
<1>9. ASSUME NEW c \in Codes, SkipExit(c) PROVE SpecInv'
  <2>1. step' = step /\ todo' \subseteq todo /\ UNCHANGED <<bar, max, buys, slots>>
    BY <1>9 DEF SkipExit, dayVars, plan
  <2>2. TypesKept'
    BY <1>3, <2>1
  <2>3. TodoHeld' /\ PlanApart' /\ SlotsCounted' /\ StoppedProposesNothing'
    BY <1>0, <1>2, <2>1
  <2> QED BY <1>1, <2>2, <2>3
<1>10. CASE UNCHANGED vars
  <2>1. UNCHANGED <<step, todo, bar, max, buys, slots>>
    BY <1>10 DEF vars, dayVars, plan
  <2>2. TypesKept'
    BY <1>3, <2>1
  <2>3. TodoHeld' /\ PlanApart' /\ SlotsCounted' /\ StoppedProposesNothing'
    BY <1>0, <1>2, <2>1
  <2> QED BY <1>1, <2>2, <2>3
<1> QED BY <1>1, <1>4, <1>5, <1>6, <1>7, <1>8, <1>9, <1>10

\* Every step.
LEMMA EveryStep ==
  ASSUME SpecInv, [Next]_vars
  PROVE  SpecInv' /\ Rises /\ Allowed
<1>1. ASSUME NEW c \in Codes, CheckStop(c) PROVE SpecInv' /\ Rises /\ Allowed
  BY <1>1, CheckStopStep
<1>2. ASSUME NEW c \in Codes, NEW trail \in Stops, NEW thesisValid \in BOOLEAN,
             Exit(c, trail, thesisValid)
      PROVE  SpecInv' /\ Rises /\ Allowed
  BY <1>2, ExitStep
<1>3. ASSUME NEW c \in Codes, NEW cap \in Caps, NEW stop \in Stops, PlanEntry(c, cap, stop)
      PROVE  SpecInv' /\ Rises /\ Allowed
  BY <1>3, PlanEntryStep
<1>4. CASE CommitPlan
  BY <1>4, CommitPlanStep
<1>5. CASE \/ DayBegins \/ NothingToDo \/ ExitsDone \/ DayEnds
           \/ \E b \in SUBSET Codes : Gate(b)
           \/ \E c \in Codes : SkipExit(c)
           \/ UNCHANGED vars
  BY <1>5, QuietStep
<1> QED BY <1>1, <1>2, <1>3, <1>4, <1>5 DEF Next

\* The start.
LEMMA InitInv == Init => SpecInv
<1> SUFFICES ASSUME Init PROVE SpecInv
  OBVIOUS
<1>1. In(positions) = {} /\ In(planned) = {} /\ BookOK(positions) /\ BookOK(planned)
  BY NoneOK DEF Init, In, BookOK
<1>2. TypesKept
  BY <1>1 DEF Init, TypesKept
<1> QED BY <1>1, <1>2
        DEF Init, SpecInv, TodoHeld, PlanApart, SlotsCounted, StoppedProposesNothing

\* The invariant always holds.
LEMMA Inductive == Spec => []SpecInv
<1>1. SpecInv /\ [Next]_vars => SpecInv'
  BY EveryStep
<1> QED BY InitInv, <1>1, PTL DEF Spec

-----------------------------------------------------------------------------
(* Theorems.                                                               *)

\* The stop of a holding is never lowered, whichever rule of decide_exit moves it
\* and whatever the plan of the day buys.
THEOREM StopsRise == Spec => StopsNeverFall
<1>1. SpecInv /\ [Next]_vars =>
        [\A c \in In(positions) \cap In(positions') : positions'[c].stop >= positions[c].stop]_vars
  BY EveryStep DEF Rises
<1> QED BY <1>1, Inductive, PTL DEF Spec, StopsNeverFall

\* Nothing is bought after a SafeStop, and no purchase leaves more holdings than
\* the limit of that day, whatever the limits of other days were.
THEOREM EntriesAllowed == Spec => EntriesAsAllowed
<1>1. SpecInv /\ [Next]_vars =>
        [/\ safeStopped => safeStopped'
         /\ ~(In(positions') \subseteq In(positions)) =>
              ~safeStopped /\ Cardinality(In(positions')) <= max]_vars
  BY EveryStep DEF Allowed
<1> QED BY <1>1, Inductive, PTL DEF Spec, EntriesAsAllowed

-----------------------------------------------------------------------------
(* Arithmetic of the costs.                                                *)

\* The whole part of a quotient is between zero and the dividend.
LEMMA DivBound ==
  ASSUME NEW v \in Nat, NEW r \in Nat \ {0}
  PROVE  v \div r \in Nat /\ v \div r <= v
<1> DEFINE k == v \div r
<1>1. k \in Int /\ v % r \in 0 .. r - 1 /\ v = (r * k) + (v % r)
  OBVIOUS
<1>2. k >= 0
  <2>1. SUFFICES ASSUME k <= -1 PROVE FALSE
    BY <1>1
  <2>2. r * k <= -r
    BY <1>1, <2>1
  <2> HIDE DEF k
  <2> QED BY <1>1, <2>2
<1>3. r * k >= k
  BY <1>1, <1>2
<1> QED BY <1>1, <1>2, <1>3

\* Quotient and remainder determine each other.
LEMMA DivUnique ==
  ASSUME NEW k \in Int, NEW r \in Nat \ {0}, NEW a \in 0 .. r - 1
  PROVE  ((r * k) + a) \div r = k
OBVIOUS

\* A price the rate divides is divided share by share.
LEMMA DivMultiple ==
  ASSUME NEW q \in Nat, NEW e \in Nat, NEW r \in Nat \ {0}, e % r = 0
  PROVE  (q * e) \div r = q * (e \div r)
<1> DEFINE k == e \div r
<1>1. k \in Int /\ e = r * k
  OBVIOUS
<1> HIDE DEF k
<1>2. q * e = (r * (q * k)) + 0 /\ q * k \in Int
  BY <1>1
<1>3. ((r * (q * k)) + 0) \div r = q * k
  BY <1>2, DivUnique
<1> QED BY <1>2, <1>3 DEF k

\* A holding with its money; without partial exits of everything it is not empty.
MoneyHolding(h) ==
  /\ h \in [qty : Nat, entry : Nat \ {0}, initial : Nat, stop : Nat, days : Nat, breakeven : BOOLEAN]
  /\ h.entry % BuyRate = 0

MoneyBook(book) == \A c \in In(book) : MoneyHolding(book[c])

\* What one share of a holding was paid for, its costs included.
PerShare(h) == h.entry + (h.entry \div BuyRate)

\* The cost of a purchase is the cost of its shares.
LEMMA CostPerShare ==
  ASSUME NEW h, MoneyHolding(h), NEW q \in Nat
  PROVE  /\ PerShare(h) \in Nat
         /\ (q * h.entry) + BuyCost(q * h.entry) = q * PerShare(h)
<1>1. /\ h.entry \in Nat /\ h.entry % BuyRate = 0 /\ BuyRate \in Nat \ {0}
  BY SpecAssumption DEF MoneyHolding
<1>2. h.entry \div BuyRate \in Nat
  BY <1>1, DivBound
<1>3. BuyCost(q * h.entry) = q * (h.entry \div BuyRate)
  BY <1>1, DivMultiple DEF BuyCost
<1> DEFINE e == h.entry
           b == h.entry \div BuyRate
<1>4. (q * e) + (q * b) = q * (e + b)
  <2> HIDE DEF e, b
  <2>1. e \in Nat /\ b \in Nat
    BY <1>1, <1>2 DEF e, b
  <2> QED BY <2>1
<1> QED BY <1>1, <1>2, <1>3, <1>4 DEF PerShare

\* What a holding has cost.
LEMMA CostIs ==
  ASSUME NEW h, MoneyHolding(h)
  PROVE  Cost(h) = h.qty * PerShare(h) /\ Cost(h) \in Nat
<1>1. h.qty \in Nat
  BY DEF MoneyHolding
<1>2. PerShare(h) \in Nat /\ Cost(h) = h.qty * PerShare(h)
  BY <1>1, CostPerShare DEF Cost
<1> QED BY <1>1, <1>2

\* No holding has cost nothing.
LEMMA NoneCosts == Cost(None) = 0
<1>1. BuyRate \in Nat \ {0}
  BY SpecAssumption
<1>2. 0 \div BuyRate = 0
  <2>1. ((BuyRate * 0) + 0) \div BuyRate = 0
    BY <1>1, DivUnique
  <2> QED BY <1>1, <2>1
<1>3. None.qty = 0 /\ None.entry = 0
  BY DEF None
<1> QED BY <1>2, <1>3 DEF Cost, BuyCost

\* The costs of a sale are never more than it brings.
LEMMA ProceedsNat ==
  ASSUME NEW price \in Nat, NEW q \in Nat
  PROVE  Proceeds(price, q) \in Nat
<1> DEFINE v == price * q
<1>1. v \in Nat /\ SellRate \in Nat \ {0}
  BY SpecAssumption
<1>2. v \div SellRate \in Nat /\ v \div SellRate <= v
  BY <1>1, DivBound
<1>3. Proceeds(price, q) = v - (v \div SellRate)
  BY DEF Proceeds, SellCost
<1> HIDE DEF v
<1> QED BY <1>1, <1>2, <1>3

\* A sale brings its profit and what the shares sold had cost.
LEMMA SaleBalances ==
  ASSUME NEW h, MoneyHolding(h), NEW price \in Nat, NEW q \in Nat
  PROVE  /\ NetPnl(h, price, q) \in Int
         /\ Proceeds(price, q) = NetPnl(h, price, q) + (q * PerShare(h))
<1> DEFINE e == h.entry
           b == BuyCost(e * q)
           s == SellCost(price * q)
           u == PerShare(h)
<1>1. e \in Nat /\ u \in Nat /\ q * e = e * q
  BY CostPerShare DEF MoneyHolding
<1>2. (e * q) + b = q * u
  BY <1>1, CostPerShare
<1>3. s \in Int
  BY DivBound, SpecAssumption DEF SellCost
<1>4. b \in Int
  BY <1>1, DivBound, SpecAssumption DEF BuyCost
<1>5. NetPnl(h, price, q) = (((price - e) * q) - b) - s
  BY DEF NetPnl
<1>6. Proceeds(price, q) = (price * q) - s
  BY DEF Proceeds
<1> HIDE DEF e, b, s, u
<1>7. (price - e) * q = (price * q) - (e * q)
  BY <1>1
<1>8. /\ e * q \in Int /\ price * q \in Int /\ q * u \in Int
  BY <1>1
<1> QED BY <1>2, <1>3, <1>4, <1>5, <1>6, <1>7, <1>8 DEF u

-----------------------------------------------------------------------------
(* What a book has cost.                                                   *)

CostsOf(book) == [c \in In(book) |-> Cost(book[c])]

\* It is a sum of natural numbers over the holdings.
LEMMA AtCostIs ==
  ASSUME NEW book, MoneyBook(book)
  PROVE  /\ AtCost(book) = SumFunctionOnSet(CostsOf(book), In(book))
         /\ \A c \in In(book) : CostsOf(book)[c] = Cost(book[c]) /\ CostsOf(book)[c] \in Int
         /\ AtCost(book) \in Int
<1>1. AtCost(book) = SumFunctionOnSet(CostsOf(book), In(book))
  BY DEF AtCost, SumFunction, CostsOf
<1>2. \A c \in In(book) : CostsOf(book)[c] = Cost(book[c])
  BY DEF CostsOf
<1>3. \A c \in In(book) : CostsOf(book)[c] \in Int
  BY <1>2, CostIs DEF MoneyBook
<1>4. SumFunctionOnSet(CostsOf(book), In(book)) \in Int
  BY <1>3, FewHoldings, SumInt
<1> QED BY <1>1, <1>2, <1>3, <1>4

\* An empty book has cost nothing.
LEMMA EmptyBookCosts ==
  ASSUME NEW book, In(book) = {}
  PROVE  AtCost(book) = 0
<1>1. MoneyBook(book)
  BY DEF MoneyBook
<1> QED BY <1>1, AtCostIs, SumEmpty

\* One holding comes, goes or changes.
LEMMA AtCostChange ==
  ASSUME NEW book, BookOK(book), MoneyBook(book), NEW c \in Codes,
         NEW h, h # None => MoneyHolding(h),
         NEW new, new = [book EXCEPT ![c] = h]
  PROVE  /\ MoneyBook(new)
         /\ Cost(h) \in Int /\ Cost(book[c]) \in Int
         /\ AtCost(new) = (AtCost(book) - Cost(book[c])) + Cost(h)
<1>1. \A d \in Codes : new[d] = IF d = c THEN h ELSE book[d]
  BY DEF BookOK
<1>2. MoneyBook(new)
  BY <1>1 DEF MoneyBook, In
<1>3. In(book) \ {c} = In(new) \ {c} /\ (c \in In(book) <=> book[c] # None)
      /\ (c \in In(new) <=> h # None)
  BY <1>1 DEF In
<1>4. Cost(h) \in Int /\ Cost(book[c]) \in Int
  BY <1>3, CostIs, NoneCosts DEF MoneyBook
<1> DEFINE f == CostsOf(book)
           g == CostsOf(new)
<1>5. /\ AtCost(book) = SumFunctionOnSet(f, In(book)) /\ \A d \in In(book) : f[d] \in Int
      /\ AtCost(new) = SumFunctionOnSet(g, In(new)) /\ \A d \in In(new) : g[d] \in Int
      /\ \A d \in In(book) : f[d] = Cost(book[d])
      /\ \A d \in In(new) : g[d] = Cost(new[d])
      /\ AtCost(book) \in Int
  BY <1>2, AtCostIs
<1>6. \A d \in In(book) \ {c} : f[d] = g[d]
  BY <1>1, <1>3, <1>5 DEF In
<1>7. /\ (IF c \in In(book) THEN f[c] ELSE 0) = Cost(book[c])
      /\ (IF c \in In(new) THEN g[c] ELSE 0) = Cost(h)
  BY <1>1, <1>3, <1>5, NoneCosts
<1> HIDE DEF f, g
<1>8. SumFunctionOnSet(g, In(new)) =
        SumFunctionOnSet(f, In(book)) - (IF c \in In(book) THEN f[c] ELSE 0)
                                      + (IF c \in In(new) THEN g[c] ELSE 0)
  <2>1. /\ IsFiniteSet(In(book)) /\ In(book) \ {c} = In(new) \ {c}
        /\ \A d \in In(book) : f[d] \in Int
        /\ \A d \in In(new) : g[d] \in Int
        /\ \A d \in In(book) \ {c} : f[d] = g[d]
    BY <1>3, <1>5, <1>6, FewHoldings
  <2> DEFINE S == In(book)
             T == In(new)
  <2> HIDE DEF S, T
  <2>2. /\ IsFiniteSet(S) /\ S \ {c} = T \ {c}
        /\ \A d \in S : f[d] \in Int
        /\ \A d \in T : g[d] \in Int
        /\ \A d \in S \ {c} : f[d] = g[d]
    BY <2>1 DEF S, T
  <2>3. SumFunctionOnSet(g, T) =
          SumFunctionOnSet(f, S) - (IF c \in S THEN f[c] ELSE 0) + (IF c \in T THEN g[c] ELSE 0)
    BY <2>2, SumChange
  <2> QED BY <2>3 DEF S, T
<1> QED BY <1>2, <1>4, <1>5, <1>7, <1>8

\* Two books without a common holding, put together.
LEMMA AtCostJoined ==
  ASSUME NEW a, MoneyBook(a), NEW b, MoneyBook(b), In(a) \cap In(b) = {},
         NEW new, In(new) = In(a) \cup In(b),
         \A c \in In(a) : new[c] = a[c], \A c \in In(b) : new[c] = b[c]
  PROVE  MoneyBook(new) /\ AtCost(new) = AtCost(a) + AtCost(b)
<1>1. MoneyBook(new)
  BY DEF MoneyBook
<1>2. /\ AtCost(new) = SumFunctionOnSet(CostsOf(new), In(new))
      /\ \A c \in In(new) : CostsOf(new)[c] = Cost(new[c]) /\ CostsOf(new)[c] \in Int
  BY <1>1, AtCostIs
<1>3. /\ AtCost(a) = SumFunctionOnSet(CostsOf(a), In(a))
      /\ \A c \in In(a) : CostsOf(a)[c] = Cost(a[c])
  BY AtCostIs
<1>4. /\ AtCost(b) = SumFunctionOnSet(CostsOf(b), In(b))
      /\ \A c \in In(b) : CostsOf(b)[c] = Cost(b[c])
  BY AtCostIs
<1>5. IsFiniteSet(In(a)) /\ IsFiniteSet(In(b))
  BY FewHoldings
<1>6. SumFunctionOnSet(CostsOf(new), In(a)) = SumFunctionOnSet(CostsOf(a), In(a))
  BY <1>2, <1>3, <1>5, SumSame
<1>7. SumFunctionOnSet(CostsOf(new), In(b)) = SumFunctionOnSet(CostsOf(b), In(b))
  BY <1>2, <1>4, <1>5, SumSame
<1>8. SumFunctionOnSet(CostsOf(new), In(a) \cup In(b))
        = SumFunctionOnSet(CostsOf(new), In(a)) + SumFunctionOnSet(CostsOf(new), In(b))
  BY <1>2, <1>5, SumUnion
<1> QED BY <1>1, <1>2, <1>3, <1>4, <1>6, <1>7, <1>8

\* A cancelled plan gives back what it has cost.
LEMMA RefundsAreCosts ==
  ASSUME NEW book
  PROVE  SumFunction([c \in In(book) |-> Refund(book[c])]) = AtCost(book)
BY DEF AtCost, Refund, Cost

-----------------------------------------------------------------------------
(* The types and the money.                                                *)

CountsTyped ==
  /\ day \in 0 .. Days
  /\ last \in [Codes -> Nat]
  /\ max \in Maxima \cup {0} /\ (step = "entries" => max # 0)
  /\ todo \subseteq Codes
  /\ safeStopped \in BOOLEAN

MoneyTyped ==
  /\ cash \in Nat /\ pnl \in Int
  /\ MoneyBook(positions) /\ MoneyBook(planned)

MoneyInv == MoneyTyped /\ MoneyConserved

\* A step that moves neither money nor shares.
LEMMA NoMoneyMoves ==
  ASSUME MoneyInv, UNCHANGED <<cash, pnl, positions, planned>>
  PROVE  MoneyInv'
<1>1. MoneyTyped'
  BY DEF MoneyInv, MoneyTyped
<1>2. MoneyConserved'
  BY DEF MoneyInv, MoneyConserved
<1> QED BY <1>1, <1>2 DEF MoneyInv

\* A sale: the cash, the profit and what the holding had cost change together.
LEMMA SellKeepsMoney ==
  ASSUME SpecInv, MoneyInv, NEW c \in In(positions), NEW price \in Nat, NEW q \in Nat,
         NEW h, h # None => MoneyHolding(h),
         Cost(h) = Cost(positions[c]) - (q * PerShare(positions[c])),
         Sell(c, price, q, h), planned' = planned
  PROVE  MoneyInv'
<1> DEFINE g == positions[c]
           paid == q * PerShare(g)
<1>1. c \in Codes /\ MoneyHolding(g) /\ BookOK(positions)
  BY DEF In, MoneyInv, MoneyTyped, MoneyBook, SpecInv, TypesKept
<1>2. /\ cash' = cash + Proceeds(price, q) /\ pnl' = pnl + NetPnl(g, price, q)
      /\ positions' = [positions EXCEPT ![c] = h]
  BY DEF Sell
<1>3. /\ NetPnl(g, price, q) \in Int /\ Proceeds(price, q) \in Nat
      /\ Proceeds(price, q) = NetPnl(g, price, q) + paid
  BY <1>1, SaleBalances, ProceedsNat
<1>4. MoneyBook(positions) /\ MoneyBook(planned) /\ cash \in Nat /\ pnl \in Int
  BY DEF MoneyInv, MoneyTyped
<1>5. /\ MoneyBook(positions')
      /\ Cost(h) \in Int /\ Cost(g) \in Int
      /\ AtCost(positions') = (AtCost(positions) - Cost(g)) + Cost(h)
  BY <1>1, <1>2, <1>4, AtCostChange
<1>6. AtCost(positions) \in Int /\ AtCost(planned) \in Int
  BY <1>4, AtCostIs
<1>7. Cost(h) = Cost(g) - paid /\ paid \in Int
  <2>1. PerShare(g) \in Nat
    BY <1>1, CostPerShare
  <2> QED BY <2>1
<1> HIDE DEF g, paid
<1>8. cash' \in Nat /\ pnl' \in Int
  BY <1>2, <1>3, <1>4
<1>9. MoneyTyped'
  BY <1>4, <1>5, <1>8 DEF MoneyTyped
<1>10. cash + AtCost(positions) + AtCost(planned) = Capital + pnl /\ Capital \in Int
  BY SpecAssumption DEF MoneyInv, MoneyConserved
<1>11. cash' + AtCost(positions') + AtCost(planned') = Capital + pnl'
  BY <1>2, <1>3, <1>4, <1>5, <1>6, <1>7, <1>10
<1> QED BY <1>9, <1>11 DEF MoneyInv, MoneyConserved

\* All is sold.
LEMMA SellAllKeepsMoney ==
  ASSUME SpecInv, MoneyInv, NEW c \in In(positions), NEW price \in Nat,
         Sell(c, price, positions[c].qty, None), planned' = planned
  PROVE  MoneyInv'
<1>1. MoneyHolding(positions[c]) /\ positions[c].qty \in Nat
  BY DEF MoneyInv, MoneyTyped, MoneyBook, MoneyHolding
<1>2. Cost(positions[c]) = positions[c].qty * PerShare(positions[c]) /\ Cost(positions[c]) \in Nat
  BY <1>1, CostIs
<1>3. Cost(None) = Cost(positions[c]) - (positions[c].qty * PerShare(positions[c]))
  BY <1>2, NoneCosts
<1> QED BY <1>1, <1>3, SellKeepsMoney

\* A holding is replaced by one of the same cost, and nothing is sold.
LEMMA KeepKeepsMoney ==
  ASSUME SpecInv, MoneyInv, NEW c \in In(positions), NEW h, MoneyHolding(h),
         Cost(h) = Cost(positions[c]), Keep(c, h), planned' = planned
  PROVE  MoneyInv'
<1>1. c \in Codes /\ BookOK(positions)
  BY DEF In, SpecInv, TypesKept
<1>2. positions' = [positions EXCEPT ![c] = h] /\ cash' = cash /\ pnl' = pnl
  BY DEF Keep, money
<1>3. MoneyBook(positions) /\ MoneyBook(planned) /\ cash \in Nat /\ pnl \in Int
  BY DEF MoneyInv, MoneyTyped
<1>4. /\ MoneyBook(positions') /\ Cost(h) \in Int
      /\ AtCost(positions') = (AtCost(positions) - Cost(positions[c])) + Cost(h)
  BY <1>1, <1>2, <1>3, AtCostChange
<1>5. AtCost(positions) \in Int
  BY <1>3, AtCostIs
<1>6. AtCost(positions') = AtCost(positions)
  BY <1>4, <1>5
<1>7. MoneyTyped'
  BY <1>2, <1>3, <1>4 DEF MoneyTyped
<1>8. MoneyConserved'
  BY <1>2, <1>6 DEF MoneyInv, MoneyConserved
<1> QED BY <1>7, <1>8 DEF MoneyInv

\* Prices are whole and not negative.
LEMMA PricesNat ==
  ASSUME SpecInv, NEW c \in Codes
  PROVE  /\ bar[c].open \in Nat /\ Px(c) \in Nat
         /\ bar[c] # NoBar => bar[c] \in Bars
BY SpecAssumption DEF SpecInv, TypesKept, NoBar, Px

\* A stop is looked at.
LEMMA CheckStopMoney ==
  ASSUME SpecInv, MoneyInv, NEW c \in Codes, CheckStop(c)
  PROVE  MoneyInv'
<1>1. c \in In(positions) /\ planned' = planned
  BY DEF CheckStop, First, SpecInv, TodoHeld, plan
<1>2. MoneyHolding(positions[c])
  BY <1>1 DEF MoneyInv, MoneyTyped, MoneyBook
<1>3. StopFill(c) \in Nat
  BY <1>2, PricesNat DEF StopFill, MoneyHolding
<1>4. CASE Sell(c, StopFill(c), positions[c].qty, None)
  BY <1>1, <1>3, <1>4, SellAllKeepsMoney
<1>5. CASE Keep(c, positions[c])
  BY <1>1, <1>2, <1>5, KeepKeepsMoney
<1> QED BY <1>4, <1>5 DEF CheckStop

\* What is left of a holding after the day's action, and what it has cost.
LEMMA KeptMoney ==
  ASSUME NEW h, MoneyHolding(h), NEW act, act.stop \in Nat, NEW part \in Nat, part <= h.qty
  PROVE  /\ MoneyHolding(Kept(h, act, h.qty - part))
         /\ Kept(h, act, h.qty - part).qty = h.qty - part
         /\ Cost(Kept(h, act, h.qty - part)) = Cost(h) - (part * PerShare(h))
<1> DEFINE g == Kept(h, act, h.qty - part)
<1>1. /\ h.qty \in Nat /\ h.entry \in Nat \ {0} /\ h.initial \in Nat /\ h.days \in Nat
      /\ h.entry % BuyRate = 0
  BY DEF MoneyHolding
<1>2. h.qty - part \in Nat
  BY <1>1
<1>3. (h.breakeven \/ act.kind \in {"partial", "breakeven"}) \in BOOLEAN
  OBVIOUS
<1>4. g.qty = h.qty - part /\ g.entry = h.entry
  BY DEF Kept
<1>5. MoneyHolding(g)
  <2> DEFINE done == h.breakeven \/ act.kind \in {"partial", "breakeven"}
  <2>1. done \in BOOLEAN
    BY <1>3
  <2>2. g = [qty |-> h.qty - part, entry |-> h.entry, initial |-> h.initial, stop |-> act.stop,
             days |-> h.days + 1, breakeven |-> done]
    BY DEF Kept
  <2>3. h.days + 1 \in Nat
    BY <1>1
  <2> HIDE DEF done, g
  <2> QED BY <1>1, <1>2, <2>1, <2>2, <2>3 DEF MoneyHolding
<1>6. Cost(g) = g.qty * PerShare(g) /\ Cost(h) = h.qty * PerShare(h) /\ PerShare(h) \in Nat
  BY <1>1, <1>5, CostIs, CostPerShare
<1>7. PerShare(g) = PerShare(h)
  BY <1>4 DEF PerShare
<1> DEFINE u == PerShare(h)
           n == h.qty
<1>8. (n - part) * u = (n * u) - (part * u)
  <2> HIDE DEF u, n
  <2>1. n \in Int /\ u \in Int
    BY <1>1, <1>6 DEF u, n
  <2> QED BY <2>1
<1> QED BY <1>4, <1>5, <1>6, <1>7, <1>8

\* A holding is kept, halved or sold.
LEMMA ExitMoney ==
  ASSUME SpecInv, MoneyInv, NEW c \in Codes, NEW trail \in Stops, NEW thesisValid \in BOOLEAN,
         Exit(c, trail, thesisValid)
  PROVE  MoneyInv'
<1> DEFINE h == positions[c]
           act == DecideExit(h, Px(c), trail, thesisValid)
           part == h.qty \div PartialOf
<1>1. c \in In(positions) /\ planned' = planned
  BY DEF Exit, First, SpecInv, TodoHeld, plan
<1>2. MoneyHolding(h) /\ HoldingOK(h) /\ h.qty \in Nat /\ h.stop \in Nat /\ trail \in Int
  BY <1>1, SpecAssumption DEF MoneyInv, MoneyTyped, MoneyBook, MoneyHolding, SpecInv, TypesKept, BookOK
<1>3. act.kind # "full" => act.stop \in Nat
  <2>1. act.kind # "full" => act.stop \in Int /\ act.stop >= h.stop
    BY <1>2, DecideRises
  <2> HIDE DEF act
  <2> QED BY <1>2, <2>1
<1>4. act.kind = "partial" => PartialOf > 0
  BY DEF DecideExit, Action
<1>5. Px(c) \in Nat
  BY PricesNat
<1>6. CASE act.kind = "full"
  <2>1. Sell(c, Px(c), h.qty, None)
    BY <1>6 DEF Exit
  <2> QED BY <1>1, <1>5, <2>1, SellAllKeepsMoney
<1>7. CASE act.kind = "partial"
  <2>1. Sell(c, Px(c), part, Kept(h, act, h.qty - part))
    BY <1>7 DEF Exit
  <2>2. part \in Nat /\ part <= h.qty
    BY <1>2, <1>4, <1>7, DivBound, SpecAssumption
  <2> DEFINE g == Kept(h, act, h.qty - part)
  <2>3. MoneyHolding(g) /\ Cost(g) = Cost(h) - (part * PerShare(h))
    <3> HIDE DEF act, part, h
    <3> QED BY <1>2, <1>3, <1>7, <2>2, KeptMoney
  <2> HIDE DEF act, part, g
  <2>4. Sell(c, Px(c), part, g)
    BY <2>1 DEF g
  <2> QED BY <1>1, <1>5, <2>2, <2>3, <2>4, SellKeepsMoney
<1>8. CASE act.kind \notin {"full", "partial"}
  <2>1. Keep(c, Kept(h, act, h.qty))
    BY <1>8 DEF Exit
  <2> DEFINE g == Kept(h, act, h.qty - 0)
  <2>2. /\ MoneyHolding(g)
        /\ Cost(g) = Cost(h) - (0 * PerShare(h))
    <3>1. 0 \in Nat /\ 0 <= h.qty
      BY <1>2
    <3> HIDE DEF act, h
    <3> QED BY <1>2, <1>3, <1>8, <3>1, KeptMoney
  <2>3. Cost(h) \in Nat /\ PerShare(h) \in Nat
    BY <1>2, CostIs, CostPerShare
  <2>4. Cost(g) = Cost(h)
    <3> HIDE DEF g, h
    <3> QED BY <2>2, <2>3
  <2>5. Keep(c, g)
    <3>1. h.qty - 0 = h.qty
      BY <1>2
    <3> QED BY <2>1, <3>1
  <2> HIDE DEF act, g
  <2> QED BY <1>1, <2>2, <2>4, <2>5, KeepKeepsMoney
<1> QED BY <1>6, <1>7, <1>8

\* What a book is worth is a whole number.
LEMMA WorthInt ==
  ASSUME SpecInv, last \in [Codes -> Nat], NEW book, MoneyBook(book)
  PROVE  BookWorth(book) \in Int
<1> DEFINE f == [c \in In(book) |-> Worth(c, book[c])]
<1>1. ASSUME NEW c \in In(book) PROVE f[c] \in Int
  <2>1. c \in Codes /\ MoneyHolding(book[c])
    BY DEF MoneyBook, In
  <2> DEFINE p == IF bar[c] # NoBar THEN Px(c) ELSE IF last[c] # 0 THEN last[c] ELSE book[c].entry
  <2>2. p \in Nat /\ book[c].qty \in Nat
    BY <2>1, PricesNat DEF MoneyHolding
  <2>3. f[c] = book[c].qty * p
    BY DEF Worth
  <2> HIDE DEF p, f
  <2> QED BY <2>2, <2>3
<1>2. BookWorth(book) = SumFunctionOnSet(f, In(book))
  BY DEF BookWorth, SumFunction
<1> HIDE DEF f
<1> QED BY <1>1, <1>2, FewHoldings, SumInt

\* The quantity that is asked for is a whole number.
LEMMA SharesInt ==
  ASSUME SpecInv, MoneyInv, CountsTyped, step = "entries",
         NEW c \in Codes, Px(c) > 0, NEW cap \in Caps
  PROVE  Shares(c, cap) \in Int
<1>1. /\ max \in Nat \ {0} /\ cap \in Nat /\ Px(c) \in Nat \ {0}
  BY SpecAssumption, PricesNat DEF CountsTyped
<1>2. BookWorth(positions) \in Int /\ BookWorth(planned) \in Int /\ cash \in Nat
  BY WorthInt DEF MoneyInv, MoneyTyped, CountsTyped
<1>3. Risk(max)!Equity(Account) = cash + (BookWorth(positions) + BookWorth(planned))
  BY DEF Risk!Equity, Account
<1> DEFINE equity == Risk(max)!Equity(Account)
           base == (equity \div max) \div Px(c)
<1>4. equity \in Int
  BY <1>2, <1>3
<1>5. Shares(c, cap) = LET qty == IF cap < base THEN cap ELSE base IN IF qty < 0 THEN 0 ELSE qty
  BY DEF Shares, Risk!PositionQty, Risk!EqualWeightQty
<1>6. base \in Int
  <2> HIDE DEF equity
  <2>1. equity \div max \in Int
    BY <1>1, <1>4
  <2> QED BY <1>1, <2>1
<1> HIDE DEF base
<1> QED BY <1>1, <1>5, <1>6

\* An entry is paid for, or refused.
LEMMA PlanEntryMoney ==
  ASSUME SpecInv, MoneyInv, CountsTyped,
         NEW c \in Codes, NEW cap \in Caps, NEW stop \in Stops, PlanEntry(c, cap, stop)
  PROVE  MoneyInv'
<1> DEFINE qty == Shares(c, cap)
           price == Px(c)
           h == Bought(qty, price, stop)
           value == price * qty
<1>1. /\ step = "entries" /\ c \in buys /\ stop < price /\ positions' = positions /\ pnl' = pnl
      /\ Refuse(c, qty) \/ Enter(c, qty, stop)
  BY DEF PlanEntry
<1>2. stop \in Nat /\ price \in Nat \ {0}
  <2>1. stop \in Nat /\ price \in Nat
    BY SpecAssumption, PricesNat
  <2> QED BY <1>1, <2>1
<1>3. qty \in Int
  BY <1>1, <1>2, SharesInt
<1>4. CASE Refuse(c, qty)
  BY <1>1, <1>4, NoMoneyMoves DEF Refuse
<1>5. CASE Enter(c, qty, stop)
  <2> HIDE DEF qty, price
  <2>1. /\ qty > 0 /\ value + BuyCost(value) <= cash
        /\ planned' = [planned EXCEPT ![c] = h]
        /\ cash' = (cash - value) - BuyCost(value)
    BY <1>5 DEF Enter, Affordable, price
  <2>2. qty \in Nat \ {0}
    BY <1>3, <2>1
  <2>3. price % BuyRate = 0
    <3>1. bar[c] \in Bars /\ price = bar[c].close
      BY <1>2, PricesNat DEF price, Px, NoBar
    <3> QED BY <3>1, CostAssumption
  <2>4. MoneyHolding(h) /\ h.qty = qty /\ h.entry = price
    BY <1>2, <2>2, <2>3 DEF Bought, MoneyHolding
  <2>5. Cost(h) = value + BuyCost(value) /\ Cost(h) \in Nat
    <3>1. qty * price = price * qty
      BY <1>2, <1>3
    <3> QED BY <2>4, <3>1, CostIs DEF Cost
  <2>6. /\ MoneyBook(positions) /\ MoneyBook(planned) /\ cash \in Nat /\ pnl \in Int
        /\ BookOK(planned)
    BY DEF MoneyInv, MoneyTyped, SpecInv, TypesKept
  <2>7. Cost(planned[c]) = 0
    <3>1. planned[c] = None
      BY <1>1 DEF SpecInv, PlanApart, In
    <3> QED BY <3>1, NoneCosts
  <2> HIDE DEF h
  <2>8. MoneyBook(planned') /\ AtCost(planned') = (AtCost(planned) - 0) + Cost(h)
    BY <2>1, <2>4, <2>6, <2>7, AtCostChange
  <2>9. AtCost(planned) \in Int /\ AtCost(positions) \in Int
    BY <2>6, AtCostIs
  <2>10. value \in Int /\ BuyCost(value) \in Int
    <3>1. value \in Nat
      BY <1>2, <2>2
    <3> QED BY <3>1, DivBound, SpecAssumption DEF BuyCost
  <2> HIDE DEF value
  <2>11. cash' = cash - Cost(h) /\ cash' \in Nat
    BY <2>1, <2>5, <2>6, <2>10
  <2>12. MoneyTyped'
    BY <1>1, <2>6, <2>8, <2>11 DEF MoneyTyped
  <2>13. cash + AtCost(positions) + AtCost(planned) = Capital + pnl
    BY DEF MoneyInv, MoneyConserved
  <2>14. cash' + AtCost(positions) + AtCost(planned') = Capital + pnl
    BY <2>5, <2>6, <2>8, <2>9, <2>11, <2>13
  <2> QED BY <1>1, <2>12, <2>14 DEF MoneyInv, MoneyConserved
<1> QED BY <1>1, <1>4, <1>5

\* A plan is carried out, or its money comes back.
LEMMA CommitPlanMoney ==
  ASSUME SpecInv, MoneyInv, CommitPlan
  PROVE  MoneyInv'
<1>1. planned' = [c \in Codes |-> None] /\ pnl' = pnl
  BY DEF CommitPlan
<1>2. In(planned') = {}
  BY <1>1 DEF In
<1>3. AtCost(planned') = 0 /\ MoneyBook(planned')
  BY <1>2, EmptyBookCosts DEF MoneyBook
<1>4. /\ MoneyBook(positions) /\ MoneyBook(planned) /\ cash \in Nat /\ pnl \in Int
      /\ cash + AtCost(positions) + AtCost(planned) = Capital + pnl
  BY DEF MoneyInv, MoneyTyped, MoneyConserved
<1>5. AtCost(planned) \in Int /\ AtCost(positions) \in Int
  BY <1>4, AtCostIs
<1>6. CASE /\ cash' = cash + SumFunction([c \in In(planned) |-> Refund(planned[c])])
           /\ positions' = positions
  <2>1. cash' = cash + AtCost(planned)
    BY <1>6, RefundsAreCosts
  <2>2. AtCost(planned) \in Nat
    <3>1. /\ AtCost(planned) = SumFunctionOnSet(CostsOf(planned), In(planned))
          /\ \A c \in In(planned) : CostsOf(planned)[c] = Cost(planned[c])
      BY <1>4, AtCostIs
    <3>2. \A c \in In(planned) : CostsOf(planned)[c] \in Nat
      BY <1>4, <3>1, CostIs DEF MoneyBook
    <3> QED BY <3>1, <3>2, FewHoldings, SumNat
  <2>3. MoneyTyped'
    BY <1>1, <1>3, <1>4, <1>6, <2>1, <2>2 DEF MoneyTyped
  <2>4. cash' + AtCost(positions) + AtCost(planned') = Capital + pnl
    BY <1>3, <1>4, <1>5, <2>1
  <2> QED BY <1>1, <1>6, <2>3, <2>4 DEF MoneyInv, MoneyConserved
<1>7. CASE /\ positions' = [c \in Codes |-> IF planned[c] # None THEN planned[c] ELSE positions[c]]
           /\ cash' = cash
  <2>1. /\ In(positions') = In(positions) \cup In(planned)
        /\ In(positions) \cap In(planned) = {}
        /\ \A c \in In(positions) : positions'[c] = positions[c]
        /\ \A c \in In(planned) : positions'[c] = planned[c]
    BY <1>7 DEF In, SpecInv, PlanApart
  <2>2. MoneyBook(positions') /\ AtCost(positions') = AtCost(positions) + AtCost(planned)
    BY <1>4, <2>1, AtCostJoined
  <2>3. MoneyTyped'
    BY <1>1, <1>3, <1>4, <1>7, <2>2 DEF MoneyTyped
  <2>4. cash + AtCost(positions') + AtCost(planned') = Capital + pnl
    BY <1>3, <1>4, <1>5, <2>2
  <2> QED BY <1>1, <1>7, <2>3, <2>4 DEF MoneyInv, MoneyConserved
<1> QED BY <1>6, <1>7 DEF CommitPlan

\* The counts stay within their bounds.
LEMMA CountsStep ==
  ASSUME SpecInv, CountsTyped, [Next]_vars
  PROVE  CountsTyped'
<1> USE DEF CountsTyped
<1>1. CASE DayBegins
  <2>1. /\ day' = day + 1 /\ day < Days /\ step' = "stops" /\ todo' = In(positions)
        /\ UNCHANGED <<last, max, safeStopped>>
    BY <1>1 DEF DayBegins, plan
  <2>2. day' \in 0 .. Days
    BY <2>1, SpecAssumption
  <2>3. todo' \subseteq Codes
    BY <2>1 DEF In
  <2> QED BY <2>1, <2>2, <2>3
<1>2. CASE NothingToDo
  BY <1>2 DEF NothingToDo, dayVars, plan
<1>3. CASE ExitsDone
  <2>1. max' \in Maxima /\ max' # 0 /\ UNCHANGED <<day, last, todo, safeStopped>>
    BY <1>3, SpecAssumption DEF ExitsDone, dayVars
  <2> QED BY <2>1
<1>4. CASE CommitPlan
  <2>1. max' = 0 /\ step' = "close" /\ UNCHANGED <<day, last, todo>> /\ safeStopped' \in BOOLEAN
    BY <1>4 DEF CommitPlan, dayVars
  <2> QED BY <2>1
<1>5. CASE DayEnds
  <2>1. /\ step' = "night" /\ UNCHANGED <<day, todo, max, safeStopped>>
        /\ last' = [c \in Codes |-> IF c \in In(positions) THEN bar[c].close ELSE 0]
    BY <1>5 DEF DayEnds, plan
  <2>2. last' \in [Codes -> Nat]
    BY <2>1, PricesNat DEF Px
  <2> QED BY <2>1, <2>2
<1>6. ASSUME NEW b \in SUBSET Codes, Gate(b) PROVE CountsTyped'
  BY <1>6 DEF Gate, dayVars, In
<1>7. ASSUME NEW c \in Codes,
             \/ CheckStop(c) \/ SkipExit(c)
             \/ \E trail \in Stops, thesisValid \in BOOLEAN : Exit(c, trail, thesisValid)
             \/ \E cap \in Caps, stop \in Stops : PlanEntry(c, cap, stop)
      PROVE  CountsTyped'
  <2>1. UNCHANGED <<day, last, max, step, safeStopped>> /\ todo' \subseteq todo
    BY <1>7 DEF CheckStop, SkipExit, Exit, PlanEntry, dayVars, plan
  <2> QED BY <2>1
<1>8. CASE UNCHANGED vars
  BY <1>8 DEF vars, dayVars, plan
<1> QED BY <1>1, <1>2, <1>3, <1>4, <1>5, <1>6, <1>7, <1>8 DEF Next

\* Every step keeps the money.
LEMMA MoneyStep ==
  ASSUME SpecInv, MoneyInv, CountsTyped, [Next]_vars
  PROVE  MoneyInv'
<1>1. ASSUME NEW c \in Codes, CheckStop(c) PROVE MoneyInv'
  BY <1>1, CheckStopMoney
<1>2. ASSUME NEW c \in Codes, NEW trail \in Stops, NEW thesisValid \in BOOLEAN,
             Exit(c, trail, thesisValid)
      PROVE  MoneyInv'
  BY <1>2, ExitMoney
<1>3. ASSUME NEW c \in Codes, NEW cap \in Caps, NEW stop \in Stops, PlanEntry(c, cap, stop)
      PROVE  MoneyInv'
  BY <1>3, PlanEntryMoney
<1>4. CASE CommitPlan
  BY <1>4, CommitPlanMoney
<1>5. CASE \/ DayBegins \/ NothingToDo \/ ExitsDone \/ DayEnds
           \/ \E b \in SUBSET Codes : Gate(b)
           \/ \E c \in Codes : SkipExit(c)
           \/ UNCHANGED vars
  <2>1. UNCHANGED <<cash, pnl, positions, planned>>
    BY <1>5 DEF DayBegins, NothingToDo, ExitsDone, DayEnds, Gate, SkipExit, vars, plan, money
  <2> QED BY <2>1, NoMoneyMoves
<1> QED BY <1>1, <1>2, <1>3, <1>4, <1>5 DEF Next

\* The money at the start.
LEMMA InitMoney == Init => MoneyInv /\ CountsTyped
<1> SUFFICES ASSUME Init PROVE MoneyInv /\ CountsTyped
  OBVIOUS
<1>1. In(positions) = {} /\ In(planned) = {}
  BY DEF Init, In
<1>2. AtCost(positions) = 0 /\ AtCost(planned) = 0
  BY <1>1, EmptyBookCosts
<1>3. cash = Capital /\ pnl = 0 /\ Capital \in Nat
  BY SpecAssumption DEF Init
<1>4. MoneyTyped
  BY <1>1, <1>3 DEF MoneyTyped, MoneyBook
<1>5. MoneyConserved
  BY <1>2, <1>3 DEF MoneyConserved
<1>6. CountsTyped
  <2>1. day \in 0 .. Days /\ last \in [Codes -> Nat]
    BY SpecAssumption DEF Init
  <2>2. max \in Maxima \cup {0} /\ step # "entries" /\ todo \subseteq Codes
    BY DEF Init
  <2>3. safeStopped \in BOOLEAN
    BY DEF Init
  <2> QED BY <2>1, <2>2, <2>3 DEF CountsTyped
<1> QED BY <1>4, <1>5, <1>6 DEF MoneyInv

\* The invariant of the money always holds.
LEMMA MoneyInductive == Spec => [](SpecInv /\ MoneyInv /\ CountsTyped)
<1>1. (SpecInv /\ MoneyInv /\ CountsTyped) /\ [Next]_vars => (SpecInv /\ MoneyInv /\ CountsTyped)'
  BY EveryStep, CountsStep, MoneyStep
<1>2. Init => SpecInv /\ MoneyInv /\ CountsTyped
  BY InitInv, InitMoney
<1> QED BY <1>1, <1>2, PTL DEF Spec

\* What the closed trades report is what the cash and the holdings show, through
\* gaps, partial sales and cancelled plans, for any bars, rates and schedule: the
\* result of a backtest counts every won of cost exactly once.
THEOREM MoneyIsConserved == Spec => []MoneyConserved
<1>1. SpecInv /\ MoneyInv /\ CountsTyped => MoneyConserved
  BY DEF MoneyInv
<1> QED BY <1>1, MoneyInductive, PTL

-----------------------------------------------------------------------------
(* No holding is empty.                                                    *)

Filled(book) == \A c \in In(book) : book[c].qty # 0

NoneEmpty == Filled(positions) /\ Filled(planned)

\* A holding is replaced by one of some shares.
LEMMA FilledChange ==
  ASSUME NEW book, BookOK(book), Filled(book), NEW c \in Codes,
         NEW h, h # None => h.qty # 0,
         NEW new, new = [book EXCEPT ![c] = h]
  PROVE  Filled(new)
<1>1. \A d \in Codes : new[d] = IF d = c THEN h ELSE book[d]
  BY DEF BookOK
<1> QED BY <1>1 DEF Filled, In

\* A share in two or more parts is smaller than the whole.
LEMMA PartSmaller ==
  ASSUME NEW v \in Nat \ {0}, NEW r \in Nat, r > 1
  PROVE  v \div r < v
<1> DEFINE k == v \div r
<1>1. k \in Nat
  BY DivBound
<1>2. v % r \in 0 .. r - 1 /\ v = (r * k) + (v % r)
  OBVIOUS
<1>3. r * k >= 2 * k
  BY <1>1
<1> HIDE DEF k
<1>4. k < v
  BY <1>1, <1>2, <1>3
<1> QED BY <1>4 DEF k

\* The steps of the loops over the holdings.
LEMMA FilledSales ==
  ASSUME SpecInv, MoneyInv, NoneEmpty, NEW c \in Codes,
         \/ CheckStop(c)
         \/ \E trail \in Stops, thesisValid \in BOOLEAN : Exit(c, trail, thesisValid)
  PROVE  NoneEmpty'
<1>1. c \in In(positions) /\ planned' = planned
  BY DEF CheckStop, Exit, First, SpecInv, TodoHeld, plan
<1>2. /\ BookOK(positions) /\ Filled(positions) /\ Filled(planned')
      /\ positions[c].qty # 0 /\ MoneyHolding(positions[c])
  BY <1>1 DEF SpecInv, TypesKept, NoneEmpty, Filled, MoneyInv, MoneyTyped, MoneyBook
<1>3. ASSUME NEW h, h # None => h.qty # 0, positions' = [positions EXCEPT ![c] = h]
      PROVE  NoneEmpty'
  <2>1. Filled(positions')
    BY <1>2, <1>3, FilledChange
  <2> QED BY <1>2, <2>1 DEF NoneEmpty
<1>4. CASE CheckStop(c)
  <2>1. CASE positions' = [positions EXCEPT ![c] = None]
    BY <1>3, <2>1
  <2>2. CASE positions' = [positions EXCEPT ![c] = positions[c]]
    BY <1>2, <1>3, <2>2
  <2> QED BY <1>4, <2>1, <2>2 DEF CheckStop, Sell, Keep
<1>5. ASSUME NEW trail \in Stops, NEW thesisValid \in BOOLEAN, Exit(c, trail, thesisValid)
      PROVE  NoneEmpty'
  <2> DEFINE h == positions[c]
             act == DecideExit(h, Px(c), trail, thesisValid)
             part == h.qty \div PartialOf
  <2>1. CASE act.kind = "full"
    <3>1. positions' = [positions EXCEPT ![c] = None]
      BY <1>5, <2>1 DEF Exit, Sell
    <3> QED BY <1>3, <3>1
  <2>2. CASE act.kind = "partial"
    <3>1. positions' = [positions EXCEPT ![c] = Kept(h, act, h.qty - part)]
      BY <1>5, <2>2 DEF Exit, Sell
    <3>2. PartialOf > 1 /\ PartialOf \in Nat
      <4>1. PartialOf > 0
        BY <2>2 DEF DecideExit, Action
      <4> QED BY <4>1, SpecAssumption, PartialAssumption
    <3>3. h.qty \in Nat \ {0}
      BY <1>2 DEF MoneyHolding
    <3>4. part \in Nat /\ part < h.qty
      BY <3>2, <3>3, DivBound, PartSmaller
    <3>5. Kept(h, act, h.qty - part).qty # 0
      <4>1. Kept(h, act, h.qty - part).qty = h.qty - part
        BY DEF Kept
      <4> HIDE DEF part
      <4> QED BY <3>3, <3>4, <4>1
    <3> QED BY <1>3, <3>1, <3>5
  <2>3. CASE act.kind \notin {"full", "partial"}
    <3>1. positions' = [positions EXCEPT ![c] = Kept(h, act, h.qty)]
      BY <1>5, <2>3 DEF Exit, Keep
    <3>2. Kept(h, act, h.qty).qty # 0
      BY <1>2 DEF Kept
    <3> QED BY <1>3, <3>1, <3>2
  <2> QED BY <2>1, <2>2, <2>3
<1> QED BY <1>4, <1>5

\* Every step.
LEMMA FilledStep ==
  ASSUME SpecInv, MoneyInv, CountsTyped, NoneEmpty, [Next]_vars
  PROVE  NoneEmpty'
<1>1. ASSUME NEW c \in Codes,
             \/ CheckStop(c)
             \/ \E trail \in Stops, thesisValid \in BOOLEAN : Exit(c, trail, thesisValid)
      PROVE  NoneEmpty'
  BY <1>1, FilledSales
<1>2. ASSUME NEW c \in Codes, NEW cap \in Caps, NEW stop \in Stops, PlanEntry(c, cap, stop)
      PROVE  NoneEmpty'
  <2>1. positions' = positions /\ BookOK(planned)
    BY <1>2 DEF PlanEntry, SpecInv, TypesKept
  <2>2. CASE planned' = planned
    BY <2>1, <2>2 DEF NoneEmpty, Filled, In
  <2>3. CASE Enter(c, Shares(c, cap), stop)
    <3> DEFINE h == Bought(Shares(c, cap), Px(c), stop)
    <3>1. planned' = [planned EXCEPT ![c] = h] /\ Shares(c, cap) > 0
      BY <2>3 DEF Enter
    <3>2. h.qty # 0
      BY <3>1 DEF Bought
    <3> HIDE DEF h
    <3>3. Filled(planned')
      BY <2>1, <3>1, <3>2, FilledChange DEF NoneEmpty
    <3>4. Filled(positions')
      BY <2>1 DEF NoneEmpty, Filled, In
    <3> QED BY <3>3, <3>4 DEF NoneEmpty
  <2> QED BY <1>2, <2>2, <2>3 DEF PlanEntry, Refuse
<1>3. CASE CommitPlan
  <2>1. Filled(planned')
    BY <1>3 DEF CommitPlan, Filled, In
  <2>2. Filled(positions')
    BY <1>3 DEF CommitPlan, NoneEmpty, Filled, In
  <2> QED BY <2>1, <2>2 DEF NoneEmpty
<1>4. CASE \/ DayBegins \/ NothingToDo \/ ExitsDone \/ DayEnds
           \/ \E b \in SUBSET Codes : Gate(b)
           \/ \E c \in Codes : SkipExit(c)
           \/ UNCHANGED vars
  <2>1. UNCHANGED <<positions, planned>>
    BY <1>4 DEF DayBegins, NothingToDo, ExitsDone, DayEnds, Gate, SkipExit, vars, plan
  <2> QED BY <2>1 DEF NoneEmpty, Filled, In
<1> QED BY <1>1, <1>2, <1>3, <1>4 DEF Next

\* The whole of the type invariant, from its parts.
LEMMA TypeParts ==
  ASSUME SpecInv, MoneyInv, CountsTyped, NoneEmpty
  PROVE  SpecTypeOK
<1>1. ASSUME NEW c \in Codes, positions[c] # None PROVE positions[c] \in Holdings
  BY <1>1 DEF MoneyInv, MoneyTyped, MoneyBook, MoneyHolding, NoneEmpty, Filled, In, Holdings
<1>2. ASSUME NEW c \in Codes, planned[c] # None PROVE planned[c] \in Holdings
  BY <1>2 DEF MoneyInv, MoneyTyped, MoneyBook, MoneyHolding, NoneEmpty, Filled, In, Holdings
<1> QED BY <1>1, <1>2 DEF SpecTypeOK, SpecInv, TypesKept, MoneyInv, MoneyTyped, CountsTyped

\* The cash of a backtest never goes below zero, whatever costs are set aside, and
\* no holding is ever empty, as long as a partial exit is of less than all.
THEOREM BacktestTyped == Spec => []SpecTypeOK
<1>1. Init => NoneEmpty
  BY DEF Init, NoneEmpty, Filled, In
<1>2. SpecInv /\ MoneyInv /\ CountsTyped /\ NoneEmpty /\ [Next]_vars => NoneEmpty'
  BY FilledStep
<1>3. SpecInv /\ MoneyInv /\ CountsTyped /\ NoneEmpty => SpecTypeOK
  BY TypeParts
<1> QED BY <1>1, <1>2, <1>3, MoneyInductive, PTL DEF Spec

-----------------------------------------------------------------------------
(* The prices of the sales.                                                *)

\* The prices of the day's bar bound the prices of the sales.
Priced(c, price) == price \in bar[c].low .. Max({bar[c].open, bar[c].close})

SoldAt(c) ==
  positions'[c].qty < positions[c].qty =>
    \E price \in bar[c].low .. Max({bar[c].open, bar[c].close}) :
      cash' = cash + Proceeds(price, positions[c].qty - positions'[c].qty)

\* The larger of two numbers.
LEMMA MaxOfTwo ==
  ASSUME NEW a \in Int, NEW b \in Int
  PROVE  Max({a, b}) \in Int /\ Max({a, b}) >= a /\ Max({a, b}) >= b
<1>1. \E x \in {a, b} : \A y \in {a, b} : x >= y
  <2>1. CASE a >= b
    BY <2>1
  <2>2. CASE b >= a
    BY <2>2
  <2> QED BY <2>1, <2>2
<1> DEFINE m == CHOOSE x \in {a, b} : \A y \in {a, b} : x >= y
<1>2. m \in {a, b} /\ \A y \in {a, b} : m >= y
  BY <1>1
<1>3. Max({a, b}) = m
  BY DEF Max
<1> QED BY <1>2, <1>3

\* A bar that trades: its close, its open and all between it and its low are prices.
LEMMA PricesOfBar ==
  ASSUME SpecInv, NEW c \in Codes, bar[c] # NoBar
  PROVE  /\ Priced(c, Px(c)) /\ Priced(c, bar[c].open)
         /\ \A p \in Nat : bar[c].low <= p /\ p <= bar[c].open => Priced(c, p)
<1>1. bar[c] \in Bars
  BY PricesNat
<1> DEFINE b == bar[c]
<1>2. /\ b.open \in Nat /\ b.low \in Nat /\ b.close \in Nat
      /\ b.low <= b.open /\ b.low <= b.close
  BY <1>1, SpecAssumption
<1> DEFINE u == b.open
           v == b.close
<1>3. /\ Max({u, v}) \in Int /\ Max({u, v}) >= u /\ Max({u, v}) >= v
  <2>1. u \in Int /\ v \in Int
    BY <1>2
  <2> HIDE DEF u, v
  <2> QED BY <2>1, MaxOfTwo
<1> DEFINE top == Max({b.open, b.close})
<1> HIDE DEF top
<1>4. \A p \in Int : b.low <= p /\ p <= b.open => p \in b.low .. top
  BY <1>2, <1>3 DEF top
<1>5. b.close \in b.low .. top
  BY <1>2, <1>3 DEF top
<1> QED BY <1>2, <1>4, <1>5 DEF Priced, top, Px

\* One holding is sold, in whole or in part, at a price of the day.
LEMMA OneSold ==
  ASSUME SpecInv, MoneyInv, NEW c \in In(positions), NEW price, Priced(c, price),
         NEW q \in Nat, NEW h, h.qty = positions[c].qty - q, Sell(c, price, q, h)
  PROVE  \A d \in In(positions) : SoldAt(d)
<1>1. /\ c \in Codes /\ BookOK(positions)
      /\ positions' = [positions EXCEPT ![c] = h] /\ cash' = cash + Proceeds(price, q)
  BY DEF In, SpecInv, TypesKept, Sell
<1>2. \A d \in Codes : positions'[d] = IF d = c THEN h ELSE positions[d]
  BY <1>1 DEF BookOK
<1>3. \A d \in In(positions) : positions[d].qty \in Nat
  BY DEF MoneyInv, MoneyTyped, MoneyBook, MoneyHolding
<1>4. SoldAt(c)
  <2>1. positions'[c].qty = h.qty /\ positions[c].qty \in Nat
    BY <1>1, <1>2, <1>3
  <2>2. positions[c].qty - positions'[c].qty = q
    BY <2>1
  <2>3. cash' = cash + Proceeds(price, positions[c].qty - positions'[c].qty)
    BY <1>1, <2>2, Zenon
  <2> QED BY <2>3 DEF SoldAt, Priced
<1>5. ASSUME NEW d \in In(positions), d # c PROVE SoldAt(d)
  <2>1. positions'[d].qty = positions[d].qty /\ positions[d].qty \in Nat
    BY <1>2, <1>3, <1>5 DEF In
  <2>2. ~(positions'[d].qty < positions[d].qty)
    BY <2>1
  <2> QED BY <2>2 DEF SoldAt
<1> QED BY <1>4, <1>5

\* A step that takes no share away.
LEMMA NothingSold ==
  ASSUME SpecInv, MoneyInv,
         \A d \in In(positions) : positions'[d].qty = positions[d].qty
  PROVE  \A d \in In(positions) : SoldAt(d)
<1>1. ASSUME NEW d \in In(positions) PROVE ~(positions'[d].qty < positions[d].qty)
  <2>1. positions[d].qty \in Nat /\ positions'[d].qty = positions[d].qty
    BY DEF MoneyInv, MoneyTyped, MoneyBook, MoneyHolding
  <2> QED BY <2>1
<1> QED BY <1>1 DEF SoldAt

\* The holding looked at is kept, with its shares.
LEMMA OneKept ==
  ASSUME SpecInv, MoneyInv, NEW c \in In(positions), NEW h, h.qty = positions[c].qty, Keep(c, h)
  PROVE  \A d \in In(positions) : SoldAt(d)
<1>1. \A d \in In(positions) : positions'[d].qty = positions[d].qty
  BY DEF In, SpecInv, TypesKept, BookOK, Keep
<1> QED BY <1>1, NothingSold

\* Every step.
LEMMA PricesStep ==
  ASSUME SpecInv, MoneyInv, CountsTyped, [Next]_vars
  PROVE  \A d \in In(positions) : SoldAt(d)
<1> DEFINE Goal == \A d \in In(positions) : SoldAt(d)
<1>1. ASSUME NEW c \in Codes, CheckStop(c) PROVE Goal
  <2>1. c \in In(positions)
    BY <1>1 DEF CheckStop, First, SpecInv, TodoHeld
  <2>2. MoneyHolding(positions[c]) /\ positions[c].qty \in Nat /\ positions[c].stop \in Nat
    BY <2>1 DEF MoneyInv, MoneyTyped, MoneyBook, MoneyHolding
  <2>3. CASE bar[c] # NoBar /\ bar[c].low <= positions[c].stop
    <3>1. Sell(c, StopFill(c), positions[c].qty, None)
      BY <1>1, <2>3 DEF CheckStop
    <3>2. Priced(c, StopFill(c))
      <4>1. bar[c].open \in Nat
        BY PricesNat
      <4>2. CASE bar[c].open <= positions[c].stop
        BY <2>3, <4>2, PricesOfBar DEF StopFill
      <4>3. CASE ~(bar[c].open <= positions[c].stop)
        <5>1. StopFill(c) = positions[c].stop /\ positions[c].stop <= bar[c].open
          BY <2>2, <4>1, <4>3 DEF StopFill
        <5> QED BY <2>2, <2>3, <5>1, PricesOfBar
      <4> QED BY <4>2, <4>3
    <3>3. None.qty = positions[c].qty - positions[c].qty
      BY <2>2 DEF None
    <3> QED BY <2>1, <2>2, <3>1, <3>2, <3>3, OneSold
  <2>4. CASE ~(bar[c] # NoBar /\ bar[c].low <= positions[c].stop)
    <3>1. Keep(c, positions[c])
      BY <1>1, <2>4 DEF CheckStop
    <3> QED BY <2>1, <3>1, OneKept
  <2> QED BY <2>3, <2>4
<1>2. ASSUME NEW c \in Codes, NEW trail \in Stops, NEW thesisValid \in BOOLEAN,
             Exit(c, trail, thesisValid)
      PROVE  Goal
  <2> DEFINE h == positions[c]
             act == DecideExit(h, Px(c), trail, thesisValid)
             part == h.qty \div PartialOf
  <2>1. c \in In(positions) /\ bar[c] # NoBar
    BY <1>2 DEF Exit, First, SpecInv, TodoHeld
  <2>2. h.qty \in Nat /\ Priced(c, Px(c))
    BY <2>1, PricesOfBar DEF MoneyInv, MoneyTyped, MoneyBook, MoneyHolding
  <2>3. CASE act.kind = "full"
    <3>1. Sell(c, Px(c), h.qty, None)
      BY <1>2, <2>3 DEF Exit
    <3>2. None.qty = h.qty - h.qty
      BY <2>2 DEF None
    <3> QED BY <2>1, <2>2, <3>1, <3>2, OneSold
  <2>4. CASE act.kind = "partial"
    <3> DEFINE g == Kept(h, act, h.qty - part)
    <3>1. Sell(c, Px(c), part, g)
      BY <1>2, <2>4 DEF Exit
    <3>2. PartialOf > 0
      BY <2>4 DEF DecideExit, Action
    <3>3. part \in Nat
      BY <2>2, <3>2, DivBound, SpecAssumption
    <3>4. g.qty = h.qty - part
      BY DEF Kept
    <3> HIDE DEF g, part
    <3> QED BY <2>1, <2>2, <3>1, <3>3, <3>4, OneSold
  <2>5. CASE act.kind \notin {"full", "partial"}
    <3>1. Keep(c, Kept(h, act, h.qty))
      BY <1>2, <2>5 DEF Exit
    <3>2. Kept(h, act, h.qty).qty = h.qty
      BY DEF Kept
    <3> QED BY <2>1, <3>1, <3>2, OneKept
  <2> QED BY <2>3, <2>4, <2>5
<1>3. CASE CommitPlan
  <2>1. \A d \in In(positions) : positions'[d] = positions[d]
    BY <1>3 DEF CommitPlan, In, SpecInv, PlanApart
  <2> QED BY <2>1, NothingSold
<1>4. CASE \/ DayBegins \/ NothingToDo \/ ExitsDone \/ DayEnds
           \/ \E b \in SUBSET Codes : Gate(b)
           \/ \E c \in Codes : SkipExit(c)
           \/ \E c \in Codes, cap \in Caps, stop \in Stops : PlanEntry(c, cap, stop)
           \/ UNCHANGED vars
  <2>1. UNCHANGED positions
    BY <1>4 DEF DayBegins, NothingToDo, ExitsDone, DayEnds, Gate, SkipExit, PlanEntry, vars
  <2> QED BY <2>1, NothingSold
<1> QED BY <1>1, <1>2, <1>3, <1>4 DEF Next

\* Every sale is booked at a price between the low of the day's bar and the higher of
\* its open and its close: a stop the day opens below is not filled at the stop.
THEOREM SalesPriced == Spec => SalesAtMarketPrices
<1>1. SpecInv /\ MoneyInv /\ CountsTyped /\ [Next]_vars =>
        [\A c \in In(positions) :
           positions'[c].qty < positions[c].qty =>
             \E price \in bar[c].low .. Max({bar[c].open, bar[c].close}) :
               cash' = cash + Proceeds(price, positions[c].qty - positions'[c].qty)]_vars
  BY PricesStep DEF SoldAt
<1> QED BY <1>1, MoneyInductive, PTL DEF Spec, SalesAtMarketPrices
=============================================================================
