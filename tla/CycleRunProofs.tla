--------------------------- MODULE CycleRunProofs ---------------------------
(***************************************************************************)
(* Proofs about a cycle as a whole, for any number of cycles, any amount   *)
(* of money and any number of deaths; and about the plan of its entries,   *)
(* for any stocks, parameters and accounts.                                *)
(***************************************************************************)
EXTENDS CycleRun, EntryPlan, FiniteSetTheorems, SequenceTheorems, TLAPS

-----------------------------------------------------------------------------
(* The rows of the cycles table.                                           *)

\* Advance writes the status of the last row and of no other.
LEMMA AdvancedRows ==
  ASSUME cycles \in Seq(Statuses), cycles # <<>>, NEW s \in Statuses, Advance(s)
  PROVE  /\ cycles' \in Seq(Statuses) /\ cycles' # <<>>
         /\ Len(cycles') = Len(cycles) /\ DOMAIN cycles' = DOMAIN cycles
         /\ cycles'[Len(cycles)] = s
         /\ \A i \in 1 .. Len(cycles) - 1 : cycles'[i] = cycles[i]
  BY DEF Advance, This

\* A new cycle leaves the rows before it alone.
LEMMA AppendedRow ==
  ASSUME cycles \in Seq(Statuses), NEW s \in Statuses, cycles' = Append(cycles, s)
  PROVE  /\ cycles' \in Seq(Statuses) /\ cycles' # <<>>
         /\ Len(cycles') = Len(cycles) + 1
         /\ DOMAIN cycles \subseteq DOMAIN cycles' /\ Len(cycles') \in DOMAIN cycles'
         /\ Len(cycles') \notin DOMAIN cycles
         /\ cycles'[Len(cycles')] = s
         /\ \A i \in 1 .. Len(cycles) : cycles'[i] = cycles[i]
  OBVIOUS

\* The recovery closes what was open and changes no other row.
LEMMA RecoveredRows ==
  ASSUME cycles \in Seq(Statuses), cycles' = Recovered
  PROVE  /\ cycles' \in Seq(Statuses)
         /\ Len(cycles') = Len(cycles) /\ DOMAIN cycles' = DOMAIN cycles
         /\ \A i \in 1 .. Len(cycles) :
              /\ cycles'[i] \in Status!Closed
              /\ cycles[i] \in Status!Closed => cycles'[i] = cycles[i]
              /\ cycles[i] \notin Status!Closed => cycles'[i] = "failed"
<1>1. \A i \in 1 .. Len(cycles) :
        cycles'[i] = IF cycles[i] \in {"intent", "scoring", "deciding", "ordering"}
                     THEN "failed" ELSE cycles[i]
  BY DEF Recovered
<1>2. DOMAIN cycles' = 1 .. Len(cycles) /\ Len(cycles) \in Nat
  BY DEF Recovered
<1>3. \A i \in 1 .. Len(cycles) : cycles[i] \in Statuses /\ cycles'[i] \in Statuses
  BY <1>1 DEF Statuses
<1>4. cycles' \in [1 .. Len(cycles) -> Statuses]
  BY <1>2, <1>3 DEF Recovered
<1>5. cycles' \in Seq(Statuses) /\ Len(cycles') = Len(cycles)
  BY <1>2, <1>4
<1> QED BY <1>1, <1>2, <1>3, <1>5 DEF Status!Closed, Statuses

-----------------------------------------------------------------------------
(* The inductive invariant of the control.                                 *)

RunAccounts == [cash : Nat, held : SUBSET {"share"}, heldValue : Nat, start : Int, flow : Int]

\* What the history keeps of the moment the account was read.
Seen == [moved : Int, fired : Nat]

Verdicts == {"skip", "halt", "new_blocked", "proceed"}

Processes ==
  [pc : RunSteps, acc : RunAccounts, seen : Seen, balanceOk : BOOLEAN, marketHalt : BOOLEAN,
   pricesOk : BOOLEAN, residual : Int, comparable : BOOLEAN, action : Verdicts,
   plan : Plans]

RunTypes ==
  /\ kis \in [cash : Nat, shares : Nat]
  /\ fired \in Nat /\ book \in Nat
  /\ since \in Int /\ flows \in Int /\ unseen \in Int /\ truth \in Int
  /\ early \in Nat /\ lost \in [all : Int, before : Int]
  /\ snap \in [taken : BOOLEAN, cash : Nat, cum : Int]
  /\ safeStop \in BOOLEAN
  /\ crashes \in Nat
  /\ run \in Processes

\* The steps of a cycle, by what the cycles table says meanwhile.
Reading == {"fetch", "market", "create"}
Opening == {"snapshot", "screen"}
Judging == {"gate", "raise", "flow", "plan", "anomaly", "close"}
Trading == {"exits", "sold", "entries", "bought", "record"}

\* Every cycle but the last is closed, and the last one is where the process is.
RowsFollowRun ==
  /\ cycles \in Seq(Statuses)
  /\ barred \subseteq DOMAIN cycles /\ traded \subseteq DOMAIN cycles
  /\ \A i \in 1 .. Len(cycles) - 1 : cycles[i] \in Status!Closed
  /\ run.pc \in Reading => \A i \in 1 .. Len(cycles) : cycles[i] \in Status!Closed
  /\ run.pc \notin Reading \cup {"idle"} => cycles # <<>>
  /\ run.pc \in Opening => cycles[Len(cycles)] = "intent"
  /\ At("scored") => cycles[Len(cycles)] = "scoring"
  /\ run.pc \in Judging => cycles[Len(cycles)] = "deciding"
  /\ At("order") => cycles[Len(cycles)] \in {"scoring", "deciding"}
  /\ run.pc \in Trading => cycles[Len(cycles)] = "ordering"

\* What the verdict leaves to do.
VerdictKept ==
  /\ At("sold") => book > 0
  /\ At("raise") => run.action # "proceed"
  /\ At("plan") => run.action \in {"proceed", "new_blocked"}
  /\ run.pc \in {"anomaly", "close"} => run.action \in {"skip", "halt"}
  /\ At("entries") => run.plan # <<>>

\* A cycle under a SafeStop plans no entry.
SafeStopKept ==
  /\ run.pc \in {"flow", "plan"} /\ run.action = "proceed" => ~safeStop
  /\ run.plan # <<>> => run.pc \in {"order"} \cup Trading /\ ~safeStop

\* The last cycle has sent no order before it trades, and if it is barred it
\* is not on its way to the orders.
BarredKept ==
  /\ barred \cap traded = {}
  /\ run.pc \in Opening \cup {"scored", "order"} \cup Judging => Len(cycles) \notin traded
  /\ run.pc \in Opening \cup {"scored", "gate", "plan", "order"} \cup Trading
       => Len(cycles) \notin barred
  /\ run.pc \in {"raise", "flow"} /\ run.action \notin {"skip", "halt"}
       => Len(cycles) \notin barred

CycleInv == RunTypes /\ RowsFollowRun /\ VerdictKept /\ SafeStopKept /\ BarredKept

\* A step that only moves the process on.
LEMMA Moved ==
  ASSUME run \in Processes, NEW pc \in RunSteps, GoTo(pc)
  PROVE  /\ run' \in Processes
         /\ run'.pc = pc
         /\ run'.action = run.action /\ run'.plan = run.plan
         /\ run'.acc = run.acc /\ run'.seen = run.seen
         /\ run'.residual = run.residual /\ run'.comparable = run.comparable
  BY DEF GoTo, Processes

\* The account is compared with the last snapshot.
LEMMA Reread ==
  ASSUME run \in Processes, NEW pc \in RunSteps, NEW acc \in RunAccounts, NEW n \in Seen,
         NEW residual \in Int, NEW comparable \in BOOLEAN
  PROVE  [run EXCEPT !.pc = pc, !.seen = n, !.residual = residual,
                     !.comparable = comparable, !.acc = acc] \in Processes
  BY DEF Processes

\* A process begins with an empty plan and the verdict to proceed.
LEMMA FreshProcess ==
  ASSUME NEW pc \in RunSteps, NEW acc \in RunAccounts, NEW n \in Seen
  PROVE  /\ Process(pc, acc, n) \in Processes
         /\ Process(pc, acc, n).pc = pc
         /\ Process(pc, acc, n).action = "proceed"
         /\ Process(pc, acc, n).plan = <<>>
  BY DEF Process, Processes, Verdicts, Plans

\* The account of a process that has not read one.
LEMMA NoAccountType == NoAccount \in RunAccounts /\ NothingSeen \in Seen
  BY DEF NoAccount, RunAccounts, NothingSeen, Seen

-----------------------------------------------------------------------------
(* The steps.                                                              *)

\* The broker, the watch and people leave the process and its cycles as they
\* are.
LEMMA OutsideSteps ==
  ASSUME CycleInv
  PROVE  /\ \A amount \in -MaxMoney .. MaxMoney : Transfer(amount) => CycleInv'
         /\ \A n \in 1 .. MaxMoney : StopFires(n) => CycleInv'
         /\ WatchSettles => CycleInv'
         /\ Release => CycleInv'
<1> USE DEF CycleInv
<1>1. ASSUME NEW amount \in -MaxMoney .. MaxMoney, Transfer(amount)
      PROVE  CycleInv'
  <2> USE <1>1 DEF Transfer, tables, marks
  <2>1. kis' \in [cash : Nat, shares : Nat] /\ unseen' \in Int
    BY CycleAssumption DEF RunTypes
  <2>2. RunTypes'
    BY <2>1 DEF RunTypes
  <2>3. RowsFollowRun'
    BY DEF RowsFollowRun, At
  <2>4. VerdictKept'
    BY DEF VerdictKept, At
  <2>5. SafeStopKept'
    BY DEF SafeStopKept, Trading
  <2>6. BarredKept'
    BY DEF BarredKept
  <2> QED BY <2>2, <2>3, <2>4, <2>5, <2>6
<1>2. ASSUME NEW n \in 1 .. MaxMoney, StopFires(n)
      PROVE  CycleInv'
  <2> USE <1>2 DEF StopFires, tables, marks, history
  <2>1. RunTypes'
    BY DEF RunTypes
  <2>2. RowsFollowRun'
    BY DEF RowsFollowRun, At
  <2>3. VerdictKept'
    BY DEF VerdictKept, At
  <2>4. SafeStopKept'
    BY DEF SafeStopKept, Trading
  <2>5. BarredKept'
    BY DEF BarredKept
  <2> QED BY <2>1, <2>2, <2>3, <2>4, <2>5
<1>3. ASSUME WatchSettles
      PROVE  CycleInv'
  <2> USE <1>3 DEF WatchSettles, marks, history
  <2>1. RunTypes'
    BY DEF RunTypes
  <2>2. RowsFollowRun'
    BY DEF RowsFollowRun, At
  <2>3. VerdictKept'
    BY DEF VerdictKept, At
  <2>4. SafeStopKept'
    BY DEF SafeStopKept, Trading
  <2>5. BarredKept'
    BY DEF BarredKept
  <2> QED BY <2>1, <2>2, <2>3, <2>4, <2>5
<1>4. ASSUME Release
      PROVE  CycleInv'
  <2> USE <1>4 DEF Release, kisVars, marks, history
  <2>1. RunTypes'
    BY DEF RunTypes
  <2>2. RowsFollowRun'
    BY DEF RowsFollowRun, At
  <2>3. VerdictKept'
    BY DEF VerdictKept, At
  <2>4. SafeStopKept'
    BY DEF SafeStopKept, Trading
  <2>5. BarredKept'
    BY DEF BarredKept
  <2> QED BY <2>1, <2>2, <2>3, <2>4, <2>5
<1> QED BY <1>1, <1>2, <1>3, <1>4

\* Up to the row of the cycle: the cycles that died are closed first, so the
\* new row follows closed ones only.
LEMMA ReadingSteps ==
  ASSUME CycleInv
  PROVE  /\ Starts => CycleInv'
         /\ \A base \in Bases : FetchAccount(base) => CycleInv'
         /\ \A halt \in BOOLEAN, ok \in BOOLEAN : BuildMarketState(halt, ok) => CycleInv'
         /\ GivesUp => CycleInv'
         /\ CreateCycle => CycleInv'
<1> USE DEF CycleInv
<1>1. ASSUME Starts
      PROVE  CycleInv'
  <2> USE <1>1 DEF Starts, kisVars, marks, history
  <2>1. run' \in Processes
    BY DEF Processes, RunAccounts, Verdicts, RunSteps, Process, NoAccount, Idle, Plans,
      NothingSeen, Seen, RunTypes
  <2>2. RunTypes'
    BY <2>1 DEF RunTypes
  <2>3. RowsFollowRun'
    BY RecoveredRows DEF RowsFollowRun, At, Reading, Opening, Judging, Trading,
      Process
  <2>4. VerdictKept'
    BY DEF VerdictKept, At, Process
  <2>5. SafeStopKept'
    BY DEF SafeStopKept, Trading, Process
  <2>6. BarredKept'
    BY RecoveredRows DEF BarredKept, Reading, Opening, Judging, Trading,
      RowsFollowRun, Process
  <2> QED BY <2>2, <2>3, <2>4, <2>5, <2>6
<1>2. ASSUME NEW base \in Bases, FetchAccount(base)
      PROVE  CycleInv'
  <2> USE <1>2 DEF FetchAccount, kisVars, tables, marks, history
  <2>1. run' \in Processes
    BY CycleAssumption DEF Processes, RunAccounts, Verdicts, RunSteps, Process,
      NoAccount, Idle, Plans, Seen, RunTypes, Bases
  <2>2. RunTypes'
    BY <2>1 DEF RunTypes
  <2>3. RowsFollowRun'
    BY DEF RowsFollowRun, At, Reading, Opening, Judging, Trading, Process
  <2>4. VerdictKept'
    BY DEF VerdictKept, At, Process
  <2>5. SafeStopKept'
    BY DEF SafeStopKept, Trading, Process
  <2>6. BarredKept'
    BY DEF BarredKept, Reading, Opening, Judging, Trading, Process
  <2> QED BY <2>2, <2>3, <2>4, <2>5, <2>6
<1>3. ASSUME NEW halt \in BOOLEAN, NEW ok \in BOOLEAN, BuildMarketState(halt, ok)
      PROVE  CycleInv'
  <2> USE <1>3 DEF BuildMarketState, kisVars, tables, marks, history
  <2>1. run' \in Processes
    BY DEF Processes, RunSteps, RunTypes
  <2>2. run'.pc = "create" /\ run'.plan = run.plan /\ run.pc = "market"
    BY DEF At, Processes, RunTypes
  <2>3. RunTypes'
    BY <2>1 DEF RunTypes
  <2>4. RowsFollowRun'
    BY <2>2 DEF RowsFollowRun, At, Reading, Opening, Judging, Trading
  <2>5. VerdictKept'
    BY <2>2 DEF VerdictKept, At
  <2>6. SafeStopKept'
    BY <2>2 DEF SafeStopKept, Trading
  <2>7. BarredKept'
    BY <2>2 DEF BarredKept, Reading, Opening, Judging, Trading
  <2> QED BY <2>3, <2>4, <2>5, <2>6, <2>7
<1>4. ASSUME GivesUp
      PROVE  CycleInv'
  <2> USE <1>4 DEF GivesUp, kisVars, tables, marks, history
  <2>1. run' \in Processes
    BY DEF Processes, RunAccounts, Verdicts, RunSteps, Process, NoAccount, Idle, Plans,
      NothingSeen, Seen, RunTypes
  <2>2. RunTypes'
    BY <2>1 DEF RunTypes
  <2>3. RowsFollowRun'
    BY DEF RowsFollowRun, At, Reading, Opening, Judging, Trading, Idle, Process
  <2>4. VerdictKept'
    BY DEF VerdictKept, At, Idle, Process
  <2>5. SafeStopKept'
    BY DEF SafeStopKept, Trading, Idle, Process
  <2>6. BarredKept'
    BY DEF BarredKept, Reading, Opening, Judging, Trading, Idle, Process
  <2> QED BY <2>2, <2>3, <2>4, <2>5, <2>6
<1>5. ASSUME CreateCycle
      PROVE  CycleInv'
  <2> USE <1>5 DEF CreateCycle, kisVars, marks, history
  <2>1. run' \in Processes
    BY Moved DEF RunTypes, RunSteps, At
  <2>2. run'.pc = "snapshot" /\ run.pc = "create"
    BY Moved DEF RunTypes, RunSteps, At
  <2>3. /\ cycles' \in Seq(Statuses) /\ cycles' # <<>> /\ Len(cycles') = Len(cycles) + 1
        /\ DOMAIN cycles \subseteq DOMAIN cycles' /\ cycles'[Len(cycles')] = "intent"
        /\ \A i \in 1 .. Len(cycles) : cycles'[i] = cycles[i]
    BY AppendedRow DEF RowsFollowRun, Statuses
  <2>4. RunTypes'
    BY <2>1 DEF RunTypes
  <2>5. RowsFollowRun'
    BY <2>2, <2>3 DEF RowsFollowRun, At, Reading, Opening, Judging, Trading
  <2>6. VerdictKept'
    BY Moved DEF VerdictKept, At, RunTypes, RunSteps
  <2>7. SafeStopKept'
    BY Moved DEF SafeStopKept, Trading, At, RunTypes, RunSteps
  <2>8. BarredKept'
    BY Moved, AppendedRow DEF BarredKept, Reading, Opening, Judging, Trading,
      RunTypes, RunSteps, RowsFollowRun, At, Statuses
  <2> QED BY <2>4, <2>5, <2>6, <2>7, <2>8
<1> QED BY <1>1, <1>2, <1>3, <1>4, <1>5

\* From the snapshot to the decision.
LEMMA OpeningSteps ==
  ASSUME CycleInv
  PROVE  /\ RecordSnapshot => CycleInv'
         /\ \A empty \in BOOLEAN : Screen(empty) => CycleInv'
         /\ StartDeciding => CycleInv'
<1> USE DEF CycleInv
<1>1. ASSUME RecordSnapshot
      PROVE  CycleInv'
  <2> USE <1>1 DEF RecordSnapshot, kisVars, marks, At
  <2>1. run.acc \in RunAccounts /\ snap.taken \in BOOLEAN /\ NothingSeen \in Seen
        /\ "screen" \in RunSteps
    BY NoAccountType DEF RunTypes, Processes, RunSteps
  <2>2. Residual \in Int /\ Equity(run.acc) \in Int
    BY DEF Residual, Equity, RunTypes, Processes, RunAccounts
  <2>3. Compared \in RunAccounts
    BY <2>1, <2>2 DEF Compared, RunAccounts
  <2>4. run' \in Processes
    BY <2>1, <2>2, <2>3, Reread, Zenon DEF RunTypes
  <2>5. snap' \in [taken : BOOLEAN, cash : Nat, cum : Int]
    BY <2>2 DEF RunTypes, Processes, RunAccounts
  <2>6. /\ unseen' \in Int /\ truth' \in Int /\ early' \in Nat
        /\ lost' \in [all : Int, before : Int]
    BY DEF RunTypes, Processes, Seen
  <2>7. run'.pc = "screen" /\ run'.plan = run.plan
    BY DEF RunTypes, Processes
  <2>8. RunTypes'
    BY <2>4, <2>5, <2>6 DEF RunTypes
  <2>9. RowsFollowRun'
    BY <2>7 DEF RowsFollowRun, At, Reading, Opening, Judging, Trading
  <2>10. VerdictKept'
    BY <2>7 DEF VerdictKept, At
  <2>11. SafeStopKept'
    BY <2>7 DEF SafeStopKept, Trading
  <2>12. BarredKept'
    BY <2>7 DEF BarredKept, Reading, Opening, Judging, Trading
  <2> QED BY <2>8, <2>9, <2>10, <2>11, <2>12
<1>2. ASSUME NEW empty \in BOOLEAN, Screen(empty)
      PROVE  CycleInv'
  <2> USE <1>2 DEF Screen, kisVars, marks, history, At
  <2>1. run' \in {Process("order", NoAccount, NothingSeen), [run EXCEPT !.pc = "scored"]}
    OBVIOUS
  <2>2. [run EXCEPT !.pc = "scored"] \in Processes
    BY DEF RunTypes, Processes, RunSteps
  <2>3. run' \in Processes
    BY <2>1, <2>2, FreshProcess, NoAccountType DEF RunSteps
  <2>4. run'.pc \in {"order", "scored"} /\ run'.plan \in {<<>>, run.plan}
    BY <2>1 DEF Process, RunTypes, Processes
  <2>5. /\ cycles' \in Seq(Statuses) /\ cycles' # <<>>
        /\ Len(cycles') = Len(cycles) /\ DOMAIN cycles' = DOMAIN cycles
        /\ cycles'[Len(cycles)] = "scoring"
        /\ \A i \in 1 .. Len(cycles) - 1 : cycles'[i] = cycles[i]
    BY AdvancedRows DEF RowsFollowRun, Statuses, Reading, At
  <2>6. RunTypes'
    <3>1. run.residual \in Int
      BY DEF RunTypes, Processes
    <3>2. lost' \in [all : Int, before : Int]
      BY <3>1 DEF RunTypes
    <3> QED BY <2>3, <3>2 DEF RunTypes
  <2>7. RowsFollowRun'
    BY <2>4, <2>5 DEF RowsFollowRun, At, Reading, Opening, Judging, Trading
  <2>8. VerdictKept'
    BY <2>4 DEF VerdictKept, At
  <2>9. SafeStopKept'
    BY <2>4 DEF SafeStopKept, Trading
  <2>10. BarredKept'
    BY <2>4, <2>5 DEF BarredKept, Reading, Opening, Judging, Trading
  <2> QED BY <2>6, <2>7, <2>8, <2>9, <2>10
<1>3. ASSUME StartDeciding
      PROVE  CycleInv'
  <2> USE <1>3 DEF StartDeciding, kisVars, marks, history
  <2>1. run' \in Processes
    BY Moved DEF RunTypes, RunSteps, At
  <2>2. run.pc = "scored" /\ run'.pc = "gate" /\ run'.action = run.action /\ run'.plan = run.plan
    BY Moved DEF RunTypes, RunSteps, At
  <2>3. /\ cycles' \in Seq(Statuses) /\ cycles' # <<>>
        /\ Len(cycles') = Len(cycles) /\ DOMAIN cycles' = DOMAIN cycles
        /\ cycles'[Len(cycles)] = "deciding"
        /\ \A i \in 1 .. Len(cycles) - 1 : cycles'[i] = cycles[i]
    BY AdvancedRows DEF RowsFollowRun, Statuses, Reading, At
  <2>4. RunTypes'
    BY <2>1 DEF RunTypes
  <2>5. RowsFollowRun'
    BY <2>2, <2>3 DEF RowsFollowRun, At, Reading, Opening, Judging, Trading
  <2>6. VerdictKept'
    BY <2>2 DEF VerdictKept, At
  <2>7. SafeStopKept'
    BY <2>2 DEF SafeStopKept, Trading
  <2>8. BarredKept'
    BY <2>2, <2>3 DEF BarredKept, Reading, Opening, Judging, Trading
  <2> QED BY <2>4, <2>5, <2>6, <2>7, <2>8
<1> QED BY <1>1, <1>2, <1>3

\* From the gate to the plan.
LEMMA JudgingSteps ==
  ASSUME CycleInv
  PROVE  /\ Gate => CycleInv'
         /\ RaiseSafeStop => CycleInv'
         /\ RecordCashFlow => CycleInv'
         /\ \A plan \in Plans : PlanEntries(plan) => CycleInv'
         /\ RaiseAnomaly => CycleInv'
<1> USE DEF CycleInv
<1>1. ASSUME Gate
      PROVE  CycleInv'
  <2> USE <1>1 DEF Gate, kisVars, tables, history, At
  <2>1. /\ Verdict.action \in Verdicts
        /\ Verdict.result = "safeStop" \/ ~run.balanceOk => Verdict.action = "halt"
    BY DEF Verdict, ScreenCycle, CycleVerdict, Verdicts
  <2>2. run' \in Processes /\ run'.pc \in {"raise", "flow"} /\ run'.plan = run.plan
    BY <2>1 DEF Processes, Verdicts, RunSteps, RunTypes
  <2>3. /\ run'.action \in {"skip", "halt"} <=> Verdict.action \in {"skip", "halt"}
        /\ run'.action = "proceed" => ~safeStop
        /\ run'.pc = "raise" => run'.action # "proceed"
    BY <2>1 DEF RunTypes, Processes, Verdicts
  <2>4. /\ barred' \in {barred, barred \cup {Len(cycles)}}
        /\ Verdict.action \notin {"skip", "halt"} => barred' = barred
    BY <2>1 DEF Bar, This
  <2>5. RunTypes'
    BY <2>2 DEF RunTypes
  <2>6. RowsFollowRun'
    BY <2>2, <2>4 DEF RowsFollowRun, At, Reading, Opening, Judging, Trading
  <2>7. VerdictKept'
    BY <2>2, <2>3 DEF VerdictKept, At
  <2>8. SafeStopKept'
    BY <2>2, <2>3 DEF SafeStopKept, Trading
  <2>9. BarredKept'
    BY <2>2, <2>3, <2>4 DEF BarredKept, Reading, Opening, Judging, Trading
  <2> QED BY <2>5, <2>6, <2>7, <2>8, <2>9
<1>2. ASSUME RaiseSafeStop
      PROVE  CycleInv'
  <2> USE <1>2 DEF RaiseSafeStop, kisVars, marks, history
  <2>1. run' \in Processes
    BY Moved DEF RunTypes, RunSteps, At
  <2>2. run.pc = "raise" /\ run'.pc = "flow" /\ run'.action = run.action /\ run'.plan = run.plan
    BY Moved DEF RunTypes, RunSteps, At
  <2>3. RunTypes'
    BY <2>1 DEF RunTypes
  <2>4. RowsFollowRun'
    BY <2>2 DEF RowsFollowRun, At, Reading, Opening, Judging, Trading
  <2>5. VerdictKept'
    BY <2>2 DEF VerdictKept, At
  <2>6. SafeStopKept'
    BY <2>2 DEF SafeStopKept, Trading, VerdictKept, At
  <2>7. BarredKept'
    BY <2>2 DEF BarredKept, Reading, Opening, Judging, Trading
  <2> QED BY <2>3, <2>4, <2>5, <2>6, <2>7
<1>3. ASSUME RecordCashFlow
      PROVE  CycleInv'
  <2> USE <1>3 DEF RecordCashFlow, kisVars, marks, history
  <2>1. run.pc = "flow" /\ GoTo(IF run.action \in {"proceed", "new_blocked"} THEN "plan" ELSE "close")
    BY DEF At
  <2>2. /\ run' \in Processes /\ run'.action = run.action /\ run'.plan = run.plan
        /\ run'.pc = IF run.action \in {"proceed", "new_blocked"} THEN "plan" ELSE "close"
    BY <2>1, Moved DEF RunTypes, RunSteps
  <2>3. /\ run'.pc \in {"plan", "close"} /\ run'.action \in Verdicts
        /\ run'.pc = "plan" <=> run'.action \in {"proceed", "new_blocked"}
    BY <2>2 DEF Processes
  <2>4. flows + run.residual \in Int /\ flows \in Int
    BY DEF RunTypes, Processes
  <2>5. flows' \in Int
    BY <2>4
  <2>6. RunTypes'
    BY <2>2, <2>5 DEF RunTypes
  <2>7. RowsFollowRun'
    BY <2>1, <2>3 DEF RowsFollowRun, At, Reading, Opening, Judging, Trading
  <2>8. VerdictKept'
    BY <2>3 DEF VerdictKept, At, Verdicts
  <2>9. SafeStopKept'
    BY <2>1, <2>2, <2>3 DEF SafeStopKept, Trading
  <2>10. BarredKept'
    BY <2>1, <2>2, <2>3 DEF BarredKept, Reading, Opening, Judging, Trading, Verdicts
  <2> QED BY <2>6, <2>7, <2>8, <2>9, <2>10
<1>4. ASSUME NEW plan \in Plans, PlanEntries(plan)
      PROVE  CycleInv'
  <2> USE <1>4 DEF PlanEntries, kisVars, tables, marks, history
  <2>1. run' \in {[Process("anomaly", NoAccount, NothingSeen) EXCEPT !.action = "halt"],
                [Process("order", NoAccount, NothingSeen) EXCEPT !.plan = plan]}
    OBVIOUS
  <2>2. run' \in Processes
    BY <2>1, FreshProcess, NoAccountType DEF Processes, RunSteps, Verdicts
  <2>3. /\ run.pc = "plan"
        /\ \/ run'.pc = "anomaly" /\ run'.action = "halt" /\ run'.plan = <<>>
           \/ run'.pc = "order" /\ run'.plan = plan
    BY <2>1 DEF Process, At
  <2>4. RunTypes'
    BY <2>2 DEF RunTypes
  <2>5. RowsFollowRun'
    BY <2>3 DEF RowsFollowRun, At, Reading, Opening, Judging, Trading
  <2>6. VerdictKept'
    BY <2>3 DEF VerdictKept, At
  <2>7. SafeStopKept'
    BY <2>3 DEF SafeStopKept, VerdictKept, At, Trading
  <2>8. BarredKept'
    BY <2>3 DEF BarredKept, Reading, Opening, Judging, Trading
  <2> QED BY <2>4, <2>5, <2>6, <2>7, <2>8
<1>5. ASSUME RaiseAnomaly
      PROVE  CycleInv'
  <2> USE <1>5 DEF RaiseAnomaly, kisVars, marks, history
  <2>1. run' \in Processes
    BY Moved DEF RunTypes, RunSteps, At
  <2>2. run.pc = "anomaly" /\ run'.pc = "close" /\ run'.action = run.action /\ run'.plan = run.plan
    BY Moved DEF RunTypes, RunSteps, At
  <2>3. RunTypes'
    BY <2>1 DEF RunTypes
  <2>4. RowsFollowRun'
    BY <2>2 DEF RowsFollowRun, At, Reading, Opening, Judging, Trading, This
  <2>5. VerdictKept'
    BY <2>2 DEF VerdictKept, At
  <2>6. SafeStopKept'
    BY <2>2 DEF SafeStopKept, Trading
  <2>7. BarredKept'
    BY <2>2 DEF BarredKept, Reading, Opening, Judging, Trading, This
  <2> QED BY <2>3, <2>4, <2>5, <2>6, <2>7
<1> QED BY <1>1, <1>2, <1>3, <1>4, <1>5

\* The orders.
LEMMA TradingSteps ==
  ASSUME CycleInv
  PROVE  /\ StartOrdering => CycleInv'
         /\ SellOne => CycleInv'
         /\ RecordSale => CycleInv'
         /\ ExitsDone => CycleInv'
         /\ BuyPlanned => CycleInv'
         /\ RecordPurchase => CycleInv'
<1> USE DEF CycleInv
<1>1. ASSUME StartOrdering
      PROVE  CycleInv'
  <2> USE <1>1 DEF StartOrdering, kisVars, marks, history
  <2>1. run' \in Processes
    BY Moved DEF RunTypes, RunSteps, At
  <2>2. run.pc = "order" /\ run'.pc = "exits" /\ run'.action = run.action /\ run'.plan = run.plan
    BY Moved DEF RunTypes, RunSteps, At
  <2>3. /\ cycles' \in Seq(Statuses) /\ cycles' # <<>>
        /\ Len(cycles') = Len(cycles) /\ DOMAIN cycles' = DOMAIN cycles
        /\ cycles'[Len(cycles)] = "ordering"
        /\ \A i \in 1 .. Len(cycles) - 1 : cycles'[i] = cycles[i]
    BY AdvancedRows DEF RowsFollowRun, Statuses, Reading, At
  <2>4. RunTypes'
    BY <2>1 DEF RunTypes
  <2>5. RowsFollowRun'
    BY <2>2, <2>3 DEF RowsFollowRun, At, Reading, Opening, Judging, Trading
  <2>6. VerdictKept'
    BY <2>2 DEF VerdictKept, At
  <2>7. SafeStopKept'
    BY <2>2 DEF SafeStopKept, Trading
  <2>8. BarredKept'
    BY <2>2, <2>3 DEF BarredKept, Reading, Opening, Judging, Trading
  <2> QED BY <2>4, <2>5, <2>6, <2>7, <2>8
<1>2. ASSUME SellOne
      PROVE  CycleInv'
  <2> USE <1>2 DEF SellOne, tables, history
  <2>1. run' \in Processes
    BY Moved DEF RunTypes, RunSteps, At
  <2>2. run.pc = "exits" /\ run'.pc = "sold" /\ run'.action = run.action /\ run'.plan = run.plan
    BY Moved DEF RunTypes, RunSteps, At
  <2>3. kis' \in [cash : Nat, shares : Nat]
    BY DEF RunTypes
  <2>4. RunTypes'
    BY <2>1, <2>3 DEF RunTypes
  <2>5. RowsFollowRun'
    BY <2>2 DEF RowsFollowRun, At, Reading, Opening, Judging, Trading, This
  <2>6. VerdictKept'
    BY <2>2 DEF VerdictKept, At
  <2>7. SafeStopKept'
    BY <2>2 DEF SafeStopKept, Trading
  <2>8. BarredKept'
    BY <2>2 DEF BarredKept, Reading, Opening, Judging, Trading, This
  <2> QED BY <2>4, <2>5, <2>6, <2>7, <2>8
<1>3. ASSUME RecordSale
      PROVE  CycleInv'
  <2> USE <1>3 DEF RecordSale, kisVars, marks, history
  <2>1. run' \in Processes
    BY Moved DEF RunTypes, RunSteps, At
  <2>2. run.pc = "sold" /\ run'.pc = "exits" /\ run'.action = run.action /\ run'.plan = run.plan
    BY Moved DEF RunTypes, RunSteps, At
  <2>3. book' \in Nat /\ since' \in Int
    BY <2>2 DEF RunTypes, VerdictKept, At
  <2>4. RunTypes'
    BY <2>1, <2>3 DEF RunTypes
  <2>5. RowsFollowRun'
    BY <2>2 DEF RowsFollowRun, At, Reading, Opening, Judging, Trading
  <2>6. VerdictKept'
    BY <2>2 DEF VerdictKept, At
  <2>7. SafeStopKept'
    BY <2>2 DEF SafeStopKept, Trading
  <2>8. BarredKept'
    BY <2>2 DEF BarredKept, Reading, Opening, Judging, Trading
  <2> QED BY <2>4, <2>5, <2>6, <2>7, <2>8
<1>4. ASSUME ExitsDone
      PROVE  CycleInv'
  <2> USE <1>4 DEF ExitsDone, kisVars, tables, marks, history
  <2>1. run.pc = "exits" /\ GoTo(IF run.plan = <<>> THEN "record" ELSE "entries")
    BY DEF At
  <2>2. /\ run' \in Processes /\ run'.action = run.action /\ run'.plan = run.plan
        /\ run'.pc = IF run.plan = <<>> THEN "record" ELSE "entries"
    BY <2>1, Moved DEF RunTypes, RunSteps
  <2>3. run'.pc \in {"record", "entries"} /\ (run'.pc = "entries" => run'.plan # <<>>)
    BY <2>2
  <2>4. RunTypes'
    BY <2>2 DEF RunTypes
  <2>5. RowsFollowRun'
    BY <2>1, <2>3 DEF RowsFollowRun, At, Reading, Opening, Judging, Trading
  <2>6. VerdictKept'
    BY <2>3 DEF VerdictKept, At
  <2>7. SafeStopKept'
    BY <2>1, <2>2, <2>3 DEF SafeStopKept, Trading
  <2>8. BarredKept'
    BY <2>1, <2>3 DEF BarredKept, Reading, Opening, Judging, Trading
  <2> QED BY <2>4, <2>5, <2>6, <2>7, <2>8
<1>5. ASSUME BuyPlanned
      PROVE  CycleInv'
  <2> USE <1>5 DEF BuyPlanned, tables, history
  <2>1. run.pc = "entries" /\ (GoTo("bought") \/ GoTo("record"))
    BY DEF At
  <2>2. /\ run' \in Processes /\ run'.pc \in {"bought", "record"}
        /\ run'.action = run.action /\ run'.plan = run.plan
    BY <2>1, Moved DEF RunTypes, RunSteps
  <2>3. kis' \in [cash : Nat, shares : Nat]
    BY DEF RunTypes
  <2>4. RunTypes'
    BY <2>2, <2>3 DEF RunTypes
  <2>5. RowsFollowRun'
    BY <2>1, <2>2 DEF RowsFollowRun, At, Reading, Opening, Judging, Trading, This
  <2>6. VerdictKept'
    BY <2>2 DEF VerdictKept, At
  <2>7. SafeStopKept'
    BY <2>1, <2>2 DEF SafeStopKept, Trading
  <2>8. BarredKept'
    BY <2>1, <2>2 DEF BarredKept, Reading, Opening, Judging, Trading, This
  <2> QED BY <2>4, <2>5, <2>6, <2>7, <2>8
<1>6. ASSUME RecordPurchase
      PROVE  CycleInv'
  <2> USE <1>6 DEF RecordPurchase, kisVars, marks, history
  <2>1. run' \in Processes
    BY Moved DEF RunTypes, RunSteps, At
  <2>2. run.pc = "bought" /\ run'.pc = "record" /\ run'.action = run.action /\ run'.plan = run.plan
    BY Moved DEF RunTypes, RunSteps, At
  <2>3. since' \in Int /\ book' \in Nat
    BY DEF RunTypes
  <2>4. RunTypes'
    BY <2>1, <2>3 DEF RunTypes
  <2>5. RowsFollowRun'
    BY <2>2 DEF RowsFollowRun, At, Reading, Opening, Judging, Trading
  <2>6. VerdictKept'
    BY <2>2 DEF VerdictKept, At
  <2>7. SafeStopKept'
    BY <2>2 DEF SafeStopKept, Trading
  <2>8. BarredKept'
    BY <2>2 DEF BarredKept, Reading, Opening, Judging, Trading
  <2> QED BY <2>4, <2>5, <2>6, <2>7, <2>8
<1> QED BY <1>1, <1>2, <1>3, <1>4, <1>5, <1>6

\* The three ways a cycle ends.
LEMMA EndingSteps ==
  ASSUME CycleInv
  PROVE  /\ CloseCycle => CycleInv'
         /\ RecordCycle => CycleInv'
         /\ Crash => CycleInv'
<1> USE DEF CycleInv
<1>1. ASSUME CloseCycle
      PROVE  CycleInv'
  <2> USE <1>1 DEF CloseCycle, kisVars, marks, history
  <2>1. run' \in Processes
    BY FreshProcess, NoAccountType DEF Idle, RunSteps
  <2>2. run'.pc = "idle" /\ run'.plan = <<>>
    BY DEF Idle, Process
  <2>3. /\ cycles' \in Seq(Statuses) /\ cycles' # <<>>
        /\ Len(cycles') = Len(cycles) /\ DOMAIN cycles' = DOMAIN cycles
        /\ cycles'[Len(cycles)] = (IF run.action = "skip" THEN "skipped" ELSE "failed")
        /\ \A i \in 1 .. Len(cycles) - 1 : cycles'[i] = cycles[i]
    BY AdvancedRows DEF RowsFollowRun, Statuses, Reading, At
  <2>4. RunTypes'
    BY <2>1 DEF RunTypes
  <2>5. RowsFollowRun'
    BY <2>2, <2>3 DEF RowsFollowRun, At, Reading, Opening, Judging, Trading
  <2>6. VerdictKept'
    BY <2>2 DEF VerdictKept, At
  <2>7. SafeStopKept'
    BY <2>2 DEF SafeStopKept, Trading
  <2>8. BarredKept'
    BY <2>2, <2>3 DEF BarredKept, Reading, Opening, Judging, Trading
  <2> QED BY <2>4, <2>5, <2>6, <2>7, <2>8
<1>2. ASSUME RecordCycle
      PROVE  CycleInv'
  <2> USE <1>2 DEF RecordCycle, kisVars, marks, history
  <2>1. run' \in Processes
    BY FreshProcess, NoAccountType DEF Idle, RunSteps
  <2>2. run'.pc = "idle" /\ run'.plan = <<>>
    BY DEF Idle, Process
  <2>3. /\ cycles' \in Seq(Statuses) /\ cycles' # <<>>
        /\ Len(cycles') = Len(cycles) /\ DOMAIN cycles' = DOMAIN cycles
        /\ cycles'[Len(cycles)] = "recorded"
        /\ \A i \in 1 .. Len(cycles) - 1 : cycles'[i] = cycles[i]
    BY AdvancedRows DEF RowsFollowRun, Statuses, Reading, At
  <2>4. RunTypes'
    BY <2>1 DEF RunTypes
  <2>5. RowsFollowRun'
    BY <2>2, <2>3 DEF RowsFollowRun, At, Reading, Opening, Judging, Trading
  <2>6. VerdictKept'
    BY <2>2 DEF VerdictKept, At
  <2>7. SafeStopKept'
    BY <2>2 DEF SafeStopKept, Trading
  <2>8. BarredKept'
    BY <2>2, <2>3 DEF BarredKept, Reading, Opening, Judging, Trading
  <2> QED BY <2>4, <2>5, <2>6, <2>7, <2>8
<1>3. ASSUME Crash
      PROVE  CycleInv'
  <2> USE <1>3 DEF Crash, kisVars, tables, history
  <2>1. run' \in Processes
    BY FreshProcess, NoAccountType DEF Idle, RunSteps
  <2>2. run'.pc = "idle" /\ run'.plan = <<>>
    BY DEF Idle, Process
  <2>3. crashes' \in Nat
    BY DEF RunTypes
  <2>4. RunTypes'
    BY <2>1, <2>3 DEF RunTypes
  <2>5. RowsFollowRun'
    BY <2>2 DEF RowsFollowRun, At, Reading, Opening, Judging, Trading
  <2>6. VerdictKept'
    BY <2>2 DEF VerdictKept, At
  <2>7. SafeStopKept'
    BY <2>2 DEF SafeStopKept, Trading
  <2>8. BarredKept'
    BY <2>2 DEF BarredKept, Reading, Opening, Judging, Trading
  <2> QED BY <2>4, <2>5, <2>6, <2>7, <2>8
<1> QED BY <1>1, <1>2, <1>3

-----------------------------------------------------------------------------
(* The invariant and what follows from it.                                 *)

\* The invariant holds at the start.
LEMMA CycleStart == Init => CycleInv
<1> SUFFICES ASSUME Init PROVE CycleInv
  OBVIOUS
<1> USE DEF Init
<1>1. run \in Processes /\ run.pc = "idle" /\ run.plan = <<>> /\ run.action = "proceed"
  BY FreshProcess, NoAccountType DEF Idle, RunSteps
<1>2. RunTypes
  <2>1. kis \in [cash : Nat, shares : Nat] /\ snap \in [taken : BOOLEAN, cash : Nat, cum : Int]
    BY DEF NoSnapshot
  <2>2. fired \in Nat /\ book \in Nat /\ crashes \in Nat
    OBVIOUS
  <2>3. since \in Int /\ flows \in Int /\ unseen \in Int /\ truth \in Int
    OBVIOUS
  <2> QED BY <1>1, <2>1, <2>2, <2>3 DEF RunTypes
<1>3. RowsFollowRun
  BY <1>1 DEF RowsFollowRun, At, Reading, Opening, Judging, Trading
<1>4. VerdictKept /\ SafeStopKept
  BY <1>1 DEF VerdictKept, SafeStopKept, At
<1>5. BarredKept
  BY <1>1 DEF BarredKept, Opening, Judging, Trading
<1> QED BY <1>2, <1>3, <1>4, <1>5 DEF CycleInv

\* Every step keeps the invariant.
LEMMA CycleStep == CycleInv /\ [Next]_vars => CycleInv'
<1> SUFFICES ASSUME CycleInv, [Next]_vars PROVE CycleInv'
  OBVIOUS
<1>1. CASE Next
  BY <1>1, OutsideSteps, ReadingSteps, OpeningSteps, JudgingSteps, TradingSteps,
     EndingSteps DEF Next
<1>2. CASE UNCHANGED vars
  <2> USE <1>2 DEF CycleInv, vars, kisVars, tables, marks, history
  <2>1. RunTypes'
    BY DEF RunTypes
  <2>2. RowsFollowRun' /\ VerdictKept' /\ SafeStopKept' /\ BarredKept'
    BY DEF RowsFollowRun, VerdictKept, SafeStopKept, BarredKept, At
  <2> QED BY <2>1, <2>2
<1> QED BY <1>1, <1>2

\* The invariant holds throughout.
THEOREM CycleInvariant == Spec => []CycleInv
  BY CycleStart, CycleStep, PTL DEF Spec

\* The state is well typed, and a cycle is closed at the gate only when the
\* verdict was to skip or to halt.
THEOREM CycleTypes == Spec => []CycleTypeOK
<1>1. CycleInv => CycleTypeOK
  <2> SUFFICES ASSUME CycleInv PROVE CycleTypeOK
    OBVIOUS
  <2> USE DEF CycleInv, RowsFollowRun
  <2>1. run.pc \in RunSteps
    BY DEF RunTypes, Processes
  <2>2. run.pc \notin {"idle", "fetch", "market", "create"} =>
          cycles # <<>> /\ cycles[This] \notin {"recorded", "failed", "skipped"}
    BY <2>1 DEF This, At, RunSteps, Reading, Opening, Judging, Trading
  <2>3. At("close") => run.action \in {"skip", "halt"}
    BY DEF VerdictKept, At
  <2> QED BY <2>1, <2>2, <2>3 DEF CycleTypeOK, RunTypes
<1> QED BY <1>1, CycleInvariant, PTL

\* A cycle that read an account other than the book, or that the gate or the
\* anomaly check told to stop, never sends an order.
THEOREM BarredNeverTrade == Spec => []BarredCyclesDontTrade
<1>1. CycleInv => BarredCyclesDontTrade
  BY DEF CycleInv, BarredKept, BarredCyclesDontTrade
<1> QED BY <1>1, CycleInvariant, PTL

\* No purchase is made while a SafeStop is unreleased, whichever cycle raised it.
THEOREM SafeStopStopsEntries == Spec => NoEntryUnderSafeStop
<1>1. CycleInv /\ [Next]_vars
        => [run.pc = "entries" /\ kis'.shares > kis.shares => ~safeStop]_vars
  BY DEF CycleInv, VerdictKept, SafeStopKept, At
<1> QED BY <1>1, CycleInvariant, PTL DEF Spec, NoEntryUnderSafeStop

-----------------------------------------------------------------------------
(* The cycles table implements CycleStatus.                                *)

\* Writing a status that may follow is a step of CycleStatus.
LEMMA AdvanceIsForward ==
  ASSUME cycles \in Seq(Statuses), cycles # <<>>, NEW s \in Statuses, Advance(s),
         <<cycles[Len(cycles)], s>> \in Status!Forward
  PROVE  Status!Next
<1>1. Len(cycles) \in DOMAIN cycles /\ s \in Status!Pending \cup Status!Closed
  BY DEF Statuses, Status!Pending, Status!Closed
<1>2. Status!Advance(Len(cycles))
  BY <1>1 DEF Status!Advance, Advance, This
<1> QED BY <1>1, <1>2 DEF Status!Next

\* Only the last cycle may be open, so closing the dead ones closes at most that.
LEMMA RecoveryIsForward ==
  ASSUME CycleInv, Starts
  PROVE  Status!Next \/ UNCHANGED cycles
<1>1. /\ cycles \in Seq(Statuses) /\ cycles' = Recovered
      /\ \A i \in 1 .. Len(cycles) - 1 : cycles[i] \in Status!Closed
  BY DEF CycleInv, RowsFollowRun, Starts
<1> DEFINE last == Len(cycles)
<1>2. CASE last \in DOMAIN cycles /\ cycles[last] \notin Status!Closed
  <2>1. \A i \in DOMAIN cycles :
          cycles'[i] = IF i = last THEN "failed" ELSE cycles[i]
    BY <1>1, <1>2, RecoveredRows
  <2>2. cycles' = [cycles EXCEPT ![last] = "failed"]
    BY <1>1, <2>1 DEF Recovered
  <2>3. Advance("failed") /\ cycles # <<>> /\ "failed" \in Statuses
    BY <1>2, <2>2 DEF Advance, This, Statuses
  <2>4. <<cycles[last], "failed">> \in Status!Forward
    BY <1>1, <1>2 DEF Status!Forward, Status!Pending, Status!Closed, Statuses
  <2> QED BY <1>1, <2>3, <2>4, AdvanceIsForward
<1>3. CASE ~(last \in DOMAIN cycles /\ cycles[last] \notin Status!Closed)
  <2>1. \A i \in DOMAIN cycles : cycles'[i] = cycles[i]
    BY <1>1, <1>3, RecoveredRows
  <2>2. cycles' = cycles
    BY <1>1, <2>1 DEF Recovered
  <2> QED BY <2>2
<1> QED BY <1>2, <1>3

\* Every step is a step of CycleStatus or leaves the rows alone.
LEMMA RowsStep == CycleInv /\ [Next]_vars => [Status!Next]_cycles
<1> SUFFICES ASSUME CycleInv, [Next]_vars PROVE Status!Next \/ UNCHANGED cycles
  OBVIOUS
<1>1. cycles \in Seq(Statuses) /\ RowsFollowRun
  BY DEF CycleInv, RowsFollowRun
<1>2. CASE Starts
  BY <1>2, RecoveryIsForward
<1>3. CASE CreateCycle
  BY <1>1, <1>3
     DEF CreateCycle, RowsFollowRun, At, Reading, Status!Next, Status!Begin
<1>4. ASSUME NEW empty \in BOOLEAN, Screen(empty) PROVE Status!Next
  <2>1. cycles # <<>> /\ cycles[Len(cycles)] = "intent" /\ Advance("scoring")
    BY <1>1, <1>4 DEF Screen, RowsFollowRun, At, Reading, Opening
  <2> QED BY <1>1, <2>1, AdvanceIsForward DEF Statuses, Status!Forward
<1>5. CASE StartDeciding
  <2>1. cycles # <<>> /\ cycles[Len(cycles)] = "scoring" /\ Advance("deciding")
    BY <1>1, <1>5 DEF StartDeciding, RowsFollowRun, At, Reading
  <2> QED BY <1>1, <2>1, AdvanceIsForward DEF Statuses, Status!Forward
<1>6. CASE CloseCycle
  <2>1. /\ cycles # <<>> /\ cycles[Len(cycles)] = "deciding"
        /\ Advance("skipped") \/ Advance("failed")
    BY <1>1, <1>6 DEF CloseCycle, RowsFollowRun, At, Reading, Judging
  <2> QED
    BY <1>1, <2>1, AdvanceIsForward DEF Statuses, Status!Forward, Status!Pending
<1>7. CASE StartOrdering
  <2>1. /\ cycles # <<>> /\ cycles[Len(cycles)] \in {"scoring", "deciding"}
        /\ Advance("ordering")
    BY <1>1, <1>7 DEF StartOrdering, RowsFollowRun, At, Reading
  <2> QED BY <1>1, <2>1, AdvanceIsForward DEF Statuses, Status!Forward
<1>8. CASE RecordCycle
  <2>1. cycles # <<>> /\ cycles[Len(cycles)] = "ordering" /\ Advance("recorded")
    BY <1>1, <1>8 DEF RecordCycle, RowsFollowRun, At, Reading, Trading
  <2> QED BY <1>1, <2>1, AdvanceIsForward DEF Statuses, Status!Forward
<1>9. CASE WatchSettles \/ Release \/ GivesUp \/ RecordSnapshot \/ Gate \/ RaiseSafeStop
           \/ RecordCashFlow \/ RaiseAnomaly \/ SellOne \/ RecordSale \/ ExitsDone
           \/ BuyPlanned \/ RecordPurchase \/ Crash \/ UNCHANGED vars
  BY <1>9 DEF WatchSettles, Release, GivesUp, RecordSnapshot, Gate, RaiseSafeStop,
     RecordCashFlow, RaiseAnomaly, SellOne, RecordSale, ExitsDone, BuyPlanned,
     RecordPurchase, Crash, vars, tables
<1>10. CASE \/ \E amount \in -MaxMoney .. MaxMoney : Transfer(amount)
            \/ \E n \in 1 .. MaxMoney : StopFires(n)
            \/ \E base \in Bases : FetchAccount(base)
            \/ \E marketHalt, pricesOk \in BOOLEAN : BuildMarketState(marketHalt, pricesOk)
            \/ \E plan \in Plans : PlanEntries(plan)
  BY <1>10 DEF Transfer, StopFires, FetchAccount, BuildMarketState, PlanEntries, tables
<1> QED BY <1>2, <1>3, <1>4, <1>5, <1>6, <1>7, <1>8, <1>9, <1>10 DEF Next

\* Whatever a cycle does and wherever it dies, its row moves as CycleStatus says:
\* a new cycle follows closed ones, and a closed cycle is never touched again.
THEOREM StatusIsKept == Spec => StatusPromise
<1>1. Init => Status!Init
  BY DEF Init, Status!Init
<1> QED BY <1>1, RowsStep, CycleInvariant, PTL DEF Spec, StatusPromise, Status!Spec

-----------------------------------------------------------------------------
(* The money of a cycle: what the reconciliation of the cash records is    *)
(* what people have moved, but for the two things FlowsAreTransfers names, *)
(* for any number of cycles and any amount of money, as long as no cycle   *)
(* dies.                                                                   *)

\* A sale or purchase that is at the broker and not in the book yet.
InFlight == IF At("sold") THEN 1 ELSE IF At("bought") THEN -1 ELSE 0

\* The cash at the broker is that of the last snapshot, the fills recorded since,
\* the stops not recorded yet, but for those the snapshot holds already, and the
\* transfers nobody has seen yet.
CashAccounted ==
  snap.taken => kis.cash = snap.cash + since + (fired - early) + unseen + InFlight

\* The book is the holdings, as far as it knows of the orders.
HoldingsAccounted == kis.shares + fired + InFlight = book

\* The account that was read differs from the present one by the stops and the
\* transfers of after the reading.
AccountKept ==
  run.pc \in {"market", "create", "snapshot"} =>
    /\ run.seen.fired <= fired
    /\ kis.cash = run.acc.cash + (fired - run.seen.fired) + unseen - run.seen.moved

\* Before the first snapshot nothing has been bought, found or recorded.
Unopened ==
  ~snap.taken =>
    /\ run.pc \in {"idle", "snapshot"} \cup Reading
    /\ book = 0 /\ flows = 0 /\ truth = 0 /\ early = 0 /\ lost = [all |-> 0, before |-> 0]

\* What should be in flows once the flow that was just found is recorded.
Expected == truth + early - lost.all

FlowsKept ==
  /\ snap.taken => snap.cum = truth + early - lost.before
  /\ run.pc \in Window /\ run.comparable => flows + run.residual = Expected
  /\ run.pc \in Window /\ ~run.comparable => run.residual = 0
  /\ run.pc \notin Window \/ ~run.comparable => flows = Expected

MoneyKept == CashAccounted /\ HoldingsAccounted /\ AccountKept /\ Unopened /\ FlowsKept

MoneyInv == crashes = 0 => MoneyKept

\* At the snapshot the difference of cash is what people had moved before the
\* account was read, and the stops the account held and the book did not, less
\* those of the snapshot before.
LEMMA FoundFlow ==
  ASSUME CycleInv, CashAccounted, AccountKept, At("snapshot"), snap.taken
  PROVE  Residual = run.seen.moved + run.seen.fired - early
<1>1. /\ kis.cash \in Int /\ run.acc.cash \in Int /\ snap.cash \in Int
      /\ run.seen.moved \in Int /\ run.seen.fired \in Int /\ since \in Int
      /\ fired \in Int /\ early \in Int /\ unseen \in Int
  BY DEF CycleInv, RunTypes, Processes, RunAccounts, Seen
<1>2. kis.cash = snap.cash + since + (fired - early) + unseen
  <2>1. InFlight = 0
    BY DEF InFlight, At
  <2> QED BY <1>1, <2>1 DEF CashAccounted
<1>3. kis.cash = run.acc.cash + (fired - run.seen.fired) + unseen - run.seen.moved
  BY DEF AccountKept, At
<1>4. run.acc.cash - (snap.cash + since) = run.seen.moved + run.seen.fired - early
  BY <1>1, <1>2, <1>3
<1> QED BY <1>4 DEF Residual

-----------------------------------------------------------------------------
(* The steps.                                                              *)

\* The broker, the watch and people: a stop is in fired until the watch settles
\* it, a transfer in unseen until an account is read.
LEMMA OutsideMoney ==
  ASSUME CycleInv, MoneyKept, crashes' = 0
  PROVE  /\ \A amount \in -MaxMoney .. MaxMoney : Transfer(amount) => MoneyKept'
         /\ \A n \in 1 .. MaxMoney : StopFires(n) => MoneyKept'
         /\ WatchSettles => MoneyKept'
         /\ Release => MoneyKept'
<1> USE DEF MoneyKept
<1>1. ASSUME NEW amount \in -MaxMoney .. MaxMoney, Transfer(amount)
      PROVE  MoneyKept'
  <2> USE <1>1 DEF Transfer, tables, marks
  <2>1. /\ kis'.cash = kis.cash + amount /\ kis'.shares = kis.shares /\ amount \in Int
    BY CycleAssumption DEF CycleInv, RunTypes
  <2>2. kis.cash \in Nat /\ kis.shares \in Nat /\ fired \in Nat /\ book \in Nat
        /\ since \in Int /\ unseen \in Int /\ early \in Nat /\ snap.cash \in Nat
        /\ run.acc.cash \in Nat /\ run.seen.moved \in Int /\ run.seen.fired \in Nat
    BY DEF CycleInv, RunTypes, Processes, RunAccounts, Seen
  <2>3. CashAccounted'
    BY <2>1, <2>2 DEF CashAccounted, InFlight, At
  <2>4. HoldingsAccounted'
    BY <2>1, <2>2 DEF HoldingsAccounted, InFlight, At
  <2>5. AccountKept'
    BY <2>1, <2>2 DEF AccountKept, At
  <2>6. Unopened' /\ FlowsKept'
    BY DEF Unopened, FlowsKept, Expected
  <2> QED BY <2>3, <2>4, <2>5, <2>6
<1>2. ASSUME NEW n \in 1 .. MaxMoney, StopFires(n)
      PROVE  MoneyKept'
  <2> USE <1>2 DEF StopFires, tables, marks, history
  <2>1. kis'.cash = kis.cash + n /\ kis'.shares = kis.shares - n /\ n \in Int
    BY DEF CycleInv, RunTypes
  <2>2. kis.cash \in Nat /\ kis.shares \in Nat /\ fired \in Nat /\ book \in Nat
        /\ since \in Int /\ unseen \in Int /\ early \in Nat /\ snap.cash \in Nat
        /\ run.acc.cash \in Nat /\ run.seen.moved \in Int /\ run.seen.fired \in Nat
    BY DEF CycleInv, RunTypes, Processes, RunAccounts, Seen
  <2>3. CashAccounted'
    BY <2>1, <2>2 DEF CashAccounted, InFlight, At
  <2>4. HoldingsAccounted'
    BY <2>1, <2>2 DEF HoldingsAccounted, InFlight, At
  <2>5. AccountKept'
    BY <2>1, <2>2 DEF AccountKept, At
  <2>6. Unopened' /\ FlowsKept'
    BY DEF Unopened, FlowsKept, Expected
  <2> QED BY <2>3, <2>4, <2>5, <2>6
<1>3. ASSUME WatchSettles
      PROVE  MoneyKept'
  <2> USE <1>3 DEF WatchSettles, marks, history
  <2>1. fired <= book
    BY DEF CycleInv, RunTypes, HoldingsAccounted, InFlight, At
  <2> QED
    BY <2>1 DEF CycleInv, RunTypes, CashAccounted, HoldingsAccounted, AccountKept,
      Unopened, FlowsKept, Expected, Reading, InFlight, Window, At
<1>4. ASSUME Release
      PROVE  MoneyKept'
  <2> USE <1>4 DEF Release, kisVars, marks, history
  <2> QED
    BY DEF CashAccounted, HoldingsAccounted, AccountKept, Unopened, FlowsKept,
      Expected, Reading, InFlight, Window, At
<1> QED BY <1>1, <1>2, <1>3, <1>4

\* Up to the row of the cycle: the account is read and kept.
LEMMA ReadingMoney ==
  ASSUME CycleInv, MoneyKept, crashes' = 0
  PROVE  /\ Starts => MoneyKept'
         /\ \A base \in Bases : FetchAccount(base) => MoneyKept'
         /\ \A halt \in BOOLEAN, ok \in BOOLEAN : BuildMarketState(halt, ok) => MoneyKept'
         /\ GivesUp => MoneyKept'
         /\ CreateCycle => MoneyKept'
<1> USE DEF MoneyKept
<1>1. ASSUME Starts
      PROVE  MoneyKept'
  <2> USE <1>1 DEF Starts, kisVars, marks, history
  <2>1. run.pc = "idle" /\ run'.pc = "fetch"
    BY DEF At, Process
  <2> QED
    BY <2>1 DEF CashAccounted, HoldingsAccounted, AccountKept, Unopened, FlowsKept,
      Expected, Reading, InFlight, Window, At
<1>2. ASSUME NEW base \in Bases, FetchAccount(base)
      PROVE  MoneyKept'
  <2> USE <1>2 DEF FetchAccount, kisVars, tables, marks, history
  <2>1. /\ run.pc = "fetch" /\ run'.pc = "market" /\ run'.acc.cash = kis.cash
        /\ run'.seen.moved = unseen /\ run'.seen.fired = fired
    BY DEF At, Process
  <2>2. kis.cash \in Nat /\ fired \in Nat /\ unseen \in Int
    BY DEF CycleInv, RunTypes
  <2>3. AccountKept'
    BY <2>1, <2>2 DEF AccountKept
  <2>4. CashAccounted' /\ HoldingsAccounted' /\ Unopened'
    BY <2>1 DEF CashAccounted, HoldingsAccounted, Unopened, InFlight, Reading, At
  <2>5. FlowsKept'
    BY <2>1 DEF FlowsKept, Expected, Window
  <2> QED BY <2>3, <2>4, <2>5
<1>3. ASSUME NEW halt \in BOOLEAN, NEW ok \in BOOLEAN, BuildMarketState(halt, ok)
      PROVE  MoneyKept'
  <2> USE <1>3 DEF BuildMarketState, kisVars, tables, marks, history
  <2>1. /\ run.pc = "market" /\ run'.pc = "create"
        /\ run'.acc = run.acc /\ run'.seen = run.seen
    BY DEF CycleInv, RunTypes, At, Processes
  <2> QED
    BY <2>1 DEF CashAccounted, HoldingsAccounted, AccountKept, Unopened, FlowsKept,
      Expected, Reading, InFlight, Window, At
<1>4. ASSUME GivesUp
      PROVE  MoneyKept'
  <2> USE <1>4 DEF GivesUp, kisVars, tables, marks, history
  <2>1. run.pc = "create" /\ run'.pc = "idle"
    BY DEF At, Process, Idle
  <2> QED
    BY <2>1 DEF CashAccounted, HoldingsAccounted, AccountKept, Unopened, FlowsKept,
      Expected, Reading, InFlight, Window, At
<1>5. ASSUME CreateCycle
      PROVE  MoneyKept'
  <2> USE <1>5 DEF CreateCycle, kisVars, marks, history
  <2>1. /\ run.pc = "create" /\ run'.pc = "snapshot" /\ run'.acc = run.acc /\ run'.seen = run.seen
        /\ run'.residual = run.residual /\ run'.comparable = run.comparable
    BY Moved DEF CycleInv, RunTypes, RunSteps, At
  <2> QED
    BY <2>1 DEF CashAccounted, HoldingsAccounted, AccountKept, Unopened, FlowsKept,
      Expected, Reading, InFlight, Window, At
<1> QED BY <1>1, <1>2, <1>3, <1>4, <1>5

\* The comparison finds exactly the transfers of before the reading.
LEMMA OpeningMoney ==
  ASSUME CycleInv, MoneyKept, crashes' = 0
  PROVE  /\ RecordSnapshot => MoneyKept'
         /\ \A empty \in BOOLEAN : Screen(empty) => MoneyKept'
         /\ StartDeciding => MoneyKept'
<1> USE DEF MoneyKept
<1>1. ASSUME RecordSnapshot
      PROVE  MoneyKept'
  <2> USE <1>1 DEF RecordSnapshot, kisVars, marks
  <2>1. run.pc = "snapshot" /\ run'.pc = "screen" /\ run'.residual = Residual
        /\ run'.comparable = snap.taken
    BY DEF CycleInv, RunTypes, Processes, At
  <2>2. /\ kis.cash \in Nat /\ run.acc.cash \in Nat /\ snap.cash \in Nat
        /\ run.seen.moved \in Int /\ run.seen.fired \in Nat /\ early \in Nat
        /\ since \in Int /\ fired \in Nat /\ unseen \in Int /\ flows \in Int /\ truth \in Int
        /\ lost \in [all : Int, before : Int]
    BY DEF CycleInv, RunTypes, Processes, RunAccounts, Seen
  <2>3. snap.taken => Residual = run.seen.moved + run.seen.fired - early
    BY FoundFlow DEF RecordSnapshot
  <2>4. ~snap.taken => Residual = 0
    BY DEF Residual
  <2>5. CashAccounted'
    BY <2>1, <2>2 DEF CashAccounted, AccountKept, InFlight, At
  <2>6. HoldingsAccounted'
    BY <2>1 DEF HoldingsAccounted, InFlight, At
  <2>7. AccountKept' /\ Unopened'
    BY <2>1 DEF AccountKept, Unopened, At
  <2>8. /\ truth' + early' - lost.all = flows + Residual
        /\ ~snap.taken => truth' + early' - lost.all = flows
    <3>1. CASE snap.taken
      BY <2>1, <2>2, <2>3, <3>1 DEF FlowsKept, Expected, Window
    <3>2. CASE ~snap.taken
      <4>1. fired = 0 /\ run.seen.fired = 0
        BY <2>1, <2>2, <3>2 DEF Unopened, HoldingsAccounted, AccountKept, InFlight, At,
           CycleInv, RunTypes
      <4> QED BY <2>2, <2>4, <3>2, <4>1 DEF Unopened
    <3> QED BY <3>1, <3>2
  <2>9. /\ lost'.all = lost.all /\ lost'.before = lost.all
        /\ snap'.taken /\ snap'.cum = flows + Residual
    BY <2>2
  <2>10. FlowsKept'
    BY <2>1, <2>2, <2>4, <2>8, <2>9 DEF FlowsKept, Expected, Window
  <2> QED BY <2>5, <2>6, <2>7, <2>10
<1>2. ASSUME NEW empty \in BOOLEAN, Screen(empty)
      PROVE  MoneyKept'
  <2> USE <1>2 DEF Screen, kisVars, marks, history
  <2>1. CASE ~empty
    <3>1. /\ run.pc = "screen" /\ run'.pc = "scored"
          /\ run'.residual = run.residual /\ run'.comparable = run.comparable
      BY <2>1 DEF CycleInv, RunTypes, Processes, At
    <3> QED
      BY <2>1, <3>1 DEF CashAccounted, HoldingsAccounted, AccountKept, Unopened, FlowsKept,
        Expected, InFlight, Window, Reading, At
  <2>2. CASE empty
    <3>1. run.pc = "screen" /\ run'.pc = "order"
      BY <2>2 DEF At, Process
    <3>2. /\ lost'.all = lost.all + run.residual /\ lost'.before = lost.before
          /\ run.residual \in Int /\ flows \in Int /\ truth \in Int /\ early \in Int
          /\ lost.all \in Int
      BY <2>2 DEF CycleInv, RunTypes, Processes
    <3>3. flows = truth + early - (lost.all + run.residual)
      BY <3>1, <3>2 DEF FlowsKept, Expected, Window
    <3>4. FlowsKept'
      BY <3>1, <3>2, <3>3 DEF FlowsKept, Expected, Window
    <3> QED
      BY <3>1, <3>4 DEF CashAccounted, HoldingsAccounted, AccountKept, Unopened, InFlight,
        Reading, At
  <2> QED BY <2>1, <2>2
<1>3. ASSUME StartDeciding
      PROVE  MoneyKept'
  <2> USE <1>3 DEF StartDeciding, kisVars, marks, history
  <2>1. /\ run.pc = "scored" /\ run'.pc = "gate" /\ run'.acc = run.acc /\ run'.seen = run.seen
        /\ run'.residual = run.residual /\ run'.comparable = run.comparable
    BY Moved DEF CycleInv, RunTypes, RunSteps, At
  <2> QED
    BY <2>1 DEF CashAccounted, HoldingsAccounted, AccountKept, Unopened, FlowsKept,
      Expected, Reading, InFlight, Window, At
<1> QED BY <1>1, <1>2, <1>3

\* The flow that was found is recorded once.
LEMMA JudgingMoney ==
  ASSUME CycleInv, MoneyKept, crashes' = 0
  PROVE  /\ Gate => MoneyKept'
         /\ RaiseSafeStop => MoneyKept'
         /\ RecordCashFlow => MoneyKept'
         /\ \A plan \in Plans : PlanEntries(plan) => MoneyKept'
         /\ RaiseAnomaly => MoneyKept'
<1> USE DEF MoneyKept
<1>1. ASSUME Gate
      PROVE  MoneyKept'
  <2> USE <1>1 DEF Gate, kisVars, tables, history
  <2>1. /\ run.pc = "gate" /\ run'.pc \in {"raise", "flow"}
        /\ run'.residual = run.residual /\ run'.comparable = run.comparable
    BY DEF CycleInv, RunTypes, Processes, At
  <2> QED
    BY <2>1 DEF CashAccounted, HoldingsAccounted, AccountKept, Unopened, FlowsKept,
      Expected, Reading, InFlight, Window, At
<1>2. ASSUME RaiseSafeStop
      PROVE  MoneyKept'
  <2> USE <1>2 DEF RaiseSafeStop, kisVars, marks, history
  <2>1. /\ run.pc = "raise" /\ run'.pc = "flow" /\ run'.acc = run.acc /\ run'.seen = run.seen
        /\ run'.residual = run.residual /\ run'.comparable = run.comparable
    BY Moved DEF CycleInv, RunTypes, RunSteps, At
  <2> QED
    BY <2>1 DEF CashAccounted, HoldingsAccounted, AccountKept, Unopened, FlowsKept,
      Expected, Reading, InFlight, Window, At
<1>3. ASSUME RecordCashFlow
      PROVE  MoneyKept'
  <2> USE <1>3 DEF RecordCashFlow, kisVars, marks, history
  <2>1. run.pc = "flow" /\ GoTo(IF run.action \in {"proceed", "new_blocked"} THEN "plan" ELSE "close")
    BY DEF At
  <2>2. run'.pc \in {"plan", "close"}
    BY <2>1, Moved DEF CycleInv, RunTypes, RunSteps
  <2>3. flows' = Expected /\ Expected' = Expected
    BY <2>1 DEF FlowsKept, Expected, Window
  <2>4. snap.taken
    BY <2>1 DEF Unopened, Reading
  <2>5. CashAccounted'
    BY <2>1, <2>2 DEF CashAccounted, InFlight, At
  <2>6. HoldingsAccounted'
    BY <2>1, <2>2 DEF HoldingsAccounted, InFlight, At
  <2>7. AccountKept' /\ Unopened'
    BY <2>2, <2>4 DEF AccountKept, Unopened, At
  <2>8. FlowsKept'
    BY <2>2, <2>3, <2>4 DEF FlowsKept, Window
  <2> QED BY <2>5, <2>6, <2>7, <2>8
<1>4. ASSUME NEW plan \in Plans, PlanEntries(plan)
      PROVE  MoneyKept'
  <2> USE <1>4 DEF PlanEntries, kisVars, tables, marks, history
  <2>1. run.pc = "plan" /\ run'.pc \in {"anomaly", "order"}
    BY DEF At, Process
  <2> QED
    BY <2>1 DEF CashAccounted, HoldingsAccounted, AccountKept, Unopened, FlowsKept,
      Expected, Reading, InFlight, Window, At
<1>5. ASSUME RaiseAnomaly
      PROVE  MoneyKept'
  <2> USE <1>5 DEF RaiseAnomaly, kisVars, marks, history
  <2>1. /\ run.pc = "anomaly" /\ run'.pc = "close" /\ run'.acc = run.acc /\ run'.seen = run.seen
        /\ run'.residual = run.residual /\ run'.comparable = run.comparable
    BY Moved DEF CycleInv, RunTypes, RunSteps, At
  <2> QED
    BY <2>1 DEF CashAccounted, HoldingsAccounted, AccountKept, Unopened, FlowsKept,
      Expected, Reading, InFlight, Window, At
<1> QED BY <1>1, <1>2, <1>3, <1>4, <1>5

\* Each order moves the cash and the holdings together, its record the book.
LEMMA TradingMoney ==
  ASSUME CycleInv, MoneyKept, crashes' = 0
  PROVE  /\ StartOrdering => MoneyKept'
         /\ SellOne => MoneyKept'
         /\ RecordSale => MoneyKept'
         /\ ExitsDone => MoneyKept'
         /\ BuyPlanned => MoneyKept'
         /\ RecordPurchase => MoneyKept'
         /\ CloseCycle => MoneyKept'
         /\ RecordCycle => MoneyKept'
<1> USE DEF MoneyKept
<1>1. ASSUME StartOrdering
      PROVE  MoneyKept'
  <2> USE <1>1 DEF StartOrdering, kisVars, marks, history
  <2>1. /\ run.pc = "order" /\ run'.pc = "exits" /\ run'.acc = run.acc /\ run'.seen = run.seen
        /\ run'.residual = run.residual /\ run'.comparable = run.comparable
    BY Moved DEF CycleInv, RunTypes, RunSteps, At
  <2> QED
    BY <2>1 DEF CashAccounted, HoldingsAccounted, AccountKept, Unopened, FlowsKept,
      Expected, Reading, InFlight, Window, At
<1>2. ASSUME SellOne
      PROVE  MoneyKept'
  <2> USE <1>2 DEF SellOne, tables, history
  <2>1. /\ run.pc = "exits" /\ run'.pc = "sold" /\ run'.acc = run.acc /\ run'.seen = run.seen
        /\ run'.residual = run.residual /\ run'.comparable = run.comparable
    BY Moved DEF CycleInv, RunTypes, RunSteps, At
  <2>2. kis'.cash = kis.cash + 1 /\ kis'.shares = kis.shares - 1
    OBVIOUS
  <2> QED
    BY <2>1, <2>2 DEF CycleInv, RunTypes, CashAccounted, HoldingsAccounted,
      AccountKept, Unopened, FlowsKept, Expected, Reading, InFlight, Window, At
<1>3. ASSUME RecordSale
      PROVE  MoneyKept'
  <2> USE <1>3 DEF RecordSale, kisVars, marks, history
  <2>1. /\ run.pc = "sold" /\ run'.pc = "exits" /\ run'.acc = run.acc /\ run'.seen = run.seen
        /\ run'.residual = run.residual /\ run'.comparable = run.comparable
    BY Moved DEF CycleInv, RunTypes, RunSteps, At
  <2> QED
    BY <2>1 DEF CycleInv, RunTypes, CashAccounted, HoldingsAccounted, AccountKept,
      Unopened, FlowsKept, Expected, Reading, InFlight, Window, At
<1>4. ASSUME ExitsDone
      PROVE  MoneyKept'
  <2> USE <1>4 DEF ExitsDone, kisVars, tables, marks, history
  <2>1. run.pc = "exits" /\ GoTo(IF run.plan = <<>> THEN "record" ELSE "entries")
    BY DEF At
  <2>2. run'.pc \in {"record", "entries"}
    BY <2>1, Moved DEF CycleInv, RunTypes, RunSteps
  <2> QED
    BY <2>1, <2>2 DEF CashAccounted, HoldingsAccounted, AccountKept, Unopened,
      FlowsKept, Expected, Reading, InFlight, Window, At
<1>5. ASSUME BuyPlanned
      PROVE  MoneyKept'
  <2> USE <1>5 DEF BuyPlanned, tables, history
  <2>1. \/ run'.pc = "bought" /\ kis'.cash = kis.cash - 1 /\ kis'.shares = kis.shares + 1
        \/ run'.pc = "record" /\ kis' = kis
    BY Moved DEF CycleInv, RunTypes, RunSteps
  <2>2. run.pc = "entries"
    BY DEF At
  <2> QED
    BY <2>1, <2>2 DEF CycleInv, RunTypes, CashAccounted, HoldingsAccounted,
      AccountKept, Unopened, FlowsKept, Expected, Reading, InFlight, Window, At
<1>6. ASSUME RecordPurchase
      PROVE  MoneyKept'
  <2> USE <1>6 DEF RecordPurchase, kisVars, marks, history
  <2>1. /\ run.pc = "bought" /\ run'.pc = "record" /\ run'.acc = run.acc /\ run'.seen = run.seen
        /\ run'.residual = run.residual /\ run'.comparable = run.comparable
    BY Moved DEF CycleInv, RunTypes, RunSteps, At
  <2> QED
    BY <2>1 DEF CycleInv, RunTypes, CashAccounted, HoldingsAccounted, AccountKept,
      Unopened, FlowsKept, Expected, Reading, InFlight, Window, At
<1>7. ASSUME CloseCycle
      PROVE  MoneyKept'
  <2> USE <1>7 DEF CloseCycle, kisVars, marks, history
  <2>1. run.pc = "close" /\ run'.pc = "idle"
    BY DEF At, Process, Idle
  <2> QED
    BY <2>1 DEF CashAccounted, HoldingsAccounted, AccountKept, Unopened, FlowsKept,
      Expected, Reading, InFlight, Window, At
<1>8. ASSUME RecordCycle
      PROVE  MoneyKept'
  <2> USE <1>8 DEF RecordCycle, kisVars, marks, history
  <2>1. run.pc = "record" /\ run'.pc = "idle"
    BY DEF At, Process, Idle
  <2> QED
    BY <2>1 DEF CashAccounted, HoldingsAccounted, AccountKept, Unopened, FlowsKept,
      Expected, Reading, InFlight, Window, At
<1> QED BY <1>1, <1>2, <1>3, <1>4, <1>5, <1>6, <1>7, <1>8

-----------------------------------------------------------------------------
(* The theorems.                                                           *)

\* The balances hold before any cycle.
LEMMA MoneyStart == Init => MoneyInv
<1> SUFFICES ASSUME Init PROVE MoneyKept
  BY DEF MoneyInv
<1>1. run.pc = "idle" /\ InFlight = 0
  BY DEF Init, Idle, Process, InFlight, At
<1>2. CashAccounted /\ HoldingsAccounted
  BY <1>1 DEF Init, CashAccounted, HoldingsAccounted, NoSnapshot
<1>3. AccountKept /\ Unopened /\ FlowsKept
  BY <1>1 DEF Init, AccountKept, Unopened, FlowsKept, Expected, NoSnapshot, At, Window
<1> QED BY <1>2, <1>3 DEF MoneyKept

\* Every step keeps the balances.
LEMMA MoneyStep == CycleInv /\ MoneyInv /\ [Next]_vars => MoneyInv'
<1> SUFFICES ASSUME CycleInv, MoneyInv, [Next]_vars, crashes' = 0
             PROVE  MoneyKept'
  BY DEF MoneyInv
<1>1. CASE Crash
  BY <1>1 DEF Crash, CycleInv, RunTypes
<1>2. CASE Next /\ ~Crash
  <2>1. UNCHANGED crashes
    BY <1>2 DEF Next, marks, Transfer, StopFires, WatchSettles, Release, Starts,
       FetchAccount, BuildMarketState, GivesUp, CreateCycle, RecordSnapshot, Screen,
       StartDeciding, Gate, RaiseSafeStop, RecordCashFlow, PlanEntries, RaiseAnomaly,
       CloseCycle, StartOrdering, SellOne, RecordSale, ExitsDone, BuyPlanned,
       RecordPurchase, RecordCycle
  <2>2. MoneyKept
    BY <2>1 DEF MoneyInv
  <2> QED
    BY <1>2, <2>2, OutsideMoney, ReadingMoney, OpeningMoney, JudgingMoney,
       TradingMoney DEF Next
<1>3. CASE UNCHANGED vars
  BY <1>3 DEF vars, kisVars, tables, marks, history, MoneyInv, MoneyKept,
    CashAccounted, HoldingsAccounted, AccountKept, Unopened, FlowsKept, Expected,
    Reading, InFlight, At
<1> QED BY <1>1, <1>2, <1>3

\* The balances hold throughout.
LEMMA MoneyInvariant == Spec => []MoneyInv
  BY MoneyStart, MoneyStep, CycleInvariant, PTL DEF Spec

\* The recorded flows are what people have moved, each transfer once, but for the
\* proceeds of stops that were not booked yet at the last snapshot and the flows of
\* cycles without a watchlist, as long as no cycle has died.
THEOREM FlowsAreRecorded == Spec => []FlowsAreTransfers
<1>1. MoneyInv => FlowsAreTransfers
  BY DEF MoneyInv, MoneyKept, FlowsKept, Expected, FlowsAreTransfers
<1> QED BY <1>1, MoneyInvariant, PTL

\* The baseline of the returns moves by what people have moved, once, with the
\* same two exceptions.
THEOREM BaselineIsMoved == Spec => []BaselineFollowsTransfers
<1>1. MoneyInv => BaselineFollowsTransfers
  BY DEF MoneyInv, MoneyKept, FlowsKept, BaselineFollowsTransfers
<1> QED BY <1>1, MoneyInvariant, PTL

-----------------------------------------------------------------------------
(* Arithmetic of the sizing.                                               *)

\* Floor division never gives more than was divided.
LEMMA DivBound ==
  ASSUME NEW a \in Nat, NEW b \in Nat \ {0}
  PROVE  a \div b \in Nat /\ (a \div b) * b <= a
  BY Z3

\* Products grow with their first factor.
LEMMA ProductMonotone ==
  ASSUME NEW x \in Nat, NEW y \in Nat, NEW k \in Nat, x <= y
  PROVE  x * k \in Nat /\ x * k <= y * k
  BY Z3

\* The equal share of the capital, spent on one order, still fits MaxPositions times.
LEMMA EqualShare ==
  ASSUME NEW capital \in Nat, NEW entry \in Nat \ {0}
  PROVE  /\ EqualWeightQty(capital, entry) \in Nat
         /\ (EqualWeightQty(capital, entry) * entry) * MaxPositions <= capital
<1> DEFINE share == capital \div MaxPositions
           qty   == share \div entry
<1>1. share \in Nat /\ share * MaxPositions <= capital
  BY DivBound, ParamAssumption
<1>2. qty \in Nat /\ qty * entry <= share
  BY <1>1, DivBound
<1>3. qty * entry \in Nat /\ (qty * entry) * MaxPositions <= share * MaxPositions
  <2> HIDE DEF share, qty
  <2>1. qty * entry \in Nat
    BY <1>2
  <2> QED BY <1>1, <1>2, <2>1, ProductMonotone, ParamAssumption
<1>4. (qty * entry) * MaxPositions \in Nat /\ share * MaxPositions \in Nat
  <2> HIDE DEF share, qty
  <2> QED BY <1>1, <1>2, <1>3, ParamAssumption
<1>5. (qty * entry) * MaxPositions <= capital
  <2> HIDE DEF share, qty
  <2> QED BY <1>1, <1>3, <1>4
<1> QED BY <1>2, <1>5 DEF EqualWeightQty

\* A liquidity cap only makes the order smaller.
LEMMA CappedShare ==
  ASSUME NEW capital \in Nat, NEW entry \in Nat \ {0}, NEW cap \in Nat
  PROVE  /\ PositionQty(capital, entry, cap) \in Nat
         /\ (PositionQty(capital, entry, cap) * entry) * MaxPositions <= capital
<1> DEFINE qty  == PositionQty(capital, entry, cap)
           base == EqualWeightQty(capital, entry)
<1>1. base \in Nat /\ (base * entry) * MaxPositions <= capital
  BY EqualShare
<1>2. qty \in Nat /\ qty <= base
  BY <1>1 DEF PositionQty
<1> HIDE DEF qty, base
<1>3. qty * entry \in Nat /\ qty * entry <= base * entry /\ base * entry \in Nat
  BY <1>1, <1>2, ProductMonotone
<1>4. (qty * entry) * MaxPositions <= (base * entry) * MaxPositions
  BY <1>3, ProductMonotone, ParamAssumption
<1>5. (qty * entry) * MaxPositions \in Nat /\ (base * entry) * MaxPositions \in Nat
  BY <1>3, ParamAssumption
<1>6. (qty * entry) * MaxPositions <= capital
  BY <1>1, <1>4, <1>5
<1> QED BY <1>2, <1>6 DEF qty

-----------------------------------------------------------------------------
(* The inductive invariant.                                                *)

\* The slots left are those neither held nor planned.
SlotsCounted ==
  /\ phase = "deciding" => planned = <<>> /\ committed = 0
  /\ phase = "planning" => slots = MaxPositions - Cardinality(account.held) - Len(planned)
  /\ planned # <<>> => /\ slots >= 0
                       /\ slots = MaxPositions - Cardinality(account.held) - Len(planned)

\* A code leaves todo before it is planned, and only a code not held is bought.
CodesApart ==
  /\ \A i \in DOMAIN planned : planned[i].code \notin todo
  /\ \A c \in Codes : orders[c] = "buy" => c \notin account.held

\* Every planned order is within the equal share.
OrdersSized ==
  \A i \in DOMAIN planned :
    (planned[i].qty * planned[i].price) * MaxPositions <= Equity(account)

PlanInv ==
  /\ PlanTypeOK
  /\ SlotsCounted
  /\ CodesApart
  /\ OrdersSized
  /\ ExposureBounded
  /\ NoDoubleEntry
  /\ NeverAnomalous

\* What an account consists of.
LEMMA AccountFacts ==
  ASSUME account \in Accounts
  PROVE  /\ account.held \subseteq Codes
         /\ Cardinality(account.held) \in Nat
         /\ account.cash \in Nat /\ account.heldValue \in Nat
         /\ Equity(account) \in Nat
<1>1. account.held \subseteq Codes /\ account.cash \in Cashes /\ account.heldValue \in HeldValues
  BY DEF Accounts
<1>2. IsFiniteSet(account.held)
  BY <1>1, PlanAssumption, FS_Subset
<1>3. Cardinality(account.held) \in Nat
  BY <1>2, FS_CardinalityType
<1>4. account.cash \in Nat /\ account.heldValue \in Nat
  BY <1>1, PlanAssumption
<1>5. Equity(account) \in Nat
  BY <1>4 DEF Equity
<1> QED BY <1>1, <1>3, <1>4, <1>5

\* The orders are none, so nothing is planned yet.
LEMMA PlanStarts == PlanInit => PlanInv
<1> SUFFICES ASSUME PlanInit PROVE PlanInv
  OBVIOUS
<1> USE DEF PlanInit
<1>1. PlanTypeOK
  BY DEF PlanTypeOK, Actions, PlannedOrders
<1>2. SlotsCounted /\ CodesApart /\ OrdersSized
  BY DEF SlotsCounted, CodesApart, OrdersSized
<1>3. ExposureBounded /\ NoDoubleEntry /\ NeverAnomalous
  BY DEF ExposureBounded, NoDoubleEntry, PlannedCodes, NeverAnomalous
<1> QED BY <1>1, <1>2, <1>3 DEF PlanInv

\* decide proposes a buy only for a stock that is not held.
LEMMA DecisionStep ==
  ASSUME PlanInv,
         NEW scored \in [Codes -> {"belowExit", "between", "aboveEntry"}], NEW b \in BOOLEAN,
         RunDecision(scored, b)
  PROVE  PlanInv'
<1> USE DEF PlanInv, RunDecision
<1>1. /\ orders' \in [Codes -> Actions]
      /\ \A c \in Codes : orders'[c] = "buy" => c \notin account.held
  BY DEF Decided, Actions
<1>2. slots' \in Int
  BY AccountFacts, ParamAssumption DEF PlanTypeOK
<1>3. PlanTypeOK'
  BY <1>1, <1>2 DEF PlanTypeOK
<1>4. planned = <<>> /\ committed = 0
  BY DEF SlotsCounted
<1>5. SlotsCounted'
  BY <1>4, AccountFacts, ParamAssumption DEF SlotsCounted, PlanTypeOK
<1>6. CodesApart' /\ OrdersSized' /\ NoDoubleEntry'
  BY <1>1, <1>4 DEF CodesApart, OrdersSized, NoDoubleEntry, PlannedCodes
<1>7. ExposureBounded' /\ NeverAnomalous'
  BY <1>4 DEF ExposureBounded, NeverAnomalous, Equity
<1> QED BY <1>3, <1>5, <1>6, <1>7

\* A turn that plans nothing only takes the code off the list.
LEMMA IdleTurn ==
  ASSUME PlanInv, NEW c \in Codes, Turn(c),
         UNCHANGED <<slots, committed, planned>>, noTrades' \subseteq Codes
  PROVE  PlanInv'
<1> USE DEF PlanInv, Turn
<1>1. PlanTypeOK'
  BY DEF PlanTypeOK
<1>2. SlotsCounted' /\ CodesApart' /\ OrdersSized'
  BY DEF SlotsCounted, CodesApart, OrdersSized, Equity
<1>3. ExposureBounded' /\ NoDoubleEntry' /\ NeverAnomalous'
  BY DEF ExposureBounded, NoDoubleEntry, PlannedCodes, NeverAnomalous, Equity
<1> QED BY <1>1, <1>2, <1>3

\* An accepted order: the gate bounds what is committed, the share bounds the
\* order, and the code was in todo, so it is new to the plan.
LEMMA AcceptStep ==
  ASSUME PlanInv, NEW c \in Codes, NEW price \in Prices, NEW cap \in Caps,
         NEW stockState \in StockStates, Accept(c, price, cap, stockState)
  PROVE  PlanInv'
<1> DEFINE qty   == PositionQty(Equity(account), price, cap)
           order == [code |-> c, qty |-> qty, price |-> price]
<1>1. price \in Nat \ {0} /\ cap \in Nat
  BY PlanAssumption
<1>2. account \in Accounts /\ Equity(account) \in Nat
  BY AccountFacts DEF PlanInv, PlanTypeOK
<1>3. qty \in Nat /\ (qty * price) * MaxPositions <= Equity(account)
  BY <1>1, <1>2, CappedShare
<1>4. qty > 0 /\ phase = "planning" /\ slots > 0 /\ c \in todo /\ orders[c] = "buy"
  BY DEF Accept, Turn
<1>5. order \in [code : Codes, qty : Nat \ {0}, price : Nat \ {0}]
  BY <1>1, <1>3, <1>4
<1>6. /\ planned \in PlannedOrders
      /\ planned' = Append(planned, order)
      /\ todo' = todo \ {c} /\ slots' = slots - 1
      /\ committed' = committed + qty * price
      /\ UNCHANGED <<phase, account, orders, noTrades>>
  BY DEF PlanInv, PlanTypeOK, Accept, Turn, Enter
<1>7. CheckNewBuy(account, committed + qty * price)
  BY DEF Accept, ScreenOrder
<1> HIDE DEF qty, order
<1>8. qty * price \in Nat
  BY <1>1, <1>3
<1>9. /\ planned' \in PlannedOrders /\ Len(planned') = Len(planned) + 1
      /\ DOMAIN planned' = 1 .. Len(planned) + 1
      /\ \A i \in 1 .. Len(planned) : planned'[i] = planned[i]
      /\ planned'[Len(planned) + 1] = order
      /\ DOMAIN planned = 1 .. Len(planned) /\ Len(planned) \in Nat
  BY <1>5, <1>6 DEF PlannedOrders
<1>10. order.code = c /\ order.qty = qty /\ order.price = price
  BY DEF order
<1>11. PlanTypeOK'
  BY <1>6, <1>8, <1>9 DEF PlanInv, PlanTypeOK
<1>12. SlotsCounted'
  <2>1. slots = MaxPositions - Cardinality(account.held) - Len(planned) /\ slots \in Int
    BY <1>4 DEF PlanInv, PlanTypeOK, SlotsCounted
  <2>2. slots' = MaxPositions - Cardinality(account.held) - (Len(planned) + 1) /\ slots' >= 0
    BY <2>1, <1>2, <1>4, <1>6, <1>9, AccountFacts, ParamAssumption
  <2> QED BY <2>2, <1>4, <1>6, <1>9 DEF SlotsCounted
<1>13. CodesApart'
  BY <1>6, <1>9, <1>10 DEF PlanInv, CodesApart
<1>14. OrdersSized'
  BY <1>3, <1>6, <1>9, <1>10 DEF PlanInv, OrdersSized, Equity
<1>15. ExposureBounded'
  BY <1>6, <1>7 DEF ExposureBounded, CheckNewBuy, Equity
<1>16. NoDoubleEntry'
  <2>1. \A i, j \in DOMAIN planned' : planned'[i].code = planned'[j].code => i = j
    BY <1>4, <1>9, <1>10 DEF PlanInv, NoDoubleEntry, CodesApart
  <2>2. \A i \in DOMAIN planned' : planned'[i].code \notin account.held
    BY <1>4, <1>9, <1>10 DEF PlanInv, NoDoubleEntry, PlannedCodes, CodesApart
  <2> QED BY <2>1, <2>2, <1>6 DEF NoDoubleEntry, PlannedCodes
<1>17. NeverAnomalous'
  BY <1>4, <1>6 DEF NeverAnomalous
<1> QED BY <1>11, <1>12, <1>13, <1>14, <1>15, <1>16, <1>17 DEF PlanInv

\* An order within the equal share is under the single order limit.
LEMMA ShareUnderLimit ==
  ASSUME NEW value \in Nat, NEW equity \in Nat,
         value * MaxPositions <= equity, 100 <= SinglePct * MaxPositions
  PROVE  100 * value <= SinglePct * equity
<1>1. 100 * value <= (SinglePct * MaxPositions) * value
  BY ParamAssumption, ProductMonotone
<1>2. (SinglePct * MaxPositions) * value = SinglePct * (value * MaxPositions)
  BY ParamAssumption, Z3
<1>3. value * MaxPositions \in Nat
  BY ParamAssumption
<1>4. SinglePct * (value * MaxPositions) <= SinglePct * equity
  <2>1. (value * MaxPositions) * SinglePct <= equity * SinglePct
    BY <1>3, ParamAssumption, ProductMonotone
  <2> QED BY <2>1, <1>3, ParamAssumption
<1>5. SinglePct * equity \in Nat /\ SinglePct * (value * MaxPositions) \in Nat
  BY <1>3, ParamAssumption
<1> QED BY <1>1, <1>2, <1>4, <1>5

\* A plan sized by equal weight is never anomalous in an account worth something.
LEMMA PlanNotAnomalous ==
  ASSUME PlanInv, 100 <= SinglePct * MaxPositions, Equity(account) > 0
  PROVE  ~Anomalous(account, planned)
<1>1. Equity(account) \in Nat /\ Cardinality(account.held) \in Nat
  BY AccountFacts DEF PlanInv, PlanTypeOK
<1>2. planned \in PlannedOrders
  BY DEF PlanInv, PlanTypeOK
<1>3. ASSUME NEW i \in DOMAIN planned
      PROVE  ~(100 * planned[i].qty * planned[i].price > SinglePct * Equity(account))
  <2>1. planned[i].qty \in Nat /\ planned[i].price \in Nat
    <3>1. planned[i] \in [code : Codes, qty : Nat \ {0}, price : Nat \ {0}]
      <4>1. DOMAIN planned = 1 .. Len(planned)
        BY <1>2 DEF PlannedOrders
      <4> QED BY <4>1, <1>2, ElementOfSeq DEF PlannedOrders
    <3> QED BY <3>1
  <2> DEFINE q == planned[i].qty
             v == planned[i].price
  <2>2. (q * v) * MaxPositions <= Equity(account)
    BY DEF PlanInv, OrdersSized
  <2> HIDE DEF q, v
  <2>3. q * v \in Nat
    BY <2>1 DEF q, v
  <2>4. 100 * (q * v) <= SinglePct * Equity(account)
    BY <2>2, <2>3, <1>1, ShareUnderLimit
  <2>5. 100 * q * v = 100 * (q * v)
    BY <2>1, Z3 DEF q, v
  <2>6. SinglePct * Equity(account) \in Nat
    BY <1>1, ParamAssumption
  <2> QED BY <2>3, <2>4, <2>5, <2>6 DEF q, v
<1>4. Len(planned) \in Nat /\ Len(planned) <= MaxPositions
  <2>1. Len(planned) \in Nat
    BY <1>2 DEF PlannedOrders
  <2>2. CASE planned = <<>>
    BY <2>2, ParamAssumption
  <2>3. CASE planned # <<>>
    BY <2>1, <2>3, <1>1, ParamAssumption DEF PlanInv, PlanTypeOK, SlotsCounted
  <2> QED BY <2>1, <2>2, <2>3
<1>5. ~(Len(planned) > MaxPositions)
  BY <1>4, ParamAssumption
<1> QED BY <1>1, <1>3, <1>5 DEF Anomalous

\* The end of the walk keeps the plan, or drops it and halts.
LEMMA FinishStep ==
  ASSUME PlanInv, Finish
  PROVE  PlanInv'
<1> USE DEF PlanInv, Finish
<1>1. planned' \in {planned, <<>>} /\ phase' \in {"halted", "recorded"}
  OBVIOUS
<1>2. PlanTypeOK'
  <2>1. planned' \in PlannedOrders
    BY <1>1, EmptySeq DEF PlanTypeOK, PlannedOrders
  <2> QED BY <1>1, <2>1 DEF PlanTypeOK
<1>3. SlotsCounted' /\ CodesApart' /\ OrdersSized'
  BY <1>1 DEF SlotsCounted, CodesApart, OrdersSized, Equity
<1>4. ExposureBounded' /\ NoDoubleEntry'
  BY <1>1 DEF ExposureBounded, NoDoubleEntry, PlannedCodes, Equity
<1>5. NeverAnomalous'
  BY PlanNotAnomalous DEF NeverAnomalous, Equity
<1> QED BY <1>2, <1>3, <1>4, <1>5

-----------------------------------------------------------------------------
(* The theorems.                                                           *)

\* Every step keeps the invariant.
LEMMA PlanStep == PlanInv /\ [PlanNext]_planVars => PlanInv'
<1> SUFFICES ASSUME PlanInv, [PlanNext]_planVars PROVE PlanInv'
  OBVIOUS
<1>1. ASSUME NEW scored \in [Codes -> {"belowExit", "between", "aboveEntry"}],
             NEW b \in BOOLEAN, RunDecision(scored, b)
      PROVE  PlanInv'
  BY <1>1, DecisionStep
<1>2. ASSUME NEW c \in Codes, PassOver(c) PROVE PlanInv'
  BY <1>2, IdleTurn DEF PassOver, PlanInv, PlanTypeOK
<1>3. ASSUME NEW c \in Codes, NEW price \in Prices, NEW cap \in Caps, TooSmall(c, price, cap)
      PROVE  PlanInv'
  BY <1>3, IdleTurn DEF TooSmall, PlanInv, PlanTypeOK
<1>4. ASSUME NEW c \in Codes, NEW price \in Prices, NEW cap \in Caps, NoEdge(c, price, cap)
      PROVE  PlanInv'
  BY <1>4, IdleTurn DEF NoEdge, PlanInv, PlanTypeOK
<1>5. ASSUME NEW c \in Codes, NEW price \in Prices, NEW cap \in Caps,
             NEW stockState \in StockStates, Refused(c, price, cap, stockState)
      PROVE  PlanInv'
  BY <1>5, IdleTurn DEF Refused, PlanInv, PlanTypeOK
<1>6. ASSUME NEW c \in Codes, NEW price \in Prices, NEW cap \in Caps,
             NEW stockState \in StockStates, Accept(c, price, cap, stockState)
      PROVE  PlanInv'
  BY <1>6, AcceptStep
<1>7. CASE Finish
  BY <1>7, FinishStep
<1>8. CASE UNCHANGED planVars
  <2>1. PlanTypeOK' /\ SlotsCounted' /\ CodesApart' /\ OrdersSized'
    BY <1>8 DEF planVars, PlanInv, PlanTypeOK, SlotsCounted, CodesApart, OrdersSized, Equity
  <2>2. ExposureBounded' /\ NoDoubleEntry' /\ NeverAnomalous'
    BY <1>8 DEF planVars, PlanInv, ExposureBounded, NoDoubleEntry, PlannedCodes, NeverAnomalous, Equity
  <2> QED BY <2>1, <2>2 DEF PlanInv
<1> QED BY <1>1, <1>2, <1>3, <1>4, <1>5, <1>6, <1>7, <1>8 DEF PlanNext, Consider

\* The inductive invariant holds in every state of every plan.
THEOREM PlanInvariant == PlanSpec => []PlanInv
<1> QED BY PlanStarts, PlanStep, PTL DEF PlanSpec

\* Type correctness of the plan (_plan_entries never produces an empty order).
THEOREM PlanTypes == PlanSpec => []PlanTypeOK
<1>1. PlanInv => PlanTypeOK
  BY DEF PlanInv
<1> QED BY <1>1, PlanInvariant, PTL

\* The gross exposure limit holds for the plan as a whole, although check_new_buy
\* looks at one order at a time.
THEOREM ExposureIsBounded == PlanSpec => []ExposureBounded
<1>1. PlanInv => ExposureBounded
  BY DEF PlanInv
<1> QED BY <1>1, PlanInvariant, PTL

\* Held and planned stocks together never exceed max_positions.
THEOREM SlotsAreBounded == PlanSpec => []SlotsBounded
<1>1. PlanInv => SlotsBounded
  <2> SUFFICES ASSUME PlanInv, planned # <<>>
               PROVE  Cardinality(account.held) + Len(planned) <= MaxPositions
    BY DEF SlotsBounded
  <2>1. Cardinality(account.held) \in Nat /\ Len(planned) \in Nat
    BY AccountFacts DEF PlanInv, PlanTypeOK, PlannedOrders
  <2> QED BY <2>1, ParamAssumption DEF PlanInv, PlanTypeOK, SlotsCounted
<1> QED BY <1>1, PlanInvariant, PTL

\* No stock is bought twice in a cycle, nor one that is held.
THEOREM EntriesAreNew == PlanSpec => []NoDoubleEntry
<1>1. PlanInv => NoDoubleEntry
  BY DEF PlanInv
<1> QED BY <1>1, PlanInvariant, PTL

\* detect_anomaly never stops the trading on a plan made by the equal weight
\* sizing, whenever single_order_pct allows one share of max_positions.
THEOREM PlanIsNeverAnomalous == PlanSpec => []NeverAnomalous
<1>1. PlanInv => NeverAnomalous
  BY DEF PlanInv
<1> QED BY <1>1, PlanInvariant, PTL
=============================================================================
