------------------------------ MODULE CashFlow ------------------------------
(***************************************************************************)
(* What becomes of money that no trade explains (ops/cashflow.py, the cash *)
(* reconciliation of pipeline/cycle.py, cash_flows and account_snapshots   *)
(* of memory/journal.py): small differences are absorbed, larger ones are  *)
(* recorded, people label the rows or add what was not detected, and every *)
(* snapshot sums the rows again to move the baseline of the returns.       *)
(*                                                                         *)
(* Trades are left out: a recorded fill changes the expected cash as it    *)
(* changes the cash (CycleRun has them).  The kinds that are no external   *)
(* flow, dividend, interest, taxRefund and fee, are one: fee.  Alerts are  *)
(* left out.                                                               *)
(*                                                                         *)
(* History variables: unseen is what has happened to the cash since the    *)
(* account was last read, moved what people have transferred in all, noise *)
(* the size of all rounding, untold the transfers no row tells of.         *)
(***************************************************************************)
EXTENDS Integers, Sequences, Functions

CONSTANTS
  Opening,         \* cash at the start
  Held,            \* value of the holdings
  Transfers, Incomes, Noises,   \* amounts that may come or go
  AbsorbMin,       \* ABSORB_MIN_KRW
  AbsorbBp,        \* ABSORB_EQUITY_RATIO, in basis points
  AbsorbMaxBp,     \* ABSORB_MAX_EQUITY_RATIO, in basis points
  SignatureDeposit, SignatureWithdrawal, SignatureModulus,
  MaxEvents, MaxSnapshots, MaxEdits   \* bounds: what happens, cycles, commands of people

ASSUME FlowAssumption ==
  /\ Opening \in Nat /\ Held \in Nat
  /\ Transfers \subseteq Int /\ Incomes \subseteq Int /\ Noises \subseteq Int
  /\ AbsorbMin \in Nat /\ AbsorbBp \in Nat /\ AbsorbMaxBp \in Nat
  /\ SignatureDeposit \in Nat /\ SignatureWithdrawal \in Nat /\ SignatureModulus \in Nat \ {0}

VARIABLES
  observation, signature,   \* the two settings
  cash,        \* at KIS
  snap,        \* the last account snapshot, NoSnapshot if there is none
  rows,        \* cash_flows
  recon,       \* the reconciliation a cycle has still to record, NoRecon if none
  first,       \* history: cumulative_net_flow of the first snapshot
  shifted,     \* history: sum of net_flow_since_base over the snapshots
  edited,      \* history: rows have changed, or one was lost, since the last snapshot
  unseen, moved, noise, untold,
  events, snapshots, edits

settings == <<observation, signature>>
counters == <<events, snapshots, edits>>
history == <<first, shifted, edited, unseen, moved, noise, untold>>
vars == <<settings, cash, snap, rows, recon, history, counters>>

Kinds == {"deposit", "withdrawal", "fee", "unknown"}
ExternalKinds == {"deposit", "withdrawal", "unknown"}

NoSnapshot == [taken |-> FALSE, amount |-> 0, cum |-> 0]

\* residual: the difference; about, part: history, what it consists of.
Recon(resolution, residual, about, part) ==
  [resolution |-> resolution, residual |-> residual, about |-> about, part |-> part]

Resolution(record, absorbed, kind, source) ==
  [record |-> record, absorbed |-> absorbed, kind |-> kind, source |-> source]

NoResolution == Resolution(FALSE, TRUE, "none", "none")
NoRecon == Recon(NoResolution, 0, "nothing", 0)
Nothing == [all |-> 0, about |-> "nothing", part |-> 0]

AbsOf(n) == IF n < 0 THEN -n ELSE n
SmallerOf(a, b) == IF a < b THEN a ELSE b
LargerOf(a, b) == IF a < b THEN b ELSE a

Init ==
  /\ observation \in BOOLEAN /\ signature \in BOOLEAN
  /\ cash = Opening
  /\ snap = NoSnapshot
  /\ rows = <<>>
  /\ recon = NoRecon
  /\ first = 0 /\ shifted = 0 /\ edited = FALSE
  /\ unseen = [all |-> Opening, about |-> "transfer", part |-> Opening]
  /\ moved = Opening /\ noise = 0 /\ untold = 0
  /\ events = 0 /\ snapshots = 0 /\ edits = 0

-----------------------------------------------------------------------------
(* classify_residual.  Money is compared in ten thousandths.               *)

AbsorbThreshold(equity) ==
  SmallerOf(LargerOf(10000 * AbsorbMin, AbsOf(equity) * AbsorbBp), AbsOf(equity) * AbsorbMaxBp)

\* Mutant of SignatureKind: the direction is not looked at.
SignatureKindUnsigned(amount) ==
  LET tail == AbsOf(amount) % SignatureModulus
  IN CASE tail = SignatureDeposit    -> "deposit"
       [] tail = SignatureWithdrawal -> "withdrawal"
       [] OTHER                      -> "none"

SignatureKind(amount) ==
  LET tail == AbsOf(amount) % SignatureModulus
  IN CASE tail = SignatureDeposit /\ amount > 0    -> "deposit"
       [] tail = SignatureWithdrawal /\ amount < 0 -> "withdrawal"
       [] OTHER                                    -> "none"

ClassifyResidual(residual, equity) ==
  IF residual = 0 THEN Resolution(FALSE, TRUE, "fee", "residual")
  ELSE IF 10000 * AbsOf(residual) < AbsorbThreshold(equity)
       THEN Resolution(observation, TRUE, "fee", "residual")
  ELSE IF signature /\ SignatureKind(residual) # "none"
       THEN Resolution(TRUE, FALSE, SignatureKind(residual), "signature")
  ELSE Resolution(TRUE, FALSE, "unknown", "residual")

ShiftsBaseline(resolution) == ~resolution.absorbed /\ resolution.kind \in ExternalKinds

-----------------------------------------------------------------------------
(* cash_flows.                                                             *)

\* about: history, what the row is about.
Row(kind, amount, status, about) ==
  [kind |-> kind, amount |-> amount, status |-> status, about |-> about]

RecordCashFlow(kind, amount, status, about) ==
  rows' = Append(rows, Row(kind, amount, status, about))

\* sum_flows_since from the beginning: cumulative_net_flow.
External(flows) == {i \in DOMAIN flows : flows[i].kind \in ExternalKinds}
NetFlowOf(flows) == SumFunction([i \in External(flows) |-> flows[i].amount])

-----------------------------------------------------------------------------
(* Money comes and goes.                                                   *)

Join(about, other) ==
  IF about \in {"nothing", "noise"} THEN other
  ELSE IF other \in {"noise", about} THEN about
  ELSE "mixed"

Happens(amount, about, part) ==
  /\ events < MaxEvents /\ cash + amount >= 0
  /\ events' = events + 1
  /\ cash' = cash + amount
  /\ unseen' = [all |-> unseen.all + amount, about |-> Join(unseen.about, about),
                part |-> unseen.part + part]
  /\ UNCHANGED <<settings, snap, rows, recon, first, shifted, edited, untold, snapshots, edits>>

Transfer(amount) == Happens(amount, "transfer", amount) /\ moved' = moved + amount /\ noise' = noise
EarnIncome(amount) == Happens(amount, "income", 0) /\ UNCHANGED <<moved, noise>>
Rounding(amount) ==
  Happens(amount, "noise", 0) /\ noise' = noise + AbsOf(amount) /\ moved' = moved

-----------------------------------------------------------------------------
(* The cycle: the snapshot first, the row afterwards, in two commits.      *)

Residual == IF snap.taken THEN cash - snap.amount ELSE 0

\* There is nothing to compare with the first time.
Reconciled ==
  Recon(IF snap.taken THEN ClassifyResidual(Residual, cash + Held) ELSE NoResolution,
        Residual, unseen.about, unseen.part)

\* Mutant of SyncedCash: what was absorbed stays expected.
SyncedCashIfShifted(r) == IF ShiftsBaseline(r.resolution) THEN cash ELSE cash - r.residual

\* What is absorbed is not expected any more either.
SyncedCash(r) == cash

\* Mutant of Cumulative: the increments are added up, and manual rows forgotten.
CumulativeByIncrements(r) ==
  snap.cum + IF ShiftsBaseline(r.resolution) THEN r.residual ELSE 0

\* The rows are summed anew at each snapshot, with the flow that is not a row yet.
Cumulative(r) ==
  NetFlowOf(rows) + IF ShiftsBaseline(r.resolution) THEN r.residual ELSE 0

RecordAccountSnapshot ==
  /\ recon = NoRecon /\ snapshots < MaxSnapshots
  /\ LET r    == Reconciled
         flow == IF snap.taken THEN Cumulative(r) - snap.cum ELSE 0
     IN  /\ recon' = IF r.resolution.record THEN r ELSE NoRecon
         /\ snap' = [taken |-> TRUE, amount |-> SyncedCash(r), cum |-> Cumulative(r)]
         /\ first' = IF snap.taken THEN first ELSE Cumulative(r)
         /\ shifted' = shifted + flow
         /\ untold' = IF r.resolution.record THEN untold ELSE untold + r.part
  /\ unseen' = Nothing /\ edited' = FALSE
  /\ snapshots' = snapshots + 1
  /\ UNCHANGED <<settings, cash, rows, moved, noise, events, edits>>

RecordDetectedFlow ==
  /\ recon # NoRecon
  /\ RecordCashFlow(recon.resolution.kind, recon.residual,
                    IF recon.resolution.source = "signature" THEN "confirmed" ELSE "unconfirmed",
                    recon.about)
  /\ recon' = NoRecon
  /\ UNCHANGED <<settings, cash, snap, history, counters>>

\* The cycle dies before the row, or has no watchlist and never writes it.
LoseFlow ==
  /\ recon # NoRecon
  /\ recon' = NoRecon
  /\ edited' = TRUE /\ untold' = untold + recon.part
  /\ UNCHANGED <<settings, cash, snap, rows, first, shifted, unseen, moved, noise, counters>>

-----------------------------------------------------------------------------
(* People: python -m ops.cashflow, at any time, between any two commits.   *)

ConfirmCashFlow(i, kind) ==
  /\ edits < MaxEdits /\ i \in DOMAIN rows
  /\ edits' = edits + 1 /\ edited' = TRUE
  /\ rows' = [rows EXCEPT ![i] = Row(kind, @.amount,
                 IF @.status = "unconfirmed" THEN "confirmed" ELSE "reclassified", @.about)]
  /\ UNCHANGED <<settings, cash, snap, recon, first, shifted, unseen, moved, noise, untold,
                 events, snapshots>>

\* A deposit below zero and a withdrawal above are refused.  People add what is
\* told by no row, not what a cycle is about to detect.
AddCashFlow(kind, amount) ==
  /\ edits < MaxEdits /\ amount # 0 /\ amount = untold
  /\ ((kind = "deposit") # (amount > 0)) => kind \notin {"deposit", "withdrawal"}
  /\ edits' = edits + 1 /\ edited' = TRUE
  /\ RecordCashFlow(kind, amount, "confirmed", "transfer")
  /\ untold' = 0
  /\ UNCHANGED <<settings, cash, snap, recon, first, shifted, unseen, moved, noise,
                 events, snapshots>>

Next ==
  \/ \E amount \in Transfers : Transfer(amount)
  \/ \E amount \in Incomes : EarnIncome(amount)
  \/ \E amount \in Noises : Rounding(amount)
  \/ RecordAccountSnapshot \/ RecordDetectedFlow \/ LoseFlow
  \/ \E i \in DOMAIN rows, kind \in Kinds : ConfirmCashFlow(i, kind)
  \/ \E kind \in Kinds : AddCashFlow(kind, untold)

Spec == Init /\ [][Next]_vars

-----------------------------------------------------------------------------
(* Properties.                                                             *)

\* The state is well typed; a row the machine has confirmed by its amount goes
\* the way its kind says.
FlowTypeOK ==
  /\ cash \in Nat /\ edited \in BOOLEAN
  /\ snap.taken \in BOOLEAN /\ snap.amount \in Int /\ snap.cum \in Int
  /\ recon.residual \in Int /\ recon.resolution.kind \in Kinds \cup {"none"}
  /\ \A i \in DOMAIN rows :
       /\ rows[i].kind \in Kinds /\ rows[i].amount \in Int \ {0}
       /\ rows[i].status \in {"unconfirmed", "confirmed", "reclassified"}
  /\ recon.resolution.source = "signature" =>
       (recon.resolution.kind = "deposit") = (recon.residual > 0)

RightlyLabelled(r) ==
  /\ r.about # "mixed"
  /\ r.about = "transfer" <=> r.kind \in ExternalKinds

Settled == recon = NoRecon /\ unseen = Nothing

\* The checksum of docs/07-data-model.md: once every row is labelled for what it
\* is and nothing is left untold, the total asset less the sum of the external
\* flows is the profit, up to the rounding.  However many small differences were
\* absorbed, they never come back as a transfer, and no transfer counts twice.
ChecksumHolds ==
  Settled /\ untold = 0 /\ (\A i \in DOMAIN rows : RightlyLabelled(rows[i]))
    => AbsOf(NetFlowOf(rows) - moved) <= noise

\* The baseline of the returns is moved by what the rows say now: rows added by
\* hand, labels changed later and rows lost by a dead cycle are caught up with by
\* the next snapshot, and nothing is counted twice (record_account_snapshot).
BaselineFollowsLabels ==
  snap.taken /\ recon = NoRecon /\ ~edited
    => snap.cum = NetFlowOf(rows) /\ shifted = snap.cum - first
=============================================================================
