--------------------------- MODULE CashFlowProofs ---------------------------
(***************************************************************************)
(* Proofs about the money no trade explains, for any amounts, thresholds   *)
(* and signatures, and any number of events, cycles and commands.          *)
(***************************************************************************)
EXTENDS CashFlow, SequenceTheorems, SumTheorems, TLAPS

Statuses == {"unconfirmed", "confirmed", "reclassified"}
Abouts == {"nothing", "noise", "income", "transfer", "mixed"}

Rows == [kind : Kinds, amount : Int \ {0}, status : Statuses, about : Abouts]

FlowTypes ==
  /\ cash \in Nat /\ rows \in Seq(Rows)
  /\ snap.amount \in Int /\ snap.cum \in Int
  /\ recon.residual \in Int /\ recon.part \in Int /\ recon.about \in Abouts
  /\ unseen.all \in Int /\ unseen.part \in Int /\ unseen.about \in Abouts
  /\ moved \in Int /\ noise \in Int /\ untold \in Int
  /\ first \in Int /\ shifted \in Int

Flags == {edited, snap.taken} \subseteq BOOLEAN

\* What a cycle has still to record: an amount, of a kind that tells whether it
\* has moved the baseline, and in the direction its signature says.
ReconKept ==
  /\ recon.resolution.kind \in Kinds \cup {"none"}
  /\ recon # NoRecon =>
       /\ recon.residual # 0 /\ recon.resolution.kind \in Kinds
       /\ recon.resolution.kind \in ExternalKinds <=> ShiftsBaseline(recon.resolution)
  /\ recon.resolution.source = "signature" =>
       ((recon.resolution.kind = "deposit") <=> (recon.residual > 0))

\* The next cycle will find what has happened since the last one.
ExpectedKept ==
  /\ snap.taken => cash - snap.amount = unseen.all
  /\ ~snap.taken => recon = NoRecon

\* The baseline is moved by the rows and by the row to be written.
Pending == IF ShiftsBaseline(recon.resolution) THEN recon.residual ELSE 0

BaselineKept ==
  /\ ~snap.taken => shifted = 0
  /\ snap.taken => shifted = snap.cum - first
  /\ snap.taken /\ ~edited => snap.cum = NetFlowOf(rows) + Pending

\* What people have moved is in part of what an amount is about.
PartOf(about, all, part) ==
  /\ about \in {"nothing", "noise", "income"} => part = 0
  /\ about = "nothing" => all = 0

\* What of an amount that is told as a transfer would be rounding.
Slack(about, all, part) ==
  IF about \in {"nothing", "noise", "transfer"} THEN AbsOf(all - part) ELSE 0

Amounts(flows) == [i \in DOMAIN flows |-> flows[i].amount]
OfTransfers(flows) == {i \in DOMAIN flows : flows[i].about = "transfer"}
Told(flows) == SumFunctionOnSet(Amounts(flows), OfTransfers(flows))

\* The transfers told by a row, about to be, not read yet or told by nobody are all
\* there are, up to the rounding; and the rounding that may still come into a row is
\* counted in.
TransfersKept ==
  /\ PartOf(unseen.about, unseen.all, unseen.part)
  /\ PartOf(recon.about, recon.residual, recon.part)
  /\ (\A i \in DOMAIN rows : rows[i].about # "mixed") =>
       AbsOf(Told(rows) + recon.part + unseen.part + untold - moved)
         + Slack(unseen.about, unseen.all, unseen.part)
         + Slack(recon.about, recon.residual, recon.part) <= noise

FlowInv ==
  FlowTypes /\ Flags /\ ReconKept /\ ExpectedKept /\ BaselineKept /\ TransfersKept

-----------------------------------------------------------------------------
(* Sums over the rows.                                                     *)

\* The indices of the rows are finitely many.
LEMMA FewRows ==
  ASSUME NEW flows \in Seq(Rows)
  PROVE  /\ DOMAIN flows = 1 .. Len(flows) /\ Len(flows) \in Nat
         /\ IsFiniteSet(External(flows)) /\ IsFiniteSet(OfTransfers(flows))
         /\ \A i \in DOMAIN flows : flows[i] \in Rows /\ Amounts(flows)[i] \in Int
<1>1. DOMAIN flows = 1 .. Len(flows) /\ Len(flows) \in Nat
  OBVIOUS
<1>2. IsFiniteSet(DOMAIN flows)
  BY <1>1, FS_Interval
<1>3. IsFiniteSet(External(flows)) /\ IsFiniteSet(OfTransfers(flows))
  BY <1>2, FS_Subset DEF External, OfTransfers
<1>4. \A i \in DOMAIN flows : flows[i] \in Rows
  OBVIOUS
<1>5. \A i \in DOMAIN flows : Amounts(flows)[i] \in Int
  BY <1>4 DEF Amounts, Rows
<1> QED BY <1>1, <1>3, <1>4, <1>5

\* The net flow as a sum of the amounts.
LEMMA NetFlowIs ==
  ASSUME NEW flows \in Seq(Rows)
  PROVE  /\ NetFlowOf(flows) = SumFunctionOnSet(Amounts(flows), External(flows))
         /\ NetFlowOf(flows) \in Int /\ Told(flows) \in Int
<1> DEFINE f == [i \in External(flows) |-> flows[i].amount]
<1>1. NetFlowOf(flows) = SumFunctionOnSet(f, External(flows))
  BY DEF NetFlowOf, SumFunction
<1>2. \A i \in External(flows) : f[i] = Amounts(flows)[i] /\ Amounts(flows)[i] \in Int
  BY FewRows DEF External, Amounts
<1>3. \A i \in OfTransfers(flows) : Amounts(flows)[i] \in Int
  BY FewRows DEF OfTransfers
<1> HIDE DEF f
<1>4. IsFiniteSet(External(flows)) /\ IsFiniteSet(OfTransfers(flows))
  BY FewRows
<1>5. NetFlowOf(flows) = SumFunctionOnSet(Amounts(flows), External(flows))
  BY <1>1, <1>2, <1>4, SumSame
<1> QED BY <1>2, <1>3, <1>4, <1>5, SumInt DEF Told

\* A row is added.
LEMMA RowAdded ==
  ASSUME NEW flows \in Seq(Rows), NEW r \in Rows, NEW new, new = Append(flows, r)
  PROVE  /\ new \in Seq(Rows)
         /\ NetFlowOf(new) = NetFlowOf(flows) + (IF r.kind \in ExternalKinds THEN r.amount ELSE 0)
         /\ Told(new) = Told(flows) + (IF r.about = "transfer" THEN r.amount ELSE 0)
         /\ (\A i \in DOMAIN new : new[i].about # "mixed") =>
              r.about # "mixed" /\ \A i \in DOMAIN flows : flows[i].about # "mixed"
<1> DEFINE n == Len(flows) + 1
           f == Amounts(flows)
           g == Amounts(new)
<1>1. /\ new \in Seq(Rows) /\ DOMAIN new = 1 .. n /\ DOMAIN flows = 1 .. n - 1
      /\ new[n] = r /\ \A i \in DOMAIN flows : new[i] = flows[i]
      /\ n \in DOMAIN new /\ n \notin DOMAIN flows /\ DOMAIN flows \subseteq DOMAIN new
      /\ DOMAIN new = DOMAIN flows \cup {n}
  BY FewRows
<1> HIDE DEF n
<1>2. g[n] = r.amount /\ \A i \in DOMAIN flows : g[i] = f[i]
  BY <1>1 DEF Amounts
<1>3. /\ \A i \in DOMAIN flows : f[i] \in Int
      /\ \A i \in DOMAIN new : g[i] \in Int
      /\ IsFiniteSet(External(flows)) /\ IsFiniteSet(OfTransfers(flows))
  BY <1>1, FewRows
<1>4. /\ External(flows) \subseteq DOMAIN flows /\ External(new) \subseteq DOMAIN new
      /\ OfTransfers(flows) \subseteq DOMAIN flows /\ OfTransfers(new) \subseteq DOMAIN new
  BY DEF External, OfTransfers
<1>5. /\ External(flows) \ {n} = External(new) \ {n} /\ n \notin External(flows)
      /\ n \in External(new) <=> r.kind \in ExternalKinds
  BY <1>1 DEF External
<1>6. /\ OfTransfers(flows) \ {n} = OfTransfers(new) \ {n} /\ n \notin OfTransfers(flows)
      /\ n \in OfTransfers(new) <=> r.about = "transfer"
  BY <1>1 DEF OfTransfers
<1> HIDE DEF f, g
<1>7. SumFunctionOnSet(g, External(new)) =
        SumFunctionOnSet(f, External(flows)) + (IF r.kind \in ExternalKinds THEN r.amount ELSE 0)
  <2> DEFINE S == External(flows)
             T == External(new)
  <2>1. /\ IsFiniteSet(S) /\ S \ {n} = T \ {n} /\ n \notin S
        /\ \A i \in S : f[i] \in Int
        /\ \A i \in T : g[i] \in Int
        /\ \A i \in S \ {n} : f[i] = g[i]
    BY <1>2, <1>3, <1>4, <1>5
  <2>2. (IF n \in T THEN g[n] ELSE 0) = IF r.kind \in ExternalKinds THEN r.amount ELSE 0
    BY <1>2, <1>5
  <2> HIDE DEF S, T
  <2>3. /\ SumFunctionOnSet(f, S) \in Int
        /\ SumFunctionOnSet(g, T) =
             SumFunctionOnSet(f, S) - (IF n \in S THEN f[n] ELSE 0) + (IF n \in T THEN g[n] ELSE 0)
    BY <2>1, SumChange
  <2>4. SumFunctionOnSet(g, T) = SumFunctionOnSet(f, S) + (IF n \in T THEN g[n] ELSE 0)
    BY <2>1, <2>3
  <2> QED BY <2>2, <2>4 DEF S, T
<1>8. SumFunctionOnSet(g, OfTransfers(new)) =
        SumFunctionOnSet(f, OfTransfers(flows)) + (IF r.about = "transfer" THEN r.amount ELSE 0)
  <2> DEFINE S == OfTransfers(flows)
             T == OfTransfers(new)
  <2>1. /\ IsFiniteSet(S) /\ S \ {n} = T \ {n} /\ n \notin S
        /\ \A i \in S : f[i] \in Int
        /\ \A i \in T : g[i] \in Int
        /\ \A i \in S \ {n} : f[i] = g[i]
    BY <1>2, <1>3, <1>4, <1>6
  <2>2. (IF n \in T THEN g[n] ELSE 0) = IF r.about = "transfer" THEN r.amount ELSE 0
    BY <1>2, <1>6
  <2> HIDE DEF S, T
  <2>3. /\ SumFunctionOnSet(f, S) \in Int
        /\ SumFunctionOnSet(g, T) =
             SumFunctionOnSet(f, S) - (IF n \in S THEN f[n] ELSE 0) + (IF n \in T THEN g[n] ELSE 0)
    BY <2>1, SumChange
  <2>4. SumFunctionOnSet(g, T) = SumFunctionOnSet(f, S) + (IF n \in T THEN g[n] ELSE 0)
    BY <2>1, <2>3
  <2> QED BY <2>2, <2>4 DEF S, T
<1>9. (\A i \in DOMAIN new : new[i].about # "mixed") =>
         r.about # "mixed" /\ \A i \in DOMAIN flows : flows[i].about # "mixed"
  BY <1>1
<1> QED BY <1>1, <1>7, <1>8, <1>9, NetFlowIs DEF f, g, Told

\* A row is given another label: it tells of the same money.
LEMMA RowRelabelled ==
  ASSUME NEW flows \in Seq(Rows), NEW i \in DOMAIN flows, NEW r \in Rows,
         r.amount = flows[i].amount, r.about = flows[i].about,
         NEW new, new = [flows EXCEPT ![i] = r]
  PROVE  /\ new \in Seq(Rows) /\ Told(new) = Told(flows)
         /\ (\A j \in DOMAIN new : new[j].about # "mixed") =>
              \A j \in DOMAIN flows : flows[j].about # "mixed"
<1>1. /\ new \in Seq(Rows) /\ DOMAIN new = DOMAIN flows
      /\ \A j \in DOMAIN flows : new[j] = IF j = i THEN r ELSE flows[j]
  OBVIOUS
<1>2. OfTransfers(new) = OfTransfers(flows)
  BY <1>1 DEF OfTransfers
<1>3. \A j \in OfTransfers(flows) : Amounts(flows)[j] = Amounts(new)[j]
  BY <1>1 DEF OfTransfers, Amounts
<1>4. IsFiniteSet(OfTransfers(flows))
  BY FewRows
<1>5. Told(new) = Told(flows)
  <2> DEFINE S == OfTransfers(flows)
             f == Amounts(flows)
             g == Amounts(new)
  <2> HIDE DEF S, f, g
  <2>1. IsFiniteSet(S) /\ \A j \in S : f[j] = g[j]
    BY <1>3, <1>4 DEF S, f, g
  <2>2. SumFunctionOnSet(f, S) = SumFunctionOnSet(g, S)
    BY <2>1, SumSame
  <2> QED BY <1>2, <2>2 DEF S, f, g, Told
<1>6. \A j \in DOMAIN flows : new[j].about = flows[j].about
  BY <1>1
<1> QED BY <1>1, <1>5, <1>6

-----------------------------------------------------------------------------
(* Amounts, and what they are about.                                       *)

\* The size of a number.
LEMMA AbsIs ==
  ASSUME NEW n \in Int
  PROVE  AbsOf(n) \in Nat /\ AbsOf(n) >= n /\ AbsOf(n) >= -n /\ (n = 0 => AbsOf(n) = 0)
BY DEF AbsOf

\* Two amounts put together are no further from zero than one after the other.
LEMMA AbsOfSum ==
  ASSUME NEW m \in Int, NEW n \in Int
  PROVE  AbsOf(m + n) <= AbsOf(m) + AbsOf(n)
BY DEF AbsOf

\* Slack is a size.
LEMMA SlackNat ==
  ASSUME NEW about, NEW all \in Int, NEW part \in Int
  PROVE  Slack(about, all, part) \in Nat
<1>1. AbsOf(all - part) \in Nat
  BY AbsIs
<1> QED BY <1>1 DEF Slack

\* Something more happens to the cash before it is read.
LEMMA JoinKeeps ==
  ASSUME NEW about \in Abouts, NEW all \in Int, NEW part \in Int, PartOf(about, all, part),
         NEW other \in {"transfer", "income", "noise"}, NEW amount \in Int
  PROVE  LET now   == Join(about, other)
             moves == IF other = "transfer" THEN amount ELSE 0
             round == IF other = "noise" THEN AbsOf(amount) ELSE 0
         IN  /\ now \in Abouts
             /\ PartOf(now, all + amount, part + moves)
             /\ Slack(now, all + amount, part + moves) <= Slack(about, all, part) + round
<1> DEFINE now == Join(about, other)
           moves == IF other = "transfer" THEN amount ELSE 0
           round == IF other = "noise" THEN AbsOf(amount) ELSE 0
<1>1. now \in Abouts
  BY DEF Join, Abouts
<1>2. PartOf(now, all + amount, part + moves)
  <2>1. CASE other = "transfer"
    BY <2>1 DEF Join, Abouts, PartOf
  <2>2. CASE other = "income"
    BY <2>2 DEF Join, Abouts, PartOf
  <2>3. CASE other = "noise"
    BY <2>3 DEF Join, Abouts, PartOf
  <2> QED BY <2>1, <2>2, <2>3
<1>3. Slack(now, all + amount, part + moves) <= Slack(about, all, part) + round
  <2>0. Slack(about, all, part) \in Nat
    BY SlackNat
  <2>1. CASE other = "transfer"
    <3>1. CASE about \in {"nothing", "noise", "transfer"}
      <4>1. now = "transfer" /\ (all + amount) - (part + moves) = all - part /\ round = 0
        BY <2>1, <3>1 DEF Join
      <4>2. Slack(now, all + amount, part + moves) = AbsOf(all - part)
        BY <4>1 DEF Slack
      <4> QED BY <2>0, <3>1, <4>1, <4>2 DEF Slack
    <3>2. CASE about \in {"income", "mixed"}
      BY <2>0, <2>1, <3>2 DEF Join, Slack
    <3> QED BY <3>1, <3>2 DEF Abouts
  <2>2. CASE other = "income"
    <3>1. now \in {"income", "mixed"} /\ round = 0
      BY <2>2 DEF Join, Abouts
    <3> QED BY <2>0, <3>1 DEF Slack
  <2>3. CASE other = "noise"
    <3>1. now = IF about = "nothing" THEN "noise" ELSE about
      BY <2>3 DEF Join, Abouts
    <3>2. round = AbsOf(amount) /\ moves = 0 /\ AbsOf(amount) \in Nat
      BY <2>3, AbsIs
    <3>3. CASE about \in {"nothing", "noise", "transfer"}
      <4>1. Slack(now, all + amount, part + moves) = AbsOf((all - part) + amount)
        BY <3>1, <3>2, <3>3 DEF Slack
      <4>2. AbsOf((all - part) + amount) <= AbsOf(all - part) + AbsOf(amount)
        BY AbsOfSum
      <4> QED BY <3>2, <3>3, <4>1, <4>2 DEF Slack
    <3>4. CASE about \in {"income", "mixed"}
      BY <2>0, <3>1, <3>2, <3>4 DEF Slack
    <3> QED BY <3>3, <3>4 DEF Abouts
  <2> QED BY <2>1, <2>2, <2>3
<1> QED BY <1>1, <1>2, <1>3

\* What the classification says hangs together.
LEMMA ClassifyIs ==
  ASSUME NEW residual \in Int, NEW equity
  PROVE  LET res == ClassifyResidual(residual, equity)
         IN  /\ res.kind \in Kinds
             /\ res.kind \in ExternalKinds <=> ShiftsBaseline(res)
             /\ ShiftsBaseline(res) => res.record
             /\ res.record => residual # 0
             /\ res.source = "signature" => ((res.kind = "deposit") <=> (residual > 0))
<1> DEFINE res == ClassifyResidual(residual, equity)
           small == 10000 * AbsOf(residual) < AbsorbThreshold(equity)
           signed == signature /\ SignatureKind(residual) # "none"
<1>0. res = IF residual = 0 THEN Resolution(FALSE, TRUE, "fee", "residual")
             ELSE IF small THEN Resolution(observation, TRUE, "fee", "residual")
             ELSE IF signed THEN Resolution(TRUE, FALSE, SignatureKind(residual), "signature")
             ELSE Resolution(TRUE, FALSE, "unknown", "residual")
  BY DEF ClassifyResidual
<1> HIDE DEF small, signed, res
<1>1. CASE residual = 0
  <2>1. res = Resolution(FALSE, TRUE, "fee", "residual")
    BY <1>0, <1>1
  <2> QED BY <2>1 DEF res, Resolution, ShiftsBaseline, Kinds, ExternalKinds
<1>2. CASE residual # 0 /\ small
  <2>1. res = Resolution(observation, TRUE, "fee", "residual")
    BY <1>0, <1>2
  <2> QED BY <1>2, <2>1 DEF res, Resolution, ShiftsBaseline, Kinds, ExternalKinds
<1>3. CASE residual # 0 /\ ~small /\ signed
  <2>1. res = Resolution(TRUE, FALSE, SignatureKind(residual), "signature")
    BY <1>0, <1>3
  <2>2. \/ SignatureKind(residual) = "deposit" /\ residual > 0
        \/ SignatureKind(residual) = "withdrawal" /\ residual < 0
    BY <1>3 DEF SignatureKind, signed
  <2>3. SignatureKind(residual) \in {"deposit", "withdrawal"}
        /\ ((SignatureKind(residual) = "deposit") <=> (residual > 0))
    BY <2>2
  <2> QED BY <1>3, <2>1, <2>3 DEF res, Resolution, ShiftsBaseline, Kinds, ExternalKinds
<1>4. CASE residual # 0 /\ ~small /\ ~signed
  <2>1. res = Resolution(TRUE, FALSE, "unknown", "residual")
    BY <1>0, <1>4
  <2> QED BY <1>4, <2>1 DEF res, Resolution, ShiftsBaseline, Kinds, ExternalKinds
<1> QED BY <1>1, <1>2, <1>3, <1>4 DEF res

-----------------------------------------------------------------------------
(* The steps.                                                              *)

\* What the invariant counts with are integers, and the slacks are sizes.
LEMMA Counted ==
  ASSUME FlowInv
  PROVE  /\ rows \in Seq(Rows) /\ Told(rows) \in Int /\ NetFlowOf(rows) \in Int
         /\ cash \in Int /\ snap.amount \in Int /\ snap.cum \in Int
         /\ recon.part \in Int /\ recon.residual \in Int
         /\ unseen.part \in Int /\ unseen.all \in Int
         /\ untold \in Int /\ moved \in Int /\ noise \in Int
         /\ first \in Int /\ shifted \in Int
         /\ Slack(unseen.about, unseen.all, unseen.part) \in Nat
         /\ Slack(recon.about, recon.residual, recon.part) \in Nat
<1>1. FlowTypes
  BY DEF FlowInv
<1>2. recon.part \in Int /\ recon.residual \in Int /\ unseen.part \in Int /\ unseen.all \in Int
  BY <1>1 DEF FlowTypes
<1>3. Slack(unseen.about, unseen.all, unseen.part) \in Nat
  BY <1>2, SlackNat
<1>4. Slack(recon.about, recon.residual, recon.part) \in Nat
  BY <1>2, SlackNat
<1>5. rows \in Seq(Rows)
  BY <1>1 DEF FlowTypes
<1>6. Told(rows) \in Int /\ NetFlowOf(rows) \in Int
  BY <1>5, NetFlowIs
<1>7. cash \in Int
  BY <1>1 DEF FlowTypes
<1> QED BY <1>1, <1>2, <1>3, <1>4, <1>5, <1>6, <1>7 DEF FlowTypes

\* Something happens to the cash at KIS.
LEMMA HappensStep ==
  ASSUME FlowInv, NEW amount \in Int, NEW about \in {"transfer", "income", "noise"},
         NEW part, part = IF about = "transfer" THEN amount ELSE 0,
         Happens(amount, about, part), moved' = moved + part,
         noise' = noise + IF about = "noise" THEN AbsOf(amount) ELSE 0
  PROVE  FlowInv'
<1> DEFINE now == Join(unseen.about, about)
           round == IF about = "noise" THEN AbsOf(amount) ELSE 0
<1>1. /\ cash' = cash + amount /\ cash + amount >= 0
      /\ unseen' = [all |-> unseen.all + amount, about |-> now, part |-> unseen.part + part]
      /\ UNCHANGED <<snap, rows, recon, first, shifted, edited, untold>>
  BY DEF Happens
<1>2. /\ unseen.about \in Abouts /\ unseen.all \in Int /\ unseen.part \in Int
      /\ PartOf(unseen.about, unseen.all, unseen.part)
  BY DEF FlowInv, FlowTypes, TransfersKept
<1>3. /\ now \in Abouts
      /\ PartOf(now, unseen.all + amount, unseen.part + part)
      /\ Slack(now, unseen.all + amount, unseen.part + part)
           <= Slack(unseen.about, unseen.all, unseen.part) + round
  BY <1>2, JoinKeeps
<1> HIDE DEF now
<1>4. unseen'.all = unseen.all + amount /\ unseen'.about = now /\ unseen'.part = unseen.part + part
  BY <1>1
<1>5. part \in Int /\ round \in Nat
  BY AbsIs
<1> HIDE DEF round
<1>6. noise' = noise + round
  BY DEF round
<1>7. FlowTypes'
  <2>1. cash' \in Nat
    BY <1>1 DEF FlowInv, FlowTypes
  <2>20. moved \in Int /\ noise \in Int
    BY Counted
  <2>21. unseen.all + amount \in Int
    BY <1>2
  <2>22. unseen.part + part \in Int
    BY <1>2, <1>5
  <2>2. unseen'.all \in Int /\ unseen'.part \in Int
    BY <1>4, <2>21, <2>22
  <2>23. moved' \in Int
    BY <1>5, <2>20
  <2>24. noise' \in Int
    BY <1>5, <1>6, <2>20
  <2>3. moved' \in Int /\ noise' \in Int
    BY <2>23, <2>24
  <2> QED BY <1>1, <1>3, <1>4, <2>1, <2>2, <2>3 DEF FlowInv, FlowTypes
<1>8. Flags' /\ ReconKept'
  BY <1>1 DEF FlowInv, Flags, ReconKept
<1>9. ExpectedKept'
  <2>1. snap.taken => cash' - snap.amount = unseen'.all
    BY <1>1, <1>4 DEF FlowInv, FlowTypes, ExpectedKept
  <2> QED BY <1>1, <2>1 DEF FlowInv, ExpectedKept
<1>10. BaselineKept'
  BY <1>1 DEF FlowInv, BaselineKept, Pending
<1>11. TransfersKept'
  <2> DEFINE t    == Told(rows)
             then == Slack(now, unseen.all + amount, unseen.part + part)
             mine == Slack(unseen.about, unseen.all, unseen.part)
             its  == Slack(recon.about, recon.residual, recon.part)
  <2>1. ASSUME \A i \in DOMAIN rows : rows[i].about # "mixed"
        PROVE  AbsOf(t + recon.part + (unseen.part + part) + untold - (moved + part))
                 + then + its <= noise + round
    <3> DEFINE off == t + recon.part + unseen.part + untold - moved
    <3>1. AbsOf(off) + mine + its <= noise
      BY <2>1 DEF FlowInv, TransfersKept
    <3>2. /\ t \in Int /\ recon.part \in Int /\ unseen.part \in Int
          /\ untold \in Int /\ moved \in Int /\ noise \in Int
      BY Counted
    <3>3. mine \in Nat /\ its \in Nat
      BY Counted
    <3>4. unseen.all + amount \in Int /\ unseen.part + part \in Int
      BY <1>2, <1>5
    <3>5. then \in Nat
      BY <3>4, SlackNat
    <3>6. then <= mine + round
      BY <1>3
    <3> HIDE DEF t, mine, then, its
    <3>7. t + recon.part + (unseen.part + part) + untold - (moved + part) = off
      BY <1>5, <3>2
    <3>8. off \in Int
      BY <3>2
    <3> HIDE DEF off
    <3>9. AbsOf(off) \in Nat
      BY <3>8, AbsIs
    <3>10. AbsOf(off) + then + its <= noise + round
      BY <1>5, <3>1, <3>2, <3>3, <3>5, <3>6, <3>9
    <3> QED BY <3>7, <3>10
  <2> HIDE DEF then, its, t
  <2>2. PartOf(recon.about, recon.residual, recon.part)
    BY DEF FlowInv, TransfersKept
  <2> QED BY <1>1, <1>3, <1>4, <1>6, <2>1, <2>2 DEF TransfersKept, then, its, t
<1> QED BY <1>7, <1>8, <1>9, <1>10, <1>11 DEF FlowInv

\* The rows, what is untold and what is to be recorded change, and the transfers told
\* or to be told stay within the rounding.
LEMMA SettleTransfers ==
  ASSUME FlowInv, UNCHANGED <<unseen, moved, noise>>,
         PartOf(recon'.about, recon'.residual, recon'.part),
         rows' \in Seq(Rows), recon'.part \in Int, recon'.residual \in Int, untold' \in Int,
         (\A i \in DOMAIN rows' : rows'[i].about # "mixed") =>
           /\ \A i \in DOMAIN rows : rows[i].about # "mixed"
           /\ AbsOf((Told(rows') + recon'.part + untold') - (Told(rows) + recon.part + untold))
                + Slack(recon'.about, recon'.residual, recon'.part)
                <= Slack(recon.about, recon.residual, recon.part)
  PROVE  TransfersKept'
<1> DEFINE a == Told(rows) + recon.part + untold
           b == Told(rows') + recon'.part + untold'
           r == Slack(recon.about, recon.residual, recon.part)
           q == Slack(recon'.about, recon'.residual, recon'.part)
           u == Slack(unseen.about, unseen.all, unseen.part)
<1>0. recon.part \in Int /\ unseen.part \in Int /\ moved \in Int /\ noise \in Int /\ untold \in Int
      /\ Told(rows) \in Int /\ r \in Nat /\ u \in Nat
  BY Counted
<1>00. Told(rows') \in Int
  BY NetFlowIs
<1>1. q \in Nat
  BY SlackNat
<1>2. a \in Int /\ b \in Int
  BY <1>0, <1>00
<1>3. ASSUME \A i \in DOMAIN rows' : rows'[i].about # "mixed"
      PROVE  AbsOf(Told(rows') + recon'.part + unseen.part + untold' - moved) + u + q <= noise
  <2>1. AbsOf(Told(rows) + recon.part + unseen.part + untold - moved) + u + r <= noise
    BY <1>3 DEF FlowInv, TransfersKept
  <2>2. AbsOf(b - a) + q <= r
    BY <1>3
  <2>31. Told(rows) + recon.part + unseen.part + untold - moved = a + (unseen.part - moved)
    BY <1>0
  <2>32. Told(rows') + recon'.part + unseen.part + untold' - moved = b + (unseen.part - moved)
    BY <1>0, <1>00
  <2>3. /\ Told(rows) + recon.part + unseen.part + untold - moved = a + (unseen.part - moved)
        /\ Told(rows') + recon'.part + unseen.part + untold' - moved = b + (unseen.part - moved)
    BY <2>31, <2>32
  <2> HIDE DEF a, b, r, q, u
  <2> DEFINE m == a + (unseen.part - moved)
             n == b - a
  <2>4. m \in Int /\ n \in Int /\ b + (unseen.part - moved) = m + n
    BY <1>0, <1>2
  <2> HIDE DEF m, n
  <2>50. AbsOf(m + n) <= AbsOf(m) + AbsOf(n)
    BY <2>4, AbsOfSum
  <2>51. AbsOf(m) \in Nat /\ AbsOf(n) \in Nat
    BY <2>4, AbsIs
  <2>52. m + n \in Int
    BY <2>4
  <2>5. AbsOf(m + n) \in Nat
    BY <2>52, AbsIs
  <2>6. AbsOf(m) + u + r <= noise /\ AbsOf(n) + q <= r
    BY <2>1, <2>2, <2>3 DEF m, n
  <2>7. AbsOf(m + n) + u + q <= noise
    BY <1>0, <1>1, <2>5, <2>50, <2>51, <2>6
  <2> QED BY <2>3, <2>4, <2>7
<1> HIDE DEF q, u
<1>4. PartOf(unseen.about, unseen.all, unseen.part)
  BY DEF FlowInv, TransfersKept
<1> QED BY <1>3, <1>4 DEF TransfersKept, q, u

\* No reconciliation waits: what is pending of it is nothing.
LEMMA NoReconIs ==
  /\ NoRecon.residual = 0 /\ NoRecon.part = 0 /\ NoRecon.about = "nothing"
  /\ NoRecon.resolution.kind = "none" /\ NoRecon.resolution.source = "none"
  /\ ~ShiftsBaseline(NoRecon.resolution)
  /\ PartOf("nothing", 0, 0) /\ Slack("nothing", 0, 0) = 0
BY DEF NoRecon, Recon, NoResolution, Resolution, ShiftsBaseline, PartOf, Slack, AbsOf

\* What a cycle finds.
LEMMA ReconciledIs ==
  ASSUME FlowInv
  PROVE  /\ Reconciled.about = unseen.about /\ Reconciled.part = unseen.part
         /\ Reconciled.residual = Residual /\ Residual \in Int
         /\ snap.taken => Residual = unseen.all
         /\ Reconciled.resolution.kind \in Kinds \cup {"none"}
         /\ Reconciled.resolution.record =>
              /\ snap.taken /\ Residual # 0 /\ Reconciled.resolution.kind \in Kinds
              /\ Reconciled.resolution.kind \in ExternalKinds
                   <=> ShiftsBaseline(Reconciled.resolution)
         /\ ShiftsBaseline(Reconciled.resolution) => Reconciled.resolution.record
         /\ Reconciled.resolution.source = "signature" =>
              ((Reconciled.resolution.kind = "deposit") <=> (Residual > 0))
<1>1. /\ Reconciled.about = unseen.about /\ Reconciled.part = unseen.part
      /\ Reconciled.residual = Residual
      /\ Reconciled.resolution =
           IF snap.taken THEN ClassifyResidual(Residual, cash + Held) ELSE NoResolution
  BY DEF Reconciled, Recon
<1>2. cash - snap.amount \in Int
  BY Counted
<1>3. Residual \in Int
  BY <1>2, 0 \in Int DEF Residual
<1>4. snap.taken => Residual = unseen.all
  BY DEF FlowInv, ExpectedKept, Residual
<1>5. CASE ~snap.taken
  <2>1. Reconciled.resolution = NoResolution
    BY <1>1, <1>5
  <2> QED BY <1>1, <1>3, <1>4, <1>5, <2>1 DEF NoResolution, Resolution, ShiftsBaseline
<1>6. CASE snap.taken
  <2>1. Reconciled.resolution = ClassifyResidual(Residual, cash + Held)
    BY <1>1, <1>6
  <2> QED BY <1>1, <1>3, <1>4, <1>6, <2>1, ClassifyIs
<1> QED BY <1>5, <1>6

\* A cycle takes the snapshot.
LEMMA SnapshotStep ==
  ASSUME FlowInv, RecordAccountSnapshot
  PROVE  FlowInv'
<1> DEFINE r == Reconciled
           flow == IF snap.taken THEN Cumulative(r) - snap.cum ELSE 0
<1>1. /\ recon = NoRecon /\ recon' = IF r.resolution.record THEN r ELSE NoRecon
      /\ snap' = [taken |-> TRUE, amount |-> cash, cum |-> Cumulative(r)]
      /\ first' = IF snap.taken THEN first ELSE Cumulative(r)
      /\ shifted' = shifted + flow
      /\ untold' = IF r.resolution.record THEN untold ELSE untold + r.part
      /\ unseen' = Nothing /\ edited' = FALSE
      /\ UNCHANGED <<cash, rows, moved, noise>>
  BY DEF RecordAccountSnapshot, SyncedCash
<1>2. /\ r.about = unseen.about /\ r.part = unseen.part
      /\ r.residual = Residual /\ Residual \in Int
      /\ snap.taken => Residual = unseen.all
      /\ r.resolution.kind \in Kinds \cup {"none"}
      /\ r.resolution.record =>
           /\ snap.taken /\ Residual # 0 /\ r.resolution.kind \in Kinds
           /\ r.resolution.kind \in ExternalKinds <=> ShiftsBaseline(r.resolution)
      /\ ShiftsBaseline(r.resolution) => r.resolution.record
      /\ r.resolution.source = "signature" =>
           ((r.resolution.kind = "deposit") <=> (Residual > 0))
  BY ReconciledIs
<1>3. Cumulative(r) = NetFlowOf(rows) + (IF ShiftsBaseline(r.resolution) THEN r.residual ELSE 0)
  BY DEF Cumulative
<1> HIDE DEF r
<1>4. Cumulative(r) \in Int
  <2>1. NetFlowOf(rows) \in Int /\ r.residual \in Int
    BY <1>2, Counted
  <2> QED BY <1>3, <2>1
<1>5. /\ unseen'.all = 0 /\ unseen'.about = "nothing" /\ unseen'.part = 0
      /\ snap'.taken = TRUE /\ snap'.amount = cash /\ snap'.cum = Cumulative(r)
  BY <1>1 DEF Nothing
<1>6. flow \in Int
  <2>1. Cumulative(r) - snap.cum \in Int
    BY <1>4, Counted
  <2> QED BY <2>1
<1>7. FlowTypes'
  <2>1. shifted' \in Int
    <3>1. shifted \in Int
      BY Counted
    <3> QED BY <1>1, <1>6, <3>1
  <2>2. untold' \in Int
    <3>1. untold \in Int /\ untold + unseen.part \in Int
      BY Counted
    <3> QED BY <1>1, <1>2, <3>1
  <2>3. first' \in Int
    BY <1>1, <1>4, Counted
  <2>4. unseen.about \in Abouts /\ unseen.part \in Int
    BY DEF FlowInv, FlowTypes
  <2>5. recon'.residual \in Int /\ recon'.part \in Int /\ recon'.about \in Abouts
    BY <1>1, <1>2, <2>4, NoReconIs DEF Abouts
  <2>6. snap'.amount \in Int /\ snap'.cum \in Int /\ cash' \in Nat /\ rows' \in Seq(Rows)
        /\ moved' \in Int /\ noise' \in Int
    BY <1>1, <1>4, <1>5 DEF FlowInv, FlowTypes
  <2>7. unseen'.all \in Int /\ unseen'.part \in Int /\ unseen'.about \in Abouts
    BY <1>5 DEF Abouts
  <2> QED BY <2>1, <2>2, <2>3, <2>5, <2>6, <2>7 DEF FlowTypes
<1>8. Flags'
  BY <1>1, <1>5 DEF Flags
<1>9. ReconKept'
  <2>1. CASE r.resolution.record
    <3>1. recon' = r
      BY <1>1, <2>1
    <3> QED BY <1>2, <2>1, <3>1 DEF ReconKept
  <2>2. CASE ~r.resolution.record
    <3>1. recon' = NoRecon
      BY <1>1, <2>2
    <3> QED BY <3>1, NoReconIs DEF ReconKept
  <2> QED BY <2>1, <2>2
<1>10. ExpectedKept'
  <2>1. cash - cash = 0
    BY Counted
  <2> QED BY <1>1, <1>5, <2>1 DEF ExpectedKept
<1>11. BaselineKept'
  <2>1. snap'.cum = NetFlowOf(rows') + Pending'
    <3>1. CASE r.resolution.record
      <4>1. recon' = r
        BY <1>1, <3>1
      <4> QED BY <1>1, <1>3, <1>5, <4>1 DEF Pending
    <3>2. CASE ~r.resolution.record
      <4>1. recon' = NoRecon /\ ~ShiftsBaseline(r.resolution)
        BY <1>1, <1>2, <3>2
      <4> QED BY <1>1, <1>3, <1>5, <4>1, NoReconIs DEF Pending
    <3> QED BY <3>1, <3>2
  <2>2. shifted' = snap'.cum - first'
    <3>1. CASE snap.taken
      <4>1. shifted = snap.cum - first /\ first' = first /\ flow = Cumulative(r) - snap.cum
        BY <1>1, <3>1 DEF FlowInv, BaselineKept
      <4>2. snap.cum \in Int /\ first \in Int
        BY Counted
      <4>3. shifted' = (snap.cum - first) + (Cumulative(r) - snap.cum)
        BY <1>1, <4>1
      <4> QED BY <1>4, <1>5, <4>1, <4>2, <4>3
    <3>2. CASE ~snap.taken
      <4>1. shifted = 0 /\ first' = Cumulative(r) /\ flow = 0
        BY <1>1, <3>2 DEF FlowInv, BaselineKept
      <4> QED BY <1>1, <1>4, <1>5, <4>1
    <3> QED BY <3>1, <3>2
  <2> QED BY <1>5, <2>1, <2>2 DEF BaselineKept
<1>12. TransfersKept'
  <2> DEFINE t == Told(rows)
             u == Slack(unseen.about, unseen.all, unseen.part)
  <2>1. /\ t \in Int /\ u \in Nat /\ unseen.part \in Int /\ untold \in Int
        /\ moved \in Int /\ noise \in Int
    BY Counted
  <2>2. PartOf(unseen.about, unseen.all, unseen.part)
    BY DEF FlowInv, TransfersKept
  <2>3. ASSUME \A i \in DOMAIN rows : rows[i].about # "mixed"
        PROVE  AbsOf(t + 0 + unseen.part + untold - moved) + u + 0 <= noise
    BY <1>1, <2>3, NoReconIs DEF FlowInv, TransfersKept
  <2> HIDE DEF t, u
  <2> DEFINE off == t + unseen.part + untold - moved
  <2>4. t + 0 + unseen.part + untold - moved = off /\ off \in Int
    BY <2>1
  <2>5. ASSUME \A i \in DOMAIN rows : rows[i].about # "mixed"
        PROVE  AbsOf(off) + u <= noise /\ AbsOf(off) <= noise
    <3>1. AbsOf(off) \in Nat
      BY <2>4, AbsIs
    <3>2. AbsOf(off) + u + 0 <= noise
      BY <2>3, <2>4, <2>5
    <3> HIDE DEF off
    <3> QED BY <2>1, <3>1, <3>2
  <2>6. CASE r.resolution.record
    <3>1. /\ recon'.part = unseen.part /\ recon'.about = unseen.about
          /\ recon'.residual = unseen.all /\ untold' = untold
      BY <1>1, <1>2, <2>6
    <3>2. Slack(recon'.about, recon'.residual, recon'.part) = u
      BY <3>1 DEF u
    <3>3. t + recon'.part + 0 + untold' - moved = off
      BY <2>1, <3>1
    <3>4. ASSUME \A i \in DOMAIN rows : rows[i].about # "mixed"
          PROVE  AbsOf(t + recon'.part + 0 + untold' - moved) + 0
                   + Slack(recon'.about, recon'.residual, recon'.part) <= noise
      <4>1. AbsOf(off) + u <= noise /\ AbsOf(off) \in Nat
        BY <2>4, <2>5, <3>4, AbsIs
      <4> HIDE DEF off
      <4>2. AbsOf(off) + 0 + u <= noise
        BY <2>1, <4>1
      <4> QED BY <3>2, <3>3, <4>2
    <3> QED BY <1>1, <1>5, <2>2, <3>1, <3>4, NoReconIs DEF TransfersKept, t
  <2>7. CASE ~r.resolution.record
    <3>1. recon' = NoRecon /\ untold' = untold + unseen.part
      BY <1>1, <1>2, <2>7
    <3>2. t + 0 + 0 + untold' - moved = off
      BY <2>1, <3>1
    <3>3. ASSUME \A i \in DOMAIN rows : rows[i].about # "mixed"
          PROVE  AbsOf(t + 0 + 0 + untold' - moved) + 0 + 0 <= noise
      <4>1. AbsOf(off) <= noise /\ AbsOf(off) \in Nat
        BY <2>4, <2>5, <3>3, AbsIs
      <4> HIDE DEF off
      <4>2. AbsOf(off) + 0 + 0 <= noise
        BY <2>1, <4>1
      <4> QED BY <3>2, <4>2
    <3> QED BY <1>1, <1>5, <3>1, <3>3, NoReconIs DEF TransfersKept, t
  <2> QED BY <2>6, <2>7
<1> QED BY <1>7, <1>8, <1>9, <1>10, <1>11, <1>12 DEF FlowInv

\* A row is written or given up, or people edit the rows: what stays.
LEMMA RowsStep ==
  ASSUME FlowInv, UNCHANGED <<cash, snap, first, shifted, unseen, moved, noise>>,
         rows' \in Seq(Rows), recon' = recon \/ recon' = NoRecon,
         edited' \in BOOLEAN, untold' \in Int,
         ~edited' => ~edited /\ NetFlowOf(rows') + Pending' = NetFlowOf(rows) + Pending,
         TransfersKept'
  PROVE  FlowInv'
<1>1. /\ recon'.residual \in Int /\ recon'.part \in Int /\ recon'.about \in Abouts
      /\ ReconKept'
  <2>1. CASE recon' = recon
    BY <2>1 DEF FlowInv, FlowTypes, ReconKept
  <2>2. CASE recon' = NoRecon
    BY <2>2, NoReconIs, 0 \in Int DEF ReconKept, Abouts
  <2> QED BY <2>1, <2>2
<1>2. FlowTypes'
  BY <1>1 DEF FlowInv, FlowTypes
<1>3. Flags'
  BY DEF FlowInv, Flags
<1>4. ExpectedKept'
  BY DEF FlowInv, ExpectedKept
<1>5. BaselineKept'
  BY DEF FlowInv, BaselineKept
<1> QED BY <1>1, <1>2, <1>3, <1>4, <1>5 DEF FlowInv

\* A cycle records what it has found.
LEMMA RecordStep ==
  ASSUME FlowInv, RecordDetectedFlow
  PROVE  FlowInv'
<1> DEFINE r == Row(recon.resolution.kind, recon.residual,
                    IF recon.resolution.source = "signature" THEN "confirmed" ELSE "unconfirmed",
                    recon.about)
<1>1. /\ recon # NoRecon /\ rows' = Append(rows, r) /\ recon' = NoRecon
      /\ UNCHANGED <<cash, snap, first, shifted, edited, unseen, moved, noise, untold>>
  BY DEF RecordDetectedFlow, RecordCashFlow, history
<1>2. /\ recon.residual \in Int \ {0} /\ recon.resolution.kind \in Kinds
      /\ recon.resolution.kind \in ExternalKinds <=> ShiftsBaseline(recon.resolution)
      /\ recon.about \in Abouts /\ recon.part \in Int
      /\ PartOf(recon.about, recon.residual, recon.part)
  BY <1>1 DEF FlowInv, FlowTypes, ReconKept, TransfersKept
<1>3. r \in Rows /\ r.amount = recon.residual /\ r.about = recon.about
      /\ r.kind = recon.resolution.kind
  BY <1>2 DEF Rows, Row, Statuses
<1> HIDE DEF r
<1>4. rows \in Seq(Rows) /\ untold \in Int /\ Told(rows) \in Int /\ edited \in BOOLEAN
      /\ recon.residual \in Int /\ Slack(recon.about, recon.residual, recon.part) \in Nat
  BY Counted DEF FlowInv, Flags
<1>5. /\ rows' \in Seq(Rows)
      /\ NetFlowOf(rows') = NetFlowOf(rows) + (IF r.kind \in ExternalKinds THEN r.amount ELSE 0)
      /\ Told(rows') = Told(rows) + (IF r.about = "transfer" THEN r.amount ELSE 0)
      /\ (\A i \in DOMAIN rows' : rows'[i].about # "mixed") =>
           r.about # "mixed" /\ \A i \in DOMAIN rows : rows[i].about # "mixed"
  BY <1>1, <1>3, <1>4, RowAdded
<1>6. NetFlowOf(rows') + Pending' = NetFlowOf(rows) + Pending
  <2>1. Pending' = 0
    BY <1>1, NoReconIs DEF Pending
  <2>2. Pending = IF r.kind \in ExternalKinds THEN r.amount ELSE 0
    BY <1>2, <1>3 DEF Pending
  <2>3. NetFlowOf(rows') = NetFlowOf(rows) + Pending
    BY <1>5, <2>2
  <2>4. NetFlowOf(rows') \in Int
    BY <1>5, NetFlowIs
  <2> QED BY <2>1, <2>3, <2>4
<1>7. /\ recon'.about = "nothing" /\ recon'.residual = 0 /\ recon'.part = 0
      /\ PartOf(recon'.about, recon'.residual, recon'.part)
      /\ Slack(recon'.about, recon'.residual, recon'.part) = 0
  BY <1>1, NoReconIs
<1>8. ASSUME \A i \in DOMAIN rows' : rows'[i].about # "mixed"
      PROVE  /\ \A i \in DOMAIN rows : rows[i].about # "mixed"
             /\ AbsOf((Told(rows') + recon'.part + untold') - (Told(rows) + recon.part + untold))
                  + Slack(recon'.about, recon'.residual, recon'.part)
                  <= Slack(recon.about, recon.residual, recon.part)
  <2> DEFINE told == IF r.about = "transfer" THEN r.amount ELSE 0
  <2>1. told \in Int
    BY <1>2, <1>3
  <2>2. recon.about # "mixed" /\ \A i \in DOMAIN rows : rows[i].about # "mixed"
    BY <1>3, <1>5, <1>8
  <2>3. Told(rows') = Told(rows) + told
    BY <1>5
  <2>4. AbsOf(told - recon.part) <= Slack(recon.about, recon.residual, recon.part)
    <3>1. CASE recon.about = "transfer"
      <4>1. told = recon.residual
        BY <1>3, <3>1
      <4>2. AbsOf(recon.residual - recon.part) \in Nat
        BY <1>2, AbsIs
      <4> QED BY <3>1, <4>1, <4>2 DEF Slack
    <3>2. CASE recon.about # "transfer"
      <4>1. told = 0 /\ recon.part = 0
        BY <1>2, <1>3, <2>2, <3>2 DEF Abouts, PartOf
      <4>2. AbsOf(told - recon.part) = 0
        BY <4>1 DEF AbsOf
      <4> QED BY <1>4, <4>2
    <3> QED BY <3>1, <3>2
  <2> HIDE DEF told
  <2>5. (Told(rows') + recon'.part + untold') - (Told(rows) + recon.part + untold)
          = told - recon.part
    BY <1>1, <1>2, <1>4, <1>7, <2>1, <2>3
  <2>6. AbsOf(told - recon.part) \in Nat
    BY <1>2, <2>1, AbsIs
  <2> QED BY <1>7, <2>2, <2>4, <2>5, <2>6
<1>9. TransfersKept'
  BY <1>1, <1>4, <1>5, <1>7, <1>8, 0 \in Int, SettleTransfers
<1> QED BY <1>1, <1>4, <1>5, <1>6, <1>9, RowsStep

\* What a cycle has found is lost.
LEMMA LoseStep ==
  ASSUME FlowInv, LoseFlow
  PROVE  FlowInv'
<1>1. /\ recon' = NoRecon /\ edited' = TRUE /\ untold' = untold + recon.part
      /\ UNCHANGED <<cash, snap, rows, first, shifted, unseen, moved, noise>>
  BY DEF LoseFlow
<1>2. /\ rows \in Seq(Rows) /\ untold \in Int /\ recon.part \in Int /\ Told(rows) \in Int
      /\ Slack(recon.about, recon.residual, recon.part) \in Nat
  BY Counted
<1>3. untold' \in Int
  BY <1>1, <1>2
<1>4. /\ recon'.residual = 0 /\ recon'.part = 0
      /\ PartOf(recon'.about, recon'.residual, recon'.part)
      /\ Slack(recon'.about, recon'.residual, recon'.part) = 0
  BY <1>1, NoReconIs
<1>5. Told(rows') = Told(rows)
  BY <1>1
<1>6. (Told(rows') + recon'.part + untold') - (Told(rows) + recon.part + untold) = 0
  BY <1>1, <1>2, <1>4, <1>5
<1>7. AbsOf(0) = 0
  BY DEF AbsOf
<1>8. AbsOf((Told(rows') + recon'.part + untold') - (Told(rows) + recon.part + untold))
        + Slack(recon'.about, recon'.residual, recon'.part)
        <= Slack(recon.about, recon.residual, recon.part)
  BY <1>2, <1>4, <1>6, <1>7
<1>9. TransfersKept'
  BY <1>1, <1>2, <1>3, <1>4, <1>8, 0 \in Int, SettleTransfers
<1> QED BY <1>1, <1>2, <1>3, <1>9, RowsStep

\* People say what a row is.
LEMMA ConfirmStep ==
  ASSUME FlowInv, NEW i \in DOMAIN rows, NEW kind \in Kinds, ConfirmCashFlow(i, kind)
  PROVE  FlowInv'
<1> DEFINE r == Row(kind, rows[i].amount,
                    IF rows[i].status = "unconfirmed" THEN "confirmed" ELSE "reclassified",
                    rows[i].about)
<1>1. /\ rows' = [rows EXCEPT ![i] = r] /\ edited' = TRUE
      /\ UNCHANGED <<cash, snap, recon, first, shifted, unseen, moved, noise, untold>>
  BY DEF ConfirmCashFlow
<1>2. /\ rows \in Seq(Rows) /\ untold \in Int /\ recon.part \in Int /\ recon.residual \in Int
      /\ Told(rows) \in Int /\ Slack(recon.about, recon.residual, recon.part) \in Nat
      /\ PartOf(recon.about, recon.residual, recon.part)
  BY Counted DEF FlowInv, TransfersKept
<1>3. r \in Rows /\ r.amount = rows[i].amount /\ r.about = rows[i].about
  <2>1. rows[i] \in Rows
    BY <1>2
  <2> QED BY <2>1 DEF Rows, Row, Statuses
<1> HIDE DEF r
<1>4. /\ rows' \in Seq(Rows) /\ Told(rows') = Told(rows)
      /\ (\A j \in DOMAIN rows' : rows'[j].about # "mixed") =>
           \A j \in DOMAIN rows : rows[j].about # "mixed"
  BY <1>1, <1>2, <1>3, RowRelabelled
<1>5. (Told(rows') + recon'.part + untold') - (Told(rows) + recon.part + untold) = 0
  BY <1>1, <1>2, <1>4
<1>6. AbsOf(0) = 0
  BY DEF AbsOf
<1>7. AbsOf((Told(rows') + recon'.part + untold') - (Told(rows) + recon.part + untold))
        + Slack(recon'.about, recon'.residual, recon'.part)
        <= Slack(recon.about, recon.residual, recon.part)
  BY <1>1, <1>2, <1>5, <1>6
<1>8. TransfersKept'
  BY <1>1, <1>2, <1>4, <1>7, SettleTransfers
<1> QED BY <1>1, <1>2, <1>4, <1>8, RowsStep

\* People add what no row tells of.
LEMMA AddStep ==
  ASSUME FlowInv, NEW kind \in Kinds, AddCashFlow(kind, untold)
  PROVE  FlowInv'
<1> DEFINE r == Row(kind, untold, "confirmed", "transfer")
<1>1. /\ untold # 0 /\ rows' = Append(rows, r) /\ untold' = 0 /\ edited' = TRUE
      /\ UNCHANGED <<cash, snap, recon, first, shifted, unseen, moved, noise>>
  BY DEF AddCashFlow, RecordCashFlow
<1>2. /\ rows \in Seq(Rows) /\ untold \in Int /\ recon.part \in Int /\ recon.residual \in Int
      /\ Told(rows) \in Int /\ Slack(recon.about, recon.residual, recon.part) \in Nat
      /\ PartOf(recon.about, recon.residual, recon.part)
  BY Counted DEF FlowInv, TransfersKept
<1>3. r \in Rows /\ r.amount = untold /\ r.about = "transfer"
  BY <1>1, <1>2 DEF Rows, Row, Statuses, Abouts
<1> HIDE DEF r
<1>4. /\ rows' \in Seq(Rows) /\ Told(rows') = Told(rows) + untold
      /\ (\A j \in DOMAIN rows' : rows'[j].about # "mixed") =>
           \A j \in DOMAIN rows : rows[j].about # "mixed"
  BY <1>1, <1>2, <1>3, RowAdded
<1>5. (Told(rows') + recon'.part + untold') - (Told(rows) + recon.part + untold) = 0
  BY <1>1, <1>2, <1>4
<1>6. AbsOf(0) = 0
  BY DEF AbsOf
<1>7. AbsOf((Told(rows') + recon'.part + untold') - (Told(rows) + recon.part + untold))
        + Slack(recon'.about, recon'.residual, recon'.part)
        <= Slack(recon.about, recon.residual, recon.part)
  BY <1>1, <1>2, <1>5, <1>6
<1>8. TransfersKept'
  BY <1>1, <1>2, <1>4, <1>7, 0 \in Int, SettleTransfers
<1> QED BY <1>1, <1>2, <1>4, <1>8, 0 \in Int, RowsStep

-----------------------------------------------------------------------------
(* The invariant.                                                          *)

\* It holds at the start: the opening cash is a transfer nobody has read yet.
LEMMA InitFlow == Init => FlowInv
<1> SUFFICES ASSUME Init PROVE FlowInv
  OBVIOUS
<1>1. /\ cash = Opening /\ snap = NoSnapshot /\ rows = <<>> /\ recon = NoRecon
      /\ first = 0 /\ shifted = 0 /\ edited = FALSE /\ moved = Opening /\ noise = 0 /\ untold = 0
      /\ unseen.all = Opening /\ unseen.about = "transfer" /\ unseen.part = Opening
  BY DEF Init
<1>2. /\ snap.taken = FALSE /\ snap.amount = 0 /\ snap.cum = 0
  BY <1>1 DEF NoSnapshot
<1>3. Opening \in Nat
  BY FlowAssumption
<1>4. FlowTypes
  <2>1. rows \in Seq(Rows)
    BY <1>1
  <2> QED BY <1>1, <1>2, <1>3, <2>1, NoReconIs DEF FlowTypes, Abouts
<1>5. Flags
  BY <1>1, <1>2 DEF Flags
<1>6. ReconKept
  BY <1>1, NoReconIs DEF ReconKept
<1>7. ExpectedKept /\ BaselineKept
  BY <1>1, <1>2 DEF ExpectedKept, BaselineKept
<1>8. TransfersKept
  <2>1. Told(rows) = 0
    <3>1. OfTransfers(rows) = {}
      BY <1>1 DEF OfTransfers
    <3> QED BY <3>1, SumEmpty DEF Told
  <2>2. Slack("transfer", Opening, Opening) = 0 /\ PartOf("transfer", Opening, Opening)
    <3>1. Opening - Opening = 0
      BY <1>3
    <3> QED BY <3>1 DEF Slack, PartOf, AbsOf
  <2>3. AbsOf(0 + 0 + Opening + 0 - Opening) = 0
    <3>1. 0 + 0 + Opening + 0 - Opening = 0
      BY <1>3
    <3> QED BY <3>1 DEF AbsOf
  <2> QED BY <1>1, <2>1, <2>2, <2>3, NoReconIs DEF TransfersKept
<1> QED BY <1>4, <1>5, <1>6, <1>7, <1>8 DEF FlowInv

\* Every step keeps it.
LEMMA StepFlow == FlowInv /\ [Next]_vars => FlowInv'
<1> SUFFICES ASSUME FlowInv, [Next]_vars PROVE FlowInv'
  OBVIOUS
<1>0. Transfers \subseteq Int /\ Incomes \subseteq Int /\ Noises \subseteq Int
  BY FlowAssumption
<1>1. ASSUME NEW amount \in Transfers, Transfer(amount)  PROVE FlowInv'
  <2>1. noise \in Int /\ amount \in Int
    BY <1>0, Counted
  <2>2. noise + 0 = noise
    BY <2>1
  <2> QED BY <1>1, <2>1, <2>2, HappensStep DEF Transfer
<1>2. ASSUME NEW amount \in Incomes, EarnIncome(amount)  PROVE FlowInv'
  <2>1. noise \in Int /\ moved \in Int /\ amount \in Int
    BY <1>0, Counted
  <2>2. noise + 0 = noise /\ moved + 0 = moved
    BY <2>1
  <2> QED BY <1>2, <2>1, <2>2, HappensStep DEF EarnIncome
<1>3. ASSUME NEW amount \in Noises, Rounding(amount)  PROVE FlowInv'
  <2>1. moved \in Int /\ amount \in Int
    BY <1>0, Counted
  <2>2. moved + 0 = moved
    BY <2>1
  <2> QED BY <1>3, <2>1, <2>2, HappensStep DEF Rounding
<1>4. CASE RecordAccountSnapshot
  BY <1>4, SnapshotStep
<1>5. CASE RecordDetectedFlow
  BY <1>5, RecordStep
<1>6. CASE LoseFlow
  BY <1>6, LoseStep
<1>7. ASSUME NEW i \in DOMAIN rows, NEW kind \in Kinds, ConfirmCashFlow(i, kind)  PROVE FlowInv'
  BY <1>7, ConfirmStep
<1>8. ASSUME NEW kind \in Kinds, AddCashFlow(kind, untold)  PROVE FlowInv'
  BY <1>8, AddStep
<1>9. CASE UNCHANGED vars
  <2>1. UNCHANGED <<cash, snap, rows, recon, first, shifted, edited, unseen, moved, noise, untold>>
    BY <1>9 DEF vars, history
  <2> QED BY <2>1 DEF FlowInv, FlowTypes, Flags, ReconKept, ExpectedKept, BaselineKept, Pending,
                      TransfersKept
<1> QED BY <1>1, <1>2, <1>3, <1>4, <1>5, <1>6, <1>7, <1>8, <1>9 DEF Next

\* In every reachable state.
LEMMA FlowInvariant == Spec => []FlowInv
BY InitFlow, StepFlow, PTL DEF Spec

-----------------------------------------------------------------------------
(* What follows.                                                           *)

\* The state is well typed, and a row confirmed by its amount alone goes the way its
\* kind says (signature_kind of ops/cashflow.py).
THEOREM FlowTyped == Spec => []FlowTypeOK
<1>1. FlowInv => FlowTypeOK
  <2> SUFFICES ASSUME FlowInv PROVE FlowTypeOK
    OBVIOUS
  <2>1. \A i \in DOMAIN rows : rows[i] \in Rows
    BY Counted
  <2>2. \A i \in DOMAIN rows :
          /\ rows[i].kind \in Kinds /\ rows[i].amount \in Int \ {0}
          /\ rows[i].status \in {"unconfirmed", "confirmed", "reclassified"}
    BY <2>1 DEF Rows, Statuses
  <2>3. edited \in BOOLEAN /\ snap.taken \in BOOLEAN
    BY DEF FlowInv, Flags
  <2>4. /\ cash \in Nat /\ snap.amount \in Int /\ snap.cum \in Int /\ recon.residual \in Int
        /\ recon.resolution.kind \in Kinds \cup {"none"}
    BY DEF FlowInv, FlowTypes, ReconKept
  <2>5. recon.resolution.source = "signature" =>
          ((recon.resolution.kind = "deposit") = (recon.residual > 0))
    BY DEF FlowInv, ReconKept
  <2> QED BY <2>2, <2>3, <2>4, <2>5 DEF FlowTypeOK
<1> QED BY <1>1, FlowInvariant, PTL

\* The checksum of docs/07-data-model.md, for any amounts and any number of cycles: with
\* every row rightly labelled and nothing untold, the external flows are what people
\* have moved, up to the rounding, whatever was absorbed, lost, labelled late or added.
THEOREM FlowsAddUp == Spec => []ChecksumHolds
<1>1. FlowInv => ChecksumHolds
  <2> SUFFICES ASSUME FlowInv, Settled, untold = 0,
                      \A i \in DOMAIN rows : RightlyLabelled(rows[i])
               PROVE  AbsOf(NetFlowOf(rows) - moved) <= noise
    BY DEF ChecksumHolds
  <2>1. \A i \in DOMAIN rows : rows[i].about # "mixed"
    BY DEF RightlyLabelled
  <2>2. External(rows) = OfTransfers(rows)
    BY DEF RightlyLabelled, External, OfTransfers
  <2>3. rows \in Seq(Rows) /\ moved \in Int /\ noise \in Int /\ Told(rows) \in Int
    BY Counted
  <2>4. NetFlowOf(rows) = Told(rows)
    BY <2>2, <2>3, NetFlowIs DEF Told
  <2>5. /\ recon.part = 0 /\ recon.residual = 0 /\ recon.about = "nothing"
        /\ unseen.part = 0 /\ unseen.all = 0 /\ unseen.about = "nothing"
    BY NoReconIs DEF Settled, Nothing
  <2>6. AbsOf(Told(rows) + 0 + 0 + 0 - moved) + 0 + 0 <= noise
    BY <2>1, <2>5, NoReconIs DEF FlowInv, TransfersKept
  <2> DEFINE t == Told(rows)
  <2> HIDE DEF t
  <2>7. t + 0 + 0 + 0 - moved = t - moved /\ t - moved \in Int
    BY <2>3 DEF t
  <2>8. AbsOf(t - moved) \in Nat
    BY <2>7, AbsIs
  <2>9. AbsOf(t - moved) + 0 + 0 <= noise
    BY <2>6, <2>7 DEF t
  <2> QED BY <2>3, <2>4, <2>8, <2>9 DEF t
<1> QED BY <1>1, FlowInvariant, PTL

\* The baseline of the returns is what the rows say, and every shift of it is counted
\* once (record_account_snapshot), whatever was added by hand, relabelled or lost
\* before the last snapshot.
THEOREM BaselineIsTheRows == Spec => []BaselineFollowsLabels
<1>1. FlowInv => BaselineFollowsLabels
  <2> SUFFICES ASSUME FlowInv, snap.taken, recon = NoRecon, ~edited
               PROVE  snap.cum = NetFlowOf(rows) /\ shifted = snap.cum - first
    BY DEF BaselineFollowsLabels
  <2>1. Pending = 0
    BY NoReconIs DEF Pending
  <2>2. NetFlowOf(rows) \in Int
    BY Counted
  <2>3. snap.cum = NetFlowOf(rows) + Pending /\ shifted = snap.cum - first
    BY DEF FlowInv, BaselineKept
  <2> QED BY <2>1, <2>2, <2>3
<1> QED BY <1>1, FlowInvariant, PTL
=============================================================================
