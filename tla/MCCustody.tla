------------------------------ MODULE MCCustody ------------------------------
(***************************************************************************)
(* Custody for TLC: the type invariant over the bounds of the instance.    *)
(***************************************************************************)
EXTENDS Custody

Shares == 0 .. Lot * MaxDays
Odnos == (0 .. MaxDays) \X Nat

\* Every variable has its type: in particular the stop a position is linked to
\* is a recorded order of that code, and no order is filled beyond its quantity.
CustodyTypeOK ==
  /\ held \in [Codes -> Shares]
  /\ session \in {"open", "closed"}
  /\ day \in 1 .. MaxDays
  /\ \A i \in DOMAIN ledger :
       /\ ledger[i].code \in Codes
       /\ ledger[i].filled \in 0 .. ledger[i].qty
       /\ ledger[i].live => ledger[i].kind = "stop"
  /\ pos \in [Codes -> [open : BOOLEAN, qty : Shares, stop : 0 .. MaxLevel,
                        active : 0 .. Len(orders), pid : 0 .. MaxDays]]
  /\ \A c \in Codes : pos[c].active # 0 => orders[pos[c].active].code = c
  /\ \A i \in DOMAIN orders :
       orders[i].odno \in Odnos /\ orders[i].filled \in 0 .. orders[i].qty
  /\ \A o \in outcomes : o.id \in DOMAIN orders
  /\ cyc.pc \in CycleSteps /\ cyc.todo \subseteq Codes /\ cyc.plan \subseteq Codes
  /\ watch.pc \in WatchSteps /\ watch.todo \subseteq DOMAIN watch.rows
  /\ {cycled, safeStop, swept} \subseteq BOOLEAN
  /\ crashes \in 0 .. MaxCrashes
=============================================================================
