----------------------------- MODULE CycleStatus -----------------------------
(***************************************************************************)
(* What the cycles table promises, whatever a cycle does and wherever it   *)
(* dies: cycles follow each other, a new one only begins when every        *)
(* earlier one is closed, the status of a cycle only moves forward, and a  *)
(* closed cycle is never touched again.                                    *)
(***************************************************************************)
EXTENDS Naturals, Sequences

VARIABLE status   \* sequence of the statuses of the cycles, oldest first

Pending == {"intent", "scoring", "deciding", "ordering"}   \* PENDING_STATES
Closed == {"recorded", "failed", "skipped"}

Init == status = <<>>

Begin ==
  /\ \A i \in DOMAIN status : status[i] \in Closed
  /\ status' = Append(status, "intent")

\* The steps forward.  A cycle without a watchlist is ordering right after
\* scoring; any cycle in progress may fail.
Forward ==
  {<<"intent", "scoring">>, <<"scoring", "deciding">>, <<"scoring", "ordering">>,
   <<"deciding", "ordering">>, <<"deciding", "skipped">>, <<"ordering", "recorded">>}
    \cup (Pending \X {"failed"})

Advance(i) ==
  \E next \in Pending \cup Closed :
    /\ <<status[i], next>> \in Forward
    /\ status' = [status EXCEPT ![i] = next]

Next == Begin \/ \E i \in DOMAIN status : Advance(i)

Spec == Init /\ [][Next]_status
=============================================================================
