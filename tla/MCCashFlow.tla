----------------------------- MODULE MCCashFlow -----------------------------
(* The amounts of the runs of CashFlow: a configuration holds no negative     *)
(* number.  17 is a deposit by its last digit, -25 a withdrawal, 7 an income  *)
(* that looks like a deposit, and 1 is mostly below the absorption threshold. *)
EXTENDS CashFlow

MCTransfers == {17, -25, 1}
MCNoises == {1, -1}
=============================================================================
