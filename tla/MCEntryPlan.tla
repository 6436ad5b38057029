----------------------------- MODULE MCEntryPlan -----------------------------
(***************************************************************************)
(* Bounds for TLC.  Four stocks and three positions, so that slots run out *)
(* with a proposal left, an account may already hold more than it is       *)
(* allowed, and one that holds a stock worth more than its share has room  *)
(* for one more order and not for two.  100 won of capital and prices 7    *)
(* and 20 give quantities 4 and 1, which the caps 0, 3 and 9 drop, cut and *)
(* leave alone.                                                            *)
(***************************************************************************)
EXTENDS EntryPlan, TLC

CodeSymmetry == Permutations(Codes)

MCPrices == {7, 20}
MCCaps == {0, 3, 9}
MCCashes == {0, 40, 100}
MCHeldValues == {0, 35, 60}
=============================================================================
