---------------------------- MODULE MCSpecEngine ----------------------------
(* SpecEngine over a few bars: quiet days at three prices, a fall within the *)
(* day, and an open below the stop with a recovery.                         *)
EXTENDS SpecEngine

Flat(price) == [open |-> price, low |-> price, close |-> price]

MCBars == {Flat(10), Flat(20), Flat(30),
           [open |-> 20, low |-> 10, close |-> 20],
           [open |-> 10, low |-> 10, close |-> 20]}
=============================================================================
