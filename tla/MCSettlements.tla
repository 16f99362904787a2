--------------------------- MODULE MCSettlements ---------------------------
(* A fee schedule for checking Settlements alone; MCServices checks it too. *)
EXTENDS Settlements

TwoTiers == [threshold |-> 3, belowBps |-> 5000, aboveBps |-> 2000]
=============================================================================
