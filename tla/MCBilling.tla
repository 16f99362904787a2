----------------------------- MODULE MCBilling -----------------------------
(* Plans for checking Billing alone; MCBackground checks it too. *)
EXTENDS Billing, TLC

CONSTANTS p1, p2

BothPlans    == {p1, p2}
OneAndTwoDays == (p1 :> 1) @@ (p2 :> 2)
=============================================================================
