--------------------------- MODULE PayoutPromise ----------------------------
(***************************************************************************)
(* What a payout promises the merchant: the money taken from the wallet is *)
(* either paid out, or comes back once: when the payout fails, or when the *)
(* provider takes it back after it was paid.                               *)
(***************************************************************************)
CONSTANT Payouts

VARIABLE money   \* "free", "held", "paid", "reversed" or "returned"

Init == money = [p \in Payouts |-> "free"]

Change(p, from, to) ==
    /\ money[p] = from
    /\ money' = [money EXCEPT ![p] = to]

\* A batch takes the money of all its payouts in one movement.
Hold(ps) ==
    /\ \A p \in ps : money[p] = "free"
    /\ money' = [p \in Payouts |-> IF p \in ps THEN "held" ELSE money[p]]

Pay(p)     == Change(p, "held", "paid")
Reverse(p) == Change(p, "paid", "reversed")
Return(p)  == Change(p, "held", "returned") \/ Change(p, "reversed", "returned")

Next ==
    \/ \E ps \in SUBSET Payouts : Hold(ps)
    \/ \E p \in Payouts : Pay(p) \/ Reverse(p) \/ Return(p)

Safety == Init /\ [][Next]_money

=============================================================================
