----------------------------- MODULE MCPayouts ------------------------------
(* Model values for checking Payouts with TLC. *)
EXTENDS Payouts, TLC

CONSTANTS hook1, poll1, p1, p2, r1

None       == {}
OneHook    == {hook1}
OnePoll    == {poll1}
OnePayout  == {p1}
OtherPayout == {p2}
TwoPayouts == {p1, p2}
OneRef     == {r1}

NoRefs   == [p \in {p1, p2} |-> NoReference]
SameRefs == [p \in {p1, p2} |-> r1]
=============================================================================
