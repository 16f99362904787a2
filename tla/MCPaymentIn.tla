---------------------------- MODULE MCPaymentIn -----------------------------
(* Model values for checking PaymentIn with TLC. *)
EXTENDS PaymentIn

CONSTANTS hook1, poll1, refresh1, r1, r2

OneHook    == {hook1}
OnePoll    == {poll1}
OneRefresh == {refresh1}
Nobody     == {}
OneRef     == {r1}
TwoRefs    == {r1, r2}

OneCollection  == {<<"collection", r1>>}
TwoCollections == {<<"collection", r1>>, <<"collection", r2>>}
BothKinds      == {<<"collection", r1>>, <<"deposit", r2>>}
SharedRef      == {<<"collection", r1>>, <<"deposit", r1>>}
=============================================================================
