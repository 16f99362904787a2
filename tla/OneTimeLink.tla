--------------------------- MODULE OneTimeLink ---------------------------
(***************************************************************************)
(* What a payout link promises: it can be used while it is open, once, and *)
(* by nobody after that; only its user can be paid, and once.              *)
(***************************************************************************)
EXTENDS Naturals
CONSTANTS Links, Users, NoUser
VARIABLES user,   \* who used a link
          open,   \* links that have not expired
          paid    \* payouts made for a link

Init == /\ user = [l \in Links |-> NoUser]
        /\ open \in SUBSET Links
        /\ paid = [l \in Links |-> 0]

Issue(l) == l \notin open /\ user[l] = NoUser /\ open' = open \cup {l} /\ UNCHANGED <<user, paid>>
Expire == open' \subseteq open /\ UNCHANGED <<user, paid>>
Use(l, u) == /\ l \in open /\ user[l] = NoUser
             /\ user' = [user EXCEPT ![l] = u] /\ UNCHANGED <<open, paid>>
Pay(l) == /\ user[l] # NoUser /\ paid[l] = 0
          /\ paid' = [paid EXCEPT ![l] = 1] /\ UNCHANGED <<user, open>>

Next == \/ Expire
        \/ \E l \in Links : Issue(l) \/ Pay(l) \/ \E u \in Users : Use(l, u)

vars == <<user, open, paid>>

Spec == Init /\ [][Next]_vars
=============================================================================
