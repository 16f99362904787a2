--------------------------- MODULE ServicesProofs --------------------------
(***************************************************************************)
(* Payout links, accounts and the portals for any number of links, tabs,   *)
(* accounts, keys, pages, requests and failures: one payout per link and   *)
(* the refinement of OneTimeLink, requests refused while their reason      *)
(* lasts, lists that show what their controls say, forms that create once, *)
(* an account page that settles.  Settlements has a module of its own.     *)
(***************************************************************************)
EXTENDS MCServices, FiniteSetTheorems, SequenceTheorems, TLAPS

-----------------------------------------------------------------------------
(* The run picks a part and is a behaviour of that part.                   *)

LEMMA SumOfParts ==
  /\ SumInit => L!Init /\ A!Init /\ P!Init /\ F!Init /\ G!Init
  /\ [SumNext]_vars => /\ [L!Next]_(L!plvars) /\ [A!Next]_(A!avars) /\ [P!Next]_(P!lvars)
                       /\ [F!Next]_(F!fvars) /\ [G!Next]_(G!pvars)
<1>. USE DEF vars, linkVars, accountVars, listVars, formVars, pageVars,
             L!plvars, A!avars, P!lvars, F!fvars, G!pvars
<1>1. SumInit => L!Init /\ A!Init /\ P!Init /\ F!Init /\ G!Init
  BY DEF SumInit
<1>2. [SumNext]_vars => /\ [L!Next]_(L!plvars) /\ [A!Next]_(A!avars) /\ [P!Next]_(P!lvars)
                        /\ [F!Next]_(F!fvars) /\ [G!Next]_(G!pvars)
  BY DEF SumNext
<1>. QED
  BY <1>1, <1>2

-----------------------------------------------------------------------------
(* Payout links.                                                           *)

\* A tab has opened one link, "none" is no session, and links live for a while.
LinkConstants ==
  /\ LinkOf \in [Sessions -> Links]
  /\ "none" \notin Sessions
  /\ Lifetime \in Nat \ {0}

LinkRows == [expiresAt: Nat, by: Sessions \cup {"none"},
             phone: Phones \cup {"none"}, payout: BOOLEAN]
PaidRows == [times: Nat, phone: Phones \cup {"none"}]
Pages    == [view: {"loading", "open", "error", "left"}, recipient: Phones \cup {"none"}]
Stages   == {"idle", "resolve", "redeem", "pay", "record"}
LinkRequests == [at: Stages, phone: Phones \cup {"none"}]

\* The bounds count in "used", which no other variable depends on.
LinkTypeOK ==
  /\ now \in Nat
  /\ link \in [Links -> LinkRows]
  /\ paid \in [Links -> PaidRows]
  /\ page \in [Sessions -> Pages]
  /\ previews \in [Sessions -> SUBSET Phones]
  /\ req \in [Sessions -> LinkRequests]

\* Nobody is paid without the link; a link is used after it was created.
UsedFirst ==
  \A l \in Links : link[l].by = "none" => paid[l].times = 0
CreatedFirst ==
  \A l \in Links : link[l].expiresAt = 0 => link[l].by = "none"

\* The session about to pay is the one that used the link, and nobody has paid.
PayerOwns ==
  \A s \in Sessions : req[s].at = "pay" =>
    /\ link[LinkOf[s]].by = s
    /\ paid[LinkOf[s]].times = 0
    /\ link[LinkOf[s]].phone = req[s].phone
RecordedIsPaid ==
  \A s \in Sessions : req[s].at = "record" => paid[LinkOf[s]].times > 0

LinkInv ==
  /\ LinkTypeOK /\ UsedFirst /\ CreatedFirst /\ PayerOwns /\ RecordedIsPaid
  /\ L!PaidOnce /\ L!LinkTellsPayout

-----------------------------------------------------------------------------
LEMMA InitLinkInv == ASSUME L!Init PROVE LinkInv
BY DEF L!Init, LinkInv, LinkTypeOK, LinkRows, PaidRows, Pages, LinkRequests, Stages, UsedFirst,
       CreatedFirst, PayerOwns, RecordedIsPaid, L!PaidOnce, L!LinkTellsPayout

\* Steps that leave the links and the payouts alone and bring no session to
\* its payment keep everything but the types.
LEMMA OtherSteps ==
  ASSUME LinkInv, LinkTypeOK', link' = link, paid' = paid,
         \A s \in Sessions : req'[s].at \in {"pay", "record"} => req'[s] = req[s]
  PROVE  LinkInv'
<1>1. UsedFirst' /\ CreatedFirst' /\ L!PaidOnce' /\ L!LinkTellsPayout'
  BY DEF LinkInv, UsedFirst, CreatedFirst, L!PaidOnce, L!LinkTellsPayout
<1>2. PayerOwns'
  BY DEF LinkInv, PayerOwns
<1>3. RecordedIsPaid'
  BY DEF LinkInv, RecordedIsPaid
<1>. QED
  BY <1>1, <1>2, <1>3 DEF LinkInv

\* A session at the service goes on to another stage.
LEMMA AdvanceReq ==
  ASSUME LinkTypeOK, NEW s \in Sessions, NEW stage \in Stages, L!Advance(s, stage)
  PROVE  /\ req' \in [Sessions -> LinkRequests]
         /\ \A r \in Sessions : req'[r] = IF r = s THEN [req[s] EXCEPT !.at = stage] ELSE req[r]
<1>1. req[s] \in LinkRequests
  BY DEF LinkTypeOK
<1>2. [req[s] EXCEPT !.at = stage] \in LinkRequests
  BY <1>1 DEF LinkRequests
<1>3. req' = [req EXCEPT ![s] = [req[s] EXCEPT !.at = stage]]
  BY DEF L!Advance
<1>. QED
  BY <1>2, <1>3 DEF LinkTypeOK

\* A stage that is no payment keeps everything about payments.
LEMMA AdvanceInv ==
  ASSUME LinkInv, NEW s \in Sessions, NEW stage \in {"idle", "resolve", "redeem"}, L!Advance(s, stage),
         UNCHANGED <<now, link, paid, page, previews>>
  PROVE  LinkInv'
<1>1. /\ req' \in [Sessions -> LinkRequests]
      /\ \A r \in Sessions : req'[r] = IF r = s THEN [req[s] EXCEPT !.at = stage] ELSE req[r]
  <2>1. LinkTypeOK
    BY DEF LinkInv
  <2>2. stage \in Stages
    BY DEF Stages
  <2>. QED
    BY <2>1, <2>2, AdvanceReq
<1>2. LinkTypeOK'
  BY <1>1 DEF LinkInv, LinkTypeOK
<1>3. req[s] \in LinkRequests
  BY DEF LinkInv, LinkTypeOK
<1>4. ASSUME NEW r \in Sessions, req'[r].at \in {"pay", "record"}
      PROVE  req'[r] = req[r]
  BY <1>1, <1>3, <1>4 DEF LinkRequests
<1>. QED
  BY <1>2, <1>4, OtherSteps

LEMMA NextLinkInv ==
  ASSUME LinkConstants, LinkInv, [L!Next]_L!plvars
  PROVE  LinkInv'
<1>. USE DEF LinkConstants
<1>1. CASE UNCHANGED L!plvars
  BY <1>1 DEF L!plvars, LinkInv, LinkTypeOK, UsedFirst, CreatedFirst, PayerOwns, RecordedIsPaid,
              L!PaidOnce, L!LinkTellsPayout
<1>2. ASSUME NEW l \in Links, L!CreateLink(l)
      PROVE  LinkInv'
  <2>. DEFINE r == [link[l] EXCEPT !.expiresAt = now + Lifetime]
  <2>1. link[l] \in LinkRows /\ now \in Nat
    BY DEF LinkInv, LinkTypeOK
  <2>2. /\ r \in LinkRows /\ r.expiresAt > 0
        /\ r.by = link[l].by /\ r.phone = link[l].phone /\ r.payout = link[l].payout
    BY <2>1 DEF LinkRows
  <2>3. link' = [link EXCEPT ![l] = r] /\ UNCHANGED <<now, paid, page, previews, req>>
    BY <1>2 DEF L!CreateLink
  <2>. HIDE DEF r
  <2>4. LinkTypeOK'
    BY <2>2, <2>3 DEF LinkInv, LinkTypeOK
  <2>5. UsedFirst' /\ CreatedFirst' /\ L!PaidOnce' /\ L!LinkTellsPayout'
    BY <2>2, <2>3 DEF LinkInv, LinkTypeOK, UsedFirst, CreatedFirst, L!PaidOnce, L!LinkTellsPayout
  <2>6. PayerOwns' /\ RecordedIsPaid'
    BY <2>2, <2>3 DEF LinkInv, LinkTypeOK, PayerOwns, RecordedIsPaid
  <2>. QED
    BY <2>4, <2>5, <2>6 DEF LinkInv
<1>3. ASSUME NEW s \in Sessions, L!Load(s) \/ L!ChangeDetails(s)
      PROVE  LinkInv'
  <2>1. PICK view \in {"loading", "open", "error", "left"}, recipient \in Phones \cup {"none"} :
          page' = [page EXCEPT ![s] = [view |-> view, recipient |-> recipient]]
    <3>1. page[s] \in Pages
      BY DEF LinkInv, LinkTypeOK
    <3>2. \/ page' = [page EXCEPT ![s] =
                        [page[s] EXCEPT !.view = IF L!Active(LinkOf[s]) THEN "open" ELSE "error"]]
          \/ page' = [page EXCEPT ![s] = [page[s] EXCEPT !.recipient = "none"]]
      BY <1>3 DEF L!Load, L!ChangeDetails
    <3>. QED
      BY <3>1, <3>2 DEF Pages
  <2>2. UNCHANGED <<now, link, paid, previews, req>>
    BY <1>3 DEF L!Load, L!ChangeDetails
  <2>3. LinkTypeOK'
    BY <2>1, <2>2 DEF LinkInv, LinkTypeOK, Pages
  <2>. QED
    BY <2>2, <2>3, OtherSteps
<1>4. ASSUME NEW s \in Sessions, L!Confirm(s)
      PROVE  LinkInv'
  <2>1. page[s].recipient \in Phones \cup {"none"}
    BY DEF LinkInv, LinkTypeOK, Pages
  <2>2. /\ req' = [req EXCEPT ![s] = [at |-> "resolve", phone |-> page[s].recipient]]
        /\ UNCHANGED <<now, link, paid, page, previews>>
    BY <1>4 DEF L!Confirm
  <2>3. LinkTypeOK'
    BY <2>1, <2>2 DEF LinkInv, LinkTypeOK, LinkRequests, Stages
  <2>. QED
    BY <2>2, <2>3, OtherSteps DEF LinkInv, LinkTypeOK
<1>5. ASSUME NEW s \in Sessions, NEW p \in Phones, L!Preview(s, p) \/ L!PreviewAnswered(s, p)
      PROVE  LinkInv'
  <2>1. previews' \in [Sessions -> SUBSET Phones]
    BY <1>5 DEF L!Preview, L!PreviewAnswered, LinkInv, LinkTypeOK
  <2>2. page' \in [Sessions -> Pages]
    <3>1. [page[s] EXCEPT !.recipient = p] \in Pages
      BY DEF LinkInv, LinkTypeOK, Pages
    <3>2. page' = page \/ page' = [page EXCEPT ![s] = [page[s] EXCEPT !.recipient = p]]
      BY <1>5 DEF L!Preview, L!PreviewAnswered
    <3>. QED
      BY <3>1, <3>2 DEF LinkInv, LinkTypeOK
  <2>3. UNCHANGED <<now, link, paid, req>>
    BY <1>5 DEF L!Preview, L!PreviewAnswered
  <2>4. LinkTypeOK'
    BY <2>1, <2>2, <2>3 DEF LinkInv, LinkTypeOK
  <2>. QED
    BY <2>3, <2>4, OtherSteps
<1>6. ASSUME NEW s \in Sessions, L!Resolve(s) \/ L!Fail(s)
      PROVE  LinkInv'
  <2>1. PICK stage \in {"idle", "resolve", "redeem"} : L!Advance(s, stage)
    BY <1>6 DEF L!Resolve, L!Fail
  <2>. QED
    BY <1>6, <2>1, AdvanceInv DEF L!Resolve, L!Fail
<1>7. CASE L!Tick
  <2>1. LinkTypeOK'
    BY <1>7 DEF L!Tick, LinkInv, LinkTypeOK
  <2>. QED
    BY <1>7, <2>1, OtherSteps DEF L!Tick
<1>8. ASSUME NEW s \in Sessions, L!Redeem(s)
      PROVE  LinkInv'
  <2>. DEFINE l == LinkOf[s]
  <2>1. CASE ~L!Redeemable(l)
    BY <1>8, <2>1, AdvanceInv DEF L!Redeem
  <2>2. CASE L!Redeemable(l)
    <3>. DEFINE r == [link[l] EXCEPT !.by = s, !.phone = req[s].phone]
    <3>1. link[l] \in LinkRows /\ req[s] \in LinkRequests /\ l \in Links /\ now \in Nat
      BY DEF LinkInv, LinkTypeOK
    <3>2. link[l].by = "none" /\ link[l].expiresAt > 0 /\ paid[l].times = 0
      BY <2>2, <3>1 DEF L!Redeemable, LinkInv, UsedFirst, LinkRows
    <3>3. /\ r \in LinkRows /\ r.by = s /\ r.phone = req[s].phone
          /\ r.expiresAt > 0 /\ r.payout = link[l].payout
      BY <3>1, <3>2 DEF LinkRows, LinkRequests
    <3>4. link' = [link EXCEPT ![l] = r] /\ L!Advance(s, "pay")
          /\ UNCHANGED <<now, paid, page, previews>>
      BY <1>8, <2>2 DEF L!Redeem
    <3>5. /\ req' \in [Sessions -> LinkRequests]
          /\ \A q \in Sessions : req'[q] = IF q = s THEN [req[s] EXCEPT !.at = "pay"] ELSE req[q]
      BY <3>4, AdvanceReq DEF LinkInv, Stages
    <3>6. req'[s].at = "pay" /\ req'[s].phone = req[s].phone
      BY <3>1, <3>5 DEF LinkRequests
    <3>. HIDE DEF r
    <3>7. LinkTypeOK'
      BY <3>3, <3>4, <3>5 DEF LinkInv, LinkTypeOK
    <3>8. UsedFirst' /\ CreatedFirst' /\ L!PaidOnce' /\ L!LinkTellsPayout'
      BY <3>1, <3>2, <3>3, <3>4
         DEF LinkInv, LinkTypeOK, UsedFirst, CreatedFirst, L!PaidOnce, L!LinkTellsPayout
    <3>9. PayerOwns'
      <4>. SUFFICES ASSUME NEW q \in Sessions, req'[q].at = "pay"
                    PROVE  /\ link'[LinkOf[q]].by = q /\ paid'[LinkOf[q]].times = 0
                           /\ link'[LinkOf[q]].phone = req'[q].phone
        BY DEF PayerOwns
      <4>1. CASE q = s
        BY <3>1, <3>2, <3>3, <3>4, <3>6, <4>1 DEF LinkInv, LinkTypeOK
      <4>2. CASE q # s
        <5>1. req'[q] = req[q]
          BY <3>5, <4>2
        <5>2. link[LinkOf[q]].by = q
          BY <5>1 DEF LinkInv, PayerOwns
        <5>3. LinkOf[q] # l
          BY <3>2, <5>2
        <5>. QED
          BY <3>4, <5>1, <5>3 DEF LinkInv, LinkTypeOK, PayerOwns
      <4>. QED
        BY <4>1, <4>2
    <3>10. RecordedIsPaid'
      BY <3>4, <3>5, <3>6 DEF LinkInv, RecordedIsPaid
    <3>. QED
      BY <3>7, <3>8, <3>9, <3>10 DEF LinkInv
  <2>. QED
    BY <2>1, <2>2
<1>9. ASSUME NEW s \in Sessions, L!Pay(s)
      PROVE  LinkInv'
  <2>. DEFINE l == LinkOf[s]
              r == [times |-> 1, phone |-> req[s].phone]
  <2>1. /\ link[l].by = s /\ paid[l].times = 0 /\ link[l].phone = req[s].phone
        /\ req[s] \in LinkRequests /\ l \in Links
    BY <1>9 DEF L!Pay, LinkInv, LinkTypeOK, PayerOwns
  <2>2. /\ paid' = [paid EXCEPT ![l] = r] /\ L!Advance(s, "record")
        /\ UNCHANGED <<now, link, page, previews>>
    <3>1. paid[l].times + 1 = 1
      BY <2>1
    <3>. QED
      BY <1>9, <3>1 DEF L!Pay
  <2>3. /\ req' \in [Sessions -> LinkRequests]
        /\ \A q \in Sessions : req'[q] = IF q = s THEN [req[s] EXCEPT !.at = "record"] ELSE req[q]
    BY <2>2, AdvanceReq DEF LinkInv, Stages
  <2>4. req'[s].at = "record"
    BY <2>1, <2>3 DEF LinkRequests
  <2>5. r \in PaidRows /\ r.times = 1 /\ r.phone = link[l].phone
    BY <2>1 DEF PaidRows, LinkRequests
  <2>. HIDE DEF r
  <2>6. LinkTypeOK'
    BY <2>2, <2>3, <2>5 DEF LinkInv, LinkTypeOK
  <2>7. UsedFirst' /\ CreatedFirst' /\ L!PaidOnce' /\ L!LinkTellsPayout'
    BY <2>1, <2>2, <2>5 DEF LinkConstants, LinkInv, LinkTypeOK, UsedFirst, CreatedFirst, L!PaidOnce,
                            L!LinkTellsPayout
  \* Nobody else is about to pay this link: its user is s.
  <2>8. PayerOwns'
    <3>. SUFFICES ASSUME NEW q \in Sessions, req'[q].at = "pay"
                  PROVE  /\ link'[LinkOf[q]].by = q /\ paid'[LinkOf[q]].times = 0
                         /\ link'[LinkOf[q]].phone = req'[q].phone
      BY DEF PayerOwns
    <3>1. q # s /\ req'[q] = req[q]
      BY <2>3, <2>4
    <3>2. link[LinkOf[q]].by = q /\ paid[LinkOf[q]].times = 0 /\ link[LinkOf[q]].phone = req[q].phone
      BY <3>1 DEF LinkInv, PayerOwns
    <3>3. LinkOf[q] # l
      BY <2>1, <3>1, <3>2
    <3>. QED
      BY <2>2, <3>1, <3>2, <3>3 DEF LinkInv, LinkTypeOK
  <2>9. RecordedIsPaid'
    BY <2>1, <2>2, <2>3, <2>5 DEF LinkInv, LinkTypeOK, RecordedIsPaid
  <2>. QED
    BY <2>6, <2>7, <2>8, <2>9 DEF LinkInv
<1>10. ASSUME NEW s \in Sessions, L!Record(s)
      PROVE  LinkInv'
  <2>. DEFINE l == LinkOf[s]
              r == [link[l] EXCEPT !.payout = TRUE]
  <2>1. paid[l].times > 0 /\ l \in Links /\ link[l] \in LinkRows /\ req[s] \in LinkRequests
    BY <1>10 DEF L!Record, LinkInv, LinkTypeOK, RecordedIsPaid
  <2>2. /\ link' = [link EXCEPT ![l] = r] /\ UNCHANGED <<now, paid, previews>>
        /\ page' = [page EXCEPT ![s] = [page[s] EXCEPT !.view = "left"]] /\ L!Advance(s, "idle")
    BY <1>10 DEF L!Record
  <2>3. /\ r \in LinkRows /\ r.by = link[l].by
        /\ r.phone = link[l].phone /\ r.expiresAt = link[l].expiresAt
    BY <2>1 DEF LinkRows
  <2>. HIDE DEF r
  <2>4. /\ req' \in [Sessions -> LinkRequests]
        /\ \A q \in Sessions : req'[q] = IF q = s THEN [req[s] EXCEPT !.at = "idle"] ELSE req[q]
    BY <2>2, AdvanceReq DEF LinkInv, Stages
  <2>5. req'[s].at = "idle"
    BY <2>1, <2>4 DEF LinkRequests
  <2>6. page' \in [Sessions -> Pages]
    <3>1. [page[s] EXCEPT !.view = "left"] \in Pages
      BY DEF LinkInv, LinkTypeOK, Pages
    <3>. QED
      BY <2>2, <3>1 DEF LinkInv, LinkTypeOK
  <2>7. LinkTypeOK'
    BY <2>2, <2>3, <2>4, <2>6 DEF LinkInv, LinkTypeOK
  <2>8. UsedFirst' /\ CreatedFirst' /\ L!PaidOnce' /\ L!LinkTellsPayout'
    BY <2>1, <2>2, <2>3 DEF LinkInv, LinkTypeOK, UsedFirst, CreatedFirst, L!PaidOnce, L!LinkTellsPayout
  <2>9. PayerOwns' /\ RecordedIsPaid'
    BY <2>2, <2>3, <2>4, <2>5 DEF LinkInv, LinkTypeOK, PayerOwns, RecordedIsPaid
  <2>. QED
    BY <2>7, <2>8, <2>9 DEF LinkInv
<1>. QED
  BY <1>1, <1>2, <1>3, <1>4, <1>5, <1>6, <1>7, <1>8, <1>9, <1>10 DEF L!Next

(***************************************************************************)
(* confirmPayoutLink: whatever tabs confirm, fail and confirm again, a     *)
(* link is paid at most once.                                              *)
(***************************************************************************)
THEOREM LinkPaidOnce == ASSUME LinkConstants PROVE L!Spec => []L!PaidOnce
<1>1. L!Init => LinkInv
  BY InitLinkInv
<1>2. LinkInv /\ [L!Next]_L!plvars => LinkInv'
  BY NextLinkInv
<1>3. LinkInv => L!PaidOnce
  BY DEF LinkInv
<1>. QED
  BY <1>1, <1>2, <1>3, PTL DEF L!Spec

(***************************************************************************)
(* confirmPayoutLink: the link's row names who was paid, and the payout it *)
(* records was made.                                                       *)
(***************************************************************************)
THEOREM LinkRowHonest == ASSUME LinkConstants PROVE L!Spec => []L!LinkTellsPayout
<1>1. L!Init => LinkInv
  BY InitLinkInv
<1>2. LinkInv /\ [L!Next]_L!plvars => LinkInv'
  BY NextLinkInv
<1>3. LinkInv => L!LinkTellsPayout
  BY DEF LinkInv
<1>. QED
  BY <1>1, <1>2, <1>3, PTL DEF L!Spec

-----------------------------------------------------------------------------
(* The refinement.                                                         *)

LEMMA InitPromise == ASSUME LinkConstants, L!Init PROVE L!Promise!Init
BY DEF LinkConstants, L!Init, L!Promise!Init

\* What a step that changes neither links nor payouts nor the clock does.
LEMMA PromiseStutters ==
  ASSUME now' = now, paid' = paid,
         \A l \in Links : link'[l].by = link[l].by /\ link'[l].expiresAt = link[l].expiresAt
  PROVE  UNCHANGED L!Promise!vars
BY DEF L!Promise!vars

LEMMA NextPromise ==
  ASSUME LinkConstants, LinkInv, [L!Next]_L!plvars
  PROVE  [L!Promise!Next]_L!Promise!vars
<1>. USE DEF LinkConstants
<1>1. CASE UNCHANGED L!plvars
  BY <1>1, PromiseStutters DEF L!plvars
<1>2. ASSUME NEW l \in Links, L!CreateLink(l)
      PROVE  L!Promise!Issue(l)
  <2>1. link[l] \in LinkRows /\ now \in Nat
    BY DEF LinkInv, LinkTypeOK
  <2>2. link[l].expiresAt = 0 /\ link[l].by = "none"
    BY <1>2 DEF L!CreateLink, LinkInv, CreatedFirst
  <2>3. /\ link' = [link EXCEPT ![l] = [link[l] EXCEPT !.expiresAt = now + Lifetime]]
        /\ now' = now /\ paid' = paid
    BY <1>2 DEF L!CreateLink
  <2>4. \A k \in Links : /\ link'[k].by = link[k].by
                         /\ link'[k].expiresAt = IF k = l THEN now + Lifetime ELSE link[k].expiresAt
    BY <2>1, <2>3 DEF LinkRows, LinkInv, LinkTypeOK
  <2>5. ~(link[l].expiresAt > now) /\ now + Lifetime > now
    BY <2>1, <2>2
  <2>. QED
    BY <2>2, <2>3, <2>4, <2>5 DEF L!Promise!Issue
<1>3. ASSUME NEW s \in Sessions, L!Redeem(s), L!Redeemable(LinkOf[s])
      PROVE  L!Promise!Use(LinkOf[s], s)
  <2>. DEFINE l == LinkOf[s]
  <2>1. l \in Links /\ link[l] \in LinkRows /\ link[l].by = "none" /\ link[l].expiresAt > now
    BY <1>3 DEF L!Redeemable, LinkInv, LinkTypeOK
  <2>2. /\ link' = [link EXCEPT ![l] = [link[l] EXCEPT !.by = s, !.phone = req[s].phone]]
        /\ now' = now /\ paid' = paid
    BY <1>3 DEF L!Redeem
  <2>3. \A k \in Links : /\ link'[k].by = IF k = l THEN s ELSE link[k].by
                         /\ link'[k].expiresAt = link[k].expiresAt
    BY <2>1, <2>2 DEF LinkRows, LinkInv, LinkTypeOK
  <2>4. {k \in Links : link'[k].expiresAt > now'} = {k \in Links : link[k].expiresAt > now}
    BY <2>2, <2>3
  <2>5. [k \in Links |-> link'[k].by] = [[k \in Links |-> link[k].by] EXCEPT ![l] = s]
    BY <2>1, <2>3
  <2>. QED
    BY <2>1, <2>2, <2>4, <2>5 DEF L!Promise!Use
<1>4. ASSUME NEW s \in Sessions, L!Pay(s)
      PROVE  L!Promise!Pay(LinkOf[s])
  <2>. DEFINE l == LinkOf[s]
  <2>1. l \in Links /\ link[l].by = s /\ paid[l].times = 0
    BY <1>4 DEF L!Pay, LinkInv, LinkTypeOK, PayerOwns
  <2>2. paid' = [paid EXCEPT ![l] = [times |-> 1, phone |-> req[s].phone]] /\ link' = link /\ now' = now
    <3>1. paid[l].times + 1 = 1
      BY <2>1
    <3>. QED
      BY <1>4, <3>1 DEF L!Pay
  <2>3. \A k \in Links : paid'[k].times = IF k = l THEN 1 ELSE paid[k].times
    BY <2>1, <2>2 DEF LinkInv, LinkTypeOK
  <2>. QED
    BY <2>1, <2>2, <2>3 DEF L!Promise!Pay
<1>5. ASSUME NEW s \in Sessions, L!Record(s)
      PROVE  UNCHANGED L!Promise!vars
  <2>1. LinkOf[s] \in Links /\ link[LinkOf[s]] \in LinkRows
    BY DEF LinkInv, LinkTypeOK
  <2>2. /\ link' = [link EXCEPT ![LinkOf[s]] = [link[LinkOf[s]] EXCEPT !.payout = TRUE]]
        /\ now' = now /\ paid' = paid
    BY <1>5 DEF L!Record
  <2>3. \A k \in Links : link'[k].by = link[k].by /\ link'[k].expiresAt = link[k].expiresAt
    BY <2>1, <2>2 DEF LinkRows, LinkInv, LinkTypeOK
  <2>. QED
    BY <2>2, <2>3, PromiseStutters
\* As time passes links close.
<1>6. CASE L!Tick
  <2>1. \A l \in Links : link[l].expiresAt \in Nat
    BY DEF LinkInv, LinkTypeOK, LinkRows
  <2>2. now \in Nat /\ now' = now + 1 /\ link' = link /\ paid' = paid
    BY <1>6 DEF L!Tick, LinkInv, LinkTypeOK
  <2>. QED
    BY <2>1, <2>2 DEF L!Promise!Next, L!Promise!Expire
<1>7. ASSUME NEW s \in Sessions,
             \/ L!Load(s) \/ L!ChangeDetails(s) \/ L!Confirm(s) \/ L!Resolve(s) \/ L!Fail(s)
             \/ L!Redeem(s) /\ ~L!Redeemable(LinkOf[s])
             \/ \E p \in Phones : L!Preview(s, p) \/ L!PreviewAnswered(s, p)
      PROVE  UNCHANGED L!Promise!vars
  <2>1. now' = now /\ link' = link /\ paid' = paid
    BY <1>7 DEF L!Load, L!ChangeDetails, L!Confirm, L!Resolve, L!Fail, L!Redeem, L!Preview,
                L!PreviewAnswered
  <2>. QED
    BY <2>1, PromiseStutters
<1>8. ASSUME NEW s \in Sessions PROVE LinkOf[s] \in Links
  OBVIOUS
<1>. QED
  BY <1>1, <1>2, <1>3, <1>4, <1>5, <1>6, <1>7, <1>8 DEF L!Next, L!Promise!Next

(***************************************************************************)
(* confirmPayoutLink and its pages implement the one-time link: used while *)
(* it is open, by one session, which alone is paid, and once.              *)
(***************************************************************************)
THEOREM LinkRefinesPromise ==
  ASSUME LinkConstants
  PROVE  /\ L!Spec  => ImplementsOneTimeLink
         /\ SumSpec => ImplementsOneTimeLink
<1>1. L!Init => LinkInv
  BY InitLinkInv
<1>2. LinkInv /\ [L!Next]_L!plvars => LinkInv'
  BY NextLinkInv
<1>3. L!Init => L!Promise!Init
  BY InitPromise
<1>4. LinkInv /\ [L!Next]_L!plvars => [L!Promise!Next]_L!Promise!vars
  BY NextPromise
<1>. QED
  BY <1>1, <1>2, <1>3, <1>4, SumOfParts, PTL
  DEF L!Spec, SumSpec, ImplementsOneTimeLink, L!ImplementsPromise, L!Promise!Spec

-----------------------------------------------------------------------------
(* Accounts and the guards of a request.                                   *)

\* Services are not named like the two other reasons to refuse a request.
ServiceNames == Services \cap {"revoked", "suspended"} = {}

AccountRows == [code : Codes \cup {A!NoCode}, status : {"ACTIVE", "SUSPENDED"},
                granted : SUBSET Services]
Operations == [at : {"idle", "create", "key", "revoke", "suspend", "activate"},
               account : Accounts \cup {A!NoAccount}, code : Codes \cup {A!NoCode},
               key : Keys \cup {"none"}]
MerchantRequests == [at : {"idle", "key", "account", "permissions", "judge", "admitted", "refused"},
                     key : Keys \cup {"none"}, service : Services \cup {"none"},
                     status : {"ACTIVE", "SUSPENDED"}, granted : SUBSET Services]

AccountTypeOK ==
  /\ account \in [Accounts -> AccountRows]
  /\ key \in [Keys -> [of : Accounts \cup {A!NoAccount}, revoked : BOOLEAN]]
  /\ op \in [Managers -> Operations]
  /\ request \in [Requests -> MerchantRequests]
  /\ doomed \in [Requests -> SUBSET (Services \cup {"revoked", "suspended"})]

\* A request under way came with an issued key for one service.
Identified(r) == /\ request[r].key \in Keys /\ request[r].service \in Services
                 /\ key[request[r].key].of \in Accounts /\ key[request[r].key].of # A!NoAccount

\* Why a request must be refused is still true of the rows, and what the guard
\* has read so far agrees with it.
RevocationSeen(r) ==
  "revoked" \in doomed[r] => key[request[r].key].revoked /\ request[r].at \in {"key", "refused"}

SuspensionSeen(r) ==
  "suspended" \in doomed[r] =>
    /\ account[key[request[r].key].of].status = "SUSPENDED"
    /\ request[r].at \in {"permissions", "judge"} => request[r].status = "SUSPENDED"

DenialSeen(r) ==
  \A s \in doomed[r] \cap Services :
    /\ s = request[r].service
    /\ s \notin account[key[request[r].key].of].granted
    /\ request[r].at = "judge" => s \notin request[r].granted

Consistent(r) ==
  IF request[r].at = "idle" THEN doomed[r] = {}
  ELSE /\ Identified(r) /\ RevocationSeen(r) /\ SuspensionSeen(r) /\ DenialSeen(r)
       /\ request[r].at = "admitted" => doomed[r] = {}

GuardInv == AccountTypeOK /\ \A r \in Requests : Consistent(r)

LEMMA GuardInit ==
  ASSUME A!Init
  PROVE  GuardInv
<1>1. AccountTypeOK
  BY DEF A!Init, AccountTypeOK, A!NotCreated, A!Free, AccountRows, Operations, MerchantRequests
<1>2. \A r \in Requests : Consistent(r)
  BY DEF A!Init, Consistent
<1>. QED
  BY <1>1, <1>2 DEF GuardInv

\* Administrators' steps that leave requests alone: codes come to be, keys are
\* issued and revoked, accounts are suspended, services denied.
LEMMA Stricter ==
  ASSUME GuardInv, AccountTypeOK', UNCHANGED <<request, doomed>>,
         \A k \in Keys : /\ key[k].of # A!NoAccount => key'[k].of = key[k].of
                         /\ key[k].revoked => key'[k].revoked,
         \A a \in Accounts : /\ account[a].status = "SUSPENDED" => account'[a].status = "SUSPENDED"
                             /\ account'[a].granted \subseteq account[a].granted
  PROVE  GuardInv'
<1>. SUFFICES ASSUME NEW r \in Requests, request[r].at # "idle"
     PROVE  Consistent(r)'
  BY DEF GuardInv, Consistent
<1>1. Consistent(r) /\ Identified(r) /\ RevocationSeen(r) /\ SuspensionSeen(r) /\ DenialSeen(r)
  BY DEF GuardInv, Consistent
<1>. DEFINE k == request[r].key
            a == key[request[r].key].of
<1>2. k \in Keys /\ a \in Accounts /\ a # A!NoAccount /\ key'[k].of = a
  BY <1>1 DEF Identified
<1>3. Identified(r)'
  BY <1>1, <1>2 DEF Identified
<1>4. RevocationSeen(r)'
  BY <1>1, <1>2 DEF RevocationSeen
<1>5. SuspensionSeen(r)'
  BY <1>1, <1>2 DEF SuspensionSeen
<1>6. DenialSeen(r)'
  BY <1>1, <1>2 DEF DenialSeen
<1>. QED
  BY <1>1, <1>3, <1>4, <1>5, <1>6 DEF Consistent

\* Steps that undo a reason redeem the requests of the account.
LEMMA Redeemed ==
  ASSUME GuardInv, AccountTypeOK', UNCHANGED <<request, key>>,
         NEW b \in Accounts, NEW why, A!Redeem(b, why),
         \A a \in Accounts \ {b} : account'[a] = account[a],
         \/ "suspended" \in why
         \/ account[b].status = "SUSPENDED" => account'[b].status = "SUSPENDED",
         account'[b].granted \subseteq account[b].granted \cup why
  PROVE  GuardInv'
<1>1. \A r \in Requests : doomed'[r] =
        IF request[r].at # "idle" /\ key[request[r].key].of = b THEN doomed[r] \ why ELSE doomed[r]
  BY DEF A!Redeem
<1>. SUFFICES ASSUME NEW r \in Requests
     PROVE  Consistent(r)'
  BY DEF GuardInv
<1>2. CASE request[r].at = "idle"
  BY <1>1, <1>2 DEF GuardInv, Consistent
<1>3. CASE request[r].at # "idle"
  <2>1. Consistent(r) /\ Identified(r) /\ RevocationSeen(r) /\ SuspensionSeen(r) /\ DenialSeen(r)
    BY <1>3 DEF GuardInv, Consistent
  <2>. DEFINE a == key[request[r].key].of
  <2>2. a \in Accounts /\ doomed'[r] = IF a = b THEN doomed[r] \ why ELSE doomed[r]
    BY <1>1, <1>3, <2>1 DEF Identified
  <2>3. Identified(r)'
    BY <2>1 DEF Identified
  <2>4. RevocationSeen(r)'
    BY <2>1, <2>2 DEF RevocationSeen
  <2>5. SuspensionSeen(r)'
    BY <2>1, <2>2 DEF SuspensionSeen
  <2>6. DenialSeen(r)'
    BY <2>1, <2>2 DEF DenialSeen
  <2>7. request[r].at = "admitted" => doomed'[r] = {}
    BY <1>3, <2>1, <2>2 DEF Consistent
  <2>. QED
    BY <1>3, <2>3, <2>4, <2>5, <2>6, <2>7 DEF Consistent
<1>. QED
  BY <1>2, <1>3

\* An account's status is set, if there is such an account.
LEMMA StatusSet ==
  ASSUME account \in [Accounts -> AccountRows], NEW b, NEW status \in {"ACTIVE", "SUSPENDED"}
  PROVE  [account EXCEPT ![b].status = status] \in [Accounts -> AccountRows]
<1>1. \A a \in Accounts : [account[a] EXCEPT !.status = status] \in AccountRows
  BY DEF AccountRows
<1>. QED
  BY <1>1

LEMMA AdminStep ==
  ASSUME GuardInv, NEW m \in Managers,
         \/ \E a \in Accounts : \/ A!BeginIssue(m, a) \/ A!BeginSuspend(m, a) \/ A!BeginActivate(m, a)
                                \/ \E c \in Codes : A!BeginCreate(m, a, c)
         \/ \E k \in Keys : A!IssueApiKey(m, k) \/ A!BeginRevoke(m, k)
         \/ A!CreateAccount(m) \/ A!RevokeApiKey(m) \/ A!Suspend(m) \/ A!Activate(m) \/ A!Fail(m)
  PROVE  GuardInv'
<1>t. AccountTypeOK /\ op[m] \in Operations /\ op \in [Managers -> Operations]
  BY DEF GuardInv, AccountTypeOK
<1>1. ASSUME NEW x \in Operations, op' = [op EXCEPT ![m] = x],
             UNCHANGED <<account, key, request, doomed>>
      PROVE  GuardInv'
  <2>1. AccountTypeOK'
    BY <1>t, <1>1 DEF AccountTypeOK
  <2>. QED
    BY <1>1, <2>1, Stricter
<1>2. A!Free \in Operations
  BY DEF A!Free, Operations
<1>3. ASSUME A!Done(m) PROVE op' \in [Managers -> Operations]
  BY <1>t, <1>2, <1>3 DEF A!Done
<1>4. ASSUME NEW a \in Accounts, NEW c \in Codes, A!BeginCreate(m, a, c) PROVE GuardInv'
  <2>. DEFINE x == [at |-> "create", account |-> a, code |-> c, key |-> "none"]
  <2>1. x \in Operations
    BY DEF Operations
  <2>2. op' = [op EXCEPT ![m] = x] /\ UNCHANGED <<account, key, request, doomed>>
    BY <1>4 DEF A!BeginCreate, A!Begin
  <2>. HIDE DEF x
  <2>. QED
    BY <1>1, <2>1, <2>2
<1>5. ASSUME NEW a \in Accounts, A!BeginIssue(m, a) \/ A!BeginSuspend(m, a) \/ A!BeginActivate(m, a)
      PROVE GuardInv'
  <2>. DEFINE x(at) == [at |-> at, account |-> a, code |-> A!NoCode, key |-> "none"]
  <2>1. \A at \in {"key", "suspend", "activate"} : x(at) \in Operations
    BY DEF Operations
  <2>2. /\ \E at \in {"key", "suspend", "activate"} : op' = [op EXCEPT ![m] = x(at)]
        /\ UNCHANGED <<account, key, request, doomed>>
    BY <1>5 DEF A!BeginIssue, A!BeginSuspend, A!BeginActivate, A!Begin
  <2>. HIDE DEF x
  <2>. QED
    BY <1>1, <2>1, <2>2
<1>6. ASSUME NEW k \in Keys, A!BeginRevoke(m, k) PROVE GuardInv'
  <2>. DEFINE x == [at |-> "revoke", account |-> key[k].of, code |-> A!NoCode, key |-> k]
  <2>1. x \in Operations
    BY <1>t DEF Operations, AccountTypeOK
  <2>2. op' = [op EXCEPT ![m] = x] /\ UNCHANGED <<account, key, request, doomed>>
    BY <1>6 DEF A!BeginRevoke, A!Begin
  <2>. HIDE DEF x
  <2>. QED
    BY <1>1, <2>1, <2>2
<1>7. ASSUME A!Fail(m) PROVE GuardInv'
  BY <1>1, <1>2, <1>7 DEF A!Fail, A!Done
<1>8. ASSUME A!CreateAccount(m) PROVE GuardInv'
  <2>. DEFINE a == op[m].account
              x == [op[m] EXCEPT !.at = "key"]
  <2>1. x \in Operations
    BY <1>t DEF Operations
  <2>2. op' = [op EXCEPT ![m] = x] \/ A!Done(m)
    BY <1>8 DEF A!CreateAccount
  <2>. HIDE DEF x
  <2>3. op' \in [Managers -> Operations]
    BY <1>t, <1>3, <2>1, <2>2
  <2>4. account' = account \/ account' = [account EXCEPT ![a].code = op[m].code]
    BY <1>8 DEF A!CreateAccount
  <2>5. account' \in [Accounts -> AccountRows]
    BY <1>t, <2>4 DEF AccountTypeOK, AccountRows, Operations
  <2>6. \A b \in Accounts : /\ account'[b].status = account[b].status
                            /\ account'[b].granted = account[b].granted
    BY <1>t, <2>4 DEF AccountTypeOK, AccountRows
  <2>7. UNCHANGED <<key, request, doomed>>
    BY <1>8 DEF A!CreateAccount
  <2>8. AccountTypeOK'
    BY <1>t, <2>3, <2>5, <2>7 DEF AccountTypeOK
  <2>. QED
    BY <2>6, <2>7, <2>8, Stricter
<1>9. ASSUME NEW k \in Keys, A!IssueApiKey(m, k) PROVE GuardInv'
  <2>1. key[k].of = A!NoAccount /\ key' = [key EXCEPT ![k].of = op[m].account]
        /\ A!Done(m) /\ UNCHANGED <<account, request, doomed>>
    BY <1>9 DEF A!IssueApiKey
  <2>2. AccountTypeOK'
    BY <1>t, <1>3, <2>1 DEF AccountTypeOK, Operations
  <2>3. \A l \in Keys : /\ key[l].of # A!NoAccount => key'[l].of = key[l].of
                        /\ key[l].revoked => key'[l].revoked
    BY <1>t, <2>1 DEF AccountTypeOK
  <2>. QED
    BY <2>1, <2>2, <2>3, Stricter
<1>10. ASSUME A!RevokeApiKey(m) PROVE GuardInv'
  <2>1. key' = [key EXCEPT ![op[m].key].revoked = TRUE]
        /\ A!Done(m) /\ UNCHANGED <<account, request, doomed>>
    BY <1>10 DEF A!RevokeApiKey
  <2>2. AccountTypeOK'
    BY <1>t, <1>3, <2>1 DEF AccountTypeOK
  <2>3. \A l \in Keys : key'[l].of = key[l].of /\ (key[l].revoked => key'[l].revoked)
    BY <1>t, <2>1 DEF AccountTypeOK
  <2>. QED
    BY <2>1, <2>2, <2>3, Stricter
<1>11. ASSUME A!Suspend(m) PROVE GuardInv'
  <2>1. account' = [account EXCEPT ![op[m].account].status = "SUSPENDED"]
        /\ A!Done(m) /\ UNCHANGED <<key, request, doomed>>
    BY <1>11 DEF A!Suspend
  <2>a. account' \in [Accounts -> AccountRows]
    BY <1>t, <2>1, StatusSet DEF AccountTypeOK
  <2>2. AccountTypeOK'
    BY <1>t, <1>3, <2>1, <2>a DEF AccountTypeOK
  <2>3. \A b \in Accounts : /\ account[b].status = "SUSPENDED" => account'[b].status = "SUSPENDED"
                            /\ account'[b].granted = account[b].granted
    BY <1>t, <2>1 DEF AccountTypeOK, AccountRows
  <2>. QED
    BY <2>1, <2>2, <2>3, Stricter
<1>12. ASSUME A!Activate(m) PROVE GuardInv'
  <2>. DEFINE b == op[m].account
  <2>1. account' = [account EXCEPT ![b].status = "ACTIVE"]
        /\ A!Done(m) /\ A!Redeem(b, {"suspended"}) /\ UNCHANGED <<key, request>>
    BY <1>12 DEF A!Activate
  <2>2. doomed' \in [Requests -> SUBSET (Services \cup {"revoked", "suspended"})]
    BY <1>t, <2>1 DEF A!Redeem, AccountTypeOK
  <2>a. account' \in [Accounts -> AccountRows]
    BY <1>t, <2>1, StatusSet DEF AccountTypeOK
  <2>3. AccountTypeOK'
    BY <1>t, <1>3, <2>1, <2>2, <2>a DEF AccountTypeOK
  <2>4. CASE b \in Accounts
    <3>1. /\ \A a \in Accounts \ {b} : account'[a] = account[a]
          /\ account'[b].granted = account[b].granted
      BY <1>t, <2>1, <2>4 DEF AccountTypeOK, AccountRows
    <3>. HIDE DEF b
    <3>. QED
      BY <2>1, <2>3, <2>4, <3>1, Redeemed
  <2>5. CASE b \notin Accounts
    <3>1. account' = account
      BY <1>t, <2>1, <2>5 DEF AccountTypeOK
    <3>2. \A r \in Requests : request[r].at # "idle" => key[request[r].key].of # b
      BY <2>5 DEF GuardInv, Consistent, Identified
    <3>3. \A r \in Requests : doomed'[r] = doomed[r]
      BY <2>1, <3>2 DEF A!Redeem
    <3>4. doomed' = doomed
      BY <1>t, <2>2, <3>3 DEF AccountTypeOK
    <3>. QED
      BY <2>1, <2>3, <3>1, <3>4, Stricter
  <2>. QED
    BY <2>4, <2>5
<1>. QED
  BY <1>4, <1>5, <1>6, <1>7, <1>8, <1>9, <1>10, <1>11, <1>12

LEMMA PermissionStep ==
  ASSUME ServiceNames, GuardInv, NEW a \in Accounts,
         NEW services \in SUBSET Services, NEW granted \in BOOLEAN,
         A!SetPermissions(a, services, granted)
  PROVE  GuardInv'
<1>t. AccountTypeOK
  BY DEF GuardInv
<1>1. /\ account' = [account EXCEPT ![a].granted = IF granted THEN @ \cup services ELSE @ \ services]
      /\ IF granted THEN A!Redeem(a, services) ELSE UNCHANGED doomed
      /\ UNCHANGED <<key, op, request>>
  BY DEF A!SetPermissions
<1>2. /\ \A b \in Accounts \ {a} : account'[b] = account[b]
      /\ account'[a].status = account[a].status
      /\ account'[a].granted = IF granted THEN account[a].granted \cup services
                                          ELSE account[a].granted \ services
  BY <1>t, <1>1 DEF AccountTypeOK, AccountRows
<1>3. account' \in [Accounts -> AccountRows]
  BY <1>t, <1>1 DEF AccountTypeOK, AccountRows
<1>4. doomed' \in [Requests -> SUBSET (Services \cup {"revoked", "suspended"})]
  BY <1>t, <1>1 DEF A!Redeem, AccountTypeOK
<1>5. AccountTypeOK'
  BY <1>t, <1>1, <1>3, <1>4 DEF AccountTypeOK
<1>6. CASE granted
  BY <1>1, <1>2, <1>5, <1>6, Redeemed
<1>7. CASE ~granted
  BY <1>1, <1>2, <1>5, <1>7, Stricter
<1>. QED
  BY <1>6, <1>7

LEMMA RequestStep ==
  ASSUME ServiceNames, GuardInv, NEW r \in Requests,
         \/ \E k \in Keys, s \in Services : A!Arrive(r, k, s)
         \/ A!ReadKey(r) \/ A!ReadAccount(r) \/ A!ReadPermissions(r) \/ A!Judge(r) \/ A!Answer(r)
  PROVE  GuardInv'
<1>t. /\ AccountTypeOK /\ request[r] \in MerchantRequests /\ Consistent(r)
      /\ doomed[r] \in SUBSET (Services \cup {"revoked", "suspended"})
  BY DEF GuardInv, AccountTypeOK
\* The step is one of this request alone.
<1>1. ASSUME NEW x \in MerchantRequests, request' = [request EXCEPT ![r] = x],
             UNCHANGED <<account, key, op>>,
             \/ doomed' = doomed
             \/ \E why \in SUBSET (Services \cup {"revoked", "suspended"}) :
                  doomed' = [doomed EXCEPT ![r] = why],
             Consistent(r)'
      PROVE  GuardInv'
  <2>1. AccountTypeOK'
    BY <1>t, <1>1 DEF AccountTypeOK
  <2>2. ASSUME NEW q \in Requests, q # r PROVE Consistent(q)'
    <3>1. request'[q] = request[q] /\ doomed'[q] = doomed[q] /\ Consistent(q)
      BY <1>t, <1>1, <2>2 DEF AccountTypeOK, GuardInv
    <3>. QED
      BY <1>1, <3>1 DEF Consistent, Identified, RevocationSeen, SuspensionSeen, DenialSeen
  <2>. QED
    BY <1>1, <2>1, <2>2 DEF GuardInv
<1>2. ASSUME NEW k \in Keys, NEW s \in Services, A!Arrive(r, k, s) PROVE GuardInv'
  <2>. DEFINE a == key[k].of
              x == [request[r] EXCEPT !.at = "key", !.key = k, !.service = s]
              why == (IF key[k].revoked THEN {"revoked"} ELSE {})
                     \cup (IF account[a].status = "SUSPENDED" THEN {"suspended"} ELSE {})
                     \cup ({s} \ account[a].granted)
  <2>1. /\ a # A!NoAccount /\ request' = [request EXCEPT ![r] = x]
        /\ doomed' = [doomed EXCEPT ![r] = why] /\ UNCHANGED <<account, key, op>>
    BY <1>2 DEF A!Arrive
  <2>2. x \in MerchantRequests /\ x.at = "key" /\ x.key = k /\ x.service = s
    BY <1>t DEF MerchantRequests
  <2>3. a \in Accounts
    BY <1>t, <2>1 DEF AccountTypeOK
  <2>4. why \in SUBSET (Services \cup {"revoked", "suspended"})
    OBVIOUS
  <2>5. /\ "revoked" \in why => key[k].revoked
        /\ "suspended" \in why => account[a].status = "SUSPENDED"
        /\ \A t \in why \cap Services : t = s /\ t \notin account[a].granted
    BY DEF ServiceNames
  <2>. HIDE DEF x, why
  <2>6. request'[r] = x /\ doomed'[r] = why /\ key' = key /\ account' = account
    BY <1>t, <2>1 DEF AccountTypeOK
  <2>7. Consistent(r)'
    BY <2>1, <2>2, <2>3, <2>5, <2>6
       DEF Consistent, Identified, RevocationSeen, SuspensionSeen, DenialSeen
  <2>. QED
    BY <1>1, <2>1, <2>2, <2>4, <2>7
<1>3. ASSUME request[r].at # "idle"
      PROVE  Identified(r) /\ RevocationSeen(r) /\ SuspensionSeen(r) /\ DenialSeen(r)
  BY <1>t, <1>3 DEF Consistent
<1>4. ASSUME A!ReadKey(r) PROVE GuardInv'
  <2>. DEFINE x == [request[r] EXCEPT !.at = IF A!KeyValid(request[r].key)
                                             THEN "account" ELSE "refused"]
  <2>1. /\ request[r].at = "key" /\ request' = [request EXCEPT ![r] = x]
        /\ UNCHANGED <<account, key, op, doomed>>
    BY <1>4 DEF A!ReadKey, A!Advance
  <2>2. /\ x \in MerchantRequests /\ x.key = request[r].key /\ x.service = request[r].service
        /\ x.at = IF A!KeyValid(request[r].key) THEN "account" ELSE "refused"
    BY <1>t DEF MerchantRequests
  <2>. HIDE DEF x
  <2>3. request'[r] = x
    BY <1>t, <2>1 DEF AccountTypeOK
  <2>4. Consistent(r)'
    BY <1>3, <2>1, <2>2, <2>3
    DEF Consistent, Identified, RevocationSeen, SuspensionSeen, DenialSeen, A!KeyValid
  <2>. QED
    BY <1>1, <2>1, <2>2, <2>4
<1>5. ASSUME A!ReadAccount(r) PROVE GuardInv'
  <2>. DEFINE a == key[request[r].key].of
              x == [request[r] EXCEPT !.at = "permissions", !.status = account[a].status]
  <2>1. /\ request[r].at = "account" /\ request' = [request EXCEPT ![r] = x]
        /\ UNCHANGED <<account, key, op, doomed>>
    BY <1>5 DEF A!ReadAccount
  <2>2. account[a].status \in {"ACTIVE", "SUSPENDED"}
    BY <1>t, <1>3, <2>1 DEF Identified, AccountTypeOK, AccountRows
  <2>3. /\ x \in MerchantRequests /\ x.key = request[r].key /\ x.service = request[r].service
        /\ x.at = "permissions" /\ x.status = account[a].status
    BY <1>t, <2>2 DEF MerchantRequests
  <2>. HIDE DEF x
  <2>4. request'[r] = x
    BY <1>t, <2>1 DEF AccountTypeOK
  <2>5. Consistent(r)'
    BY <1>3, <2>1, <2>3, <2>4
    DEF Consistent, Identified, RevocationSeen, SuspensionSeen, DenialSeen
  <2>. QED
    BY <1>1, <2>1, <2>3, <2>5
<1>6. ASSUME A!ReadPermissions(r) PROVE GuardInv'
  <2>. DEFINE a == key[request[r].key].of
              x == [request[r] EXCEPT !.at = "judge", !.granted = account[a].granted]
  <2>1. /\ request[r].at = "permissions" /\ request' = [request EXCEPT ![r] = x]
        /\ UNCHANGED <<account, key, op, doomed>>
    BY <1>6 DEF A!ReadPermissions
  <2>2. account[a].granted \in SUBSET Services
    BY <1>t, <1>3, <2>1 DEF Identified, AccountTypeOK, AccountRows
  <2>3. /\ x \in MerchantRequests /\ x.key = request[r].key /\ x.service = request[r].service
        /\ x.at = "judge" /\ x.status = request[r].status /\ x.granted = account[a].granted
    BY <1>t, <2>2 DEF MerchantRequests
  <2>. HIDE DEF x
  <2>4. request'[r] = x
    BY <1>t, <2>1 DEF AccountTypeOK
  <2>5. Consistent(r)'
    BY <1>3, <2>1, <2>3, <2>4
    DEF Consistent, Identified, RevocationSeen, SuspensionSeen, DenialSeen
  <2>. QED
    BY <1>1, <2>1, <2>3, <2>5
<1>7. ASSUME A!Judge(r) PROVE GuardInv'
  <2>. DEFINE x == [request[r] EXCEPT !.at = IF A!NotSuspended(r) /\ A!Granted(r)
                                             THEN "admitted" ELSE "refused"]
  <2>1. /\ request[r].at = "judge" /\ request' = [request EXCEPT ![r] = x]
        /\ UNCHANGED <<account, key, op, doomed>>
    BY <1>7 DEF A!Judge, A!Advance
  <2>2. /\ x \in MerchantRequests /\ x.key = request[r].key /\ x.service = request[r].service
        /\ x.at = IF A!NotSuspended(r) /\ A!Granted(r) THEN "admitted" ELSE "refused"
    BY <1>t DEF MerchantRequests
  <2>. HIDE DEF x
  <2>3. request'[r] = x
    BY <1>t, <2>1 DEF AccountTypeOK
  <2>4. A!NotSuspended(r) /\ A!Granted(r) => doomed[r] = {}
    <3>1. "revoked" \notin doomed[r]
      BY <1>3, <2>1 DEF RevocationSeen
    <3>2. A!NotSuspended(r) => "suspended" \notin doomed[r]
      BY <1>3, <2>1 DEF SuspensionSeen, A!NotSuspended
    <3>3. A!Granted(r) => doomed[r] \cap Services = {}
      BY <1>3, <2>1 DEF DenialSeen, A!Granted
    <3>. QED
      BY <1>t, <3>1, <3>2, <3>3
  <2>5. Consistent(r)'
    <3>1. "revoked" \notin doomed[r]
      BY <1>3, <2>1 DEF RevocationSeen
    <3>. QED
      BY <1>3, <2>1, <2>2, <2>3, <2>4, <3>1
      DEF Consistent, Identified, RevocationSeen, SuspensionSeen, DenialSeen
  <2>. QED
    BY <1>1, <2>1, <2>2, <2>5
<1>8. ASSUME A!Answer(r) PROVE GuardInv'
  <2>. DEFINE x == [request[r] EXCEPT !.at = "idle"]
  <2>1. /\ request' = [request EXCEPT ![r] = x] /\ doomed' = [doomed EXCEPT ![r] = {}]
        /\ UNCHANGED <<account, key, op>>
    BY <1>8 DEF A!Answer, A!Advance
  <2>2. x \in MerchantRequests /\ x.at = "idle"
    BY <1>t DEF MerchantRequests
  <2>. HIDE DEF x
  <2>3. Consistent(r)'
    BY <1>t, <2>1, <2>2 DEF Consistent, AccountTypeOK
  <2>. QED
    BY <1>1, <2>1, <2>2, <2>3
<1>. QED
  BY <1>2, <1>4, <1>5, <1>6, <1>7, <1>8

LEMMA GuardStep ==
  ASSUME ServiceNames, GuardInv, [A!Next]_(A!avars)
  PROVE  GuardInv'
<1>t. AccountTypeOK
  BY DEF GuardInv
<1>1. ASSUME UNCHANGED <<account, key, op, request, doomed>> PROVE GuardInv'
  <2>1. AccountTypeOK'
    BY <1>t, <1>1 DEF AccountTypeOK
  <2>. QED
    BY <1>1, <2>1, Stricter
<1>2. ASSUME NEW a \in Accounts, A!MoveWallet(a) PROVE GuardInv'
  BY <1>1, <1>2 DEF A!MoveWallet
<1>3. ASSUME UNCHANGED A!avars PROVE GuardInv'
  BY <1>1, <1>3 DEF A!avars
<1>. QED
  BY <1>2, <1>3, AdminStep, PermissionStep, RequestStep DEF A!Next

(***************************************************************************)
(* api-key.guard, service-permission.guard: whatever was revoked,          *)
(* suspended or denied before a request came, and was not undone before it *)
(* was judged, keeps it out, although the guards read key, account and     *)
(* permissions one after the other.                                        *)
(***************************************************************************)
THEOREM RefusedWhenBarred ==
  ASSUME ServiceNames
  PROVE  /\ A!Spec  => []RefusalHolds
         /\ SumSpec => []RefusalHolds
<1>1. A!Init => GuardInv
  BY GuardInit
<1>2. GuardInv /\ [A!Next]_(A!avars) => GuardInv'
  BY GuardStep
<1>3. GuardInv => RefusalHolds
  BY DEF GuardInv, Consistent, RefusalHolds, A!RefusalHolds
<1>. QED
  BY <1>1, <1>2, <1>3, SumOfParts, PTL DEF A!Spec, SumSpec

-----------------------------------------------------------------------------
(* Lists.                                                                  *)

\* A sequence without its i-th element.
LEMMA Removal ==
  ASSUME NEW T, NEW s \in Seq(T), NEW i \in DOMAIN s, NEW r,
         r = P!RemoveAt(s, i) \/ r = G!RemoveAt(s, i)
  PROVE  /\ r \in Seq(T) /\ Len(s) \in Nat \ {0} /\ Len(r) = Len(s) - 1
         /\ \A j \in 1..Len(r) : r[j] = s[IF j < i THEN j ELSE j + 1]
<1>. DEFINE n == Len(s)
            x == SubSeq(s, 1, i - 1)
            y == SubSeq(s, i + 1, n)
<1>1. r = x \o y
  BY DEF P!RemoveAt, G!RemoveAt
<1>2. n \in Nat \ {0} /\ i \in 1..n
  OBVIOUS
<1>3. x \in Seq(T) /\ Len(x) = i - 1 /\ \A j \in 1..(i - 1) : x[j] = s[j]
  BY <1>2
<1>4. y \in Seq(T) /\ Len(y) = n - i /\ \A j \in 1..(n - i) : y[j] = s[j + i]
  BY <1>2
<1>. HIDE DEF x, y, n
<1>5. /\ r \in Seq(T) /\ Len(r) = n - 1
      /\ \A j \in 1..(n - 1) : r[j] = IF j < i THEN x[j] ELSE y[j - (i - 1)]
  <2>1. Len(x) + Len(y) = n - 1 /\ \A j \in Nat : j <= Len(x) <=> j < i
    BY <1>2, <1>3, <1>4
  <2>2. /\ x \o y \in Seq(T) /\ Len(x \o y) = Len(x) + Len(y)
        /\ \A j \in 1..(Len(x) + Len(y)) : (x \o y)[j] = IF j <= Len(x) THEN x[j] ELSE y[j - Len(x)]
    BY <1>3, <1>4, ConcatProperties, Zenon
  <2>. QED
    BY <1>1, <1>3, <2>1, <2>2
<1>6. ASSUME NEW j \in 1..(n - 1) PROVE r[j] = s[IF j < i THEN j ELSE j + 1]
  <2>1. CASE j < i
    BY <1>2, <1>3, <1>5, <2>1
  <2>2. CASE ~(j < i)
    <3>1. j - (i - 1) \in 1..(n - i) /\ (j - (i - 1)) + i = j + 1
      BY <1>2, <2>2
    <3>. QED
      BY <1>4, <1>5, <2>2, <3>1
  <2>. QED
    BY <2>1, <2>2
<1>. QED
  BY <1>2, <1>5, <1>6 DEF n

Asked == [query : [page : Int, filter : Filters], alive : BOOLEAN]

\* A query came back as rows or as an error.
Told(q) == shownRows = q \/ failed = q

\* Requests that will be heard.
Alive == {i \in DOMAIN asked : asked[i].alive}

ListTypeOK ==
  /\ list \in AllLists
  /\ query \in [page : Int, filter : Filters]
  /\ writing \subseteq [page : Int, filter : Filters]
  /\ asked \in Seq(Asked)

\* A typed list hears its requests in order, and the last one is what its
\* controls say once the user has paused.
TypedInv ==
  list.typed =>
    /\ Alive = DOMAIN asked /\ writing = {}
    /\ ~timer /\ asked # <<>> => asked[Len(asked)].query = query
    /\ ~timer /\ asked = <<>> => Told(query)

\* Of any other list all requests that will be heard are what its controls
\* say: the others were dropped, or the controls wait for the answer.
UntypedInv ==
  ~list.typed =>
    /\ ~timer
    /\ \A i \in Alive : asked[i].query = query
    /\ Alive = {} => Told(query)
    /\ list.pager => Len(asked) <= 1 /\ (asked # <<>> => loading)
    /\ writing \subseteq {query}
    /\ list.reload = "none" => writing = {}

ListInv ==
  /\ ListTypeOK
  /\ list.reload # "first" => TypedInv /\ UntypedInv

\* What the lists have in common that no write takes back to its first page:
\* the controls that never wait drop what was asked before.
LEMMA Kinds ==
  ASSUME list \in AllLists
  PROVE  /\ list.typed \in BOOLEAN /\ list.alive \in BOOLEAN
         /\ list.pager \in BOOLEAN /\ list.filter \in BOOLEAN
         /\ list.reload # "first" =>
              /\ list.reload \in {"none", "same"}
              /\ list.typed => ~list.alive /\ list.reload = "none" /\ list \in {Audits, Traces}
              /\ ~list.typed => /\ list.filter => list.alive /\ ~list.pager
                                /\ list.pager => ~list.alive
              /\ list.filter \/ list.pager => list.reload = "none"
              /\ list.alive => list.reload = "none"
<1>1. CASE list = Ledger
  BY <1>1 DEF Ledger
<1>2. CASE list = Payouts
  BY <1>2 DEF Payouts
<1>3. CASE list = Batches
  BY <1>3 DEF Batches
<1>4. CASE list = Collections
  BY <1>4 DEF Collections
<1>5. CASE list = SmsHistory
  BY <1>5 DEF SmsHistory
<1>6. CASE list = Audits
  BY <1>6 DEF Audits
<1>7. CASE list = Traces
  BY <1>7 DEF Traces
<1>8. CASE list = AccountList
  BY <1>8 DEF AccountList
<1>9. CASE list = Staff
  BY <1>9 DEF Staff
<1>. QED
  BY <1>1, <1>2, <1>3, <1>4, <1>5, <1>6, <1>7, <1>8, <1>9 DEF AllLists

LEMMA ListInit ==
  ASSUME P!Init
  PROVE  ListInv
<1>1. /\ list \in AllLists /\ query \in [page : {1}, filter : Filters]
      /\ timer = list.typed /\ writing = {} /\ loading = TRUE
      /\ asked = IF list.typed THEN <<>> ELSE <<P!Request(query)>>
  BY DEF P!Init
<1>2. P!Request(query) \in Asked /\ P!Request(query).query = query /\ P!Request(query).alive = TRUE
  BY <1>1 DEF P!Request, Asked
<1>3. ListTypeOK
  <2>1. CASE list.typed
    BY <1>1, <2>1 DEF ListTypeOK
  <2>2. CASE ~list.typed
    BY <1>1, <1>2, <2>2 DEF ListTypeOK
  <2>. QED
    BY <2>1, <2>2
<1>4. CASE list.typed
  BY <1>1, <1>3, <1>4 DEF ListInv, TypedInv, UntypedInv, Alive
<1>5. ASSUME ~list.typed PROVE ListInv
  <2>1. asked = <<P!Request(query)>> /\ ~timer
    BY <1>1, <1>5
  <2>2. Alive = {1} /\ Len(asked) = 1 /\ asked[1].query = query
    BY <1>2, <2>1 DEF Alive
  <2>. QED
    BY <1>1, <1>3, <1>5, <2>1, <2>2 DEF ListInv, TypedInv, UntypedInv
<1>. QED
  BY <1>4, <1>5

\* A request joins the others.
LEMMA Joins ==
  ASSUME asked \in Seq(Asked), NEW q \in [page : Int, filter : Filters],
         NEW old \in Seq(Asked), Len(old) = Len(asked),
         asked' = Append(old, P!Request(q))
  PROVE  /\ asked' \in Seq(Asked) /\ asked' # <<>> /\ Len(asked') = Len(asked) + 1
         /\ asked'[Len(asked')].query = q
         /\ Alive' = {i \in DOMAIN old : old[i].alive} \cup {Len(asked')}
         /\ \A i \in DOMAIN old : asked'[i] = old[i]
<1>1. P!Request(q) \in Asked /\ P!Request(q).query = q /\ P!Request(q).alive = TRUE
  BY DEF P!Request, Asked
<1>. QED
  BY <1>1 DEF Alive

LEMMA Dropped ==
  ASSUME NEW Q, NEW r \in [query : Q, alive : BOOLEAN]
  PROVE  /\ [r EXCEPT !.alive = FALSE] \in [query : Q, alive : BOOLEAN]
         /\ ~[r EXCEPT !.alive = FALSE].alive
OBVIOUS

\* The controls change.
LEMMA ListControls ==
  ASSUME ListInv, NEW q \in [page : Int, filter : Filters], P!Effect(q),
         (list.pager /\ ~loading) \/ list.filter, UNCHANGED <<list, writing>>
  PROVE  ListInv'
<1>1. ListTypeOK /\ list \in AllLists /\ query' = q /\ asked \in Seq(Asked)
  BY DEF ListInv, ListTypeOK, P!Effect
<1>2. ASSUME list.typed PROVE ListInv'
  <2>1. timer' /\ asked' = asked
    BY <1>2 DEF P!Effect
  <2>. QED
    BY <1>1, <1>2, <2>1 DEF ListInv, ListTypeOK, TypedInv, UntypedInv, Alive
<1>3. ASSUME ~list.typed PROVE ListInv'
  <2>1. asked' = Append(P!Forgotten, P!Request(q)) /\ timer' = timer /\ loading' = TRUE
    BY <1>3 DEF P!Effect
  <2>2. /\ P!Forgotten \in Seq(Asked) /\ Len(P!Forgotten) = Len(asked)
        /\ list.alive => \A i \in DOMAIN P!Forgotten : ~P!Forgotten[i].alive
        /\ ~list.alive => P!Forgotten = asked
    <3>1. CASE list.alive
      <4>1. P!Forgotten = [i \in DOMAIN asked |-> [asked[i] EXCEPT !.alive = FALSE]]
        BY <3>1 DEF P!Forgotten
      <4>2. \A i \in DOMAIN asked : asked[i] \in Asked
        BY <1>1
      <4>3. \A i \in DOMAIN asked : /\ [asked[i] EXCEPT !.alive = FALSE] \in Asked
                                    /\ ~[asked[i] EXCEPT !.alive = FALSE].alive
        BY <4>2, Dropped DEF Asked
      <4>4. /\ P!Forgotten \in Seq(Asked) /\ DOMAIN P!Forgotten = DOMAIN asked
            /\ Len(P!Forgotten) = Len(asked)
        BY <1>1, <4>1, <4>3
      <4>. QED
        BY <3>1, <4>1, <4>3, <4>4
    <3>2. CASE ~list.alive
      BY <1>1, <3>2 DEF P!Forgotten
    <3>. QED
      BY <3>1, <3>2
  <2>j. /\ asked' \in Seq(Asked) /\ Len(asked') = Len(asked) + 1
        /\ asked'[Len(asked')].query = q
        /\ Alive' = {i \in DOMAIN P!Forgotten : P!Forgotten[i].alive} \cup {Len(asked')}
    BY <1>1, <2>1, <2>2, Joins
  <2>3. ListTypeOK'
    BY <1>1, <2>j DEF ListTypeOK
  <2>4. ASSUME list.reload # "first" PROVE UntypedInv'
    <3>1. /\ ~timer /\ list.reload = "none" /\ writing = {}
          /\ list.pager => (asked # <<>> => loading)
      BY <1>1, <1>3, <2>4, Kinds DEF ListInv, UntypedInv
    <3>2. CASE list.pager
      <4>1. asked = <<>> /\ P!Forgotten = <<>> /\ Len(asked) = 0
        BY <1>1, <1>3, <2>2, <2>4, <3>1, <3>2, Kinds
      <4>2. Len(asked') = 1
        BY <2>j, <4>1
      <4>3. Alive' = {1} /\ asked'[1].query = q
        BY <2>j, <4>1, <4>2
      <4>. QED
        BY <1>1, <2>1, <3>1, <4>2, <4>3 DEF UntypedInv
    <3>3. CASE ~list.pager
      <4>1. list.alive
        BY <1>1, <1>3, <2>4, <3>3, Kinds
      <4>2. Alive' = {Len(asked')} /\ asked'[Len(asked')].query = q
        BY <2>2, <2>j, <4>1
      <4>. QED
        BY <1>1, <2>1, <3>1, <3>3, <4>2 DEF UntypedInv
    <3>. QED
      BY <3>2, <3>3
  <2>. QED
    BY <1>3, <2>3, <2>4 DEF ListInv, TypedInv
<1>4. list.typed \in BOOLEAN
  BY <1>1, Kinds
<1>. QED
  BY <1>2, <1>3

\* A typed list asks when the user pauses.
LEMMA ListPause ==
  ASSUME ListInv, P!TimerFires
  PROVE  ListInv'
<1>1. /\ ListTypeOK /\ timer /\ timer' = FALSE /\ loading' = TRUE
      /\ asked' = Append(asked, P!Request(query))
      /\ UNCHANGED <<list, query, shownRows, failed, writing>>
  BY DEF ListInv, P!TimerFires
<1>2. /\ asked' \in Seq(Asked) /\ asked' # <<>> /\ asked'[Len(asked')].query = query
      /\ Alive' = Alive \cup {Len(asked')} /\ Len(asked') = Len(asked) + 1
  BY <1>1, Joins DEF ListTypeOK, Alive
<1>3. ASSUME list.reload # "first" PROVE TypedInv' /\ list.typed
  <2>1. list.typed /\ Alive = DOMAIN asked /\ writing = {}
    BY <1>1, <1>3 DEF ListInv, UntypedInv, TypedInv
  <2>2. Alive' = DOMAIN asked'
    BY <1>1, <1>2, <2>1 DEF ListTypeOK
  <2>. QED
    BY <1>1, <1>2, <2>1, <2>2 DEF TypedInv
<1>. QED
  BY <1>1, <1>2, <1>3 DEF ListInv, ListTypeOK, UntypedInv

\* A write of the staff list completes: its controls are as they were.
LEMMA ListReload ==
  ASSUME ListInv, NEW q \in writing, P!WriteDone(q)
  PROVE  ListInv'
<1>. DEFINE to == IF list.reload = "first" THEN 1 ELSE query.page
            turned == [query EXCEPT !.page = to]
<1>1. /\ writing' = writing \ {q} /\ query' = turned /\ loading' = TRUE
      /\ asked' = asked \o IF to = query.page THEN <<P!Request(q)>>
                           ELSE <<P!Request(q), P!Request(turned)>>
      /\ UNCHANGED <<list, shownRows, failed, timer>>
  BY DEF P!WriteDone
<1>2. ListTypeOK /\ asked \in Seq(Asked) /\ query \in [page : Int, filter : Filters]
  BY DEF ListInv, ListTypeOK
<1>3. q \in [page : Int, filter : Filters] /\ writing' \subseteq [page : Int, filter : Filters]
  BY <1>1, <1>2 DEF ListInv, ListTypeOK
<1>4. turned \in [page : Int, filter : Filters]
  BY <1>2
<1>5. P!Request(q) \in Asked /\ P!Request(turned) \in Asked
  BY <1>3, <1>4 DEF P!Request, Asked
<1>6. ListTypeOK'
  <2>1. CASE to = query.page
    BY <1>1, <1>2, <1>3, <1>4, <1>5, <2>1 DEF ListTypeOK
  <2>2. CASE to # query.page
    BY <1>1, <1>2, <1>3, <1>4, <1>5, <2>2 DEF ListTypeOK
  <2>. QED
    BY <2>1, <2>2
<1>7. ASSUME list.reload # "first" PROVE TypedInv' /\ UntypedInv'
  <2>1. to = query.page /\ turned = query
    BY <1>2, <1>7
  <2>2. /\ ~list.typed /\ ~timer /\ list.reload # "none" /\ q = query
        /\ writing \subseteq {query} /\ \A i \in Alive : asked[i].query = query
    BY <1>2, <1>7, Kinds DEF ListInv, TypedInv, UntypedInv, ListTypeOK
  <2>3. ~list.pager
    BY <1>2, <1>7, <2>2, Kinds DEF ListTypeOK
  <2>4. asked' = Append(asked, P!Request(query))
    BY <1>1, <1>2, <1>5, <2>1, <2>2
  <2>5. /\ asked' # <<>> /\ asked'[Len(asked')].query = query
        /\ Alive' = Alive \cup {Len(asked')} /\ \A i \in DOMAIN asked : asked'[i] = asked[i]
    BY <1>2, <2>4, Joins DEF Alive
  <2>6. \A i \in Alive' : asked'[i].query = query
    BY <2>2, <2>5 DEF Alive
  <2>. QED
    BY <1>1, <2>1, <2>2, <2>3, <2>5, <2>6 DEF TypedInv, UntypedInv
<1>. QED
  BY <1>1, <1>6, <1>7 DEF ListInv

\* The i-th request is gone; the others close up.
LEMMA Leaves ==
  ASSUME asked \in Seq(Asked), NEW i \in DOMAIN asked, asked' = P!RemoveAt(asked, i)
  PROVE  /\ asked' \in Seq(Asked) /\ Len(asked') = Len(asked) - 1
         /\ \A j \in DOMAIN asked' : asked'[j] = asked[IF j < i THEN j ELSE j + 1]
         /\ \A j \in Alive' : (IF j < i THEN j ELSE j + 1) \in Alive
         /\ ~asked[i].alive /\ Alive' = {} => Alive = {}
         /\ Alive = DOMAIN asked => Alive' = DOMAIN asked'
<1>1. /\ asked' \in Seq(Asked) /\ Len(asked) \in Nat \ {0} /\ Len(asked') = Len(asked) - 1
      /\ \A j \in 1..Len(asked') : asked'[j] = asked[IF j < i THEN j ELSE j + 1]
  BY Removal
<1>2. DOMAIN asked = 1..Len(asked) /\ DOMAIN asked' = 1..Len(asked') /\ i \in 1..Len(asked)
  BY <1>1
<1>3. ASSUME NEW j \in Alive' PROVE (IF j < i THEN j ELSE j + 1) \in Alive
  BY <1>1, <1>2, <1>3 DEF Alive
<1>4. ASSUME ~asked[i].alive, NEW k \in Alive PROVE Alive' # {}
  <2>. DEFINE j == IF k < i THEN k ELSE k - 1
  <2>1. k \in 1..Len(asked) /\ asked[k].alive /\ k # i
    BY <1>2, <1>4 DEF Alive
  <2>2. j \in 1..Len(asked') /\ (IF j < i THEN j ELSE j + 1) = k
    BY <1>1, <1>2, <2>1
  <2>3. asked'[j] = asked[k]
    BY <1>1, <2>2
  <2>4. j \in Alive'
    BY <1>2, <2>1, <2>2, <2>3 DEF Alive
  <2>. QED
    BY <2>4
<1>5. ASSUME Alive = DOMAIN asked PROVE Alive' = DOMAIN asked'
  <2>1. \A j \in DOMAIN asked' : (IF j < i THEN j ELSE j + 1) \in DOMAIN asked
    BY <1>1, <1>2
  <2>2. \A j \in DOMAIN asked' : asked'[j].alive
    BY <1>1, <1>2, <1>5, <2>1 DEF Alive
  <2>. QED
    BY <2>2 DEF Alive
<1>. QED
  BY <1>1, <1>2, <1>3, <1>4, <1>5

\* An answer: of a typed list to the oldest request, of any other to one that
\* asked for what the controls say, if it is heard at all.
LEMMA ListAnswer ==
  ASSUME ListInv, NEW i \in DOMAIN asked, NEW ok \in BOOLEAN, P!Answer(i, ok)
  PROVE  ListInv'
<1>1. /\ ListTypeOK /\ asked \in Seq(Asked) /\ list \in AllLists
      /\ asked' = P!RemoveAt(asked, i) /\ UNCHANGED <<list, query, timer, writing>>
  BY DEF ListInv, ListTypeOK, P!Answer
<1>2. /\ asked' \in Seq(Asked) /\ Len(asked') = Len(asked) - 1
      /\ \A j \in DOMAIN asked' : asked'[j] = asked[IF j < i THEN j ELSE j + 1]
      /\ \A j \in Alive' : (IF j < i THEN j ELSE j + 1) \in Alive
      /\ ~asked[i].alive /\ Alive' = {} => Alive = {}
      /\ Alive = DOMAIN asked => Alive' = DOMAIN asked'
  BY <1>1, Leaves
<1>3. ListTypeOK'
  BY <1>1, <1>2 DEF ListTypeOK
<1>4. asked[i].alive => shownRows' = asked[i].query \/ failed' = asked[i].query
  BY DEF P!Answer, P!Heard
<1>5. ~asked[i].alive => UNCHANGED <<shownRows, failed, loading>>
  BY DEF P!Answer, P!Heard
<1>6. Len(asked) \in Nat /\ DOMAIN asked = 1..Len(asked) /\ DOMAIN asked' = 1..Len(asked')
  BY <1>1, <1>2
<1>7. ASSUME list.reload # "first", list.typed PROVE TypedInv'
  <2>1. list \in {Audits, Traces} /\ Alive = DOMAIN asked /\ writing = {}
    BY <1>1, <1>7, Kinds DEF ListInv, TypedInv
  <2>2. i = 1 /\ asked[1].alive
    BY <2>1 DEF P!Answer, Alive
  <2>3. CASE Len(asked) = 1
    <3>1. asked' = <<>>
      BY <1>2, <2>3
    <3>2. ~timer => Told(query)'
      <4>1. ~timer => asked[1].query = query
        BY <1>6, <1>7, <2>3 DEF ListInv, TypedInv
      <4>. QED
        BY <1>1, <1>4, <2>2, <4>1 DEF Told
    <3>. QED
      BY <1>1, <1>2, <2>1, <3>1, <3>2 DEF TypedInv
  <2>4. CASE Len(asked) # 1
    <3>1. Len(asked') \in DOMAIN asked' /\ Len(asked') + 1 = Len(asked)
      BY <1>2, <1>6, <2>4
    <3>2. asked' # <<>> /\ asked'[Len(asked')] = asked[Len(asked)]
      BY <1>2, <1>6, <2>2, <3>1
    <3>3. ~timer => asked[Len(asked)].query = query
      BY <1>6, <1>7 DEF ListInv, TypedInv
    <3>. QED
      BY <1>1, <1>2, <2>1, <3>2, <3>3 DEF TypedInv
  <2>. QED
    BY <2>3, <2>4
<1>8. ASSUME list.reload # "first", ~list.typed PROVE UntypedInv'
  <2>1. /\ ~timer /\ \A j \in Alive : asked[j].query = query
        /\ Alive = {} => Told(query)
        /\ list.pager => Len(asked) <= 1 /\ (asked # <<>> => loading)
        /\ writing \subseteq {query} /\ (list.reload = "none" => writing = {})
    BY <1>8 DEF ListInv, UntypedInv
  <2>2. \A j \in Alive' : asked'[j].query = query
    BY <1>2, <2>1 DEF Alive
  <2>3. Alive' = {} => Told(query)'
    <3>1. asked[i].alive => asked[i].query = query
      BY <2>1 DEF Alive
    <3>. QED
      BY <1>1, <1>2, <1>4, <1>5, <2>1, <3>1 DEF Told
  <2>4. list.pager => Len(asked') <= 1 /\ asked' = <<>>
    BY <1>2, <1>6, <2>1
  <2>. QED
    BY <1>1, <2>1, <2>2, <2>3, <2>4 DEF UntypedInv
<1>. QED
  BY <1>1, <1>3, <1>7, <1>8 DEF ListInv, TypedInv, UntypedInv

LEMMA ListNext ==
  ASSUME ListInv, [P!Next]_(P!lvars)
  PROVE  ListInv'
<1>1. ASSUME NEW step \in {-1, 1}, P!TurnPage(step) PROVE ListInv'
  <2>1. [query EXCEPT !.page = @ + step] \in [page : Int, filter : Filters]
    BY DEF ListInv, ListTypeOK
  <2>. QED
    BY <1>1, <2>1, ListControls DEF P!TurnPage, P!PagerEnabled
<1>2. ASSUME NEW f \in Filters, P!SetFilter(f) PROVE ListInv'
  <2>1. [page |-> 1, filter |-> f] \in [page : Int, filter : Filters]
    OBVIOUS
  <2>. QED
    BY <1>2, <2>1, ListControls DEF P!SetFilter
<1>3. CASE P!Refresh
  BY <1>3 DEF P!Refresh, ListInv, ListTypeOK, TypedInv, UntypedInv, Alive, Told
<1>4. CASE P!Write
  <2>1. /\ list.reload # "none" /\ writing' = writing \cup {query}
        /\ UNCHANGED <<list, query, shownRows, failed, loading, timer, asked>>
    BY <1>4 DEF P!Write
  <2>2. list.reload # "first" => ~list.typed
    BY <2>1, Kinds DEF ListInv, ListTypeOK
  <2>. QED
    BY <2>1, <2>2 DEF ListInv, ListTypeOK, TypedInv, UntypedInv, Alive, Told
<1>5. CASE UNCHANGED P!lvars
  BY <1>5 DEF P!lvars, ListInv, ListTypeOK, TypedInv, UntypedInv, Alive, Told
<1>. QED
  BY <1>1, <1>2, <1>3, <1>4, <1>5, ListPause, ListReload, ListAnswer DEF P!Next

(***************************************************************************)
(* The lists of both portals: when nothing is under way their rows, or     *)
(* their error, belong to the page and the filter the controls show,       *)
(* whatever was clicked meanwhile and in whatever order answers came; the  *)
(* typed ones hear them in order, and no write of the page takes the list  *)
(* back to its first page.                                                 *)
(***************************************************************************)
THEOREM ListsShowTheirQuery ==
  /\ P!Spec  => []RowsMatch
  /\ SumSpec => []RowsMatch
<1>1. P!Init => ListInv
  BY ListInit
<1>2. ListInv /\ [P!Next]_(P!lvars) => ListInv'
  BY ListNext
<1>3. ListInv => RowsMatch
  <2>. SUFFICES ASSUME ListInv, asked = <<>>, ~timer, list.reload # "first"
       PROVE  Told(query)
    BY DEF RowsMatch, P!RowsMatch, P!Quiet, Told
  <2>1. Alive = {} /\ list.typed \in BOOLEAN
    BY Kinds DEF ListInv, ListTypeOK, Alive
  <2>. QED
    BY <2>1 DEF ListInv, TypedInv, UntypedInv
<1>. QED
  BY <1>1, <1>2, <1>3, SumOfParts, PTL DEF P!Spec, SumSpec

-----------------------------------------------------------------------------
(* Forms.                                                                  *)

\* Finitely many things are wanted.
FormConstants == MaxIntents \in Nat /\ LoseEarly \in BOOLEAN

Intents == 1..MaxIntents
FieldsOf == [intent : 0..MaxIntents, named : BOOLEAN]
Calls == [nr : 1..count.attempts, of : [intent : Intents, named : BOOLEAN],
          at : {"check", "create", "created", "refused"}, heard : BOOLEAN]

FormTypeOK ==
  /\ form \in AllForms
  /\ fields \in FieldsOf /\ busy \in BOOLEAN
  /\ count \in [intents : 0..MaxIntents, attempts : Nat, named : SUBSET Intents]
  /\ calls \in SUBSET Calls
  /\ effects \in [Intents -> Nat] /\ lost \in [Intents -> Nat]

\* Calls have numbers; one of them is heard while the form is busy.
CallsInv ==
  /\ \A c, d \in calls : c.nr = d.nr => c = d
  /\ \A c, d \in calls : c.heard /\ d.heard => c = d
  /\ busy <=> \E c \in calls : c.heard

\* Intents that nobody has had yet, and the identifiers of the others.
IntentsInv ==
  /\ fields.intent <= count.intents
  /\ \A c \in calls : c.of.intent <= count.intents
  /\ \A i \in Intents : i > count.intents => effects[i] = 0
  /\ fields.intent \in count.named <=> fields.named
  /\ \A c \in calls : c.of.intent \in count.named <=> c.of.named
  /\ count.named \subseteq 1..count.intents

\* Calls that may still create something for i.
Pending(i) ==
  {n \in 1..count.attempts :
     \E c \in calls : c.nr = n /\ c.of.intent = i /\ c.at \in {"check", "create"}}

\* A call the form hears that has not been refused: its answer, if it comes,
\* clears the fields.
Promising(i) == \E c \in calls : c.heard /\ c.of.intent = i /\ c.at # "refused"

\* What was created for an intent or still may be is paid for by a lost
\* answer, all but one; while the form holds the intent even that one, unless
\* it is under way.
CountInv ==
  \A i \in Intents :
    /\ effects[i] + Cardinality(Pending(i)) <= 1 + lost[i]
    /\ fields.intent = i /\ ~Promising(i) => effects[i] + Cardinality(Pending(i)) <= lost[i]

\* The identifier's check is not overtaken: one call at a time may create, and
\* it is heard as long as the form holds its intent.
CheckedInv ==
  form.id = "checked" /\ ~LoseEarly =>
    /\ \A c, d \in calls :
         c.at \in {"check", "create"} /\ d.at \in {"check", "create"} /\ c.of.intent = d.of.intent
           => c = d
    /\ \A c \in calls :
         /\ c.at \in {"check", "create"} /\ c.of.intent = fields.intent => c.heard
         /\ c.at = "create" /\ c.of.named => effects[c.of.intent] = 0
    /\ \A i \in count.named : effects[i] <= 1

UniqueInv == form.id = "unique" => \A i \in Intents : effects[i] <= 1

FormInv == FormTypeOK /\ CallsInv /\ IntentsInv /\ CountInv /\ CheckedInv /\ UniqueInv

LEMMA PendingFinite ==
  ASSUME FormTypeOK, NEW i
  PROVE  IsFiniteSet(Pending(i)) /\ Cardinality(Pending(i)) \in Nat
<1>1. count.attempts \in Nat
  BY DEF FormTypeOK
<1>2. IsFiniteSet(1..count.attempts)
  BY <1>1, FS_Interval
<1>3. Pending(i) \subseteq 1..count.attempts
  BY DEF Pending
<1>4. IsFiniteSet(Pending(i))
  BY <1>2, <1>3, FS_Subset
<1>. QED
  BY <1>4, FS_CardinalityType

LEMMA FormInit ==
  ASSUME FormConstants, F!Init
  PROVE  FormInv
<1>1. /\ form \in AllForms /\ fields = F!Blank /\ busy = FALSE /\ calls = {}
      /\ effects = [i \in Intents |-> 0] /\ lost = [i \in Intents |-> 0]
      /\ count = [intents |-> 0, attempts |-> 0, named |-> {}]
  BY DEF F!Init, Intents
<1>2. fields.intent = 0 /\ fields.named = FALSE /\ fields \in FieldsOf
  BY <1>1 DEF F!Blank, FieldsOf, FormConstants
<1>3. FormTypeOK
  <2>1. count \in [intents : 0..MaxIntents, attempts : Nat, named : SUBSET Intents]
    BY <1>1 DEF FormConstants
  <2>2. effects \in [Intents -> Nat] /\ lost \in [Intents -> Nat] /\ calls \in SUBSET Calls
    BY <1>1
  <2>. QED
    BY <1>1, <1>2, <2>1, <2>2 DEF FormTypeOK
<1>4. CallsInv /\ IntentsInv /\ CheckedInv /\ UniqueInv
  BY <1>1, <1>2 DEF CallsInv, IntentsInv, CheckedInv, UniqueInv, Intents
<1>5. ASSUME NEW i \in Intents
      PROVE  effects[i] + Cardinality(Pending(i)) = 0 /\ lost[i] = 0 /\ fields.intent # i
  <2>1. Pending(i) = {}
    BY <1>1 DEF Pending
  <2>2. Cardinality(Pending(i)) = 0
    BY <2>1, FS_EmptySet
  <2>. QED
    BY <1>1, <1>2, <2>2 DEF Intents
<1>6. CountInv
  BY <1>5 DEF CountInv
<1>. QED
  BY <1>3, <1>4, <1>6 DEF FormInv

\* The service takes call c, which may still create something, to its next
\* stage.
LEMMA ServiceStep ==
  ASSUME FormConstants, FormInv, NEW c \in calls, NEW at \in {"create", "created", "refused"},
         c.at \in {"check", "create"}, F!Step(c, at),
         UNCHANGED <<form, fields, busy, lost, count>>,
         effects' = IF at = "created" THEN [effects EXCEPT ![c.of.intent] = @ + 1] ELSE effects,
         at = "created" => c.at = "create" /\ (form.id = "unique" => effects[c.of.intent] = 0),
         at = "create" /\ form.id = "checked" /\ c.of.named => effects[c.of.intent] = 0
  PROVE  FormInv'
<1>. DEFINE d == [c EXCEPT !.at = at]
            k == c.of.intent
<1>t. FormTypeOK /\ CallsInv /\ IntentsInv /\ CountInv /\ CheckedInv /\ UniqueInv
  BY DEF FormInv
<1>1. c \in Calls /\ k \in Intents /\ c.nr \in 1..count.attempts
  BY <1>t DEF FormTypeOK, Calls
<1>2. d \in Calls /\ d.nr = c.nr /\ d.of = c.of /\ d.heard = c.heard /\ d.at = at
  BY <1>1 DEF Calls
<1>3. calls' = (calls \ {c}) \cup {d}
  BY DEF F!Step
<1>. HIDE DEF d
<1>4. /\ effects' \in [Intents -> Nat]
      /\ \A i \in Intents : effects'[i] = IF at = "created" /\ i = k THEN effects[i] + 1 ELSE effects[i]
  BY <1>t, <1>1 DEF FormTypeOK
<1>5. FormTypeOK'
  BY <1>t, <1>2, <1>3, <1>4 DEF FormTypeOK, Calls
<1>6. CallsInv'
  <2>1. \A x, y \in calls' : x.nr = y.nr => x = y
    BY <1>t, <1>2, <1>3 DEF CallsInv
  <2>2. \A x, y \in calls' : x.heard /\ y.heard => x = y
    BY <1>t, <1>2, <1>3 DEF CallsInv
  <2>3. (\E x \in calls' : x.heard) <=> \E x \in calls : x.heard
    BY <1>2, <1>3
  <2>. QED
    BY <1>t, <2>1, <2>2, <2>3 DEF CallsInv
<1>7. IntentsInv'
  <2>1. k <= count.intents
    BY <1>t DEF IntentsInv
  <2>2. \A i \in Intents : i > count.intents => effects'[i] = 0
    BY <1>t, <1>4, <2>1 DEF IntentsInv, Intents, FormTypeOK
  <2>. QED
    BY <1>t, <1>2, <1>3, <2>2 DEF IntentsInv
<1>8. ASSUME NEW i \in Intents
      PROVE  Pending(i)' = IF at # "create" /\ i = k THEN Pending(i) \ {c.nr} ELSE Pending(i)
  <2>1. \A x \in calls : x # c => x.nr # c.nr
    BY <1>t DEF CallsInv
  <2>2. \A n \in 1..count.attempts :
          (\E x \in calls' : x.nr = n /\ x.of.intent = i /\ x.at \in {"check", "create"})
          <=> \/ \E x \in calls \ {c} : x.nr = n /\ x.of.intent = i /\ x.at \in {"check", "create"}
              \/ c.nr = n /\ k = i /\ at = "create"
    BY <1>2, <1>3
  <2>3. \A n \in 1..count.attempts :
          (\E x \in calls : x.nr = n /\ x.of.intent = i /\ x.at \in {"check", "create"})
          <=> \/ \E x \in calls \ {c} : x.nr = n /\ x.of.intent = i /\ x.at \in {"check", "create"}
              \/ c.nr = n /\ k = i
    OBVIOUS
  <2>. QED
    BY <2>1, <2>2, <2>3 DEF Pending
<1>9. c.nr \in Pending(k)
  BY <1>1 DEF Pending
<1>10. CountInv'
  <2>. SUFFICES ASSUME NEW i \in Intents
       PROVE  /\ effects'[i] + Cardinality(Pending(i)') <= 1 + lost[i]
              /\ fields.intent = i /\ ~Promising(i)'
                   => effects'[i] + Cardinality(Pending(i)') <= lost[i]
    BY DEF CountInv
  <2>0. /\ effects[i] \in Nat /\ effects'[i] \in Nat /\ lost[i] \in Nat
        /\ IsFiniteSet(Pending(i)) /\ Cardinality(Pending(i)) \in Nat
    BY <1>t, <1>4, PendingFinite DEF FormTypeOK
  <2>1. /\ effects[i] + Cardinality(Pending(i)) <= 1 + lost[i]
        /\ fields.intent = i /\ ~Promising(i) => effects[i] + Cardinality(Pending(i)) <= lost[i]
    BY <1>t DEF CountInv
  <2>2. i # k \/ at # "refused" => (Promising(i)' <=> Promising(i))
    BY <1>2, <1>3 DEF Promising
  <2>3. CASE at # "create" /\ i = k
    <3>1. Cardinality(Pending(i)') = Cardinality(Pending(i)) - 1
      BY <1>8, <1>9, <2>0, <2>3, FS_RemoveElement
    <3>2. CASE at = "created"
      BY <1>4, <2>0, <2>1, <2>2, <2>3, <3>1, <3>2
    <3>3. CASE at = "refused"
      BY <1>4, <2>0, <2>1, <2>3, <3>1, <3>3
    <3>. QED
      BY <2>3, <3>2, <3>3
  <2>4. CASE ~(at # "create" /\ i = k)
    BY <1>4, <1>8, <2>1, <2>2, <2>4
  <2>. QED
    BY <2>3, <2>4
<1>11. CheckedInv'
  <2>. SUFFICES ASSUME form.id = "checked", ~LoseEarly
       PROVE  /\ \A x, y \in calls' : x.at \in {"check", "create"} /\ y.at \in {"check", "create"}
                    /\ x.of.intent = y.of.intent => x = y
              /\ \A x \in calls' :
                   /\ x.at \in {"check", "create"} /\ x.of.intent = fields.intent => x.heard
                   /\ x.at = "create" /\ x.of.named => effects'[x.of.intent] = 0
              /\ \A i \in count.named : effects'[i] <= 1
    BY DEF CheckedInv
  <2>1. /\ \A x, y \in calls : x.at \in {"check", "create"} /\ y.at \in {"check", "create"}
              /\ x.of.intent = y.of.intent => x = y
        /\ \A x \in calls :
             /\ x.at \in {"check", "create"} /\ x.of.intent = fields.intent => x.heard
             /\ x.at = "create" /\ x.of.named => effects[x.of.intent] = 0
        /\ \A i \in count.named : effects[i] <= 1
    BY <1>t DEF CheckedInv
  <2>2. \A x, y \in calls' : x.at \in {"check", "create"} /\ y.at \in {"check", "create"}
              /\ x.of.intent = y.of.intent => x = y
    BY <1>2, <1>3, <2>1
  <2>3. \A x \in calls' : x.at \in {"check", "create"} /\ x.of.intent = fields.intent => x.heard
    BY <1>2, <1>3, <2>1
  <2>4. ASSUME NEW x \in calls', x.at = "create", x.of.named PROVE effects'[x.of.intent] = 0
    <3>1. CASE x = d
      BY <1>1, <1>2, <1>4, <2>4, <3>1
    <3>2. CASE x \in calls \ {c}
      <4>1. x.of.intent \in Intents /\ effects[x.of.intent] = 0 /\ x.of.intent # k
        BY <1>t, <2>1, <2>4, <3>2 DEF FormTypeOK, Calls
      <4>. QED
        BY <1>4, <4>1
    <3>. QED
      BY <1>3, <3>1, <3>2
  <2>5. ASSUME NEW i \in count.named PROVE effects'[i] <= 1
    <3>1. i \in Intents /\ effects[i] \in Nat /\ effects[i] <= 1
      BY <1>t, <2>1 DEF FormTypeOK
    <3>2. at = "created" /\ i = k => effects[i] = 0
      BY <1>t, <2>1 DEF IntentsInv
    <3>. QED
      BY <1>4, <3>1, <3>2
  <2>. QED
    BY <2>2, <2>3, <2>4, <2>5
<1>12. UniqueInv'
  BY <1>t, <1>4 DEF UniqueInv, FormTypeOK
<1>. QED
  BY <1>5, <1>6, <1>7, <1>10, <1>11, <1>12 DEF FormInv

\* An answer, or one that is lost: the call can create nothing any more, or
\* the loss is counted.
LEMMA AnswerStep ==
  ASSUME FormConstants, FormInv, NEW c \in calls, F!Answer(c)
  PROVE  FormInv'
<1>t. FormTypeOK /\ CallsInv /\ IntentsInv /\ CountInv /\ CheckedInv /\ UniqueInv
  BY DEF FormInv
<1>1. /\ c.at \in {"created", "refused"} /\ calls' = calls \ {c}
      /\ busy' = IF c.heard THEN FALSE ELSE busy
      /\ fields' = IF c.heard /\ c.at = "created" THEN F!Blank ELSE fields
      /\ UNCHANGED <<form, effects, lost, count>>
  BY DEF F!Answer
<1>2. F!Blank \in FieldsOf /\ F!Blank.intent = 0 /\ F!Blank.named = FALSE
  BY DEF F!Blank, FieldsOf, FormConstants
<1>3. FormTypeOK'
  BY <1>t, <1>1, <1>2 DEF FormTypeOK, Calls
<1>4. CallsInv'
  BY <1>t, <1>1 DEF CallsInv, FormTypeOK
<1>5. IntentsInv'
  BY <1>t, <1>1, <1>2 DEF IntentsInv, FormTypeOK, Intents
<1>6. \A i \in Intents : Pending(i)' = Pending(i)
  BY <1>1 DEF Pending
<1>7. ASSUME NEW i \in Intents, fields'.intent = i, ~Promising(i)'
      PROVE  fields.intent = i /\ ~Promising(i)
  <2>1. fields' = fields /\ ~(c.heard /\ c.at = "created")
    BY <1>1, <1>2, <1>7 DEF Intents
  <2>. QED
    BY <1>1, <1>7, <2>1 DEF Promising
<1>8. CountInv'
  BY <1>t, <1>1, <1>6, <1>7 DEF CountInv
<1>9. CheckedInv' /\ UniqueInv'
  <2>1. UniqueInv'
    BY <1>t, <1>1 DEF UniqueInv
  <2>2. \A x \in calls : x.of.intent \in Intents
    BY <1>t DEF FormTypeOK, Calls
  <2>3. \A x \in calls' : x.of.intent = fields'.intent => x.of.intent = fields.intent
    BY <1>1, <1>2, <2>2 DEF Intents
  <2>4. CheckedInv'
    BY <1>t, <1>1, <2>3 DEF CheckedInv
  <2>. QED
    BY <2>1, <2>4
<1>. QED
  BY <1>3, <1>4, <1>5, <1>8, <1>9 DEF FormInv

\* Calls that are no longer heard, but go on.
LEMMA Unheard ==
  ASSUME NEW x \in Calls
  PROVE  LET y == [x EXCEPT !.heard = FALSE] IN
         y \in Calls /\ y.nr = x.nr /\ y.of = x.of /\ y.at = x.at /\ ~y.heard
BY DEF Calls

LEMMA LoseStep ==
  ASSUME FormConstants, FormInv, NEW c \in calls, F!Lose(c)
  PROVE  FormInv'
<1>. DEFINE d == [c EXCEPT !.heard = FALSE]
            k == c.of.intent
<1>t. FormTypeOK /\ CallsInv /\ IntentsInv /\ CountInv /\ CheckedInv /\ UniqueInv
  BY DEF FormInv
<1>1. /\ c.heard /\ (LoseEarly \/ c.at \in {"created", "refused"})
      /\ lost' = [lost EXCEPT ![k] = @ + 1] /\ busy' = FALSE
      /\ calls' = (calls \ {c}) \cup {d}
      /\ UNCHANGED <<form, fields, effects, count>>
  BY DEF F!Lose
<1>2. c \in Calls /\ k \in Intents
  BY <1>t DEF FormTypeOK, Calls
<1>3. d \in Calls /\ d.nr = c.nr /\ d.of = c.of /\ d.at = c.at /\ ~d.heard
  BY <1>2, Unheard
<1>. HIDE DEF d
<1>4. /\ lost' \in [Intents -> Nat]
      /\ \A i \in Intents : lost'[i] = IF i = k THEN lost[i] + 1 ELSE lost[i]
  BY <1>t, <1>1, <1>2 DEF FormTypeOK
<1>5. FormTypeOK'
  BY <1>t, <1>1, <1>3, <1>4 DEF FormTypeOK, Calls
<1>6. CallsInv'
  <2>1. \A x, y \in calls' : x.nr = y.nr => x = y
    BY <1>t, <1>1, <1>3 DEF CallsInv
  <2>2. \A x \in calls' : ~x.heard
    BY <1>t, <1>1, <1>3 DEF CallsInv
  <2>. QED
    BY <1>1, <2>1, <2>2 DEF CallsInv
<1>7. IntentsInv'
  BY <1>t, <1>1, <1>3 DEF IntentsInv
<1>8. ASSUME NEW i \in Intents PROVE Pending(i)' = Pending(i)
  <2>1. \A n \in 1..count.attempts :
          (\E x \in calls' : x.nr = n /\ x.of.intent = i /\ x.at \in {"check", "create"})
          <=> \E x \in calls : x.nr = n /\ x.of.intent = i /\ x.at \in {"check", "create"}
    BY <1>1, <1>3
  <2>. QED
    BY <1>1, <2>1 DEF Pending
<1>9. CountInv'
  <2>. SUFFICES ASSUME NEW i \in Intents
       PROVE  /\ effects[i] + Cardinality(Pending(i)) <= 1 + lost'[i]
              /\ fields.intent = i /\ ~Promising(i)' => effects[i] + Cardinality(Pending(i)) <= lost'[i]
    BY <1>1, <1>8 DEF CountInv
  <2>1. effects[i] \in Nat /\ lost[i] \in Nat /\ Cardinality(Pending(i)) \in Nat
    BY <1>t, PendingFinite DEF FormTypeOK
  <2>2. i # k => (Promising(i)' <=> Promising(i))
    BY <1>1, <1>3 DEF Promising
  <2>3. /\ effects[i] + Cardinality(Pending(i)) <= 1 + lost[i]
        /\ fields.intent = i /\ ~Promising(i) => effects[i] + Cardinality(Pending(i)) <= lost[i]
    BY <1>t DEF CountInv
  <2>. QED
    BY <1>4, <2>1, <2>2, <2>3
<1>10. CheckedInv'
  BY <1>t, <1>1, <1>3 DEF CheckedInv
<1>11. UniqueInv'
  BY <1>t, <1>1 DEF UniqueInv
<1>. QED
  BY <1>5, <1>6, <1>7, <1>9, <1>10, <1>11 DEF FormInv

\* A new thing is wanted: nobody has had it yet.
LEMMA FillStep ==
  ASSUME FormConstants, FormInv, NEW named \in BOOLEAN, F!Fill(named)
  PROVE  FormInv'
<1>. DEFINE k == count.intents + 1
<1>t. FormTypeOK /\ CallsInv /\ IntentsInv /\ CountInv /\ CheckedInv /\ UniqueInv
  BY DEF FormInv
<1>1. /\ count.intents < MaxIntents /\ fields' = [intent |-> k, named |-> named]
      /\ count' = [count EXCEPT !.intents = @ + 1, !.named = IF named THEN @ \cup {k} ELSE @]
      /\ UNCHANGED <<form, busy, calls, effects, lost>>
  BY DEF F!Fill
<1>2. /\ k \in Intents /\ k > count.intents /\ count.intents \in Nat
      /\ count.named \subseteq 1..count.intents
  BY <1>t, <1>1 DEF FormTypeOK, IntentsInv, Intents, FormConstants
<1>3. /\ count' \in [intents : 0..MaxIntents, attempts : Nat, named : SUBSET Intents]
      /\ count'.intents = k /\ count'.attempts = count.attempts
      /\ count'.named = IF named THEN count.named \cup {k} ELSE count.named
      /\ fields'.intent = k /\ fields'.named = named /\ fields' \in FieldsOf
  <2>1. count \in [intents : 0..MaxIntents, attempts : Nat, named : SUBSET Intents]
    BY <1>t DEF FormTypeOK
  <2>2. /\ count'.intents = k /\ count'.attempts = count.attempts
        /\ count'.named = IF named THEN count.named \cup {k} ELSE count.named
    BY <1>1, <2>1
  <2>3. count' = [intents |-> count'.intents, attempts |-> count'.attempts, named |-> count'.named]
    BY <1>1, <2>1
  <2>4. k \in 0..MaxIntents
    BY <1>2 DEF Intents, FormConstants
  <2>5. count'.attempts \in Nat /\ count'.named \in SUBSET Intents
    BY <1>2, <2>1, <2>2
  <2>6. count' \in [intents : 0..MaxIntents, attempts : Nat, named : SUBSET Intents]
    BY <2>2, <2>3, <2>4, <2>5
  <2>7. fields'.intent = k /\ fields'.named = named /\ fields' \in FieldsOf
    BY <1>1, <2>4 DEF FieldsOf
  <2>. QED
    BY <2>2, <2>6, <2>7
<1>4. \A c \in calls : c.of.intent \in Intents /\ c.of.intent <= count.intents /\ c.of.intent # k
  BY <1>t, <1>2 DEF FormTypeOK, Calls, IntentsInv, Intents
<1>5. FormTypeOK'
  BY <1>t, <1>1, <1>3 DEF FormTypeOK, Calls
<1>6. CallsInv'
  BY <1>t, <1>1 DEF CallsInv
<1>7. IntentsInv'
  <2>1. \A i \in Intents : i > k => effects[i] = 0
    BY <1>t, <1>2 DEF IntentsInv, Intents
  <2>2. \A c \in calls : c.of.intent <= k /\ (c.of.intent \in count'.named <=> c.of.named)
    BY <1>t, <1>2, <1>3, <1>4 DEF IntentsInv, Intents
  <2>3. k \in count'.named <=> named
    BY <1>2, <1>3
  <2>4. count'.named \subseteq 1..k
    BY <1>2, <1>3
  <2>. QED
    BY <1>t, <1>1, <1>2, <1>3, <2>1, <2>2, <2>3, <2>4 DEF IntentsInv
<1>8. \A i \in Intents : Pending(i)' = Pending(i) /\ (Promising(i)' <=> Promising(i))
  BY <1>1, <1>3 DEF Pending, Promising
<1>9. CountInv'
  <2>1. Pending(k) = {}
    BY <1>4 DEF Pending
  <2>2. Cardinality(Pending(k)) = 0 /\ effects[k] = 0 /\ lost[k] \in Nat
    BY <1>t, <1>2, <2>1, FS_EmptySet DEF IntentsInv, FormTypeOK
  <2>. QED
    BY <1>t, <1>1, <1>3, <1>8, <2>2 DEF CountInv
<1>10. CheckedInv'
  <2>1. effects[k] = 0 /\ \A i \in count'.named : i = k \/ i \in count.named
    BY <1>t, <1>2, <1>3 DEF IntentsInv
  <2>. QED
    BY <1>t, <1>1, <1>3, <1>4, <2>1 DEF CheckedInv
<1>11. UniqueInv'
  BY <1>t, <1>1 DEF UniqueInv
<1>. QED
  BY <1>5, <1>6, <1>7, <1>9, <1>10, <1>11 DEF FormInv

\* A new attempt: no call is heard any more, so nothing promises the intent.
LEMMA SubmitStep ==
  ASSUME FormConstants, FormInv, F!Submit
  PROVE  FormInv'
<1>. DEFINE k == fields.intent
            n == count.attempts + 1
            d == [nr |-> n, of |-> fields, at |-> "check", heard |-> TRUE]
<1>t. FormTypeOK /\ CallsInv /\ IntentsInv /\ CountInv /\ CheckedInv /\ UniqueInv
  BY DEF FormInv
<1>1. /\ k # 0 /\ ~busy /\ busy' = TRUE
      /\ count' = [count EXCEPT !.attempts = @ + 1]
      /\ calls' = calls \cup {[nr |-> count'.attempts, of |-> fields, at |-> "check", heard |-> TRUE]}
      /\ UNCHANGED <<form, fields, effects, lost>>
  BY DEF F!Submit, F!SubmitEnabled
<1>2. /\ count' \in [intents : 0..MaxIntents, attempts : Nat, named : SUBSET Intents]
      /\ count'.intents = count.intents /\ count'.attempts = n /\ count'.named = count.named
      /\ count.attempts \in Nat /\ n \in Nat
  BY <1>t, <1>1 DEF FormTypeOK
<1>3. k \in Intents /\ fields \in [intent : Intents, named : BOOLEAN]
  BY <1>t, <1>1 DEF FormTypeOK, FieldsOf, Intents, FormConstants
<1>4. d.nr = n /\ d.of = fields /\ d.at = "check" /\ d.heard
  OBVIOUS
<1>5. d \in Calls' /\ calls' = calls \cup {d}
  BY <1>1, <1>2, <1>3 DEF Calls
<1>. HIDE DEF d
<1>6. \A c \in calls : c \in Calls' /\ c.nr \in 1..count.attempts /\ c.nr # n /\ ~c.heard
  BY <1>t, <1>1, <1>2 DEF FormTypeOK, Calls, CallsInv
<1>7. FormTypeOK'
  BY <1>t, <1>1, <1>2, <1>5, <1>6 DEF FormTypeOK
<1>8. CallsInv'
  BY <1>t, <1>1, <1>4, <1>5, <1>6 DEF CallsInv
<1>9. IntentsInv'
  BY <1>t, <1>1, <1>2, <1>4, <1>5 DEF IntentsInv
<1>10. ASSUME NEW i \in Intents
       PROVE  Pending(i)' = IF i = k THEN Pending(i) \cup {n} ELSE Pending(i)
  <2>1. \A m \in 1..n :
          (\E c \in calls' : c.nr = m /\ c.of.intent = i /\ c.at \in {"check", "create"})
          <=> \/ \E c \in calls : c.nr = m /\ c.of.intent = i /\ c.at \in {"check", "create"}
              \/ m = n /\ i = k
    BY <1>4, <1>5
  <2>2. \A m \in 1..n :
          (\E c \in calls : c.nr = m /\ c.of.intent = i /\ c.at \in {"check", "create"})
            => m \in 1..count.attempts
    BY <1>6
  <2>3. 1..count.attempts \subseteq 1..n /\ n \in 1..n
    BY <1>2
  <2>. QED
    BY <1>2, <2>1, <2>2, <2>3 DEF Pending
<1>11. n \notin Pending(k)
  BY <1>2 DEF Pending
<1>12. CountInv'
  <2>. SUFFICES ASSUME NEW i \in Intents
       PROVE  /\ effects[i] + Cardinality(Pending(i)') <= 1 + lost[i]
              /\ fields.intent = i /\ ~Promising(i)' => effects[i] + Cardinality(Pending(i)') <= lost[i]
    BY <1>1 DEF CountInv
  <2>1. /\ effects[i] + Cardinality(Pending(i)) <= 1 + lost[i]
        /\ fields.intent = i /\ ~Promising(i) => effects[i] + Cardinality(Pending(i)) <= lost[i]
    BY <1>t DEF CountInv
  <2>2. CASE i = k
    <3>1. ~Promising(i)
      BY <1>6 DEF Promising
    <3>2. Promising(i)'
      BY <1>4, <1>5, <2>2 DEF Promising
    <3>3. Cardinality(Pending(i)') = Cardinality(Pending(i)) + 1
      BY <1>10, <1>11, <1>t, <2>2, PendingFinite, FS_AddElement
    <3>4. effects[i] \in Nat /\ lost[i] \in Nat /\ Cardinality(Pending(i)) \in Nat
      BY <1>t, PendingFinite DEF FormTypeOK
    <3>. QED
      BY <2>1, <2>2, <3>1, <3>2, <3>3, <3>4
  <2>3. CASE i # k
    BY <1>10, <2>1, <2>3
  <2>. QED
    BY <2>2, <2>3
<1>13. CheckedInv'
  <2>1. form.id = "checked" /\ ~LoseEarly =>
          \A c \in calls : c.at \in {"check", "create"} => c.of.intent # k
    BY <1>t, <1>6 DEF CheckedInv
  <2>. QED
    BY <1>t, <1>1, <1>2, <1>4, <1>5, <2>1 DEF CheckedInv
<1>14. UniqueInv'
  BY <1>t, <1>1 DEF UniqueInv
<1>. QED
  BY <1>7, <1>8, <1>9, <1>12, <1>13, <1>14 DEF FormInv

\* The form is left: its fields are blank, or as they were.
LEMMA CloseStep ==
  ASSUME FormConstants, FormInv, F!Close
  PROVE  FormInv'
<1>t. FormTypeOK /\ CallsInv /\ IntentsInv /\ CountInv /\ CheckedInv /\ UniqueInv
  BY DEF FormInv
<1>1. UNCHANGED <<form, effects, lost, count>>
  BY DEF F!Close
<1>2. F!Blank \in FieldsOf /\ F!Blank.intent = 0 /\ F!Blank.named = FALSE
  BY DEF F!Blank, FieldsOf, FormConstants
<1>3. 0 \notin Intents /\ 0 \notin count.named /\ \A c \in calls : c.of.intent \in Intents
  BY <1>t DEF Intents, FormTypeOK, Calls
<1>4. form.closing \in {"keeps", "clears", "unmounts"}
  BY <1>t DEF FormTypeOK, AllForms, DepositForm, TransferForm, WithdrawForm, PushForm, PayoutForm,
                  LinkForm, SmsForm, AccountForm, StaffForm, MoveForm
<1>5. CASE form.closing = "keeps"
  <2>1. UNCHANGED <<form, fields, busy, calls, effects, lost, count>>
    BY <1>1, <1>5 DEF F!Close
  <2>. QED
    BY <2>1 DEF FormInv, FormTypeOK, CallsInv, IntentsInv, CountInv, CheckedInv, UniqueInv,
                Calls, Pending, Promising
<1>6. CASE form.closing = "clears"
  <2>1. fields' = F!Blank /\ UNCHANGED <<form, busy, calls, effects, lost, count>>
    BY <1>1, <1>6 DEF F!Close
  <2>2. FormTypeOK' /\ CallsInv' /\ UniqueInv'
    BY <1>t, <1>2, <2>1 DEF FormTypeOK, Calls, CallsInv, UniqueInv
  <2>3. IntentsInv'
    BY <1>t, <1>2, <1>3, <2>1 DEF IntentsInv, FormTypeOK
  <2>4. CountInv'
    BY <1>t, <1>2, <1>3, <2>1 DEF CountInv, Pending
  <2>5. CheckedInv'
    BY <1>t, <1>2, <1>3, <2>1 DEF CheckedInv
  <2>. QED
    BY <2>2, <2>3, <2>4, <2>5 DEF FormInv
<1>7. CASE form.closing = "unmounts"
  <2>. DEFINE Left(c) == [c EXCEPT !.heard = FALSE]
  <2>1. /\ fields' = F!Blank /\ busy' = FALSE /\ calls' = {Left(c) : c \in calls}
        /\ UNCHANGED <<form, effects, lost, count>>
    BY <1>1, <1>7 DEF F!Close
  <2>2. \A c \in calls : /\ Left(c) \in Calls /\ Left(c).nr = c.nr /\ Left(c).of = c.of
                         /\ Left(c).at = c.at /\ ~Left(c).heard
    BY <1>t, Unheard DEF FormTypeOK
  <2>. HIDE DEF Left
  <2>3. FormTypeOK'
    <3>1. Calls' = Calls
      BY <2>1 DEF Calls
    <3>2. \A c \in calls' : c \in Calls
      BY <2>1, <2>2
    <3>. QED
      BY <1>t, <1>2, <2>1, <3>1, <3>2 DEF FormTypeOK
  <2>4. CallsInv'
    BY <1>t, <2>1, <2>2 DEF CallsInv
  <2>5. IntentsInv'
    BY <1>t, <1>2, <1>3, <2>1, <2>2 DEF IntentsInv, FormTypeOK
  <2>6. ASSUME NEW i \in Intents PROVE Pending(i)' = Pending(i)
    <3>1. \A n \in 1..count.attempts :
            (\E c \in calls' : c.nr = n /\ c.of.intent = i /\ c.at \in {"check", "create"})
            <=> \E c \in calls : c.nr = n /\ c.of.intent = i /\ c.at \in {"check", "create"}
      BY <2>1, <2>2
    <3>. QED
      BY <2>1, <3>1 DEF Pending
  <2>7. CountInv'
    BY <1>t, <1>2, <1>3, <2>1, <2>6 DEF CountInv
  <2>8. CheckedInv'
    <3>1. \A c \in calls' : c.of.intent # fields'.intent
      BY <1>2, <1>3, <2>1, <2>2
    <3>. QED
      BY <1>t, <2>1, <2>2, <3>1 DEF CheckedInv
  <2>9. UniqueInv'
    BY <1>t, <2>1 DEF UniqueInv
  <2>. QED
    BY <2>3, <2>4, <2>5, <2>7, <2>8, <2>9 DEF FormInv
<1>. QED
  BY <1>4, <1>5, <1>6, <1>7

LEMMA FormNext ==
  ASSUME FormConstants, FormInv, [F!Next]_(F!fvars)
  PROVE  FormInv'
<1>1. ASSUME NEW named \in BOOLEAN, F!Fill(named) PROVE FormInv'
  BY <1>1, FillStep
<1>2. CASE F!Submit
  BY <1>2, SubmitStep
<1>3. CASE F!Close
  BY <1>3, CloseStep
<1>4. ASSUME NEW c \in calls, F!Check(c) PROVE FormInv'
  <2>. DEFINE at == IF F!Known(c) THEN "refused" ELSE "create"
  <2>1. /\ c.at = "check" /\ F!Step(c, at) /\ at \in {"create", "created", "refused"} /\ at # "created"
        /\ UNCHANGED <<form, fields, busy, effects, lost, count>>
    BY <1>4 DEF F!Check
  <2>2. at = "create" /\ form.id = "checked" /\ c.of.named => effects[c.of.intent] = 0
    <3>1. effects \in [Intents -> Nat] /\ c.of.intent \in Intents
      BY DEF FormInv, FormTypeOK, Calls
    <3>. QED
      BY <3>1 DEF F!Known
  <2>. HIDE DEF at
  <2>. QED
    BY <2>1, <2>2, ServiceStep
<1>5. ASSUME NEW c \in calls, F!Create(c) PROVE FormInv'
  <2>1. c.at = "create" /\ UNCHANGED <<form, fields, busy, lost, count>>
    BY <1>5 DEF F!Create
  <2>2. CASE form.id = "unique" /\ effects[c.of.intent] > 0
    <3>1. F!Step(c, "refused") /\ UNCHANGED effects
      BY <1>5, <2>2 DEF F!Create
    <3>. QED
      BY <2>1, <3>1, ServiceStep
  <2>3. CASE ~(form.id = "unique" /\ effects[c.of.intent] > 0)
    <3>1. F!Step(c, "created") /\ effects' = [effects EXCEPT ![c.of.intent] = @ + 1]
      BY <1>5, <2>3 DEF F!Create
    <3>2. form.id = "unique" => effects[c.of.intent] = 0
      BY <2>3 DEF FormInv, FormTypeOK, Calls
    <3>. QED
      BY <2>1, <3>1, <3>2, ServiceStep
  <2>. QED
    BY <2>2, <2>3
<1>6. ASSUME NEW c \in calls, F!Refuse(c) PROVE FormInv'
  <2>1. /\ c.at = "create" /\ F!Step(c, "refused")
        /\ UNCHANGED <<form, fields, busy, effects, lost, count>>
    BY <1>6 DEF F!Refuse
  <2>. QED
    BY <2>1, ServiceStep
<1>7. ASSUME NEW c \in calls, F!Answer(c) PROVE FormInv'
  BY <1>7, AnswerStep
<1>8. ASSUME NEW c \in calls, F!Lose(c) PROVE FormInv'
  BY <1>8, LoseStep
<1>9. CASE UNCHANGED F!fvars
  BY <1>9 DEF F!fvars, FormInv, FormTypeOK, CallsInv, IntentsInv, CountInv, CheckedInv,
              UniqueInv, Calls, Pending, Promising
<1>. QED
  BY <1>1, <1>2, <1>3, <1>4, <1>5, <1>6, <1>7, <1>8, <1>9 DEF F!Next

LEMMA FormAlways ==
  ASSUME FormConstants
  PROVE  F!Spec => []FormInv
<1>1. F!Init => FormInv
  BY FormInit
<1>2. FormInv /\ [F!Next]_(F!fvars) => FormInv'
  BY FormNext
<1>. QED
  BY <1>1, <1>2, PTL DEF F!Spec

\* What holds of every form, whenever its connection breaks.
LostAnswersCounted ==
  \A i \in Intents :
    /\ effects[i] <= 1 + lost[i]
    /\ form.id = "unique" => effects[i] <= 1

(***************************************************************************)
(* The portals' forms: what the user wants once happens once, and once     *)
(* more for every answer that was lost, however the form is closed, edited *)
(* and submitted again, also while the connection breaks under a request   *)
(* the service is at work on.  A unique identifier (administrators) makes  *)
(* it exact.                                                               *)
(***************************************************************************)
THEOREM LostAnswersCount ==
  ASSUME FormConstants
  PROVE  F!Spec => []LostAnswersCounted
<1>1. FormInv => LostAnswersCounted
  <2>. SUFFICES ASSUME FormInv, NEW i \in Intents
       PROVE  effects[i] <= 1 + lost[i] /\ (form.id = "unique" => effects[i] <= 1)
    BY DEF LostAnswersCounted
  <2>1. /\ effects[i] \in Nat /\ lost[i] \in Nat /\ Cardinality(Pending(i)) \in Nat
        /\ effects[i] + Cardinality(Pending(i)) <= 1 + lost[i]
        /\ form.id = "unique" => effects[i] <= 1
    BY PendingFinite DEF FormInv, FormTypeOK, CountInv, UniqueInv
  <2>. QED
    BY <2>1
<1>. QED
  BY <1>1, FormAlways, PTL

(***************************************************************************)
(* An identifier that the service checks before it creates (deposits,      *)
(* transfers, USSD pushes, payouts) makes it exact too, as long as the     *)
(* connection outlives the service's work on a request.                    *)
(***************************************************************************)
THEOREM WantedOnceHappensOnce ==
  ASSUME FormConstants, ~LoseEarly
  PROVE  /\ F!Spec => []OncePerIntent
         /\ SumSpec => []OncePerIntent
<1>1. FormInv => OncePerIntent
  <2>. SUFFICES ASSUME FormInv, NEW i \in 1..MaxIntents
       PROVE  /\ effects[i] <= 1 + lost[i]
              /\ i \in count.named /\ form.id \in {"checked", "unique"} => effects[i] <= 1
    BY DEF OncePerIntent, F!OncePerIntent
  <2>1. /\ effects[i] \in Nat /\ lost[i] \in Nat /\ Cardinality(Pending(i)) \in Nat
        /\ effects[i] + Cardinality(Pending(i)) <= 1 + lost[i]
    BY PendingFinite DEF FormInv, FormTypeOK, CountInv, Intents
  <2>2. i \in count.named /\ form.id \in {"checked", "unique"} => effects[i] <= 1
    BY DEF FormInv, CheckedInv, UniqueInv, Intents
  <2>. QED
    BY <2>1, <2>2
<1>2. F!Spec => []OncePerIntent
  BY <1>1, FormAlways, PTL
<1>3. SumSpec => F!Spec
  BY SumOfParts, PTL DEF SumSpec, F!Spec
<1>. QED
  BY <1>2, <1>3, PTL

-----------------------------------------------------------------------------
(* The account page.                                                       *)

Action == [nr : Nat, what : {"save", "issue", "other", "fees"}, value : SUBSET Services,
           done : BOOLEAN]

PageTypeOK ==
  /\ server \in G!Account /\ server.keys # 0
  /\ shown \in G!Account /\ loads \in Seq(G!Account)
  /\ draft \in [rows : SUBSET Services, from : SUBSET Services]
  /\ actions \in SUBSET Action
  /\ missed \in BOOLEAN
  /\ usedP \in [calls : Nat, edits : Nat, failures : Nat]

\* The service reads for the loads in their order.
ReadInOrder ==
  \A i, j \in DOMAIN loads : i < j /\ loads[j] # G!Unread => loads[i] # G!Unread

\* A load is to come: one that the service has not read for, or that of an
\* action which is done and whose answer is not there.
LoadToCome ==
  \/ \E i \in DOMAIN loads : loads[i] = G!Unread
  \/ \E c \in actions : c.done /\ c.what # "fees"

\* What the page will show when the loads under way are answered.
ToShow == IF loads = <<>> THEN shown ELSE loads[Len(loads)]

\* A change has a load to come, or the page is about to show it.
PageUpToDate == missed \/ LoadToCome \/ ToShow = server

PageInv == PageTypeOK /\ ReadInOrder /\ PageUpToDate

LEMMA PageInit ==
  ASSUME G!Init
  PROVE  PageInv
<1>. USE DEF G!Init, G!Account, G!Unread, G!NoDraft
<1>1. loads = <<G!Unread>> /\ Len(loads) = 1 /\ loads[1] = G!Unread /\ DOMAIN loads = {1}
  OBVIOUS
<1>2. G!Unread \in G!Account
  OBVIOUS
<1>3. loads \in Seq(G!Account)
  BY <1>1, <1>2
<1>4. PageTypeOK
  <2>1. server \in G!Account /\ server.keys # 0 /\ shown \in G!Account
    OBVIOUS
  <2>2. draft \in [rows : SUBSET Services, from : SUBSET Services]
    OBVIOUS
  <2>3. usedP \in [calls : Nat, edits : Nat, failures : Nat] /\ missed \in BOOLEAN /\ actions = {}
    OBVIOUS
  <2>. QED
    BY <1>3, <2>1, <2>2, <2>3 DEF PageTypeOK
<1>5. ReadInOrder /\ PageUpToDate
  BY <1>1 DEF ReadInOrder, PageUpToDate, LoadToCome
<1>. QED
  BY <1>4, <1>5 DEF PageInv

\* A load that the service has just read for, and that is the last to be read,
\* is the page's last load.
LEMMA PageServed ==
  ASSUME PageInv, NEW i \in DOMAIN loads, G!ServeLoad(i)
  PROVE  PageInv'
<1>t. PageTypeOK /\ ReadInOrder /\ PageUpToDate
  BY DEF PageInv
<1>1. /\ loads[i] = G!Unread /\ \A j \in 1..(i - 1) : loads[j] # G!Unread
      /\ loads' = [loads EXCEPT ![i] = server]
      /\ UNCHANGED <<server, shown, reloading, tab, draft, actions, keys, usedP>>
      /\ missed' = FALSE
  BY DEF G!ServeLoad
<1>2. loads \in Seq(G!Account) /\ server \in G!Account /\ server # G!Unread
  BY <1>t DEF PageTypeOK, G!Unread
<1>3. /\ loads' \in Seq(G!Account) /\ Len(loads') = Len(loads) /\ DOMAIN loads' = DOMAIN loads
      /\ \A j \in DOMAIN loads : loads'[j] = IF j = i THEN server ELSE loads[j]
  BY <1>1, <1>2
<1>4. DOMAIN loads = 1..Len(loads) /\ Len(loads) \in Nat /\ i \in 1..Len(loads)
  BY <1>2
<1>5. PageTypeOK'
  BY <1>t, <1>1, <1>3 DEF PageTypeOK
<1>6. ReadInOrder'
  <2>. SUFFICES ASSUME NEW j \in DOMAIN loads, NEW k \in DOMAIN loads, j < k, loads'[k] # G!Unread
       PROVE  loads'[j] # G!Unread
    BY <1>3 DEF ReadInOrder
  <2>1. CASE j = i
    BY <1>2, <1>3, <2>1
  <2>2. CASE j # i /\ k = i
    BY <1>1, <1>3, <1>4, <2>2
  <2>3. CASE j # i /\ k # i
    BY <1>t, <1>3, <2>3 DEF ReadInOrder
  <2>. QED
    BY <2>1, <2>2, <2>3
<1>7. PageUpToDate'
  <2>1. CASE i = Len(loads)
    <3>1. loads' # <<>> /\ loads'[Len(loads')] = server
      BY <1>3, <1>4, <2>1
    <3>. QED
      BY <1>1, <3>1 DEF PageUpToDate, ToShow
  <2>2. CASE i # Len(loads)
    <3>1. Len(loads) \in DOMAIN loads /\ i < Len(loads)
      BY <1>4, <2>2
    <3>2. loads[Len(loads)] = G!Unread
      BY <1>t, <1>1, <3>1 DEF ReadInOrder
    <3>3. loads'[Len(loads)] = G!Unread
      BY <1>3, <3>1, <3>2
    <3>. QED
      BY <1>3, <3>1, <3>3 DEF PageUpToDate, LoadToCome
  <2>. QED
    BY <2>1, <2>2
<1>. QED
  BY <1>5, <1>6, <1>7 DEF PageInv

\* Fewer loads are in order as well.
LEMMA RemovedInOrder ==
  ASSUME PageTypeOK, ReadInOrder, NEW i \in DOMAIN loads, loads' = G!RemoveAt(loads, i)
  PROVE  loads' \in Seq(G!Account) /\ ReadInOrder'
<1>1. loads \in Seq(G!Account)
  BY DEF PageTypeOK
<1>2. /\ loads' \in Seq(G!Account) /\ Len(loads) \in Nat \ {0} /\ Len(loads') = Len(loads) - 1
      /\ \A j \in 1..Len(loads') : loads'[j] = loads[IF j < i THEN j ELSE j + 1]
  BY <1>1, Removal
<1>3. DOMAIN loads' = 1..(Len(loads) - 1) /\ DOMAIN loads = 1..Len(loads)
  BY <1>1, <1>2
<1>. SUFFICES ASSUME NEW j \in DOMAIN loads', NEW k \in DOMAIN loads', j < k, loads'[k] # G!Unread
     PROVE  loads'[j] # G!Unread
  BY <1>2 DEF ReadInOrder
<1>. DEFINE u == IF j < i THEN j ELSE j + 1
            v == IF k < i THEN k ELSE k + 1
<1>4. u \in DOMAIN loads /\ v \in DOMAIN loads /\ u < v
  BY <1>2, <1>3
<1>5. loads'[j] = loads[u] /\ loads'[k] = loads[v]
  BY <1>2, <1>3
<1>. QED
  BY <1>4, <1>5 DEF ReadInOrder

LEMMA PageAnswered ==
  ASSUME PageInv, NEW i \in DOMAIN loads, G!LoadAnswered(i)
  PROVE  PageInv'
<1>t. PageTypeOK /\ ReadInOrder /\ PageUpToDate
  BY DEF PageInv
<1>1. /\ loads[i] # G!Unread /\ i = 1 /\ shown' = loads[i] /\ loads' = G!RemoveAt(loads, i)
      /\ draft' = G!Rows(loads[i])
      /\ UNCHANGED <<server, actions, missed, keys, usedP>>
  BY DEF G!LoadAnswered
<1>2. loads \in Seq(G!Account) /\ loads[i] \in G!Account
  BY <1>t DEF PageTypeOK
<1>3. loads' \in Seq(G!Account) /\ ReadInOrder'
  BY <1>t, <1>1, RemovedInOrder
<1>4. PageTypeOK'
  <2>1. draft' \in [rows : SUBSET Services, from : SUBSET Services]
    BY <1>t, <1>1, <1>2 DEF PageTypeOK, G!Rows, G!Account
  <2>. QED
    BY <1>t, <1>1, <1>2, <1>3, <2>1 DEF PageTypeOK
<1>5. PageUpToDate'
  <2>1. /\ Len(loads) \in Nat \ {0} /\ Len(loads') = Len(loads) - 1
        /\ \A j \in 1..Len(loads') : loads'[j] = loads[j + 1]
    BY <1>1, <1>2, Removal
  <2>2. DOMAIN loads' = 1..(Len(loads) - 1) /\ DOMAIN loads = 1..Len(loads)
    BY <1>2, <1>3, <2>1
  <2>3. CASE missed
    BY <1>1, <2>3 DEF PageUpToDate
  <2>4. CASE LoadToCome
    <3>1. ASSUME NEW j \in DOMAIN loads, loads[j] = G!Unread
          PROVE  \E k \in DOMAIN loads' : loads'[k] = G!Unread
      <4>1. j - 1 \in DOMAIN loads' /\ (j - 1) + 1 = j
        BY <1>1, <2>2, <3>1
      <4>. QED
        BY <2>1, <2>2, <3>1, <4>1
    <3>. QED
      BY <1>1, <2>4, <3>1 DEF LoadToCome, PageUpToDate
  <2>5. CASE ToShow = server
    <3>1. CASE Len(loads) = 1
      <4>1. loads' = <<>> /\ loads # <<>>
        BY <1>2, <1>3, <2>1, <3>1
      <4>. QED
        BY <1>1, <2>5, <3>1, <4>1 DEF ToShow, PageUpToDate
    <3>2. CASE Len(loads) # 1
      <4>1. Len(loads') \in 1..Len(loads') /\ Len(loads') + 1 = Len(loads)
        BY <2>1, <3>2
      <4>2. loads' # <<>> /\ loads # <<>> /\ loads'[Len(loads')] = loads[Len(loads)]
        BY <2>1, <4>1
      <4>. QED
        BY <1>1, <2>5, <4>2 DEF ToShow, PageUpToDate
    <3>. QED
      BY <3>1, <3>2
  <2>. QED
    BY <1>t, <2>3, <2>4, <2>5 DEF PageUpToDate
<1>. QED
  BY <1>3, <1>4, <1>5 DEF PageInv

LEMMA PageFailed ==
  ASSUME PageInv, NEW i \in DOMAIN loads, G!LoadFailed(i)
  PROVE  PageInv'
<1>t. PageTypeOK /\ ReadInOrder
  BY DEF PageInv
<1>1. /\ loads' = G!RemoveAt(loads, i) /\ missed' = TRUE
      /\ usedP' = [usedP EXCEPT !.failures = @ + 1]
      /\ UNCHANGED <<server, shown, draft, actions, keys>>
  BY DEF G!LoadFailed
<1>2. loads' \in Seq(G!Account) /\ ReadInOrder'
  BY <1>t, <1>1, RemovedInOrder
<1>3. PageTypeOK'
  BY <1>t, <1>1, <1>2 DEF PageTypeOK
<1>. QED
  BY <1>1, <1>2, <1>3 DEF PageInv, PageUpToDate

\* The steps of the page that neither load nor answer.
LEMMA PageControls ==
  ASSUME PageInv, UNCHANGED <<server, shown, loads, missed>>, PageTypeOK',
         \A c \in actions : c.done => c \in actions'
  PROVE  PageInv'
BY DEF PageInv, ReadInOrder, PageUpToDate, LoadToCome, ToShow

LEMMA PageCall ==
  ASSUME PageInv, NEW what \in {"save", "issue", "other", "fees"},
         NEW value \in SUBSET Services, G!Call(what, value)
  PROVE  PageInv'
<1>1. PageTypeOK
  BY DEF PageInv
<1>2. usedP' \in [calls : Nat, edits : Nat, failures : Nat] /\ usedP'.calls \in Nat
  BY <1>1 DEF PageTypeOK, G!Call
<1>3. actions' = actions \cup {[nr |-> usedP'.calls, what |-> what, value |-> value, done |-> FALSE]}
  BY DEF G!Call
<1>4. [nr |-> usedP'.calls, what |-> what, value |-> value, done |-> FALSE] \in Action
  BY <1>2 DEF Action
<1>5. UNCHANGED <<server, shown, loads, draft, missed>>
  BY DEF G!Call
<1>6. PageTypeOK'
  BY <1>1, <1>2, <1>3, <1>4, <1>5 DEF PageTypeOK
<1>. QED
  BY <1>3, <1>5, <1>6, PageControls

\* The service does what an action asks; but for the fees, the page will load.
LEMMA PageServedCall ==
  ASSUME PageInv, NEW c \in actions, G!ServeCall(c)
  PROVE  PageInv'
<1>. DEFINE d == [c EXCEPT !.done = TRUE]
<1>t. PageTypeOK /\ ReadInOrder /\ PageUpToDate
  BY DEF PageInv
<1>1. /\ ~c.done /\ actions' = (actions \ {c}) \cup {d}
      /\ UNCHANGED <<shown, reloading, loads, tab, draft, missed, keys, usedP>>
  BY DEF G!ServeCall
<1>2. c \in Action /\ d \in Action /\ d.done /\ d.what = c.what
  BY <1>t DEF PageTypeOK, Action
<1>. HIDE DEF d
<1>3. server' \in G!Account /\ server'.keys # 0 /\ (c.what = "fees" => server' = server)
  <2>0. server \in [granted : SUBSET Services, keys : Nat, changes : Nat] /\ server.keys # 0
    BY <1>t DEF PageTypeOK, G!Account
  <2>1. CASE c.what = "save"
    <3>1. server' = [server EXCEPT !.granted = c.value] /\ c.value \in SUBSET Services
      BY <1>2, <2>1 DEF G!ServeCall, Action
    <3>. QED
      BY <2>0, <2>1, <3>1 DEF G!Account
  <2>2. CASE c.what = "issue"
    <3>1. server' = [server EXCEPT !.keys = @ + 1]
      BY <2>2 DEF G!ServeCall
    <3>. QED
      BY <2>0, <2>2, <3>1 DEF G!Account
  <2>3. CASE c.what = "other"
    <3>1. server' = [server EXCEPT !.changes = @ + 1]
      BY <2>3 DEF G!ServeCall
    <3>. QED
      BY <2>0, <2>3, <3>1 DEF G!Account
  <2>4. CASE c.what = "fees"
    <3>1. server' = server
      BY <2>4 DEF G!ServeCall
    <3>. QED
      BY <2>0, <3>1 DEF G!Account
  <2>. QED
    BY <1>2, <2>1, <2>2, <2>3, <2>4 DEF Action
<1>4. PageTypeOK'
  BY <1>t, <1>1, <1>2, <1>3 DEF PageTypeOK
<1>5. ReadInOrder'
  BY <1>t, <1>1 DEF ReadInOrder
<1>6. PageUpToDate'
  <2>1. CASE c.what = "fees"
    BY <1>t, <1>1, <1>3, <2>1 DEF PageUpToDate, LoadToCome, ToShow
  <2>2. CASE c.what # "fees"
    BY <1>1, <1>2, <2>2 DEF PageUpToDate, LoadToCome
  <2>. QED
    BY <2>1, <2>2
<1>. QED
  BY <1>4, <1>5, <1>6 DEF PageInv

LEMMA PageAnsweredCall ==
  ASSUME PageInv, NEW c \in actions, G!CallAnswered(c)
  PROVE  PageInv'
<1>t. PageTypeOK /\ ReadInOrder /\ PageUpToDate
  BY DEF PageInv
<1>1. actions' = actions \ {c} /\ UNCHANGED <<server, shown, missed, usedP>>
  BY DEF G!CallAnswered
<1>2. loads \in Seq(G!Account) /\ G!Unread \in G!Account
  BY <1>t DEF PageTypeOK, G!Unread, G!Account
<1>3. CASE c.what # "fees"
  <2>1. loads' = Append(loads, G!Unread) /\ draft' = G!NoDraft
    BY <1>3 DEF G!CallAnswered, G!Reloads, G!Reload, G!Unmounted
  <2>2. /\ loads' \in Seq(G!Account) /\ Len(loads') = Len(loads) + 1 /\ Len(loads) \in Nat
        /\ \A i \in 1..Len(loads) : loads'[i] = loads[i]
        /\ loads'[Len(loads) + 1] = G!Unread
    BY <1>2, <2>1, AppendProperties
  <2>3. DOMAIN loads' = 1..(Len(loads) + 1) /\ DOMAIN loads = 1..Len(loads)
    BY <1>2, <2>2
  <2>4. PageTypeOK'
    BY <1>t, <1>1, <2>1, <2>2 DEF PageTypeOK, G!NoDraft
  <2>5. ReadInOrder'
    <3>. SUFFICES ASSUME NEW i \in DOMAIN loads', NEW j \in DOMAIN loads', i < j,
                         loads'[j] # G!Unread
         PROVE  loads'[i] # G!Unread
      BY DEF ReadInOrder
    <3>1. j \in DOMAIN loads /\ i \in DOMAIN loads
      BY <2>2, <2>3
    <3>. QED
      BY <1>t, <2>2, <2>3, <3>1 DEF ReadInOrder
  <2>6. PageUpToDate'
    BY <2>2, <2>3 DEF PageUpToDate, LoadToCome
  <2>. QED
    BY <2>4, <2>5, <2>6 DEF PageInv
<1>4. CASE c.what = "fees"
  <2>1. UNCHANGED <<loads, draft>>
    BY <1>4 DEF G!CallAnswered, G!Reloads
  <2>2. PageTypeOK'
    BY <1>t, <1>1, <2>1 DEF PageTypeOK
  <2>3. ReadInOrder' /\ PageUpToDate'
    BY <1>t, <1>1, <1>4, <2>1 DEF ReadInOrder, PageUpToDate, LoadToCome, ToShow
  <2>. QED
    BY <2>2, <2>3 DEF PageInv
<1>. QED
  BY <1>3, <1>4

LEMMA PageFailedCall ==
  ASSUME PageInv, NEW c \in actions, G!CallFailed(c)
  PROVE  PageInv'
<1>t. PageTypeOK /\ ReadInOrder /\ PageUpToDate
  BY DEF PageInv
<1>1. /\ usedP' = [usedP EXCEPT !.failures = @ + 1]
      /\ actions' = actions \ {c} /\ missed' = (missed \/ c.done)
      /\ UNCHANGED <<server, shown, loads, draft>>
  BY DEF G!CallFailed
<1>2. c \in Action
  BY <1>t DEF PageTypeOK
<1>3. PageTypeOK'
  <2>1. c.done \in BOOLEAN /\ missed \in BOOLEAN
    BY <1>t, <1>2 DEF PageTypeOK, Action
  <2>2. missed' \in BOOLEAN
    BY <1>1, <2>1
  <2>3. usedP' \in [calls : Nat, edits : Nat, failures : Nat]
    BY <1>t, <1>1 DEF PageTypeOK
  <2>. QED
    BY <1>t, <1>1, <2>2, <2>3 DEF PageTypeOK
<1>4. ReadInOrder'
  BY <1>t, <1>1 DEF ReadInOrder
<1>5. PageUpToDate'
  BY <1>t, <1>1 DEF PageUpToDate, LoadToCome, ToShow
<1>. QED
  BY <1>3, <1>4, <1>5 DEF PageInv

LEMMA PageNext ==
  ASSUME PageInv, [G!Next]_(G!pvars)
  PROVE  PageInv'
<1>t. PageTypeOK
  BY DEF PageInv
<1>1. ASSUME NEW i \in DOMAIN loads, G!ServeLoad(i) \/ G!LoadAnswered(i) \/ G!LoadFailed(i)
      PROVE  PageInv'
  BY <1>1, PageServed, PageAnswered, PageFailed
<1>2. ASSUME NEW t \in G!Tabs, G!SelectTab(t) PROVE PageInv'
  <2>1. UNCHANGED <<server, shown, loads, actions, missed, usedP>>
    BY <1>2 DEF G!SelectTab
  <2>2. draft' \in [rows : SUBSET Services, from : SUBSET Services]
    BY <1>t, <1>2 DEF G!SelectTab, PageTypeOK, G!NoDraft, G!Account
  <2>3. PageTypeOK'
    BY <1>t, <2>1, <2>2 DEF PageTypeOK
  <2>. QED
    BY <2>1, <2>3, PageControls
<1>3. ASSUME NEW s \in Services, G!TogglePermission(s) PROVE PageInv'
  <2>1. UNCHANGED <<server, shown, loads, actions, missed>>
    BY <1>3 DEF G!TogglePermission
  <2>2. draft' \in [rows : SUBSET Services, from : SUBSET Services]
    BY <1>t, <1>3 DEF G!TogglePermission, PageTypeOK
  <2>3. usedP' \in [calls : Nat, edits : Nat, failures : Nat]
    BY <1>t, <1>3 DEF G!TogglePermission, PageTypeOK
  <2>4. PageTypeOK'
    BY <1>t, <2>1, <2>2, <2>3 DEF PageTypeOK
  <2>. QED
    BY <2>1, <2>4, PageControls
<1>4. CASE G!SavePermissions
  <2>1. draft.rows \in SUBSET Services
    BY <1>t DEF PageTypeOK
  <2>. QED
    BY <1>4, <2>1, PageCall DEF G!SavePermissions
<1>5. CASE \/ G!IssueKey \/ G!RevokeKey \/ G!MoveWallet \/ G!ChangeSettlement \/ G!SaveFees
           \/ G!SuspendOrActivate
  BY <1>5, PageCall DEF G!IssueKey, G!RevokeKey, G!MoveWallet, G!ChangeSettlement, G!SaveFees,
                        G!SuspendOrActivate
<1>6. ASSUME NEW c \in actions, G!ServeCall(c) \/ G!CallAnswered(c) \/ G!CallFailed(c)
      PROVE  PageInv'
  BY <1>6, PageServedCall, PageAnsweredCall, PageFailedCall
<1>7. CASE UNCHANGED G!pvars
  <2>1. UNCHANGED <<server, shown, loads, draft, actions, missed, usedP>>
    BY <1>7 DEF G!pvars
  <2>2. PageTypeOK'
    BY <1>t, <2>1 DEF PageTypeOK
  <2>. QED
    BY <2>1, <2>2, PageControls
<1>. QED
  BY <1>1, <1>2, <1>3, <1>4, <1>5, <1>6, <1>7 DEF G!Next

(***************************************************************************)
(* account-detail.tsx with loads that are answered in order: when nothing  *)
(* is under way the page shows the account as it is, however its actions   *)
(* and its loads overlapped, unless an answer was lost.                    *)
(***************************************************************************)
THEOREM PageShowsTheAccount ==
  /\ G!Spec => []PageSettles
  /\ SumSpec => []PageSettles
<1>1. G!Init => PageInv
  BY PageInit
<1>2. PageInv /\ [G!Next]_(G!pvars) => PageInv'
  BY PageNext
<1>3. PageInv => PageSettles
  <2>. SUFFICES ASSUME PageInv, loads = <<>>, actions = {}, ~missed
       PROVE  shown = server
    BY DEF PageSettles, G!PageSettles
  <2>1. ~LoadToCome
    BY DEF LoadToCome
  <2>. QED
    BY <2>1 DEF PageInv, PageUpToDate, ToShow
<1>4. G!Spec => []PageSettles
  BY <1>1, <1>2, <1>3, PTL DEF G!Spec
<1>5. SumSpec => G!Spec
  BY SumOfParts, PTL DEF SumSpec, G!Spec
<1>. QED
  BY <1>4, <1>5, PTL

=============================================================================
