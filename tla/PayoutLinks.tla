--------------------------- MODULE PayoutLinks ---------------------------
(***************************************************************************)
(* Payout links: the merchant creates one, a recipient opens it in a       *)
(* browser, previews and confirms, and the service consumes the link and   *)
(* creates the payout (disbursements.service.ts, payout-links.controller,  *)
(* user portal payout-link-view.tsx).  A session is one browser tab with   *)
(* the link; several can hold the same one.  createPayout is one step here *)
(* (module Payouts has its insides): it pays once or fails.                *)
(***************************************************************************)
EXTENDS Naturals

CONSTANTS
  Links, Sessions, Phones, None,
  LinkOf,                  \* the link a session has opened
  Lifetime,                \* of a link, in ticks of the clock
  MaxNow, MaxPreviews, MaxFailures   \* bounds of the model

VARIABLES
  now,
  link,      \* rows of payout_links; expiresAt = 0: not created
  paid,      \* payouts made for a link, and the phone of the last one
  page,      \* a session's page: what it knows, and whether it is submitting
  previews,  \* previews a session has sent that are unanswered
  req,       \* a session's confirmation at the service
  used       \* what is used up of the bounds

plvars == <<now, link, paid, page, previews, req, used>>

Init ==
  /\ now = 1
  /\ link = [l \in Links |-> [expiresAt |-> 0, by |-> None, phone |-> None, payout |-> FALSE]]
  /\ paid = [l \in Links |-> [times |-> 0, phone |-> None]]
  /\ page = [s \in Sessions |-> [view |-> "loading", recipient |-> None]]
  /\ previews = [s \in Sessions |-> {}]
  /\ req = [s \in Sessions |-> [at |-> "idle", phone |-> None]]
  /\ used = [previews |-> 0, failures |-> 0]

\* findActivePayoutLink
Active(l) == link[l].by = None /\ link[l].expiresAt > now

CreateLink(l) ==
  /\ link[l].expiresAt = 0
  /\ link' = [link EXCEPT ![l].expiresAt = now + Lifetime]
  /\ UNCHANGED <<now, paid, page, previews, req, used>>

-----------------------------------------------------------------------------
(* The page.                                                               *)

\* What is rendered: the recipient's confirmation replaces the form.
Shown(s) == IF page[s].view = "open" /\ page[s].recipient # None THEN "confirm"
            ELSE page[s].view

\* The effect that fetches the link when the page opens.
Load(s) ==
  /\ page[s].view = "loading" /\ link[LinkOf[s]].expiresAt > 0
  /\ page' = [page EXCEPT ![s].view = IF Active(LinkOf[s]) THEN "open" ELSE "error"]
  /\ UNCHANGED <<now, link, paid, previews, req, used>>

\* handlePreview has no busy flag: several may be under way.
Preview(s, phone) ==
  /\ Shown(s) = "open" /\ used.previews < MaxPreviews
  /\ used' = [used EXCEPT !.previews = @ + 1]
  /\ previews' = [previews EXCEPT ![s] = @ \cup {phone}]
  /\ UNCHANGED <<now, link, paid, page, req>>

\* resolvePayoutLinkRecipient answers, in any order.
PreviewAnswered(s, phone) ==
  /\ phone \in previews[s]
  /\ previews' = [previews EXCEPT ![s] = @ \ {phone}]
  /\ page' = IF page[s].view = "open" /\ Active(LinkOf[s])
             THEN [page EXCEPT ![s].recipient = phone] ELSE page
  /\ UNCHANGED <<now, link, paid, req, used>>

ChangeDetails(s) ==
  /\ Shown(s) = "confirm"
  /\ page' = [page EXCEPT ![s].recipient = None]
  /\ UNCHANGED <<now, link, paid, previews, req, used>>

\* handleConfirm sends the recipient that is shown; the button is disabled
\* while it is submitting.
Confirm(s) ==
  /\ Shown(s) = "confirm" /\ req[s].at = "idle"
  /\ req' = [req EXCEPT ![s] = [at |-> "resolve", phone |-> page[s].recipient]]
  /\ UNCHANGED <<now, link, paid, page, previews, used>>

-----------------------------------------------------------------------------
(* confirmPayoutLink at the service.                                       *)

Advance(s, at) == req' = [req EXCEPT ![s].at = at]

\* The recipient is resolved again, with a provider call behind the check.
Resolve(s) ==
  /\ req[s].at = "resolve"
  /\ Advance(s, IF Active(LinkOf[s]) THEN "redeem" ELSE "idle")
  /\ UNCHANGED <<now, link, paid, page, previews, used>>

Redeemable_expired(l) == link[l].by = None

\* What the transaction looks at once it holds the row (FOR UPDATE).
Redeemable(l) == link[l].by = None /\ link[l].expiresAt > now

Redeem(s) ==
  LET l == LinkOf[s] IN
  /\ req[s].at = "redeem"
  /\ IF Redeemable(l)
     THEN link' = [link EXCEPT ![l].by = s, ![l].phone = req[s].phone] /\ Advance(s, "pay")
     ELSE UNCHANGED link /\ Advance(s, "idle")
  /\ UNCHANGED <<now, paid, page, previews, used>>

Pay(s) ==
  /\ req[s].at = "pay"
  /\ paid' = [paid EXCEPT ![LinkOf[s]] = [times |-> @.times + 1, phone |-> req[s].phone]]
  /\ Advance(s, "record")
  /\ UNCHANGED <<now, link, page, previews, used>>

\* The link learns its payout; the page goes to the dashboard.
Record(s) ==
  /\ req[s].at = "record"
  /\ link' = [link EXCEPT ![LinkOf[s]].payout = TRUE]
  /\ Advance(s, "idle") /\ page' = [page EXCEPT ![s].view = "left"]
  /\ UNCHANGED <<now, paid, previews, used>>

\* No funds, a failing statement or a crash at any await: the page reports an
\* error and can submit again; a link that was consumed stays consumed.
Fail(s) ==
  /\ req[s].at # "idle" /\ used.failures < MaxFailures
  /\ used' = [used EXCEPT !.failures = @ + 1] /\ Advance(s, "idle")
  /\ UNCHANGED <<now, link, paid, page, previews>>

Tick == /\ now < MaxNow /\ now' = now + 1
        /\ UNCHANGED <<link, paid, page, previews, req, used>>

Next ==
  \/ \E l \in Links : CreateLink(l)
  \/ \E s \in Sessions :
       \/ Load(s) \/ ChangeDetails(s) \/ Confirm(s)
       \/ \E p \in Phones : Preview(s, p) \/ PreviewAnswered(s, p)
       \/ Resolve(s) \/ Redeem(s) \/ Pay(s) \/ Record(s) \/ Fail(s)
  \/ Tick

Spec == Init /\ [][Next]_plvars

-----------------------------------------------------------------------------
(***************************************************************************)
(* "concurrent confirmations can never both win", with any number of tabs, *)
(* retries after errors and crashes: a link is paid at most once.          *)
(***************************************************************************)
PaidOnce == \A l \in Links : paid[l].times <= 1

(***************************************************************************)
(* The row of the link names the recipient that was paid, and the payout   *)
(* it records exists, whatever other confirmations ran.                    *)
(***************************************************************************)
LinkTellsPayout ==
  \A l \in Links : /\ paid[l].times > 0 => paid[l].phone = link[l].phone
                   /\ link[l].payout => paid[l].times > 0

(***************************************************************************)
(* A link is a token that can be used once while it is open: the service   *)
(* with its sessions implements the abstract link.                         *)
(***************************************************************************)
Promise == INSTANCE OneTimeLink WITH
  Users <- Sessions, NoUser <- None,
  user <- [l \in Links |-> link[l].by],
  open <- {l \in Links : link[l].expiresAt > now},
  paid <- [l \in Links |-> paid[l].times]
ImplementsPromise == Promise!Spec

=============================================================================
