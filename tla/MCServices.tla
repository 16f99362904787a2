---------------------------- MODULE MCServices ----------------------------
(***************************************************************************)
(* Settlements, payout links, accounts and the portals, which share no     *)
(* variables, in one run as a sum: a behaviour picks a part and is a       *)
(* behaviour of that part, with the others at rest.  Settlements is        *)
(* extended; the other parts are instances.                                *)
(***************************************************************************)
EXTENDS Settlements, PortalPages

CONSTANTS
  (* Settlements *) SweptDests, SweepChanges,
  (* PayoutLinks *) Links, Sessions, Phones, LinkOf, Lifetime, MaxNow, MaxPreviews,
  (* Accounts    *) Accounts, Codes, Keys, Managers, Requests, AccountChanges,
  (* PortalLists *) LastPage, Filters, MaxAsked, MaxClicks,
  (* PortalForms *) LoseEarly, MaxIntents, MaxAttempts,
  (* AccountPage *) MaxCalls, MaxLoads, MaxEdits,
  (* several     *) Services, MaxFailures

VARIABLES
  part,
  (* PayoutLinks *) now, link, paid, page, previews, req, usedL,
  (* Accounts    *) account, key, op, request, doomed, stirred, usedA,
  (* PortalLists *) list, query, shownRows, failed, loading, timer, asked, writing, clicks,
  (* PortalForms *) form, fields, busy, calls, effects, lost, count,
  (* AccountPage *) server, shown, reloading, loads, tab, draft, actions, missed, keys, usedP

linkVars       == <<now, link, paid, page, previews, req, usedL>>
accountVars    == <<account, key, op, request, doomed, stirred, usedA>>
listVars       == <<list, query, shownRows, failed, loading, timer, asked, writing, clicks>>
formVars       == <<form, fields, busy, calls, effects, lost, count>>
pageVars       == <<server, shown, reloading, loads, tab, draft, actions, missed, keys, usedP>>

vars == <<part, svars, linkVars, accountVars, listVars, formVars, pageVars>>

-----------------------------------------------------------------------------
(* The parts.  services.cfg bounds them.                                   *)

\* The customer's tiers, for Settlements.
TwoTiers == [threshold |-> 3, belowBps |-> 5000, aboveBps |-> 2000]

\* The sweeps with some of the accounts and changes, the requests about accounts
\* with all of them and an empty wallet.
FewChanges == Made' \subseteq SweptDests /\ MaxChanges - left'.changes <= SweepChanges
NoMoney == balance' = 0 /\ clock' = 0

\* Two tabs on one link.
OneLink == [s \in Sessions |-> CHOOSE l \in Links : TRUE]

L == INSTANCE PayoutLinks WITH used <- usedL, None <- "none"

A == INSTANCE Accounts WITH used <- usedA, Admins <- Managers, MaxChanges <- AccountChanges

\* Every list of the portals; the audit list and the traces, whose filters are
\* typed, hear the answers in the order of the requests.
P == INSTANCE PortalLists WITH rows <- shownRows, Lists <- AllLists, InOrder <- {Audits, Traces}

\* Every form of the portals.
F == INSTANCE PortalForms WITH Forms <- AllForms

\* The account page, with loads that are answered in order.
G == INSTANCE AccountPage WITH loading <- reloading, calls <- actions, used <- usedP, InOrder <- TRUE

-----------------------------------------------------------------------------
(* The sum.                                                                *)

SumInit ==
  /\ part \in {"sweeps", "defaults", "links", "accounts", "lists", "forms", "page"}
  /\ Init /\ L!Init /\ A!Init /\ P!Init /\ F!Init /\ G!Init
  \* What rests has one initial state.
  /\ part \notin {"sweeps", "defaults"} => unset
  /\ part # "lists" => list = Staff /\ query.filter = (CHOOSE f \in Filters : TRUE)
  /\ part # "forms" => form = SmsForm
  /\ part # "page"  => server.granted = {}

SumNext ==
  \/ /\ part = "sweeps" /\ Next /\ FewChanges
     /\ UNCHANGED <<part, linkVars, accountVars, listVars, formVars, pageVars>>
  \/ /\ part = "defaults" /\ Next /\ NoMoney
     /\ UNCHANGED <<part, linkVars, accountVars, listVars, formVars, pageVars>>
  \/ /\ part = "links" /\ L!Next
     /\ UNCHANGED <<part, svars, accountVars, listVars, formVars, pageVars>>
  \/ /\ part = "accounts" /\ A!Next
     /\ UNCHANGED <<part, svars, linkVars, listVars, formVars, pageVars>>
  \/ /\ part = "lists" /\ P!Next
     /\ UNCHANGED <<part, svars, linkVars, accountVars, formVars, pageVars>>
  \/ /\ part = "forms" /\ F!Next
     /\ UNCHANGED <<part, svars, linkVars, accountVars, listVars, pageVars>>
  \/ /\ part = "page" /\ G!Next
     /\ UNCHANGED <<part, svars, linkVars, accountVars, listVars, formVars>>

SumSpec == SumInit /\ [][SumNext]_vars

-----------------------------------------------------------------------------
(* The properties of the instances; their modules say what they are about. *)

\* confirmPayoutLink implements the abstract one-time link.
ImplementsOneTimeLink == L!ImplementsPromise

\* api-key.guard, service-permission.guard: what must be refused is.
RefusalHolds == A!RefusalHolds

\* The portals' lists: the rows are those the controls show.
RowsMatch == P!RowsMatch
\* The portals' forms: what the user wants once happens once.
OncePerIntent == F!OncePerIntent
\* The account page: it settles on the account as it is.
PageSettles == G!PageSettles
\* The account page: a new key is shown (it is not).
IssuedKeyShown == G!IssuedKeyShown
=============================================================================
