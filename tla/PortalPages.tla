--------------------------- MODULE PortalPages ---------------------------
(***************************************************************************)
(* What the lists and the forms of the two portals do that matters to      *)
(* modules PortalLists and PortalForms (src/frontend/*/src/pages).         *)
(*                                                                         *)
(* A list: "alive" drops answers to earlier controls, "pager" and "filter" *)
(* are the controls it has (a pager is disabled while the list loads, a    *)
(* filter never is), "typed" delays the request until the user pauses,     *)
(* "reload" is what a write of the page does when it completes, "refresh"  *)
(* the ledger's refresh button.                                            *)
(***************************************************************************)

\* The user portal.
Ledger      == [alive |-> TRUE,  pager |-> FALSE, filter |-> TRUE,  typed |-> FALSE, reload |-> "none",  refresh |-> TRUE]
Payouts     == [alive |-> FALSE, pager |-> TRUE,  filter |-> FALSE, typed |-> FALSE, reload |-> "none",  refresh |-> FALSE]
Batches     == [alive |-> TRUE,  pager |-> FALSE, filter |-> FALSE, typed |-> FALSE, reload |-> "none",  refresh |-> FALSE]
Collections == [alive |-> FALSE, pager |-> TRUE,  filter |-> FALSE, typed |-> FALSE, reload |-> "first", refresh |-> FALSE]
SmsHistory  == [alive |-> FALSE, pager |-> TRUE,  filter |-> TRUE,  typed |-> FALSE, reload |-> "first", refresh |-> FALSE]
\* The admin portal.
Audits      == [alive |-> FALSE, pager |-> TRUE,  filter |-> TRUE,  typed |-> TRUE,  reload |-> "none",  refresh |-> FALSE]
Traces      == [alive |-> FALSE, pager |-> TRUE,  filter |-> TRUE,  typed |-> TRUE,  reload |-> "none",  refresh |-> FALSE]
AccountList == [alive |-> FALSE, pager |-> TRUE,  filter |-> TRUE,  typed |-> TRUE,  reload |-> "first", refresh |-> FALSE]
Staff       == [alive |-> FALSE, pager |-> FALSE, filter |-> FALSE, typed |-> FALSE, reload |-> "same",  refresh |-> FALSE]

AllLists == {Ledger, Payouts, Batches, Collections, SmsHistory, Audits, Traces, AccountList, Staff}

(***************************************************************************)
(* A form: the identifier it sends ("checked": the service looks for it    *)
(* before it creates, "unique": the table refuses a second one, "stored":  *)
(* nobody looks) and what closing it while it is busy does.                *)
(***************************************************************************)

\* The user portal.
DepositForm  == [id |-> "checked", closing |-> "clears"]
TransferForm == [id |-> "checked", closing |-> "keeps"]
WithdrawForm == [id |-> "stored",  closing |-> "keeps"]
PushForm     == [id |-> "checked", closing |-> "unmounts"]
PayoutForm   == [id |-> "checked", closing |-> "unmounts"]
LinkForm     == [id |-> "none",    closing |-> "unmounts"]
SmsForm      == [id |-> "none",    closing |-> "unmounts"]
\* The admin portal.
AccountForm  == [id |-> "none",    closing |-> "keeps"]
StaffForm    == [id |-> "unique",  closing |-> "keeps"]
MoveForm     == [id |-> "none",    closing |-> "unmounts"]

AllForms == {DepositForm, TransferForm, WithdrawForm, PushForm, PayoutForm, LinkForm, SmsForm,
             AccountForm, StaffForm, MoveForm}

=============================================================================
