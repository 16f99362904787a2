--------------------------- MODULE AccountPage ---------------------------
(***************************************************************************)
(* The account page of the admin portal (pages/account-detail.tsx): one    *)
(* overview, loaded when the page opens and after every successful action  *)
(* of its tabs and its header.  While it loads a skeleton replaces the     *)
(* tabs, so that their state is gone.  What the account is at the service  *)
(* is a set of granted services, the number of keys, and a count of its    *)
(* other changes.                                                          *)
(***************************************************************************)
EXTENDS Naturals, Sequences, SequencesExt, FiniteSets

CONSTANTS
  Services,
  InOrder,          \* answers to loads come in the order of the loads
  MaxCalls, MaxLoads, MaxEdits, MaxFailures     \* bounds of the model

VARIABLES
  server,     \* the account at the service
  shown,      \* the overview on the page
  loading,
  loads,      \* loads under way: what the service read for them
  tab,        \* the tab on screen; "skeleton" when there is none
  draft,      \* the permission tab's rows, and the overview they started from
  calls,      \* actions under way: what, with which value, how far
  missed,     \* a change the page was not told of
  keys,       \* history: keys answered to the page, keys that were on screen
  used

pvars == <<server, shown, loading, loads, tab, draft, calls, missed, keys, used>>

Account == [granted: SUBSET Services, keys: Nat, changes: Nat]
Unread == [granted |-> {}, keys |-> 0, changes |-> 1000]
NoDraft == [rows |-> {}, from |-> {}]

Init ==
  /\ server \in [granted: SUBSET Services, keys: {1}, changes: {0}]
  /\ shown = Unread /\ loading = TRUE /\ loads = <<Unread>>
  /\ tab = "skeleton" /\ draft = NoDraft
  /\ calls = {} /\ missed = FALSE
  /\ keys = [answered |-> {}, seen |-> {}]
  /\ used = [calls |-> 0, edits |-> 0, failures |-> 0]

Loaded == shown # Unread

\* What stays of the tabs' state when the skeleton replaces them.
Unmounted == tab' = "skeleton" /\ draft' = NoDraft

-----------------------------------------------------------------------------
(* load.                                                                   *)

ServeLoad(i) ==
  /\ loads[i] = Unread /\ (InOrder => \A j \in 1..(i - 1) : loads[j] # Unread)
  /\ loads' = [loads EXCEPT ![i] = server]
  /\ missed' = FALSE
  /\ UNCHANGED <<server, shown, loading, tab, draft, calls, keys, used>>

\* The permission tab starts over when the overview it gets is another one.
Rows(overview) == IF tab = "permissions" THEN [rows |-> overview.granted, from |-> overview.granted]
                  ELSE draft

LoadAnswered(i) ==
  /\ loads[i] # Unread /\ (InOrder => i = 1)
  /\ shown' = loads[i] /\ loads' = RemoveAt(loads, i) /\ loading' = FALSE
  /\ tab' = IF tab = "skeleton" THEN "overview" ELSE tab
  /\ draft' = Rows(loads[i])
  /\ UNCHANGED <<server, calls, missed, keys, used>>

\* An error leaves the overview as it was.
LoadFailed(i) ==
  /\ used.failures < MaxFailures /\ used' = [used EXCEPT !.failures = @ + 1]
  /\ loads' = RemoveAt(loads, i) /\ loading' = FALSE /\ missed' = TRUE
  /\ tab' = IF tab = "skeleton" /\ Loaded THEN "overview" ELSE tab
  /\ UNCHANGED <<server, shown, draft, calls, keys>>

Reload == loads' = Append(loads, Unread) /\ loading' = TRUE /\ Unmounted

-----------------------------------------------------------------------------
(* The tabs.                                                               *)

\* Another tab unmounts the one before.
SelectTab(t) ==
  /\ tab \notin {"skeleton", t} /\ tab' = t
  /\ draft' = IF t = "permissions" THEN [rows |-> shown.granted, from |-> shown.granted] ELSE NoDraft
  /\ UNCHANGED <<server, shown, loading, loads, calls, missed, keys, used>>

TogglePermission(s) ==
  /\ tab = "permissions" /\ used.edits < MaxEdits /\ used' = [used EXCEPT !.edits = @ + 1]
  /\ draft' = [draft EXCEPT !.rows = IF s \in @ THEN @ \ {s} ELSE @ \cup {s}]
  /\ UNCHANGED <<server, shown, loading, loads, tab, calls, missed, keys>>

Call(what, value) ==
  /\ used.calls < MaxCalls /\ used' = [used EXCEPT !.calls = @ + 1]
  /\ calls' = calls \cup {[nr |-> used'.calls, what |-> what, value |-> value, done |-> FALSE]}
  /\ UNCHANGED <<server, shown, loading, loads, tab, draft, missed, keys>>

SavePermissions == tab = "permissions" /\ Call("save", draft.rows)
IssueKey == tab = "keys" /\ Call("issue", {})
RevokeKey == tab = "keys" /\ Call("other", {})
\* Freezes, movements, the settlement account, the sweep and its switch.
MoveWallet == tab = "wallets" /\ Call("other", {})
ChangeSettlement == tab = "settlement" /\ Call("other", {})
SaveFees == tab = "settlement" /\ Call("fees", {})
\* The header is there as soon as the first overview is, also while it loads.
SuspendOrActivate == Loaded /\ Call("other", {})

ServeCall(c) ==
  /\ ~c.done /\ calls' = (calls \ {c}) \cup {[c EXCEPT !.done = TRUE]}
  /\ server' = CASE c.what = "save" -> [server EXCEPT !.granted = c.value]
                 [] c.what = "issue" -> [server EXCEPT !.keys = @ + 1]
                 [] c.what = "other" -> [server EXCEPT !.changes = @ + 1]
                 [] c.what = "fees" -> server
  /\ UNCHANGED <<shown, loading, loads, tab, draft, missed, keys, used>>

Reloads_saved(c) == c.what = "save"

\* The handlers that call onChanged; the fee schedule is no part of the overview.
Reloads(c) == c.what # "fees"

\* Success: the handler sets its tab's state and calls onChanged in one go, so
\* the page renders once, and a new key is on screen if its tab still is.
CallAnswered(c) ==
  /\ c.done /\ calls' = calls \ {c} /\ Len(loads) < MaxLoads
  /\ IF Reloads(c) THEN Reload ELSE UNCHANGED <<loads, loading, tab, draft>>
  /\ keys' = IF c.what = "issue"
             THEN [answered |-> keys.answered \cup {c.nr},
                   seen |-> IF tab' = "keys" THEN keys.seen \cup {c.nr} ELSE keys.seen]
             ELSE keys
  /\ UNCHANGED <<server, shown, missed, used>>

\* An error, or an answer that is lost: a toast.
CallFailed(c) ==
  /\ used.failures < MaxFailures /\ used' = [used EXCEPT !.failures = @ + 1]
  /\ calls' = calls \ {c} /\ missed' = (missed \/ c.done)
  /\ UNCHANGED <<server, shown, loading, loads, tab, draft, keys>>

Tabs == {"overview", "wallets", "computations", "keys", "permissions", "settlement"}

Next ==
  \/ \E i \in DOMAIN loads : ServeLoad(i) \/ LoadAnswered(i) \/ LoadFailed(i)
  \/ \E t \in Tabs : SelectTab(t)
  \/ \E s \in Services : TogglePermission(s)
  \/ SavePermissions \/ IssueKey \/ RevokeKey \/ MoveWallet \/ ChangeSettlement \/ SaveFees \/ SuspendOrActivate
  \/ \E c \in calls : ServeCall(c) \/ CallAnswered(c) \/ CallFailed(c)

Spec == Init /\ [][Next]_pvars

-----------------------------------------------------------------------------
(***************************************************************************)
(* When nothing is under way the page shows the account as it is, however  *)
(* its actions and loads overlapped: unless an answer was lost, every      *)
(* change is followed by a load that saw it.  Needs loads that are         *)
(* answered in order.                                                      *)
(***************************************************************************)
PageSettles == (loads = <<>> /\ calls = {} /\ ~missed /\ Loaded) => shown = server

(***************************************************************************)
(* "Keys are shown once at issue time", "Copy this key now - it will not   *)
(* be shown again": a key that was answered to the page was on screen.     *)
(***************************************************************************)
IssuedKeyShown == keys.answered \subseteq keys.seen

\* Rows the administrator has changed stay until they are saved or left.
EditsSurvive ==
  [][(tab = "permissions" /\ tab' # "permissions" /\ draft.rows # draft.from) => loads' = loads]_pvars

=============================================================================
