--------------------------- MODULE Settlements ---------------------------
(***************************************************************************)
(* The settlement accounts of one customer and the sweep of its COLLECTION *)
(* wallet (src/src/settlements/settlements.service.ts): the nightly cron   *)
(* of every instance, the administrator's "sweep now", and everything that *)
(* runs between their awaits.  The sweep's loop treats accounts one by     *)
(* one and catches the errors of each, so one account is modelled.         *)
(*                                                                         *)
(* A day has two slots: 00:00 to 03:00 of Africa/Dar_es_Salaam, and the    *)
(* rest.  The cron fires at the start of the first.  HostLag is 0 on a     *)
(* host in that zone and 1 on a host in UTC, whose date changes at 03:00.  *)
(***************************************************************************)
EXTENDS Integers, Sequences, FiniteSets, Functions, Fees

CONSTANTS
  Cron,        \* instances that run the cron
  Admins,      \* "sweep now" requests
  Dests,       \* settlement accounts that can be created
  Editors,     \* requests about settlement accounts that run at the same time
  Schedule,    \* the customer's disbursement tiers
  MinPayout, HostLag,
  MaxClock, MaxCredit, MaxChanges, MaxCrashes   \* bounds of the model

VARIABLES
  clock, balance, autoSweep,
  dests,       \* [Dests -> [made, isDefault, isActive]]
  editing,     \* requests: where they are, their account, the rows they clear
  rows,        \* AUTO_SWEEP payouts in order of creation
  pc, seen,    \* sweeps: where they are, what they have read
  fired,       \* the last day an instance's cron fired
  left,        \* what remains of the bounds
  moved,       \* history: credits minus other debits, and what crashes orphaned
  due,         \* history: runs that started on a due, since undisturbed account
  setBy,       \* history: the request that made an account the default
  unset        \* history: whether the default was taken off, or lost with its request

svars == <<clock, balance, autoSweep, dests, editing, rows, pc, seen, fired, left, moved, due,
           setBy, unset>>

Sweeps == Cron \cup Admins
None == "none"
Statuses == {"OPEN", "FAILED", "REVERSED"}   \* what the sweep tells apart

ASSUME SettlementsAssumption ==
  /\ IsFiniteSet(Sweeps) /\ Cron \cap Admins = {} /\ None \notin Dests
  /\ IsFiniteSet(Dests) /\ IsFiniteSet(Editors) /\ Editors # {} /\ None \notin Editors
  /\ Schedule \in Tiers /\ MinPayout \in Nat /\ HostLag \in {0, 1}
  /\ {MaxClock, MaxCredit, MaxChanges, MaxCrashes} \subseteq Nat

ZoneDay(t) == t \div 2
HostDay(t) == (t + HostLag) \div 2

Net(amount) == amount - ComputeFee(Schedule, amount)

\* The rows getDefaultSettlementAccount chooses its oldest one from.
DefaultDests == {d \in Dests : dests[d].made /\ dests[d].isActive /\ dests[d].isDefault}

SweptSince_failed(day) == \E i \in DOMAIN rows : HostDay(rows[i].at) >= day

SweptSince_never(day) == FALSE

\* A payout that was reversed counts, although it was refunded.
SweptSince(day) == \E i \in DOMAIN rows : rows[i].status # "FAILED" /\ HostDay(rows[i].at) >= day

Due == /\ autoSweep /\ DefaultDests # {} /\ balance > 0 /\ Net(balance) >= MinPayout
       /\ \A i \in DOMAIN rows : rows[i].status = "FAILED" \/ ZoneDay(rows[i].at) < ZoneDay(clock)

Idle == [at |-> "idle", dest |-> None, sees |-> {}]

\* The customer is created with a settlement account, or without.
Init ==
  /\ clock = 0 /\ balance = 0 /\ autoSweep = TRUE
  /\ \E first \in {CHOOSE d \in Dests : TRUE, None} :
       /\ dests = [d \in Dests |-> [made |-> d = first, isDefault |-> d = first,
                                   isActive |-> d = first]]
       /\ setBy = [d \in Dests |-> IF d = first THEN CHOOSE e \in Editors : TRUE ELSE None]
       /\ unset = (first \notin Dests)
  /\ editing = [e \in Editors |-> Idle]
  /\ rows = <<>>
  /\ pc = [s \in Sweeps |-> "idle"]
  /\ seen = [s \in Sweeps |-> [day |-> 0, dest |-> None, amount |-> 0]]
  /\ fired = [c \in Cron |-> -1]
  /\ left = [credit |-> MaxCredit, changes |-> MaxChanges, crashes |-> MaxCrashes]
  /\ moved = [in |-> 0, orphaned |-> 0]
  /\ due = {}

-----------------------------------------------------------------------------
(* Settlement accounts.                                                    *)

Change == left.changes > 0 /\ left' = [left EXCEPT !.changes = @ - 1] /\ due' = {}

Made == {d \in Dests : dests[d].made}
Fresh(isDefault) == [made |-> TRUE, isDefault |-> isDefault, isActive |-> TRUE]

Cleared(ds) == [d \in Dests |-> IF d \in ds THEN [dests[d] EXCEPT !.isDefault = FALSE] ELSE dests[d]]
Disowned(ds) == [d \in Dests |-> IF d \in ds THEN None ELSE setBy[d]]

\* A request makes an account the default, one that exists (updateSettlementAccount)
\* or a new one (upsertSettlementAccount).  It starts the statement that clears
\* the others: rows that are committed later are not among them.
BeginDefault(e, dest) ==
  /\ editing[e].at = "idle" /\ Change
  /\ dest \in Made \cup {None}
  /\ editing' = [editing EXCEPT ![e] = [at |-> "clear", dest |-> dest, sees |-> Made]]
  /\ UNCHANGED <<clock, balance, autoSweep, dests, rows, pc, seen, fired, moved, setBy, unset>>

CreateDest_last(e, d) ==
  /\ editing[e].at = "clear" /\ editing[e].dest = None /\ ~dests[d].made
  /\ dests' = [Cleared(editing[e].sees) EXCEPT ![d] = Fresh(FALSE)]
  /\ setBy' = Disowned(editing[e].sees) /\ unset' = FALSE
  /\ editing' = [editing EXCEPT ![e] = Idle] /\ due' = {}
  /\ UNCHANGED <<clock, balance, autoSweep, rows, pc, seen, fired, left, moved>>

\* A creation is one transaction: what it cleared and inserted becomes visible
\* with the commit.
CreateDest(e, d) ==
  /\ editing[e].at = "clear" /\ editing[e].dest = None /\ ~dests[d].made
  /\ dests' = [Cleared(editing[e].sees) EXCEPT ![d] = Fresh(TRUE)]
  /\ setBy' = [Disowned(editing[e].sees) EXCEPT ![d] = e] /\ unset' = FALSE
  /\ editing' = [editing EXCEPT ![e] = Idle] /\ due' = {}
  /\ UNCHANGED <<clock, balance, autoSweep, rows, pc, seen, fired, left, moved>>

\* An update is two statements without a transaction: it clears the others ...
ClearDefaults(e) ==
  /\ editing[e].at = "clear" /\ editing[e].dest # None
  /\ dests' = Cleared(editing[e].sees) /\ setBy' = Disowned(editing[e].sees)
  /\ editing' = [editing EXCEPT ![e] = [at |-> "set", dest |-> @.dest, sees |-> {}]] /\ due' = {}
  /\ UNCHANGED <<clock, balance, autoSweep, rows, pc, seen, fired, left, moved, unset>>

\* ... and sets its own flag, and isActive if it is asked to.
SetDefault(e, isActive) ==
  /\ editing[e].at = "set"
  /\ LET d == editing[e].dest IN
       /\ dests' = [dests EXCEPT ![d].isDefault = TRUE, ![d].isActive = isActive]
       /\ setBy' = [setBy EXCEPT ![d] = e]
  /\ unset' = FALSE /\ editing' = [editing EXCEPT ![e] = Idle] /\ due' = {}
  /\ UNCHANGED <<clock, balance, autoSweep, rows, pc, seen, fired, left, moved>>

\* A statement fails, the input is refused after the others were cleared, or
\* the instance dies.
GiveUp(e) ==
  /\ editing[e].at # "idle"
  /\ unset' = (unset \/ editing[e].at = "set") /\ editing' = [editing EXCEPT ![e] = Idle]
  /\ UNCHANGED <<clock, balance, autoSweep, dests, rows, pc, seen, fired, left, moved, due, setBy>>

\* A settlement account that is not to be the default is one insert ...
InsertDest(d) ==
  /\ ~dests[d].made /\ Change
  /\ dests' = [dests EXCEPT ![d] = Fresh(FALSE)]
  /\ UNCHANGED <<clock, balance, autoSweep, editing, rows, pc, seen, fired, moved, setBy, unset>>

\* ... and the other patches are one update.
PatchDest(d, isDefault, isActive) ==
  /\ dests[d].made /\ Change
  /\ isDefault => dests[d].isDefault
  /\ dests' = [dests EXCEPT ![d].isDefault = isDefault, ![d].isActive = isActive]
  /\ IF isDefault THEN UNCHANGED <<setBy, unset>>
     ELSE /\ setBy' = [setBy EXCEPT ![d] = None]
          /\ unset' = (unset \/ dests[d].isDefault)
  /\ UNCHANGED <<clock, balance, autoSweep, editing, rows, pc, seen, fired, moved>>

SetAutoSweep(enabled) ==
  /\ Change /\ autoSweep' = enabled
  /\ UNCHANGED <<clock, balance, dests, editing, rows, pc, seen, fired, moved, setBy, unset>>

-----------------------------------------------------------------------------
(* A sweep.                                                                *)

Goto(s, at) == pc' = [pc EXCEPT ![s] = at]

\* The cron fires; a run that is still going on swallows the tick.
Fire(c) ==
  /\ clock % 2 = 0 /\ fired[c] < ZoneDay(clock)
  /\ fired' = [fired EXCEPT ![c] = ZoneDay(clock)]
  /\ IF pc[c] = "idle" /\ autoSweep
     THEN /\ Goto(c, "find") /\ due' = IF Due THEN due \cup {c} ELSE due \ {c}
          /\ seen' = [seen EXCEPT ![c].day = HostDay(clock)]
     ELSE UNCHANGED <<pc, seen, due>>
  /\ UNCHANGED <<clock, balance, autoSweep, dests, editing, rows, left, moved, setBy, unset>>

\* sweepNow asks neither for autoSweep nor whether today was swept.
SweepNow(a) ==
  /\ pc[a] = "idle" /\ left.changes > 0 /\ left' = [left EXCEPT !.changes = @ - 1]
  /\ Goto(a, "find")
  /\ UNCHANGED <<clock, balance, autoSweep, dests, editing, rows, seen, fired, moved, due, setBy, unset>>

FindDest(s) ==
  /\ pc[s] = "find"
  /\ IF DefaultDests = {} THEN Goto(s, "idle") /\ UNCHANGED seen
     ELSE \E d \in DefaultDests : seen' = [seen EXCEPT ![s].dest = d] /\ Goto(s, "balance")
  /\ UNCHANGED <<clock, balance, autoSweep, dests, editing, rows, fired, left, moved, due, setBy, unset>>

ReadBalance(s) ==
  /\ pc[s] = "balance"
  /\ IF balance <= 0 THEN Goto(s, "idle") ELSE Goto(s, IF s \in Cron THEN "swept" ELSE "debit")
  /\ seen' = [seen EXCEPT ![s].amount = balance]
  /\ UNCHANGED <<clock, balance, autoSweep, dests, editing, rows, fired, left, moved, due, setBy, unset>>

CheckSwept(c) ==
  /\ pc[c] = "swept"
  /\ Goto(c, IF SweptSince(seen[c].day) THEN "idle" ELSE "debit")
  /\ UNCHANGED <<clock, balance, autoSweep, dests, editing, rows, seen, fired, left, moved, due, setBy, unset>>

Debit_present(s) ==
  /\ pc[s] = "debit"
  /\ IF Net(seen[s].amount) < MinPayout \/ balance < seen[s].amount
     THEN Goto(s, "idle") /\ UNCHANGED <<balance, due>>
     ELSE /\ balance' = 0 /\ Goto(s, "create") /\ due' = due \cap {s}
  /\ UNCHANGED <<clock, autoSweep, dests, editing, rows, seen, fired, left, moved, setBy, unset>>

\* The balance that was read is debited, if it is still there.
Debit(s) ==
  /\ pc[s] = "debit"
  /\ IF Net(seen[s].amount) < MinPayout \/ balance < seen[s].amount
     THEN Goto(s, "idle") /\ UNCHANGED <<balance, due>>
     ELSE /\ balance' = balance - seen[s].amount /\ Goto(s, "create")
          /\ due' = due \cap {s}
  /\ UNCHANGED <<clock, autoSweep, dests, editing, rows, seen, fired, left, moved, setBy, unset>>

CreateRow(s) ==
  /\ pc[s] = "create"
  /\ rows' = Append(rows, [by |-> s, at |-> clock, amount |-> Net(seen[s].amount),
                           fee |-> ComputeFee(Schedule, seen[s].amount),
                           dest |-> seen[s].dest, status |-> "OPEN", refunded |-> FALSE])
  /\ due' = {} /\ Goto(s, "idle")
  /\ UNCHANGED <<clock, balance, autoSweep, dests, editing, seen, fired, left, moved, setBy, unset>>

-----------------------------------------------------------------------------
(* Everything else.                                                        *)

Tick ==
  /\ clock < MaxClock /\ clock' = clock + 1
  /\ clock % 2 = 0 => \A c \in Cron : fired[c] = ZoneDay(clock)
  /\ UNCHANGED <<balance, autoSweep, dests, editing, rows, pc, seen, fired, left, moved, due, setBy, unset>>

\* Collections credit the wallet, withdrawals and transfers debit it.
Credit ==
  /\ left.credit > 0 /\ left' = [left EXCEPT !.credit = @ - 1]
  /\ \E n \in 1..2 : balance' = balance + n /\ moved' = [moved EXCEPT !.in = @ + n]
  /\ UNCHANGED <<clock, autoSweep, dests, editing, rows, pc, seen, fired, due, setBy, unset>>

Spend ==
  /\ balance > 0 /\ Change
  /\ balance' = balance - 1 /\ moved' = [moved EXCEPT !.in = @ - 1]
  /\ UNCHANGED <<clock, autoSweep, dests, editing, rows, pc, seen, fired, setBy, unset>>

\* The status engine refunds a payout that fails or is reversed (Payouts), once.
Refund(i, status) ==
  /\ status \in {"FAILED", "REVERSED"} /\ ~rows[i].refunded
  /\ rows' = [rows EXCEPT ![i].status = status, ![i].refunded = TRUE]
  /\ balance' = balance + rows[i].amount + rows[i].fee
  /\ UNCHANGED <<clock, autoSweep, dests, editing, pc, seen, fired, left, moved, due, setBy, unset>>

\* A later report of a refunded payout changes its status, and nothing else.
Restate(i, status) ==
  /\ rows[i].refunded /\ rows[i].status # status /\ Change
  /\ rows' = [rows EXCEPT ![i].status = status]
  /\ UNCHANGED <<clock, balance, autoSweep, dests, editing, pc, seen, fired, moved, setBy, unset>>

\* The instance dies or a statement fails in the middle of a sweep.
Crash(s) ==
  /\ left.crashes > 0 /\ left' = [left EXCEPT !.crashes = @ - 1]
  /\ pc[s] # "idle" /\ Goto(s, "idle") /\ due' = due \ {s}
  /\ moved' = IF pc[s] = "create" THEN [moved EXCEPT !.orphaned = @ + seen[s].amount] ELSE moved
  /\ UNCHANGED <<clock, balance, autoSweep, dests, editing, rows, seen, fired, setBy, unset>>

Next ==
  \/ \E e \in Editors, d \in Dests \cup {None} : BeginDefault(e, d)
  \/ \E e \in Editors, d \in Dests : CreateDest(e, d)
  \/ \E e \in Editors : ClearDefaults(e) \/ GiveUp(e)
  \/ \E e \in Editors, a \in BOOLEAN : SetDefault(e, a)
  \/ \E d \in Dests : InsertDest(d)
  \/ \E d \in Dests, b, a \in BOOLEAN : PatchDest(d, b, a)
  \/ \E b \in BOOLEAN : SetAutoSweep(b)
  \/ \E c \in Cron : Fire(c) \/ CheckSwept(c)
  \/ \E a \in Admins : SweepNow(a)
  \/ \E s \in Sweeps : FindDest(s) \/ ReadBalance(s) \/ Debit(s) \/ CreateRow(s) \/ Crash(s)
  \/ \E i \in DOMAIN rows, status \in Statuses : Refund(i, status) \/ Restate(i, status)
  \/ Tick \/ Credit \/ Spend

Spec == Init /\ [][Next]_svars

-----------------------------------------------------------------------------
\* What the sweeps debited without a row yet, and what the rows stand for.
HeldBy == [s \in Sweeps |-> IF pc[s] = "create" THEN seen[s].amount ELSE 0]
SettledBy == [i \in DOMAIN rows |-> IF rows[i].refunded THEN 0 ELSE rows[i].amount + rows[i].fee]

Held == FoldFunctionOnSet(+, 0, HeldBy, Sweeps)
Settled == FoldFunctionOnSet(+, 0, SettledBy, DOMAIN rows)

(***************************************************************************)
(* No sweep makes or loses money, whatever runs between its read of the    *)
(* balance and its debit: the wallet, the payouts with their fees, what a  *)
(* sweep holds and what a crash orphaned add up to what came in.           *)
(***************************************************************************)
MoneyAccounted == balance + Settled + Held + moved.orphaned = moved.in

(***************************************************************************)
(* The cron settles an account once a day ("Skips accounts already swept   *)
(* today"): two of its payouts of one day never both keep their money,     *)
(* also when a run crosses midnight.  Needs a single instance.             *)
(***************************************************************************)
SweptOncePerDay ==
  \A i, j \in DOMAIN rows :
    /\ i # j /\ {rows[i].by, rows[j].by} \subseteq Cron
    /\ ZoneDay(rows[i].at) = ZoneDay(rows[j].at)
    => rows[i].refunded \/ rows[j].refunded

(***************************************************************************)
(* "every day at 00:00 Africa/Dar_es_Salaam the COLLECTION wallet balance  *)
(* is swept": a run does not end without a payout for an account that was  *)
(* due when it started and that nobody touched in between.                 *)
(***************************************************************************)
DueIsSwept == \A c \in due : pc[c] # "idle"

Defaults == {d \in Dests : dests[d].isDefault}

(***************************************************************************)
(* "the account's default settlement account" (createWithdrawal): refuted, *)
(* two requests that overlap both leave theirs.                            *)
(***************************************************************************)
OneDefault == \A d, e \in Dests : dests[d].isDefault /\ dests[e].isDefault => d = e

(***************************************************************************)
(* What upsertSettlementAccount and updateSettlementAccount do guarantee:  *)
(* a customer has no more defaults than requests about them overlap, so    *)
(* one if administrators act in turn; and has none only after the default  *)
(* was taken off, or while or because an update is between its statements. *)
(***************************************************************************)
DefaultsFollowRequests ==
  /\ Cardinality(Defaults) <= Cardinality(Editors)
  /\ Defaults = {} => unset \/ \E e \in Editors : editing[e].at = "set"

TypeOK ==
  /\ clock \in 0..MaxClock /\ balance \in Nat /\ autoSweep \in BOOLEAN
  /\ dests \in [Dests -> [made: BOOLEAN, isDefault: BOOLEAN, isActive: BOOLEAN]]
  /\ editing \in [Editors -> [at: {"idle", "clear", "set"}, dest: Dests \cup {None},
                              sees: SUBSET Dests]]
  /\ setBy \in [Dests -> Editors \cup {None}] /\ unset \in BOOLEAN
  /\ pc \in [Sweeps -> {"idle", "find", "balance", "swept", "debit", "create"}]
  /\ \A i \in DOMAIN rows : rows[i].amount >= MinPayout /\ rows[i].fee >= 0 /\ rows[i].dest \in Dests
  /\ due \subseteq Cron

=============================================================================
