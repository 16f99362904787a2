----------------------------- MODULE Billing -----------------------------
(***************************************************************************)
(* Subscriptions (src/src/billing/billing.service.ts): plans, assigning    *)
(* one to an account, and the nightly job that bills the accounts whose    *)
(* next billing date has come.  Dates are days.  The job reads the due     *)
(* plans once and then writes a bill and the next date per account, in two *)
(* statements, while administrators assign other plans.                    *)
(***************************************************************************)
EXTENDS Integers, FiniteSets

CONSTANTS
  Cron, Admins, Accounts, Plans,
  Period,       \* [Plans -> days], positive
  Batch,        \* plans one run takes on, 200 in the code
  MaxDay, MaxAssigns, MaxErrors, MaxCrashes     \* bounds of the model

VARIABLES
  day,
  plans,        \* plans that exist
  plan,         \* account_plans: the plan, and the next billing date (0: none)
  bills,        \* subscription bills: [account, due, by, nr]
  run,          \* the job of each instance: whether it runs, accounts left with
                \* the rows it read, the account whose bill is written
  ran,          \* the last day the job of an instance was due
  admin,        \* assignments: where they are, for whom, with which date
  used

bvars == <<day, plans, plan, bills, run, ran, admin, used>>

Nobody == "nobody"
NoRow == [account |-> Nobody, plan |-> Nobody, next |-> 0]
Resting == [at |-> "idle", rows |-> {}, row |-> NoRow]
Row(a) == [account |-> a, plan |-> plan[a].plan, next |-> plan[a].next]

Init ==
  /\ day = 0 /\ plans = {} /\ bills = {}
  /\ plan = [a \in Accounts |-> [plan |-> Nobody, next |-> 0]]
  /\ run = [c \in Cron |-> Resting] /\ ran = [c \in Cron |-> 0]
  /\ admin = [m \in Admins |-> [at |-> "idle", account |-> Nobody, due |-> 0]]
  /\ used = [assigns |-> 0, errors |-> 0, crashes |-> 0]

Issue(a, due, by) == bills' = bills \cup {[account |-> a, due |-> due, by |-> by, nr |-> Cardinality(bills)]}

\* Names are unique, by the check before and by the index behind it.
CreatePlan(p) == /\ p \notin plans /\ plans' = plans \cup {p}
                 /\ UNCHANGED <<day, plan, bills, run, ran, admin, used>>

-----------------------------------------------------------------------------
(* assignPlan.                                                             *)

\* The upsert; an account that has a plan gets the new one, and a new date.
AssignPlan(m, a, p) ==
  /\ admin[m].at = "idle" /\ p \in plans /\ used.assigns < MaxAssigns
  /\ used' = [used EXCEPT !.assigns = @ + 1]
  /\ plan' = [plan EXCEPT ![a] = [plan |-> p, next |-> day + Period[p]]]
  /\ admin' = [admin EXCEPT ![m] = [at |-> "bill", account |-> a, due |-> day + Period[p]]]
  /\ UNCHANGED <<day, plans, bills, run, ran>>

\* The billing mode of the account, then its first bill.
FirstBill(m) ==
  /\ admin[m].at = "bill" /\ admin' = [admin EXCEPT ![m].at = "idle"]
  /\ Issue(admin[m].account, admin[m].due, m)
  /\ UNCHANGED <<day, plans, plan, run, ran, used>>

-----------------------------------------------------------------------------
(* runRecurringBilling.                                                    *)

DueRows_today == {Row(a) : a \in {b \in Accounts : plan[b].next = day /\ day > 0}}

DueRows == {Row(a) : a \in {b \in Accounts : plan[b].next > 0 /\ plan[b].next <= day}}

\* The cron's tick of the day; the rows come in no particular order.
Fire(c) ==
  /\ ran[c] < day /\ ran' = [ran EXCEPT ![c] = day]
  /\ \E rows \in SUBSET DueRows :
       /\ Cardinality(rows) = IF Cardinality(DueRows) < Batch THEN Cardinality(DueRows) ELSE Batch
       /\ run' = [run EXCEPT ![c] = [at |-> "bill", rows |-> rows, row |-> NoRow]]
  /\ UNCHANGED <<day, plans, plan, bills, admin, used>>

CreateBill(c) ==
  /\ run[c].at = "bill"
  /\ IF run[c].rows = {} THEN run' = [run EXCEPT ![c] = Resting] /\ UNCHANGED bills
     ELSE \E r \in run[c].rows :
            /\ Issue(r.account, r.next, "system")
            /\ run' = [run EXCEPT ![c] = [at |-> "date", rows |-> @.rows \ {r}, row |-> r]]
  /\ UNCHANGED <<day, plans, plan, ran, admin, used>>

NextDate_same(r) == r.next

\* From the row that was read: not from today, and not from the row as it is.
NextDate(r) == r.next + Period[r.plan]

AdvanceDate(c) ==
  /\ run[c].at = "date"
  /\ plan' = [plan EXCEPT ![run[c].row.account].next = NextDate(run[c].row)]
  /\ run' = [run EXCEPT ![c].at = "bill", ![c].row = NoRow]
  /\ UNCHANGED <<day, plans, bills, ran, admin, used>>

\* A bill cannot be written: the run ends, the rest waits for tomorrow.
RunFails(c) ==
  /\ run[c].at = "bill" /\ run[c].rows # {} /\ used.errors < MaxErrors
  /\ used' = [used EXCEPT !.errors = @ + 1] /\ run' = [run EXCEPT ![c] = Resting]
  /\ UNCHANGED <<day, plans, plan, bills, ran, admin>>

\* The instance dies anywhere in a run, also between a bill and its date.
Crash(c) ==
  /\ run[c].at # "idle" /\ used.crashes < MaxCrashes
  /\ used' = [used EXCEPT !.crashes = @ + 1] /\ run' = [run EXCEPT ![c] = Resting]
  /\ UNCHANGED <<day, plans, plan, bills, ran, admin>>

\* A run is over within its day.
NextDay == /\ day < MaxDay /\ \A c \in Cron : ran[c] = day /\ run[c].at = "idle"
           /\ day' = day + 1 /\ UNCHANGED <<plans, plan, bills, run, ran, admin, used>>

Next ==
  \/ \E p \in Plans : CreatePlan(p)
  \/ \E m \in Admins : FirstBill(m) \/ \E a \in Accounts, p \in Plans : AssignPlan(m, a, p)
  \/ \E c \in Cron : Fire(c) \/ CreateBill(c) \/ AdvanceDate(c) \/ RunFails(c) \/ Crash(c)
  \/ NextDay

\* The cron ticks every day, and what it started goes on.
Fairness == /\ WF_bvars(NextDay)
            /\ \A c \in Cron : WF_bvars(Fire(c)) /\ WF_bvars(CreateBill(c) \/ AdvanceDate(c))

Spec == Init /\ [][Next]_bvars /\ Fairness

-----------------------------------------------------------------------------
(***************************************************************************)
(* The job bills a date of an account once, whatever is assigned while it  *)
(* runs and wherever a run fails.  Needs one instance, and no crash        *)
(* between a bill and its next date.                                       *)
(***************************************************************************)
BilledOnce ==
  \A b, c \in bills : (b.by = "system" /\ c.by = "system" /\ b.account = c.account /\ b.due = c.due) => b = c

(***************************************************************************)
(* "issues the next recurring subscription bill for due accounts": a date  *)
(* that has come does not stay the next one, although a failing statement  *)
(* ends the run for everybody behind it.                                   *)
(***************************************************************************)
DueIsBilled ==
  \A a \in Accounts, d \in 1..MaxDay :
    (plan[a].next = d /\ d <= day /\ day < MaxDay)
      ~> ((\E b \in bills : b.account = a /\ b.due = d /\ b.by = "system") \/ plan[a].next > day)

\* The next date of a plan is the one its assignment set, or follows from it.
AssignedDateStays ==
  [][\A a \in Accounts : plan'[a].next # plan[a].next =>
       used'.assigns > used.assigns \/ plan'[a].next = plan[a].next + Period[plan[a].plan]]_bvars

=============================================================================
