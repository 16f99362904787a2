--------------------------- MODULE Deliveries ----------------------------
(***************************************************************************)
(* Outbound webhooks (src/src/webhooks/webhooks.service.ts): endpoints,    *)
(* the rows and jobs of an event, the POST with its retries, and the cron  *)
(* that enqueues due retries again.  The queue is what module JobQueue     *)
(* shows: a job is handed out once, again after an error of its handler,   *)
(* and never again when its instance crashes.  POSTs time out after 10 s   *)
(* and retries wait a minute or more, so a retry falls due when no attempt *)
(* is under way; jobs of one delivery that are due together do overlap.    *)
(***************************************************************************)
EXTENDS Naturals, FiniteSets

CONSTANTS
  Slots,        \* endpoint ids, one of them for each that can ever be created
  Clients,      \* concurrent endpoint requests
  EndpointLimit,   \* 5 in the code
  Events,       \* events of the account; each makes a delivery per endpoint
  Workers,      \* handlers of webhook.deliver that run at the same time
  Attempts,     \* 5 in the code
  MaxJobs, MaxCrashes, MaxErrors   \* bounds: jobs per delivery, crashes, failing statements

VARIABLES
  endpoint,     \* [Slots -> "none" | "active" | "disabled" | "deleted"]
  client,       \* endpoint requests, one after the other each: what they counted
  dispatch,     \* events: not begun, or the endpoints left to serve
  row,          \* webhook_deliveries: status, attempts, and whether a retry is timed
  jobs,         \* per delivery: jobs that are due and jobs that are delayed
  work,         \* handlers: the delivery, the row as read, where they are
  posts, acked, \* history: POSTs sent, 2xx answers
  used

dvars == <<endpoint, client, dispatch, row, jobs, work, posts, acked, used>>

Deliveries == Events \X Slots
Absent == [status |-> "NONE", attempts |-> 0, timed |-> FALSE]
Idle == [d |-> <<>>, at |-> "idle", attempts |-> 0]

Init ==
  /\ endpoint = [s \in Slots |-> "none"]
  /\ client = [c \in Clients |-> [at |-> "idle", count |-> 0]]
  /\ dispatch = [e \in Events |-> [at |-> "idle", to |-> {}]]
  /\ row = [d \in Deliveries |-> Absent]
  /\ jobs = [d \in Deliveries |-> [due |-> 0, delayed |-> 0]]
  /\ work = [w \in Workers |-> Idle]
  /\ posts = [d \in Deliveries |-> 0] /\ acked = {}
  /\ used = [crashes |-> 0, errors |-> 0]

Present == {s \in Slots : endpoint[s] \in {"active", "disabled"}}

-----------------------------------------------------------------------------
(* Endpoints.                                                              *)

CountEndpoints(c) ==
  /\ client[c].at = "idle"
  /\ client' = [client EXCEPT ![c] = [at |-> "create", count |-> Cardinality(Present)]]
  /\ UNCHANGED <<endpoint, dispatch, row, jobs, work, posts, acked, used>>

BelowLimit_atLimit(count) == count <= EndpointLimit

BelowLimit(count) == count < EndpointLimit

CreateEndpoint(c) ==
  /\ client[c].at = "create"
  /\ client' = [client EXCEPT ![c] = [at |-> "idle", count |-> 0]]
  /\ IF BelowLimit(client[c].count)
     THEN \E s \in Slots : endpoint[s] = "none" /\ endpoint' = [endpoint EXCEPT ![s] = "active"]
     ELSE UNCHANGED endpoint
  /\ UNCHANGED <<dispatch, row, jobs, work, posts, acked, used>>

\* Deleting an endpoint deletes its deliveries (onDelete: Cascade).
RemoveEndpoint(s) ==
  /\ s \in Present
  /\ endpoint' = [endpoint EXCEPT ![s] = "deleted"]
  /\ row' = [d \in Deliveries |-> IF d[2] = s THEN Absent ELSE row[d]]
  /\ UNCHANGED <<client, dispatch, jobs, work, posts, acked, used>>

\* No operation of the service sets isActive; an operator may.
DisableEndpoint(s) ==
  /\ endpoint[s] = "active" /\ endpoint' = [endpoint EXCEPT ![s] = "disabled"]
  /\ UNCHANGED <<client, dispatch, row, jobs, work, posts, acked, used>>

-----------------------------------------------------------------------------
(* dispatch: for each subscribed endpoint, a row, then a job.              *)

BeginDispatch(e) ==
  /\ dispatch[e].at = "idle"
  /\ dispatch' = [dispatch EXCEPT ![e] = [at |-> "row", to |-> {s \in Slots : endpoint[s] = "active"}]]
  /\ UNCHANGED <<endpoint, client, row, jobs, work, posts, acked, used>>

CreateDelivery(e) ==
  /\ dispatch[e].at = "row"
  /\ \E s \in dispatch[e].to :
       IF endpoint[s] = "deleted"   \* the foreign key fails and ends the dispatch
       THEN dispatch' = [dispatch EXCEPT ![e].to = {}] /\ UNCHANGED row
       ELSE /\ row' = [row EXCEPT ![<<e, s>>] = [Absent EXCEPT !.status = "PENDING"]]
            /\ dispatch' = [dispatch EXCEPT ![e] = [at |-> s, to |-> @.to \ {s}]]
  /\ UNCHANGED <<endpoint, client, jobs, work, posts, acked, used>>

EnqueueDelivery(e) ==
  /\ dispatch[e].at \in Slots
  /\ jobs' = [jobs EXCEPT ![<<e, dispatch[e].at>>].due = @ + 1]
  /\ dispatch' = [dispatch EXCEPT ![e].at = "row"]
  /\ UNCHANGED <<endpoint, client, row, work, posts, acked, used>>

-----------------------------------------------------------------------------
(* deliverJob.                                                             *)

Finish(w) == work' = [work EXCEPT ![w] = Idle]

ReadDelivery(w, d) ==
  /\ work[w].at = "idle" /\ jobs[d].due > 0
  /\ jobs' = [jobs EXCEPT ![d].due = @ - 1]
  /\ IF row[d].status \in {"NONE", "DELIVERED"}
     THEN UNCHANGED work
     ELSE work' = [work EXCEPT ![w] = [d |-> d, attempts |-> row[d].attempts + 1,
                     at |-> IF endpoint[d[2]] = "active" THEN "post" ELSE "disabled"]]
  /\ UNCHANGED <<endpoint, client, dispatch, row, posts, acked, used>>

\* The merchant answers 2xx, something else, or nothing in time.
Post(w, ok) ==
  /\ work[w].at = "post"
  /\ posts' = [posts EXCEPT ![work[w].d] = @ + 1]
  /\ acked' = IF ok THEN acked \cup {work[w].d} ELSE acked
  /\ work' = [work EXCEPT ![w].at = IF ok THEN "ok" ELSE "failed"]
  /\ UNCHANGED <<endpoint, client, dispatch, row, jobs, used>>

Exhausted_early(attempts) == attempts + 1 >= Attempts

Exhausted(attempts) == attempts >= Attempts

\* What the handler writes, from the row it read before the POST.
Outcome(w) ==
  LET x == work[w] IN
  CASE x.at = "disabled" -> [row[x.d] EXCEPT !.status = "FAILED"]
    [] x.at = "ok" -> [row[x.d] EXCEPT !.status = "DELIVERED", !.attempts = x.attempts]
    [] x.at = "failed" ->
         [status |-> IF Exhausted(x.attempts) THEN "DEAD" ELSE "PENDING",
          attempts |-> x.attempts,
          timed |-> row[x.d].timed \/ ~Exhausted(x.attempts)]

WriteOutcome(w) ==
  /\ work[w].at \in {"disabled", "ok", "failed"}
  /\ IF row[work[w].d].status = "NONE"        \* deleted meanwhile: the update throws,
     THEN /\ Finish(w) /\ UNCHANGED row        \* the job comes back to find nothing
     ELSE /\ row' = [row EXCEPT ![work[w].d] = Outcome(w)]
          /\ IF work[w].at = "failed" /\ ~Exhausted(work[w].attempts)
             THEN work' = [work EXCEPT ![w].at = "retry"] ELSE Finish(w)
  /\ UNCHANGED <<endpoint, client, dispatch, jobs, posts, acked, used>>

EnqueueRetry(w) ==
  /\ work[w].at = "retry"
  /\ jobs' = [jobs EXCEPT ![work[w].d].delayed = @ + 1] /\ Finish(w)
  /\ UNCHANGED <<endpoint, client, dispatch, row, posts, acked, used>>

\* A statement fails: the handler throws and the queue hands the job out again.
Throw(w) ==
  /\ work[w].at # "idle" /\ used.errors < MaxErrors
  /\ used' = [used EXCEPT !.errors = @ + 1]
  /\ jobs' = [jobs EXCEPT ![work[w].d].due = @ + 1] /\ Finish(w)
  /\ UNCHANGED <<endpoint, client, dispatch, row, posts, acked>>

\* The instance dies: its job stays PROCESSING for good.
Crash(w) ==
  /\ work[w].at # "idle" /\ used.crashes < MaxCrashes
  /\ used' = [used EXCEPT !.crashes = @ + 1] /\ Finish(w)
  /\ UNCHANGED <<endpoint, client, dispatch, row, jobs, posts, acked>>

BecomeDue(d) ==
  /\ jobs[d].delayed > 0 /\ \A w \in Workers : work[w].d # d
  /\ jobs' = [jobs EXCEPT ![d] = [due |-> @.due + @.delayed, delayed |-> 0]]
  /\ UNCHANGED <<endpoint, client, dispatch, row, work, posts, acked, used>>

Sweepable_never(d) == FALSE

\* sweepDueRetries, when the retry's time has come: rows that were never
\* attempted have no time.
Sweepable(d) == row[d].status = "PENDING" /\ row[d].timed /\ row[d].attempts > 0

Sweep ==
  /\ \E d \in Deliveries : Sweepable(d) /\ jobs[d].due + jobs[d].delayed < MaxJobs
  /\ jobs' = [d \in Deliveries |->
                IF Sweepable(d) /\ jobs[d].due + jobs[d].delayed < MaxJobs
                THEN [jobs[d] EXCEPT !.due = @ + 1] ELSE jobs[d]]
  /\ UNCHANGED <<endpoint, client, dispatch, row, work, posts, acked, used>>

Next ==
  \/ \E c \in Clients : CountEndpoints(c) \/ CreateEndpoint(c)
  \/ \E s \in Slots : RemoveEndpoint(s) \/ DisableEndpoint(s)
  \/ \E e \in Events : BeginDispatch(e) \/ CreateDelivery(e) \/ EnqueueDelivery(e)
  \/ \E w \in Workers :
       \/ \E d \in Deliveries : ReadDelivery(w, d)
       \/ \E ok \in BOOLEAN : Post(w, ok)
       \/ WriteOutcome(w) \/ EnqueueRetry(w) \/ Throw(w) \/ Crash(w)
  \/ \E d \in Deliveries : BecomeDue(d)
  \/ Sweep

Fairness ==
  /\ \A e \in Events : WF_dvars(CreateDelivery(e) \/ EnqueueDelivery(e))
  /\ \A d \in Deliveries : WF_dvars(BecomeDue(d)) /\ SF_dvars(\E w \in Workers : ReadDelivery(w, d))
  /\ \A w \in Workers : /\ WF_dvars(\E ok \in BOOLEAN : Post(w, ok))
                        /\ WF_dvars(WriteOutcome(w) \/ EnqueueRetry(w))
  /\ WF_dvars(Sweep)

Spec == Init /\ [][Next]_dvars /\ Fairness

-----------------------------------------------------------------------------
(***************************************************************************)
(* Concurrent registrations exceed "at most 5 webhook endpoints" by no     *)
(* more than one each.                                                     *)
(***************************************************************************)
EndpointsBounded == Cardinality(Present) <= EndpointLimit + Cardinality(Clients) - 1

(***************************************************************************)
(* A row says what happened although its attempts come from a read before  *)
(* the POST: DELIVERED after a 2xx answer, DEAD after that many POSTs, and *)
(* never more attempts than POSTs.                                         *)
(***************************************************************************)
OutcomeHonest ==
  \A d \in Deliveries :
    /\ row[d].attempts <= posts[d]
    /\ row[d].status = "DELIVERED" => d \in acked
    /\ row[d].status = "DEAD" => posts[d] >= Attempts

(***************************************************************************)
(* "Re-delivers due retries (cron safety net if a delayed job was lost)":  *)
(* a delivery that was attempted once does not stay PENDING, also when the *)
(* instance dies with its job.                                             *)
(***************************************************************************)
RetriesEnd ==
  \A d \in Deliveries : (row[d].status = "PENDING" /\ row[d].attempts > 0) ~> (row[d].status # "PENDING")

\* "deliveries are recorded row-by-row so nothing is lost"
NothingLost == \A d \in Deliveries : (row[d].status = "PENDING") ~> (row[d].status # "PENDING")

\* A delivery the merchant acknowledged stays DELIVERED.
DeliveredStays ==
  [][\A d \in Deliveries : row[d].status = "DELIVERED" => row'[d].status \in {"DELIVERED", "NONE"}]_dvars

=============================================================================
