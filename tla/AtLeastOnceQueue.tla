-------------------------- MODULE AtLeastOnceQueue --------------------------
(***************************************************************************)
(* What the work queue promises its users: a queued job is handed to its   *)
(* handler, one delivery at a time, until the handler has finished it once *)
(* or it has been delivered MaxAttempts times; and it gets there.          *)
(***************************************************************************)
EXTENDS Naturals

CONSTANTS
    Jobs,         \* the jobs
    MaxAttempts   \* deliveries before a job is given up

VARIABLES
    state,        \* "absent", "waiting", "delivered", "done" or "dead"
    deliveries    \* how often the job has been handed to its handler

queueVars == <<state, deliveries>>

Init ==
    /\ state = [j \in Jobs |-> "absent"]
    /\ deliveries = [j \in Jobs |-> 0]

Enqueue(j) ==
    /\ state[j] = "absent"
    /\ state' = [state EXCEPT ![j] = "waiting"]
    /\ UNCHANGED deliveries

Deliver(j) ==
    /\ state[j] = "waiting"
    /\ deliveries[j] < MaxAttempts
    /\ state' = [state EXCEPT ![j] = "delivered"]
    /\ deliveries' = [deliveries EXCEPT ![j] = @ + 1]

\* The handler is through with the job.
Finish(j) ==
    /\ state[j] = "delivered"
    /\ state' = [state EXCEPT ![j] = "done"]
    /\ UNCHANGED deliveries

\* The handler failed: another delivery, or the dead letter state.
Fail(j) ==
    /\ state[j] = "delivered"
    /\ state' = [state EXCEPT ![j] =
                   IF deliveries[j] < MaxAttempts THEN "waiting" ELSE "dead"]
    /\ UNCHANGED deliveries

Serve(j) == Deliver(j) \/ Finish(j) \/ Fail(j)

Next == \E j \in Jobs : Enqueue(j) \/ Serve(j)

Safety == Init /\ [][Next]_queueVars

Spec == Safety /\ \A j \in Jobs : WF_queueVars(Serve(j))

=============================================================================
