------------------------------ MODULE JobQueue ------------------------------
(***************************************************************************)
(* The durable work queue of IiiQueueService (src/src/iii/queue.service.ts)*)
(* with its local PostgreSQL driver, shared by several application         *)
(* instances ("workers").  Every instance polls once a second, claims due  *)
(* jobs with UPDATE ... FOR UPDATE SKIP LOCKED, runs the handlers without   *)
(* awaiting them and records the outcome.                                  *)
(*                                                                         *)
(* A handler is a black box that returns or throws.  Time is abstract: a   *)
(* job whose runAt lies ahead becomes due by itself.                       *)
(***************************************************************************)
EXTENDS Integers, FiniteSets

CONSTANTS
    Workers,      \* application instances
    MaxJobs,      \* bound: jobs enqueued in a behaviour
    MaxAttempts,  \* maxAttempts of the queue
    Concurrency,  \* iii.queue.concurrency
    MaxPolls,     \* bound: poll loops of one instance that overlap
    MaxStops,     \* bound: graceful shutdowns
    MaxCrashes,   \* bound: crashes
    MaxDbErrors,  \* bound: statements the database fails
    GraceEnds     \* whether a handler can outlast the 10 s shutdown grace

Jobs == 1 .. MaxJobs    \* numbered in the order of createdAt

ASSUME QueueAssumption ==
    /\ MaxJobs \in Nat
    /\ MaxAttempts \in Nat \ {0}
    /\ Concurrency \in Nat \ {0}
    /\ MaxPolls \in Nat \ {0}
    /\ {MaxStops, MaxCrashes, MaxDbErrors} \subseteq Nat
    /\ GraceEnds \in BOOLEAN

VARIABLES
    status,    \* jobs.status, or "absent" before the row exists
    attempts,  \* jobs.attempts
    due,       \* jobs.runAt <= NOW()
    effects,   \* handler runs that returned normally, per job
    exec,      \* what worker w is doing with job j
    mode,      \* life cycle of an instance: "up", "stopping", "down"
    inFlight,  \* the inFlight counter of the instance
    polls,     \* poll loops of the instance that await claim()
    stops, crashes, dbErrors

jobVars    == <<status, attempts, due>>
workerVars == <<mode, inFlight, polls>>
budget     == <<stops, crashes, dbErrors>>
vars       == <<status, attempts, due, effects, exec, mode, inFlight, polls,
                stops, crashes, dbErrors>>

Phases == {"none", "claimed", "handler", "returned", "failed"}

-----------------------------------------------------------------------------
Init ==
    /\ status   = [j \in Jobs |-> "absent"]
    /\ attempts = [j \in Jobs |-> 0]
    /\ due      = [j \in Jobs |-> FALSE]
    /\ effects  = [j \in Jobs |-> 0]
    /\ exec     = [w \in Workers |-> [j \in Jobs |-> "none"]]
    /\ mode     = [w \in Workers |-> "up"]
    /\ inFlight = [w \in Workers |-> 0]
    /\ polls    = [w \in Workers |-> 0]
    /\ stops = 0 /\ crashes = 0 /\ dbErrors = 0

Phase(w, j, phase) == exec' = [exec EXCEPT ![w][j] = phase]

DbError ==
    /\ dbErrors < MaxDbErrors
    /\ dbErrors' = dbErrors + 1
    /\ UNCHANGED <<stops, crashes>>

\* enqueue: a PENDING row, due at once or after delayMs.
Enqueue(j) ==
    /\ status[j] = "absent"
    /\ \A i \in Jobs : i < j => status[i] # "absent"
    /\ status' = [status EXCEPT ![j] = "PENDING"]
    /\ \E now \in BOOLEAN : due' = [due EXCEPT ![j] = now]
    /\ UNCHANGED <<attempts, effects, exec, workerVars, budget>>

\* runAt passes.
BecomeDue(j) ==
    /\ status[j] = "PENDING"
    /\ ~due[j]
    /\ due' = [due EXCEPT ![j] = TRUE]
    /\ UNCHANGED <<status, attempts, effects, exec, workerVars, budget>>

\* Mutant: off by one.
HasRoom_atLimit(w, n) == n <= Concurrency /\ mode[w] = "up"

\* The test of poll's loop; nothing is reserved by passing it.
HasRoom(w, n) == n < Concurrency /\ mode[w] = "up"

\* The timer fires poll, also while an earlier call still awaits a claim.
BeginPoll(w) ==
    /\ HasRoom(w, inFlight[w])
    /\ polls[w] < MaxPolls
    /\ polls' = [polls EXCEPT ![w] = @ + 1]
    /\ UNCHANGED <<jobVars, effects, exec, mode, inFlight, budget>>

\* Mutant: running jobs are offered again, as if their lock had expired.
Claimable_running == {j \in Jobs : status[j] \in {"PENDING", "PROCESSING"} /\ due[j]}

\* Mutant: only jobs that were never tried are offered.
Claimable_fresh == {j \in Jobs : status[j] = "PENDING" /\ due[j] /\ attempts[j] = 0}

Claimable == {j \in Jobs : status[j] = "PENDING" /\ due[j]}

\* Loops whose claim has not been answered yet.
Waiting(w) == polls[w] - Cardinality({j \in Jobs : exec[w][j] = "claimed"})

\* The UPDATE of claim: the oldest due row; the attempt is counted here.
Claim(w, j) ==
    /\ mode[w] # "down"
    /\ Waiting(w) > 0
    /\ j \in Claimable
    /\ \A i \in Claimable : j <= i
    /\ status' = [status EXCEPT ![j] = "PROCESSING"]
    /\ attempts' = [attempts EXCEPT ![j] = @ + 1]
    /\ Phase(w, j, "claimed")
    /\ UNCHANGED <<due, effects, workerVars, budget>>

\* claim returns null, because nothing is due or because the query failed.
ClaimNothing(w) ==
    /\ mode[w] # "down"
    /\ Waiting(w) > 0
    /\ \/ Claimable = {} /\ UNCHANGED budget
       \/ DbError
    /\ polls' = [polls EXCEPT ![w] = @ - 1]
    /\ UNCHANGED <<jobVars, effects, exec, mode, inFlight>>

\* The claim's answer: inFlight++, process(job) is started but not awaited, and
\* the loop tests for room again.
StartProcess(w, j) ==
    /\ mode[w] # "down"
    /\ exec[w][j] = "claimed"
    /\ Phase(w, j, "handler")
    /\ inFlight' = [inFlight EXCEPT ![w] = @ + 1]
    /\ polls' = [polls EXCEPT ![w] =
                   IF HasRoom(w, inFlight[w] + 1) THEN @ ELSE @ - 1]
    /\ UNCHANGED <<jobVars, effects, mode, budget>>

\* The handler returns, or it throws (or no handler is registered).
HandlerEnds(w, j) ==
    /\ exec[w][j] = "handler"
    /\ \/ /\ Phase(w, j, "returned")
          /\ effects' = [effects EXCEPT ![j] = @ + 1]
       \/ /\ Phase(w, j, "failed")
          /\ UNCHANGED effects
    /\ UNCHANGED <<jobVars, workerVars, budget>>

\* process is over, whatever it could record.
Leave(w, j) ==
    /\ Phase(w, j, "none")
    /\ inFlight' = [inFlight EXCEPT ![w] = @ - 1]
    /\ UNCHANGED <<effects, mode, polls>>

Complete(w, j) ==
    /\ exec[w][j] = "returned"
    /\ \/ /\ status' = [status EXCEPT ![j] = "COMPLETED"]
          /\ Leave(w, j)
          /\ UNCHANGED <<attempts, due, budget>>
       \* the update throws inside the try block: the catch takes over
       \/ /\ DbError
          /\ Phase(w, j, "failed")
          /\ UNCHANGED <<jobVars, effects, workerVars>>

\* Mutant: one attempt too many.
Exhausted_late(j) == attempts[j] > MaxAttempts

Exhausted(j) == attempts[j] >= MaxAttempts

\* Mutant: a failed job gets a status of its own and no new attempt.
Retry_failed(w, j) ==
    /\ exec[w][j] = "failed"
    /\ Leave(w, j)
    /\ status' = [status EXCEPT ![j] = IF Exhausted(j) THEN "DEAD" ELSE "FAILED"]
    /\ UNCHANGED <<attempts, due, budget>>

\* Back to PENDING with a backoff, or DEAD when the attempts are used up.
Retry(w, j) ==
    /\ exec[w][j] = "failed"
    /\ Leave(w, j)
    /\ \/ /\ status' = [status EXCEPT ![j] =
                          IF Exhausted(j) THEN "DEAD" ELSE "PENDING"]
          /\ due' = [due EXCEPT ![j] = Exhausted(j) /\ @]
          /\ UNCHANGED <<attempts, budget>>
       \* the update fails and .catch(() => undefined) swallows it
       \/ DbError /\ UNCHANGED jobVars

-----------------------------------------------------------------------------
(* Instances come and go *)

\* What the instance held in memory is gone; the rows stay as they are.
GoDown(w) ==
    /\ mode' = [mode EXCEPT ![w] = "down"]
    /\ exec' = [exec EXCEPT ![w] = [j \in Jobs |-> "none"]]
    /\ inFlight' = [inFlight EXCEPT ![w] = 0]
    /\ polls' = [polls EXCEPT ![w] = 0]
    /\ UNCHANGED <<jobVars, effects>>

\* onModuleDestroy begins: no new polls, loops end at their next test.
Stop(w) ==
    /\ mode[w] = "up"
    /\ stops < MaxStops
    /\ stops' = stops + 1
    /\ mode' = [mode EXCEPT ![w] = "stopping"]
    /\ UNCHANGED <<jobVars, effects, exec, inFlight, polls, crashes, dbErrors>>

\* onModuleDestroy ends: nothing is counted in flight, or 10 s are over.
Exit(w) ==
    /\ mode[w] = "stopping"
    /\ inFlight[w] = 0 \/ GraceEnds
    /\ GoDown(w)
    /\ UNCHANGED budget

Crash(w) ==
    /\ mode[w] # "down"
    /\ crashes < MaxCrashes
    /\ crashes' = crashes + 1
    /\ GoDown(w)
    /\ UNCHANGED <<stops, dbErrors>>

Restart(w) ==
    /\ mode[w] = "down"
    /\ mode' = [mode EXCEPT ![w] = "up"]
    /\ UNCHANGED <<jobVars, effects, exec, inFlight, polls, budget>>

Process(w, j) == StartProcess(w, j) \/ HandlerEnds(w, j)
                 \/ Complete(w, j) \/ Retry(w, j)

Next ==
    \/ \E j \in Jobs : Enqueue(j) \/ BecomeDue(j)
    \/ \E w \in Workers :
        \/ BeginPoll(w)
        \/ ClaimNothing(w)
        \/ \E j \in Jobs : Claim(w, j) \/ Process(w, j)
        \/ Stop(w) \/ Exit(w) \/ Crash(w) \/ Restart(w)

\* The timer keeps firing, the database answers, handlers end (every provider
\* call has a timeout), runAt passes, and a stopped instance is started again.
Fairness ==
    /\ \A j \in Jobs : WF_vars(BecomeDue(j))
    /\ \A w \in Workers :
        /\ WF_vars(BeginPoll(w))
        /\ WF_vars(ClaimNothing(w))
        /\ WF_vars(Exit(w))
        /\ WF_vars(Restart(w))
        /\ \A j \in Jobs : WF_vars(Claim(w, j)) /\ WF_vars(Process(w, j))

Spec == Init /\ [][Next]_vars /\ Fairness

-----------------------------------------------------------------------------
(* Properties *)

Statuses == {"absent", "PENDING", "PROCESSING", "COMPLETED", "DEAD"}

TypeOK ==
    /\ status \in [Jobs -> Statuses]
    /\ attempts \in [Jobs -> Nat]
    /\ due \in [Jobs -> BOOLEAN]
    /\ effects \in [Jobs -> Nat]
    /\ exec \in [Workers -> [Jobs -> Phases]]
    /\ mode \in [Workers -> {"up", "stopping", "down"}]
    /\ inFlight \in [Workers -> Int]
    /\ polls \in [Workers -> Int]
    /\ stops \in Nat /\ crashes \in Nat /\ dbErrors \in Nat

Busy(w, j) == exec[w][j] # "none"

\* SKIP LOCKED hands a job to one execution at a time, over all instances, and
\* a job somebody works on is PROCESSING: the payout and SMS handlers rely on it.
OneExecution ==
    \A j \in Jobs :
        /\ \A v, w \in Workers : Busy(v, j) /\ Busy(w, j) => v = w
        /\ \A w \in Workers : Busy(w, j) => status[j] = "PROCESSING"

\* A job is dead-lettered only when its attempts are used up, it is never tried
\* more often, and COMPLETED says that a handler run went through.
HonestOutcome ==
    \A j \in Jobs :
        /\ attempts[j] <= MaxAttempts
        /\ status[j] = "PENDING" => attempts[j] < MaxAttempts
        /\ status[j] = "DEAD" => attempts[j] = MaxAttempts
        /\ status[j] = "COMPLETED" => effects[j] > 0

\* inFlight and the overlapping poll loops stay below a bound: each loop can
\* overshoot the configured concurrency by one job, not more.
OvershootBounded ==
    \A w \in Workers : inFlight[w] + polls[w] <= Concurrency - 1 + MaxPolls

\* "Claims and processes up to the configured concurrency of due jobs"
\* (queue.service.ts:72), per instance.
ConcurrencyRespected == \A w \in Workers : inFlight[w] <= Concurrency

\* A queued job ends COMPLETED or DEAD (README.md:203, at-least-once; :210).
EveryJobSettles ==
    \A j \in Jobs :
        status[j] = "PENDING" ~> status[j] \in {"COMPLETED", "DEAD"}

\* The queue as its users see it.
AbstractOf(s) ==
    CASE s = "PENDING"    -> "waiting"
      [] s = "PROCESSING" -> "delivered"
      [] s = "COMPLETED"  -> "done"
      [] s = "DEAD"       -> "dead"
      [] OTHER            -> "absent"

AbstractState == [j \in Jobs |-> AbstractOf(status[j])]

Abstract == INSTANCE AtLeastOnceQueue
            WITH state <- AbstractState, deliveries <- attempts

\* Without crashes, shutdowns and database errors the queue keeps its promise;
\* with them it still takes no step the promise forbids.
ImplementsQueue == Abstract!Spec
ImplementsQueueSafety == Abstract!Safety

=============================================================================
