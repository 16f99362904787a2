--------------------------- MODULE JobQueueProofs ---------------------------
(***************************************************************************)
(* The safety of JobQueue for any number of instances and jobs, any        *)
(* crashes, shutdowns and database errors, and its refinement of the       *)
(* safety part of AtLeastOnceQueue.                                        *)
(***************************************************************************)
EXTENDS JobQueue, TLAPS

\* What makes HonestOutcome inductive: a job not yet queued has no attempts,
\* and a handler run that returned has had its effect.
EvidenceKept ==
    \A j \in Jobs :
        /\ status[j] = "absent" => attempts[j] = 0
        /\ \A w \in Workers : exec[w][j] = "returned" => effects[j] > 0

\* What makes OvershootBounded inductive.
PollsBounded == \A w \in Workers : polls[w] <= MaxPolls

\* Job j and worker w change, the others keep what they have.
JobInv ==
    /\ TypeOK
    /\ OneExecution
    /\ HonestOutcome
    /\ EvidenceKept

LoadInv == TypeOK /\ PollsBounded /\ OvershootBounded

-----------------------------------------------------------------------------
LEMMA InitTypeOK == Init => TypeOK
BY DEF Init, TypeOK, Statuses, Phases

\* Phase changes one entry of exec and keeps its type.
LEMMA PhaseExec ==
    ASSUME TypeOK, NEW w \in Workers, NEW j \in Jobs, NEW phase \in Phases,
           Phase(w, j, phase)
    PROVE  /\ exec' \in [Workers -> [Jobs -> Phases]]
           /\ \A v \in Workers, i \in Jobs :
                exec'[v][i] = IF v = w /\ i = j THEN phase ELSE exec[v][i]
<1>1. exec[w] \in [Jobs -> Phases]
  BY DEF TypeOK
<1>2. [exec[w] EXCEPT ![j] = phase] \in [Jobs -> Phases]
  BY <1>1
<1>3. exec' = [exec EXCEPT ![w] = [exec[w] EXCEPT ![j] = phase]]
  BY DEF Phase
<1>. QED
  BY <1>1, <1>2, <1>3 DEF TypeOK

LEMMA NextTypeOK == TypeOK /\ [Next]_vars => TypeOK'
<1>. SUFFICES ASSUME TypeOK, [Next]_vars
              PROVE  TypeOK'
  OBVIOUS
<1>. USE DEF TypeOK, Statuses, jobVars, workerVars, budget
<1>1. CASE UNCHANGED vars
  BY <1>1 DEF vars
<1>2. ASSUME NEW j \in Jobs, Enqueue(j)
      PROVE  TypeOK'
  BY <1>2 DEF Enqueue
<1>3. ASSUME NEW j \in Jobs, BecomeDue(j)
      PROVE  TypeOK'
  BY <1>3 DEF BecomeDue
<1>4. ASSUME NEW w \in Workers, BeginPoll(w)
      PROVE  TypeOK'
  BY <1>4 DEF BeginPoll
<1>5. ASSUME NEW w \in Workers, ClaimNothing(w)
      PROVE  TypeOK'
  BY <1>5 DEF ClaimNothing, DbError
<1>6. ASSUME NEW w \in Workers, NEW j \in Jobs, Claim(w, j)
      PROVE  TypeOK'
  <2>1. exec' \in [Workers -> [Jobs -> Phases]]
    BY <1>6, PhaseExec DEF Claim, Phases
  <2>. QED  BY <1>6, <2>1 DEF Claim
<1>7. ASSUME NEW w \in Workers, NEW j \in Jobs, StartProcess(w, j)
      PROVE  TypeOK'
  <2>1. exec' \in [Workers -> [Jobs -> Phases]]
    BY <1>7, PhaseExec DEF StartProcess, Phases
  <2>2. inFlight' \in [Workers -> Int] /\ polls' \in [Workers -> Int]
    BY <1>7 DEF StartProcess
  <2>. QED  BY <1>7, <2>1, <2>2 DEF StartProcess
<1>8. ASSUME NEW w \in Workers, NEW j \in Jobs, HandlerEnds(w, j)
      PROVE  TypeOK'
  <2>1. exec' \in [Workers -> [Jobs -> Phases]]
    BY <1>8, PhaseExec DEF HandlerEnds, Phases
  <2>2. effects' \in [Jobs -> Nat]
    BY <1>8 DEF HandlerEnds
  <2>. QED  BY <1>8, <2>1, <2>2 DEF HandlerEnds
<1>9. ASSUME NEW w \in Workers, NEW j \in Jobs, Complete(w, j)
      PROVE  TypeOK'
  <2>1. exec' \in [Workers -> [Jobs -> Phases]]
    BY <1>9, PhaseExec DEF Complete, Leave, Phases
  <2>. QED  BY <1>9, <2>1 DEF Complete, Leave, DbError
<1>10. ASSUME NEW w \in Workers, NEW j \in Jobs, Retry(w, j)
       PROVE  TypeOK'
  <2>1. exec' \in [Workers -> [Jobs -> Phases]]
    BY <1>10, PhaseExec DEF Retry, Leave, Phases
  <2>2. status' \in [Jobs -> Statuses] /\ due' \in [Jobs -> BOOLEAN]
    BY <1>10 DEF Retry
  <2>3. inFlight' \in [Workers -> Int]
    BY <1>10 DEF Retry, Leave
  <2>4. stops' \in Nat /\ crashes' \in Nat /\ dbErrors' \in Nat
    BY <1>10 DEF Retry, DbError
  <2>. QED  BY <1>10, <2>1, <2>2, <2>3, <2>4 DEF Retry, Leave
<1>11. ASSUME NEW w \in Workers, Stop(w)
       PROVE  TypeOK'
  BY <1>11 DEF Stop
<1>12. ASSUME NEW w \in Workers, Exit(w) \/ Crash(w)
       PROVE  TypeOK'
  <2>1. exec' \in [Workers -> [Jobs -> Phases]]
    BY <1>12 DEF Exit, Crash, GoDown, Phases
  <2>2. stops' \in Nat /\ crashes' \in Nat /\ dbErrors' \in Nat
    BY <1>12 DEF Exit, Crash
  <2>3. GoDown(w)
    BY <1>12 DEF Exit, Crash
  <2>. QED  BY <2>1, <2>2, <2>3 DEF GoDown
<1>13. ASSUME NEW w \in Workers, Restart(w)
       PROVE  TypeOK'
  BY <1>13 DEF Restart
<1>. QED
  BY <1>1, <1>2, <1>3, <1>4, <1>5, <1>6, <1>7, <1>8, <1>9, <1>10, <1>11,
     <1>12, <1>13 DEF Next, Process

\* Every variable keeps its type.
THEOREM TypeCorrect == Spec => []TypeOK
BY InitTypeOK, NextTypeOK, PTL DEF Spec
-----------------------------------------------------------------------------
(* One execution per job, and honest outcomes *)

\* A step of worker w on job j that leaves the other jobs and executions alone
\* and ends in a state that is consistent for j.
LEMMA LocalJobInv ==
    ASSUME JobInv, TypeOK', NEW j \in Jobs,
           \A v \in Workers, i \in Jobs : i # j => exec'[v][i] = exec[v][i],
           \A i \in Jobs : i # j =>
               /\ status'[i] = status[i]
               /\ attempts'[i] = attempts[i]
               /\ effects'[i] = effects[i],
           \A v, w \in Workers :
               exec'[v][j] # "none" /\ exec'[w][j] # "none" => v = w,
           \A v \in Workers : exec'[v][j] # "none" => status'[j] = "PROCESSING",
           \A v \in Workers : exec'[v][j] = "returned" => effects'[j] > 0,
           attempts'[j] <= MaxAttempts,
           status'[j] = "absent" => attempts'[j] = 0,
           status'[j] = "PENDING" => attempts'[j] < MaxAttempts,
           status'[j] = "DEAD" => attempts'[j] = MaxAttempts,
           status'[j] = "COMPLETED" => effects'[j] > 0
    PROVE  JobInv'
<1>1. OneExecution'
  BY DEF JobInv, OneExecution, Busy
<1>2. HonestOutcome'
  BY DEF JobInv, HonestOutcome
<1>3. EvidenceKept'
  BY DEF JobInv, EvidenceKept
<1>. QED  BY <1>1, <1>2, <1>3 DEF JobInv

\* A step that touches no job row and at most ends executions.
LEMMA QuietJobInv ==
    ASSUME JobInv, TypeOK', UNCHANGED <<status, attempts, effects>>,
           \A v \in Workers, i \in Jobs : exec'[v][i] \in {"none", exec[v][i]}
    PROVE  JobInv'
BY DEF JobInv, OneExecution, HonestOutcome, EvidenceKept, Busy

LEMMA ClaimJobInv ==
    ASSUME JobInv, TypeOK', NEW w \in Workers, NEW j \in Jobs, Claim(w, j)
    PROVE  JobInv'
<1>1. \A v \in Workers, i \in Jobs :
        exec'[v][i] = IF v = w /\ i = j THEN "claimed" ELSE exec[v][i]
  BY PhaseExec DEF Claim, JobInv, Phases
<1>2. status[j] = "PENDING" /\ \A v \in Workers : exec[v][j] = "none"
  BY DEF Claim, Claimable, JobInv, OneExecution, Busy
<1>3. attempts[j] \in Nat /\ attempts[j] < MaxAttempts
  BY <1>2 DEF JobInv, HonestOutcome, TypeOK
<1>4. /\ status' = [status EXCEPT ![j] = "PROCESSING"]
      /\ attempts' = [attempts EXCEPT ![j] = @ + 1]
      /\ effects' = effects
  BY DEF Claim
<1>5. attempts'[j] = attempts[j] + 1 /\ status'[j] = "PROCESSING"
  BY <1>4 DEF JobInv, TypeOK
<1>6. \A i \in Jobs : i # j => status'[i] = status[i] /\ attempts'[i] = attempts[i]
  BY <1>4 DEF JobInv, TypeOK
<1>. QED
  BY <1>1, <1>2, <1>3, <1>4, <1>5, <1>6, QueueAssumption, LocalJobInv

LEMMA ProcessJobInv ==
    ASSUME JobInv, TypeOK', NEW w \in Workers, NEW j \in Jobs, Process(w, j)
    PROVE  JobInv'
<1>1. \A phase \in Phases : Phase(w, j, phase) =>
        \A v \in Workers, i \in Jobs :
            exec'[v][i] = IF v = w /\ i = j THEN phase ELSE exec[v][i]
  BY PhaseExec DEF JobInv
<1>2. exec[w][j] # "none"
  BY DEF Process, StartProcess, HandlerEnds, Complete, Retry
<1>3. status[j] = "PROCESSING" /\ \A v \in Workers : exec[v][j] # "none" => v = w
  BY <1>2 DEF JobInv, OneExecution, Busy
<1>4. attempts[j] \in Nat /\ effects[j] \in Nat /\ attempts[j] <= MaxAttempts
  BY DEF JobInv, HonestOutcome, TypeOK
<1>5. CASE StartProcess(w, j)
  <2>1. UNCHANGED <<status, attempts, effects>> /\ Phase(w, j, "handler")
    BY <1>5 DEF StartProcess, jobVars
  <2>. QED
    BY <2>1, <1>1, <1>3, <1>4, LocalJobInv DEF Phases
<1>6. CASE HandlerEnds(w, j)
  <2>1. UNCHANGED <<status, attempts>>
    BY <1>6 DEF HandlerEnds, jobVars
  <2>2. CASE Phase(w, j, "returned") /\ effects' = [effects EXCEPT ![j] = @ + 1]
    <3>1. effects'[j] > 0 /\ \A i \in Jobs : i # j => effects'[i] = effects[i]
      BY <2>2, <1>4 DEF JobInv, TypeOK
    <3>. QED
      BY <3>1, <2>1, <2>2, <1>1, <1>3, <1>4, LocalJobInv DEF Phases
  <2>3. CASE Phase(w, j, "failed") /\ UNCHANGED effects
    BY <2>1, <2>3, <1>1, <1>3, <1>4, LocalJobInv DEF Phases
  <2>. QED  BY <1>6, <2>2, <2>3 DEF HandlerEnds
<1>7. CASE Complete(w, j)
  <2>1. exec[w][j] = "returned" /\ effects[j] > 0
    BY <1>7 DEF Complete, JobInv, EvidenceKept
  <2>2. UNCHANGED <<attempts, effects>>
    BY <1>7 DEF Complete, Leave, jobVars
  <2>3. CASE status' = [status EXCEPT ![j] = "COMPLETED"] /\ Leave(w, j)
    <3>1. status'[j] = "COMPLETED" /\ \A i \in Jobs : i # j => status'[i] = status[i]
      BY <2>3 DEF JobInv, TypeOK
    <3>2. \A v \in Workers, i \in Jobs :
            exec'[v][i] = IF v = w /\ i = j THEN "none" ELSE exec[v][i]
      BY <2>3, <1>1 DEF Leave, Phases
    <3>. QED
      BY <3>1, <3>2, <2>1, <2>2, <1>3, <1>4, LocalJobInv
  <2>4. CASE DbError /\ Phase(w, j, "failed") /\ UNCHANGED status
    BY <2>2, <2>4, <1>1, <1>3, <1>4, LocalJobInv DEF Phases
  <2>. QED  BY <1>7, <2>3, <2>4 DEF Complete, jobVars
<1>8. CASE Retry(w, j)
  <2>1. UNCHANGED <<attempts, effects>> /\ Leave(w, j)
    BY <1>8 DEF Retry, Leave, jobVars
  <2>2. \A v \in Workers, i \in Jobs :
          exec'[v][i] = IF v = w /\ i = j THEN "none" ELSE exec[v][i]
    BY <2>1, <1>1 DEF Leave, Phases
  <2>3. CASE status' = [status EXCEPT ![j] =
                          IF Exhausted(j) THEN "DEAD" ELSE "PENDING"]
    <3>1. /\ status'[j] = IF Exhausted(j) THEN "DEAD" ELSE "PENDING"
          /\ \A i \in Jobs : i # j => status'[i] = status[i]
      BY <2>3 DEF JobInv, TypeOK
    <3>2. IF Exhausted(j) THEN attempts[j] = MaxAttempts
                          ELSE attempts[j] < MaxAttempts
      BY <1>4, QueueAssumption DEF Exhausted
    <3>. QED
      BY <3>1, <3>2, <2>1, <2>2, <1>3, <1>4, LocalJobInv
  <2>4. CASE UNCHANGED status
    BY <2>1, <2>2, <2>4, QuietJobInv
  <2>. QED  BY <1>8, <2>3, <2>4 DEF Retry, jobVars
<1>. QED  BY <1>5, <1>6, <1>7, <1>8 DEF Process

LEMMA NextJobInv == JobInv /\ [Next]_vars => JobInv'
<1>. SUFFICES ASSUME JobInv, [Next]_vars
              PROVE  JobInv'
  OBVIOUS
<1>0. TypeOK'
  BY NextTypeOK DEF JobInv
<1>1. CASE UNCHANGED vars
  BY <1>0, <1>1, QuietJobInv DEF vars
<1>2. ASSUME NEW j \in Jobs, Enqueue(j)
      PROVE  JobInv'
  <2>1. status[j] = "absent" /\ attempts[j] = 0
    BY <1>2 DEF Enqueue, JobInv, EvidenceKept
  <2>2. /\ status'[j] = "PENDING"
        /\ \A i \in Jobs : i # j => status'[i] = status[i]
        /\ UNCHANGED <<attempts, effects, exec>>
    BY <1>2 DEF Enqueue, JobInv, TypeOK
  <2>3. \A v \in Workers : exec[v][j] = "none"
    BY <2>1 DEF JobInv, OneExecution, Busy
  <2>. QED
    BY <1>0, <2>1, <2>2, <2>3, QueueAssumption, LocalJobInv
<1>3. ASSUME NEW w \in Workers, Exit(w) \/ Crash(w)
      PROVE  JobInv'
  <2>1. UNCHANGED <<status, attempts, effects>>
    BY <1>3 DEF Exit, Crash, GoDown, jobVars
  <2>2. exec' = [exec EXCEPT ![w] = [j \in Jobs |-> "none"]]
    BY <1>3 DEF Exit, Crash, GoDown
  <2>3. \A v \in Workers, i \in Jobs : exec'[v][i] \in {"none", exec[v][i]}
    BY <2>2 DEF JobInv, TypeOK
  <2>. QED
    BY <1>0, <2>1, <2>3, QuietJobInv
<1>4. ASSUME NEW w \in Workers,
             BeginPoll(w) \/ ClaimNothing(w) \/ Stop(w) \/ Restart(w)
      PROVE  JobInv'
  BY <1>0, <1>4, QuietJobInv
     DEF BeginPoll, ClaimNothing, Stop, Restart, jobVars
<1>5. ASSUME NEW j \in Jobs, BecomeDue(j)
      PROVE  JobInv'
  BY <1>0, <1>5, QuietJobInv DEF BecomeDue
<1>. QED
  BY <1>0, <1>1, <1>2, <1>3, <1>4, <1>5, ClaimJobInv, ProcessJobInv DEF Next

LEMMA InitJobInv == Init => JobInv
BY InitTypeOK, QueueAssumption
   DEF Init, JobInv, OneExecution, HonestOutcome, EvidenceKept, Busy

LEMMA JobInvariant == Spec => []JobInv
BY InitJobInv, NextJobInv, PTL DEF Spec

\* No two instances ever run the same job, whatever crashes and restarts.
THEOREM NoDoubleExecution == Spec => []OneExecution
<1>1. JobInv => OneExecution
  BY DEF JobInv
<1>. QED  BY <1>1, JobInvariant, PTL

\* Attempts never exceed the maximum, DEAD means exhausted and COMPLETED means
\* that a handler run went through.
THEOREM OutcomesHonest == Spec => []HonestOutcome
<1>1. JobInv => HonestOutcome
  BY DEF JobInv
<1>. QED  BY <1>1, JobInvariant, PTL
-----------------------------------------------------------------------------
(* The load of an instance *)

LEMMA InitLoadInv == Init => LoadInv
BY InitTypeOK, QueueAssumption
   DEF Init, LoadInv, PollsBounded, OvershootBounded

\* Worker w's counters move within the bound, the other workers' stay.
LEMMA LocalLoadInv ==
    ASSUME LoadInv, TypeOK', NEW w \in Workers,
           \A v \in Workers : v # w =>
               inFlight'[v] = inFlight[v] /\ polls'[v] = polls[v],
           polls'[w] <= MaxPolls,
           inFlight'[w] + polls'[w] <= Concurrency - 1 + MaxPolls
    PROVE  LoadInv'
BY DEF LoadInv, TypeOK, PollsBounded, OvershootBounded

LEMMA NextLoadInv == LoadInv /\ [Next]_vars => LoadInv'
<1>. SUFFICES ASSUME LoadInv, [Next]_vars
              PROVE  LoadInv'
  OBVIOUS
<1>0. TypeOK'
  BY NextTypeOK DEF LoadInv
<1>1. CASE UNCHANGED <<inFlight, polls>>
  BY <1>0, <1>1 DEF LoadInv, PollsBounded, OvershootBounded
<1>2. ASSUME NEW w \in Workers, BeginPoll(w)
      PROVE  LoadInv'
  <2>1. inFlight[w] \in Int /\ polls[w] \in Int
    BY DEF LoadInv, TypeOK
  <2>2. inFlight[w] < Concurrency /\ polls[w] < MaxPolls
    BY <1>2 DEF BeginPoll, HasRoom
  <2>3. inFlight'[w] = inFlight[w] /\ polls'[w] = polls[w] + 1
    BY <1>2 DEF BeginPoll, LoadInv, TypeOK
  <2>4. \A v \in Workers : v # w =>
          inFlight'[v] = inFlight[v] /\ polls'[v] = polls[v]
    BY <1>2 DEF BeginPoll, LoadInv, TypeOK
  <2>. QED
    BY <1>0, <2>1, <2>2, <2>3, <2>4, QueueAssumption, LocalLoadInv
<1>3. ASSUME NEW w \in Workers, ClaimNothing(w)
      PROVE  LoadInv'
  <2>1. /\ inFlight[w] \in Int /\ polls[w] \in Int /\ polls[w] <= MaxPolls
        /\ inFlight[w] + polls[w] <= Concurrency - 1 + MaxPolls
    BY DEF LoadInv, TypeOK, PollsBounded, OvershootBounded
  <2>2. inFlight'[w] = inFlight[w] /\ polls'[w] = polls[w] - 1
    BY <1>3 DEF ClaimNothing, LoadInv, TypeOK
  <2>3. \A v \in Workers : v # w =>
          inFlight'[v] = inFlight[v] /\ polls'[v] = polls[v]
    BY <1>3 DEF ClaimNothing, LoadInv, TypeOK
  <2>. QED
    BY <1>0, <2>1, <2>2, <2>3, QueueAssumption, LocalLoadInv
<1>4. ASSUME NEW w \in Workers, NEW j \in Jobs, StartProcess(w, j)
      PROVE  LoadInv'
  <2>1. /\ inFlight[w] \in Int /\ polls[w] \in Int /\ polls[w] <= MaxPolls
        /\ inFlight[w] + polls[w] <= Concurrency - 1 + MaxPolls
    BY DEF LoadInv, TypeOK, PollsBounded, OvershootBounded
  <2>2. inFlight'[w] = inFlight[w] + 1
    BY <1>4 DEF StartProcess, LoadInv, TypeOK
  <2>3. \A v \in Workers : v # w =>
          inFlight'[v] = inFlight[v] /\ polls'[v] = polls[v]
    BY <1>4 DEF StartProcess, LoadInv, TypeOK
  <2>4. CASE HasRoom(w, inFlight[w] + 1)
    <3>1. polls'[w] = polls[w] /\ inFlight[w] + 1 < Concurrency
      BY <1>4, <2>4 DEF StartProcess, HasRoom, LoadInv, TypeOK
    <3>. QED
      BY <1>0, <2>1, <2>2, <2>3, <3>1, QueueAssumption, LocalLoadInv
  <2>5. CASE ~HasRoom(w, inFlight[w] + 1)
    <3>1. polls'[w] = polls[w] - 1
      BY <1>4, <2>5 DEF StartProcess, LoadInv, TypeOK
    <3>. QED
      BY <1>0, <2>1, <2>2, <2>3, <3>1, QueueAssumption, LocalLoadInv
  <2>. QED  BY <2>4, <2>5
<1>5. ASSUME NEW w \in Workers, NEW j \in Jobs, Leave(w, j)
      PROVE  LoadInv'
  <2>1. /\ inFlight[w] \in Int /\ polls[w] \in Int /\ polls[w] <= MaxPolls
        /\ inFlight[w] + polls[w] <= Concurrency - 1 + MaxPolls
    BY DEF LoadInv, TypeOK, PollsBounded, OvershootBounded
  <2>2. inFlight'[w] = inFlight[w] - 1 /\ polls'[w] = polls[w]
    BY <1>5 DEF Leave, LoadInv, TypeOK
  <2>3. \A v \in Workers : v # w =>
          inFlight'[v] = inFlight[v] /\ polls'[v] = polls[v]
    BY <1>5 DEF Leave, LoadInv, TypeOK
  <2>. QED
    BY <1>0, <2>1, <2>2, <2>3, QueueAssumption, LocalLoadInv
<1>6. ASSUME NEW w \in Workers, GoDown(w)
      PROVE  LoadInv'
  <2>1. inFlight'[w] = 0 /\ polls'[w] = 0
    BY <1>6 DEF GoDown, LoadInv, TypeOK
  <2>2. \A v \in Workers : v # w =>
          inFlight'[v] = inFlight[v] /\ polls'[v] = polls[v]
    BY <1>6 DEF GoDown, LoadInv, TypeOK
  <2>. QED
    BY <1>0, <2>1, <2>2, QueueAssumption, LocalLoadInv
<1>7. \A w \in Workers, j \in Jobs :
        Complete(w, j) => Leave(w, j) \/ UNCHANGED <<inFlight, polls>>
  BY DEF Complete, workerVars
<1>. QED
  BY <1>1, <1>2, <1>3, <1>4, <1>5, <1>6, <1>7
     DEF Next, Process, vars, Enqueue, BecomeDue, Claim, HandlerEnds, Retry,
         Stop, Exit, Crash, Restart, workerVars

\* Overlapping polls overshoot the configured concurrency by less than their
\* number.
THEOREM Overshoot == Spec => []OvershootBounded
<1>1. LoadInv => OvershootBounded
  BY DEF LoadInv
<1>. QED  BY <1>1, InitLoadInv, NextLoadInv, PTL DEF Spec

-----------------------------------------------------------------------------
(* Refinement of the promise *)

LEMMA InitRefines == Init => Abstract!Init
BY DEF Init, Abstract!Init, AbstractState, AbstractOf

\* A change of one job's status is a change of its abstract state.
LEMMA StatusMaps ==
    ASSUME TypeOK, NEW j \in Jobs, NEW s,
           status' = [status EXCEPT ![j] = s]
    PROVE  AbstractState' = [AbstractState EXCEPT ![j] = AbstractOf(s)]
<1>1. \A i \in Jobs : status'[i] = IF i = j THEN s ELSE status[i]
  BY DEF TypeOK
<1>2. AbstractState' = [i \in Jobs |-> AbstractOf(status'[i])]
  BY DEF AbstractState
<1>3. \A i \in Jobs :
        AbstractOf(status'[i]) = IF i = j THEN AbstractOf(s) ELSE AbstractState[i]
  BY <1>1 DEF AbstractState
<1>4. AbstractState' =
        [i \in Jobs |-> IF i = j THEN AbstractOf(s) ELSE AbstractState[i]]
  BY <1>2, <1>3
<1>5. AbstractState = [i \in Jobs |-> AbstractState[i]]
  BY DEF AbstractState
<1>. QED  BY <1>4, <1>5

LEMMA StepRefines ==
    JobInv /\ [Next]_vars => [Abstract!Next]_(Abstract!queueVars)
<1>. SUFFICES ASSUME JobInv, [Next]_vars
              PROVE  [Abstract!Next]_(Abstract!queueVars)
  OBVIOUS
<1>. USE DEF AbstractOf
<1>0. TypeOK
  BY DEF JobInv
<1>1. CASE UNCHANGED <<status, attempts>>
  BY <1>1 DEF AbstractState, Abstract!queueVars
<1>2. ASSUME NEW j \in Jobs, Enqueue(j)
      PROVE  Abstract!Next
  <2>1. AbstractState[j] = "absent" /\ UNCHANGED attempts
    BY <1>2 DEF Enqueue, AbstractState
  <2>2. AbstractState' = [AbstractState EXCEPT ![j] = "waiting"]
    BY <1>0, <1>2, StatusMaps DEF Enqueue
  <2>. QED  BY <2>1, <2>2 DEF Abstract!Next, Abstract!Enqueue
<1>3. ASSUME NEW w \in Workers, NEW j \in Jobs, Claim(w, j)
      PROVE  Abstract!Next
  <2>1. status[j] = "PENDING" /\ attempts[j] < MaxAttempts
    BY <1>3 DEF Claim, Claimable, JobInv, HonestOutcome
  <2>2. AbstractState[j] = "waiting"
    BY <2>1 DEF AbstractState
  <2>3. AbstractState' = [AbstractState EXCEPT ![j] = "delivered"]
    BY <1>0, <1>3, StatusMaps DEF Claim
  <2>4. attempts' = [attempts EXCEPT ![j] = @ + 1]
    BY <1>3 DEF Claim
  <2>. QED
    BY <2>1, <2>2, <2>3, <2>4 DEF Abstract!Next, Abstract!Serve, Abstract!Deliver
<1>4. ASSUME NEW w \in Workers, NEW j \in Jobs, Complete(w, j),
             ~UNCHANGED <<status, attempts>>
      PROVE  Abstract!Next
  <2>1. status[j] = "PROCESSING"
    BY <1>4 DEF Complete, JobInv, OneExecution, Busy
  <2>2. AbstractState[j] = "delivered" /\ UNCHANGED attempts
    BY <1>4, <2>1 DEF Complete, AbstractState, jobVars
  <2>3. status' = [status EXCEPT ![j] = "COMPLETED"]
    BY <1>4 DEF Complete, jobVars
  <2>4. AbstractState' = [AbstractState EXCEPT ![j] = "done"]
    BY <1>0, <2>3, StatusMaps
  <2>. QED
    BY <2>2, <2>4 DEF Abstract!Next, Abstract!Serve, Abstract!Finish
<1>5. ASSUME NEW w \in Workers, NEW j \in Jobs, Retry(w, j),
             ~UNCHANGED <<status, attempts>>
      PROVE  Abstract!Next
  <2>1. status[j] = "PROCESSING"
    BY <1>5 DEF Retry, JobInv, OneExecution, Busy
  <2>2. AbstractState[j] = "delivered" /\ UNCHANGED attempts
    BY <1>5, <2>1 DEF Retry, AbstractState, jobVars
  <2>3. status' = [status EXCEPT ![j] = IF Exhausted(j) THEN "DEAD" ELSE "PENDING"]
    BY <1>5 DEF Retry, jobVars
  <2>4. attempts[j] \in Nat
    BY <1>0 DEF TypeOK
  <2>5. CASE Exhausted(j)
    <3>1. AbstractState' = [AbstractState EXCEPT ![j] = "dead"]
      BY <1>0, <2>3, <2>5, StatusMaps
    <3>2. ~(attempts[j] < MaxAttempts)
      BY <2>4, <2>5, QueueAssumption DEF Exhausted
    <3>. QED
      BY <2>2, <3>1, <3>2 DEF Abstract!Next, Abstract!Serve, Abstract!Fail
  <2>6. CASE ~Exhausted(j)
    <3>1. AbstractState' = [AbstractState EXCEPT ![j] = "waiting"]
      BY <1>0, <2>3, <2>6, StatusMaps
    <3>2. attempts[j] < MaxAttempts
      BY <2>4, <2>6, QueueAssumption DEF Exhausted
    <3>. QED
      BY <2>2, <3>1, <3>2 DEF Abstract!Next, Abstract!Serve, Abstract!Fail
  <2>. QED  BY <2>5, <2>6
<1>. QED
  BY <1>1, <1>2, <1>3, <1>4, <1>5
     DEF Next, Process, vars, BecomeDue, BeginPoll, ClaimNothing, StartProcess,
         HandlerEnds, Stop, Exit, Crash, GoDown, Restart, jobVars

\* Under every failure the model has, the queue takes only steps its promise
\* allows: it can lose a job, it cannot invent, repeat or resurrect one.
THEOREM RefinesPromise == Spec => ImplementsQueueSafety
BY InitRefines, StepRefines, JobInvariant, PTL
   DEF Spec, ImplementsQueueSafety, Abstract!Safety
=============================================================================
