------------------------------- MODULE Sms -------------------------------
(***************************************************************************)
(* One SMS from the request to its delivery reports: SmsService.send, the  *)
(* sms.send job, the cron that asks for delivery reports, and Beem's own   *)
(* reports (webhook-receiver.controller.ts).  Everything after the claim   *)
(* works on the message as it was read before, so jobs that are delivered  *)
(* again, the cron and the reports overlap here.                           *)
(***************************************************************************)
EXTENDS Naturals, Sequences, FiniteSets

CONSTANTS
  Recipients,
  Jobs,           \* handlers of sms.send that run at the same time
  Attempts,       \* deliveries of the job by the queue (5 by default)
  SyncBatch,      \* messages the cron takes, oldest first (25)
  AskLimit,       \* recipients it asks about, of each (20)
  HookStatuses,   \* what Beem may report of a recipient
  MaxAhead, MaxLost, MaxSilent,                             \* bounds
  MaxHooks, MaxAges, MaxErrors, MaxCrashes, MaxDuplicates

\* Beem's statuses are upper-cased before they are compared.
ASSUME SmsAssumption ==
  /\ IsFiniteSet(Recipients) /\ Attempts \in Nat /\ SyncBatch \in Nat /\ AskLimit \in Nat
  /\ "idle" \notin HookStatuses
  /\ {MaxAhead, MaxLost, MaxSilent, MaxHooks, MaxAges, MaxErrors, MaxCrashes,
       MaxDuplicates} \subseteq Nat

VARIABLES
  sms,        \* the row: status, recipients' statuses, providerRequestId (0: null)
  ahead,      \* other SENT messages that were sent earlier
  queue,      \* the job: enqueued or given up, due, deliveries left
  job,        \* handlers: where they are, the request id they were answered
  sync, hook, \* the cron's run; Beem's webhook request
  reports,    \* what the provider knows of the recipients, per accepted submission
  used

smsvars == <<sms, ahead, queue, job, sync, hook, reports, used>>

Unknown == "PENDING"
All(s) == [r \in Recipients |-> s]
Quiet == [at |-> "idle", status |-> "", recipients |-> All(Unknown), request |-> 0,
          left |-> {}, failed |-> FALSE]

\* Submissions the provider accepted; their numbers are the request ids.
accepted == Len(reports)

Init ==
  /\ sms = [status |-> "NONE", recipients |-> All(Unknown), request |-> 0]
  /\ ahead = 0
  /\ queue = [asked |-> FALSE, due |-> FALSE, left |-> Attempts]
  /\ job = [j \in Jobs |-> [at |-> "idle", request |-> 0]]
  /\ sync = Quiet /\ hook = Quiet
  /\ reports = <<>>
  /\ used = [hooks |-> 0, ages |-> 0, errors |-> 0, crashes |-> 0, duplicates |-> 0,
             lost |-> 0, silent |-> 0, failure |-> FALSE]

-----------------------------------------------------------------------------
(* The request: the row, then the job.  A pay-as-you-go bill comes between *)
(* the two.                                                                *)

Send ==
  /\ sms.status = "NONE" /\ sms' = [sms EXCEPT !.status = "QUEUED"]
  /\ UNCHANGED <<ahead, queue, job, sync, hook, reports, used>>

Enqueue ==
  /\ sms.status # "NONE" /\ ~queue.asked
  /\ queue' = [queue EXCEPT !.asked = TRUE, !.due = TRUE]
  /\ UNCHANGED <<sms, ahead, job, sync, hook, reports, used>>

\* The instance dies, or the bill fails: the row stays without a job.
LoseJob ==
  /\ sms.status # "NONE" /\ ~queue.asked /\ used.crashes < MaxCrashes
  /\ used' = [used EXCEPT !.crashes = @ + 1] /\ queue' = [queue EXCEPT !.asked = TRUE]
  /\ UNCHANGED <<sms, ahead, job, sync, hook, reports>>

\* The queue delivers at least once.
Redeliver ==
  /\ sms.status # "NONE" /\ queue.left < Attempts /\ used.duplicates < MaxDuplicates
  /\ used' = [used EXCEPT !.duplicates = @ + 1]
  /\ queue' = [queue EXCEPT !.due = TRUE, !.left = @ + 1]
  /\ UNCHANGED <<sms, ahead, job, sync, hook, reports>>

-----------------------------------------------------------------------------
(* processSendJob.                                                         *)

Goto(j, at) == job' = [job EXCEPT ![j].at = at]

\* The queue hands the job out; first the handler recovers claims that have
\* not been touched for 10 minutes, of any message.
Recover(j) ==
  /\ job[j].at = "idle" /\ queue.due /\ queue.left > 0
  /\ queue' = [queue EXCEPT !.due = FALSE, !.left = @ - 1] /\ Goto(j, "read")
  /\ UNCHANGED <<sms, ahead, sync, hook, reports, used>>

\* The job of another message does the same.
RecoverStale ==
  /\ sms.status = "PROCESSING" /\ used.ages < MaxAges
  /\ used' = [used EXCEPT !.ages = @ + 1]
  /\ sms' = [sms EXCEPT !.status = "QUEUED"]
  /\ UNCHANGED <<ahead, queue, job, sync, hook, reports>>

ReadSms(j) ==
  /\ job[j].at = "read"
  /\ Goto(j, IF sms.status \in {"SENT", "DELIVERED"} THEN "idle" ELSE "claim")
  /\ UNCHANGED <<sms, ahead, queue, sync, hook, reports, used>>

Claimable_open == sms.status \in {"QUEUED", "FAILED", "PROCESSING"}

\* "atomically move the message out of QUEUED/FAILED"
Claimable == sms.status \in {"QUEUED", "FAILED"}

Claim(j) ==
  /\ job[j].at = "claim"
  /\ IF Claimable THEN sms' = [sms EXCEPT !.status = "PROCESSING"] /\ Goto(j, "call")
                  ELSE UNCHANGED sms /\ Goto(j, "idle")
  /\ UNCHANGED <<ahead, queue, sync, hook, reports, used>>

\* The provider accepts or refuses; or it accepts, and the client hears of an
\* error (a timeout, a transport error) or gets an empty answer.
Answers == {"sent", "failed", "lost", "empty"}

CallProvider(j, answer) ==
  /\ job[j].at = "call"
  /\ reports' = IF answer = "failed" THEN reports ELSE Append(reports, All(Unknown))
  /\ job' = [job EXCEPT ![j] = IF answer = "sent"
                                 THEN [at |-> "sent", request |-> accepted + 1]
                                 ELSE [at |-> IF answer = "empty" THEN "empty" ELSE "failed",
                                       request |-> 0]]
  /\ IF answer \in {"lost", "empty"}
     THEN used.lost < MaxLost /\ used' = [used EXCEPT !.lost = @ + 1]
     ELSE UNCHANGED used
  /\ UNCHANGED <<sms, ahead, queue, sync, hook>>

DbFails == used.errors < MaxErrors /\ used' = [used EXCEPT !.errors = @ + 1]

\* The outcome of an accepted send; the first fallback leaves the recipients,
\* the second leaves the claim.  Then the merchant is told.
WriteSent(j) ==
  /\ job[j].at = "sent"
  /\ \/ /\ sms' = [status |-> "SENT", recipients |-> All("SUBMITTED"), request |-> job[j].request]
        /\ UNCHANGED used
     \/ DbFails /\ sms' = [sms EXCEPT !.status = "SENT", !.request = job[j].request]
     \/ DbFails /\ UNCHANGED sms
  /\ job' = [job EXCEPT ![j] = [at |-> "tell", request |-> 0]]
  /\ UNCHANGED <<ahead, queue, sync, hook, reports>>

Throw(j) == queue' = [queue EXCEPT !.due = TRUE] /\ Goto(j, "idle")

\* What the handler does when the provider accepted but telling failed.
TellMerchant(j) ==
  /\ job[j].at = "tell"
  /\ \/ Goto(j, "idle") /\ UNCHANGED <<queue, used>>
     \/ DbFails /\ Throw(j)
  /\ UNCHANGED <<sms, ahead, sync, hook, reports>>

WriteFailed_quiet(j) ==
  /\ job[j].at \in {"failed", "empty"} /\ UNCHANGED <<sms, used>> /\ Goto(j, "idle")
  /\ UNCHANGED <<ahead, queue, sync, hook, reports>>

\* "Provider did NOT accept - safe to let the queue retry."
WriteFailed(j) ==
  /\ job[j].at \in {"failed", "empty"}
  /\ \/ /\ sms' = [sms EXCEPT !.status = "FAILED", !.recipients =
                       All(IF job[j].at = "empty" THEN "SUBMITTED" ELSE "FAILED")]
        /\ UNCHANGED used
     \/ DbFails /\ UNCHANGED sms
  /\ Throw(j)
  /\ UNCHANGED <<ahead, sync, hook, reports>>

Crash(j) ==
  /\ job[j].at # "idle" /\ used.crashes < MaxCrashes
  /\ used' = [used EXCEPT !.crashes = @ + 1]
  /\ job' = [job EXCEPT ![j] = [at |-> "idle", request |-> 0]]
  /\ UNCHANGED <<sms, ahead, queue, sync, hook, reports>>

-----------------------------------------------------------------------------
(* Delivery reports.                                                       *)

\* The handset or the network answers, about a submission somebody can hear
\* of; what is delivered stays delivered.
Report(r, s) ==
  /\ \E k \in DOMAIN reports \cap {sms.request, sync.request} :
       /\ reports[k][r] \notin {"DELIVERED", s}
       /\ reports' = [reports EXCEPT ![k][r] = s]
  /\ UNCHANGED <<sms, ahead, queue, job, sync, hook, used>>

\* Older messages leave the batch, or come back into it.
OthersMove ==
  /\ ahead' \in 0..MaxAhead /\ ahead' # ahead
  /\ UNCHANGED <<sms, queue, job, sync, hook, reports, used>>

Summary_any(recipients, failed, before) ==
  IF \E r \in Recipients : recipients[r] = "DELIVERED" THEN "DELIVERED"
  ELSE IF failed THEN "FAILED" ELSE before


\* The status both reporters give a message, from the row they read.
Summary(recipients, failed, before) ==
  IF \A r \in Recipients : recipients[r] = "DELIVERED" THEN "DELIVERED"
  ELSE IF failed THEN "FAILED" ELSE before

Undelivered == {r \in Recipients : sms.recipients[r] # "DELIVERED"}

\* syncDeliveryReports takes the oldest SENT messages ...
SyncRead ==
  /\ sync.at = "idle" /\ sms.status = "SENT" /\ sms.request > 0 /\ ahead < SyncBatch
  /\ \E asked \in SUBSET Undelivered :
       /\ Cardinality(asked) <= AskLimit
       /\ asked # Undelivered => Cardinality(asked) = AskLimit
       /\ sync' = [at |-> "ask", status |-> sms.status, recipients |-> sms.recipients,
                   request |-> sms.request, left |-> asked, failed |-> FALSE]
  /\ UNCHANGED <<sms, ahead, queue, job, hook, reports, used>>

\* ... asks the provider, one slow call per recipient: it says what it knows,
\* or the call fails and the recipient stays as it was ...
SyncAsk ==
  /\ sync.at = "ask"
  /\ \E r \in sync.left :
       LET s == reports[sync.request][r] IN
       \/ /\ sync' = [sync EXCEPT !.left = @ \ {r}, !.recipients[r] = s,
                                  !.failed = @ \/ s = "FAILED"]
          /\ used' = [used EXCEPT !.failure = @ \/ s = "FAILED"]
       \/ /\ used.silent < MaxSilent /\ used' = [used EXCEPT !.silent = @ + 1]
          /\ sync' = [sync EXCEPT !.left = @ \ {r}]
  /\ UNCHANGED <<sms, ahead, queue, job, hook, reports>>

\* ... and writes recipients and status over whatever the row says by now.
SyncWrite ==
  /\ sync.at = "ask" /\ sync.left = {}
  /\ \/ /\ sms' = [sms EXCEPT !.recipients = sync.recipients,
                              !.status = Summary(sync.recipients, sync.failed, sync.status)]
        /\ UNCHANGED used
     \/ DbFails /\ UNCHANGED sms
  /\ sync' = Quiet
  /\ UNCHANGED <<ahead, queue, job, hook, reports>>

\* Beem posts a report; the row is found once it knows the request id.
HookRead(r, s) ==
  /\ hook.at = "idle" /\ sms.request > 0 /\ used.hooks < MaxHooks
  /\ s = "DELIVERED" => reports[sms.request][r] = "DELIVERED"
  /\ used' = [used EXCEPT !.hooks = @ + 1, !.failure = @ \/ s = "FAILED"]
  /\ hook' = [Quiet EXCEPT !.at = s, !.status = sms.status,
                           !.recipients = [sms.recipients EXCEPT ![r] = s]]
  /\ UNCHANGED <<sms, ahead, queue, job, sync, reports>>

HookWrite ==
  /\ hook.at # "idle"
  /\ sms' = [sms EXCEPT !.recipients = hook.recipients,
                        !.status = Summary(hook.recipients, hook.at = "FAILED", hook.status)]
  /\ hook' = Quiet
  /\ UNCHANGED <<ahead, queue, job, sync, reports, used>>

SmsStep == Enqueue \/ SyncRead \/ SyncAsk \/ SyncWrite \/ HookWrite

JobStep(j) == \/ Recover(j) \/ ReadSms(j) \/ Claim(j)
              \/ \E answer \in Answers : CallProvider(j, answer)
              \/ WriteSent(j) \/ TellMerchant(j) \/ WriteFailed(j)

Next ==
  \/ Send \/ LoseJob \/ Redeliver \/ SmsStep \/ RecoverStale \/ OthersMove
  \/ \E j \in Jobs : JobStep(j) \/ Crash(j)
  \/ \E r \in Recipients, s \in HookStatuses : Report(r, s) \/ HookRead(r, s)

\* Started work goes on, and the cron keeps firing.  A message that others
\* push out of the batch again and again is not promised to be read.
Fairness == /\ WF_smsvars(Enqueue) /\ WF_smsvars(SyncRead)
            /\ WF_smsvars(SyncAsk \/ SyncWrite) /\ WF_smsvars(HookWrite)
            /\ \A j \in Jobs : WF_smsvars(JobStep(j))

Spec == Init /\ [][Next]_smsvars /\ Fairness

-----------------------------------------------------------------------------
(***************************************************************************)
(* "a redelivered or concurrent job can never submit it to the provider    *)
(* twice" (processSendJob): refuted, a claim given up as stale, a failure  *)
(* report and a lost answer make the message claimable again.              *)
(***************************************************************************)
SentOnce == accepted <= 1

(***************************************************************************)
(* What the claim does guarantee, over redeliveries, concurrent handlers,  *)
(* crashes, failing statements and rows written back late: the provider    *)
(* takes a message a second time only after a claim was given up as stale, *)
(* a recipient was reported FAILED, or the answer to a submission it had   *)
(* accepted was lost.                                                      *)
(***************************************************************************)
ResentForAReason == accepted > 1 => used.ages > 0 \/ used.failure \/ used.lost > 0

(***************************************************************************)
(* "status: DELIVERED" is said of a message only when every recipient was  *)
(* reported delivered, whoever wrote the row last.                         *)
(***************************************************************************)
DeliveredMeansAll ==
  sms.status = "DELIVERED" => \A r \in Recipients : sms.recipients[r] = "DELIVERED"

(***************************************************************************)
(* A message that the provider delivered to everybody becomes DELIVERED    *)
(* (cron or webhook) and stays so, unless older messages fill the cron's   *)
(* batch again and again.                                                  *)
(***************************************************************************)
DeliveredToAll == sms.request > 0 /\ \A r \in Recipients : reports[sms.request][r] = "DELIVERED"

DeliveryKnown ==
  DeliveredToAll ~> ([](sms.status = "DELIVERED") \/ []<>(ahead >= SyncBatch))

\* Without that exception it is refuted: the batch is not a queue.
DeliveryAlwaysKnown == DeliveredToAll ~> (sms.status = "DELIVERED")

(***************************************************************************)
(* A message that was taken in is sent or reported FAILED, whatever is     *)
(* delivered again, given up as stale or answered late.  Only a crash or a *)
(* failing statement leaves one behind, and only without a job: nobody     *)
(* works on it and the queue has nothing due.                              *)
(***************************************************************************)
Settled == sms.status \in {"SENT", "DELIVERED", "FAILED"}
Orphaned == /\ used.crashes > 0 \/ used.errors > 0
            /\ ~queue.due \/ queue.left = 0
            /\ \A j \in DOMAIN job : job[j].at = "idle"

MessageSettles == sms.status \in {"QUEUED", "PROCESSING"} ~> (Settled \/ Orphaned)

\* "Recover claims abandoned by a crashed/restarted process": refuted without
\* the exception, a recovered message has no job.
MessageRecovers == sms.status \in {"QUEUED", "PROCESSING"} ~> Settled

=============================================================================
