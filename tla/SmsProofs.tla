----------------------------- MODULE SmsProofs -----------------------------
(***************************************************************************)
(* The row of a message, for any number of recipients, handlers,           *)
(* deliveries of the job, reports, lost answers, crashes and failing       *)
(* statements.                                                             *)
(***************************************************************************)
EXTENDS Sms, SequenceTheorems, TLAPS

-----------------------------------------------------------------------------
(* The inductive invariant.                                                *)

JobStages == {"idle", "read", "claim", "call", "sent", "failed", "empty", "tell"}
Statuses == {"", "NONE", "QUEUED", "PROCESSING", "SENT", "DELIVERED", "FAILED"}
Heard == [Recipients -> {"PENDING", "SUBMITTED", "DELIVERED", "FAILED"} \cup HookStatuses]
Row == [status: Statuses, recipients: Heard, request: Nat]
Run == [at: {"idle", "ask"} \cup HookStatuses, status: Statuses, recipients: Heard,
        request: Nat, left: SUBSET Recipients, failed: BOOLEAN]
Queue == [asked: BOOLEAN, due: BOOLEAN, left: Nat]
Handlers == [Jobs -> [at: JobStages, request: Nat]]
Counters == [hooks: Nat, ages: Nat, errors: Nat, crashes: Nat, duplicates: Nat,
             lost: Nat, silent: Nat, failure: BOOLEAN]

\* Request ids are those of submissions the provider accepted.
Issued ==
  /\ sms.request <= accepted /\ \A j \in Jobs : job[j].request <= accepted
  /\ sync.at = "ask" => sync.request \in 1..accepted

SmsTypeOK ==
  /\ sms \in Row /\ queue \in Queue /\ job \in Handlers
  /\ sync \in Run /\ sync.at \in {"idle", "ask"}
  /\ hook \in Run /\ hook.at \in {"idle"} \cup HookStatuses
  /\ reports \in Seq(Heard) /\ used \in Counters
  /\ Issued

\* No claim was given up, no failure was reported, and no answer was lost.
Undisturbed == used.ages = 0 /\ ~used.failure /\ used.lost = 0

\* The statuses of a message that a handler works on or that is out.
Taken == {"PROCESSING", "SENT", "DELIVERED"}

\* The handlers between their claim and the outcome of the call.
AtProvider(j) == job[j].at \in {"call", "failed", "empty"}

\* What a handler about to call the provider relies on: it alone has the
\* claim, and nobody was accepted before.
ClaimIsAlone ==
  \A j \in Jobs : AtProvider(j) =>
    /\ sms.status = "PROCESSING" /\ accepted = 0
    /\ \A k \in Jobs : AtProvider(k) => k = j

\* An accepted message cannot be claimed, also after the two reporters have
\* written back the rows they read.
AcceptedIsTaken ==
  /\ accepted <= 1
  /\ accepted = 1 => sms.status \in Taken
  /\ \A j \in Jobs : job[j].at = "sent" => accepted = 1
  /\ sms.request > 0 => accepted = 1
  /\ sync.at = "ask" => accepted = 1 /\ sync.status = "SENT" /\ ~sync.failed
  /\ hook.at # "idle" => accepted = 1 /\ hook.at # "FAILED" /\ hook.status \in Taken

\* What the reporters read, as far as they rely on it.
ReadingsHonest ==
  /\ sync.at = "ask" => sync.status = "SENT"
  /\ hook.at = "DELIVERED" /\ hook.status = "DELIVERED" =>
       \A r \in Recipients : hook.recipients[r] = "DELIVERED"

OnceInv == Undisturbed => ClaimIsAlone /\ AcceptedIsTaken

SmsInv == SmsTypeOK /\ OnceInv
HonestInv == ReadingsHonest /\ DeliveredMeansAll

-----------------------------------------------------------------------------
(* Types.                                                                  *)

\* A bound is used up by one.
LEMMA Counted ==
  ASSUME NEW u \in Counters, NEW b \in BOOLEAN
  PROVE  /\ [u EXCEPT !.hooks = @ + 1, !.failure = b] \in Counters
         /\ [u EXCEPT !.failure = b] \in Counters
         /\ [u EXCEPT !.ages = @ + 1] \in Counters /\ [u EXCEPT !.errors = @ + 1] \in Counters
         /\ [u EXCEPT !.crashes = @ + 1] \in Counters /\ [u EXCEPT !.lost = @ + 1] \in Counters
         /\ [u EXCEPT !.silent = @ + 1] \in Counters
         /\ [u EXCEPT !.duplicates = @ + 1] \in Counters
<1>1. ASSUME NEW n \in Nat PROVE [u EXCEPT !.hooks = n, !.failure = b] \in Counters
  BY DEF Counters
<1>2. [u EXCEPT !.failure = b] \in Counters /\ u.hooks + 1 \in Nat
  BY DEF Counters
<1>3. [u EXCEPT !.ages = @ + 1] \in Counters /\ [u EXCEPT !.errors = @ + 1] \in Counters
  BY DEF Counters
<1>4. [u EXCEPT !.crashes = @ + 1] \in Counters /\ [u EXCEPT !.lost = @ + 1] \in Counters
  BY DEF Counters
<1>5. [u EXCEPT !.silent = @ + 1] \in Counters /\ [u EXCEPT !.duplicates = @ + 1] \in Counters
  BY DEF Counters
<1>. QED
  BY <1>1, <1>2, <1>3, <1>4, <1>5

\* Statements that write a row, and a handler's steps.
LEMMA Written ==
  ASSUME SmsTypeOK
  PROVE  /\ \A st \in Statuses : [sms EXCEPT !.status = st] \in Row
         /\ \A j \in Jobs, at \in JobStages : [job EXCEPT ![j].at = at] \in Handlers
         /\ All("PENDING") \in Heard /\ All("SUBMITTED") \in Heard /\ All("FAILED") \in Heard
         /\ accepted \in Nat
<1>1. \A st \in Statuses : [sms EXCEPT !.status = st] \in Row
  BY DEF SmsTypeOK, Row
<1>2. ASSUME NEW j \in Jobs, NEW at \in JobStages PROVE [job EXCEPT ![j].at = at] \in Handlers
  BY DEF SmsTypeOK, Handlers
<1>3. All("PENDING") \in Heard /\ All("SUBMITTED") \in Heard /\ All("FAILED") \in Heard
  BY DEF All, Heard
<1>. QED
  BY <1>1, <1>2, <1>3 DEF accepted, SmsTypeOK

\* Deliveries of the job.
LEMMA Queued ==
  ASSUME SmsTypeOK, NEW b \in BOOLEAN, NEW n \in Nat
  PROVE  [queue EXCEPT !.due = b, !.left = n] \in Queue /\ queue.left \in Nat
BY DEF SmsTypeOK, Queue

\* Steps that move one handler and keep the request ids.
LEMMA StillIssued ==
  ASSUME SmsTypeOK, NEW j \in Jobs, NEW at \in JobStages, Goto(j, at),
         sms'.request = sms.request, UNCHANGED <<sync, reports>>
  PROVE  Issued' /\ job' \in Handlers
<1>1. job' \in Handlers /\ \A k \in Jobs : job'[k].request = job[k].request
  BY DEF Goto, SmsTypeOK, Handlers
<1>. QED
  BY <1>1 DEF Issued, accepted, SmsTypeOK

LEMMA Typing == Spec => []SmsTypeOK
<1>. USE SmsAssumption
<1>1. ASSUME Init PROVE SmsTypeOK
  <2>1. All("PENDING") \in Heard
    BY DEF All, Heard
  <2>2. Quiet \in Run
    BY <2>1 DEF Quiet, Run, Statuses, Unknown
  <2>3. sms \in Row
    BY <1>1, <2>1 DEF Init, Row, Statuses, Unknown
  <2>8. reports = <<>>
    BY <1>1 DEF Init
  <2>9. reports \in Seq(Heard) /\ accepted = 0
    BY <2>8, EmptySeq DEF accepted
  <2>4. job \in Handlers /\ queue \in Queue
    BY <1>1 DEF Init, JobStages, Handlers, Queue
  <2>5. used \in Counters
    BY <1>1 DEF Init, Counters
  <2>6. sync \in Run /\ sync.at = "idle" /\ hook \in Run /\ hook.at = "idle"
    BY <1>1, <2>2 DEF Init, Quiet
  <2>7. Issued
    BY <1>1, <2>6, <2>9 DEF Init, Issued
  <2>. QED
    BY <2>3, <2>4, <2>5, <2>6, <2>7, <2>9 DEF SmsTypeOK
<1>2. SmsTypeOK /\ [Next]_smsvars => SmsTypeOK'
  <2>. SUFFICES ASSUME SmsTypeOK, [Next]_smsvars PROVE SmsTypeOK'
    OBVIOUS
  <2>. USE DEF SmsTypeOK
  <2>0. /\ {"QUEUED", "PROCESSING", "SENT", "DELIVERED", "FAILED"} \subseteq Statuses
        /\ {"idle", "read", "claim", "call", "sent", "failed", "empty", "tell"} \subseteq JobStages
    BY DEF Statuses, JobStages
  \* Nothing is submitted, and neither the handlers nor the cron move.
  <2>a. ASSUME UNCHANGED <<job, sync, reports>>, sms'.request = sms.request PROVE Issued'
    BY <2>a DEF Issued, accepted
  <2>1. CASE UNCHANGED smsvars
    BY <2>1, <2>a DEF smsvars
  <2>2. CASE Send
    <3>1. sms' \in Row /\ sms'.request = sms.request
      BY <2>0, <2>2, Written DEF Send, Row
    <3>. QED
      BY <2>2, <2>a, <3>1 DEF Send
  <2>3. CASE Redeliver
    <3>1. queue' = [queue EXCEPT !.due = TRUE, !.left = queue.left + 1]
      BY <2>3 DEF Redeliver
    <3>3. queue.left + 1 \in Nat
      BY DEF Queue
    <3>2. queue' \in Queue
      BY <3>1, <3>3, Queued
    <3>. QED
      BY <2>3, <2>a, <3>2, Counted DEF Redeliver
  <2>4. CASE Enqueue \/ LoseJob \/ OthersMove
    <3>1. queue' \in Queue
      BY <2>4 DEF Enqueue, LoseJob, OthersMove, Queue
    <3>2. used' \in Counters
      BY <2>4, Counted DEF Enqueue, LoseJob, OthersMove
    <3>3. UNCHANGED <<sms, job, sync, hook, reports>>
      BY <2>4 DEF Enqueue, LoseJob, OthersMove
    <3>. QED
      BY <2>a, <3>1, <3>2, <3>3
  <2>5. CASE SyncRead
    <3>1. PICK asked \in SUBSET Undelivered :
             sync' = [at |-> "ask", status |-> sms.status, recipients |-> sms.recipients,
                      request |-> sms.request, left |-> asked, failed |-> FALSE]
      BY <2>5 DEF SyncRead
    <3>2. sync' \in Run /\ sync'.at = "ask"
      BY <3>1 DEF Row, Run, Undelivered
    <3>3. Issued'
      BY <2>5, <3>1 DEF SyncRead, Issued, accepted, Row
    <3>. QED
      BY <2>5, <3>2, <3>3 DEF SyncRead
  <2>6. CASE SyncAsk
    <3>1. PICK r \in sync.left :
             LET s == reports[sync.request][r] IN
             \/ /\ sync' = [sync EXCEPT !.left = @ \ {r}, !.recipients[r] = s,
                                        !.failed = @ \/ s = "FAILED"]
                /\ used' = [used EXCEPT !.failure = @ \/ s = "FAILED"]
             \/ /\ used' = [used EXCEPT !.silent = @ + 1]
                /\ sync' = [sync EXCEPT !.left = @ \ {r}]
      BY <2>6 DEF SyncAsk
    <3>2. r \in Recipients /\ reports[sync.request] \in Heard
      BY <2>6, <3>1 DEF SyncAsk, Run, Issued, accepted
    <3>3. [sync.recipients EXCEPT ![r] = reports[sync.request][r]] \in Heard
      BY <3>2 DEF Run, Heard
    <3>7. ASSUME NEW f \in BOOLEAN, NEW h \in Heard
          PROVE  LET new == [sync EXCEPT !.left = @ \ {r}, !.failed = f, !.recipients = h]
                 IN  new \in Run /\ new.at = sync.at /\ new.request = sync.request
      BY DEF Run
    <3>8. LET new == [sync EXCEPT !.left = @ \ {r}]
          IN  new \in Run /\ new.at = sync.at /\ new.request = sync.request
      BY DEF Run
    <3>4. sync' \in Run /\ sync'.at = sync.at /\ sync'.request = sync.request
      <4>1. CASE sync' = [sync EXCEPT !.left = @ \ {r}]
        BY <3>8, <4>1
      <4>2. ASSUME NEW f \in BOOLEAN,
                   sync' = [sync EXCEPT !.left = @ \ {r}, !.failed = f,
                                        !.recipients[r] = reports[sync.request][r]]
            PROVE  sync' \in Run /\ sync'.at = sync.at /\ sync'.request = sync.request
        BY <3>3, <3>7, <4>2
      <4>. QED
        BY <3>1, <4>1, <4>2
    <3>5. used' \in Counters
      BY <3>1, Counted
    <3>6. Issued'
      BY <2>6, <3>4 DEF SyncAsk, Issued, accepted
    <3>. QED
      BY <2>6, <3>4, <3>5, <3>6 DEF SyncAsk
  <2>7. CASE SyncWrite
    <3>1. Quiet \in Run /\ Quiet.at = "idle"
      BY Written DEF Quiet, Run, Statuses, Unknown
    <3>2. Summary(sync.recipients, sync.failed, sync.status) \in Statuses
      BY <2>0 DEF Summary, Run
    <3>3. sms' \in Row /\ sms'.request = sms.request
      BY <2>7, <3>2 DEF SyncWrite, Row, Run
    <3>4. used' \in Counters
      BY <2>7, Counted DEF SyncWrite, DbFails
    <3>5. Issued'
      BY <2>7, <3>1, <3>3 DEF SyncWrite, Issued, accepted
    <3>. QED
      BY <2>7, <3>1, <3>3, <3>4, <3>5 DEF SyncWrite
  <2>8. CASE HookWrite
    <3>1. Quiet \in Run /\ Quiet.at = "idle"
      BY Written DEF Quiet, Run, Statuses, Unknown
    <3>2. Summary(hook.recipients, hook.at = "FAILED", hook.status) \in Statuses
      BY <2>0 DEF Summary, Run
    <3>3. sms' \in Row /\ sms'.request = sms.request
      BY <2>8, <3>2 DEF HookWrite, Row, Run
    <3>. QED
      BY <2>8, <2>a, <3>1, <3>3 DEF HookWrite
  <2>9. CASE RecoverStale
    <3>1. sms' \in Row /\ sms'.request = sms.request
      BY <2>0, <2>9, Written DEF RecoverStale, Row
    <3>. QED
      BY <2>9, <2>a, <3>1, Counted DEF RecoverStale
  <2>10. ASSUME NEW j \in Jobs, Recover(j) PROVE SmsTypeOK'
    <3>1. /\ queue' = [queue EXCEPT !.due = FALSE, !.left = queue.left - 1] /\ queue.left > 0
          /\ Goto(j, "read") /\ UNCHANGED <<sms, sync, hook, reports, used>>
      BY <2>10 DEF Recover
    <3>2. queue.left - 1 \in Nat
      BY <3>1 DEF Queue
    <3>3. queue' \in Queue
      BY <3>1, <3>2, Queued
    <3>. QED
      BY <2>0, <3>1, <3>3, StillIssued
  <2>11. ASSUME NEW j \in Jobs, ReadSms(j) PROVE SmsTypeOK'
    <3>1. PICK at \in JobStages : Goto(j, at)
      BY <2>0, <2>11 DEF ReadSms
    <3>. QED
      BY <2>11, <3>1, StillIssued DEF ReadSms
  <2>12. ASSUME NEW j \in Jobs, Claim(j) PROVE SmsTypeOK'
    <3>1. PICK at \in JobStages : Goto(j, at)
      BY <2>0, <2>12 DEF Claim
    <3>2. sms' \in Row /\ sms'.request = sms.request
      BY <2>0, <2>12, Written DEF Claim, Row
    <3>. QED
      BY <2>12, <3>1, <3>2, StillIssued DEF Claim
  <2>13. ASSUME NEW j \in Jobs, NEW answer \in Answers, CallProvider(j, answer) PROVE SmsTypeOK'
    <3>1. reports' \in Seq(Heard) /\ accepted' \in {accepted, accepted + 1}
      BY <2>13, Written, AppendProperties DEF CallProvider, accepted, Unknown
    <3>2. answer = "sent" => accepted' = accepted + 1
      BY <2>13, Written, AppendProperties DEF CallProvider, accepted, Unknown
    <3>3. job' \in Handlers
      BY <2>0, <2>13, Written DEF CallProvider, Handlers
    <3>4. /\ \A k \in Jobs : k # j => job'[k].request = job[k].request
          /\ job'[j].request = IF answer = "sent" THEN accepted + 1 ELSE 0
      BY <2>13 DEF CallProvider, Handlers
    <3>8. accepted \in Nat /\ accepted <= accepted' /\ accepted' \in Nat
      BY <3>1, Written
    <3>9. ASSUME NEW k \in Jobs PROVE job'[k].request <= accepted'
      BY <3>2, <3>4, <3>8 DEF Issued, Handlers
    <3>10. sms.request <= accepted' /\ (sync.at = "ask" => sync.request \in 1..accepted')
      BY <3>8 DEF Issued, Row, Run
    <3>7. Issued'
      BY <2>13, <3>9, <3>10 DEF CallProvider, Issued
    <3>6. used' \in Counters
      BY <2>13, Counted DEF CallProvider
    <3>. QED
      BY <2>13, <3>1, <3>3, <3>6, <3>7 DEF CallProvider
  <2>14. ASSUME NEW j \in Jobs, WriteSent(j) PROVE SmsTypeOK'
    <3>1. used' \in Counters
      BY <2>14, Counted DEF WriteSent, DbFails
    <3>2. job[j].request \in Nat /\ job[j].request <= accepted /\ sms.request <= accepted
      BY DEF Handlers, Issued
    <3>3. LET new == [sms EXCEPT !.status = "SENT", !.request = job[j].request]
          IN  new \in Row /\ new.request = job[j].request
      BY <2>0, <3>2 DEF Row
    <3>4. [status |-> "SENT", recipients |-> All("SUBMITTED"), request |-> job[j].request] \in Row
      BY <2>0, <3>2, Written DEF Row
    <3>8. \/ sms' = [status |-> "SENT", recipients |-> All("SUBMITTED"), request |-> job[j].request]
          \/ sms' = [sms EXCEPT !.status = "SENT", !.request = job[j].request]
          \/ UNCHANGED sms
      BY <2>14 DEF WriteSent
    <3>5. sms' \in Row /\ sms'.request <= accepted
      <4>1. CASE sms' = [status |-> "SENT", recipients |-> All("SUBMITTED"), request |-> job[j].request]
        BY <3>2, <3>4, <4>1
      <4>2. CASE sms' = [sms EXCEPT !.status = "SENT", !.request = job[j].request]
        BY <3>2, <3>3, <4>2
      <4>3. CASE UNCHANGED sms
        BY <3>2, <4>3
      <4>. QED
        BY <3>8, <4>1, <4>2, <4>3
    <3>6. job' \in Handlers /\ \A k \in Jobs : job'[k].request \in {0, job[k].request}
      BY <2>0, <2>14 DEF WriteSent, Handlers
    <3>7. Issued'
      BY <2>14, <3>5, <3>6, Written DEF WriteSent, Issued, accepted
    <3>. QED
      BY <2>14, <3>1, <3>5, <3>6, <3>7 DEF WriteSent
  <2>15. ASSUME NEW j \in Jobs, TellMerchant(j) PROVE SmsTypeOK'
    <3>1. used' \in Counters
      BY <2>15, Counted DEF TellMerchant, DbFails
    <3>2. queue' \in Queue /\ Goto(j, "idle")
      BY <2>15 DEF TellMerchant, Throw, Queue
    <3>. QED
      BY <2>0, <2>15, <3>1, <3>2, StillIssued DEF TellMerchant
  <2>16. ASSUME NEW j \in Jobs, WriteFailed(j) PROVE SmsTypeOK'
    <3>1. used' \in Counters
      BY <2>16, Counted DEF WriteFailed, DbFails
    <3>2. \A s \in {"SUBMITTED", "FAILED"} :
            LET new == [sms EXCEPT !.status = "FAILED", !.recipients = All(s)]
            IN  new \in Row /\ new.request = sms.request
      BY <2>0, Written DEF Row
    <3>3. sms' \in Row /\ sms'.request = sms.request
      BY <2>16, <3>2 DEF WriteFailed
    <3>4. queue' \in Queue /\ Goto(j, "idle")
      BY <2>16 DEF WriteFailed, Throw, Queue
    <3>. QED
      BY <2>0, <2>16, <3>1, <3>3, <3>4, StillIssued DEF WriteFailed
  <2>17. ASSUME NEW j \in Jobs, Crash(j) PROVE SmsTypeOK'
    <3>1. job' \in Handlers /\ \A k \in Jobs : job'[k].request \in {0, job[k].request}
      BY <2>0, <2>17 DEF Crash, Handlers
    <3>2. Issued'
      BY <2>17, <3>1, Written DEF Crash, Issued, accepted
    <3>. QED
      BY <2>17, <3>1, <3>2, Counted DEF Crash
  <2>18. ASSUME NEW r \in Recipients, NEW s \in HookStatuses, Report(r, s) PROVE SmsTypeOK'
    <3>1. PICK k \in DOMAIN reports : reports' = [reports EXCEPT ![k][r] = s]
      BY <2>18 DEF Report
    <3>2. [reports[k] EXCEPT ![r] = s] \in Heard
      BY <3>1 DEF Heard
    <3>3. reports' \in Seq(Heard) /\ accepted' = accepted
      BY <3>1, <3>2, ExceptSeq DEF accepted
    <3>4. Issued'
      BY <2>18, <3>3 DEF Report, Issued
    <3>. QED
      BY <2>18, <3>3, <3>4 DEF Report
  <2>19. ASSUME NEW r \in Recipients, NEW s \in HookStatuses, HookRead(r, s) PROVE SmsTypeOK'
    <3>1. [sms.recipients EXCEPT ![r] = s] \in Heard /\ Quiet \in Run
      BY Written DEF Row, Heard, Quiet, Run, Statuses, Unknown
    <3>2. hook' \in Run /\ hook'.at = s
      BY <2>19, <3>1 DEF HookRead, Row, Run
    <3>3. used' \in Counters
      BY <2>19, Counted DEF HookRead
    <3>. QED
      BY <2>19, <2>a, <3>2, <3>3 DEF HookRead
  <2>. QED
    BY <2>1, <2>2, <2>3, <2>4, <2>5, <2>6, <2>7, <2>8, <2>9, <2>10, <2>11, <2>12,
       <2>13, <2>14, <2>15, <2>16, <2>17, <2>18, <2>19 DEF Next, SmsStep, JobStep
<1>. QED
  BY <1>1, <1>2, PTL DEF Spec
-----------------------------------------------------------------------------
(* Every handler's step moves one program counter.                         *)
LEMMA Moved ==
  ASSUME SmsTypeOK, NEW j \in Jobs, NEW at \in JobStages, Goto(j, at)
  PROVE  \A k \in Jobs : job'[k].at = IF k = j THEN at ELSE job[k].at
BY DEF SmsTypeOK, Goto, Handlers

\* The row after the three ways an accepted send is recorded.
LEMMA Recorded ==
  ASSUME SmsTypeOK, NEW j \in Jobs, WriteSent(j)
  PROVE  sms'.status = "SENT" \/ UNCHANGED sms
<1>1. CASE sms' = [status |-> "SENT", recipients |-> All("SUBMITTED"), request |-> job[j].request]
  BY <1>1
<1>2. CASE sms' = [sms EXCEPT !.status = "SENT", !.request = job[j].request]
  BY <1>2 DEF SmsTypeOK, Row
<1>3. CASE UNCHANGED sms
  BY <1>3
<1>. QED
  BY <1>1, <1>2, <1>3 DEF WriteSent

\* A claim given up, a reported failure or a lost answer is never forgotten.
LEMMA StaysDisturbed ==
  ASSUME SmsTypeOK, [Next]_smsvars, Undisturbed'
  PROVE  /\ Undisturbed /\ ~RecoverStale
         /\ \A r \in Recipients : ~HookRead(r, "FAILED")
         /\ \A j \in Jobs, answer \in {"lost", "empty"} : ~CallProvider(j, answer)
<1>. DEFINE Kept == /\ used'.ages = used.ages /\ used'.lost = used.lost
                    /\ used.failure => used'.failure
<1>1. used \in Counters /\ used.ages \in Nat /\ used.lost \in Nat /\ used.failure \in BOOLEAN
  BY DEF SmsTypeOK, Counters
<1>2. ASSUME RecoverStale PROVE FALSE
  <2>1. used' = [used EXCEPT !.ages = @ + 1]
    BY <1>2 DEF RecoverStale
  <2>2. used'.ages = used.ages + 1
    BY <1>1, <2>1 DEF Counters
  <2>. QED
    BY <1>1, <2>2 DEF Undisturbed
<1>3. ASSUME NEW r \in Recipients, NEW s, HookRead(r, s) PROVE s # "FAILED" /\ Kept
  <2>1. used' = [used EXCEPT !.hooks = @ + 1, !.failure = @ \/ s = "FAILED"]
    BY <1>3 DEF HookRead
  <2>2. /\ used'.failure <=> (used.failure \/ s = "FAILED")
        /\ used'.ages = used.ages /\ used'.lost = used.lost
    BY <1>1, <2>1 DEF Counters
  <2>. QED
    BY <1>1, <2>2 DEF Undisturbed
<1>4. ASSUME UNCHANGED used PROVE Kept
  BY <1>4
<1>5. ASSUME DbFails PROVE Kept
  BY <1>1, <1>5 DEF DbFails, Counters
<1>6. ASSUME Redeliver PROVE Kept
  BY <1>1, <1>6 DEF Redeliver, Counters
<1>7. ASSUME LoseJob \/ \E j \in Jobs : Crash(j) PROVE Kept
  BY <1>1, <1>7 DEF LoseJob, Crash, Counters
<1>8. ASSUME SyncAsk PROVE Kept
  <2>1. PICK b \in BOOLEAN : \/ used' = [used EXCEPT !.failure = @ \/ b]
                             \/ used' = [used EXCEPT !.silent = @ + 1]
    BY <1>8 DEF SyncAsk
  <2>. QED
    BY <1>1, <2>1 DEF Counters
<1>9. ASSUME NEW j \in Jobs, NEW answer \in Answers, CallProvider(j, answer)
      PROVE  answer \notin {"lost", "empty"} /\ Kept
  <2>1. used' = IF answer \in {"lost", "empty"} THEN [used EXCEPT !.lost = @ + 1] ELSE used
    BY <1>9 DEF CallProvider
  <2>2. answer \in {"lost", "empty"} => used'.lost = used.lost + 1
    BY <1>1, <2>1 DEF Counters
  <2>. QED
    BY <1>1, <2>1, <2>2 DEF Undisturbed
<1>. HIDE DEF Kept
<1>10. ASSUME NEW j \in Jobs, JobStep(j) PROVE Kept
  BY <1>4, <1>5, <1>9, <1>10
     DEF JobStep, Recover, ReadSms, Claim, WriteSent, TellMerchant, WriteFailed
<1>11. ASSUME \/ Send \/ OthersMove \/ SmsStep
              \/ \E r \in Recipients, s \in HookStatuses : Report(r, s)
       PROVE  Kept
  BY <1>4, <1>5, <1>8, <1>11
     DEF Send, OthersMove, SmsStep, Enqueue, SyncRead, SyncWrite, HookWrite, Report
<1>12. Kept
  BY <1>2, <1>3, <1>4, <1>6, <1>7, <1>10, <1>11 DEF Next, smsvars
<1>13. Undisturbed
  BY <1>1, <1>12 DEF Kept, Undisturbed
<1>. QED
  BY <1>2, <1>3, <1>9, <1>13 DEF Answers

\* Steps that leave the row, the handlers and what was accepted alone.
LEMMA OnceElsewhere ==
  ASSUME ClaimIsAlone, UNCHANGED <<sms, job>>, accepted' = accepted
  PROVE  ClaimIsAlone'
BY DEF ClaimIsAlone, AtProvider

\* Steps of a handler that leave the provider, or do not go there.
LEMMA OnceAway ==
  ASSUME SmsTypeOK, ClaimIsAlone, NEW j \in Jobs, UNCHANGED sms, accepted' = accepted,
         \A k \in Jobs : k # j => job'[k].at = job[k].at,
         AtProvider(j)' => AtProvider(j)
  PROVE  ClaimIsAlone'
BY DEF ClaimIsAlone, AtProvider

\* What the reporters and the handlers left behind, when only one handler
\* moves, to anything but the write of an accepted send.
LEMMA TakenElsewhere ==
  ASSUME AcceptedIsTaken, UNCHANGED <<sms, sync, hook>>, accepted' = accepted,
         NEW j \in Jobs, \A k \in Jobs : k # j => job'[k].at = job[k].at,
         job'[j].at # "sent"
  PROVE  AcceptedIsTaken'
BY DEF AcceptedIsTaken, Taken

(***************************************************************************)
(* Every step, while nothing disturbs.                                     *)
(***************************************************************************)
LEMMA OnceNext == SmsTypeOK /\ OnceInv /\ [Next]_smsvars => OnceInv'
<1>. SUFFICES ASSUME SmsTypeOK, OnceInv, [Next]_smsvars, Undisturbed'
              PROVE  ClaimIsAlone' /\ AcceptedIsTaken'
  BY DEF OnceInv
<1>0. /\ ClaimIsAlone /\ AcceptedIsTaken /\ ~RecoverStale
      /\ \A r \in Recipients : ~HookRead(r, "FAILED")
      /\ \A j \in Jobs, answer \in {"lost", "empty"} : ~CallProvider(j, answer)
  BY StaysDisturbed DEF OnceInv
<1>. DEFINE Once == ClaimIsAlone' /\ AcceptedIsTaken'
<1>. USE DEF AtProvider
<1>a. UNCHANGED reports => accepted' = accepted
  BY DEF accepted
<1>b. accepted \in Nat /\ sms.request \in Nat
  BY Written DEF SmsTypeOK, Row
<1>1. ASSUME UNCHANGED smsvars PROVE Once
  BY <1>0, <1>1, <1>a, OnceElsewhere DEF smsvars, AcceptedIsTaken
<1>2. ASSUME Send PROVE Once
  <2>1. sms.status = "NONE" /\ sms'.request = sms.request /\ accepted' = accepted
    BY <1>2, <1>a DEF Send, SmsTypeOK, Row
  <2>2. accepted = 0 /\ \A j \in Jobs : ~AtProvider(j)
    BY <1>0, <1>b, <2>1 DEF ClaimIsAlone, AcceptedIsTaken, Taken
  <2>3. ClaimIsAlone'
    BY <1>2, <2>2 DEF Send, ClaimIsAlone
  <2>4. AcceptedIsTaken'
    BY <1>0, <1>2, <2>1, <2>2 DEF Send, AcceptedIsTaken
  <2>. QED
    BY <2>3, <2>4
<1>3. ASSUME Redeliver \/ Enqueue \/ LoseJob \/ OthersMove PROVE Once
  BY <1>0, <1>3, <1>a, OnceElsewhere DEF Redeliver, Enqueue, LoseJob, OthersMove, AcceptedIsTaken
<1>19. ASSUME NEW r \in Recipients, NEW s \in HookStatuses, Report(r, s) PROVE Once
  <2>1. PICK k \in DOMAIN reports : reports' = [reports EXCEPT ![k][r] = s]
    BY <1>19 DEF Report
  <2>2. [reports[k] EXCEPT ![r] = s] \in Heard /\ reports \in Seq(Heard)
    BY <2>1 DEF SmsTypeOK, Heard
  <2>3. accepted' = accepted
    BY <2>1, <2>2, ExceptSeq DEF accepted
  <2>. QED
    BY <1>0, <1>19, <2>3, OnceElsewhere DEF Report, AcceptedIsTaken
<1>4. ASSUME SyncRead PROVE Once
  <2>1. PICK asked \in SUBSET Undelivered :
           sync' = [at |-> "ask", status |-> sms.status, recipients |-> sms.recipients,
                    request |-> sms.request, left |-> asked, failed |-> FALSE]
    BY <1>4 DEF SyncRead
  <2>2. /\ sms.status = "SENT" /\ sms.request > 0 /\ UNCHANGED <<sms, job, hook>>
        /\ accepted' = accepted
    BY <1>4, <1>a DEF SyncRead
  <2>. QED
    BY <1>0, <2>1, <2>2, OnceElsewhere DEF AcceptedIsTaken
<1>5. ASSUME SyncAsk PROVE Once
  <2>1. /\ sync.at = "ask" /\ UNCHANGED <<sms, job, hook>> /\ accepted' = accepted
        /\ used.failure \in BOOLEAN /\ ~used'.failure
    BY <1>5, <1>a DEF SyncAsk, SmsTypeOK, Counters, Undisturbed
  <2>2. PICK r \in sync.left :
           LET s == reports[sync.request][r] IN
           \/ /\ sync' = [sync EXCEPT !.left = @ \ {r}, !.recipients[r] = s,
                                      !.failed = @ \/ s = "FAILED"]
              /\ used' = [used EXCEPT !.failure = @ \/ s = "FAILED"]
           \/ sync' = [sync EXCEPT !.left = @ \ {r}]
    BY <1>5 DEF SyncAsk
  <2>3. CASE sync' = [sync EXCEPT !.left = @ \ {r}]
    BY <1>0, <2>1, <2>3, OnceElsewhere DEF AcceptedIsTaken, SmsTypeOK, Run
  <2>4. ASSUME NEW s,
               sync' = [sync EXCEPT !.left = @ \ {r}, !.recipients[r] = s,
                                    !.failed = @ \/ s = "FAILED"],
               used' = [used EXCEPT !.failure = @ \/ s = "FAILED"]
        PROVE  Once
    <3>1. s # "FAILED"
      BY <2>1, <2>4 DEF SmsTypeOK, Counters
    <3>2. sync'.at = sync.at /\ sync'.status = sync.status /\ (sync'.failed => sync.failed)
      BY <2>4, <3>1 DEF SmsTypeOK, Run
    <3>. QED
      BY <1>0, <2>1, <3>2, OnceElsewhere DEF AcceptedIsTaken
  <2>. QED
    BY <2>2, <2>3, <2>4
<1>6. ASSUME SyncWrite PROVE Once
  <2>1. /\ accepted = 1 /\ UNCHANGED <<job, hook>> /\ accepted' = accepted /\ sync'.at = "idle"
        /\ sync.status = "SENT" /\ ~sync.failed
    BY <1>0, <1>6, <1>a DEF SyncWrite, Quiet, AcceptedIsTaken
  <2>2. CASE UNCHANGED sms
    BY <1>0, <2>1, <2>2, OnceElsewhere DEF AcceptedIsTaken
  <2>3. CASE sms' = [sms EXCEPT !.recipients = sync.recipients,
                                !.status = Summary(sync.recipients, sync.failed, sync.status)]
    <3>1. sms'.status \in {"SENT", "DELIVERED"} /\ sms'.request = sms.request
      BY <2>1, <2>3 DEF Summary, SmsTypeOK, Row
    <3>2. ClaimIsAlone'
      BY <1>0, <2>1 DEF ClaimIsAlone
    <3>. QED
      BY <1>0, <2>1, <3>1, <3>2 DEF AcceptedIsTaken, Taken
  <2>. QED
    BY <1>6, <2>2, <2>3 DEF SyncWrite
<1>7. ASSUME NEW r \in Recipients, NEW s \in HookStatuses, HookRead(r, s) PROVE Once
  <2>1. /\ s # "FAILED" /\ sms.request > 0 /\ UNCHANGED <<sms, job, sync>>
        /\ accepted' = accepted /\ hook'.at = s /\ hook'.status = sms.status
    BY <1>0, <1>7, <1>a DEF HookRead, Quiet
  <2>2. accepted = 1 /\ sms.status \in Taken
    BY <1>0, <2>1 DEF AcceptedIsTaken
  <2>. QED
    BY <1>0, <2>1, <2>2, OnceElsewhere DEF AcceptedIsTaken
<1>8. ASSUME HookWrite PROVE Once
  <2>1. /\ accepted = 1 /\ UNCHANGED <<job, sync>> /\ accepted' = accepted /\ hook'.at = "idle"
        /\ hook.at # "FAILED" /\ hook.status \in Taken
        /\ sms' = [sms EXCEPT !.recipients = hook.recipients,
                 !.status = Summary(hook.recipients, hook.at = "FAILED", hook.status)]
    BY <1>0, <1>8, <1>a DEF HookWrite, Quiet, AcceptedIsTaken
  <2>2. /\ sms'.status = "DELIVERED" \/ sms'.status = hook.status
        /\ sms'.request = sms.request
    BY <2>1 DEF Summary, SmsTypeOK, Row
  <2>3. ClaimIsAlone'
    BY <1>0, <2>1 DEF ClaimIsAlone
  <2>4. AcceptedIsTaken'
    BY <1>0, <2>1, <2>2 DEF AcceptedIsTaken, Taken
  <2>. QED
    BY <2>3, <2>4
<1>9. ASSUME NEW j \in Jobs, Recover(j) PROVE Once
  <2>1. job[j].at = "idle" /\ UNCHANGED <<sms, sync, hook>> /\ accepted' = accepted /\ Goto(j, "read")
    BY <1>a, <1>9 DEF Recover
  <2>2. \A k \in Jobs : job'[k].at = IF k = j THEN "read" ELSE job[k].at
    BY <2>1, Moved DEF JobStages
  <2>. QED
    BY <1>0, <2>1, <2>2, OnceAway, TakenElsewhere
<1>10. ASSUME NEW j \in Jobs, ReadSms(j) PROVE Once
  <2>1. /\ UNCHANGED <<sms, sync, hook>> /\ accepted' = accepted
        /\ \A k \in Jobs : k # j => job'[k].at = job[k].at
        /\ job'[j].at \in {"idle", "claim"}
    BY <1>a, <1>10 DEF ReadSms, Goto, SmsTypeOK, Handlers
  <2>. QED
    BY <1>0, <2>1, OnceAway, TakenElsewhere
<1>11. ASSUME NEW j \in Jobs, Claim(j) PROVE Once
  <2>1. job[j].at = "claim" /\ UNCHANGED <<sync, hook>> /\ accepted' = accepted
    BY <1>a, <1>11 DEF Claim
  <2>2. CASE ~Claimable
    <3>1. UNCHANGED sms /\ Goto(j, "idle")
      BY <1>11, <2>2 DEF Claim
    <3>2. \A k \in Jobs : job'[k].at = IF k = j THEN "idle" ELSE job[k].at
      BY <3>1, Moved DEF JobStages
    <3>. QED
      BY <1>0, <2>1, <3>1, <3>2, OnceAway, TakenElsewhere
  <2>3. CASE Claimable
    <3>1. sms' = [sms EXCEPT !.status = "PROCESSING"] /\ Goto(j, "call")
      BY <1>11, <2>3 DEF Claim
    <3>2. sms'.status = "PROCESSING" /\ sms'.request = sms.request
      BY <3>1 DEF SmsTypeOK, Row
    <3>3. \A k \in Jobs : job'[k].at = IF k = j THEN "call" ELSE job[k].at
      BY <3>1, Moved DEF JobStages
    <3>4. accepted = 0
      BY <1>0, <1>b, <2>3 DEF AcceptedIsTaken, Taken, Claimable
    <3>5. \A k \in Jobs : ~AtProvider(k)
      BY <1>0, <2>3 DEF ClaimIsAlone, Claimable
    <3>6. ClaimIsAlone'
      BY <2>1, <3>2, <3>3, <3>4, <3>5 DEF ClaimIsAlone
    <3>7. AcceptedIsTaken'
      BY <1>0, <2>1, <3>2, <3>3, <3>4 DEF AcceptedIsTaken
    <3>. QED
      BY <3>6, <3>7
  <2>. QED
    BY <2>2, <2>3
<1>12. ASSUME NEW j \in Jobs, NEW answer \in Answers, CallProvider(j, answer) PROVE Once
  <2>1. job[j].at = "call" /\ UNCHANGED <<sms, sync, hook>> /\ answer \in {"sent", "failed"}
    BY <1>0, <1>12 DEF CallProvider, Answers
  <2>2. /\ sms.status = "PROCESSING" /\ accepted = 0
        /\ \A k \in Jobs : AtProvider(k) => k = j
    BY <1>0, <2>1 DEF ClaimIsAlone
  <2>3. \A k \in Jobs : job'[k].at = IF k = j THEN answer ELSE job[k].at
    BY <1>12, <2>1 DEF CallProvider, SmsTypeOK, Handlers
  <2>4. CASE answer = "sent"
    <3>1. reports' = Append(reports, All(Unknown)) /\ reports \in Seq(Heard) /\ All(Unknown) \in Heard
      BY <1>12, <2>4, Written DEF CallProvider, SmsTypeOK, Unknown
    <3>2. accepted' = 1
      BY <2>2, <3>1, AppendProperties DEF accepted
    <3>3. ClaimIsAlone'
      BY <2>2, <2>3, <2>4 DEF ClaimIsAlone
    <3>4. AcceptedIsTaken'
      BY <1>0, <2>1, <2>2, <3>2 DEF AcceptedIsTaken, Taken
    <3>. QED
      BY <3>3, <3>4
  <2>5. CASE answer = "failed"
    <3>1. accepted' = accepted
      BY <1>a, <1>12, <2>5 DEF CallProvider
    <3>. QED
      BY <1>0, <2>1, <2>3, <2>5, <3>1, OnceAway, TakenElsewhere
  <2>. QED
    BY <2>1, <2>4, <2>5
<1>13. ASSUME NEW j \in Jobs, WriteSent(j) PROVE Once
  <2>1. job[j].at = "sent" /\ UNCHANGED <<sync, hook>> /\ accepted' = accepted
    BY <1>a, <1>13 DEF WriteSent
  <2>2. accepted = 1
    BY <1>0, <2>1 DEF AcceptedIsTaken
  <2>3. \A k \in Jobs : job'[k].at = IF k = j THEN "tell" ELSE job[k].at
    BY <1>13 DEF WriteSent, SmsTypeOK, Handlers
  <2>4. sms'.status = "SENT" \/ UNCHANGED sms
    BY <1>13, Recorded
  <2>5. ClaimIsAlone'
    BY <1>0, <2>2, <2>3 DEF ClaimIsAlone
  <2>6. AcceptedIsTaken'
    BY <1>0, <2>1, <2>2, <2>3, <2>4 DEF AcceptedIsTaken, Taken
  <2>. QED
    BY <2>5, <2>6
<1>14. ASSUME NEW j \in Jobs, TellMerchant(j) PROVE Once
  <2>1. job[j].at = "tell" /\ UNCHANGED <<sms, sync, hook>> /\ accepted' = accepted /\ Goto(j, "idle")
    BY <1>a, <1>14 DEF TellMerchant, Throw
  <2>2. \A k \in Jobs : job'[k].at = IF k = j THEN "idle" ELSE job[k].at
    BY <2>1, Moved DEF JobStages
  <2>. QED
    BY <1>0, <2>1, <2>2, OnceAway, TakenElsewhere
<1>15. ASSUME NEW j \in Jobs, WriteFailed(j) PROVE Once
  <2>1. AtProvider(j) /\ UNCHANGED <<sync, hook>> /\ accepted' = accepted /\ Goto(j, "idle")
    BY <1>a, <1>15 DEF WriteFailed, Throw
  <2>2. accepted = 0 /\ \A k \in Jobs : AtProvider(k) => k = j
    BY <1>0, <2>1 DEF ClaimIsAlone
  <2>3. \A k \in Jobs : job'[k].at = IF k = j THEN "idle" ELSE job[k].at
    BY <2>1, Moved DEF JobStages
  <2>4. sms'.request = sms.request
    BY <1>15 DEF WriteFailed, SmsTypeOK, Row
  <2>5. ClaimIsAlone'
    BY <2>2, <2>3 DEF ClaimIsAlone
  <2>6. AcceptedIsTaken'
    BY <1>0, <2>1, <2>2, <2>3, <2>4 DEF AcceptedIsTaken
  <2>. QED
    BY <2>5, <2>6
<1>16. ASSUME NEW j \in Jobs, Crash(j) PROVE Once
  <2>1. UNCHANGED <<sms, sync, hook>> /\ accepted' = accepted
    BY <1>a, <1>16 DEF Crash
  <2>2. \A k \in Jobs : job'[k].at = IF k = j THEN "idle" ELSE job[k].at
    BY <1>16 DEF Crash, SmsTypeOK, Handlers
  <2>. QED
    BY <1>0, <2>1, <2>2, OnceAway, TakenElsewhere
<1>. HIDE DEF Once
<1>17. ASSUME NEW j \in Jobs, JobStep(j) PROVE Once
  BY <1>9, <1>10, <1>11, <1>12, <1>13, <1>14, <1>15, <1>17 DEF JobStep
<1>18. Once
  BY <1>0, <1>1, <1>2, <1>3, <1>4, <1>5, <1>6, <1>7, <1>8, <1>16, <1>17, <1>19 DEF Next, SmsStep
<1>. QED
  BY <1>18 DEF Once

(***************************************************************************)
(* processSendJob: over any number of handlers, redeliveries, crashes and  *)
(* failing statements, the provider accepts a message a second time only   *)
(* after a claim was given up as stale, a recipient was reported FAILED,   *)
(* or the answer to a submission it had accepted was lost.                 *)
(***************************************************************************)
THEOREM SecondSendHasReason == Spec => []ResentForAReason
<1>1. Init => OnceInv
  <2>. SUFFICES ASSUME Init PROVE ClaimIsAlone /\ AcceptedIsTaken
    BY DEF OnceInv
  <2>1. reports = <<>> /\ sms.request = 0 /\ sync.at = "idle" /\ hook.at = "idle"
    BY DEF Init, Quiet
  <2>2. accepted = 0
    BY <2>1, EmptySeq DEF accepted
  <2>3. \A j \in Jobs : job[j].at = "idle"
    BY DEF Init
  <2>. QED
    BY <2>1, <2>2, <2>3 DEF ClaimIsAlone, AcceptedIsTaken, AtProvider
<1>2. SmsTypeOK /\ OnceInv => ResentForAReason
  <2>1. SmsTypeOK => accepted \in Nat /\ used.ages \in Nat /\ used.lost \in Nat
    BY Written DEF SmsTypeOK, Counters
  <2>. QED
    BY <2>1 DEF OnceInv, Undisturbed, AcceptedIsTaken, ResentForAReason
<1>. QED
  BY <1>1, <1>2, Typing, OnceNext, PTL DEF Spec
-----------------------------------------------------------------------------
(* DELIVERED.                                                              *)

(***************************************************************************)
(* syncDeliveryReports and the webhook: DELIVERED is said only of messages *)
(* whose recipients are all DELIVERED, if the provider reports no other    *)
(* status of a recipient than DELIVERED and FAILED.                        *)
(***************************************************************************)
THEOREM DeliveredIsHonest ==
  HookStatuses \subseteq {"DELIVERED", "FAILED"} => (Spec => []DeliveredMeansAll)
<1>. SUFFICES ASSUME HookStatuses \subseteq {"DELIVERED", "FAILED"}
              PROVE  Spec => []DeliveredMeansAll
  OBVIOUS
<1>. DEFINE Delivered(recipients) == \A r \in Recipients : recipients[r] = "DELIVERED"
<1>1. Init => HonestInv
  <2>1. Quiet.at = "idle"
    BY DEF Quiet
  <2>2. Init => sms.status = "NONE" /\ sync.at = "idle" /\ hook.at = "idle"
    BY <2>1 DEF Init
  <2>. QED
    BY <2>2 DEF HonestInv, ReadingsHonest, DeliveredMeansAll
<1>2. SmsTypeOK /\ HonestInv /\ [Next]_smsvars => HonestInv'
  <2>. SUFFICES ASSUME SmsTypeOK, HonestInv, [Next]_smsvars PROVE HonestInv'
    OBVIOUS
  <2>. USE DEF HonestInv
  <2>0. /\ sms \in Row /\ hook.at \in {"idle", "DELIVERED", "FAILED"}
        /\ ReadingsHonest /\ DeliveredMeansAll
    BY DEF SmsTypeOK
  \* The row is written with another status, or not at all.
  <2>1. ASSUME UNCHANGED <<sync, hook>>, UNCHANGED sms \/ sms'.status # "DELIVERED"
        PROVE  HonestInv'
    BY <2>0, <2>1 DEF ReadingsHonest, DeliveredMeansAll
  <2>2. ASSUME UNCHANGED smsvars PROVE HonestInv'
    BY <2>1, <2>2 DEF smsvars
  <2>3. ASSUME Send \/ RecoverStale PROVE HonestInv'
    BY <2>0, <2>1, <2>3 DEF Send, RecoverStale, Row
  <2>4. ASSUME \/ Redeliver \/ Enqueue \/ LoseJob \/ OthersMove
               \/ \E r \in Recipients, s \in HookStatuses : Report(r, s)
        PROVE  HonestInv'
    BY <2>1, <2>4 DEF Redeliver, Enqueue, LoseJob, OthersMove, Report
  <2>5. ASSUME SyncRead PROVE HonestInv'
    BY <2>0, <2>5 DEF SyncRead, ReadingsHonest, DeliveredMeansAll
  <2>6. ASSUME SyncAsk PROVE HonestInv'
    <3>1. UNCHANGED <<sms, hook>> /\ sync'.status = sync.status /\ sync.at = "ask"
      BY <2>6 DEF SyncAsk, SmsTypeOK, Run
    <3>. QED
      BY <2>0, <3>1 DEF ReadingsHonest, DeliveredMeansAll
  <2>7. ASSUME SyncWrite PROVE HonestInv'
    <3>1. sync.at = "ask" /\ sync.status = "SENT" /\ UNCHANGED hook /\ sync'.at = "idle"
      BY <2>0, <2>7 DEF SyncWrite, ReadingsHonest, Quiet
    <3>2. Summary(sync.recipients, sync.failed, "SENT") = "DELIVERED" => Delivered(sync.recipients)
      BY DEF Summary
    <3>3. CASE UNCHANGED sms
      BY <2>0, <3>1, <3>3 DEF ReadingsHonest, DeliveredMeansAll
    <3>4. CASE sms' = [sms EXCEPT !.recipients = sync.recipients,
                                  !.status = Summary(sync.recipients, sync.failed, sync.status)]
      <4>1. /\ sms'.recipients = sync.recipients
            /\ sms'.status = Summary(sync.recipients, sync.failed, "SENT")
        BY <2>0, <3>1, <3>4 DEF Row
      <4>2. DeliveredMeansAll'
        BY <3>2, <4>1 DEF DeliveredMeansAll
      <4>. QED
        BY <2>0, <3>1, <4>2 DEF ReadingsHonest
    <3>. QED
      BY <2>7, <3>3, <3>4 DEF SyncWrite
  <2>8. ASSUME NEW r \in Recipients, NEW s \in HookStatuses, HookRead(r, s) PROVE HonestInv'
    <3>1. /\ UNCHANGED <<sms, sync>> /\ hook'.at = s /\ hook'.status = sms.status
          /\ hook'.recipients = [sms.recipients EXCEPT ![r] = s]
      BY <2>8 DEF HookRead, Quiet
    <3>2. s = "DELIVERED" /\ Delivered(sms.recipients) => Delivered(hook'.recipients)
      BY <2>0, <3>1 DEF Row, Heard
    <3>. QED
      BY <2>0, <3>1, <3>2 DEF ReadingsHonest, DeliveredMeansAll
  <2>9. ASSUME HookWrite PROVE HonestInv'
    <3>1. /\ hook.at \in {"DELIVERED", "FAILED"} /\ UNCHANGED sync /\ hook'.at = "idle"
          /\ sms'.recipients = hook.recipients
          /\ sms'.status = Summary(hook.recipients, hook.at = "FAILED", hook.status)
      BY <2>0, <2>9 DEF HookWrite, Quiet, Row
    <3>2. hook.at = "FAILED" \/ hook.status # "DELIVERED" \/ Delivered(hook.recipients)
      BY <2>0, <3>1 DEF ReadingsHonest
    <3>3. Summary(hook.recipients, hook.at = "FAILED", hook.status) = "DELIVERED"
            => Delivered(hook.recipients)
      BY <3>2 DEF Summary
    <3>4. DeliveredMeansAll'
      BY <3>1, <3>3 DEF DeliveredMeansAll
    <3>. QED
      BY <2>0, <3>1, <3>4 DEF ReadingsHonest
  <2>10. ASSUME NEW j \in Jobs,
                \/ Recover(j) \/ ReadSms(j) \/ TellMerchant(j) \/ Crash(j)
                \/ \E answer \in Answers : CallProvider(j, answer)
         PROVE  HonestInv'
    BY <2>1, <2>10 DEF Recover, ReadSms, CallProvider, TellMerchant, Crash
  <2>11. ASSUME NEW j \in Jobs, Claim(j) PROVE HonestInv'
    BY <2>0, <2>1, <2>11 DEF Claim, Row
  <2>12. ASSUME NEW j \in Jobs, WriteSent(j) PROVE HonestInv'
    <3>1. UNCHANGED <<sync, hook>> /\ (UNCHANGED sms \/ sms'.status = "SENT")
      BY <2>12, Recorded DEF WriteSent
    <3>. QED
      BY <2>1, <3>1
  <2>13. ASSUME NEW j \in Jobs, WriteFailed(j) PROVE HonestInv'
    <3>1. UNCHANGED <<sync, hook>> /\ (UNCHANGED sms \/ sms'.status = "FAILED")
      BY <2>0, <2>13 DEF WriteFailed, Row
    <3>. QED
      BY <2>1, <3>1
  <2>. HIDE DEF HonestInv
  <2>. QED
    BY <2>2, <2>3, <2>4, <2>5, <2>6, <2>7, <2>8, <2>9, <2>10, <2>11, <2>12, <2>13
       DEF Next, SmsStep, JobStep
<1>3. HonestInv => DeliveredMeansAll
  BY DEF HonestInv
<1>. QED
  BY <1>1, <1>2, <1>3, Typing, PTL DEF Spec
=============================================================================
