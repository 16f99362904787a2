--------------------------- MODULE MCBackground ---------------------------
(***************************************************************************)
(* What goes on in the background: outbound webhooks, SMS and billing.     *)
(* They share no variables, so one run checks them as a sum: a behaviour   *)
(* picks a part and is a behaviour of that part, with the others at rest.  *)
(* Each comes twice: Deliveries and Billing with some of their steps, Sms  *)
(* with two sets of bounds.  Sms is extended; the others are instances.    *)
(***************************************************************************)
EXTENDS Integers, TLC, Sms

CONSTANTS
  (* Deliveries *) Slots, Clients, EndpointLimit, Events, Workers, DeliveryAttempts, MaxJobs,
                   DeliveryCrashes, DeliveryErrors,
  (* Billing    *) Cron, Admins, Accounts, Plans, Period, Batch, MaxDay, MaxAssigns,
                   BillingErrors, BillingCrashes

VARIABLES
  part,
  (* Deliveries  *) endpoint, client, dispatch, row, jobs, work, posts, acked, usedD,
  (* Billing     *) day, plans, plan, bills, run, ran, admin, usedB

deliveryVars   == <<endpoint, client, dispatch, row, jobs, work, posts, acked, usedD>>
billingVars    == <<day, plans, plan, bills, run, ran, admin, usedB>>

vars == <<part, deliveryVars, smsvars, billingVars>>

-----------------------------------------------------------------------------
(* The parts.  background.cfg bounds them.                                 *)

D == INSTANCE Deliveries WITH
  used <- usedD, Attempts <- DeliveryAttempts,
  MaxCrashes <- DeliveryCrashes, MaxErrors <- DeliveryErrors

\* One registration at a time, of one endpoint.
TheSlot == CHOOSE s \in Slots : TRUE
TheClient == CHOOSE c \in Clients : TRUE
OneEndpoint == /\ \A s \in Slots : endpoint'[s] # "none" => s = TheSlot
               /\ \A c \in Clients : client'[c].at # "idle" => c = TheClient

\* Concurrent registrations, without workers.
NoWorker == work' = work /\ \A d \in D!Deliveries : jobs'[d].due >= jobs[d].due

\* Sms itself is the part with two handlers, a full batch and lost answers;
\* its bounds are in background.cfg, and a behaviour has two incidents of them.
Incidents(u) == u.hooks + u.errors + u.duplicates + u.lost + u.silent
TwoIncidents == Incidents(used') <= 2

\* The same with one handler: crashes, stale claims and failure reports.
N == INSTANCE Sms WITH
  Jobs <- {"j1"}, Attempts <- 2, SyncBatch <- 1, AskLimit <- 1,
  HookStatuses <- {"DELIVERED", "FAILED"}, MaxAhead <- 0, MaxLost <- 0, MaxSilent <- 0,
  MaxHooks <- 1, MaxAges <- 1, MaxErrors <- 0, MaxCrashes <- 1, MaxDuplicates <- 0

B == INSTANCE Billing WITH used <- usedB, MaxErrors <- BillingErrors, MaxCrashes <- BillingCrashes

\* Two days, then one more.
DailyAndLater == [p \in Plans |-> IF p = CHOOSE q \in Plans : TRUE THEN 1 ELSE 2]

\* Failing statements, or a crash and a single assignment.
NoCrash == usedB'.crashes = 0
NoError == usedB'.errors = 0 /\ usedB'.assigns <= 1

-----------------------------------------------------------------------------
(* The sum.                                                                *)

SumInit ==
  /\ part \in {"deliveries", "endpoints", "sms", "sms faults", "billing", "billing faults"}
  /\ D!Init /\ B!Init
  /\ IF part = "sms faults" THEN N!Init ELSE Init

SumNext ==
  \/ /\ part = "deliveries" /\ D!Next /\ OneEndpoint
     /\ UNCHANGED <<part, smsvars, billingVars>>
  \/ /\ part = "endpoints" /\ D!Next /\ NoWorker
     /\ UNCHANGED <<part, smsvars, billingVars>>
  \/ /\ part = "sms" /\ Next /\ TwoIncidents
     /\ UNCHANGED <<part, deliveryVars, billingVars>>
  \/ /\ part = "sms faults" /\ N!Next
     /\ UNCHANGED <<part, deliveryVars, billingVars>>
  \/ /\ part = "billing" /\ B!Next /\ NoCrash
     /\ UNCHANGED <<part, deliveryVars, smsvars>>
  \/ /\ part = "billing faults" /\ B!Next /\ NoError
     /\ UNCHANGED <<part, deliveryVars, smsvars>>

\* The fairness of the parts with liveness properties, for the part at work.
DeliveryStep(X) == part = "deliveries" /\ X /\ OneEndpoint
MessageStep(X) == part = "sms" /\ X /\ TwoIncidents
FaultyStep(X) == part = "sms faults" /\ X
BillingStep(X) == part \in {"billing", "billing faults"} /\ X

SumFairness ==
  /\ \A e \in Events : WF_deliveryVars(DeliveryStep(D!CreateDelivery(e) \/ D!EnqueueDelivery(e)))
  /\ \A d \in Events \X {TheSlot} :
       /\ WF_deliveryVars(DeliveryStep(D!BecomeDue(d)))
       /\ SF_deliveryVars(DeliveryStep(\E w \in Workers : D!ReadDelivery(w, d)))
  /\ \A w \in Workers :
       /\ WF_deliveryVars(DeliveryStep(\E ok \in BOOLEAN : D!Post(w, ok)))
       /\ WF_deliveryVars(DeliveryStep(D!WriteOutcome(w) \/ D!EnqueueRetry(w)))
  /\ WF_deliveryVars(DeliveryStep(D!Sweep))
  /\ WF_smsvars(MessageStep(Enqueue)) /\ WF_smsvars(MessageStep(SyncRead))
  /\ WF_smsvars(MessageStep(SyncAsk \/ SyncWrite)) /\ WF_smsvars(MessageStep(HookWrite))
  /\ \A j \in Jobs : WF_smsvars(MessageStep(JobStep(j)))
  /\ WF_smsvars(FaultyStep(N!Enqueue)) /\ WF_smsvars(FaultyStep(N!JobStep("j1")))
  /\ WF_billingVars(BillingStep(B!NextDay))
  /\ \A c \in Cron : /\ WF_billingVars(BillingStep(B!Fire(c)))
                      /\ WF_billingVars(BillingStep(B!CreateBill(c) \/ B!AdvanceDate(c)))

SumSpec == SumInit /\ [][SumNext]_vars /\ SumFairness

-----------------------------------------------------------------------------
(* The properties of the parts; their modules say what they are about.     *)

\* webhooks.service: the endpoint limit under concurrent registrations.
EndpointsBounded == D!EndpointsBounded
\* deliverJob: a delivery row says what happened.
OutcomeHonest == D!OutcomeHonest
\* sweepDueRetries: an attempted delivery does not stay PENDING.
RetriesEnd == D!RetriesEnd

\* processSendJob: a message is sent or reported FAILED, or orphaned.
EveryMessageSettles == MessageSettles

\* runRecurringBilling: a date is billed once, unless an instance crashed.
BilledOnce == usedB.crashes = 0 => B!BilledOnce
\* runRecurringBilling: a date that has come is billed.
DueIsBilled == B!DueIsBilled

=============================================================================
