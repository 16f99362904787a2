------------------------------ MODULE Payouts -------------------------------
(***************************************************************************)
(* Money going out: payouts, withdrawals and batches from the wallet debit *)
(* to the provider's last word.  DisbursementsService.createPayout,        *)
(* createBatch, processPayoutJob, processBatchJob and pollPending,         *)
(* SettlementsService.createWithdrawal, the PAYOUT branch of the webhook   *)
(* receiver, and applyPayoutUpdate with updateBatchCounters                *)
(* (src/src/webhooks/txn-status.service.ts).                               *)
(*                                                                         *)
(* Debit, rows and job are three steps of a request, and every await of    *)
(* the status engine is a step of its own.  A wallet movement is one step  *)
(* (WalletLedger shows what it does); the queue delivers a job as          *)
(* JobQueue shows.  Amounts, fees and the merchant's notifications, which  *)
(* touch none of this state, are left out.                                 *)
(***************************************************************************)
EXTENDS TxnStatus, Naturals, FiniteSets

CONSTANTS
    Singles,      \* payouts requested one by one
    Withdrawals,  \* payouts requested as settlement withdrawals
    Batch,        \* the payouts of one batch
    BatchRequest, \* the request that creates the batch
    ClientRef,    \* client reference of each payout, or NoReference
    NoReference,
    FullRefs,     \* client references that fill all 15 characters
    Receivers,    \* webhook requests in progress at one time
    Pollers,      \* cron polls in progress at one time
    NoPayout,
    MaxApply,     \* environment: status updates that overlap
    MaxAttempts,  \* deliveries of a job
    MaxHooks,     \* bound: webhook deliveries
    MaxFailures,  \* bound: crashes and failed statements
    LostAnswers,  \* whether the answer to an accepted payout can get lost
    Reversals,    \* whether the provider takes back payouts it has made
    Expiries      \* whether the provider lets payouts expire

Payouts  == Singles \cup Withdrawals \cup Batch
Requests == Singles \cup Withdrawals
            \cup (IF Batch = {} THEN {} ELSE {BatchRequest})
Appliers == Requests \cup Receivers \cup Pollers

ASSUME PayoutAssumption ==
    /\ Singles \cap Withdrawals = {}
    /\ Batch \cap (Singles \cup Withdrawals) = {}
    /\ BatchRequest \notin Payouts /\ NoPayout \notin Payouts
    /\ Requests \cap (Receivers \cup Pollers) = {} /\ Receivers \cap Pollers = {}
    /\ IsFiniteSet(Payouts) /\ IsFiniteSet(Receivers) /\ IsFiniteSet(Pollers)
    /\ {MaxApply, MaxAttempts} \subseteq Nat \ {0}
    /\ {MaxHooks, MaxFailures} \subseteq Nat
    /\ {LostAnswers, Reversals, Expiries} \subseteq BOOLEAN

VARIABLES
    provider,  \* the provider's raw status of a payout, "none" before
    hooks,     \* webhooks the provider has sent: [item, raw]
    row,       \* the payout row: status ("none": no row) and refundedAt
    batch,     \* the batch row: status, successCount, failedCount
    req,       \* where the creating request is
    held,      \* the request's wallet debit has been posted
    refunds,   \* refunds posted for a payout
    job,       \* the request's queue job: status and attempts
    app,       \* the calls that apply statuses
    delivered, failures

vars == <<provider, hooks, row, batch, req, held, refunds, job, app,
          delivered, failures>>

-----------------------------------------------------------------------------
RequestOf(p) == IF p \in Batch THEN BatchRequest ELSE p
Items(q)     == IF q = BatchRequest THEN Batch ELSE {q}

\* The provider's own progress with a payout (external).
RawStatuses == {"none", "AUTHORIZED", "PROCESSING", "SUCCESS", "FAILED",
                "REVERSED", "EXPIRED"}
NextRaw(raw) ==
    CASE raw = "AUTHORIZED" -> {"PROCESSING", "SUCCESS", "FAILED"}
                               \cup (IF Expiries THEN {"EXPIRED"} ELSE {})
      [] raw = "PROCESSING" -> {"SUCCESS", "FAILED"}
      [] raw = "SUCCESS"    -> IF Reversals THEN {"REVERSED"} ELSE {}
      [] OTHER              -> {}

NoRow    == [status |-> "none", refunded |-> FALSE]
NoCounts == [success |-> 0, failed |-> 0]

Idle == [pc |-> "idle", item |-> NoPayout, raw |-> "none", seen |-> NoRow,
         tally |-> NoCounts, todo |-> {}]

Init ==
    /\ provider = [p \in Payouts |-> "none"]
    /\ hooks    = {}
    /\ row      = [p \in Payouts |-> NoRow]
    /\ batch    = [status |-> "none", success |-> 0, failed |-> 0]
    /\ req      = [q \in Requests |-> "idle"]
    /\ held     = [q \in Requests |-> FALSE]
    /\ refunds  = [p \in Payouts |-> 0]
    /\ job      = [q \in Requests |-> [status |-> "none", attempts |-> 0]]
    /\ app      = [a \in Appliers |-> Idle]
    /\ delivered = 0 /\ failures = 0

CountFailure == failures < MaxFailures /\ failures' = failures + 1

\* The provider advances a payout and sends a webhook (external).
ProviderMoves(p) ==
    /\ \E raw \in NextRaw(provider[p]) :
        /\ provider' = [provider EXCEPT ![p] = raw]
        /\ hooks' = hooks \cup {[item |-> p, raw |-> raw]}
    /\ UNCHANGED <<row, batch, req, held, refunds, job, app, delivered, failures>>

-----------------------------------------------------------------------------
(* createPayout, createWithdrawal and createBatch *)

Stored(p) == row[p].status # "none"

\* Only createPayout looks for another row with the client reference.
Duplicate(q) ==
    /\ q \in Singles
    /\ ClientRef[q] # NoReference
    /\ \E p \in Payouts : Stored(p) /\ ClientRef[p] = ClientRef[q]

CheckReference(q) ==
    /\ req[q] = "idle"
    /\ ~Duplicate(q)
    /\ req' = [req EXCEPT ![q] = "checked"]
    /\ UNCHANGED <<provider, hooks, row, batch, held, refunds, job, app,
                   delivered, failures>>

\* Mutant: a refused debit is logged and the request goes on.
DebitWallet_ignored(q) ==
    /\ req[q] = "checked"
    /\ held' \in {held, [held EXCEPT ![q] = TRUE]}
    /\ req' = [req EXCEPT ![q] = "held"]
    /\ UNCHANGED <<provider, hooks, row, batch, refunds, job, app, delivered,
                   failures>>

\* wallets.move: the debit, or an exception that ends the request.
DebitWallet(q) ==
    /\ req[q] = "checked"
    /\ \/ /\ held' = [held EXCEPT ![q] = TRUE]
          /\ req' = [req EXCEPT ![q] = "held"]
       \/ /\ req' = [req EXCEPT ![q] = "over"]
          /\ UNCHANGED held
    /\ UNCHANGED <<provider, hooks, row, batch, refunds, job, app, delivered,
                   failures>>

\* payout.reference is unique, and a client reference of 15 characters leaves
\* no room for random ones.
Collides(p, o) == p # o /\ ClientRef[p] = ClientRef[o] /\ ClientRef[p] \in FullRefs
ReferenceTaken(q) ==
    \E p \in Items(q), o \in Payouts :
        Collides(p, o) /\ (Stored(o) \/ o \in Items(q))

\* The rows, of a batch in one transaction; a reference that is taken throws.
StoreRows(q) ==
    /\ req[q] = "held"
    /\ IF ReferenceTaken(q)
       THEN /\ req' = [req EXCEPT ![q] = "over"]
            /\ UNCHANGED <<row, batch>>
       ELSE /\ row' = [p \in Payouts |->
                         IF p \in Items(q) THEN [NoRow EXCEPT !.status = "PENDING"]
                                           ELSE row[p]]
            /\ batch' = IF q = BatchRequest
                        THEN [batch EXCEPT !.status = "PROCESSING"] ELSE batch
            /\ req' = [req EXCEPT ![q] = "stored"]
    /\ UNCHANGED <<provider, hooks, held, refunds, job, app, delivered, failures>>

\* Mutant: the rows are left to the poll.
EnqueueJob_never(q) ==
    /\ req[q] = "stored"
    /\ req' = [req EXCEPT ![q] = "over"]
    /\ UNCHANGED <<provider, hooks, row, batch, held, refunds, job, app,
                   delivered, failures>>

EnqueueJob(q) ==
    /\ req[q] = "stored"
    /\ job' = [job EXCEPT ![q].status = "queued"]
    /\ req' = [req EXCEPT ![q] = "over"]
    /\ UNCHANGED <<provider, hooks, row, batch, held, refunds, app, delivered,
                   failures>>

\* The instance dies, or a statement fails, between two steps of the request.
RequestDies(q) ==
    /\ req[q] \in {"checked", "held", "stored"}
    /\ CountFailure
    /\ req' = [req EXCEPT ![q] = "over"]
    /\ UNCHANGED <<provider, hooks, row, batch, held, refunds, job, app, delivered>>

-----------------------------------------------------------------------------
(* What starts the status engine *)

\* The next payout of a job's or a poll's list, in any order, or the end.
Resume(a, todo) ==
    \/ /\ todo = {}
       /\ app' = [app EXCEPT ![a] = Idle]
       /\ job' = IF a \in Requests THEN [job EXCEPT ![a].status = "over"] ELSE job
    \/ \E p \in todo :
        /\ app' = [app EXCEPT ![a] =
                     [Idle EXCEPT !.pc = IF a \in Requests THEN "take" ELSE "query",
                                  !.item = p, !.todo = todo \ {p}]]
        /\ UNCHANGED job

\* The queue hands the job to its handler.
DeliverJob(q) ==
    /\ job[q].status = "queued"
    /\ job' = [job EXCEPT ![q] = [status |-> "running", attempts |-> @.attempts + 1]]
    /\ \E p \in Items(q) :
        app' = [app EXCEPT ![q] = [Idle EXCEPT !.pc = "take", !.item = p,
                                               !.todo = Items(q) \ {p}]]
    /\ UNCHANGED <<provider, hooks, row, batch, req, held, refunds, delivered,
                   failures>>

\* findUnique in the handler; then it waits for the provider's minimum spacing.
TakeItem(q) ==
    /\ app[q].pc = "take"
    /\ IF row[app[q].item].status = "PENDING"
       THEN /\ app' = [app EXCEPT ![q].pc = "call"]
            /\ UNCHANGED job
       ELSE Resume(q, app[q].todo)
    /\ UNCHANGED <<provider, hooks, row, batch, req, held, refunds, delivered,
                   failures>>

Answer(a, raw) == app' = [app EXCEPT ![a].pc = "read", ![a].raw = raw]

\* createMobileMoneyPayout / createBankPayout.  The provider accepts a new
\* payout or rejects it; a reference it knows is rejected, or answered with
\* the payout it has.  An error and a lost answer both become FAILED.
CallProvider(q) ==
    LET p == app[q].item IN
    /\ app[q].pc = "call"
    /\ \/ /\ provider[p] = "none"
          /\ \E raw \in {"AUTHORIZED", "PROCESSING"} :
              /\ provider' = [provider EXCEPT ![p] = raw]
              /\ Answer(q, raw) \/ (LostAnswers /\ Answer(q, "FAILED"))
       \/ /\ provider[p] # "none" /\ Answer(q, provider[p])
          /\ UNCHANGED provider
       \/ Answer(q, "FAILED") /\ UNCHANGED provider
    /\ UNCHANGED <<hooks, row, batch, req, held, refunds, job, delivered, failures>>

\* A PAYOUT webhook; the provider repeats and reorders them.
ReceiveHook(a) ==
    /\ app[a].pc = "idle"
    /\ delivered < MaxHooks
    /\ delivered' = delivered + 1
    /\ \E h \in hooks :
        app' = [app EXCEPT ![a] = [Idle EXCEPT !.pc = "read", !.item = h.item,
                                               !.raw = h.raw]]
    /\ UNCHANGED <<provider, hooks, row, batch, req, held, refunds, job, failures>>

\* Mutant: rows in PROCESSING are not polled.
Pending_new == {p \in Payouts : row[p].status = "PENDING"}

\* The rows the poll selects; there are fewer than statusPoll.batchSize.
Pending == {p \in Payouts : row[p].status \in {"PENDING", "PROCESSING"}}

BeginPoll(a) ==
    /\ app[a].pc = "idle"
    /\ Pending # {}
    /\ Resume(a, Pending)
    /\ UNCHANGED <<provider, hooks, row, batch, req, held, refunds, delivered,
                   failures>>

\* queryPayout; an error or an empty answer skips the payout.
QueryProvider(a) ==
    /\ app[a].pc = "query"
    /\ \/ /\ provider[app[a].item] # "none"
          /\ Answer(a, provider[app[a].item])
          /\ UNCHANGED <<job, failures>>
       \/ /\ provider[app[a].item] = "none"
          /\ Resume(a, app[a].todo)
          /\ UNCHANGED failures
       \/ CountFailure /\ Resume(a, app[a].todo)
    /\ UNCHANGED <<provider, hooks, row, batch, req, held, refunds, delivered>>

-----------------------------------------------------------------------------
(* applyPayoutUpdate and updateBatchCounters *)

Applying == {a \in Appliers : app[a].pc \in {"update", "refund", "count", "recount"}}

NextStatus(a)   == MapProviderStatus(app[a].raw)
\* Mutant: refundedAt is not looked at.
ShouldRefund_always(a) == NextStatus(a) \in TerminalFail

ShouldRefund(a) == NextStatus(a) \in TerminalFail /\ ~app[a].seen.refunded

\* findUnique; an unknown payout and a final one that has the status are done.
ReadRow(a) ==
    LET seen == row[app[a].item] IN
    /\ app[a].pc = "read"
    /\ Cardinality(Applying) < MaxApply
    /\ IF \/ seen.status = "none"
          \/ seen.status \in Final /\ seen.status = NextStatus(a)
       THEN Resume(a, app[a].todo)
       ELSE /\ app' = [app EXCEPT ![a].pc = "update", ![a].seen = seen]
            /\ UNCHANGED job
    /\ UNCHANGED <<provider, hooks, row, batch, req, held, refunds, delivered,
                   failures>>

\* Mutant: a refund returns before the recount.
AfterMoney_noRecount(a) ==
    IF app[a].item \in Batch /\ app[a].pc = "update"
    THEN app' = [app EXCEPT ![a].pc = "count"] /\ UNCHANGED job
    ELSE Resume(a, app[a].todo)

\* After the update and the refund a payout of the batch has it recounted.
AfterMoney(a) ==
    IF app[a].item \in Batch
    THEN app' = [app EXCEPT ![a].pc = "count"] /\ UNCHANGED job
    ELSE Resume(a, app[a].todo)

\* The unconditional update: the status, and refundedAt from the row read.
UpdateRow(a) ==
    /\ app[a].pc = "update"
    /\ row' = [row EXCEPT ![app[a].item] =
                 [status   |-> NextStatus(a),
                  refunded |-> ShouldRefund(a) \/ app[a].seen.refunded]]
    /\ IF ShouldRefund(a)
       THEN app' = [app EXCEPT ![a].pc = "refund"] /\ UNCHANGED job
       ELSE AfterMoney(a)
    /\ UNCHANGED <<provider, hooks, batch, req, held, refunds, delivered, failures>>

\* wallets.move with ignoreFrozen, a transaction of its own.
RefundWallet(a) ==
    /\ app[a].pc = "refund"
    /\ refunds' = [refunds EXCEPT ![app[a].item] = @ + 1]
    /\ AfterMoney(a)
    /\ UNCHANGED <<provider, hooks, row, batch, req, held, delivered, failures>>

Count(S) == Cardinality({p \in Batch : row[p].status \in S})

\* updateBatchCounters reads the statuses ...
CountItems(a) ==
    /\ app[a].pc = "count"
    /\ app' = [app EXCEPT ![a].pc = "recount",
                          ![a].tally = [success |-> Count({"SUCCESS"}),
                                        failed  |-> Count(TerminalFail)]]
    /\ UNCHANGED <<provider, hooks, row, batch, req, held, refunds, job,
                   delivered, failures>>

BatchStatus(t) ==
    IF t.success + t.failed # Cardinality(Batch) THEN "PROCESSING"
    ELSE IF t.success = Cardinality(Batch) THEN "COMPLETED"
    ELSE IF t.success = 0 THEN "FAILED"
    ELSE "PARTIALLY_FAILED"

\* ... and writes what it has counted.
WriteCounters(a) ==
    LET t == app[a].tally IN
    /\ app[a].pc = "recount"
    /\ batch' = [status |-> BatchStatus(t), success |-> t.success,
                 failed |-> t.failed]
    /\ Resume(a, app[a].todo)
    /\ UNCHANGED <<provider, hooks, row, req, held, refunds, delivered, failures>>

\* A statement throws, or the instance dies.  A job that throws is delivered
\* again while it has attempts left; the job of a dead instance is not.
ApplierDies(a) ==
    /\ app[a].pc # "idle"
    /\ CountFailure
    /\ app' = [app EXCEPT ![a] = Idle]
    /\ IF a \in Requests
       THEN \/ job' = [job EXCEPT ![a].status =
                         IF job[a].attempts < MaxAttempts THEN "queued" ELSE "over"]
            \/ job' = [job EXCEPT ![a].status = "over"]
       ELSE UNCHANGED job
    /\ UNCHANGED <<provider, hooks, row, batch, req, held, refunds, delivered>>

RequestStep(q) == DebitWallet(q) \/ StoreRows(q) \/ EnqueueJob(q)

JobStep(q) == DeliverJob(q) \/ TakeItem(q) \/ CallProvider(q)

ApplyStep(a) == QueryProvider(a) \/ UpdateRow(a) \/ RefundWallet(a)
                \/ CountItems(a) \/ WriteCounters(a)

Next ==
    \/ \E p \in Payouts : ProviderMoves(p)
    \/ \E q \in Requests :
        CheckReference(q) \/ RequestStep(q) \/ RequestDies(q) \/ JobStep(q)
    \/ \E a \in Receivers : ReceiveHook(a)
    \/ \E a \in Pollers : BeginPoll(a)
    \/ \E a \in Appliers : ReadRow(a) \/ ApplyStep(a) \/ ApplierDies(a)

\* What has started goes on, the queue delivers, the cron keeps polling, and
\* MaxApply delays nobody for ever.  Nothing is assumed of the provider.
Fairness ==
    /\ \A q \in Requests : WF_vars(RequestStep(q)) /\ WF_vars(JobStep(q))
    /\ \A a \in Appliers : WF_vars(ApplyStep(a)) /\ SF_vars(ReadRow(a))
    /\ \A a \in Pollers : WF_vars(BeginPoll(a))

Spec == Init /\ [][Next]_vars /\ Fairness

-----------------------------------------------------------------------------
(* Properties *)

RowType == [status : Statuses \cup {"none"}, refunded : BOOLEAN]

ApplierType(s) ==
    /\ s.pc \in {"idle", "take", "call", "query", "read", "update", "refund",
                 "count", "recount"}
    /\ s.item \in Payouts \cup {NoPayout}
    /\ s.raw \in RawStatuses
    /\ s.seen \in RowType
    /\ s.tally \in [success : Nat, failed : Nat]
    /\ s.todo \subseteq Payouts

TypeOK ==
    /\ provider \in [Payouts -> RawStatuses]
    /\ hooks \subseteq [item : Payouts, raw : RawStatuses]
    /\ row \in [Payouts -> RowType]
    /\ batch.status \in {"none", "PROCESSING", "COMPLETED", "PARTIALLY_FAILED",
                         "FAILED"}
    /\ batch.success \in Nat /\ batch.failed \in Nat
    /\ req \in [Requests -> {"idle", "checked", "held", "stored", "over"}]
    /\ held \in [Requests -> BOOLEAN]
    /\ refunds \in [Payouts -> Nat]
    /\ job \in [Requests -> [status : {"none", "queued", "running", "over"},
                             attempts : Nat]]
    /\ \A a \in Appliers : ApplierType(app[a])
    /\ delivered \in Nat /\ failures \in Nat

\* No money leaves, and none comes back, without a debit of the wallet before
\* it, whatever crashes, redeliveries and late answers there are.
MovedOnlyIfHeld ==
    \A p \in Payouts :
        (provider[p] # "none" \/ refunds[p] > 0) => held[RequestOf(p)]

\* A debit comes back at most once (README.md:72, "exactly-once"; README.md:291).
RefundedAtMostOnce == \A p \in Payouts : refunds[p] <= 1

\* A payout that the provider makes or may still make is not refunded
\* (disbursements.service.ts:307, "provider rejected the request").
NotPaidAndRefunded ==
    \A p \in Payouts :
        refunds[p] > 0 => provider[p] \in {"none", "FAILED", "REVERSED"}

\* Nobody works on payout p.
AtRest(p) == \A a \in Applying : app[a].item # p

\* refundedAt, all that later calls look at, tells whether the one refund exists.
FlagTellsRefund ==
    \A p \in Payouts : AtRest(p) => refunds[p] = IF row[p].refunded THEN 1 ELSE 0

\* With no update in progress the batch row says what its payout rows say, the
\* "source of truth" (txn-status.service.ts:330).
CountersMatch ==
    (batch.status # "none" /\ \A p \in Batch : AtRest(p)) =>
        /\ batch.success = Count({"SUCCESS"})
        /\ batch.failed = Count(TerminalFail)
        /\ batch.status # "PROCESSING" <=> \A p \in Batch : row[p].status \in Final

\* No two payouts have the same client reference (README.md:290-292, "duplicate
\* client-reference rejection everywhere").
ClientReferencesUnique ==
    \A p, o \in Payouts :
        (p # o /\ Stored(p) /\ Stored(o) /\ ClientRef[p] # NoReference)
            => ClientRef[p] # ClientRef[o]

\* What the wallet was debited for is submitted to the provider, or refunded
\* ("payouts hold funds on request; failures auto-refund", README.md:74).
HoldServed ==
    \A p \in Payouts :
        held[RequestOf(p)] ~> (provider[p] # "none" \/ refunds[p] > 0)

\* A payout that fails at the provider is refunded, even if no webhook arrives
\* (README.md:161, disbursements.service.ts:463).
FailedIsRefunded ==
    \A p \in Payouts : provider[p] \in {"FAILED", "EXPIRED"} ~> refunds[p] > 0

\* The merchant's view of a payout; "broken" is none of the promised states.
MoneyOf(p) ==
    IF refunds[p] = 0
    THEN CASE provider[p] = "SUCCESS"  -> "paid"
           [] provider[p] = "REVERSED" -> "reversed"
           [] OTHER -> IF held[RequestOf(p)] THEN "held" ELSE "free"
    ELSE IF refunds[p] = 1 /\ NotPaidAndRefunded THEN "returned" ELSE "broken"

Money == [p \in Payouts |-> MoneyOf(p)]

Promise == INSTANCE PayoutPromise WITH money <- Money

\* With updates one at a time, no failures and no lost answers, every step is
\* one that the merchant is promised.
ImplementsPromise == Promise!Safety

=============================================================================
