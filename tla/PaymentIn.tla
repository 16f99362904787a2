----------------------------- MODULE PaymentIn ------------------------------
(***************************************************************************)
(* Money coming in: collections and deposits from their initiation at the  *)
(* provider to the wallet credit.  CollectionsService / DepositsService    *)
(* initiate, refreshStatus and pollPending (src/src/collections,           *)
(* src/src/deposits), the PAYMENT branch of WebhookReceiverController and  *)
(* the status engines applyCollectionUpdate / applyDepositUpdate           *)
(* (src/src/webhooks/txn-status.service.ts), which are one algorithm over  *)
(* two tables.                                                             *)
(*                                                                         *)
(* None of it runs in a transaction: every await is a step of its own, and *)
(* webhooks, the cron poll and client refreshes interleave.  The wallet    *)
(* credit is one step (WalletLedger shows what it does); its amount, the   *)
(* fee and the message texts are left out.                                 *)
(***************************************************************************)
EXTENDS TxnStatus, Naturals, Sequences, FiniteSets

CONSTANTS
    Refs,         \* provider order references
    Orders,       \* <<table, reference>> the clients initiate
    Receivers,    \* webhook requests in progress at one time
    Pollers,      \* cron polls in progress at one time
    Refreshers,   \* client refreshes in progress at one time
    MaxActive,    \* environment: how many of them overlap
    MaxHooks,     \* bound: webhook deliveries
    MaxFailures,  \* bound: crashes, failed statements, failed queries
    LostAnswers,  \* whether the answer to an accepted initiation can get lost
    Reversals,    \* whether the provider reverses settled payments
    BatchSize     \* statusPoll.batchSize

Tables   == {"collection", "deposit"}
Appliers == Receivers \cup Pollers \cup Refreshers

ASSUME PaymentAssumption ==
    /\ Orders \subseteq Tables \X Refs
    /\ Receivers \cap Pollers = {} /\ Receivers \cap Refreshers = {}
    /\ Pollers \cap Refreshers = {}
    /\ IsFiniteSet(Receivers) /\ IsFiniteSet(Pollers) /\ IsFiniteSet(Refreshers)
    /\ {MaxActive, MaxHooks, MaxFailures} \subseteq Nat
    /\ {LostAnswers, Reversals} \subseteq BOOLEAN
    /\ BatchSize \in Nat \ {0}

VARIABLES
    provider,   \* the provider's raw status of a reference, "none" before
    hooks,      \* webhooks the provider has sent: [ref, raw]
    row,        \* the order's row: status ("none": no row) and walletCreditedAt
    created,    \* the orders with a row, by createdAt
    init,       \* where initiate is with an order
    credits,    \* wallet movements posted for an order
    fanouts,    \* final statuses dispatched to the merchant, per order
    lastTold,   \* the last status dispatched to the merchant
    app,        \* the appliers
    delivered, failures

vars == <<provider, hooks, row, created, init, credits, fanouts, lastTold, app,
          delivered, failures>>

-----------------------------------------------------------------------------
(* The provider *)

\* The provider's own progress with a payment (external).
RawStatuses == {"none", "AUTHORIZED", "PROCESSING", "SETTLED", "FAILED",
                "REVERSED", "EXPIRED"}
NextRaw(raw) ==
    CASE raw = "AUTHORIZED" -> {"PROCESSING", "SETTLED", "FAILED", "EXPIRED"}
      [] raw = "PROCESSING" -> {"SETTLED", "FAILED", "EXPIRED"}
      [] raw = "SETTLED"    -> IF Reversals THEN {"REVERSED"} ELSE {}
      [] OTHER              -> {}

\* The payer has been charged for the reference.
Paid(r) == provider[r] \in {"SETTLED", "REVERSED"}

\* The references that the provider knows.
AtProvider == {r \in Refs : provider[r] # "none"}

NoRow == [status |-> "none", credited |-> FALSE]

Idle == [pc |-> "idle", table |-> "collection", ref |-> "none", raw |-> "none",
         seen |-> NoRow, todo |-> <<>>]

-----------------------------------------------------------------------------
Init ==
    /\ provider = [r \in Refs |-> "none"]
    /\ hooks    = {}
    /\ row      = [o \in Orders |-> NoRow]
    /\ created  = <<>>
    /\ init     = [o \in Orders |-> "idle"]
    /\ credits  = [o \in Orders |-> 0]
    /\ fanouts  = [o \in Orders |-> 0]
    /\ lastTold = [o \in Orders |-> "none"]
    /\ app      = [a \in Appliers |-> Idle]
    /\ delivered = 0 /\ failures = 0

ordersVars == <<row, created, credits, fanouts, lastTold>>

CountFailure == failures < MaxFailures /\ failures' = failures + 1

\* The provider advances a payment and sends a webhook (external).
ProviderMoves(r) ==
    /\ \E raw \in NextRaw(provider[r]) :
        /\ provider' = [provider EXCEPT ![r] = raw]
        /\ hooks' = hooks \cup {[ref |-> r, raw |-> raw]}
    /\ UNCHANGED <<ordersVars, init, app, delivered, failures>>

-----------------------------------------------------------------------------
(* initiate *)

\* What the provider answers to an initiation that it accepts: the payer has yet
\* to confirm on the phone (external).
Accepted == {"AUTHORIZED", "PROCESSING"}

\* provider.initiateUssdPush: accepted once per reference; a transport error
\* or a timeout looks like a rejection.
InitiateAtProvider(o) ==
    /\ init[o] = "idle"
    /\ \/ /\ provider[o[2]] = "none"
          /\ \E raw \in Accepted :
              /\ provider' = [provider EXCEPT ![o[2]] = raw]
              /\ \/ init' = [init EXCEPT ![o] = raw]
                 \/ LostAnswers /\ init' = [init EXCEPT ![o] = "refused"]
       \/ /\ init' = [init EXCEPT ![o] = "refused"]
          /\ UNCHANGED provider
    /\ UNCHANGED <<ordersVars, hooks, app, delivered, failures>>

\* prisma.collection.create: PENDING after an error, else the status answered.
CreateRow(o) ==
    /\ init[o] \in Accepted \cup {"refused"}
    /\ row' = [row EXCEPT ![o].status =
                 IF init[o] \in Accepted THEN MapProviderStatus(init[o])
                                        ELSE "PENDING"]
    /\ created' = Append(created, o)
    /\ init' = [init EXCEPT ![o] = IF @ \in Accepted THEN "done" ELSE "mark"]
    /\ UNCHANGED <<provider, hooks, credits, fanouts, lastTold, app, delivered,
                   failures>>

\* The second write after a provider error, whatever happened in between.
MarkFailed(o) ==
    /\ init[o] = "mark"
    /\ row' = [row EXCEPT ![o].status = "FAILED"]
    /\ init' = [init EXCEPT ![o] = "done"]
    /\ UNCHANGED <<provider, hooks, created, credits, fanouts, lastTold, app,
                   delivered, failures>>

\* The instance dies between two statements of initiate.
InitiateDies(o) ==
    /\ init[o] \in Accepted \cup {"refused", "mark"}
    /\ CountFailure
    /\ init' = [init EXCEPT ![o] = "done"]
    /\ UNCHANGED <<provider, ordersVars, hooks, app, delivered>>

-----------------------------------------------------------------------------
(* What starts the status engine *)

Active == {a \in Appliers : app[a].pc # "idle"}

CanStart(a) == app[a].pc = "idle" /\ Cardinality(Active) < MaxActive

\* A PAYMENT webhook: collections first.  The provider repeats and reorders.
ReceiveHook(a) ==
    /\ CanStart(a)
    /\ delivered < MaxHooks
    /\ delivered' = delivered + 1
    /\ \E h \in hooks :
        app' = [app EXCEPT ![a] = [Idle EXCEPT !.pc = "read", !.ref = h.ref,
                                               !.raw = h.raw]]
    /\ UNCHANGED <<provider, hooks, ordersVars, init, failures>>

\* Mutant: rows in PROCESSING are not polled.
Pending_new(t) == SelectSeq(created, LAMBDA o : o[1] = t /\ row[o].status = "PENDING")

\* The rows the poll selects: oldest first, at most batchSize of one table.
Pending(t) == SelectSeq(created, LAMBDA o :
                 o[1] = t /\ row[o].status \in {"PENDING", "PROCESSING"})
PollList(t) == SubSeq(Pending(t), 1, IF Len(Pending(t)) < BatchSize
                                     THEN Len(Pending(t)) ELSE BatchSize)

\* The next order of a poll's list, or the end of the request.
NextOrIdle(todo) ==
    IF todo = <<>> THEN Idle
    ELSE [Idle EXCEPT !.pc = "query", !.table = Head(todo)[1],
                      !.ref = Head(todo)[2], !.todo = Tail(todo)]

BeginPoll(a, t) ==
    /\ CanStart(a)
    /\ PollList(t) # <<>>
    /\ app' = [app EXCEPT ![a] = NextOrIdle(PollList(t))]
    /\ UNCHANGED <<provider, hooks, ordersVars, init, delivered, failures>>

\* refreshStatus returns a final row without asking the provider.
BeginRefresh(a, o) ==
    /\ CanStart(a)
    /\ row[o].status \notin Final \cup {"none"}
    /\ app' = [app EXCEPT ![a] = NextOrIdle(<<o>>)]
    /\ UNCHANGED <<provider, hooks, ordersVars, init, delivered, failures>>

Advance(a) == app' = [app EXCEPT ![a] = NextOrIdle(app[a].todo)]

\* queryPayment: the provider's status now; an error or an empty answer skips.
QueryProvider(a) ==
    /\ app[a].pc = "query"
    /\ \/ /\ app[a].ref \in AtProvider
          /\ app' = [app EXCEPT ![a].pc = "read", ![a].raw = provider[app[a].ref]]
          /\ UNCHANGED failures
       \/ /\ app[a].ref \notin AtProvider
          /\ Advance(a)
          /\ UNCHANGED failures
       \/ CountFailure /\ Advance(a)
    /\ UNCHANGED <<provider, hooks, ordersVars, init, delivered>>

-----------------------------------------------------------------------------
(* applyCollectionUpdate / applyDepositUpdate *)

OrderOf(a)      == <<app[a].table, app[a].ref>>
Known(a)        == OrderOf(a) \in Orders /\ row[OrderOf(a)].status # "none"
NextStatus(a)   == MapProviderStatus(app[a].raw)
\* Mutant: the row as it is now, not as it was read.
AlreadyFinal_now(a) == row[OrderOf(a)].status \in Final

AlreadyFinal(a) == app[a].seen.status \in Final

\* Mutant: the flag is not looked at.
ShouldCredit_always(a) == NextStatus(a) = "SUCCESS"

ShouldCredit(a) == NextStatus(a) = "SUCCESS" /\ ~app[a].seen.credited

\* findUnique.  An unknown reference sends a webhook on to the deposits; a
\* final row that already has the status ends the call.
ReadRow(a) ==
    /\ app[a].pc = "read"
    /\ IF ~Known(a)
       THEN IF a \in Receivers /\ app[a].table = "collection"
            THEN app' = [app EXCEPT ![a].table = "deposit"]
            ELSE Advance(a)
       ELSE LET seen == row[OrderOf(a)] IN
            IF seen.status \in Final /\ seen.status = NextStatus(a)
            THEN Advance(a)
            ELSE app' = [app EXCEPT ![a].pc = "update", ![a].seen = seen]
    /\ UNCHANGED <<provider, hooks, ordersVars, init, delivered, failures>>

\* The unconditional update: the status, and walletCreditedAt from the row read.
UpdateRow(a) ==
    /\ app[a].pc = "update"
    /\ row' = [row EXCEPT ![OrderOf(a)] =
                 [status   |-> NextStatus(a),
                  credited |-> ShouldCredit(a) \/ app[a].seen.credited]]
    /\ CASE ShouldCredit(a)                     -> app' = [app EXCEPT ![a].pc = "credit"]
         [] ~ShouldCredit(a) /\ ~AlreadyFinal(a) -> app' = [app EXCEPT ![a].pc = "notify"]
         [] OTHER                                -> Advance(a)
    /\ UNCHANGED <<provider, hooks, created, init, credits, fanouts, lastTold,
                   delivered, failures>>

\* wallets.move with ignoreFrozen, a transaction of its own.
CreditWallet(a) ==
    /\ app[a].pc = "credit"
    /\ credits' = [credits EXCEPT ![OrderOf(a)] = @ + 1]
    /\ IF AlreadyFinal(a) THEN Advance(a)
                          ELSE app' = [app EXCEPT ![a].pc = "notify"]
    /\ UNCHANGED <<provider, hooks, row, created, init, fanouts, lastTold,
                   delivered, failures>>

\* webhooks.dispatch, only when the row read was not final.
DispatchStatus(a) ==
    /\ app[a].pc = "notify"
    /\ lastTold' = [lastTold EXCEPT ![OrderOf(a)] = NextStatus(a)]
    /\ fanouts' = [fanouts EXCEPT ![OrderOf(a)] =
                     IF NextStatus(a) \in Final THEN @ + 1 ELSE @]
    /\ Advance(a)
    /\ UNCHANGED <<provider, hooks, row, created, init, credits, delivered,
                   failures>>

\* The instance dies or a statement throws (wallets.move included): the rest of
\* the call, and of a poll's list, does not happen.
ApplierDies(a) ==
    /\ app[a].pc # "idle"
    /\ CountFailure
    /\ app' = [app EXCEPT ![a] = Idle]
    /\ UNCHANGED <<provider, hooks, ordersVars, init, delivered>>

ApplyStep(a) == QueryProvider(a) \/ ReadRow(a) \/ UpdateRow(a)
                \/ CreditWallet(a) \/ DispatchStatus(a)

InitiateStep(o) == CreateRow(o) \/ MarkFailed(o)

Next ==
    \/ \E r \in Refs : ProviderMoves(r)
    \/ \E o \in Orders :
        \/ InitiateAtProvider(o) \/ InitiateStep(o) \/ InitiateDies(o)
        \/ \E a \in Refreshers : BeginRefresh(a, o)
    \/ \E a \in Receivers : ReceiveHook(a)
    \/ \E a \in Pollers, t \in Tables : BeginPoll(a, t)
    \/ \E a \in Appliers : ApplyStep(a) \/ ApplierDies(a)

\* Calls that have started go on, and each table's cron keeps polling.  Nothing
\* is assumed of the payer, the provider, webhooks or clients.
Fairness ==
    /\ \A o \in Orders : WF_vars(InitiateStep(o))
    /\ \A a \in Appliers : WF_vars(ApplyStep(a))
    /\ \A t \in Tables : SF_vars(\E a \in Pollers : BeginPoll(a, t))

Spec == Init /\ [][Next]_vars /\ Fairness

-----------------------------------------------------------------------------
(* Properties *)

RowType == [status : Statuses \cup {"none"}, credited : BOOLEAN]

ApplierType(s) ==
    /\ s.pc \in {"idle", "query", "read", "update", "credit", "notify"}
    /\ s.table \in Tables
    /\ s.ref \in Refs \cup {"none"}
    /\ s.raw \in RawStatuses
    /\ s.seen \in RowType
    /\ \A i \in 1 .. Len(s.todo) : s.todo[i] \in Orders

TypeOK ==
    /\ provider \in [Refs -> RawStatuses]
    /\ hooks \subseteq [ref : Refs, raw : RawStatuses]
    /\ row \in [Orders -> RowType]
    /\ \A i \in 1 .. Len(created) : created[i] \in Orders
    /\ init \in [Orders -> Accepted \cup {"idle", "refused", "mark", "done"}]
    /\ credits \in [Orders -> Nat] /\ fanouts \in [Orders -> Nat]
    /\ lastTold \in [Orders -> Statuses \cup {"none"}]
    /\ \A a \in Appliers : ApplierType(app[a])
    /\ delivered \in 0 .. MaxHooks /\ failures \in 0 .. MaxFailures

\* The orders that carry a reference.
OrdersOf(r) == {o \in Orders : o[2] = r}

\* One payment is credited at most once, to one wallet (README.md:72, "exactly-
\* once and idempotent"; txn-status.service.ts:53).
CreditedAtMostOnce ==
    \A r \in Refs :
        /\ \A o \in OrdersOf(r) : credits[o] <= 1
        /\ Cardinality({o \in OrdersOf(r) : credits[o] > 0}) <= 1

\* No wallet is credited before the payer has been charged, whatever order
\* webhooks, polls and refreshes come in.
CreditedOnlyIfPaid == \A o \in Orders : credits[o] > 0 => Paid(o[2])

\* walletCreditedAt tells whether the one movement exists, when no call is
\* between the update and the move: the flag is all that later calls look at.
FlagTellsCredit ==
    \A o \in Orders :
        (\A a \in Appliers : app[a].pc = "credit" => OrderOf(a) # o)
            => credits[o] = IF row[o].credited THEN 1 ELSE 0

\* The merchant hears of each final status once ("one webhook fan-out",
\* txn-status.service.ts:53).
OneFanOut == \A o \in Orders : fanouts[o] <= 1

\* Nobody works on order o.
AtRest(o) == \A a \in Appliers : app[a].pc # "idle" => OrderOf(a) # o

\* A row that says SUCCESS has been announced as such, as long as the provider
\* has not taken the payment back: the merchant may deliver (dispatch,
\* txn-status.service.ts:131-147).
MerchantToldPaid ==
    \A o \in Orders :
        (row[o].status = "SUCCESS" /\ provider[o[2]] = "SETTLED" /\ AtRest(o))
            => lastTold[o] = "SUCCESS"

\* A reversal is announced, too: every status change has its fan-out.
ReversalTold ==
    \A o \in Orders :
        (row[o].status = "REVERSED" /\ AtRest(o)) => lastTold[o] = "REVERSED"

\* A payment whose row exists and that the payer has paid ends up credited,
\* even if its webhook never arrives (collections.service.ts:147), unless the
\* provider takes it back first.
PaidIsCredited ==
    \A o \in Orders :
        (row[o].status # "none" /\ provider[o[2]] = "SETTLED")
            ~> (credits[o] > 0 \/ provider[o[2]] = "REVERSED")

\* A row that says SUCCESS is only taken back by a reversal: a webhook's status
\* is advisory and re-queried from the provider (README.md:78), so one that comes
\* late has no effect.
SettledStays ==
    [][\A o \in Orders : row[o].status = "SUCCESS"
                            => row'[o].status \in {"SUCCESS", "REVERSED"}]_vars

\* A paid payment ends as SUCCESS for good, or as the provider reversed it:
\* late webhooks that push the row back are repaired by the poll.
StatusConverges ==
    \A o \in Orders :
        (row[o].status # "none" /\ Paid(o[2]))
            ~> [](row[o].status \in {"SUCCESS", "REVERSED"})

=============================================================================
