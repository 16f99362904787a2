---------------------------- MODULE PayoutsProofs ----------------------------
(***************************************************************************)
(* The safety of Payouts for any number of payouts, webhooks and polls.    *)
(* That nothing moves without a debit before it holds with every overlap   *)
(* and failure.  That a debit comes back once at most needs updates one at *)
(* a time; that the flag and the counters tell the truth, no call cut      *)
(* short; and the promise to the merchant, no lost answer as well.         *)
(***************************************************************************)
EXTENDS Payouts, FiniteSetTheorems, TLAPS

Steps == {"idle", "take", "call", "query", "read", "update", "refund", "count", "recount"}

ApplierRec == [pc : Steps, item : Payouts \cup {NoPayout}, raw : RawStatuses,
               seen : RowType, tally : [success : Nat, failed : Nat],
               todo : SUBSET Payouts]
JobRec     == [status : {"none", "queued", "running", "over"}, attempts : Nat]
BatchRec   == [status : {"none", "PROCESSING", "COMPLETED", "PARTIALLY_FAILED", "FAILED"},
               success : Nat, failed : Nat]

Typed ==
    /\ provider \in [Payouts -> RawStatuses]
    /\ hooks \subseteq [item : Payouts, raw : RawStatuses]
    /\ row \in [Payouts -> RowType]
    /\ batch \in BatchRec
    /\ req \in [Requests -> {"idle", "checked", "held", "stored", "over"}]
    /\ held \in [Requests -> BOOLEAN]
    /\ refunds \in [Payouts -> Nat]
    /\ job \in [Requests -> JobRec]
    /\ app \in [Appliers -> ApplierRec]
    /\ failures \in Nat

\* A call that changes something has found the row.
OnRow == {"call", "update", "refund", "count", "recount"}
Known ==
    \A a \in Appliers :
        /\ app[a].pc # "idle" => app[a].item \in Payouts
        /\ app[a].pc \in OnRow => Stored(app[a].item)

\* No row without a debit: the request goes on only after it.
HeldFirst ==
    /\ \A q \in Requests : req[q] \in {"held", "stored"} => held[q]
    /\ \A p \in Payouts : Stored(p) => held[RequestOf(p)]

BaseInv == Typed /\ Known /\ HeldFirst /\ MovedOnlyIfHeld

-----------------------------------------------------------------------------
(* Operators of the model *)

LEMMA RequestOfIs ==
    /\ \A p \in Payouts : RequestOf(p) \in Requests
    /\ \A p \in Payouts, q \in Requests : RequestOf(p) = q <=> p \in Items(q)
    /\ \A q \in Requests : Items(q) \subseteq Payouts
    /\ Requests \subseteq Appliers
BY PayoutAssumption DEF RequestOf, Items, Requests, Payouts, Appliers

LEMMA MapType == \A raw \in RawStatuses : MapProviderStatus(raw) \in Statuses
BY DEF RawStatuses, MapProviderStatus, Statuses

\* Each final status has one raw status behind it.
LEMMA MapFinal ==
    \A raw \in RawStatuses :
        /\ MapProviderStatus(raw) = "SUCCESS" <=> raw = "SUCCESS"
        /\ MapProviderStatus(raw) = "FAILED" <=> raw = "FAILED"
        /\ MapProviderStatus(raw) = "REVERSED" <=> raw = "REVERSED"
        /\ MapProviderStatus(raw) \notin {"REFUNDED", "none"}
BY DEF RawStatuses, MapProviderStatus

LEMMA IdleType == Idle \in ApplierRec
BY DEF Idle, ApplierRec, Steps, RawStatuses, RowType, NoRow, NoCounts

-----------------------------------------------------------------------------
(* How a call moves *)

Others(a) == \A b \in Appliers : b # a => app'[b] = app[b]

\* A call takes another step on the same payout.
Keeps(a, pc) ==
    /\ app' \in [Appliers -> ApplierRec] /\ Others(a)
    /\ app'[a].pc = pc
    /\ app'[a].item = app[a].item /\ app'[a].raw = app[a].raw
    /\ app'[a].todo = app[a].todo
    /\ job' = job

\* A call goes on with one of todo, or ends.
Goes(a, todo) ==
    /\ app' \in [Appliers -> ApplierRec] /\ Others(a)
    /\ app'[a].pc \in {"idle", "take", "query"}
    /\ app'[a].pc # "idle" => app'[a].item \in todo
    /\ app'[a].todo \subseteq todo
    /\ app'[a].item \notin app'[a].todo
    /\ job' \in [Requests -> JobRec]
    /\ \A q \in Requests :
          \/ job'[q].status = job[q].status
          \/ q = a /\ job'[q].status = "over" /\ app'[q].pc = "idle"

LEMMA ResumeGoes ==
    ASSUME Typed, NEW a \in Appliers, NEW todo \in SUBSET Payouts, Resume(a, todo)
    PROVE  Goes(a, todo)
<1>1. CASE todo = {} /\ app' = [app EXCEPT ![a] = Idle]
                     /\ job' = IF a \in Requests THEN [job EXCEPT ![a].status = "over"] ELSE job
  <2>1. app' \in [Appliers -> ApplierRec] /\ app'[a] = Idle /\ Others(a)
    BY <1>1, IdleType DEF Typed, Others
  <2>2. job' \in [Requests -> JobRec]
        /\ \A q \in Requests : \/ job'[q].status = job[q].status
                               \/ q = a /\ job'[q].status = "over"
    <3>1. CASE a \notin Requests
      BY <1>1, <3>1 DEF Typed
    <3>2. CASE a \in Requests
      <4>1. job' = [job EXCEPT ![a].status = "over"]
        BY <1>1, <3>2
      <4>. QED
        BY <3>2, <4>1 DEF Typed, JobRec
    <3>. QED
      BY <3>1, <3>2
  <2>. QED
    BY <2>1, <2>2 DEF Goes, Idle
<1>2. ASSUME NEW p \in todo,
             app' = [app EXCEPT ![a] =
                       [Idle EXCEPT !.pc = IF a \in Requests THEN "take" ELSE "query",
                                    !.item = p, !.todo = todo \ {p}]],
             UNCHANGED job
      PROVE  Goes(a, todo)
  <2>. DEFINE pc == IF a \in Requests THEN "take" ELSE "query"
              s == [Idle EXCEPT !.pc = pc, !.item = p, !.todo = todo \ {p}]
  <2>1. s \in ApplierRec /\ s.pc = pc /\ s.item = p /\ s.todo = todo \ {p}
    BY IdleType DEF ApplierRec, Steps
  <2>2. app' = [app EXCEPT ![a] = s] /\ pc \in {"take", "query"}
    BY <1>2
  <2>. HIDE DEF s, pc
  <2>3. app' \in [Appliers -> ApplierRec] /\ app'[a] = s /\ Others(a)
    BY <2>1, <2>2 DEF Typed, Others
  <2>. QED
    BY <1>2, <2>1, <2>2, <2>3 DEF Goes, Typed
<1>. QED
  BY <1>1, <1>2 DEF Resume

LEMMA AfterMoneyGoes ==
    ASSUME Typed, NEW a \in Appliers, AfterMoney(a)
    PROVE  \/ app[a].item \in Batch /\ Keeps(a, "count")
           \/ app[a].item \notin Batch /\ Goes(a, app[a].todo)
<1>1. CASE app[a].item \in Batch
  <2>1. app' = [app EXCEPT ![a].pc = "count"] /\ UNCHANGED job
    BY <1>1 DEF AfterMoney
  <2>. QED
    BY <1>1, <2>1 DEF Keeps, Others, Typed, ApplierRec, Steps
<1>2. CASE app[a].item \notin Batch
  <2>1. app[a].todo \in SUBSET Payouts /\ Resume(a, app[a].todo)
    BY <1>2 DEF AfterMoney, Typed, ApplierRec
  <2>. QED
    BY <1>2, <2>1, ResumeGoes
<1>. QED
  BY <1>1, <1>2

\* A call has heard a status.
Hears(a, raw) ==
    /\ app' \in [Appliers -> ApplierRec] /\ Others(a)
    /\ app'[a].pc = "read" /\ app'[a].raw = raw
    /\ app'[a].item = app[a].item /\ app'[a].todo = app[a].todo
    /\ job' = job

LEMMA AnswerHears ==
    ASSUME Typed, NEW a \in Appliers, NEW raw \in RawStatuses, Answer(a, raw), UNCHANGED job
    PROVE  Hears(a, raw)
<1>. DEFINE s == [app[a] EXCEPT !.pc = "read", !.raw = raw]
<1>1. app[a] \in ApplierRec /\ app \in [Appliers -> ApplierRec]
  BY DEF Typed
<1>2. s \in ApplierRec /\ s.pc = "read" /\ s.raw = raw /\ s.item = app[a].item
      /\ s.todo = app[a].todo
  BY <1>1 DEF ApplierRec, Steps
<1>3. app' = [app EXCEPT ![a] = s]
  BY <1>1 DEF Answer
<1>. HIDE DEF s
<1>4. app' \in [Appliers -> ApplierRec] /\ app'[a] = s /\ Others(a)
  BY <1>1, <1>2, <1>3 DEF Others
<1>. QED
  BY <1>2, <1>4 DEF Hears

restVars == <<hooks, batch, req, held, refunds, failures>>

Delivers(q) ==
    /\ job[q].status = "queued"
    /\ app' \in [Appliers -> ApplierRec] /\ Others(q)
    /\ app'[q].pc = "take" /\ app'[q].item \in Items(q)
    /\ app'[q].todo = Items(q) \ {app'[q].item}
    /\ job' \in [Requests -> JobRec] /\ job'[q].status = "running"
    /\ \A r \in Requests : r # q => job'[r] = job[r]
    /\ UNCHANGED <<provider, row, restVars>>

LEMMA DeliverJobIs ==
    ASSUME Typed, NEW q \in Requests, DeliverJob(q)
    PROVE  Delivers(q)
<1>1. PICK p \in Items(q) :
        app' = [app EXCEPT ![q] = [Idle EXCEPT !.pc = "take", !.item = p,
                                               !.todo = Items(q) \ {p}]]
  BY DEF DeliverJob
<1>. DEFINE s == [Idle EXCEPT !.pc = "take", !.item = p, !.todo = Items(q) \ {p}]
<1>2. s \in ApplierRec /\ s.pc = "take" /\ s.item = p /\ s.todo = Items(q) \ {p}
  BY IdleType, RequestOfIs DEF ApplierRec, Steps
<1>3. app' = [app EXCEPT ![q] = s]
  BY <1>1
<1>. HIDE DEF s
<1>4. app' \in [Appliers -> ApplierRec] /\ app'[q] = s /\ Others(q)
  BY <1>2, <1>3, RequestOfIs DEF Typed, Others
<1>5. /\ job' \in [Requests -> JobRec] /\ job'[q].status = "running"
      /\ \A r \in Requests : r # q => job'[r] = job[r]
  BY DEF DeliverJob, Typed, JobRec
<1>. QED
  BY <1>2, <1>4, <1>5 DEF DeliverJob, Delivers, restVars

Takes(q) ==
    /\ app[q].pc = "take"
    /\ \/ Keeps(q, "call") /\ row[app[q].item].status = "PENDING"
       \/ Goes(q, app[q].todo)
    /\ UNCHANGED <<provider, row, restVars>>

LEMMA TakeItemIs ==
    ASSUME Typed, NEW q \in Requests, TakeItem(q)
    PROVE  Takes(q)
<1>1. q \in Appliers /\ app[q].todo \in SUBSET Payouts
  BY RequestOfIs DEF Typed, ApplierRec
<1>2. CASE row[app[q].item].status = "PENDING"
  <2>1. app' = [app EXCEPT ![q].pc = "call"] /\ job' = job
    BY <1>2 DEF TakeItem
  <2>2. Keeps(q, "call")
    BY <1>1, <2>1 DEF Keeps, Others, Typed, ApplierRec, Steps
  <2>. QED
    BY <1>2, <2>2 DEF Takes, TakeItem, restVars
<1>3. CASE row[app[q].item].status # "PENDING"
  BY <1>1, <1>3, ResumeGoes DEF Takes, TakeItem, restVars
<1>. QED
  BY <1>2, <1>3

Calls(q) ==
    /\ app[q].pc = "call"
    /\ \/ /\ provider[app[q].item] = "none"
          /\ provider' \in [Payouts -> RawStatuses]
          /\ provider'[app[q].item] \in {"AUTHORIZED", "PROCESSING"}
          /\ \A o \in Payouts : o # app[q].item => provider'[o] = provider[o]
          /\ Hears(q, provider'[app[q].item]) \/ (LostAnswers /\ Hears(q, "FAILED"))
       \/ /\ provider[app[q].item] # "none" /\ Hears(q, provider[app[q].item])
          /\ UNCHANGED provider
       \/ Hears(q, "FAILED") /\ UNCHANGED provider
    /\ UNCHANGED <<row, restVars>>

LEMMA CallProviderIs ==
    ASSUME Typed, NEW q \in Requests, CallProvider(q), app[q].item \in Payouts
    PROVE  Calls(q)
<1>. DEFINE p == app[q].item
<1>1. q \in Appliers /\ provider[p] \in RawStatuses /\ "FAILED" \in RawStatuses
      /\ UNCHANGED <<row, job, restVars>> /\ app[q].pc = "call"
  BY RequestOfIs DEF Typed, CallProvider, RawStatuses, restVars
<1>2. ASSUME NEW raw \in {"AUTHORIZED", "PROCESSING"}, provider[p] = "none",
             provider' = [provider EXCEPT ![p] = raw],
             Answer(q, raw) \/ (LostAnswers /\ Answer(q, "FAILED"))
      PROVE  Calls(q)
  <2>1. raw \in RawStatuses
    BY DEF RawStatuses
  <2>2. /\ provider' \in [Payouts -> RawStatuses] /\ provider'[p] = raw
        /\ \A o \in Payouts : o # p => provider'[o] = provider[o]
    BY <1>2, <2>1 DEF Typed
  <2>3. Hears(q, raw) \/ (LostAnswers /\ Hears(q, "FAILED"))
    BY <1>1, <1>2, <2>1, AnswerHears
  <2>. QED
    BY <1>1, <1>2, <2>2, <2>3 DEF Calls
<1>3. CASE provider[p] # "none" /\ Answer(q, provider[p]) /\ UNCHANGED provider
  BY <1>1, <1>3, AnswerHears DEF Calls
<1>4. CASE Answer(q, "FAILED") /\ UNCHANGED provider
  BY <1>1, <1>4, AnswerHears DEF Calls
<1>. QED
  BY <1>2, <1>3, <1>4 DEF CallProvider

Receives(a) ==
    /\ app[a].pc = "idle"
    /\ app' \in [Appliers -> ApplierRec] /\ Others(a)
    /\ \E h \in hooks : app'[a].pc = "read" /\ app'[a].item = h.item /\ app'[a].raw = h.raw
    /\ app'[a].todo = {}
    /\ UNCHANGED <<provider, row, job, restVars>>

LEMMA ReceiveHookIs ==
    ASSUME Typed, NEW a \in Receivers, ReceiveHook(a)
    PROVE  Receives(a)
<1>1. PICK h \in hooks :
        app' = [app EXCEPT ![a] = [Idle EXCEPT !.pc = "read", !.item = h.item, !.raw = h.raw]]
  BY DEF ReceiveHook
<1>. DEFINE s == [Idle EXCEPT !.pc = "read", !.item = h.item, !.raw = h.raw]
<1>2. h.item \in Payouts /\ h.raw \in RawStatuses
  BY DEF Typed
<1>3. s \in ApplierRec /\ s.pc = "read" /\ s.item = h.item /\ s.raw = h.raw /\ s.todo = {}
  BY <1>2, IdleType DEF ApplierRec, Steps, Idle
<1>4. app' = [app EXCEPT ![a] = s]
  BY <1>1
<1>. HIDE DEF s
<1>5. app' \in [Appliers -> ApplierRec] /\ app'[a] = s /\ Others(a)
  BY <1>3, <1>4 DEF Typed, Others, Appliers
<1>. QED
  BY <1>3, <1>5 DEF ReceiveHook, Receives, restVars

Polls(a) ==
    /\ app[a].pc = "idle" /\ Goes(a, Pending)
    /\ UNCHANGED <<provider, row, restVars>>

LEMMA BeginPollIs ==
    ASSUME Typed, NEW a \in Pollers, BeginPoll(a)
    PROVE  Polls(a)
<1>1. a \in Appliers /\ Pending \in SUBSET Payouts
  BY DEF Appliers, Pending
<1>. QED
  BY <1>1, ResumeGoes DEF BeginPoll, Polls, restVars

Queries(a) ==
    /\ app[a].pc = "query"
    /\ \/ provider[app[a].item] # "none" /\ Hears(a, provider[app[a].item])
       \/ Goes(a, app[a].todo)
    /\ UNCHANGED <<provider, hooks, row, batch, req, held, refunds>>
    /\ failures' \in Nat

LEMMA QueryProviderIs ==
    ASSUME Typed, NEW a \in Appliers, QueryProvider(a), app[a].item \in Payouts
    PROVE  Queries(a)
<1>1. provider[app[a].item] \in RawStatuses /\ app[a].todo \in SUBSET Payouts
  BY DEF Typed, ApplierRec
<1>2. failures' \in Nat
  BY DEF QueryProvider, CountFailure, Typed
<1>. QED
  BY <1>1, <1>2, AnswerHears, ResumeGoes DEF QueryProvider, Queries

\* What is read is not yet known to be over.
Reads(a) ==
    /\ app[a].pc = "read"
    /\ \/ Goes(a, app[a].todo)
       \/ /\ Keeps(a, "update") /\ app'[a].seen = row[app[a].item]
          /\ Stored(app[a].item)
          /\ row[app[a].item].status \in Final => row[app[a].item].status # NextStatus(a)
    /\ Cardinality(Applying) < MaxApply
    /\ UNCHANGED <<provider, row, restVars>>

LEMMA ReadRowIs ==
    ASSUME Typed, NEW a \in Appliers, ReadRow(a), app[a].item \in Payouts
    PROVE  Reads(a)
<1>. DEFINE seen == row[app[a].item]
<1>1. seen \in RowType /\ app[a].todo \in SUBSET Payouts
  BY DEF Typed, ApplierRec
<1>2. CASE Resume(a, app[a].todo)
  BY <1>1, <1>2, ResumeGoes DEF ReadRow, Reads, restVars
<1>3. CASE /\ ~(seen.status = "none" \/ (seen.status \in Final /\ seen.status = NextStatus(a)))
           /\ app' = [app EXCEPT ![a].pc = "update", ![a].seen = seen]
           /\ UNCHANGED job
  <2>. DEFINE s == [app[a] EXCEPT !.pc = "update", !.seen = seen]
  <2>2. app[a] \in ApplierRec /\ app \in [Appliers -> ApplierRec]
    BY DEF Typed
  <2>3. s \in ApplierRec /\ s.pc = "update" /\ s.seen = seen /\ s.item = app[a].item
        /\ s.raw = app[a].raw /\ s.todo = app[a].todo
    BY <1>1, <2>2 DEF ApplierRec, Steps
  <2>4. app' = [app EXCEPT ![a] = s]
    BY <1>3, <2>2
  <2>. HIDE DEF s
  <2>5. Keeps(a, "update") /\ app'[a].seen = seen
    BY <1>3, <2>2, <2>3, <2>4 DEF Keeps, Others
  <2>. QED
    BY <1>3, <2>5 DEF ReadRow, Reads, restVars, Stored
<1>. QED
  BY <1>2, <1>3 DEF ReadRow

After(a) ==
    \/ app[a].item \in Batch /\ Keeps(a, "count")
    \/ app[a].item \notin Batch /\ Goes(a, app[a].todo)

Updates(a) ==
    /\ app[a].pc = "update" /\ app[a].item \in Payouts /\ Stored(app[a].item)
    /\ row' \in [Payouts -> RowType]
    /\ row'[app[a].item].status = NextStatus(a) /\ NextStatus(a) # "none"
    /\ row'[app[a].item].refunded = (ShouldRefund(a) \/ app[a].seen.refunded)
    /\ \A p \in Payouts : p # app[a].item => row'[p] = row[p]
    /\ \/ ShouldRefund(a) /\ Keeps(a, "refund")
       \/ ~ShouldRefund(a) /\ After(a)
    /\ UNCHANGED <<provider, restVars>>

LEMMA UpdateRowIs ==
    ASSUME Typed, NEW a \in Appliers, UpdateRow(a), app[a].item \in Payouts,
           Stored(app[a].item)
    PROVE  Updates(a)
<1>. DEFINE refunded == ShouldRefund(a) \/ app[a].seen.refunded
<1>1. refunded \in BOOLEAN /\ NextStatus(a) \in Statuses /\ NextStatus(a) # "none"
  <2>1. app[a].seen \in RowType /\ app[a].raw \in RawStatuses
    BY DEF Typed, ApplierRec
  <2>. QED
    BY <2>1, MapType, MapFinal DEF ShouldRefund, NextStatus, RowType
<1>2. row' = [row EXCEPT ![app[a].item] = [status |-> NextStatus(a), refunded |-> refunded]]
  BY DEF UpdateRow
<1>. HIDE DEF refunded
<1>3. /\ row' \in [Payouts -> RowType]
      /\ row'[app[a].item].status = NextStatus(a) /\ row'[app[a].item].refunded = refunded
      /\ \A p \in Payouts : p # app[a].item => row'[p] = row[p]
  BY <1>1, <1>2 DEF Typed, RowType
<1>4. CASE ShouldRefund(a)
  <2>1. app' = [app EXCEPT ![a].pc = "refund"] /\ job' = job
    BY <1>4 DEF UpdateRow
  <2>2. Keeps(a, "refund")
    BY <2>1 DEF Keeps, Others, Typed, ApplierRec, Steps
  <2>. QED
    BY <1>1, <1>3, <1>4, <2>2 DEF UpdateRow, Updates, restVars, refunded
<1>5. CASE ~ShouldRefund(a)
  <2>1. After(a)
    BY <1>5, AfterMoneyGoes DEF UpdateRow, After
  <2>. QED
    BY <1>1, <1>3, <1>5, <2>1 DEF UpdateRow, Updates, restVars, refunded
<1>. QED
  BY <1>4, <1>5

Refunds(a) ==
    /\ app[a].pc = "refund" /\ app[a].item \in Payouts /\ Stored(app[a].item)
    /\ refunds' \in [Payouts -> Nat]
    /\ refunds'[app[a].item] = refunds[app[a].item] + 1
    /\ \A p \in Payouts : p # app[a].item => refunds'[p] = refunds[p]
    /\ After(a)
    /\ UNCHANGED <<provider, hooks, row, batch, req, held, failures>>

LEMMA RefundWalletIs ==
    ASSUME Typed, NEW a \in Appliers, RefundWallet(a), app[a].item \in Payouts,
           Stored(app[a].item)
    PROVE  Refunds(a)
<1>1. /\ refunds' \in [Payouts -> Nat]
      /\ refunds'[app[a].item] = refunds[app[a].item] + 1
      /\ \A p \in Payouts : p # app[a].item => refunds'[p] = refunds[p]
  BY DEF RefundWallet, Typed
<1>2. After(a)
  BY AfterMoneyGoes DEF RefundWallet, After
<1>. QED
  BY <1>1, <1>2 DEF RefundWallet, Refunds

Counts(a) ==
    /\ app[a].pc = "count" /\ Keeps(a, "recount")
    /\ app'[a].tally.success = Count({"SUCCESS"}) /\ app'[a].tally.failed = Count(TerminalFail)
    /\ UNCHANGED <<provider, row, restVars>>

LEMMA CountIs == \A S : Count(S) \in Nat
<1>1. IsFiniteSet(Batch)
  BY PayoutAssumption, FS_Subset DEF Payouts
<1>2. \A S : IsFiniteSet({p \in Batch : row[p].status \in S})
  BY <1>1, FS_Subset
<1>. QED
  BY <1>2, FS_CardinalityType DEF Count

LEMMA CountItemsIs ==
    ASSUME Typed, NEW a \in Appliers, CountItems(a)
    PROVE  Counts(a)
<1>. DEFINE n == Count({"SUCCESS"})
            m == Count(TerminalFail)
<1>1. n \in Nat /\ m \in Nat
  BY CountIs
<1>2. app' = [app EXCEPT ![a].pc = "recount", ![a].tally = [success |-> n, failed |-> m]]
      /\ job' = job
  BY DEF CountItems
<1>. HIDE DEF n, m
<1>3. Keeps(a, "recount") /\ app'[a].tally.success = n /\ app'[a].tally.failed = m
  BY <1>1, <1>2 DEF Keeps, Others, Typed, ApplierRec, Steps
<1>. QED
  BY <1>3 DEF CountItems, Counts, restVars, n, m

Writes(a) ==
    /\ app[a].pc = "recount" /\ Goes(a, app[a].todo)
    /\ batch' = [status |-> BatchStatus(app[a].tally), success |-> app[a].tally.success,
                 failed |-> app[a].tally.failed]
    /\ batch' \in BatchRec
    /\ UNCHANGED <<provider, hooks, row, req, held, refunds, failures>>

LEMMA WriteCountersIs ==
    ASSUME Typed, NEW a \in Appliers, WriteCounters(a)
    PROVE  Writes(a)
<1>1. app[a].todo \in SUBSET Payouts /\ app[a].tally.success \in Nat /\ app[a].tally.failed \in Nat
  BY DEF Typed, ApplierRec
<1>2. BatchStatus(app[a].tally) \in {"PROCESSING", "COMPLETED", "PARTIALLY_FAILED", "FAILED"}
  BY DEF BatchStatus
<1>3. Goes(a, app[a].todo)
  BY <1>1, ResumeGoes DEF WriteCounters
<1>. QED
  BY <1>1, <1>2, <1>3 DEF WriteCounters, Writes, BatchRec

Dies(a) ==
    /\ app[a].pc # "idle" /\ CountFailure
    /\ app' \in [Appliers -> ApplierRec] /\ Others(a)
    /\ app'[a].pc = "idle" /\ app'[a].todo = {}
    /\ job' \in [Requests -> JobRec]
    /\ \A q \in Requests : q # a => job'[q] = job[q]
    /\ UNCHANGED <<provider, hooks, row, batch, req, held, refunds>>

LEMMA ApplierDiesIs ==
    ASSUME Typed, NEW a \in Appliers, ApplierDies(a)
    PROVE  Dies(a)
<1>1. app' \in [Appliers -> ApplierRec] /\ Others(a) /\ app'[a] = Idle
  BY IdleType DEF ApplierDies, Typed, Others
<1>2. job' \in [Requests -> JobRec] /\ \A q \in Requests : q # a => job'[q] = job[q]
  <2>1. ASSUME NEW s \in {"queued", "over"}, job' = [job EXCEPT ![a].status = s]
        PROVE  job' \in [Requests -> JobRec] /\ \A q \in Requests : q # a => job'[q] = job[q]
    BY <2>1 DEF Typed, JobRec
  <2>. QED
    BY <2>1 DEF ApplierDies, Typed
<1>. QED
  BY <1>1, <1>2 DEF ApplierDies, Dies, Idle

-----------------------------------------------------------------------------
(* Nothing moves without a debit *)

RowsStay == \A p \in Payouts : Stored(p) => row'[p].status # "none"

LEMMA KnownRests ==
    ASSUME BaseInv, UNCHANGED app, RowsStay
    PROVE  Known'
BY DEF BaseInv, Known, RowsStay, Stored, OnRow

LEMMA KnownGoes ==
    ASSUME BaseInv, RowsStay, NEW a \in Appliers, NEW todo \in SUBSET Payouts, Goes(a, todo)
    PROVE  Known'
<1>1. ASSUME NEW b \in Appliers
      PROVE  /\ app'[b].pc # "idle" => app'[b].item \in Payouts
             /\ app'[b].pc \in OnRow => row'[app'[b].item].status # "none"
  <2>1. CASE b = a
    BY <2>1 DEF Goes, OnRow
  <2>2. CASE b # a
    BY <2>2 DEF Goes, Others, BaseInv, Known, RowsStay, Stored, OnRow
  <2>. QED
    BY <2>1, <2>2
<1>. QED
  BY <1>1 DEF Known, Stored

LEMMA KnownKeeps ==
    ASSUME BaseInv, RowsStay, NEW a \in Appliers, NEW pc, Keeps(a, pc),
           app[a].item \in Payouts, pc \in OnRow => Stored(app[a].item)
    PROVE  Known'
<1>1. ASSUME NEW b \in Appliers
      PROVE  /\ app'[b].pc # "idle" => app'[b].item \in Payouts
             /\ app'[b].pc \in OnRow => row'[app'[b].item].status # "none"
  <2>1. CASE b = a
    BY <2>1 DEF Keeps, RowsStay
  <2>2. CASE b # a
    BY <2>2 DEF Keeps, Others, BaseInv, Known, RowsStay, Stored, OnRow
  <2>. QED
    BY <2>1, <2>2
<1>. QED
  BY <1>1 DEF Known, Stored

\* A step that debits nothing and stores no new row.
LEMMA BaseKept ==
    ASSUME BaseInv, Typed', Known', UNCHANGED <<req, held>>,
           \A p \in Payouts : row'[p].status # "none" => Stored(p),
           \A p \in Payouts : (provider'[p] # "none" \/ refunds'[p] > 0)
               => (provider[p] # "none" \/ refunds[p] > 0 \/ Stored(p))
    PROVE  BaseInv'
BY DEF BaseInv, HeldFirst, MovedOnlyIfHeld, Stored

LEMMA InitBase == Init => BaseInv
<1>. SUFFICES ASSUME Init
              PROVE  BaseInv
  OBVIOUS
<1>1. Typed
  BY IdleType DEF Init, Typed, RawStatuses, RowType, NoRow, BatchRec, JobRec
<1>2. Known
  BY DEF Init, Known, Idle, OnRow
<1>3. HeldFirst /\ MovedOnlyIfHeld
  BY DEF Init, HeldFirst, MovedOnlyIfHeld, Stored, NoRow
<1>. QED
  BY <1>1, <1>2, <1>3 DEF BaseInv

\* What one step of the provider is.
ProviderStep(p) ==
    /\ provider[p] # "none"
    /\ provider' \in [Payouts -> RawStatuses]
    /\ provider'[p] \in NextRaw(provider[p])
    /\ \A o \in Payouts : o # p => provider'[o] = provider[o]
    /\ hooks' = hooks \cup {[item |-> p, raw |-> provider'[p]]}
    /\ UNCHANGED <<row, batch, req, held, refunds, job, app, failures>>

LEMMA ProviderMovesIs ==
    ASSUME Typed, NEW p \in Payouts, ProviderMoves(p)
    PROVE  ProviderStep(p)
<1>1. PICK raw \in NextRaw(provider[p]) :
         /\ provider' = [provider EXCEPT ![p] = raw]
         /\ hooks' = hooks \cup {[item |-> p, raw |-> raw]}
  BY DEF ProviderMoves
<1>2. provider[p] # "none" /\ raw \in RawStatuses
  BY DEF NextRaw, RawStatuses
<1>3. /\ provider' \in [Payouts -> RawStatuses]
      /\ provider'[p] = raw
      /\ \A o \in Payouts : o # p => provider'[o] = provider[o]
  BY <1>1, <1>2 DEF Typed
<1>. QED
  BY <1>1, <1>2, <1>3 DEF ProviderMoves, ProviderStep

LEMMA ProviderBase ==
    ASSUME BaseInv, NEW p \in Payouts, ProviderStep(p)
    PROVE  BaseInv'
<1>1. provider'[p] \in RawStatuses
  BY DEF ProviderStep
<1>2. Typed'
  BY <1>1 DEF BaseInv, Typed, ProviderStep
<1>3. Known'
  BY KnownRests DEF ProviderStep, RowsStay, Stored
<1>. QED
  BY <1>2, <1>3, BaseKept DEF ProviderStep, Stored

LEMMA CheckReferenceBase ==
    ASSUME BaseInv, NEW q \in Requests, CheckReference(q)
    PROVE  BaseInv'
<1>1. Typed'
  BY DEF CheckReference, BaseInv, Typed
<1>2. Known'
  BY KnownRests DEF CheckReference, RowsStay, Stored
<1>3. HeldFirst' /\ MovedOnlyIfHeld'
  BY DEF CheckReference, BaseInv, Typed, HeldFirst, MovedOnlyIfHeld, Stored
<1>. QED
  BY <1>1, <1>2, <1>3 DEF BaseInv

LEMMA DebitWalletBase ==
    ASSUME BaseInv, NEW q \in Requests, DebitWallet(q)
    PROVE  BaseInv'
<1>1. Typed'
  BY DEF DebitWallet, BaseInv, Typed
<1>2. Known'
  BY KnownRests DEF DebitWallet, RowsStay, Stored
<1>3. \A r \in Requests : held[r] => held'[r]
  BY DEF DebitWallet, BaseInv, Typed
<1>4. HeldFirst' /\ MovedOnlyIfHeld'
  BY <1>3, RequestOfIs DEF DebitWallet, BaseInv, Typed, HeldFirst, MovedOnlyIfHeld, Stored
<1>. QED
  BY <1>1, <1>2, <1>4 DEF BaseInv

\* The rows of a request appear together.
Stores(q) ==
    /\ req[q] = "held" /\ req' = [req EXCEPT ![q] = "stored"]
    /\ row' \in [Payouts -> RowType]
    /\ \A p \in Items(q) : row'[p].status = "PENDING" /\ row'[p].refunded = FALSE
    /\ \A p \in Payouts : p \notin Items(q) => row'[p] = row[p]
    /\ batch' = IF q = BatchRequest THEN [batch EXCEPT !.status = "PROCESSING"] ELSE batch
    /\ UNCHANGED <<provider, hooks, held, refunds, job, app, failures>>

LEMMA StoreRowsIs ==
    ASSUME Typed, NEW q \in Requests, StoreRows(q)
    PROVE  \/ Stores(q)
           \/ /\ req[q] = "held" /\ req' = [req EXCEPT ![q] = "over"]
              /\ UNCHANGED <<provider, hooks, row, batch, held, refunds, job, app, failures>>
<1>1. CASE ReferenceTaken(q)
  BY <1>1 DEF StoreRows
<1>2. CASE ~ReferenceTaken(q)
  <2>. DEFINE new == [NoRow EXCEPT !.status = "PENDING"]
  <2>1. new \in RowType /\ new.status = "PENDING" /\ new.refunded = FALSE
    BY DEF NoRow, RowType, Statuses
  <2>2. row' = [p \in Payouts |-> IF p \in Items(q) THEN new ELSE row[p]]
    BY <1>2 DEF StoreRows
  <2>. HIDE DEF new
  <2>3. /\ row' \in [Payouts -> RowType]
        /\ \A p \in Items(q) : row'[p].status = "PENDING" /\ row'[p].refunded = FALSE
        /\ \A p \in Payouts : p \notin Items(q) => row'[p] = row[p]
    BY <2>1, <2>2, RequestOfIs DEF Typed
  <2>. QED
    BY <1>2, <2>3 DEF StoreRows, Stores
<1>. QED
  BY <1>1, <1>2

LEMMA StoreRowsBase ==
    ASSUME BaseInv, NEW q \in Requests, StoreRows(q)
    PROVE  BaseInv'
<1>1. CASE Stores(q)
  <2>1. Typed'
    BY <1>1 DEF Stores, BaseInv, Typed, BatchRec
  <2>2. \A p \in Payouts : row'[p].status # "none" => Stored(p) \/ p \in Items(q)
    BY <1>1 DEF Stores, Stored
  <2>3. RowsStay
    BY <1>1 DEF Stores, RowsStay, Stored
  <2>4. Known'
    BY <1>1, <2>3, KnownRests DEF Stores
  <2>5. held[q]
    BY <1>1 DEF Stores, BaseInv, HeldFirst
  <2>6. HeldFirst'
    BY <1>1, <2>2, <2>5, RequestOfIs DEF Stores, BaseInv, Typed, HeldFirst, Stored
  <2>7. MovedOnlyIfHeld'
    BY <1>1 DEF Stores, BaseInv, MovedOnlyIfHeld
  <2>. QED
    BY <2>1, <2>4, <2>6, <2>7 DEF BaseInv
<1>2. CASE /\ req' = [req EXCEPT ![q] = "over"]
           /\ UNCHANGED <<provider, hooks, row, batch, held, refunds, job, app, failures>>
  <2>1. Typed'
    BY <1>2 DEF BaseInv, Typed
  <2>2. Known'
    BY <1>2, KnownRests DEF RowsStay, Stored
  <2>3. HeldFirst' /\ MovedOnlyIfHeld'
    BY <1>2 DEF BaseInv, Typed, HeldFirst, MovedOnlyIfHeld, Stored
  <2>. QED
    BY <2>1, <2>2, <2>3 DEF BaseInv
<1>. QED
  BY <1>1, <1>2, StoreRowsIs DEF BaseInv

LEMMA EnqueueJobBase ==
    ASSUME BaseInv, NEW q \in Requests, EnqueueJob(q)
    PROVE  BaseInv'
<1>1. job' \in [Requests -> JobRec] /\ req' \in [Requests -> {"idle", "checked", "held", "stored", "over"}]
  BY DEF EnqueueJob, BaseInv, Typed, JobRec
<1>2. Typed'
  BY <1>1 DEF EnqueueJob, BaseInv, Typed
<1>3. Known'
  BY KnownRests DEF EnqueueJob, RowsStay, Stored
<1>4. HeldFirst' /\ MovedOnlyIfHeld'
  BY DEF EnqueueJob, BaseInv, Typed, HeldFirst, MovedOnlyIfHeld, Stored
<1>. QED
  BY <1>2, <1>3, <1>4 DEF BaseInv

LEMMA RequestDiesBase ==
    ASSUME BaseInv, NEW q \in Requests, RequestDies(q)
    PROVE  BaseInv'
<1>1. Typed'
  BY DEF RequestDies, CountFailure, BaseInv, Typed
<1>2. Known'
  BY KnownRests DEF RequestDies, RowsStay, Stored
<1>3. HeldFirst' /\ MovedOnlyIfHeld'
  BY DEF RequestDies, BaseInv, Typed, HeldFirst, MovedOnlyIfHeld, Stored
<1>. QED
  BY <1>1, <1>2, <1>3 DEF BaseInv

LEMMA CallStep ==
    ASSUME BaseInv, NEW a \in Appliers, app[a].pc # "idle"
    PROVE  /\ app[a].item \in Payouts /\ app[a].todo \in SUBSET Payouts
           /\ app[a].pc \in OnRow => Stored(app[a].item)
BY DEF BaseInv, Known, Typed, ApplierRec

\* A step of a call that writes no row leaves the rest as it is.
LEMMA BaseOfCall ==
    ASSUME BaseInv, Known', app' \in [Appliers -> ApplierRec], job' \in [Requests -> JobRec],
           batch' \in BatchRec, failures' \in Nat,
           UNCHANGED <<provider, hooks, row, req, held, refunds>>
    PROVE  BaseInv'
<1>1. Typed'
  BY DEF BaseInv, Typed
<1>. QED
  BY <1>1, BaseKept DEF Stored

LEMMA RowsSame == ASSUME UNCHANGED row PROVE RowsStay
BY DEF RowsStay, Stored

LEMMA DeliverJobBase ==
    ASSUME BaseInv, NEW q \in Requests, Delivers(q)
    PROVE  BaseInv'
<1>1. ASSUME NEW b \in Appliers
      PROVE  /\ app'[b].pc # "idle" => app'[b].item \in Payouts
             /\ app'[b].pc \in OnRow => row'[app'[b].item].status # "none"
  BY RequestOfIs DEF Delivers, Others, BaseInv, Known, Stored, OnRow
<1>2. Known'
  BY <1>1 DEF Known, Stored
<1>. QED
  BY <1>2, BaseOfCall DEF Delivers, restVars, BaseInv, Typed

LEMMA TakeItemBase ==
    ASSUME BaseInv, NEW q \in Requests, Takes(q)
    PROVE  BaseInv'
<1>1. q \in Appliers /\ app[q].item \in Payouts /\ app[q].todo \in SUBSET Payouts
  BY RequestOfIs, CallStep DEF Takes
<1>2. Known'
  BY <1>1, RowsSame, KnownKeeps, KnownGoes DEF Takes, Stored
<1>. QED
  BY <1>1, <1>2, BaseOfCall DEF Takes, Keeps, Goes, restVars, BaseInv, Typed

LEMMA KnownHears ==
    ASSUME BaseInv, UNCHANGED row, NEW a \in Appliers, NEW raw, Hears(a, raw),
           app[a].item \in Payouts
    PROVE  Known'
<1>1. ASSUME NEW b \in Appliers
      PROVE  /\ app'[b].pc # "idle" => app'[b].item \in Payouts
             /\ app'[b].pc \in OnRow => row'[app'[b].item].status # "none"
  BY DEF Hears, Others, BaseInv, Known, Stored, OnRow
<1>. QED
  BY <1>1 DEF Known, Stored

LEMMA CallProviderBase ==
    ASSUME BaseInv, NEW q \in Requests, Calls(q)
    PROVE  BaseInv'
<1>1. q \in Appliers /\ app[q].item \in Payouts /\ Stored(app[q].item)
  BY RequestOfIs, CallStep DEF Calls, OnRow
<1>2. Known' /\ app' \in [Appliers -> ApplierRec] /\ job' = job
  BY <1>1, KnownHears DEF Calls, Hears
<1>3. provider' \in [Payouts -> RawStatuses]
      /\ \A p \in Payouts : p # app[q].item => provider'[p] = provider[p]
  BY DEF Calls, BaseInv, Typed
<1>4. Typed'
  BY <1>2, <1>3 DEF Calls, restVars, BaseInv, Typed
<1>5. \A p \in Payouts : provider'[p] # "none" => provider[p] # "none" \/ Stored(p)
  BY <1>1, <1>3
<1>. QED
  BY <1>2, <1>4, <1>5, BaseKept DEF Calls, restVars, Stored

LEMMA ReceiveHookBase ==
    ASSUME BaseInv, NEW a \in Receivers, Receives(a)
    PROVE  BaseInv'
<1>1. ASSUME NEW b \in Appliers
      PROVE  /\ app'[b].pc # "idle" => app'[b].item \in Payouts
             /\ app'[b].pc \in OnRow => row'[app'[b].item].status # "none"
  BY DEF Receives, Others, BaseInv, Typed, Known, Stored, OnRow
<1>2. Known'
  BY <1>1 DEF Known, Stored
<1>. QED
  BY <1>2, BaseOfCall DEF Receives, restVars, BaseInv, Typed

LEMMA BeginPollBase ==
    ASSUME BaseInv, NEW a \in Pollers, Polls(a)
    PROVE  BaseInv'
<1>1. a \in Appliers /\ Pending \in SUBSET Payouts
  BY DEF Appliers, Pending
<1>2. Known'
  BY <1>1, RowsSame, KnownGoes DEF Polls
<1>. QED
  BY <1>2, BaseOfCall DEF Polls, Goes, restVars, BaseInv, Typed

LEMMA QueryProviderBase ==
    ASSUME BaseInv, NEW a \in Appliers, Queries(a)
    PROVE  BaseInv'
<1>1. app[a].item \in Payouts /\ app[a].todo \in SUBSET Payouts
  BY CallStep DEF Queries
<1>2. Known'
  BY <1>1, RowsSame, KnownHears, KnownGoes DEF Queries
<1>. QED
  BY <1>2, BaseOfCall DEF Queries, Hears, Goes, BaseInv, Typed

LEMMA ReadRowBase ==
    ASSUME BaseInv, NEW a \in Appliers, Reads(a)
    PROVE  BaseInv'
<1>1. app[a].item \in Payouts /\ app[a].todo \in SUBSET Payouts
  BY CallStep DEF Reads
<1>2. Known'
  BY <1>1, RowsSame, KnownKeeps, KnownGoes DEF Reads
<1>. QED
  BY <1>2, BaseOfCall DEF Reads, Keeps, Goes, restVars, BaseInv, Typed

LEMMA KnownAfter ==
    ASSUME BaseInv, RowsStay, NEW a \in Appliers, After(a), app[a].item \in Payouts,
           Stored(app[a].item), app[a].todo \in SUBSET Payouts
    PROVE  Known' /\ app' \in [Appliers -> ApplierRec] /\ job' \in [Requests -> JobRec]
<1>1. Known'
  BY KnownKeeps, KnownGoes DEF After
<1>. QED
  BY <1>1 DEF After, Keeps, Goes, BaseInv, Typed

LEMMA UpdateRowBase ==
    ASSUME BaseInv, NEW a \in Appliers, Updates(a)
    PROVE  BaseInv'
<1>1. app[a].item \in Payouts /\ app[a].todo \in SUBSET Payouts /\ Stored(app[a].item)
  BY CallStep DEF Updates
<1>2. RowsStay
  BY DEF Updates, RowsStay, Stored
<1>3. Known' /\ app' \in [Appliers -> ApplierRec] /\ job' \in [Requests -> JobRec]
  <2>1. CASE Keeps(a, "refund")
    BY <1>1, <1>2, <2>1, KnownKeeps DEF Keeps, BaseInv, Typed
  <2>2. CASE After(a)
    BY <1>1, <1>2, <2>2, KnownAfter
  <2>. QED
    BY <2>1, <2>2 DEF Updates
<1>4. Typed'
  BY <1>3 DEF Updates, restVars, BaseInv, Typed
<1>5. \A p \in Payouts : row'[p].status # "none" => Stored(p)
  BY <1>1 DEF Updates, Stored
<1>. QED
  BY <1>3, <1>4, <1>5, BaseKept DEF Updates, restVars

LEMMA RefundWalletBase ==
    ASSUME BaseInv, NEW a \in Appliers, Refunds(a)
    PROVE  BaseInv'
<1>1. app[a].item \in Payouts /\ app[a].todo \in SUBSET Payouts /\ Stored(app[a].item)
  BY CallStep DEF Refunds
<1>2. Known' /\ app' \in [Appliers -> ApplierRec] /\ job' \in [Requests -> JobRec]
  BY <1>1, RowsSame, KnownAfter DEF Refunds
<1>3. Typed'
  BY <1>2 DEF Refunds, BaseInv, Typed
<1>4. \A p \in Payouts : refunds'[p] > 0 => refunds[p] > 0 \/ Stored(p)
  BY <1>1 DEF Refunds
<1>. QED
  BY <1>2, <1>3, <1>4, BaseKept DEF Refunds, Stored

LEMMA CountItemsBase ==
    ASSUME BaseInv, NEW a \in Appliers, Counts(a)
    PROVE  BaseInv'
<1>1. app[a].item \in Payouts /\ Stored(app[a].item)
  BY CallStep DEF Counts, OnRow
<1>2. Known'
  BY <1>1, RowsSame, KnownKeeps DEF Counts
<1>. QED
  BY <1>2, BaseOfCall DEF Counts, Keeps, restVars, BaseInv, Typed

LEMMA WriteCountersBase ==
    ASSUME BaseInv, NEW a \in Appliers, Writes(a)
    PROVE  BaseInv'
<1>1. app[a].todo \in SUBSET Payouts
  BY CallStep DEF Writes
<1>2. Known'
  BY <1>1, RowsSame, KnownGoes DEF Writes
<1>. QED
  BY <1>2, BaseOfCall DEF Writes, Goes, BaseInv, Typed

LEMMA ApplierDiesBase ==
    ASSUME BaseInv, NEW a \in Appliers, Dies(a)
    PROVE  BaseInv'
<1>1. ASSUME NEW b \in Appliers
      PROVE  /\ app'[b].pc # "idle" => app'[b].item \in Payouts
             /\ app'[b].pc \in OnRow => row'[app'[b].item].status # "none"
  BY DEF Dies, Others, BaseInv, Known, Stored, OnRow
<1>2. Known'
  BY <1>1 DEF Known, Stored
<1>. QED
  BY <1>2, BaseOfCall DEF Dies, CountFailure, BaseInv, Typed

\* The steps, each as what it does.
Does ==
    \/ \E p \in Payouts : ProviderStep(p)
    \/ \E q \in Requests :
        \/ CheckReference(q) \/ DebitWallet(q) \/ EnqueueJob(q) \/ RequestDies(q)
        \/ StoreRows(q) \/ Delivers(q) \/ Takes(q) \/ Calls(q)
    \/ \E a \in Receivers : Receives(a)
    \/ \E a \in Pollers : Polls(a)
    \/ \E a \in Appliers :
        \/ Queries(a) \/ Reads(a) \/ Updates(a) \/ Refunds(a) \/ Counts(a) \/ Writes(a)
        \/ Dies(a)
    \/ UNCHANGED vars

LEMMA NextDoes ==
    ASSUME BaseInv, [Next]_vars
    PROVE  Does
<1>0. Typed
  BY DEF BaseInv
<1>1. ASSUME NEW p \in Payouts, ProviderMoves(p)
      PROVE  Does
  BY <1>0, <1>1, ProviderMovesIs DEF Does
<1>2. ASSUME NEW q \in Requests,
             CheckReference(q) \/ DebitWallet(q) \/ EnqueueJob(q) \/ RequestDies(q) \/ StoreRows(q)
      PROVE  Does
  BY <1>2 DEF Does
<1>3. ASSUME NEW q \in Requests, DeliverJob(q)
      PROVE  Does
  BY <1>0, <1>3, DeliverJobIs DEF Does
<1>4. ASSUME NEW q \in Requests, TakeItem(q)
      PROVE  Does
  BY <1>0, <1>4, TakeItemIs DEF Does
<1>5. ASSUME NEW q \in Requests, CallProvider(q)
      PROVE  Does
  <2>1. app[q].item \in Payouts
    BY <1>5, RequestOfIs, CallStep DEF CallProvider
  <2>. QED
    BY <1>0, <1>5, <2>1, CallProviderIs DEF Does
<1>6. ASSUME NEW a \in Receivers, ReceiveHook(a)
      PROVE  Does
  BY <1>0, <1>6, ReceiveHookIs DEF Does
<1>7. ASSUME NEW a \in Pollers, BeginPoll(a)
      PROVE  Does
  BY <1>0, <1>7, BeginPollIs DEF Does
<1>8. ASSUME NEW a \in Appliers, QueryProvider(a)
      PROVE  Does
  <2>1. app[a].item \in Payouts
    BY <1>8, CallStep DEF QueryProvider
  <2>. QED
    BY <1>0, <1>8, <2>1, QueryProviderIs DEF Does
<1>9. ASSUME NEW a \in Appliers, ReadRow(a)
      PROVE  Does
  <2>1. app[a].item \in Payouts
    BY <1>9, CallStep DEF ReadRow
  <2>. QED
    BY <1>0, <1>9, <2>1, ReadRowIs DEF Does
<1>10. ASSUME NEW a \in Appliers, UpdateRow(a)
       PROVE  Does
  <2>1. app[a].item \in Payouts /\ Stored(app[a].item)
    BY <1>10, CallStep DEF UpdateRow, OnRow
  <2>. QED
    BY <1>0, <1>10, <2>1, UpdateRowIs DEF Does
<1>11. ASSUME NEW a \in Appliers, RefundWallet(a)
       PROVE  Does
  <2>1. app[a].item \in Payouts /\ Stored(app[a].item)
    BY <1>11, CallStep DEF RefundWallet, OnRow
  <2>. QED
    BY <1>0, <1>11, <2>1, RefundWalletIs DEF Does
<1>12. ASSUME NEW a \in Appliers, CountItems(a)
       PROVE  Does
  BY <1>0, <1>12, CountItemsIs DEF Does
<1>13. ASSUME NEW a \in Appliers, WriteCounters(a)
       PROVE  Does
  BY <1>0, <1>13, WriteCountersIs DEF Does
<1>14. ASSUME NEW a \in Appliers, ApplierDies(a)
       PROVE  Does
  BY <1>0, <1>14, ApplierDiesIs DEF Does
<1>15. ASSUME UNCHANGED vars
       PROVE  Does
  BY <1>15 DEF Does
<1>. QED
  BY <1>1, <1>2, <1>3, <1>4, <1>5, <1>6, <1>7, <1>8, <1>9, <1>10, <1>11, <1>12, <1>13,
     <1>14, <1>15 DEF Next, RequestStep, JobStep, ApplyStep

LEMMA NextBase ==
    ASSUME BaseInv, [Next]_vars
    PROVE  BaseInv'
<1>1. CASE UNCHANGED vars
  BY <1>1 DEF vars, BaseInv, Typed, Known, HeldFirst, MovedOnlyIfHeld, Stored
<1>. QED
  BY <1>1, NextDoes, ProviderBase, CheckReferenceBase, DebitWalletBase, EnqueueJobBase,
     RequestDiesBase, StoreRowsBase, DeliverJobBase, TakeItemBase, CallProviderBase,
     ReceiveHookBase, BeginPollBase, QueryProviderBase, ReadRowBase, UpdateRowBase,
     RefundWalletBase, CountItemsBase, WriteCountersBase, ApplierDiesBase
  DEF Does

TypeInv == BaseInv /\ delivered \in Nat

\* Every variable keeps its type, with whatever overlaps and fails.
THEOREM TypeCorrect == Spec => []TypeOK
<1>1. TypeInv /\ [Next]_vars => TypeInv'
  <2>. SUFFICES ASSUME TypeInv, [Next]_vars PROVE delivered' \in Nat
    BY NextBase DEF TypeInv
  <2>0. delivered \in Nat
    BY DEF TypeInv
  <2>1. ASSUME NEW a \in Receivers, ReceiveHook(a) PROVE delivered' \in Nat
    <3>1. delivered' = delivered + 1
      BY <2>1 DEF ReceiveHook
    <3>. QED
      BY <2>0, <3>1
  <2>2. ASSUME NEW q \in Requests, CheckReference(q) \/ RequestStep(q) \/ RequestDies(q)
        PROVE  UNCHANGED delivered
    BY <2>2 DEF CheckReference, RequestStep, DebitWallet, StoreRows, EnqueueJob, RequestDies
  <2>3. ASSUME NEW q \in Requests, JobStep(q) PROVE UNCHANGED delivered
    <3>1. CASE DeliverJob(q)
      BY <3>1 DEF DeliverJob
    <3>2. CASE TakeItem(q)
      BY <3>2 DEF TakeItem
    <3>3. CASE CallProvider(q)
      BY <3>3 DEF CallProvider
    <3>. QED
      BY <2>3, <3>1, <3>2, <3>3 DEF JobStep
  <2>4. ASSUME NEW a \in Appliers, ReadRow(a) \/ ApplierDies(a) PROVE UNCHANGED delivered
    BY <2>4 DEF ReadRow, ApplierDies
  <2>5. ASSUME NEW a \in Appliers, ApplyStep(a) PROVE UNCHANGED delivered
    BY <2>5 DEF ApplyStep, QueryProvider, UpdateRow, RefundWallet, CountItems, WriteCounters
  <2>6. ASSUME NEW p \in Payouts, ProviderMoves(p) PROVE UNCHANGED delivered
    BY <2>6 DEF ProviderMoves
  <2>7. ASSUME NEW a \in Pollers, BeginPoll(a) PROVE UNCHANGED delivered
    BY <2>7 DEF BeginPoll
  <2>. QED
    BY <2>0, <2>1, <2>2, <2>3, <2>4, <2>5, <2>6, <2>7 DEF Next, vars
<1>2. Init => TypeInv
  BY InitBase DEF Init, TypeInv
<1>3. TypeInv => TypeOK
  <2>. SUFFICES ASSUME BaseInv, delivered \in Nat PROVE TypeOK
    BY DEF TypeInv
  <2>1. Typed
    BY DEF BaseInv
  <2>2. ASSUME NEW a \in Appliers PROVE ApplierType(app[a])
    <3>1. app[a] \in ApplierRec
      BY <2>1 DEF Typed
    <3>. QED
      BY <3>1 DEF ApplierRec, ApplierType, Steps
  <2>3. /\ batch.status \in {"none", "PROCESSING", "COMPLETED", "PARTIALLY_FAILED", "FAILED"}
        /\ batch.success \in Nat /\ batch.failed \in Nat
    BY <2>1 DEF Typed, BatchRec
  <2>4. job \in [Requests -> [status : {"none", "queued", "running", "over"},
                             attempts : Nat]]
    BY <2>1 DEF Typed, JobRec
  <2>5. /\ provider \in [Payouts -> RawStatuses] /\ row \in [Payouts -> RowType]
        /\ hooks \subseteq [item : Payouts, raw : RawStatuses]
        /\ req \in [Requests -> {"idle", "checked", "held", "stored", "over"}]
        /\ held \in [Requests -> BOOLEAN] /\ refunds \in [Payouts -> Nat] /\ failures \in Nat
    BY <2>1 DEF Typed
  <2>. QED
    BY <2>2, <2>3, <2>4, <2>5 DEF TypeOK
<1>. QED
  BY <1>1, <1>2, <1>3, PTL DEF Spec

\* No money leaves, and none comes back, without a debit of the wallet before
\* it, with every crash, redelivery and late answer (createPayout, createBatch,
\* createWithdrawal debit first; the job and the status engine need the row).
THEOREM DebitComesFirst == Spec => []MovedOnlyIfHeld
<1>1. BaseInv => MovedOnlyIfHeld
  BY DEF BaseInv
<1>. QED
  BY InitBase, NextBase, <1>1, PTL DEF Spec

-----------------------------------------------------------------------------
(* A job is in one place *)

JobsInv ==
    \A q \in Requests :
        /\ req[q] # "over" => job[q].status = "none"
        /\ job[q].status # "running" => app[q].pc = "idle"

LEMMA JobsInit == Init => JobsInv
BY RequestOfIs DEF Init, JobsInv, Idle

LEMMA JobsOfCall ==
    ASSUME JobsInv, NEW a \in Appliers, a \notin Requests \/ app[a].pc # "idle", Others(a),
           req' = req,
           \A q \in Requests : \/ job'[q].status = job[q].status
                               \/ q = a /\ app'[q].pc = "idle"
    PROVE  JobsInv'
<1>1. ASSUME NEW q \in Requests
      PROVE  /\ req[q] # "over" => job'[q].status = "none"
             /\ job'[q].status # "running" => app'[q].pc = "idle"
  BY RequestOfIs DEF JobsInv, Others
<1>. QED
  BY <1>1 DEF JobsInv

LEMMA JobsNext ==
    ASSUME BaseInv, JobsInv, Does
    PROVE  JobsInv'
<1>1. ASSUME NEW p \in Payouts, ProviderStep(p)
      PROVE  JobsInv'
  BY <1>1 DEF ProviderStep, JobsInv
<1>2. ASSUME NEW q \in Requests, CheckReference(q) \/ DebitWallet(q)
      PROVE  JobsInv'
  BY <1>2 DEF CheckReference, DebitWallet, JobsInv, BaseInv, Typed
<1>3. ASSUME NEW q \in Requests, EnqueueJob(q)
      PROVE  JobsInv'
  BY <1>3 DEF EnqueueJob, JobsInv, BaseInv, Typed, JobRec
<1>4. ASSUME NEW q \in Requests, RequestDies(q)
      PROVE  JobsInv'
  BY <1>4 DEF RequestDies, JobsInv, BaseInv, Typed
<1>5. ASSUME NEW q \in Requests, StoreRows(q)
      PROVE  JobsInv'
  BY <1>5 DEF StoreRows, JobsInv, BaseInv, Typed
<1>6. ASSUME NEW q \in Requests, Delivers(q)
      PROVE  JobsInv'
  BY <1>6, RequestOfIs DEF Delivers, Others, restVars, JobsInv
<1>7. ASSUME NEW q \in Requests, Takes(q)
      PROVE  JobsInv'
  BY <1>7, RequestOfIs, JobsOfCall DEF Takes, Keeps, Goes, restVars
<1>8. ASSUME NEW q \in Requests, Calls(q)
      PROVE  JobsInv'
  <2>1. Others(q) /\ job' = job /\ req' = req /\ app[q].pc # "idle"
    BY <1>8 DEF Calls, Hears, restVars
  <2>. QED
    BY <2>1, RequestOfIs, JobsOfCall
<1>9. ASSUME NEW a \in Receivers, Receives(a)
      PROVE  JobsInv'
  BY <1>9, JobsOfCall, PayoutAssumption DEF Receives, restVars, Appliers
<1>10. ASSUME NEW a \in Pollers, Polls(a)
       PROVE  JobsInv'
  BY <1>10, JobsOfCall, PayoutAssumption DEF Polls, Goes, restVars, Appliers
<1>11. ASSUME NEW a \in Appliers, Queries(a)
       PROVE  JobsInv'
  BY <1>11, JobsOfCall DEF Queries, Hears, Goes
<1>12. ASSUME NEW a \in Appliers, Reads(a)
       PROVE  JobsInv'
  BY <1>12, JobsOfCall DEF Reads, Keeps, Goes, restVars
<1>13. ASSUME NEW a \in Appliers, Updates(a)
       PROVE  JobsInv'
  BY <1>13, JobsOfCall DEF Updates, After, Keeps, Goes, restVars
<1>14. ASSUME NEW a \in Appliers, Refunds(a)
       PROVE  JobsInv'
  BY <1>14, JobsOfCall DEF Refunds, After, Keeps, Goes
<1>15. ASSUME NEW a \in Appliers, Counts(a)
       PROVE  JobsInv'
  BY <1>15, JobsOfCall DEF Counts, Keeps, restVars
<1>16. ASSUME NEW a \in Appliers, Writes(a)
       PROVE  JobsInv'
  BY <1>16, JobsOfCall DEF Writes, Goes
<1>17. ASSUME NEW a \in Appliers, Dies(a)
       PROVE  JobsInv'
  BY <1>17, JobsOfCall DEF Dies
<1>18. CASE UNCHANGED vars
  BY <1>18 DEF vars, JobsInv
<1>. QED
  BY <1>1, <1>2, <1>3, <1>4, <1>5, <1>6, <1>7, <1>8, <1>9, <1>10, <1>11, <1>12, <1>13,
     <1>14, <1>15, <1>16, <1>17, <1>18 DEF Does

-----------------------------------------------------------------------------
(* Updates that come one at a time *)

OneAtATime == MaxApply = 1

ApplySteps == {"update", "refund", "count", "recount"}

Lone == \A a, b \in Applying : a = b

\* Before its rows are stored nothing is known of a request's payouts.
Before == {"idle", "checked", "held"}
Unstored ==
    \A q \in Requests : req[q] \in Before =>
        \A p \in Items(q) : ~Stored(p) /\ ~row[p].refunded /\ refunds[p] = 0

\* Between the read and the update nobody else sets the flag, and between the
\* update and the refund it announces a movement that is yet to come.
FlagSeen ==
    \A a \in Appliers :
        /\ app[a].pc = "update" => app[a].seen.refunded = row[app[a].item].refunded
        /\ app[a].pc = "refund" => /\ row[app[a].item].refunded
                                   /\ refunds[app[a].item] = 0

\* No movement without the flag, and one at most with it.
FlagBounds ==
    \A p \in Payouts : refunds[p] <= 1 /\ (~row[p].refunded => refunds[p] = 0)

OncePart == Unstored /\ Lone /\ FlagSeen /\ FlagBounds

OnceInv == BaseInv /\ JobsInv /\ OncePart

\* The flag tells the movement unless somebody is about to make it.
FlagTold ==
    \A p \in Payouts :
        (\A a \in Appliers : app[a].pc = "refund" => app[a].item # p)
            => refunds[p] = IF row[p].refunded THEN 1 ELSE 0

Flags == OncePart' /\ (FlagTold => FlagTold')

LEMMA OnceInit == Init => OnceInv /\ FlagTold
<1>. SUFFICES ASSUME Init
              PROVE  OnceInv /\ FlagTold
  OBVIOUS
<1>1. \A a \in Appliers : app[a].pc = "idle"
  BY DEF Init, Idle
<1>2. \A p \in Payouts : row[p].status = "none" /\ row[p].refunded = FALSE /\ refunds[p] = 0
  BY DEF Init, NoRow
<1>3. Unstored
  BY <1>2, RequestOfIs DEF Unstored, Stored
<1>4. Lone
  BY <1>1 DEF Lone, Applying
<1>5. FlagSeen /\ FlagBounds /\ FlagTold
  BY <1>1, <1>2 DEF FlagSeen, FlagBounds, FlagTold
<1>. QED
  BY <1>3, <1>4, <1>5, InitBase, JobsInit DEF OnceInv, OncePart

\* A step in which nobody begins an update or goes on with one.
Calm ==
    /\ UNCHANGED <<row, refunds>>
    /\ \A b \in Appliers : app'[b].pc \in ApplySteps => app'[b] = app[b]
    /\ \A q \in Requests : req'[q] \in Before => req[q] \in Before

LEMMA OnceCalm ==
    ASSUME OnceInv, Calm
    PROVE  OncePart'
<1>1. Unstored'
  BY DEF OnceInv, OncePart, Unstored, Calm, Stored
<1>2. Lone'
  BY DEF OnceInv, OncePart, Lone, Applying, Calm, ApplySteps
<1>3. FlagSeen'
  BY DEF OnceInv, OncePart, FlagSeen, Calm, ApplySteps
<1>4. FlagBounds'
  BY DEF OnceInv, OncePart, FlagBounds, Calm
<1>. QED
  BY <1>1, <1>2, <1>3, <1>4 DEF OncePart

LEMMA FlagCalm ==
    ASSUME OnceInv, Calm, \A b \in Appliers : app[b].pc = "refund" => app'[b] = app[b]
    PROVE  Flags
<1>1. FlagTold => FlagTold'
  BY DEF FlagTold, Calm
<1>. QED
  BY <1>1, OnceCalm DEF Flags

\* Who goes on with its list is not applying anything.
LEMMA GoesCalm ==
    ASSUME NEW a \in Appliers, NEW todo, Goes(a, todo), UNCHANGED <<row, refunds, req>>
    PROVE  Calm
BY DEF Goes, Others, Calm, ApplySteps

LEMMA HearsCalm ==
    ASSUME NEW a \in Appliers, NEW raw, Hears(a, raw), UNCHANGED <<row, refunds, req>>
    PROVE  Calm
BY DEF Hears, Others, Calm, ApplySteps

\* The one that applies is alone.
LEMMA LoneApplier ==
    ASSUME OnceInv, NEW a \in Appliers, app[a].pc \in ApplySteps, Others(a)
    PROVE  Lone' /\ \A b \in Appliers : b # a => /\ app[b].pc \notin ApplySteps
                                                /\ app'[b].pc \notin ApplySteps
<1>1. \A b \in Appliers : b # a => /\ app[b].pc \notin ApplySteps
                                   /\ app'[b].pc \notin ApplySteps
  BY DEF OnceInv, OncePart, Lone, Applying, ApplySteps, Others
<1>2. Lone'
  BY <1>1 DEF Lone, Applying, ApplySteps
<1>. QED
  BY <1>1, <1>2

LEMMA NobodyApplies ==
    ASSUME OneAtATime, Cardinality(Applying) < MaxApply
    PROVE  \A b \in Appliers : app[b].pc \notin ApplySteps
<1>1. IsFiniteSet(Singles \cup Withdrawals)
  BY PayoutAssumption, FS_Subset DEF Payouts
<1>2. IsFiniteSet({BatchRequest}) /\ IsFiniteSet({})
  BY FS_Singleton, FS_EmptySet
<1>3. IsFiniteSet(Requests)
  BY <1>1, <1>2, FS_Union DEF Requests
<1>4. IsFiniteSet(Appliers)
  BY <1>3, PayoutAssumption, FS_Union DEF Appliers
<1>5. IsFiniteSet(Applying)
  BY <1>4, FS_Subset DEF Applying
<1>6. Cardinality(Applying) \in Nat /\ Cardinality(Applying) < 1
  BY <1>5, FS_CardinalityType DEF OneAtATime
<1>7. Cardinality(Applying) = 0
  BY <1>6
<1>8. Applying = {}
  BY <1>5, <1>7, FS_EmptySet
<1>. QED
  BY <1>8 DEF Applying, ApplySteps

LEMMA FlagStores ==
    ASSUME OnceInv, NEW q \in Requests, Stores(q)
    PROVE  Flags
<1>1. \A p \in Items(q) : ~Stored(p) /\ row[p].refunded = FALSE /\ refunds[p] = 0
  BY RequestOfIs DEF Stores, Before, OnceInv, BaseInv, Typed, RowType, OncePart, Unstored
<1>2. \A p \in Payouts : row'[p].refunded = row[p].refunded
  BY <1>1 DEF Stores
<1>3. \A a \in Appliers : app[a].pc \in {"update", "refund"} => app[a].item \in Payouts
  BY CallStep DEF OnceInv
<1>4. Unstored'
  <2>1. ASSUME NEW r \in Requests, req'[r] \in Before, NEW p \in Items(r)
        PROVE  row'[p].status = "none" /\ ~row'[p].refunded /\ refunds[p] = 0
    <3>1. r # q /\ req'[r] = req[r]
      BY <2>1 DEF Stores, Before, OnceInv, BaseInv, Typed
    <3>2. p \in Payouts /\ p \notin Items(q)
      BY <3>1, RequestOfIs
    <3>. QED
      BY <2>1, <3>1, <3>2 DEF Stores, OnceInv, OncePart, Unstored, Stored
  <2>. QED
    BY <2>1 DEF Stores, Unstored, Stored
<1>5. Lone'
  BY DEF Stores, OnceInv, OncePart, Lone, Applying
<1>6. FlagSeen'
  BY <1>2, <1>3 DEF Stores, OnceInv, OncePart, FlagSeen
<1>7. FlagBounds'
  BY <1>2 DEF Stores, OnceInv, OncePart, FlagBounds
<1>8. FlagTold => FlagTold'
  BY <1>2 DEF Stores, FlagTold
<1>. QED
  BY <1>4, <1>5, <1>6, <1>7, <1>8 DEF Flags, OncePart

LEMMA FlagReads ==
    ASSUME OneAtATime, OnceInv, NEW a \in Appliers, Reads(a)
    PROVE  Flags
<1>1. CASE Goes(a, app[a].todo)
  BY <1>1, GoesCalm, FlagCalm DEF Reads, restVars, Goes, Others
<1>2. CASE Keeps(a, "update") /\ app'[a].seen = row[app[a].item]
  <2>1. \A b \in Appliers : app[b].pc \notin ApplySteps
    BY NobodyApplies DEF Reads
  <2>2. \A b \in Appliers : app'[b].pc \in ApplySteps => b = a
    BY <1>2, <2>1 DEF Keeps, Others
  <2>3. UNCHANGED <<row, refunds, req>>
    BY DEF Reads, restVars
  <2>4. Unstored' /\ FlagBounds'
    BY <2>3 DEF OnceInv, OncePart, Unstored, FlagBounds, Stored
  <2>5. Lone'
    BY <2>2 DEF Lone, Applying, ApplySteps
  <2>6. FlagSeen'
    BY <1>2, <2>2, <2>3 DEF Keeps, FlagSeen, ApplySteps
  <2>7. FlagTold => FlagTold'
    BY <2>1, <2>3 DEF FlagTold, ApplySteps
  <2>. QED
    BY <2>4, <2>5, <2>6, <2>7 DEF Flags, OncePart
<1>. QED
  BY <1>1, <1>2 DEF Reads

\* Who works on a payout's row is not in the way of a request.
LEMMA StoredOnce ==
    ASSUME OnceInv, NEW a \in Appliers, app[a].pc \in OnRow
    PROVE  /\ app[a].item \in Payouts
           /\ \A q \in Requests : req[q] \in Before => app[a].item \notin Items(q)
<1>1. app[a].item \in Payouts /\ Stored(app[a].item)
  BY CallStep DEF OnceInv, OnRow
<1>. QED
  BY <1>1 DEF OnceInv, OncePart, Unstored

LEMMA FlagUpdates ==
    ASSUME OnceInv, NEW a \in Appliers, Updates(a)
    PROVE  Flags
<1>. DEFINE o == app[a].item
<1>1. /\ Lone'
      /\ \A b \in Appliers : b # a => /\ app[b].pc \notin ApplySteps
                                      /\ app'[b].pc \notin ApplySteps
  BY LoneApplier DEF Updates, After, Keeps, Goes, ApplySteps
<1>2. o \in Payouts /\ \A q \in Requests : req[q] \in Before => o \notin Items(q)
  BY StoredOnce DEF Updates, OnRow
<1>3. app[a].seen.refunded = row[o].refunded
  BY DEF OnceInv, OncePart, FlagSeen, Updates
<1>4. UNCHANGED <<refunds, req>> /\ \A p \in Payouts : p # o => row'[p] = row[p]
  BY DEF Updates, restVars
<1>5. Unstored'
  BY <1>2, <1>4, RequestOfIs DEF OnceInv, OncePart, Unstored, Stored
<1>6. CASE ShouldRefund(a) /\ Keeps(a, "refund")
  <2>1. app'[a].pc = "refund" /\ app'[a].item = o
    BY <1>6 DEF Keeps
  <2>2. refunds[o] = 0 /\ row'[o].refunded
    BY <1>2, <1>3, <1>6 DEF ShouldRefund, Updates, OnceInv, OncePart, FlagBounds
  <2>3. FlagSeen'
    BY <1>1, <1>4, <2>1, <2>2 DEF FlagSeen, ApplySteps
  <2>4. FlagBounds'
    BY <1>4, <2>2 DEF OnceInv, OncePart, FlagBounds
  <2>5. \A b \in Appliers : app[b].pc # "refund"
    BY <1>1 DEF Updates, ApplySteps
  <2>6. FlagTold => FlagTold'
    BY <1>4, <2>1, <2>5 DEF FlagTold
  <2>. QED
    BY <1>1, <1>5, <2>3, <2>4, <2>6 DEF Flags, OncePart
<1>7. CASE ~ShouldRefund(a) /\ After(a)
  <2>1. \A p \in Payouts : row'[p].refunded = row[p].refunded
    BY <1>3, <1>4, <1>7 DEF Updates, OnceInv, BaseInv, Typed, RowType
  <2>2. app'[a].pc \notin {"update", "refund"}
    BY <1>7 DEF After, Keeps, Goes
  <2>3. FlagSeen'
    BY <1>1, <2>2 DEF FlagSeen, ApplySteps
  <2>4. FlagBounds'
    BY <1>4, <2>1 DEF OnceInv, OncePart, FlagBounds
  <2>5. \A b \in Appliers : app[b].pc # "refund"
    BY <1>1 DEF Updates, ApplySteps
  <2>6. FlagTold => FlagTold'
    BY <1>4, <2>1, <2>5 DEF FlagTold
  <2>. QED
    BY <1>1, <1>5, <2>3, <2>4, <2>6 DEF Flags, OncePart
<1>. QED
  BY <1>6, <1>7 DEF Updates

LEMMA FlagRefunds ==
    ASSUME OnceInv, NEW a \in Appliers, Refunds(a)
    PROVE  Flags
<1>. DEFINE o == app[a].item
<1>1. /\ Lone'
      /\ \A b \in Appliers : b # a => /\ app[b].pc \notin ApplySteps
                                      /\ app'[b].pc \notin ApplySteps
  BY LoneApplier DEF Refunds, After, Keeps, Goes, ApplySteps
<1>2. o \in Payouts /\ \A q \in Requests : req[q] \in Before => o \notin Items(q)
  BY StoredOnce DEF Refunds, OnRow
<1>3. row[o].refunded /\ refunds[o] = 0
  BY DEF OnceInv, OncePart, FlagSeen, Refunds
<1>4. refunds'[o] = 1 /\ \A p \in Payouts : p # o => refunds'[p] = refunds[p]
  BY <1>3 DEF Refunds
<1>5. UNCHANGED <<row, req>> /\ app'[a].pc \notin {"update", "refund"}
  BY DEF Refunds, After, Keeps, Goes
<1>6. Unstored'
  BY <1>2, <1>4, <1>5, RequestOfIs DEF OnceInv, OncePart, Unstored, Stored
<1>7. FlagSeen'
  BY <1>1, <1>5 DEF FlagSeen, ApplySteps
<1>8. FlagBounds'
  BY <1>3, <1>4, <1>5 DEF OnceInv, OncePart, FlagBounds
<1>9. FlagTold => FlagTold'
  <2>1. ASSUME FlagTold, NEW p \in Payouts
        PROVE  refunds'[p] = IF row'[p].refunded THEN 1 ELSE 0
    <3>1. CASE p = o
      BY <1>3, <1>4, <1>5, <3>1
    <3>2. CASE p # o
      <4>1. \A b \in Appliers : app[b].pc = "refund" => app[b].item # p
        BY <1>1, <3>2 DEF ApplySteps
      <4>. QED
        BY <1>4, <1>5, <2>1, <3>2, <4>1 DEF FlagTold
    <3>. QED
      BY <3>1, <3>2
  <2>. QED
    BY <2>1 DEF FlagTold
<1>. QED
  BY <1>1, <1>6, <1>7, <1>8, <1>9 DEF Flags, OncePart

LEMMA FlagCounts ==
    ASSUME OnceInv, NEW a \in Appliers, Counts(a)
    PROVE  Flags
<1>1. /\ Lone'
      /\ \A b \in Appliers : b # a => /\ app[b].pc \notin ApplySteps
                                      /\ app'[b].pc \notin ApplySteps
  BY LoneApplier DEF Counts, Keeps, ApplySteps
<1>2. UNCHANGED <<row, refunds, req>> /\ app'[a].pc = "recount" /\ app[a].pc = "count"
  BY DEF Counts, Keeps, restVars
<1>3. Unstored' /\ FlagBounds'
  BY <1>2 DEF OnceInv, OncePart, Unstored, FlagBounds, Stored
<1>4. FlagSeen'
  BY <1>1, <1>2 DEF FlagSeen, ApplySteps
<1>5. FlagTold => FlagTold'
  BY <1>1, <1>2 DEF FlagTold, ApplySteps
<1>. QED
  BY <1>1, <1>3, <1>4, <1>5 DEF Flags, OncePart

LEMMA FlagNext ==
    ASSUME OneAtATime, OnceInv, Does
    PROVE  OncePart' /\ (CountFailure \/ (FlagTold => FlagTold'))
<1>0. BaseInv /\ Typed
  BY DEF OnceInv, BaseInv
<1>1. ASSUME NEW p \in Payouts, ProviderStep(p)
      PROVE  Flags
  BY <1>1, FlagCalm DEF ProviderStep, Calm
<1>2. ASSUME NEW q \in Requests,
             CheckReference(q) \/ DebitWallet(q) \/ EnqueueJob(q) \/ RequestDies(q)
      PROVE  Flags
  <2>1. \A r \in Requests : req'[r] \in Before => req[r] \in Before
    BY <1>0, <1>2
       DEF CheckReference, DebitWallet, EnqueueJob, RequestDies, Before, Typed
  <2>. QED
    BY <1>2, <2>1, FlagCalm DEF CheckReference, DebitWallet, EnqueueJob, RequestDies, Calm
<1>3. ASSUME NEW q \in Requests, StoreRows(q)
      PROVE  Flags
  <2>1. CASE Stores(q)
    BY <2>1, FlagStores
  <2>2. CASE /\ req[q] = "held" /\ req' = [req EXCEPT ![q] = "over"]
             /\ UNCHANGED <<provider, hooks, row, batch, held, refunds, job, app, failures>>
    <3>1. \A r \in Requests : req'[r] \in Before => req[r] \in Before
      BY <1>0, <2>2 DEF Before, Typed
    <3>. QED
      BY <2>2, <3>1, FlagCalm DEF Calm
  <2>. QED
    BY <1>0, <1>3, <2>1, <2>2, StoreRowsIs
<1>4. ASSUME NEW q \in Requests, Delivers(q)
      PROVE  Flags
  <2>1. q \in Appliers /\ app[q].pc = "idle"
    BY <1>4, RequestOfIs DEF Delivers, OnceInv, JobsInv
  <2>2. Calm
    BY <1>4, <2>1 DEF Delivers, Others, restVars, Calm, ApplySteps
  <2>. QED
    BY <1>4, <2>1, <2>2, FlagCalm DEF Delivers, Others
<1>5. ASSUME NEW q \in Requests, Takes(q)
      PROVE  Flags
  <2>1. q \in Appliers /\ app[q].pc = "take" /\ Others(q)
    BY <1>5, RequestOfIs DEF Takes, Keeps, Goes
  <2>2. Calm
    BY <1>5, <2>1 DEF Takes, Keeps, Goes, Others, restVars, Calm, ApplySteps
  <2>. QED
    BY <2>1, <2>2, FlagCalm DEF Others
<1>6. ASSUME NEW q \in Requests, Calls(q)
      PROVE  Flags
  <2>1. q \in Appliers /\ app[q].pc = "call" /\ Others(q) /\ app'[q].pc = "read"
        /\ UNCHANGED <<row, refunds, req>>
    BY <1>6, RequestOfIs DEF Calls, Hears, restVars
  <2>2. Calm
    BY <2>1 DEF Others, Calm, ApplySteps
  <2>. QED
    BY <2>1, <2>2, FlagCalm DEF Others
<1>7. ASSUME NEW a \in Receivers, Receives(a)
      PROVE  Flags
  <2>1. Calm
    BY <1>7 DEF Receives, Others, restVars, Calm, ApplySteps
  <2>. QED
    BY <1>7, <2>1, FlagCalm DEF Receives, Others
<1>8. ASSUME NEW a \in Pollers, Polls(a)
      PROVE  Flags
  <2>1. Calm
    BY <1>8, GoesCalm DEF Polls, restVars, Appliers
  <2>. QED
    BY <1>8, <2>1, FlagCalm DEF Polls, Goes, Others
<1>9. ASSUME NEW a \in Appliers, Queries(a)
      PROVE  Flags
  <2>1. Calm /\ Others(a)
    BY <1>9, GoesCalm, HearsCalm DEF Queries, Goes, Hears
  <2>. QED
    BY <1>9, <2>1, FlagCalm DEF Queries, Others
<1>10. ASSUME NEW a \in Appliers, Reads(a)
       PROVE  Flags
  BY <1>10, FlagReads
<1>11. ASSUME NEW a \in Appliers, Updates(a)
       PROVE  Flags
  BY <1>11, FlagUpdates
<1>12. ASSUME NEW a \in Appliers, Refunds(a)
       PROVE  Flags
  BY <1>12, FlagRefunds
<1>13. ASSUME NEW a \in Appliers, Counts(a)
       PROVE  Flags
  BY <1>13, FlagCounts
<1>14. ASSUME NEW a \in Appliers, Writes(a)
       PROVE  Flags
  <2>1. Calm
    BY <1>14, GoesCalm DEF Writes
  <2>. QED
    BY <1>14, <2>1, FlagCalm DEF Writes, Goes, Others
<1>15. ASSUME NEW a \in Appliers, Dies(a)
       PROVE  OncePart' /\ CountFailure
  <2>1. Calm
    BY <1>15 DEF Dies, Others, Calm, ApplySteps
  <2>. QED
    BY <1>15, <2>1, OnceCalm DEF Dies
<1>16. ASSUME UNCHANGED vars
       PROVE  Flags
  BY <1>16, FlagCalm DEF vars, Calm
<1>. QED
  BY <1>1, <1>2, <1>3, <1>4, <1>5, <1>6, <1>7, <1>8, <1>9, <1>10, <1>11, <1>12, <1>13,
     <1>14, <1>15, <1>16 DEF Does, Flags

LEMMA OnceNext ==
    ASSUME OneAtATime, OnceInv, [Next]_vars
    PROVE  OnceInv'
<1>1. BaseInv' /\ Does
  BY NextBase, NextDoes DEF OnceInv
<1>. QED
  BY <1>1, JobsNext, FlagNext DEF OnceInv

\* When status updates come one at a time, a debit comes back at most once,
\* whatever else fails (README.md:72; refundedAt is set by the update and read
\* before it).
THEOREM RefundedOnce == OneAtATime => (Spec => []RefundedAtMostOnce)
<1>. SUFFICES ASSUME OneAtATime
              PROVE  Spec => []RefundedAtMostOnce
  OBVIOUS
<1>1. Init => OnceInv
  BY OnceInit
<1>2. OnceInv /\ [Next]_vars => OnceInv'
  BY OnceNext
<1>3. OnceInv => RefundedAtMostOnce
  BY DEF OnceInv, OncePart, FlagBounds, RefundedAtMostOnce
<1>. QED
  BY <1>1, <1>2, <1>3, PTL DEF Spec

-----------------------------------------------------------------------------
(* And no call is cut short *)

FlagInv == OnceInv /\ failures = 0 /\ FlagTold

LEMMA NoFailure ==
    ASSUME MaxFailures = 0, BaseInv, failures = 0, [Next]_vars
    PROVE  ~CountFailure /\ failures' = 0
<1>1. ~CountFailure
  BY DEF CountFailure
<1>2. ASSUME NEW a \in Appliers, ReadRow(a) \/ ApplyStep(a) \/ ApplierDies(a)
      PROVE  failures' = failures
  BY <1>1, <1>2 DEF ApplyStep, ApplierDies, QueryProvider, ReadRow, UpdateRow,
                    RefundWallet, CountItems, WriteCounters
<1>3. ASSUME NEW q \in Requests,
             CheckReference(q) \/ RequestStep(q) \/ RequestDies(q) \/ JobStep(q)
      PROVE  failures' = failures
  BY <1>1, <1>3 DEF CheckReference, RequestStep, RequestDies, JobStep, DebitWallet,
                    StoreRows, EnqueueJob, DeliverJob, TakeItem, CallProvider
<1>. QED
  BY <1>1, <1>2, <1>3 DEF Next, vars, ProviderMoves, ReceiveHook, BeginPoll

LEMMA FlagInvNext ==
    ASSUME OneAtATime, MaxFailures = 0, FlagInv, [Next]_vars
    PROVE  FlagInv' /\ ~CountFailure
<1>1. BaseInv /\ Does
  BY NextDoes DEF FlagInv, OnceInv
<1>2. OnceInv'
  BY OnceNext DEF FlagInv
<1>3. ~CountFailure /\ failures' = 0
  BY <1>1, NoFailure DEF FlagInv
<1>4. FlagTold'
  BY <1>1, <1>3, FlagNext DEF FlagInv
<1>. QED
  BY <1>2, <1>3, <1>4 DEF FlagInv

LEMMA ToldIsRight ==
    ASSUME FlagTold
    PROVE  FlagTellsRefund
BY DEF FlagTold, FlagTellsRefund, AtRest, Applying

\* When moreover no call is cut short, refundedAt tells whether the one refund
\* exists (applyPayoutUpdate).
THEOREM FlagIsRight ==
    OneAtATime /\ MaxFailures = 0 => (Spec => []FlagTellsRefund)
<1>. SUFFICES ASSUME OneAtATime, MaxFailures = 0
              PROVE  Spec => []FlagTellsRefund
  OBVIOUS
<1>1. Init => FlagInv
  BY OnceInit DEF FlagInv, Init
<1>2. FlagInv /\ [Next]_vars => FlagInv'
  BY FlagInvNext
<1>3. FlagInv => FlagTellsRefund
  BY ToldIsRight DEF FlagInv
<1>. QED
  BY <1>1, <1>2, <1>3, PTL DEF Spec

-----------------------------------------------------------------------------
(* The counters of the batch *)

CountsTold(t) == t.success = Count({"SUCCESS"}) /\ t.failed = Count(TerminalFail)

\* Nobody works on a payout of the batch.
BatchRests == \A a \in Appliers : app[a].pc \in ApplySteps => app[a].item \notin Batch

\* The batch row and the payout rows appear together.
BatchRows ==
    /\ batch.status = "none" => /\ batch.success = 0 /\ batch.failed = 0
                                 /\ \A p \in Batch : ~Stored(p)
    /\ batch.status # "none" => Batch # {} /\ \A p \in Batch : Stored(p)

\* What has been counted is still so when it is written.
Tallied ==
    \A a \in Appliers :
        /\ app[a].pc \in {"count", "recount"} => app[a].item \in Batch
        /\ app[a].pc = "recount" => CountsTold(app[a].tally)

\* The counters are right unless somebody works on the batch.
CountersTold ==
    batch.status # "none" /\ BatchRests =>
        /\ CountsTold(batch)
        /\ batch.status # "PROCESSING" <=> \A p \in Batch : row[p].status \in Final

CountersInv == FlagInv /\ BatchRows /\ Tallied /\ CountersTold

LEMMA CountsInit == Init => CountersInv
<1>. SUFFICES ASSUME Init
              PROVE  CountersInv
  OBVIOUS
<1>1. FlagInv
  BY OnceInit DEF FlagInv, Init
<1>2. \A a \in Appliers : app[a].pc = "idle"
  BY DEF Init, Idle
<1>3. batch.status = "none" /\ batch.success = 0 /\ batch.failed = 0 /\ \A p \in Payouts : ~Stored(p)
  BY DEF Init, Stored, NoRow
<1>. QED
  BY <1>1, <1>2, <1>3 DEF CountersInv, BatchRows, Tallied, CountersTold, Payouts

\* The number of rows with a status depends on the rows of the batch.
LEMMA CountSame ==
    ASSUME \A p \in Batch : row'[p] = row[p]
    PROVE  \A S : Cardinality({p \in Batch : row'[p].status \in S}) = Count(S)
<1>1. \A S : {p \in Batch : row'[p].status \in S} = {p \in Batch : row[p].status \in S}
  OBVIOUS
<1>. QED
  BY <1>1 DEF Count

LEMMA BatchFinite == /\ IsFiniteSet(Batch) /\ Cardinality(Batch) \in Nat
                     /\ \A S : IsFiniteSet({p \in Batch : row[p].status \in S})
<1>1. IsFiniteSet(Batch)
  BY PayoutAssumption, FS_Subset DEF Payouts
<1>. QED
  BY <1>1, FS_Subset, FS_CardinalityType

\* Every payout is counted once at most, so the sum tells whether all are final.
LEMMA CountAll ==
    Count({"SUCCESS"}) + Count(TerminalFail) = Cardinality(Batch)
        <=> \A p \in Batch : row[p].status \in Final
<1>. DEFINE paid == {p \in Batch : row[p].status \in {"SUCCESS"}}
            lost == {p \in Batch : row[p].status \in TerminalFail}
<1>1. IsFiniteSet(Batch) /\ IsFiniteSet(paid) /\ IsFiniteSet(lost)
  BY BatchFinite
<1>2. paid \cap lost = {}
  BY DEF TerminalFail
<1>3. Cardinality(paid \cap lost) = 0 /\ Cardinality(paid) \in Nat /\ Cardinality(lost) \in Nat
  BY <1>1, <1>2, FS_EmptySet, FS_CardinalityType
<1>4. Cardinality(paid \cup lost)
         = Cardinality(paid) + Cardinality(lost) - Cardinality(paid \cap lost)
  BY <1>1, FS_Union
<1>5. paid \cup lost \in SUBSET Batch
  OBVIOUS
<1>6. Cardinality(paid \cup lost) = Cardinality(Batch) <=> paid \cup lost = Batch
  BY <1>1, <1>5, FS_Subset
<1>7. paid \cup lost = Batch <=> \A p \in Batch : row[p].status \in Final
  BY DEF TerminalFail, Final
<1>. HIDE DEF paid, lost
<1>8. Cardinality(paid \cup lost) = Cardinality(paid) + Cardinality(lost)
  BY <1>3, <1>4
<1>. QED
  BY <1>6, <1>7, <1>8 DEF Count, paid, lost

LEMMA BatchStatusIs ==
    ASSUME NEW t, CountsTold(t), Batch # {}
    PROVE  BatchStatus(t) # "none"
           /\ (BatchStatus(t) # "PROCESSING" <=> \A p \in Batch : row[p].status \in Final)
<1>1. t.success + t.failed = Cardinality(Batch) <=> \A p \in Batch : row[p].status \in Final
  BY CountAll DEF CountsTold
<1>2. BatchStatus(t) # "none"
      /\ (BatchStatus(t) # "PROCESSING" <=> t.success + t.failed = Cardinality(Batch))
  BY DEF BatchStatus
<1>. QED
  BY <1>1, <1>2

\* A step that leaves the batch's rows alone.
LEMMA CountsKept ==
    ASSUME CountersInv, UNCHANGED batch, \A p \in Batch : row'[p] = row[p],
           BatchRests' => BatchRests,
           \A a \in Appliers : /\ app'[a].pc = "count" => app'[a].item \in Batch
                               /\ app'[a].pc = "recount" => app'[a] = app[a]
    PROVE  BatchRows' /\ Tallied' /\ CountersTold'
<1>1. \A S : Cardinality({p \in Batch : row'[p].status \in S}) = Count(S)
  BY CountSame
<1>2. BatchRows'
  BY DEF CountersInv, BatchRows, Stored
<1>3. Tallied'
  BY <1>1 DEF CountersInv, Tallied, CountsTold, Count
<1>4. CountersTold'
  BY <1>1 DEF CountersInv, CountersTold, CountsTold, Count
<1>. QED
  BY <1>2, <1>3, <1>4

LEMMA CountsCalm ==
    ASSUME CountersInv, Calm, UNCHANGED batch,
           \A b \in Appliers : app[b].pc \in ApplySteps => app'[b] = app[b]
    PROVE  BatchRows' /\ Tallied' /\ CountersTold'
<1>1. BatchRests' => BatchRests
  BY DEF Calm, BatchRests
<1>. QED
  BY <1>1, CountsKept DEF Calm, ApplySteps, CountersInv, Tallied

Counted == BatchRows' /\ Tallied' /\ CountersTold'

LEMMA CountsStores ==
    ASSUME CountersInv, NEW q \in Requests, Stores(q)
    PROVE  Counted
<1>1. UNCHANGED app
  BY DEF Stores
<1>2. CASE q = BatchRequest
  <2>1. Items(q) = Batch /\ Batch # {} /\ \A p \in Batch : row'[p].status = "PENDING"
    BY <1>2, PayoutAssumption DEF Stores, Items, Requests, Payouts
  <2>2. \A p \in Batch : ~Stored(p)
    BY <2>1 DEF Stores, Before, CountersInv, FlagInv, OnceInv, OncePart, Unstored
  <2>3. batch.status = "none"
    BY <2>1, <2>2 DEF CountersInv, BatchRows
  <2>4. batch'.status = "PROCESSING" /\ batch'.success = 0 /\ batch'.failed = 0
    <3>1. batch' = [batch EXCEPT !.status = "PROCESSING"] /\ batch \in BatchRec
      BY <1>2 DEF Stores, CountersInv, FlagInv, OnceInv, BaseInv, Typed
    <3>2. batch.success = 0 /\ batch.failed = 0
      BY <2>3 DEF CountersInv, BatchRows
    <3>. QED
      BY <3>1, <3>2 DEF BatchRec
  <2>5. BatchRows'
    BY <2>1, <2>4 DEF BatchRows, Stored
  <2>6. \A a \in Appliers : app[a].pc \notin {"count", "recount"}
    BY <2>2, CallStep DEF CountersInv, FlagInv, OnceInv, Tallied, OnRow
  <2>7. Tallied'
    BY <1>1, <2>6 DEF Tallied
  <2>8. /\ {p \in Batch : row'[p].status \in {"SUCCESS"}} = {}
        /\ {p \in Batch : row'[p].status \in TerminalFail} = {}
        /\ Cardinality({}) = 0
    BY <2>1, FS_EmptySet DEF TerminalFail
  <2>9. CountersTold'
    BY <2>1, <2>4, <2>8 DEF CountersTold, CountsTold, Count, Final
  <2>. QED
    BY <2>5, <2>7, <2>9 DEF Counted
<1>3. CASE q # BatchRequest
  <2>1. UNCHANGED batch
    BY <1>3 DEF Stores
  <2>2. \A p \in Batch : p \in Payouts /\ p \notin Items(q)
    BY <1>3, PayoutAssumption DEF Items, Requests, Payouts
  <2>3. \A p \in Batch : row'[p] = row[p]
    BY <2>2 DEF Stores
  <2>. QED
    BY <1>1, <2>1, <2>3, CountsKept DEF BatchRests, CountersInv, Tallied, Counted
<1>. QED
  BY <1>2, <1>3

LEMMA CountsReads ==
    ASSUME OneAtATime, CountersInv, NEW a \in Appliers, Reads(a)
    PROVE  Counted
<1>0. OnceInv
  BY DEF CountersInv, FlagInv
<1>1. CASE Goes(a, app[a].todo)
  <2>1. Calm /\ \A b \in Appliers : app[b].pc \in ApplySteps => app'[b] = app[b]
    BY <1>1, GoesCalm DEF Reads, restVars, Goes, Others, ApplySteps
  <2>. QED
    BY <2>1, CountsCalm DEF Reads, restVars, Counted
<1>2. CASE Keeps(a, "update")
  <2>1. \A b \in Appliers : app[b].pc \notin ApplySteps
    BY NobodyApplies DEF Reads
  <2>2. BatchRests /\ \A b \in Appliers : app'[b].pc \notin {"count", "recount"}
    BY <1>2, <2>1 DEF Keeps, Others, BatchRests, ApplySteps
  <2>. QED
    BY <2>2, CountsKept DEF Reads, restVars, Counted
<1>. QED
  BY <1>1, <1>2 DEF Reads

LEMMA CountsUpdates ==
    ASSUME CountersInv, NEW a \in Appliers, Updates(a)
    PROVE  Counted
<1>. DEFINE o == app[a].item
<1>0. OnceInv /\ o \in Payouts /\ Stored(o) /\ UNCHANGED batch
  BY DEF CountersInv, FlagInv, Updates, restVars
<1>1. \A b \in Appliers : b # a => /\ app[b].pc \notin ApplySteps
                                    /\ app'[b].pc \notin ApplySteps
  BY <1>0, LoneApplier DEF Updates, After, Keeps, Goes, ApplySteps
<1>2. \A p \in Payouts : p # o => row'[p] = row[p]
  BY DEF Updates
<1>3. app'[a].pc # "recount" /\ (app'[a].pc = "count" => app'[a].item \in Batch)
  BY DEF Updates, After, Keeps, Goes
<1>4. Tallied'
  BY <1>1, <1>3 DEF Tallied, ApplySteps
<1>5. CASE o \in Batch
  <2>1. \A p \in Batch : Stored(p) /\ row'[p].status # "none"
    BY <1>0, <1>2, <1>5 DEF CountersInv, BatchRows, Updates, Payouts, Stored
  <2>2. BatchRows'
    BY <1>0, <1>5, <2>1 DEF CountersInv, BatchRows, Stored
  <2>3. app'[a].pc \in ApplySteps /\ app'[a].item = o
    BY <1>5 DEF Updates, After, Keeps, ApplySteps
  <2>4. CountersTold'
    BY <1>5, <2>3 DEF CountersTold, BatchRests
  <2>. QED
    BY <1>4, <2>2, <2>4 DEF Counted
<1>6. CASE o \notin Batch
  <2>1. BatchRests
    BY <1>1, <1>6 DEF BatchRests
  <2>2. \A p \in Batch : row'[p] = row[p]
    BY <1>2, <1>6 DEF Payouts
  <2>3. \A b \in Appliers : app'[b].pc \notin {"count", "recount"}
    BY <1>1, <1>3, <1>6 DEF Updates, After, Keeps, Goes, ApplySteps
  <2>. QED
    BY <1>0, <2>1, <2>2, <2>3, CountsKept DEF Counted
<1>. QED
  BY <1>5, <1>6

LEMMA CountsRefunds ==
    ASSUME CountersInv, NEW a \in Appliers, Refunds(a)
    PROVE  Counted
<1>0. OnceInv /\ UNCHANGED batch /\ \A p \in Batch : row'[p] = row[p]
  BY DEF CountersInv, FlagInv, Refunds
<1>1. \A b \in Appliers : b # a => /\ app[b].pc \notin ApplySteps
                                    /\ app'[b].pc \notin ApplySteps
  BY <1>0, LoneApplier DEF Refunds, After, Keeps, Goes, ApplySteps
<1>2. app'[a].pc # "recount" /\ (app'[a].pc = "count" => app'[a].item \in Batch)
  BY DEF Refunds, After, Keeps, Goes
<1>3. BatchRests' => BatchRests
  BY <1>1 DEF Refunds, After, Keeps, Goes, BatchRests, ApplySteps
<1>4. \A b \in Appliers : /\ app'[b].pc = "count" => app'[b].item \in Batch
                          /\ app'[b].pc = "recount" => app'[b] = app[b]
  BY <1>1, <1>2 DEF ApplySteps
<1>5. UNCHANGED batch /\ \A p \in Batch : row'[p] = row[p]
  BY <1>0
<1>. QED
  BY <1>3, <1>4, <1>5, CountsKept DEF Counted

LEMMA CountsCounts ==
    ASSUME CountersInv, NEW a \in Appliers, Counts(a)
    PROVE  Counted
<1>0. OnceInv /\ UNCHANGED <<row, batch>> /\ app[a].item \in Batch
      /\ app'[a].item = app[a].item /\ app'[a].pc = "recount"
  BY DEF CountersInv, FlagInv, Tallied, Counts, Keeps, restVars
<1>1. \A b \in Appliers : b # a => app'[b].pc \notin ApplySteps
  BY <1>0, LoneApplier DEF Counts, Keeps, ApplySteps
<1>2. BatchRows'
  BY <1>0 DEF CountersInv, BatchRows, Stored
<1>3. app'[a].tally.success = Count({"SUCCESS"})' /\ app'[a].tally.failed = Count(TerminalFail)'
  BY <1>0 DEF Counts, Count
<1>4. Tallied'
  BY <1>0, <1>1, <1>3 DEF Tallied, CountsTold, ApplySteps
<1>5. CountersTold'
  BY <1>0 DEF CountersTold, BatchRests, ApplySteps
<1>. QED
  BY <1>2, <1>4, <1>5 DEF Counted

LEMMA CountsWrites ==
    ASSUME CountersInv, NEW a \in Appliers, Writes(a)
    PROVE  Counted
<1>. DEFINE t == app[a].tally
<1>0. OnceInv /\ UNCHANGED row
  BY DEF CountersInv, FlagInv, Writes
<1>1. app[a].item \in Batch /\ CountsTold(t) /\ Stored(app[a].item)
  BY <1>0, CallStep DEF CountersInv, Tallied, Writes, OnceInv, OnRow
<1>2. Batch # {} /\ \A p \in Batch : Stored(p)
  BY <1>1 DEF CountersInv, BatchRows
<1>3. /\ batch'.status = BatchStatus(t) /\ batch'.success = t.success
      /\ batch'.failed = t.failed
  BY DEF Writes
<1>4. batch'.status # "none"
      /\ (batch'.status # "PROCESSING" <=> \A p \in Batch : row[p].status \in Final)
  BY <1>1, <1>2, <1>3, BatchStatusIs
<1>5. BatchRows'
  BY <1>0, <1>2, <1>4 DEF BatchRows, Stored
<1>6. \A b \in Appliers : app'[b].pc \notin {"count", "recount"}
  BY <1>0, LoneApplier DEF Writes, Goes, ApplySteps
<1>7. Tallied'
  BY <1>6 DEF Tallied
<1>8. CountersTold'
  BY <1>0, <1>1, <1>3, <1>4 DEF CountersTold, CountsTold, Count
<1>. QED
  BY <1>5, <1>7, <1>8 DEF Counted

LEMMA CountersNext ==
    ASSUME OneAtATime, MaxFailures = 0, CountersInv, [Next]_vars
    PROVE  CountersInv'
<1>0. FlagInv' /\ ~CountFailure /\ OnceInv /\ BaseInv /\ Does
  BY FlagInvNext, NextDoes DEF CountersInv, FlagInv, OnceInv
<1>1. ASSUME NEW p \in Payouts, ProviderStep(p)
      PROVE  Counted
  BY <1>1, CountsCalm DEF ProviderStep, Calm, Counted
<1>2. ASSUME NEW q \in Requests, CheckReference(q) \/ DebitWallet(q) \/ EnqueueJob(q)
      PROVE  Counted
  <2>1. \A r \in Requests : req'[r] \in Before => req[r] \in Before
    BY <1>0, <1>2
       DEF CheckReference, DebitWallet, EnqueueJob, Before, BaseInv, Typed
  <2>. QED
    BY <1>2, <2>1, CountsCalm DEF CheckReference, DebitWallet, EnqueueJob, Calm, Counted
<1>3. ASSUME NEW q \in Requests, StoreRows(q)
      PROVE  Counted
  <2>1. CASE Stores(q)
    BY <2>1, CountsStores
  <2>2. CASE /\ req[q] = "held" /\ req' = [req EXCEPT ![q] = "over"]
             /\ UNCHANGED <<provider, hooks, row, batch, held, refunds, job, app, failures>>
    <3>1. \A r \in Requests : req'[r] \in Before => req[r] \in Before
      BY <1>0, <2>2 DEF Before, BaseInv, Typed
    <3>. QED
      BY <2>2, <3>1, CountsCalm DEF Calm, Counted
  <2>. QED
    BY <1>0, <1>3, <2>1, <2>2, StoreRowsIs DEF BaseInv
<1>4. ASSUME NEW q \in Requests, Delivers(q)
      PROVE  Counted
  <2>1. q \in Appliers /\ app[q].pc = "idle"
    BY <1>0, <1>4, RequestOfIs DEF Delivers, OnceInv, JobsInv
  <2>2. Calm /\ batch' = batch /\ Others(q)
    BY <1>4, <2>1 DEF Delivers, Others, restVars, Calm, ApplySteps
  <2>. QED
    BY <2>1, <2>2, CountsCalm DEF Others, ApplySteps, Counted
<1>5. ASSUME NEW q \in Requests, Takes(q)
      PROVE  Counted
  <2>1. q \in Appliers /\ app[q].pc = "take" /\ Others(q)
    BY <1>5, RequestOfIs DEF Takes, Keeps, Goes
  <2>2. Calm /\ batch' = batch
    BY <1>5, <2>1 DEF Takes, Keeps, Goes, Others, restVars, Calm, ApplySteps
  <2>. QED
    BY <2>1, <2>2, CountsCalm DEF Others, ApplySteps, Counted
<1>6. ASSUME NEW q \in Requests, Calls(q)
      PROVE  Counted
  <2>1. q \in Appliers /\ app[q].pc = "call" /\ Others(q) /\ app'[q].pc = "read"
        /\ UNCHANGED <<row, refunds, req, batch>>
    BY <1>6, RequestOfIs DEF Calls, Hears, restVars
  <2>2. Calm /\ batch' = batch
    BY <2>1 DEF Others, Calm, ApplySteps
  <2>. QED
    BY <2>1, <2>2, CountsCalm DEF Others, ApplySteps, Counted
<1>7. ASSUME NEW a \in Receivers, Receives(a)
      PROVE  Counted
  <2>1. Calm /\ batch' = batch /\ Others(a) /\ app[a].pc = "idle"
    BY <1>7 DEF Receives, Others, restVars, Calm, ApplySteps
  <2>. QED
    BY <2>1, CountsCalm DEF Others, ApplySteps, Counted
<1>8. ASSUME NEW a \in Pollers, Polls(a)
      PROVE  Counted
  <2>1. Calm /\ batch' = batch /\ Others(a) /\ app[a].pc = "idle"
    BY <1>8, GoesCalm DEF Polls, Goes, restVars, Appliers
  <2>. QED
    BY <2>1, CountsCalm DEF Others, ApplySteps, Counted
<1>9. ASSUME NEW a \in Appliers, Queries(a)
      PROVE  Counted
  <2>1. Calm /\ batch' = batch /\ Others(a) /\ app[a].pc = "query"
    BY <1>9, GoesCalm, HearsCalm DEF Queries, Goes, Hears
  <2>. QED
    BY <2>1, CountsCalm DEF Others, ApplySteps, Counted
<1>10. ASSUME NEW a \in Appliers, Reads(a)
       PROVE  Counted
  BY <1>10, CountsReads
<1>11. ASSUME NEW a \in Appliers, Updates(a)
       PROVE  Counted
  BY <1>11, CountsUpdates
<1>12. ASSUME NEW a \in Appliers, Refunds(a)
       PROVE  Counted
  BY <1>12, CountsRefunds
<1>13. ASSUME NEW a \in Appliers, Counts(a)
       PROVE  Counted
  BY <1>13, CountsCounts
<1>14. ASSUME NEW a \in Appliers, Writes(a)
       PROVE  Counted
  BY <1>14, CountsWrites
<1>15. ASSUME UNCHANGED vars
       PROVE  Counted
  BY <1>15, CountsCalm DEF vars, Calm, Counted
<1>. QED
  BY <1>0, <1>1, <1>2, <1>3, <1>4, <1>5, <1>6, <1>7, <1>8, <1>9, <1>10, <1>11, <1>12,
     <1>13, <1>14, <1>15 DEF Does, RequestDies, Dies, Counted, CountersInv

\* With no update in progress the batch row says what its payout rows say, the
\* "source of truth" of updateBatchCounters.
THEOREM CountersAreRight ==
    OneAtATime /\ MaxFailures = 0 => (Spec => []CountersMatch)
<1>. SUFFICES ASSUME OneAtATime, MaxFailures = 0
              PROVE  Spec => []CountersMatch
  OBVIOUS
<1>1. Init => CountersInv
  BY CountsInit
<1>2. CountersInv /\ [Next]_vars => CountersInv'
  BY CountersNext
<1>3. CountersInv => CountersMatch
  BY DEF CountersInv, CountersTold, CountsTold, BatchRests, CountersMatch, AtRest,
         Applying, ApplySteps
<1>. QED
  BY <1>1, <1>2, <1>3, PTL DEF Spec
-----------------------------------------------------------------------------
(* The promise to the merchant *)

\* The job has yet to call the provider for the payout.
Uncalled(p) ==
    \/ job[RequestOf(p)].status \in {"none", "queued"}
    \/ p \in app[RequestOf(p)].todo
    \/ app[RequestOf(p)].item = p /\ app[RequestOf(p)].pc \in {"take", "call"}

\* The provider does not make the payout and never will.
Gone(p) == provider[p] \in {"FAILED", "REVERSED"} \/ (provider[p] = "none" /\ ~Uncalled(p))

\* A job works through the payouts of its request, each once.
ListsInv ==
    \A q \in Requests :
        /\ app[q].todo \subseteq Items(q)
        /\ app[q].pc # "idle" => app[q].item \in Items(q) \ app[q].todo

HeldLate == \A q \in Requests : req[q] \in {"idle", "checked"} => ~held[q]

\* Whoever is told of a failure is told of a payout that is gone.
FailuresAreReal ==
    /\ \A p \in Payouts : Uncalled(p) => provider[p] = "none"
    /\ \A h \in hooks : h.raw \in {"FAILED", "REVERSED"} => Gone(h.item)
    /\ \A a \in Appliers :
        /\ (app[a].pc \in {"read", "update"} /\ NextStatus(a) \in TerminalFail)
              => Gone(app[a].item)
        /\ app[a].pc = "refund" => Gone(app[a].item)
    /\ \A p \in Payouts : refunds[p] > 0 => Gone(p)

PromiseInv == FlagInv /\ ListsInv /\ HeldLate /\ FailuresAreReal

\* The same of the next state.
UncalledNext(p) ==
    \/ job'[RequestOf(p)].status \in {"none", "queued"}
    \/ p \in app'[RequestOf(p)].todo
    \/ app'[RequestOf(p)].item = p /\ app'[RequestOf(p)].pc \in {"take", "call"}

GoneNext(p) ==
    provider'[p] \in {"FAILED", "REVERSED"} \/ (provider'[p] = "none" /\ ~UncalledNext(p))

LEMMA PromiseInit == Init => PromiseInv
<1>. SUFFICES ASSUME Init
              PROVE  PromiseInv
  OBVIOUS
<1>1. FlagInv
  BY OnceInit DEF FlagInv, Init
<1>2. \A a \in Appliers : app[a].pc = "idle" /\ app[a].todo = {}
  BY DEF Init, Idle
<1>3. ListsInv
  BY <1>2, RequestOfIs DEF ListsInv
<1>4. HeldLate
  BY DEF Init, HeldLate
<1>5. FailuresAreReal
  BY <1>2 DEF Init, FailuresAreReal
<1>. QED
  BY <1>1, <1>3, <1>4, <1>5 DEF PromiseInv

\* What has been called stays called.
LEMMA CalledRests ==
    ASSUME NEW p \in Payouts, app'[RequestOf(p)] = app[RequestOf(p)],
           job'[RequestOf(p)].status = job[RequestOf(p)].status, UncalledNext(p)
    PROVE  Uncalled(p)
BY DEF UncalledNext, Uncalled

LEMMA CalledElsewhere ==
    ASSUME NEW a \in Appliers, a \notin Requests, Others(a),
           \A q \in Requests : job'[q].status = job[q].status \/ q = a
    PROVE  \A p \in Payouts : UncalledNext(p) => Uncalled(p)
BY CalledRests, RequestOfIs DEF Others

LEMMA CalledGoes ==
    ASSUME NEW a \in Appliers, Goes(a, app[a].todo)
    PROVE  \A p \in Payouts : UncalledNext(p) => Uncalled(p)
<1>1. ASSUME NEW p \in Payouts, UncalledNext(p)
      PROVE  Uncalled(p)
  <2>. DEFINE q == RequestOf(p)
  <2>1. q \in Requests /\ q \in Appliers
    BY RequestOfIs
  <2>2. CASE q = a
    <3>1. job'[q].status \in {"none", "queued"} => job[q].status \in {"none", "queued"}
      BY <2>1 DEF Goes
    <3>2. p \in app'[q].todo => p \in app[q].todo
      BY <2>2 DEF Goes
    <3>3. app'[q].item = p /\ app'[q].pc \in {"take", "call"} => p \in app[q].todo
      BY <2>2 DEF Goes
    <3>. QED
      BY <1>1, <3>1, <3>2, <3>3 DEF UncalledNext, Uncalled
  <2>3. CASE q # a
    BY <1>1, <2>1, <2>3, CalledRests DEF Goes, Others
  <2>. QED
    BY <2>2, <2>3
<1>. QED
  BY <1>1

\* A call that stays with its payout.
Stays(a) ==
    /\ Others(a) /\ app'[a].item = app[a].item /\ app'[a].todo = app[a].todo
    /\ job' = job

LEMMA CalledStays ==
    ASSUME NEW a \in Appliers, Stays(a),
           app'[a].pc \in {"take", "call"} => app[a].pc \in {"take", "call"}
    PROVE  \A p \in Payouts : UncalledNext(p) => Uncalled(p)
BY RequestOfIs DEF Stays, Others, UncalledNext, Uncalled

LEMMA AfterStays ==
    ASSUME NEW a \in Appliers, After(a)
    PROVE  (Stays(a) /\ app'[a].pc = "count") \/ Goes(a, app[a].todo)
BY DEF After, Keeps, Stays

LEMMA StillCalled ==
    ASSUME PromiseInv, Does, ~CountFailure
    PROVE  \A p \in Payouts : UncalledNext(p) => Uncalled(p)
<1>. DEFINE Goal == \A p \in Payouts : UncalledNext(p) => Uncalled(p)
<1>0. BaseInv /\ JobsInv /\ Typed
  BY DEF PromiseInv, FlagInv, OnceInv, BaseInv
<1>1. ASSUME UNCHANGED <<app, job>>
      PROVE  Goal
  BY <1>1, CalledRests
<1>2. ASSUME NEW q \in Requests, EnqueueJob(q)
      PROVE  Goal
  <2>1. job[q].status = "none"
    BY <1>0, <1>2 DEF EnqueueJob, JobsInv
  <2>2. app' = app /\ \A r \in Requests : r # q => job'[r] = job[r]
    BY <1>0, <1>2 DEF EnqueueJob, Typed, JobRec
  <2>. QED
    BY <2>1, <2>2, CalledRests, RequestOfIs DEF Uncalled
<1>3. ASSUME NEW q \in Requests, Delivers(q)
      PROVE  Goal
  BY <1>3, CalledRests, RequestOfIs DEF Delivers, Others, Uncalled
<1>4. ASSUME NEW a \in Appliers, Goes(a, app[a].todo)
      PROVE  Goal
  BY <1>4, CalledGoes
<1>5. ASSUME NEW a \in Appliers, Stays(a),
             app'[a].pc \in {"take", "call"} => app[a].pc \in {"take", "call"}
      PROVE  Goal
  BY <1>5, CalledStays
<1>6. ASSUME NEW q \in Requests, Takes(q)
      PROVE  Goal
  BY <1>4, <1>5, <1>6, RequestOfIs DEF Takes, Keeps, Stays
<1>7. ASSUME NEW q \in Requests, Calls(q)
      PROVE  Goal
  <2>1. Stays(q) /\ app[q].pc = "call"
    BY <1>7 DEF Calls, Hears, Stays
  <2>. QED
    BY <1>5, <2>1, RequestOfIs
<1>8. ASSUME NEW a \in Receivers, Receives(a)
      PROVE  Goal
  BY <1>8, CalledElsewhere, PayoutAssumption DEF Receives, Appliers
<1>9. ASSUME NEW a \in Pollers, Polls(a)
      PROVE  Goal
  BY <1>9, CalledElsewhere, PayoutAssumption DEF Polls, Goes, Appliers
<1>10. ASSUME NEW a \in Appliers, Queries(a)
       PROVE  Goal
  BY <1>4, <1>5, <1>10 DEF Queries, Hears, Stays
<1>11. ASSUME NEW a \in Appliers, Reads(a)
       PROVE  Goal
  BY <1>4, <1>5, <1>11 DEF Reads, Keeps, Stays
<1>12. ASSUME NEW a \in Appliers, Updates(a)
       PROVE  Goal
  <2>1. CASE Keeps(a, "refund")
    BY <1>5, <2>1 DEF Keeps, Stays
  <2>2. CASE After(a)
    BY <1>4, <1>5, <2>2, AfterStays
  <2>. QED
    BY <1>12, <2>1, <2>2 DEF Updates
<1>13. ASSUME NEW a \in Appliers, Refunds(a)
       PROVE  Goal
  BY <1>4, <1>5, <1>13, AfterStays DEF Refunds
<1>14. ASSUME NEW a \in Appliers, Counts(a)
       PROVE  Goal
  BY <1>5, <1>14 DEF Counts, Keeps, Stays
<1>15. ASSUME NEW a \in Appliers, Writes(a)
       PROVE  Goal
  BY <1>4, <1>15 DEF Writes
<1>. QED
  BY <1>1, <1>2, <1>3, <1>6, <1>7, <1>8, <1>9, <1>10, <1>11, <1>12, <1>13, <1>14, <1>15
  DEF Does, ProviderStep, CheckReference, DebitWallet, RequestDies, StoreRows, Dies, vars

LEMMA ListsNext ==
    ASSUME PromiseInv, Does, ~CountFailure
    PROVE  ListsInv'
<1>0. BaseInv /\ ListsInv
  BY DEF PromiseInv, FlagInv, OnceInv
<1>1. ASSUME UNCHANGED app
      PROVE  ListsInv'
  BY <1>0, <1>1 DEF ListsInv
<1>2. ASSUME NEW q \in Requests, Delivers(q)
      PROVE  ListsInv'
  BY <1>0, <1>2, RequestOfIs DEF Delivers, Others, ListsInv
<1>3. ASSUME NEW a \in Appliers, Goes(a, app[a].todo)
      PROVE  ListsInv'
  BY <1>0, <1>3, RequestOfIs DEF Goes, Others, ListsInv
<1>4. ASSUME NEW a \in Appliers, Stays(a), app[a].pc # "idle"
      PROVE  ListsInv'
  BY <1>0, <1>4, RequestOfIs DEF Stays, Others, ListsInv
<1>5. ASSUME NEW a \in Appliers \ Requests, Others(a)
      PROVE  ListsInv'
  BY <1>0, <1>5, RequestOfIs DEF Others, ListsInv
<1>6. ASSUME NEW q \in Requests, Takes(q)
      PROVE  ListsInv'
  BY <1>3, <1>4, <1>6, RequestOfIs DEF Takes, Keeps, Stays
<1>7. ASSUME NEW q \in Requests, Calls(q)
      PROVE  ListsInv'
  <2>1. Stays(q) /\ app[q].pc = "call"
    BY <1>7 DEF Calls, Hears, Stays
  <2>. QED
    BY <1>4, <2>1, RequestOfIs
<1>8. ASSUME NEW a \in Receivers, Receives(a)
      PROVE  ListsInv'
  BY <1>5, <1>8, PayoutAssumption DEF Receives, Appliers
<1>9. ASSUME NEW a \in Pollers, Polls(a)
      PROVE  ListsInv'
  BY <1>5, <1>9, PayoutAssumption DEF Polls, Goes, Appliers
<1>10. ASSUME NEW a \in Appliers, Queries(a)
       PROVE  ListsInv'
  BY <1>3, <1>4, <1>10 DEF Queries, Hears, Stays
<1>11. ASSUME NEW a \in Appliers, Reads(a)
       PROVE  ListsInv'
  BY <1>3, <1>4, <1>11 DEF Reads, Keeps, Stays
<1>12. ASSUME NEW a \in Appliers, Updates(a)
       PROVE  ListsInv'
  <2>1. CASE Keeps(a, "refund")
    BY <1>4, <1>12, <2>1 DEF Updates, Keeps, Stays
  <2>2. CASE After(a)
    BY <1>3, <1>4, <1>12, <2>2, AfterStays DEF Updates
  <2>. QED
    BY <1>12, <2>1, <2>2 DEF Updates
<1>13. ASSUME NEW a \in Appliers, Refunds(a)
       PROVE  ListsInv'
  BY <1>3, <1>4, <1>13, AfterStays DEF Refunds
<1>14. ASSUME NEW a \in Appliers, Counts(a)
       PROVE  ListsInv'
  BY <1>4, <1>14 DEF Counts, Keeps, Stays
<1>15. ASSUME NEW a \in Appliers, Writes(a)
       PROVE  ListsInv'
  BY <1>3, <1>15 DEF Writes
<1>. QED
  BY <1>1, <1>2, <1>6, <1>7, <1>8, <1>9, <1>10, <1>11, <1>12, <1>13, <1>14, <1>15
  DEF Does, ProviderStep, CheckReference, DebitWallet, EnqueueJob, RequestDies, StoreRows,
      Dies, vars

LEMMA HeldLateNext ==
    ASSUME PromiseInv, Does
    PROVE  HeldLate'
<1>0. Typed /\ HeldLate
  BY DEF PromiseInv, FlagInv, OnceInv, BaseInv
<1>1. ASSUME UNCHANGED <<req, held>>
      PROVE  HeldLate'
  BY <1>0, <1>1 DEF HeldLate
<1>2. ASSUME NEW q \in Requests, CheckReference(q) \/ DebitWallet(q) \/ EnqueueJob(q)
                                 \/ RequestDies(q) \/ StoreRows(q)
      PROVE  HeldLate'
  BY <1>0, <1>2 DEF CheckReference, DebitWallet, EnqueueJob, RequestDies, StoreRows, Typed,
                    HeldLate
<1>. QED
  BY <1>1, <1>2 DEF Does, ProviderStep, Delivers, Takes, Calls, Receives, Polls, Queries,
                    Reads, Updates, Refunds, Counts, Writes, Dies, restVars, vars

\* A payout that is gone stays gone: only the one call could make it.
LEMMA GoneStays ==
    ASSUME PromiseInv, Does, ~CountFailure
    PROVE  \A p \in Payouts : Gone(p) => GoneNext(p)
<1>1. \A p \in Payouts : UncalledNext(p) => Uncalled(p)
  BY StillCalled
<1>2. ASSUME NEW p \in Payouts, NEW o \in Payouts, Gone(o), ProviderStep(p)
      PROVE  provider'[o] = provider[o]
  <2>1. provider[p] \notin {"none", "FAILED", "REVERSED"}
    BY <1>2 DEF ProviderStep, NextRaw
  <2>. QED
    BY <1>2, <2>1 DEF ProviderStep, Gone
<1>3. ASSUME NEW q \in Requests, NEW o \in Payouts, Gone(o), Calls(q)
      PROVE  provider'[o] = provider[o]
  <2>1. RequestOf(app[q].item) = q /\ app[q].item \in Payouts
    BY <1>3, RequestOfIs DEF Calls, PromiseInv, ListsInv
  <2>2. Uncalled(app[q].item)
    BY <1>3, <2>1 DEF Calls, Uncalled
  <2>3. provider[app[q].item] = "none"
    BY <2>1, <2>2 DEF PromiseInv, FailuresAreReal
  <2>. QED
    BY <1>3, <2>2, <2>3 DEF Calls, Gone
<1>4. ASSUME NEW o \in Payouts, Gone(o)
      PROVE  provider'[o] = provider[o]
  BY <1>2, <1>3, <1>4 DEF Does, CheckReference, DebitWallet, EnqueueJob, RequestDies,
     StoreRows, Delivers, Takes, Receives, Polls, Queries, Reads, Updates, Refunds, Counts,
     Writes, Dies, restVars, vars
<1>. QED
  BY <1>1, <1>4 DEF Gone, GoneNext

\* The answer to the one call: the payout is accepted, or gone.
LEMMA CallAnswers ==
    ASSUME ~LostAnswers, PromiseInv, NEW q \in Requests, Calls(q)
    PROVE  LET p == app[q].item IN
           /\ p \in Payouts /\ RequestOf(p) = q /\ provider[p] = "none" /\ ~UncalledNext(p)
           /\ Stays(q) /\ app'[q].pc = "read"
           /\ \A o \in Payouts : o # p => provider'[o] = provider[o]
           /\ \/ app'[q].raw \in {"AUTHORIZED", "PROCESSING"}
              \/ app'[q].raw = "FAILED" /\ provider' = provider
<1>. DEFINE p == app[q].item
<1>1. p \in Payouts /\ RequestOf(p) = q /\ p \notin app[q].todo
  BY RequestOfIs DEF Calls, PromiseInv, ListsInv
<1>2. Uncalled(p)
  BY <1>1 DEF Calls, Uncalled
<1>3. provider[p] = "none"
  BY <1>1, <1>2 DEF PromiseInv, FailuresAreReal
<1>4. Stays(q) /\ app'[q].pc = "read"
  BY DEF Calls, Hears, Stays
<1>5. job[q].status = "running"
  BY DEF Calls, PromiseInv, FlagInv, OnceInv, JobsInv
<1>6. ~UncalledNext(p)
  BY <1>1, <1>4, <1>5 DEF Stays, UncalledNext
<1>. QED
  BY <1>1, <1>3, <1>4, <1>6 DEF Calls, Hears

\* The statuses that refund are the raw failures.
LEMMA FailRaw ==
    \A raw \in RawStatuses :
        MapProviderStatus(raw) \in TerminalFail <=> raw \in {"FAILED", "REVERSED"}
BY MapFinal DEF TerminalFail

\* A call whose status is real keeps the failures real.
LEMMA RealKept ==
    ASSUME PromiseInv, Does, ~CountFailure, NEW a \in Appliers, Others(a),
           UNCHANGED <<provider, hooks>>,
           (app'[a].pc \in {"read", "update"} /\ app'[a].raw \in {"FAILED", "REVERSED"})
              => GoneNext(app'[a].item),
           app'[a].pc = "refund" => GoneNext(app'[a].item),
           \A p \in Payouts : refunds'[p] > 0 => refunds[p] > 0 \/ Gone(p),
           app'[a].raw \in RawStatuses
    PROVE  FailuresAreReal'
<1>1. /\ \A p \in Payouts : Gone(p) => GoneNext(p)
      /\ \A p \in Payouts : UncalledNext(p) => Uncalled(p)
  BY GoneStays, StillCalled
<1>2. \A p \in Payouts : UncalledNext(p) => provider'[p] = "none"
  BY <1>1 DEF PromiseInv, FailuresAreReal
<1>3. \A h \in hooks' : h.raw \in {"FAILED", "REVERSED"} => GoneNext(h.item)
  BY <1>1 DEF PromiseInv, FailuresAreReal, FlagInv, OnceInv, BaseInv, Typed
<1>4. ASSUME NEW b \in Appliers
      PROVE  /\ (app'[b].pc \in {"read", "update"}
                 /\ MapProviderStatus(app'[b].raw) \in TerminalFail) => GoneNext(app'[b].item)
             /\ app'[b].pc = "refund" => GoneNext(app'[b].item)
  <2>1. CASE b = a
    BY <2>1, FailRaw
  <2>2. CASE b # a
    <3>1. app'[b] = app[b]
      BY <2>2 DEF Others
    <3>2. app[b].pc # "idle" => app[b].item \in Payouts
      BY DEF PromiseInv, FlagInv, OnceInv, BaseInv, Known
    <3>. QED
      BY <1>1, <3>1, <3>2 DEF PromiseInv, FailuresAreReal, NextStatus
  <2>. QED
    BY <2>1, <2>2
<1>5. \A p \in Payouts : refunds'[p] > 0 => GoneNext(p)
  BY <1>1 DEF PromiseInv, FailuresAreReal
<1>. QED
  BY <1>2, <1>3, <1>4, <1>5
  DEF FailuresAreReal, Gone, GoneNext, Uncalled, UncalledNext, NextStatus

LEMMA RealRests ==
    ASSUME PromiseInv, Does, ~CountFailure,
           UNCHANGED <<provider, hooks, app, refunds>>
    PROVE  FailuresAreReal'
<1>1. /\ \A p \in Payouts : Gone(p) => GoneNext(p)
      /\ \A p \in Payouts : UncalledNext(p) => Uncalled(p)
  BY GoneStays, StillCalled
<1>2. /\ \A a \in Appliers : app[a].pc # "idle" => app[a].item \in Payouts
      /\ \A h \in hooks : h.item \in Payouts
  BY DEF PromiseInv, FlagInv, OnceInv, BaseInv, Known, Typed
<1>3. /\ \A p \in Payouts : UncalledNext(p) => provider'[p] = "none"
      /\ \A h \in hooks' : h.raw \in {"FAILED", "REVERSED"} => GoneNext(h.item)
      /\ \A a \in Appliers :
          /\ (app'[a].pc \in {"read", "update"}
              /\ MapProviderStatus(app'[a].raw) \in TerminalFail) => GoneNext(app'[a].item)
          /\ app'[a].pc = "refund" => GoneNext(app'[a].item)
      /\ \A p \in Payouts : refunds'[p] > 0 => GoneNext(p)
  BY <1>1, <1>2 DEF PromiseInv, FailuresAreReal, NextStatus
<1>. QED
  BY <1>3 DEF FailuresAreReal, Gone, GoneNext, Uncalled, UncalledNext, NextStatus

LEMMA RealProvider ==
    ASSUME PromiseInv, Does, ~CountFailure, NEW p \in Payouts, ProviderStep(p)
    PROVE  FailuresAreReal'
<1>1. /\ \A o \in Payouts : Gone(o) => GoneNext(o)
      /\ \A o \in Payouts : UncalledNext(o) => Uncalled(o)
  BY GoneStays, StillCalled
<1>2. /\ \A a \in Appliers : app[a].pc # "idle" => app[a].item \in Payouts
      /\ \A h \in hooks : h.item \in Payouts
  BY DEF PromiseInv, FlagInv, OnceInv, BaseInv, Known, Typed
<1>3. \A o \in Payouts : UncalledNext(o) => provider'[o] = "none"
  BY <1>1 DEF PromiseInv, FailuresAreReal, ProviderStep
<1>4. \A h \in hooks' : h.raw \in {"FAILED", "REVERSED"} => GoneNext(h.item)
  BY <1>1, <1>2 DEF PromiseInv, FailuresAreReal, ProviderStep, GoneNext
<1>5. /\ \A a \in Appliers :
          /\ (app'[a].pc \in {"read", "update"}
              /\ MapProviderStatus(app'[a].raw) \in TerminalFail) => GoneNext(app'[a].item)
          /\ app'[a].pc = "refund" => GoneNext(app'[a].item)
      /\ \A o \in Payouts : refunds'[o] > 0 => GoneNext(o)
  BY <1>1, <1>2 DEF PromiseInv, FailuresAreReal, ProviderStep, NextStatus
<1>. QED
  BY <1>3, <1>4, <1>5
  DEF FailuresAreReal, Gone, GoneNext, Uncalled, UncalledNext, NextStatus

LEMMA RealCalls ==
    ASSUME ~LostAnswers, PromiseInv, Does, ~CountFailure, NEW q \in Requests, Calls(q)
    PROVE  FailuresAreReal'
<1>. DEFINE p == app[q].item
<1>1. /\ \A o \in Payouts : Gone(o) => GoneNext(o)
      /\ \A o \in Payouts : UncalledNext(o) => Uncalled(o)
  BY GoneStays, StillCalled
<1>2. /\ p \in Payouts /\ provider[p] = "none" /\ ~UncalledNext(p)
      /\ Others(q) /\ app'[q].pc = "read" /\ app'[q].item = p
      /\ \A o \in Payouts : o # p => provider'[o] = provider[o]
      /\ \/ app'[q].raw \in {"AUTHORIZED", "PROCESSING"}
         \/ app'[q].raw = "FAILED" /\ provider' = provider
  BY CallAnswers DEF Stays
<1>3. /\ \A a \in Appliers : app[a].pc # "idle" => app[a].item \in Payouts
      /\ \A h \in hooks : h.item \in Payouts
  BY DEF PromiseInv, FlagInv, OnceInv, BaseInv, Known, Typed
<1>4. \A o \in Payouts : UncalledNext(o) => provider'[o] = "none"
  BY <1>1, <1>2 DEF PromiseInv, FailuresAreReal
<1>5. /\ \A h \in hooks' : h.raw \in {"FAILED", "REVERSED"} => GoneNext(h.item)
      /\ \A o \in Payouts : refunds'[o] > 0 => GoneNext(o)
  BY <1>1, <1>3 DEF PromiseInv, FailuresAreReal, Calls, restVars
<1>6. ASSUME NEW b \in Appliers
      PROVE  /\ (app'[b].pc \in {"read", "update"}
                 /\ MapProviderStatus(app'[b].raw) \in TerminalFail) => GoneNext(app'[b].item)
             /\ app'[b].pc = "refund" => GoneNext(app'[b].item)
  <2>1. CASE b = q
    <3>1. app'[b].raw \in {"AUTHORIZED", "PROCESSING"}
             => MapProviderStatus(app'[b].raw) \notin TerminalFail
      BY FailRaw DEF RawStatuses
    <3>2. provider' = provider => GoneNext(p)
      BY <1>2 DEF GoneNext
    <3>. QED
      BY <1>2, <2>1, <3>1, <3>2
  <2>2. CASE b # q
    <3>1. app'[b] = app[b]
      BY <1>2, <2>2 DEF Others
    <3>. QED
      BY <1>1, <1>3, <3>1 DEF PromiseInv, FailuresAreReal, NextStatus
  <2>. QED
    BY <2>1, <2>2
<1>. QED
  BY <1>4, <1>5, <1>6
  DEF FailuresAreReal, Gone, GoneNext, Uncalled, UncalledNext, NextStatus

LEMMA RealNext ==
    ASSUME ~LostAnswers, PromiseInv, Does, ~CountFailure
    PROVE  FailuresAreReal'
<1>0. /\ \A p \in Payouts : Gone(p) => GoneNext(p)
      /\ BaseInv /\ Typed
  BY GoneStays DEF PromiseInv, FlagInv, OnceInv, BaseInv
<1>1. ASSUME NEW a \in Appliers, Goes(a, app[a].todo) \/ Goes(a, Pending),
             UNCHANGED <<provider, hooks, refunds>>
      PROVE  FailuresAreReal'
  <2>1. Others(a) /\ app'[a].pc \notin {"read", "update", "refund"}
        /\ app'[a].raw \in RawStatuses
    BY <1>1 DEF Goes, ApplierRec
  <2>. QED
    BY <1>1, <2>1, RealKept
<1>2. ASSUME NEW a \in Appliers, NEW pc, Keeps(a, pc), pc \notin {"read", "update", "refund"},
             UNCHANGED <<provider, hooks, refunds>>
      PROVE  FailuresAreReal'
  <2>1. Others(a) /\ app'[a].pc \notin {"read", "update", "refund"}
        /\ app'[a].raw \in RawStatuses
    BY <1>2 DEF Keeps, ApplierRec
  <2>. QED
    BY <1>2, <2>1, RealKept
<1>3. ASSUME NEW q \in Requests, Delivers(q)
      PROVE  FailuresAreReal'
  <2>1. Others(q) /\ app'[q].pc = "take" /\ app'[q].raw \in RawStatuses /\ q \in Appliers
    BY <1>3, RequestOfIs DEF Delivers, ApplierRec
  <2>. QED
    BY <1>3, <2>1, RealKept DEF Delivers, restVars
<1>4. ASSUME NEW q \in Requests, Takes(q)
      PROVE  FailuresAreReal'
  BY <1>1, <1>2, <1>4, RequestOfIs DEF Takes, restVars
<1>5. ASSUME NEW a \in Receivers, Receives(a)
      PROVE  FailuresAreReal'
  <2>1. PICK h \in hooks : app'[a].pc = "read" /\ app'[a].item = h.item /\ app'[a].raw = h.raw
    BY <1>5 DEF Receives
  <2>2. h.item \in Payouts /\ h.raw \in RawStatuses
    BY <1>0 DEF Typed
  <2>3. h.raw \in {"FAILED", "REVERSED"} => GoneNext(h.item)
    BY <1>0, <2>2 DEF PromiseInv, FailuresAreReal
  <2>4. Others(a) /\ a \in Appliers /\ UNCHANGED <<provider, hooks, refunds>>
    BY <1>5 DEF Receives, restVars, Appliers
  <2>. QED
    BY <2>1, <2>2, <2>3, <2>4, RealKept
<1>6. ASSUME NEW a \in Pollers, Polls(a)
      PROVE  FailuresAreReal'
  BY <1>1, <1>6 DEF Polls, restVars, Appliers
<1>7. ASSUME NEW a \in Appliers, Queries(a)
      PROVE  FailuresAreReal'
  <2>1. UNCHANGED <<provider, hooks, refunds>> /\ app[a].item \in Payouts
    BY <1>0, <1>7, CallStep DEF Queries
  <2>2. ASSUME Hears(a, provider[app[a].item])
        PROVE  FailuresAreReal'
    <3>1. app'[a].raw = provider[app[a].item] /\ app'[a].item = app[a].item
          /\ app'[a].pc = "read" /\ Others(a)
      BY <2>2 DEF Hears
    <3>2. app'[a].raw \in RawStatuses
      BY <1>0, <2>1, <3>1 DEF Typed
    <3>3. app'[a].raw \in {"FAILED", "REVERSED"} => GoneNext(app'[a].item)
      BY <2>1, <3>1 DEF GoneNext
    <3>. QED
      BY <2>1, <3>1, <3>2, <3>3, RealKept
  <2>. QED
    BY <1>1, <1>7, <2>1, <2>2 DEF Queries
<1>8. ASSUME NEW a \in Appliers, Reads(a)
      PROVE  FailuresAreReal'
  <2>1. UNCHANGED <<provider, hooks, refunds>> /\ app[a].item \in Payouts
    BY <1>0, <1>8, CallStep DEF Reads, restVars
  <2>2. ASSUME Keeps(a, "update")
        PROVE  FailuresAreReal'
    <3>1. app'[a].raw = app[a].raw /\ app'[a].item = app[a].item /\ app'[a].pc = "update"
          /\ Others(a) /\ app[a].pc = "read" /\ app[a].raw \in RawStatuses
      BY <1>0, <1>8, <2>2 DEF Keeps, Reads, Typed, ApplierRec
    <3>2. app[a].raw \in {"FAILED", "REVERSED"} => Gone(app[a].item)
      BY <3>1, FailRaw DEF PromiseInv, FailuresAreReal, NextStatus
    <3>. QED
      BY <1>0, <2>1, <3>1, <3>2, RealKept
  <2>. QED
    BY <1>1, <1>8, <2>1, <2>2 DEF Reads
<1>9. ASSUME NEW a \in Appliers, Updates(a)
      PROVE  FailuresAreReal'
  <2>1. UNCHANGED <<provider, hooks, refunds>> /\ app[a].item \in Payouts
    BY <1>9 DEF Updates, restVars
  <2>2. ASSUME ShouldRefund(a), Keeps(a, "refund")
        PROVE  FailuresAreReal'
    <3>1. Gone(app[a].item)
      BY <1>9, <2>2 DEF Updates, ShouldRefund, PromiseInv, FailuresAreReal
    <3>2. app'[a].item = app[a].item /\ app'[a].pc = "refund" /\ Others(a)
          /\ app'[a].raw \in RawStatuses
      BY <2>2 DEF Keeps, ApplierRec
    <3>. QED
      BY <1>0, <2>1, <3>1, <3>2, RealKept
  <2>. QED
    BY <1>1, <1>2, <1>9, <2>1, <2>2 DEF Updates, After
<1>10. ASSUME NEW a \in Appliers, Refunds(a)
       PROVE  FailuresAreReal'
  <2>1. Gone(app[a].item)
    BY <1>10 DEF Refunds, PromiseInv, FailuresAreReal
  <2>2. \A p \in Payouts : refunds'[p] > 0 => refunds[p] > 0 \/ Gone(p)
    BY <1>10, <2>1 DEF Refunds
  <2>3. Others(a) /\ app'[a].pc \notin {"read", "update", "refund"}
        /\ app'[a].raw \in RawStatuses
    BY <1>10 DEF Refunds, After, Keeps, Goes, ApplierRec
  <2>. QED
    BY <1>10, <2>2, <2>3, RealKept DEF Refunds
<1>11. ASSUME NEW a \in Appliers, Counts(a)
       PROVE  FailuresAreReal'
  BY <1>2, <1>11 DEF Counts, restVars
<1>12. ASSUME NEW a \in Appliers, Writes(a)
       PROVE  FailuresAreReal'
  BY <1>1, <1>12 DEF Writes
<1>13. ASSUME NEW q \in Requests,
              CheckReference(q) \/ DebitWallet(q) \/ EnqueueJob(q) \/ StoreRows(q)
       PROVE  FailuresAreReal'
  BY <1>13, RealRests DEF CheckReference, DebitWallet, EnqueueJob, StoreRows
<1>14. ASSUME UNCHANGED vars
       PROVE  FailuresAreReal'
  BY <1>14, RealRests DEF vars
<1>. QED
  BY <1>3, <1>4, <1>5, <1>6, <1>7, <1>8, <1>9, <1>10, <1>11, <1>12, <1>13, <1>14,
     RealProvider, RealCalls DEF Does, RequestDies, Dies

LEMMA PromiseNext ==
    ASSUME OneAtATime, MaxFailures = 0, ~LostAnswers, PromiseInv, [Next]_vars
    PROVE  PromiseInv' /\ Does /\ ~CountFailure
<1>1. FlagInv' /\ ~CountFailure /\ Does
  BY FlagInvNext, NextDoes DEF PromiseInv, FlagInv, OnceInv
<1>. QED
  BY <1>1, ListsNext, HeldLateNext, RealNext DEF PromiseInv

\* What the merchant sees, as long as no payout is both paid and refunded.
Seen(raw, taken, n) ==
    IF n # 0 THEN "returned"
    ELSE CASE raw = "SUCCESS"  -> "paid"
           [] raw = "REVERSED" -> "reversed"
           [] OTHER            -> IF taken THEN "held" ELSE "free"

LEMMA GoneIsUnpaid == PromiseInv => NotPaidAndRefunded
BY DEF PromiseInv, FailuresAreReal, Gone, NotPaidAndRefunded

LEMMA MoneyIs ==
    ASSUME PromiseInv
    PROVE  Money = [p \in Payouts |-> Seen(provider[p], held[RequestOf(p)], refunds[p])]
<1>1. NotPaidAndRefunded
  BY GoneIsUnpaid
<1>2. ASSUME NEW p \in Payouts
      PROVE  MoneyOf(p) = Seen(provider[p], held[RequestOf(p)], refunds[p])
  <2>1. refunds[p] \in {0, 1}
    BY DEF PromiseInv, FlagInv, OnceInv, OncePart, FlagBounds, BaseInv, Typed
  <2>. QED
    BY <1>1, <2>1 DEF MoneyOf, Seen
<1>. QED
  BY <1>2 DEF Money

LEMMA MoneyNext ==
    ASSUME PromiseInv'
    PROVE  Money' = [p \in Payouts |-> Seen(provider'[p], held'[RequestOf(p)], refunds'[p])]
<1>1. NotPaidAndRefunded'
  BY DEF PromiseInv, FailuresAreReal, Gone, NotPaidAndRefunded
<1>2. ASSUME NEW p \in Payouts
      PROVE  MoneyOf(p)' = Seen(provider'[p], held'[RequestOf(p)], refunds'[p])
  <2>1. refunds'[p] \in {0, 1}
    BY DEF PromiseInv, FlagInv, OnceInv, OncePart, FlagBounds, BaseInv, Typed
  <2>. QED
    BY <1>1, <2>1 DEF MoneyOf, Seen, RequestOf
<1>. QED
  BY <1>2 DEF Money

\* One payout's money moves, and nobody else's.
LEMMA ChangeIs ==
    ASSUME PromiseInv, PromiseInv', NEW p \in Payouts, NEW from, NEW to,
           Seen(provider[p], held[RequestOf(p)], refunds[p]) = from,
           Seen(provider'[p], held'[RequestOf(p)], refunds'[p]) = to,
           \A o \in Payouts : o # p => /\ provider'[o] = provider[o]
                                       /\ held'[RequestOf(o)] = held[RequestOf(o)]
                                       /\ refunds'[o] = refunds[o]
    PROVE  Promise!Change(p, from, to)
<1>1. Money[p] = from
  BY MoneyIs
<1>2. Money' = [Money EXCEPT ![p] = to]
  BY MoneyIs, MoneyNext
<1>. QED
  BY <1>1, <1>2 DEF Promise!Change

LEMMA MoneyRests ==
    ASSUME PromiseInv, PromiseInv',
           \A p \in Payouts : Seen(provider'[p], held'[RequestOf(p)], refunds'[p])
                              = Seen(provider[p], held[RequestOf(p)], refunds[p])
    PROVE  UNCHANGED Money
BY MoneyIs, MoneyNext

LEMMA ProviderKeepsPromise ==
    ASSUME PromiseInv, PromiseInv', NEW p \in Payouts, ProviderStep(p)
    PROVE  Promise!Next \/ UNCHANGED Money
<1>1. provider[p] \notin {"none", "FAILED", "REVERSED"}
  BY DEF ProviderStep, NextRaw
<1>2. refunds[p] = 0
  BY <1>1 DEF PromiseInv, FailuresAreReal, Gone, FlagInv, OnceInv, BaseInv, Typed
<1>3. held[RequestOf(p)]
  BY <1>1 DEF PromiseInv, FlagInv, OnceInv, BaseInv, MovedOnlyIfHeld
<1>4. /\ held' = held /\ refunds' = refunds
      /\ \A o \in Payouts : o # p => provider'[o] = provider[o]
  BY DEF ProviderStep
<1>5. CASE provider[p] = "SUCCESS"
  <2>1. provider'[p] = "REVERSED"
    BY <1>5 DEF ProviderStep, NextRaw
  <2>2. Promise!Change(p, "paid", "reversed")
    BY <1>2, <1>4, <1>5, <2>1, ChangeIs DEF Seen
  <2>. QED
    BY <2>2 DEF Promise!Next, Promise!Reverse
<1>6. CASE provider[p] # "SUCCESS" /\ provider'[p] = "SUCCESS"
  <2>1. Promise!Change(p, "held", "paid")
    BY <1>1, <1>2, <1>3, <1>4, <1>6, ChangeIs DEF Seen
  <2>. QED
    BY <2>1 DEF Promise!Next, Promise!Pay
<1>7. CASE provider[p] # "SUCCESS" /\ provider'[p] # "SUCCESS"
  <2>1. provider'[p] # "REVERSED"
    BY <1>7 DEF ProviderStep, NextRaw
  <2>2. Seen(provider'[p], held'[RequestOf(p)], refunds'[p])
           = Seen(provider[p], held[RequestOf(p)], refunds[p])
    BY <1>1, <1>4, <1>7, <2>1 DEF Seen
  <2>. QED
    BY <1>4, <2>2, MoneyRests
<1>. QED
  BY <1>5, <1>6, <1>7

LEMMA DebitKeepsPromise ==
    ASSUME PromiseInv, PromiseInv', NEW q \in Requests, DebitWallet(q)
    PROVE  Promise!Next \/ UNCHANGED Money
<1>1. UNCHANGED <<provider, refunds>> /\ req[q] = "checked"
  BY DEF DebitWallet
<1>2. CASE UNCHANGED held
  BY <1>1, <1>2, MoneyRests
<1>3. CASE held' = [held EXCEPT ![q] = TRUE]
  <2>1. \A p \in Payouts : held'[RequestOf(p)] = IF p \in Items(q) THEN TRUE ELSE held[RequestOf(p)]
    BY <1>3, RequestOfIs DEF PromiseInv, FlagInv, OnceInv, BaseInv, Typed
  <2>2. \A p \in Items(q) : p \in Payouts /\ ~held[RequestOf(p)]
    BY <1>1, RequestOfIs DEF PromiseInv, HeldLate
  <2>3. \A p \in Items(q) : provider[p] = "none" /\ refunds[p] = 0
    BY <2>2 DEF PromiseInv, FlagInv, OnceInv, BaseInv, MovedOnlyIfHeld, Typed
  <2>4. \A p \in Items(q) : Money[p] = "free"
    BY <2>2, <2>3, MoneyIs DEF Seen
  <2>5. \A p \in Payouts : Seen(provider'[p], held'[RequestOf(p)], refunds'[p])
                           = IF p \in Items(q) THEN "held"
                             ELSE Seen(provider[p], held[RequestOf(p)], refunds[p])
    BY <1>1, <2>1, <2>3 DEF Seen
  <2>6. Money' = [p \in Payouts |-> IF p \in Items(q) THEN "held" ELSE Money[p]]
    BY <2>5, MoneyIs, MoneyNext
  <2>7. Promise!Hold(Items(q))
    BY <2>4, <2>6 DEF Promise!Hold
  <2>. QED
    BY <2>7, RequestOfIs DEF Promise!Next
<1>. QED
  BY <1>2, <1>3 DEF DebitWallet

LEMMA CallKeepsPromise ==
    ASSUME ~LostAnswers, PromiseInv, PromiseInv', NEW q \in Requests, Calls(q)
    PROVE  UNCHANGED Money
<1>. DEFINE p == app[q].item
<1>1. /\ p \in Payouts /\ provider[p] = "none"
      /\ \A o \in Payouts : o # p => provider'[o] = provider[o]
      /\ provider'[p] \in {"AUTHORIZED", "PROCESSING"} \/ provider' = provider
  BY CallAnswers DEF Calls
<1>2. UNCHANGED <<held, refunds>>
  BY DEF Calls, restVars
<1>. QED
  BY <1>1, <1>2, MoneyRests DEF Seen

LEMMA RefundKeepsPromise ==
    ASSUME PromiseInv, PromiseInv', NEW a \in Appliers, Refunds(a)
    PROVE  Promise!Next
<1>. DEFINE p == app[a].item
<1>1. /\ p \in Payouts /\ Stored(p) /\ refunds[p] = 0 /\ Gone(p)
  BY DEF Refunds, PromiseInv, FailuresAreReal, FlagInv, OnceInv, OncePart, FlagSeen
<1>2. held[RequestOf(p)]
  BY <1>1 DEF PromiseInv, FlagInv, OnceInv, BaseInv, HeldFirst
<1>3. /\ UNCHANGED <<provider, held>> /\ refunds'[p] = 1
      /\ \A o \in Payouts : o # p => refunds'[o] = refunds[o]
  BY <1>1 DEF Refunds
<1>4. Promise!Change(p, "reversed", "returned") \/ Promise!Change(p, "held", "returned")
  <2>1. CASE provider[p] = "REVERSED"
    BY <1>1, <1>3, <2>1, ChangeIs DEF Seen
  <2>2. CASE provider[p] \in {"none", "FAILED"}
    BY <1>1, <1>2, <1>3, <2>2, ChangeIs DEF Seen
  <2>. QED
    BY <1>1, <2>1, <2>2 DEF Gone
<1>. QED
  BY <1>1, <1>4 DEF Promise!Next, Promise!Return

LEMMA StepKeepsPromise ==
    ASSUME OneAtATime, MaxFailures = 0, ~LostAnswers, PromiseInv, [Next]_vars
    PROVE  [Promise!Next]_Money
<1>0. PromiseInv' /\ Does /\ ~CountFailure
  BY PromiseNext
<1>1. ASSUME UNCHANGED <<provider, held, refunds>>
      PROVE  UNCHANGED Money
  BY <1>0, <1>1, MoneyRests
<1>. QED
  BY <1>0, <1>1, ProviderKeepsPromise, DebitKeepsPromise, CallKeepsPromise, RefundKeepsPromise
  DEF Does, CheckReference, EnqueueJob, RequestDies, StoreRows, Delivers, Takes, Receives,
      Polls, Queries, Reads, Updates, Counts, Writes, Dies, restVars, vars

\* With updates one at a time, no call cut short and no answer lost, every step
\* is one the merchant is promised: money taken is paid out, or comes back once.
THEOREM KeepsPromise ==
    OneAtATime /\ MaxFailures = 0 /\ ~LostAnswers => (Spec => ImplementsPromise)
<1>. SUFFICES ASSUME OneAtATime, MaxFailures = 0, ~LostAnswers
              PROVE  Spec => ImplementsPromise
  OBVIOUS
<1>1. Init => PromiseInv
  BY PromiseInit
<1>2. PromiseInv /\ [Next]_vars => PromiseInv'
  BY PromiseNext
<1>3. Init => Promise!Init
  <2>1. ASSUME Init, NEW p \in Payouts
        PROVE  MoneyOf(p) = "free"
    BY <2>1, RequestOfIs DEF Init, MoneyOf
  <2>. QED
    BY <2>1 DEF Promise!Init, Money
<1>4. PromiseInv /\ [Next]_vars => [Promise!Next]_Money
  BY StepKeepsPromise
<1>. QED
  BY <1>1, <1>2, <1>3, <1>4, PTL DEF Spec, ImplementsPromise, Promise!Safety
=============================================================================
