--------------------------- MODULE PaymentInProofs ---------------------------
(***************************************************************************)
(* The safety of PaymentIn for any number of payments, webhooks, polls and *)
(* refreshes.  That nobody is credited before the payer was charged holds  *)
(* with every overlap and failure; that the flag tells the credit and that *)
(* the merchant is told need calls that come one at a time and go through. *)
(***************************************************************************)
EXTENDS PaymentIn, FiniteSetTheorems, TLAPS

\* What an old status of a reference still says of it, when it is now `now'.
StillTrue(raw, now) ==
    /\ raw # "none" => now # "none"
    /\ raw = "SETTLED" => now \in {"SETTLED", "REVERSED"}
    /\ raw \in {"FAILED", "REVERSED"} => now = raw

\* The fields of an applier; what its list holds matters to nothing below.
Fields(s) ==
    s \in [pc : {s.pc}, table : {s.table}, ref : {s.ref}, raw : {s.raw},
           seen : {s.seen}, todo : {s.todo}]

Steps   == {"idle", "query", "read", "update", "credit", "notify"}
Working == {"update", "credit", "notify"}

\* An applier acts on a status that was heard and was true then, has a row when
\* it changes one, and credits for a payment that is settled.
ApplierOK(s, prov, rows) ==
    /\ Fields(s)
    /\ s.pc \in Steps /\ s.raw \in RawStatuses /\ s.seen \in RowType
    /\ s.pc \in Working => /\ <<s.table, s.ref>> \in Orders
                           /\ rows[<<s.table, s.ref>>].status # "none"
    /\ (s.pc \notin {"idle", "query"} /\ s.ref \in Refs)
          => s.raw # "none" /\ StillTrue(s.raw, prov[s.ref])
    /\ s.pc = "credit" => s.raw = "SETTLED"

Typed ==
    /\ provider \in [Refs -> RawStatuses]
    /\ hooks \subseteq [ref : Refs, raw : RawStatuses]
    /\ row \in [Orders -> RowType]
    /\ init \in [Orders -> Accepted \cup {"idle", "refused", "mark", "done"}]
    /\ credits \in [Orders -> Nat]
    /\ lastTold \in [Orders -> Statuses \cup {"none"}]
    /\ failures \in Nat
    /\ app = [a \in Appliers |-> app[a]]

HooksTrue == \A h \in hooks : h.raw # "none" /\ StillTrue(h.raw, provider[h.ref])

AppliersOK == \A a \in Appliers : ApplierOK(app[a], provider, row)

BaseInv == Typed /\ HooksTrue /\ AppliersOK

-----------------------------------------------------------------------------
(* Operators of the model *)

LEMMA MapType == \A raw \in RawStatuses : MapProviderStatus(raw) \in Statuses
BY DEF RawStatuses, MapProviderStatus, Statuses

\* Each final status has one raw status behind it.
LEMMA MapFinal ==
    \A raw \in RawStatuses :
        /\ MapProviderStatus(raw) = "SUCCESS" <=> raw = "SETTLED"
        /\ MapProviderStatus(raw) = "FAILED" <=> raw = "FAILED"
        /\ MapProviderStatus(raw) = "REVERSED" <=> raw = "REVERSED"
        /\ MapProviderStatus(raw) \notin {"REFUNDED", "none"}
BY DEF RawStatuses, MapProviderStatus

LEMMA NoRowType == NoRow \in RowType
BY DEF NoRow, RowType, Statuses

LEMMA OrderRef == \A o \in Orders : o[2] \in Refs /\ o = <<o[1], o[2]>>
BY PaymentAssumption

\* The end of a call, or the next order of its list, is nothing to worry about.
LEMMA NextOrIdleIs ==
    ASSUME NEW todo
    PROVE  /\ Fields(NextOrIdle(todo))
           /\ NextOrIdle(todo).pc \in {"idle", "query"}
           /\ NextOrIdle(todo).raw = "none"
           /\ NextOrIdle(todo).seen = NoRow
<1>1. CASE todo = <<>>
  BY <1>1 DEF NextOrIdle, Idle, Fields
<1>2. CASE todo # <<>>
  <2>1. NextOrIdle(todo) = [pc |-> "query", table |-> Head(todo)[1], ref |-> Head(todo)[2],
                            raw |-> "none", seen |-> NoRow, todo |-> Tail(todo)]
    BY <1>2 DEF NextOrIdle, Idle
  <2>. QED
    BY <2>1 DEF Fields
<1>. QED
  BY <1>1, <1>2

LEMMA FreshOK ==
    ASSUME NEW s, Fields(s), s.pc \in {"idle", "query"}, s.raw = "none", s.seen = NoRow,
           NEW prov, NEW rows
    PROVE  ApplierOK(s, prov, rows)
BY NoRowType DEF ApplierOK, Steps, Working, RawStatuses

-----------------------------------------------------------------------------
(* What one step leaves true *)

\* How a reference's status may change in a step.
Grows(old, new) ==
    \/ new = old
    \/ new \in NextRaw(old)
    \/ old = "none" /\ new \in Accepted

LEMMA StillTrueLater ==
    ASSUME NEW raw \in RawStatuses, NEW old \in RawStatuses, NEW new \in RawStatuses,
           StillTrue(raw, old), Grows(old, new)
    PROVE  StillTrue(raw, new)
BY DEF StillTrue, Grows, NextRaw, Accepted, RawStatuses

\* An applier that rests during a step stays well.
LEMMA ApplierStays ==
    ASSUME NEW s, NEW prov \in [Refs -> RawStatuses], NEW next \in [Refs -> RawStatuses],
           NEW rows, NEW rows2,
           ApplierOK(s, prov, rows),
           \A r \in Refs : Grows(prov[r], next[r]),
           \A o \in Orders : rows[o].status # "none" => rows2[o].status # "none"
    PROVE  ApplierOK(s, next, rows2)
<1>1. ASSUME s.pc \notin {"idle", "query"}, s.ref \in Refs
      PROVE  StillTrue(s.raw, next[s.ref])
  <2>1. StillTrue(s.raw, prov[s.ref]) /\ s.raw \in RawStatuses
    BY <1>1 DEF ApplierOK
  <2>. QED
    BY <1>1, <2>1, StillTrueLater
<1>. QED
  BY <1>1 DEF ApplierOK

\* One applier moves and may write a row; the provider does nothing.
LEMMA OneWrites ==
    ASSUME BaseInv, NEW a \in Appliers, NEW s, app' = [app EXCEPT ![a] = s],
           UNCHANGED <<provider, hooks, init>>,
           row' \in [Orders -> RowType],
           \A o \in Orders : row[o].status # "none" => row'[o].status # "none",
           credits' \in [Orders -> Nat], failures' \in Nat,
           lastTold' \in [Orders -> Statuses \cup {"none"}],
           ApplierOK(s, provider, row')
    PROVE  BaseInv' /\ app'[a] = s /\ \A b \in Appliers : b # a => app'[b] = app[b]
<1>1. /\ app' = [b \in Appliers |-> app'[b]]
      /\ app'[a] = s
      /\ \A b \in Appliers : b # a => app'[b] = app[b]
  BY DEF BaseInv, Typed
<1>2. Typed'
  BY <1>1 DEF BaseInv, Typed
<1>3. HooksTrue'
  BY DEF BaseInv, HooksTrue
<1>4. AppliersOK'
  <2>1. \A r \in Refs : Grows(provider[r], provider[r])
    BY DEF Grows
  <2>2. ASSUME NEW b \in Appliers
        PROVE  ApplierOK(app'[b], provider', row')
    <3>1. CASE b = a
      BY <1>1, <3>1
    <3>2. CASE b # a
      <4>1. ApplierOK(app[b], provider, row')
        BY <2>1, ApplierStays DEF BaseInv, Typed, AppliersOK
      <4>. QED
        BY <1>1, <3>2, <4>1
    <3>. QED
      BY <3>1, <3>2
  <2>. QED
    BY <2>2 DEF AppliersOK
<1>. QED
  BY <1>1, <1>2, <1>3, <1>4 DEF BaseInv

\* One applier moves and the rows do not change either.
LEMMA OneMoves ==
    ASSUME BaseInv, NEW a \in Appliers, NEW s, app' = [app EXCEPT ![a] = s],
           UNCHANGED <<provider, hooks, row, init>>,
           credits' \in [Orders -> Nat], failures' \in Nat,
           lastTold' \in [Orders -> Statuses \cup {"none"}],
           ApplierOK(s, provider, row)
    PROVE  BaseInv' /\ app'[a] = s /\ \A b \in Appliers : b # a => app'[b] = app[b]
BY OneWrites DEF BaseInv, Typed

\* The appliers rest, the provider moves on or a row is written.
LEMMA NoneMoves ==
    ASSUME BaseInv, UNCHANGED <<app, credits, lastTold>>,
           provider' \in [Refs -> RawStatuses],
           \A r \in Refs : Grows(provider[r], provider'[r]),
           row' \in [Orders -> RowType],
           \A o \in Orders : row[o].status # "none" => row'[o].status # "none",
           init' \in [Orders -> Accepted \cup {"idle", "refused", "mark", "done"}],
           failures' \in Nat,
           \/ hooks' = hooks
           \/ \E r \in Refs : /\ hooks' = hooks \cup {[ref |-> r, raw |-> provider'[r]]}
                              /\ provider'[r] # "none"
    PROVE  BaseInv'
<1>1. hooks' \subseteq [ref : Refs, raw : RawStatuses]
  BY DEF BaseInv, Typed
<1>2. Typed'
  BY <1>1 DEF BaseInv, Typed
<1>3. HooksTrue'
  <2>1. \A h \in hooks : h.raw # "none" /\ StillTrue(h.raw, provider'[h.ref])
    BY StillTrueLater DEF BaseInv, Typed, HooksTrue
  <2>2. \A r \in Refs : StillTrue(provider'[r], provider'[r])
    BY DEF StillTrue
  <2>. QED
    BY <2>1, <2>2 DEF HooksTrue
<1>4. AppliersOK'
  <2>1. \A a \in Appliers : ApplierOK(app[a], provider', row')
    BY ApplierStays DEF BaseInv, Typed, AppliersOK
  <2>. QED
    BY <2>1 DEF AppliersOK
<1>. QED
  BY <1>2, <1>3, <1>4 DEF BaseInv

-----------------------------------------------------------------------------
(* Each step keeps the invariant *)

LEMMA InitBase == Init => BaseInv /\ CreditedOnlyIfPaid
<1>. SUFFICES ASSUME Init
              PROVE  BaseInv /\ CreditedOnlyIfPaid
  OBVIOUS
<1>1. Fields(Idle) /\ Idle.pc = "idle" /\ Idle.raw = "none" /\ Idle.seen = NoRow
  BY DEF Idle, Fields
<1>2. AppliersOK
  BY <1>1, FreshOK DEF Init, AppliersOK
<1>3. Typed
  BY NoRowType DEF Init, Typed, RawStatuses
<1>. QED
  BY <1>2, <1>3 DEF Init, BaseInv, HooksTrue, CreditedOnlyIfPaid

LEMMA ProviderMovesBase ==
    ASSUME BaseInv, NEW r \in Refs, ProviderMoves(r)
    PROVE  /\ BaseInv'
           /\ \A q \in Refs : Grows(provider[q], provider'[q])
           /\ provider[r] # "none"
           /\ \A q \in Refs : q # r => provider'[q] = provider[q]
<1>1. PICK raw \in NextRaw(provider[r]) :
         /\ provider' = [provider EXCEPT ![r] = raw]
         /\ hooks' = hooks \cup {[ref |-> r, raw |-> raw]}
  BY DEF ProviderMoves
<1>2. provider[r] # "none" /\ raw \in RawStatuses /\ raw # "none"
  BY DEF NextRaw, RawStatuses
<1>3. /\ provider' \in [Refs -> RawStatuses]
      /\ provider'[r] = raw
      /\ \A q \in Refs : q # r => provider'[q] = provider[q]
  BY <1>1, <1>2 DEF BaseInv, Typed
<1>4. \A q \in Refs : Grows(provider[q], provider'[q])
  BY <1>3 DEF Grows
<1>5. UNCHANGED <<row, credits, lastTold, init, app, failures>>
  BY DEF ProviderMoves, ordersVars
<1>6. BaseInv'
  BY <1>1, <1>2, <1>3, <1>4, <1>5, NoneMoves DEF BaseInv, Typed
<1>. QED
  BY <1>2, <1>3, <1>4, <1>6

LEMMA InitiateAtProviderBase ==
    ASSUME BaseInv, NEW o \in Orders, InitiateAtProvider(o)
    PROVE  /\ BaseInv'
           /\ \A q \in Refs : Grows(provider[q], provider'[q])
           /\ \A q \in Refs : q # o[2] => provider'[q] = provider[q]
<1>1. o[2] \in Refs
  BY OrderRef
<1>2. /\ provider' \in [Refs -> RawStatuses]
      /\ \A q \in Refs : Grows(provider[q], provider'[q])
      /\ \A q \in Refs : q # o[2] => provider'[q] = provider[q]
  <2>1. CASE UNCHANGED provider
    BY <2>1 DEF BaseInv, Typed, Grows
  <2>2. CASE /\ provider[o[2]] = "none"
             /\ \E raw \in Accepted : provider' = [provider EXCEPT ![o[2]] = raw]
    BY <1>1, <2>2 DEF BaseInv, Typed, Grows, Accepted, RawStatuses
  <2>. QED
    BY <2>1, <2>2 DEF InitiateAtProvider
<1>3. init' \in [Orders -> Accepted \cup {"idle", "refused", "mark", "done"}]
  BY DEF InitiateAtProvider, BaseInv, Typed
<1>4. UNCHANGED <<row, credits, lastTold, hooks, app, failures>>
  BY DEF InitiateAtProvider, ordersVars
<1>. QED
  BY <1>2, <1>3, <1>4, NoneMoves DEF BaseInv, Typed

LEMMA Same == \A q \in Refs : Grows(provider[q], provider[q])
BY DEF Grows

LEMMA CreateRowBase ==
    ASSUME BaseInv, NEW o \in Orders, CreateRow(o)
    PROVE  /\ BaseInv'
           /\ \A p \in Orders : row'[p].credited = row[p].credited
           /\ row'[o].status \notin Final
           /\ \A p \in Orders : p # o => row'[p] = row[p]
<1>1. PICK status \in Statuses : /\ row' = [row EXCEPT ![o].status = status]
                                 /\ status \notin Final
  BY DEF CreateRow, Accepted, MapProviderStatus, Statuses, Final
<1>2. /\ row' \in [Orders -> RowType]
      /\ \A p \in Orders : row[p].status # "none" => row'[p].status # "none"
      /\ \A p \in Orders : row'[p].credited = row[p].credited
      /\ row'[o].status = status
      /\ \A p \in Orders : p # o => row'[p] = row[p]
  BY <1>1 DEF BaseInv, Typed, RowType, Statuses
<1>3. init' \in [Orders -> Accepted \cup {"idle", "refused", "mark", "done"}]
  BY DEF CreateRow, BaseInv, Typed
<1>. QED
  BY <1>1, <1>2, <1>3, Same, NoneMoves DEF CreateRow, BaseInv, Typed

LEMMA MarkFailedBase ==
    ASSUME BaseInv, NEW o \in Orders, MarkFailed(o)
    PROVE  /\ BaseInv'
           /\ \A p \in Orders : row'[p].credited = row[p].credited
           /\ row'[o].status = "FAILED"
           /\ \A p \in Orders : p # o => row'[p] = row[p]
<1>1. /\ row' \in [Orders -> RowType]
      /\ \A p \in Orders : row[p].status # "none" => row'[p].status # "none"
      /\ \A p \in Orders : row'[p].credited = row[p].credited
      /\ row'[o].status = "FAILED"
      /\ \A p \in Orders : p # o => row'[p] = row[p]
  BY DEF MarkFailed, BaseInv, Typed, RowType, Statuses
<1>2. init' \in [Orders -> Accepted \cup {"idle", "refused", "mark", "done"}]
  BY DEF MarkFailed, BaseInv, Typed
<1>. QED
  BY <1>1, <1>2, Same, NoneMoves DEF MarkFailed, BaseInv, Typed

LEMMA InitiateDiesBase ==
    ASSUME BaseInv, NEW o \in Orders, InitiateDies(o)
    PROVE  BaseInv'
BY Same, NoneMoves DEF InitiateDies, CountFailure, ordersVars, BaseInv, Typed

\* A call moves that neither writes a row nor posts a credit nor announces.
Quiet(a) ==
    /\ UNCHANGED <<provider, hooks, row, init, credits, lastTold>>
    /\ app[a].pc \in {"idle", "query", "read"}
    /\ app'[a].pc \in {"idle", "query", "read"}
    /\ \A b \in Appliers : b # a => app'[b] = app[b]

\* Whoever starts was idle and had room.
Starts(a) == Quiet(a) /\ CanStart(a) /\ failures' = failures

LEMMA AdvanceBase ==
    ASSUME BaseInv, NEW a \in Appliers, Advance(a),
           UNCHANGED <<provider, hooks, row, init>>,
           credits' \in [Orders -> Nat], failures' \in Nat,
           lastTold' \in [Orders -> Statuses \cup {"none"}]
    PROVE  /\ BaseInv'
           /\ app'[a].pc \in {"idle", "query"}
           /\ \A b \in Appliers : b # a => app'[b] = app[b]
<1>. DEFINE s == NextOrIdle(app[a].todo)
<1>1. s.pc \in {"idle", "query"} /\ ApplierOK(s, provider, row)
  BY NextOrIdleIs, FreshOK
<1>2. app' = [app EXCEPT ![a] = s]
  BY DEF Advance
<1>. HIDE DEF s
<1>. QED
  BY <1>1, <1>2, OneMoves

LEMMA ReceiveHookBase ==
    ASSUME BaseInv, NEW a \in Receivers, ReceiveHook(a)
    PROVE  BaseInv' /\ Starts(a)
<1>1. a \in Appliers
  BY DEF Appliers
<1>2. PICK h \in hooks :
         app' = [app EXCEPT ![a] = [Idle EXCEPT !.pc = "read", !.ref = h.ref, !.raw = h.raw]]
  BY DEF ReceiveHook
<1>. DEFINE s == [Idle EXCEPT !.pc = "read", !.ref = h.ref, !.raw = h.raw]
<1>3. /\ Fields(s) /\ s.pc = "read" /\ s.ref = h.ref /\ s.raw = h.raw /\ s.seen = NoRow
  BY DEF Idle, Fields
<1>4. h.ref \in Refs /\ h.raw \in RawStatuses /\ h.raw # "none"
      /\ StillTrue(h.raw, provider[h.ref])
  BY DEF BaseInv, Typed, HooksTrue
<1>5. ApplierOK(s, provider, row)
  BY <1>3, <1>4, NoRowType DEF ApplierOK, Steps, Working
<1>6. app' = [app EXCEPT ![a] = s] /\ s.pc = "read"
  BY <1>2, <1>3
<1>. HIDE DEF s
<1>7. UNCHANGED <<provider, hooks, row, init, credits, lastTold, failures>>
  BY DEF ReceiveHook, ordersVars
<1>8. BaseInv' /\ app'[a] = s /\ \A b \in Appliers : b # a => app'[b] = app[b]
  BY <1>1, <1>5, <1>6, <1>7, OneMoves DEF BaseInv, Typed
<1>. QED
  BY <1>6, <1>7, <1>8 DEF Starts, Quiet, ReceiveHook, CanStart

LEMMA BeginBase ==
    ASSUME BaseInv, NEW a \in Appliers, CanStart(a), NEW todo,
           app' = [app EXCEPT ![a] = NextOrIdle(todo)],
           UNCHANGED <<provider, hooks, row, init, credits, lastTold, failures>>
    PROVE  BaseInv' /\ Starts(a)
<1>. DEFINE s == NextOrIdle(todo)
<1>1. s.pc \in {"idle", "query"} /\ ApplierOK(s, provider, row)
  BY NextOrIdleIs, FreshOK
<1>2. app' = [app EXCEPT ![a] = s]
  OBVIOUS
<1>. HIDE DEF s
<1>3. BaseInv' /\ app'[a] = s /\ \A b \in Appliers : b # a => app'[b] = app[b]
  BY <1>1, <1>2, OneMoves DEF BaseInv, Typed
<1>. QED
  BY <1>1, <1>3 DEF Starts, Quiet, CanStart

LEMMA BeginPollBase ==
    ASSUME BaseInv, NEW a \in Pollers, NEW t \in Tables, BeginPoll(a, t)
    PROVE  BaseInv' /\ Starts(a)
<1>1. a \in Appliers
  BY DEF Appliers
<1>. QED
  BY <1>1, BeginBase DEF BeginPoll, ordersVars

LEMMA BeginRefreshBase ==
    ASSUME BaseInv, NEW a \in Refreshers, NEW o \in Orders, BeginRefresh(a, o)
    PROVE  BaseInv' /\ Starts(a)
<1>1. a \in Appliers
  BY DEF Appliers
<1>. QED
  BY <1>1, BeginBase DEF BeginRefresh, ordersVars

LEMMA QueryProviderBase ==
    ASSUME BaseInv, NEW a \in Appliers, QueryProvider(a)
    PROVE  BaseInv' /\ Quiet(a) /\ app[a].pc # "idle"
<1>1. UNCHANGED <<provider, hooks, row, init, credits, lastTold>>
  BY DEF QueryProvider, ordersVars
<1>2. failures' \in Nat
  BY DEF QueryProvider, CountFailure, BaseInv, Typed
<1>3. CASE Advance(a)
  BY <1>1, <1>2, <1>3, AdvanceBase DEF BaseInv, Typed, Quiet, QueryProvider
<1>4. CASE /\ app[a].ref \in AtProvider
           /\ app' = [app EXCEPT ![a].pc = "read", ![a].raw = provider[app[a].ref]]
  <2>. DEFINE s == [app[a] EXCEPT !.pc = "read", !.raw = provider[app[a].ref]]
  <2>1. app' = [app EXCEPT ![a] = s]
    BY <1>4 DEF BaseInv, Typed
  <2>2. ApplierOK(app[a], provider, row) /\ app[a].ref \in Refs /\ provider[app[a].ref] # "none"
        /\ provider[app[a].ref] \in RawStatuses
    BY <1>4 DEF AtProvider, BaseInv, AppliersOK, Typed
  <2>3. /\ Fields(s) /\ s.pc = "read" /\ s.raw = provider[app[a].ref]
        /\ s.ref = app[a].ref /\ s.seen = app[a].seen
    BY <2>2 DEF ApplierOK, Fields
  <2>4. ApplierOK(s, provider, row)
    BY <2>2, <2>3 DEF ApplierOK, Steps, Working, StillTrue
  <2>5. s.pc = "read"
    BY <2>3
  <2>. HIDE DEF s
  <2>6. BaseInv' /\ app'[a] = s /\ \A b \in Appliers : b # a => app'[b] = app[b]
    BY <1>1, <1>2, <2>1, <2>4, OneMoves DEF BaseInv, Typed
  <2>. QED
    BY <1>1, <2>5, <2>6 DEF Quiet, QueryProvider
<1>. QED
  BY <1>3, <1>4 DEF QueryProvider

\* The row that a call keeps, and that it is not done with it.
Reads(a) ==
    /\ UNCHANGED <<provider, hooks, row, init, credits, lastTold>>
    /\ Known(a) /\ app[a].ref \in Refs
    /\ app'[a].pc = "update" /\ app'[a].seen = row[OrderOf(a)]
    /\ app'[a].table = app[a].table /\ app'[a].ref = app[a].ref /\ app'[a].raw = app[a].raw
    /\ row[OrderOf(a)].status \in Final => row[OrderOf(a)].status # NextStatus(a)
    /\ \A b \in Appliers : b # a => app'[b] = app[b]

LEMMA ReadRowBase ==
    ASSUME BaseInv, NEW a \in Appliers, ReadRow(a)
    PROVE  BaseInv' /\ (Quiet(a) \/ Reads(a)) /\ app[a].pc # "idle" /\ failures' = failures
<1>1. UNCHANGED <<provider, hooks, row, init, credits, lastTold, failures>>
  BY DEF ReadRow, ordersVars
<1>2. app[a].pc = "read" /\ ApplierOK(app[a], provider, row)
  BY DEF ReadRow, BaseInv, AppliersOK
<1>3. CASE Advance(a)
  BY <1>1, <1>2, <1>3, AdvanceBase DEF BaseInv, Typed, Quiet
<1>4. CASE app' = [app EXCEPT ![a].table = "deposit"]
  <2>. DEFINE s == [app[a] EXCEPT !.table = "deposit"]
  <2>1. app' = [app EXCEPT ![a] = s]
    BY <1>4 DEF BaseInv, Typed
  <2>2. /\ Fields(s) /\ s.pc = "read" /\ s.ref = app[a].ref
        /\ s.raw = app[a].raw /\ s.seen = app[a].seen
    BY <1>2 DEF ApplierOK, Fields
  <2>3. ApplierOK(s, provider, row) /\ s.pc = "read"
    BY <1>2, <2>2 DEF ApplierOK, Steps, Working
  <2>. HIDE DEF s
  <2>4. BaseInv' /\ app'[a] = s /\ \A b \in Appliers : b # a => app'[b] = app[b]
    BY <1>1, <2>1, <2>3, OneMoves DEF BaseInv, Typed
  <2>. QED
    BY <1>1, <1>2, <2>3, <2>4 DEF Quiet
<1>5. CASE /\ Known(a)
           /\ ~(row[OrderOf(a)].status \in Final /\ row[OrderOf(a)].status = NextStatus(a))
           /\ app' = [app EXCEPT ![a].pc = "update", ![a].seen = row[OrderOf(a)]]
  <2>. DEFINE o == OrderOf(a)
              s == [app[a] EXCEPT !.pc = "update", !.seen = row[o]]
  <2>1. app' = [app EXCEPT ![a] = s]
    BY <1>5 DEF BaseInv, Typed
  <2>2. /\ Fields(s) /\ s.pc = "update" /\ s.seen = row[o]
        /\ s.table = app[a].table /\ s.ref = app[a].ref /\ s.raw = app[a].raw
    BY <1>2 DEF ApplierOK, Fields
  <2>3. o \in Orders /\ row[o].status # "none" /\ row[o] \in RowType /\ o = <<app[a].table, app[a].ref>>
        /\ app[a].ref \in Refs
    BY <1>5, OrderRef DEF Known, BaseInv, Typed, OrderOf
  <2>4. ApplierOK(s, provider, row)
    BY <1>2, <2>2, <2>3 DEF ApplierOK, Steps, Working
  <2>5. s.pc = "update" /\ s.seen = row[o] /\ s.table = app[a].table /\ s.ref = app[a].ref
        /\ s.raw = app[a].raw
    BY <2>2
  <2>. HIDE DEF s
  <2>6. BaseInv' /\ app'[a] = s /\ \A b \in Appliers : b # a => app'[b] = app[b]
    BY <1>1, <2>1, <2>4, OneMoves DEF BaseInv, Typed
  <2>. QED
    BY <1>1, <1>2, <1>5, <2>3, <2>5, <2>6 DEF Reads
<1>. QED
  BY <1>3, <1>4, <1>5 DEF ReadRow

\* The one status update: what becomes of the row, and of the call.
Updates(a) ==
    /\ UNCHANGED <<provider, hooks, init, credits, lastTold, failures>>
    /\ app[a].pc = "update" /\ OrderOf(a) \in Orders /\ app[a].ref \in Refs
    /\ row[OrderOf(a)].status # "none"
    /\ row'[OrderOf(a)].status = NextStatus(a)
    /\ row'[OrderOf(a)].credited = (ShouldCredit(a) \/ app[a].seen.credited)
    /\ \A p \in Orders : p # OrderOf(a) => row'[p] = row[p]
    /\ \/ /\ \/ ShouldCredit(a) /\ app'[a].pc = "credit"
             \/ ~ShouldCredit(a) /\ ~AlreadyFinal(a) /\ app'[a].pc = "notify"
          /\ app'[a].table = app[a].table /\ app'[a].ref = app[a].ref
          /\ app'[a].raw = app[a].raw /\ app'[a].seen = app[a].seen
       \/ ~ShouldCredit(a) /\ AlreadyFinal(a) /\ app'[a].pc \in {"idle", "query"}
    /\ \A b \in Appliers : b # a => app'[b] = app[b]

LEMMA UpdateRowBase ==
    ASSUME BaseInv, NEW a \in Appliers, UpdateRow(a)
    PROVE  BaseInv' /\ Updates(a)
<1>. DEFINE o == OrderOf(a)
            credited == ShouldCredit(a) \/ app[a].seen.credited
<1>1. UNCHANGED <<provider, hooks, init, credits, lastTold, failures>>
  BY DEF UpdateRow
<1>2. /\ app[a].pc = "update" /\ ApplierOK(app[a], provider, row)
      /\ o \in Orders /\ row[o].status # "none" /\ app[a].ref \in Refs
  <2>1. app[a].pc = "update" /\ ApplierOK(app[a], provider, row)
    BY DEF UpdateRow, BaseInv, AppliersOK
  <2>2. o = <<app[a].table, app[a].ref>> /\ o \in Orders /\ row[o].status # "none"
    BY <2>1 DEF ApplierOK, Working, OrderOf
  <2>. QED
    BY <2>1, <2>2, OrderRef
<1>3. credited \in BOOLEAN /\ app[a].raw \in RawStatuses
  BY <1>2 DEF ApplierOK, RowType, ShouldCredit
<1>4. NextStatus(a) \in Statuses /\ NextStatus(a) # "none"
  BY <1>3, MapType, MapFinal DEF NextStatus
<1>5. row' = [row EXCEPT ![o] = [status |-> NextStatus(a), credited |-> credited]]
  BY DEF UpdateRow
<1>. HIDE DEF o, credited
<1>6. /\ row' \in [Orders -> RowType]
      /\ \A p \in Orders : row[p].status # "none" => row'[p].status # "none"
      /\ row'[o].status = NextStatus(a) /\ row'[o].credited = credited
      /\ \A p \in Orders : p # o => row'[p] = row[p]
  BY <1>2, <1>3, <1>4, <1>5 DEF BaseInv, Typed, RowType
<1>7. ASSUME NEW s, app' = [app EXCEPT ![a] = s], ApplierOK(s, provider, row')
      PROVE  BaseInv' /\ app'[a] = s /\ \A b \in Appliers : b # a => app'[b] = app[b]
  BY <1>1, <1>6, <1>7, OneWrites DEF BaseInv, Typed
<1>8. ASSUME NEW pc \in {"credit", "notify"}, app' = [app EXCEPT ![a].pc = pc],
             pc = "credit" => ShouldCredit(a)
      PROVE  /\ BaseInv'
             /\ app'[a].pc = pc /\ app'[a].table = app[a].table /\ app'[a].ref = app[a].ref
             /\ app'[a].raw = app[a].raw /\ app'[a].seen = app[a].seen
             /\ \A b \in Appliers : b # a => app'[b] = app[b]
  <2>. DEFINE s == [app[a] EXCEPT !.pc = pc]
  <2>1. app' = [app EXCEPT ![a] = s]
    BY <1>8 DEF BaseInv, Typed
  <2>2. /\ Fields(s) /\ s.pc = pc /\ s.table = app[a].table
        /\ s.ref = app[a].ref /\ s.raw = app[a].raw /\ s.seen = app[a].seen
    BY <1>2 DEF ApplierOK, Fields
  <2>3. pc = "credit" => app[a].raw = "SETTLED"
    BY <1>3, <1>8, MapFinal DEF ShouldCredit, NextStatus
  <2>4. <<app[a].table, app[a].ref>> = o
    BY DEF o, OrderOf
  <2>5. ApplierOK(s, provider, row')
    BY <1>2, <1>6, <2>2, <2>3, <2>4 DEF ApplierOK, Steps, Working
  <2>. HIDE DEF s
  <2>. QED
    BY <1>7, <2>1, <2>2, <2>5
<1>9. ASSUME Advance(a)
      PROVE  /\ BaseInv' /\ app'[a].pc \in {"idle", "query"}
             /\ \A b \in Appliers : b # a => app'[b] = app[b]
  <2>. DEFINE s == NextOrIdle(app[a].todo)
  <2>1. s.pc \in {"idle", "query"} /\ ApplierOK(s, provider, row')
    BY NextOrIdleIs, FreshOK
  <2>2. app' = [app EXCEPT ![a] = s]
    BY <1>9 DEF Advance
  <2>. HIDE DEF s
  <2>. QED
    BY <1>7, <2>1, <2>2
<1>10. CASE ShouldCredit(a)
  <2>1. app' = [app EXCEPT ![a].pc = "credit"]
    BY <1>10 DEF UpdateRow
  <2>. QED
    BY <1>1, <1>2, <1>6, <1>8, <1>10, <2>1 DEF Updates, o, credited
<1>11. CASE ~ShouldCredit(a) /\ ~AlreadyFinal(a)
  <2>1. app' = [app EXCEPT ![a].pc = "notify"]
    BY <1>11 DEF UpdateRow
  <2>. QED
    BY <1>1, <1>2, <1>6, <1>8, <1>11, <2>1 DEF Updates, o, credited
<1>12. CASE ~ShouldCredit(a) /\ AlreadyFinal(a)
  <2>1. Advance(a)
    BY <1>12 DEF UpdateRow
  <2>. QED
    BY <1>1, <1>2, <1>6, <1>9, <1>12, <2>1 DEF Updates, o, credited
<1>. QED
  BY <1>10, <1>11, <1>12

\* The one movement, and what is left to do.
Credits(a) ==
    /\ UNCHANGED <<provider, hooks, row, init, lastTold, failures>>
    /\ app[a].pc = "credit" /\ OrderOf(a) \in Orders /\ app[a].ref \in Refs
    /\ credits' = [credits EXCEPT ![OrderOf(a)] = @ + 1]
    /\ \/ /\ ~AlreadyFinal(a) /\ app'[a].pc = "notify"
          /\ app'[a].table = app[a].table /\ app'[a].ref = app[a].ref
          /\ app'[a].raw = app[a].raw /\ app'[a].seen = app[a].seen
       \/ AlreadyFinal(a) /\ app'[a].pc \in {"idle", "query"}
    /\ \A b \in Appliers : b # a => app'[b] = app[b]

LEMMA CreditWalletBase ==
    ASSUME BaseInv, NEW a \in Appliers, CreditWallet(a)
    PROVE  BaseInv' /\ Credits(a) /\ Paid(app[a].ref)
<1>. DEFINE o == OrderOf(a)
<1>1. UNCHANGED <<provider, hooks, row, init, lastTold, failures>>
  BY DEF CreditWallet
<1>2. /\ app[a].pc = "credit" /\ ApplierOK(app[a], provider, row)
      /\ o \in Orders /\ app[a].ref \in Refs
  <2>1. app[a].pc = "credit" /\ ApplierOK(app[a], provider, row)
    BY DEF CreditWallet, BaseInv, AppliersOK
  <2>2. o = <<app[a].table, app[a].ref>> /\ o \in Orders
    BY <2>1 DEF ApplierOK, Working, OrderOf
  <2>. QED
    BY <2>1, <2>2, OrderRef
<1>3. Paid(app[a].ref)
  BY <1>2 DEF ApplierOK, StillTrue, Paid
<1>4. credits' = [credits EXCEPT ![o] = @ + 1] /\ credits' \in [Orders -> Nat]
  BY <1>2 DEF CreditWallet, BaseInv, Typed
<1>5. CASE AlreadyFinal(a)
  <2>1. Advance(a)
    BY <1>5 DEF CreditWallet
  <2>. QED
    BY <1>1, <1>2, <1>3, <1>4, <1>5, <2>1, AdvanceBase DEF Credits, BaseInv, Typed
<1>6. CASE ~AlreadyFinal(a)
  <2>. DEFINE s == [app[a] EXCEPT !.pc = "notify"]
  <2>1. app' = [app EXCEPT ![a] = s]
    BY <1>6 DEF CreditWallet, BaseInv, Typed
  <2>2. /\ Fields(s) /\ s.pc = "notify" /\ s.table = app[a].table
        /\ s.ref = app[a].ref /\ s.raw = app[a].raw /\ s.seen = app[a].seen
    BY <1>2 DEF ApplierOK, Fields
  <2>3. ApplierOK(s, provider, row)
    BY <1>2, <2>2 DEF ApplierOK, Steps, Working
  <2>. HIDE DEF s
  <2>4. BaseInv' /\ app'[a] = s /\ \A b \in Appliers : b # a => app'[b] = app[b]
    BY <1>1, <1>4, <2>1, <2>3, OneMoves DEF BaseInv, Typed
  <2>. QED
    BY <1>1, <1>2, <1>3, <1>4, <1>6, <2>2, <2>4 DEF Credits
<1>. QED
  BY <1>5, <1>6

Dispatches(a) ==
    /\ UNCHANGED <<provider, hooks, row, init, credits, failures>>
    /\ app[a].pc = "notify" /\ OrderOf(a) \in Orders
    /\ lastTold' = [lastTold EXCEPT ![OrderOf(a)] = NextStatus(a)]
    /\ app'[a].pc \in {"idle", "query"}
    /\ \A b \in Appliers : b # a => app'[b] = app[b]

LEMMA DispatchStatusBase ==
    ASSUME BaseInv, NEW a \in Appliers, DispatchStatus(a)
    PROVE  BaseInv' /\ Dispatches(a)
<1>1. UNCHANGED <<provider, hooks, row, init, credits, failures>>
  BY DEF DispatchStatus
<1>2. /\ app[a].pc = "notify" /\ OrderOf(a) \in Orders /\ app[a].raw \in RawStatuses
  BY DEF DispatchStatus, BaseInv, AppliersOK, ApplierOK, Working, OrderOf
<1>3. /\ lastTold' = [lastTold EXCEPT ![OrderOf(a)] = NextStatus(a)]
      /\ lastTold' \in [Orders -> Statuses \cup {"none"}]
  BY <1>2, MapType DEF DispatchStatus, NextStatus, BaseInv, Typed
<1>4. Advance(a)
  BY DEF DispatchStatus
<1>. QED
  BY <1>1, <1>2, <1>3, <1>4, AdvanceBase DEF Dispatches, BaseInv, Typed

LEMMA ApplierDiesBase ==
    ASSUME BaseInv, NEW a \in Appliers, ApplierDies(a)
    PROVE  BaseInv' /\ credits' = credits
<1>1. ApplierOK(Idle, provider, row)
  BY FreshOK DEF Idle, Fields
<1>2. UNCHANGED <<provider, hooks, row, init, credits, lastTold>>
  BY DEF ApplierDies, ordersVars
<1>3. failures' \in Nat /\ app' = [app EXCEPT ![a] = Idle]
  BY DEF ApplierDies, CountFailure, BaseInv, Typed
<1>. QED
  BY <1>1, <1>2, <1>3, OneMoves DEF BaseInv, Typed

-----------------------------------------------------------------------------
(* Nobody is credited before the payer was charged *)

LEMMA PaidLater ==
    ASSUME NEW old \in RawStatuses, NEW new \in RawStatuses, Grows(old, new),
           old \in {"SETTLED", "REVERSED"}
    PROVE  new \in {"SETTLED", "REVERSED"}
BY DEF Grows, NextRaw, Accepted, RawStatuses

LEMMA PaidStays ==
    ASSUME BaseInv, BaseInv', CreditedOnlyIfPaid, credits' = credits,
           \A q \in Refs : Grows(provider[q], provider'[q])
    PROVE  CreditedOnlyIfPaid'
<1>1. ASSUME NEW o \in Orders, credits[o] > 0
      PROVE  provider'[o[2]] \in {"SETTLED", "REVERSED"}
  <2>1. o[2] \in Refs
    BY OrderRef
  <2>2. provider[o[2]] \in {"SETTLED", "REVERSED"}
    BY <1>1 DEF CreditedOnlyIfPaid, Paid
  <2>. QED
    BY <2>1, <2>2, PaidLater DEF BaseInv, Typed
<1>. QED
  BY <1>1 DEF CreditedOnlyIfPaid, Paid

LEMMA NextBase ==
    ASSUME BaseInv, CreditedOnlyIfPaid, [Next]_vars
    PROVE  (BaseInv /\ CreditedOnlyIfPaid)'
<1>1. ASSUME NEW r \in Refs, ProviderMoves(r)
      PROVE  (BaseInv /\ CreditedOnlyIfPaid)'
  BY <1>1, ProviderMovesBase, PaidStays DEF ProviderMoves, ordersVars
<1>2. ASSUME NEW o \in Orders, InitiateAtProvider(o)
      PROVE  (BaseInv /\ CreditedOnlyIfPaid)'
  BY <1>2, InitiateAtProviderBase, PaidStays DEF InitiateAtProvider, ordersVars
<1>3. ASSUME NEW o \in Orders, CreateRow(o)
      PROVE  (BaseInv /\ CreditedOnlyIfPaid)'
  BY <1>3, CreateRowBase, Same, PaidStays DEF CreateRow
<1>4. ASSUME NEW o \in Orders, MarkFailed(o)
      PROVE  (BaseInv /\ CreditedOnlyIfPaid)'
  BY <1>4, MarkFailedBase, Same, PaidStays DEF MarkFailed
<1>5. ASSUME NEW o \in Orders, InitiateDies(o)
      PROVE  (BaseInv /\ CreditedOnlyIfPaid)'
  BY <1>5, InitiateDiesBase, Same, PaidStays DEF InitiateDies, ordersVars
<1>6. ASSUME NEW a \in Receivers, ReceiveHook(a)
      PROVE  (BaseInv /\ CreditedOnlyIfPaid)'
  BY <1>6, ReceiveHookBase, Same, PaidStays DEF Starts, Quiet
<1>7. ASSUME NEW a \in Pollers, NEW t \in Tables, BeginPoll(a, t)
      PROVE  (BaseInv /\ CreditedOnlyIfPaid)'
  BY <1>7, BeginPollBase, Same, PaidStays DEF Starts, Quiet
<1>8. ASSUME NEW a \in Refreshers, NEW o \in Orders, BeginRefresh(a, o)
      PROVE  (BaseInv /\ CreditedOnlyIfPaid)'
  BY <1>8, BeginRefreshBase, Same, PaidStays DEF Starts, Quiet
<1>9. ASSUME NEW a \in Appliers, QueryProvider(a)
      PROVE  (BaseInv /\ CreditedOnlyIfPaid)'
  BY <1>9, QueryProviderBase, Same, PaidStays DEF Quiet
<1>10. ASSUME NEW a \in Appliers, ReadRow(a)
       PROVE  (BaseInv /\ CreditedOnlyIfPaid)'
  BY <1>10, ReadRowBase, Same, PaidStays DEF Quiet, Reads
<1>11. ASSUME NEW a \in Appliers, UpdateRow(a)
       PROVE  (BaseInv /\ CreditedOnlyIfPaid)'
  BY <1>11, UpdateRowBase, Same, PaidStays DEF Updates
<1>12. ASSUME NEW a \in Appliers, CreditWallet(a)
       PROVE  (BaseInv /\ CreditedOnlyIfPaid)'
  <2>1. BaseInv' /\ Credits(a) /\ Paid(app[a].ref)
    BY <1>12, CreditWalletBase
  <2>2. OrderOf(a)[2] = app[a].ref
    BY DEF OrderOf
  <2>3. \A o \in Orders : o # OrderOf(a) => credits'[o] = credits[o]
    BY <2>1 DEF Credits, BaseInv, Typed
  <2>. QED
    BY <2>1, <2>2, <2>3 DEF CreditedOnlyIfPaid, Paid, Credits
<1>13. ASSUME NEW a \in Appliers, DispatchStatus(a)
       PROVE  (BaseInv /\ CreditedOnlyIfPaid)'
  BY <1>13, DispatchStatusBase, Same, PaidStays DEF Dispatches
<1>14. ASSUME NEW a \in Appliers, ApplierDies(a)
       PROVE  (BaseInv /\ CreditedOnlyIfPaid)'
  BY <1>14, ApplierDiesBase, Same, PaidStays DEF ApplierDies
<1>15. CASE UNCHANGED vars
  BY <1>15 DEF vars, BaseInv, Typed, HooksTrue, AppliersOK, CreditedOnlyIfPaid, Paid
<1>. QED
  BY <1>1, <1>2, <1>3, <1>4, <1>5, <1>6, <1>7, <1>8, <1>9, <1>10, <1>11, <1>12, <1>13,
     <1>14, <1>15 DEF Next, InitiateStep, ApplyStep

\* No wallet is credited before the payer has been charged, whatever webhooks,
\* polls and refreshes overlap and whatever fails (applyCollectionUpdate and
\* applyDepositUpdate credit only for a settled status, and none is taken back
\* but by a reversal).
THEOREM CreditNeedsPayment == Spec => []CreditedOnlyIfPaid
<1>1. Init => BaseInv /\ CreditedOnlyIfPaid
  BY InitBase
<1>2. BaseInv /\ CreditedOnlyIfPaid /\ [Next]_vars => (BaseInv /\ CreditedOnlyIfPaid)'
  BY NextBase
<1>. QED
  BY <1>1, <1>2, PTL DEF Spec

-----------------------------------------------------------------------------
(* Calls that come one at a time *)

OneAtATime == MaxActive = 1

\* A reference belongs to one order.
OwnReference == \A o, p \in Orders : o[2] = p[2] => o = p

Lone == \A a, b \in Appliers : app[a].pc # "idle" /\ app[b].pc # "idle" => a = b

\* Between the read and the update nobody else sets the flag, and between the
\* update and the credit it announces a movement that is yet to come.
FlagSeen ==
    \A a \in Appliers :
        /\ app[a].pc = "update" => app[a].seen.credited = row[OrderOf(a)].credited
        /\ app[a].pc = "credit" => /\ row[OrderOf(a)].credited
                                   /\ credits[OrderOf(a)] = 0

\* No movement without the flag, and one at most with it.
FlagBounds ==
    \A o \in Orders : credits[o] <= 1 /\ (~row[o].credited => credits[o] = 0)

OncePart == Lone /\ FlagSeen /\ FlagBounds
OnceInv  == BaseInv /\ OncePart

\* And when no call is cut short, the flag tells the movement.
FlagInv == OnceInv /\ failures = 0 /\ FlagTellsCredit

Flags == OncePart' /\ (FlagTellsCredit => FlagTellsCredit')

LEMMA NobodyElse ==
    ASSUME OneAtATime, NEW a \in Appliers, CanStart(a)
    PROVE  \A b \in Appliers : app[b].pc = "idle"
<1>1. IsFiniteSet(Appliers)
  BY PaymentAssumption, FS_Union DEF Appliers
<1>2. IsFiniteSet(Active)
  BY <1>1, FS_Subset DEF Active
<1>3. Cardinality(Active) \in Nat /\ Cardinality(Active) < 1
  BY <1>2, FS_CardinalityType DEF CanStart, OneAtATime
<1>4. Cardinality(Active) = 0
  BY <1>3
<1>5. Active = {}
  BY <1>2, <1>4, FS_EmptySet
<1>. QED
  BY <1>5 DEF Active

LEMMA LoneStays ==
    ASSUME OneAtATime, Lone, NEW a \in Appliers,
           app[a].pc # "idle" \/ CanStart(a),
           \A b \in Appliers : b # a => app'[b] = app[b]
    PROVE  Lone' /\ \A b \in Appliers : b # a => app[b].pc = "idle"
<1>1. \A b \in Appliers : b # a => app[b].pc = "idle"
  BY NobodyElse DEF Lone
<1>. QED
  BY <1>1 DEF Lone

LEMMA FlagInit == Init => OnceInv /\ FlagInv
<1>. SUFFICES ASSUME Init
              PROVE  OnceInv /\ FlagInv
  OBVIOUS
<1>1. \A a \in Appliers : app[a].pc = "idle"
  BY DEF Init, Idle
<1>2. \A o \in Orders : credits[o] = 0 /\ row[o].credited = FALSE
  BY DEF Init, NoRow
<1>. QED
  BY <1>1, <1>2, InitBase
     DEF Init, OnceInv, OncePart, FlagInv, Lone, FlagSeen, FlagBounds, FlagTellsCredit

\* A step that leaves the flags, the credits and the appliers as they are.
LEMMA FlagRests ==
    ASSUME OnceInv, UNCHANGED <<app, credits>>,
           \A o \in Orders : row'[o].credited = row[o].credited
    PROVE  Flags
<1>1. ASSUME NEW a \in Appliers, app[a].pc \in {"update", "credit"}
      PROVE  OrderOf(a) \in Orders
  BY <1>1 DEF OnceInv, BaseInv, AppliersOK, ApplierOK, Working, OrderOf
<1>2. FlagSeen'
  BY <1>1 DEF OnceInv, OncePart, FlagSeen, OrderOf
<1>3. FlagTellsCredit => FlagTellsCredit'
  BY DEF FlagTellsCredit, OrderOf
<1>. QED
  BY <1>2, <1>3 DEF Flags, OnceInv, OncePart, Lone, FlagBounds

LEMMA FlagQuiet ==
    ASSUME OneAtATime, OnceInv, NEW a \in Appliers, Quiet(a),
           app[a].pc # "idle" \/ CanStart(a)
    PROVE  Flags
<1>1. Lone'
  BY LoneStays DEF OnceInv, OncePart, Quiet
<1>2. FlagSeen' /\ FlagBounds'
  BY DEF OnceInv, OncePart, Quiet, FlagSeen, FlagBounds, OrderOf
<1>3. FlagTellsCredit => FlagTellsCredit'
  BY DEF Quiet, FlagTellsCredit, OrderOf
<1>. QED
  BY <1>1, <1>2, <1>3 DEF Flags, OncePart

LEMMA FlagReads ==
    ASSUME OneAtATime, OnceInv, NEW a \in Appliers, Reads(a), app[a].pc = "read"
    PROVE  Flags
<1>1. Lone'
  BY LoneStays DEF OnceInv, OncePart, Reads
<1>2. FlagSeen' /\ FlagBounds'
  BY DEF OnceInv, OncePart, Reads, FlagSeen, FlagBounds, OrderOf
<1>3. FlagTellsCredit => FlagTellsCredit'
  BY DEF Reads, FlagTellsCredit, OrderOf
<1>. QED
  BY <1>1, <1>2, <1>3 DEF Flags, OncePart

LEMMA FlagUpdates ==
    ASSUME OneAtATime, OnceInv, NEW a \in Appliers, Updates(a)
    PROVE  Flags
<1>. DEFINE o == OrderOf(a)
<1>1. Lone' /\ \A b \in Appliers : b # a => app[b].pc = "idle" /\ app'[b].pc = "idle"
  BY LoneStays DEF OnceInv, OncePart, Updates
<1>2. app[a].seen.credited = row[o].credited
  BY DEF OnceInv, OncePart, FlagSeen, Updates
<1>3. \A b \in Appliers : app[b].pc # "credit"
  BY <1>1 DEF Updates
<1>4. CASE ShouldCredit(a) /\ app'[a].pc = "credit"
  <2>1. OrderOf(a)' = o
    BY <1>4 DEF Updates, OrderOf
  <2>2. credits[o] = 0 /\ row'[o].credited
    BY <1>2, <1>4 DEF ShouldCredit, Updates, OnceInv, OncePart, FlagBounds
  <2>3. FlagSeen'
    BY <1>1, <1>4, <2>1, <2>2 DEF FlagSeen, Updates
  <2>4. FlagBounds'
    BY <2>2 DEF OnceInv, OncePart, FlagBounds, Updates
  <2>5. FlagTellsCredit => FlagTellsCredit'
    BY <1>3, <1>4, <2>1 DEF FlagTellsCredit, Updates
  <2>. QED
    BY <1>1, <2>3, <2>4, <2>5 DEF Flags, OncePart
<1>5. CASE ~ShouldCredit(a) /\ app'[a].pc \in {"notify", "idle", "query"}
  <2>1. \A p \in Orders : row'[p].credited = row[p].credited
    BY <1>2, <1>5 DEF OnceInv, BaseInv, Typed, RowType, Updates
  <2>2. FlagSeen'
    BY <1>1, <1>5 DEF FlagSeen
  <2>3. FlagBounds'
    BY <2>1 DEF OnceInv, OncePart, FlagBounds, Updates
  <2>4. FlagTellsCredit => FlagTellsCredit'
    BY <1>3, <2>1 DEF FlagTellsCredit, Updates
  <2>. QED
    BY <1>1, <2>2, <2>3, <2>4 DEF Flags, OncePart
<1>. QED
  BY <1>4, <1>5 DEF Updates

LEMMA FlagCredits ==
    ASSUME OneAtATime, OnceInv, NEW a \in Appliers, Credits(a)
    PROVE  Flags
<1>. DEFINE o == OrderOf(a)
<1>1. Lone' /\ \A b \in Appliers : b # a => app[b].pc = "idle" /\ app'[b].pc = "idle"
  BY LoneStays DEF OnceInv, OncePart, Credits
<1>2. row[o].credited /\ credits[o] = 0
  BY DEF OnceInv, OncePart, FlagSeen, Credits
<1>3. app'[a].pc \notin {"update", "credit"}
  BY DEF Credits
<1>4. credits'[o] = 1 /\ \A p \in Orders : p # o => credits'[p] = credits[p]
  BY <1>2 DEF Credits, OnceInv, BaseInv, Typed
<1>5. FlagSeen'
  BY <1>1, <1>3 DEF FlagSeen
<1>6. FlagBounds'
  BY <1>2, <1>4 DEF OnceInv, OncePart, FlagBounds, Credits
<1>7. FlagTellsCredit => FlagTellsCredit'
  BY <1>1, <1>2, <1>4 DEF FlagTellsCredit, Credits
<1>. QED
  BY <1>1, <1>5, <1>6, <1>7 DEF Flags, OncePart

LEMMA FlagDispatches ==
    ASSUME OneAtATime, OnceInv, NEW a \in Appliers, Dispatches(a)
    PROVE  Flags
<1>1. Lone' /\ \A b \in Appliers : b # a => app[b].pc = "idle" /\ app'[b].pc = "idle"
  BY LoneStays DEF OnceInv, OncePart, Dispatches
<1>2. FlagSeen' /\ FlagBounds'
  BY <1>1 DEF FlagSeen, FlagBounds, Dispatches, OnceInv, OncePart
<1>3. FlagTellsCredit => FlagTellsCredit'
  BY <1>1 DEF FlagTellsCredit, Dispatches
<1>. QED
  BY <1>1, <1>2, <1>3 DEF Flags, OncePart

\* A call that dies before its credit leaves the flag without the movement.
LEMMA OnceDies ==
    ASSUME OneAtATime, OnceInv, NEW a \in Appliers, ApplierDies(a)
    PROVE  OncePart'
<1>1. /\ app' = [app EXCEPT ![a] = Idle] /\ app[a].pc # "idle"
      /\ UNCHANGED <<row, credits>>
  BY DEF ApplierDies, ordersVars
<1>2. /\ app'[a].pc = "idle"
      /\ \A b \in Appliers : b # a => app'[b] = app[b]
  BY <1>1 DEF OnceInv, BaseInv, Typed, Idle
<1>3. Lone'
  BY <1>1, <1>2, LoneStays DEF OnceInv, OncePart
<1>4. FlagSeen' /\ FlagBounds'
  BY <1>1, <1>2 DEF OnceInv, OncePart, FlagSeen, FlagBounds, OrderOf
<1>. QED
  BY <1>3, <1>4 DEF OncePart

LEMMA FlagNext ==
    ASSUME OneAtATime, OnceInv, [Next]_vars
    PROVE  OncePart' /\ (CountFailure \/ (FlagTellsCredit => FlagTellsCredit'))
<1>0. BaseInv
  BY DEF OnceInv
<1>1. ASSUME NEW r \in Refs, ProviderMoves(r)
      PROVE  Flags
  BY <1>1, FlagRests DEF ProviderMoves, ordersVars
<1>2. ASSUME NEW o \in Orders, InitiateAtProvider(o)
      PROVE  Flags
  BY <1>2, FlagRests DEF InitiateAtProvider, ordersVars
<1>3. ASSUME NEW o \in Orders, CreateRow(o)
      PROVE  Flags
  BY <1>0, <1>3, CreateRowBase, FlagRests DEF CreateRow
<1>4. ASSUME NEW o \in Orders, MarkFailed(o)
      PROVE  Flags
  BY <1>0, <1>4, MarkFailedBase, FlagRests DEF MarkFailed
<1>5. ASSUME NEW o \in Orders, InitiateDies(o)
      PROVE  Flags
  BY <1>0, <1>5, FlagRests DEF InitiateDies, ordersVars
<1>6. ASSUME NEW a \in Receivers, ReceiveHook(a)
      PROVE  Flags
  BY <1>0, <1>6, ReceiveHookBase, FlagQuiet DEF Starts, Appliers
<1>7. ASSUME NEW a \in Pollers, NEW t \in Tables, BeginPoll(a, t)
      PROVE  Flags
  BY <1>0, <1>7, BeginPollBase, FlagQuiet DEF Starts, Appliers
<1>8. ASSUME NEW a \in Refreshers, NEW o \in Orders, BeginRefresh(a, o)
      PROVE  Flags
  BY <1>0, <1>8, BeginRefreshBase, FlagQuiet DEF Starts, Appliers
<1>9. ASSUME NEW a \in Appliers, QueryProvider(a)
      PROVE  Flags
  BY <1>0, <1>9, QueryProviderBase, FlagQuiet
<1>10. ASSUME NEW a \in Appliers, ReadRow(a)
       PROVE  Flags
  <2>1. app[a].pc = "read"
    BY <1>10 DEF ReadRow
  <2>. QED
    BY <1>0, <1>10, <2>1, ReadRowBase, FlagQuiet, FlagReads
<1>11. ASSUME NEW a \in Appliers, UpdateRow(a)
       PROVE  Flags
  BY <1>0, <1>11, UpdateRowBase, FlagUpdates
<1>12. ASSUME NEW a \in Appliers, CreditWallet(a)
       PROVE  Flags
  BY <1>0, <1>12, CreditWalletBase, FlagCredits
<1>13. ASSUME NEW a \in Appliers, DispatchStatus(a)
       PROVE  Flags
  BY <1>0, <1>13, DispatchStatusBase, FlagDispatches
<1>14. ASSUME NEW a \in Appliers, ApplierDies(a)
       PROVE  OncePart' /\ CountFailure
  BY <1>14, OnceDies DEF ApplierDies
<1>15. ASSUME UNCHANGED vars
       PROVE  Flags
  BY <1>15, FlagRests DEF vars
<1>. QED
  BY <1>1, <1>2, <1>3, <1>4, <1>5, <1>6, <1>7, <1>8, <1>9, <1>10, <1>11, <1>12, <1>13,
     <1>14, <1>15 DEF Next, InitiateStep, ApplyStep, Flags

\* Without a failure to count there is none.
LEMMA NoFailure ==
    ASSUME MaxFailures = 0, BaseInv, failures = 0, [Next]_vars
    PROVE  ~CountFailure /\ failures' = 0
<1>1. ~CountFailure
  BY DEF CountFailure
<1>2. ASSUME NEW a \in Appliers, ApplyStep(a) \/ ApplierDies(a)
      PROVE  failures' = failures
  BY <1>1, <1>2 DEF ApplyStep, ApplierDies, QueryProvider, ReadRow, UpdateRow,
                    CreditWallet, DispatchStatus
<1>3. ASSUME NEW o \in Orders, InitiateAtProvider(o) \/ InitiateStep(o) \/ InitiateDies(o)
      PROVE  failures' = failures
  BY <1>1, <1>3 DEF InitiateAtProvider, InitiateStep, InitiateDies, CreateRow, MarkFailed
<1>. QED
  BY <1>1, <1>2, <1>3 DEF Next, vars, ProviderMoves, ReceiveHook, BeginPoll, BeginRefresh

\* One flag of one order, so one movement for a reference.
LEMMA BoundsMeanOnce ==
    ASSUME OwnReference, OnceInv
    PROVE  CreditedAtMostOnce
<1>1. ASSUME NEW r \in Refs
      PROVE  Cardinality({o \in OrdersOf(r) : credits[o] > 0}) <= 1
  <2>. DEFINE S == {o \in OrdersOf(r) : credits[o] > 0}
  <2>1. \A o, p \in S : o = p
    BY DEF OrdersOf, OwnReference
  <2>2. CASE S = {}
    BY <2>2, FS_EmptySet
  <2>3. CASE S # {}
    <3>1. PICK o \in S : TRUE
      BY <2>3
    <3>2. S = {o}
      BY <2>1, <3>1
    <3>3. Cardinality({o}) = 1
      BY FS_Singleton
    <3>4. Cardinality(S) = 1
      BY <3>2, <3>3
    <3>. QED
      BY <3>4
  <2>. QED
    BY <2>2, <2>3
<1>. QED
  BY <1>1 DEF OnceInv, OncePart, FlagBounds, CreditedAtMostOnce, OrdersOf

\* When status updates come one at a time and a reference belongs to one order,
\* a payment is credited at most once, to one wallet, whatever else fails
\* (README.md:72; the flag is set by the update and read before it).
THEOREM CreditedOnce ==
    OneAtATime /\ OwnReference => (Spec => []CreditedAtMostOnce)
<1>. SUFFICES ASSUME OneAtATime, OwnReference
              PROVE  Spec => []CreditedAtMostOnce
  OBVIOUS
<1>1. Init => OnceInv /\ CreditedOnlyIfPaid
  BY FlagInit, InitBase
<1>2. OnceInv /\ CreditedOnlyIfPaid /\ [Next]_vars => (OnceInv /\ CreditedOnlyIfPaid)'
  BY NextBase, FlagNext DEF OnceInv
<1>3. OnceInv => CreditedAtMostOnce
  BY BoundsMeanOnce
<1>. QED
  BY <1>1, <1>2, <1>3, PTL DEF Spec

LEMMA FlagInvNext ==
    ASSUME OneAtATime, MaxFailures = 0, FlagInv, CreditedOnlyIfPaid, [Next]_vars
    PROVE  (FlagInv /\ CreditedOnlyIfPaid)'
<1>1. BaseInv' /\ CreditedOnlyIfPaid'
  BY NextBase DEF FlagInv, OnceInv
<1>2. ~CountFailure /\ failures' = 0
  BY NoFailure DEF FlagInv, OnceInv
<1>3. OncePart' /\ FlagTellsCredit'
  BY <1>2, FlagNext DEF FlagInv
<1>. QED
  BY <1>1, <1>2, <1>3 DEF FlagInv, OnceInv

\* When moreover no call is cut short, walletCreditedAt tells whether the one
\* movement exists (applyCollectionUpdate, applyDepositUpdate).
THEOREM FlagIsRight ==
    OneAtATime /\ MaxFailures = 0 => (Spec => []FlagTellsCredit)
<1>. SUFFICES ASSUME OneAtATime, MaxFailures = 0
              PROVE  Spec => []FlagTellsCredit
  OBVIOUS
<1>1. Init => FlagInv /\ CreditedOnlyIfPaid
  BY FlagInit, InitBase
<1>2. FlagInv /\ CreditedOnlyIfPaid /\ [Next]_vars => (FlagInv /\ CreditedOnlyIfPaid)'
  BY FlagInvNext
<1>3. FlagInv => FlagTellsCredit
  BY DEF FlagInv
<1>. QED
  BY <1>1, <1>2, <1>3, PTL DEF Spec

-----------------------------------------------------------------------------
(* Calls that go through, and initiations that are answered *)

Answered == OneAtATime /\ MaxFailures = 0 /\ OwnReference /\ LostAnswers = FALSE

\* initiate and the provider agree on whether there is a payment.
InitTruth ==
    \A o \in Orders :
        /\ init[o] \in {"idle", "refused", "mark"} => provider[o[2]] = "none"
        /\ row[o].status # "none" => init[o] \in {"mark", "done"}

\* What a final row says of the payment.
Tells(status, now) ==
    /\ status # "REFUNDED"
    /\ status = "SUCCESS" => now \in {"SETTLED", "REVERSED"}
    /\ status = "FAILED" => now \in {"none", "FAILED"}
    /\ status = "REVERSED" => now = "REVERSED"

RowTruth == \A o \in Orders : Tells(row[o].status, provider[o[2]])

\* The row read is as true as the row, its end was not yet known, and what is
\* announced is what the row says.
SeenTruth ==
    \A a \in Appliers :
        /\ app[a].pc \in Working =>
              /\ Tells(app[a].seen.status, provider[app[a].ref])
              /\ app[a].seen.status \in Final => app[a].seen.status # NextStatus(a)
        /\ app[a].pc \in {"credit", "notify"} => row[OrderOf(a)].status = NextStatus(a)
        /\ app[a].pc = "notify" => ~AlreadyFinal(a)

\* Somebody is about to announce the row's status.
Announcing(o) == \E a \in Appliers : app[a].pc \in {"credit", "notify"} /\ OrderOf(a) = o

SuccessTold ==
    \A o \in Orders :
        (row[o].status = "SUCCESS" /\ provider[o[2]] = "SETTLED" /\ ~Announcing(o))
            => lastTold[o] = "SUCCESS"

ToldInv == FlagInv /\ InitTruth /\ RowTruth /\ SeenTruth /\ SuccessTold

ToldPart == InitTruth /\ RowTruth /\ SeenTruth /\ SuccessTold

LEMMA TellsLater ==
    ASSUME NEW status, NEW old \in RawStatuses, NEW new \in RawStatuses,
           Tells(status, old), Grows(old, new), old = "none" => new = "none"
    PROVE  Tells(status, new)
BY DEF Tells, Grows, NextRaw, Accepted, RawStatuses

\* A status that was true tells the same as the row it is written to.
LEMMA TellsTrue ==
    ASSUME NEW raw \in RawStatuses, NEW now \in RawStatuses, StillTrue(raw, now),
           raw # "none"
    PROVE  Tells(MapProviderStatus(raw), now)
BY MapFinal DEF Tells, StillTrue

\* What is known of an applier that has read its row.
LEMMA WorkingIs ==
    ASSUME BaseInv, NEW a \in Appliers, app[a].pc \in Working
    PROVE  /\ OrderOf(a) \in Orders /\ OrderOf(a)[2] = app[a].ref /\ app[a].ref \in Refs
           /\ row[OrderOf(a)].status # "none"
           /\ app[a].raw \in RawStatuses /\ app[a].raw # "none"
           /\ provider[app[a].ref] \in RawStatuses
           /\ StillTrue(app[a].raw, provider[app[a].ref])
           /\ provider[app[a].ref] # "none"
           /\ app[a].seen \in RowType
<1>1. ApplierOK(app[a], provider, row)
  BY DEF BaseInv, AppliersOK
<1>2. OrderOf(a) \in Orders /\ OrderOf(a)[2] = app[a].ref /\ row[OrderOf(a)].status # "none"
  BY <1>1 DEF ApplierOK, OrderOf
<1>3. app[a].ref \in Refs
  BY <1>2, OrderRef
<1>. QED
  BY <1>1, <1>2, <1>3 DEF ApplierOK, Working, StillTrue, BaseInv, Typed

LEMMA ToldInit == Answered /\ Init => ToldInv
<1>. SUFFICES ASSUME Answered, Init
              PROVE  ToldInv
  OBVIOUS
<1>1. \A a \in Appliers : app[a].pc = "idle"
  BY DEF Init, Idle
<1>2. \A o \in Orders : row[o].status = "none" /\ provider[o[2]] = "none"
  BY OrderRef DEF Init, NoRow
<1>3. FlagInv
  BY FlagInit
<1>. QED
  BY <1>1, <1>2, <1>3 DEF ToldInv, InitTruth, RowTruth, Tells, SeenTruth, Working, SuccessTold

\* The provider moves on with a payment it knows.
LEMMA ToldProvider ==
    ASSUME ToldInv, UNCHANGED <<app, row, lastTold>>, provider' \in [Refs -> RawStatuses],
           \A q \in Refs : Grows(provider[q], provider'[q]),
           \A q \in Refs : provider[q] = "none" => provider'[q] = "none"
    PROVE  (RowTruth /\ SeenTruth /\ SuccessTold)'
<1>0. BaseInv /\ provider \in [Refs -> RawStatuses]
  BY DEF ToldInv, FlagInv, OnceInv, BaseInv, Typed
<1>1. ASSUME NEW o \in Orders
      PROVE  Tells(row[o].status, provider'[o[2]])
  BY <1>0, OrderRef, TellsLater DEF ToldInv, RowTruth
<1>2. ASSUME NEW a \in Appliers, app[a].pc \in Working
      PROVE  Tells(app[a].seen.status, provider'[app[a].ref])
  <2>1. app[a].ref \in Refs
    BY <1>0, <1>2, WorkingIs
  <2>. QED
    BY <1>0, <1>2, <2>1, TellsLater DEF ToldInv, SeenTruth
<1>3. ASSUME NEW o \in Orders, row[o].status = "SUCCESS", provider'[o[2]] = "SETTLED"
      PROVE  provider[o[2]] = "SETTLED"
  <2>1. o[2] \in Refs /\ provider[o[2]] \in {"SETTLED", "REVERSED"}
    BY <1>3, OrderRef DEF ToldInv, RowTruth, Tells
  <2>. QED
    BY <1>3, <2>1 DEF Grows, NextRaw
<1>4. RowTruth'
  BY <1>1 DEF RowTruth
<1>5. SeenTruth'
  BY <1>2 DEF ToldInv, SeenTruth, NextStatus, OrderOf, AlreadyFinal
<1>6. SuccessTold'
  BY <1>3 DEF ToldInv, SuccessTold, Announcing, OrderOf
<1>. QED
  BY <1>4, <1>5, <1>6

LEMMA ToldProviderMoves ==
    ASSUME Answered, ToldInv, BaseInv', NEW r \in Refs, ProviderMoves(r)
    PROVE  ToldPart'
<1>0. BaseInv /\ provider' \in [Refs -> RawStatuses]
  BY DEF ToldInv, FlagInv, OnceInv, BaseInv, Typed
<1>1. UNCHANGED <<app, row, lastTold, init>>
  BY DEF ProviderMoves, ordersVars
<1>2. /\ \A q \in Refs : Grows(provider[q], provider'[q])
      /\ \A q \in Refs : provider[q] = "none" => provider'[q] = "none"
  BY <1>0, ProviderMovesBase
<1>3. InitTruth'
  BY <1>1, <1>2, OrderRef DEF ToldInv, InitTruth
<1>. QED
  BY <1>0, <1>1, <1>2, <1>3, ToldProvider DEF ToldPart

LEMMA ToldInitiate ==
    ASSUME Answered, ToldInv, BaseInv', NEW o \in Orders, InitiateAtProvider(o)
    PROVE  ToldPart'
<1>0. BaseInv /\ provider \in [Refs -> RawStatuses] /\ provider' \in [Refs -> RawStatuses]
  BY DEF ToldInv, FlagInv, OnceInv, BaseInv, Typed
<1>1. UNCHANGED <<app, row, lastTold>>
  BY DEF InitiateAtProvider, ordersVars
<1>2. init[o] = "idle" /\ row[o].status = "none"
  BY DEF InitiateAtProvider, ToldInv, InitTruth
<1>3. \A p \in Orders : p # o => provider'[p[2]] = provider[p[2]] /\ init'[p] = init[p]
  <2>1. \A q \in Refs : q # o[2] => provider'[q] = provider[q]
    BY <1>0, InitiateAtProviderBase
  <2>2. \A p \in Orders : p # o => init'[p] = init[p]
    BY <1>0 DEF InitiateAtProvider, BaseInv, Typed
  <2>. QED
    BY <2>1, <2>2, OrderRef DEF Answered, OwnReference
<1>4. init'[o] \in Accepted \/ (init'[o] = "refused" /\ provider' = provider)
  BY <1>0 DEF InitiateAtProvider, Answered, BaseInv, Typed
<1>5. InitTruth'
  BY <1>1, <1>2, <1>3, <1>4 DEF ToldInv, InitTruth, Accepted
<1>6. RowTruth'
  BY <1>1, <1>2, <1>3 DEF ToldInv, RowTruth, Tells
<1>7. ASSUME NEW a \in Appliers, app[a].pc \in Working
      PROVE  provider'[app[a].ref] = provider[app[a].ref]
  BY <1>0, <1>2, <1>3, <1>7, WorkingIs
<1>8. SeenTruth'
  BY <1>1, <1>7 DEF ToldInv, SeenTruth, NextStatus, OrderOf, AlreadyFinal
<1>9. SuccessTold'
  BY <1>1, <1>2, <1>3 DEF ToldInv, SuccessTold, Announcing, OrderOf
<1>. QED
  BY <1>5, <1>6, <1>8, <1>9 DEF ToldPart

\* initiate writes a row that nobody works on.
LEMMA ToldWritten ==
    ASSUME ToldInv, NEW o \in Orders, UNCHANGED <<app, provider, lastTold>>,
           \A p \in Orders : p # o => row'[p] = row[p],
           row'[o].status # "SUCCESS", Tells(row'[o].status, provider[o[2]]),
           \A a \in Appliers : app[a].pc \in Working => OrderOf(a) # o
    PROVE  (RowTruth /\ SeenTruth /\ SuccessTold)'
<1>0. BaseInv
  BY DEF ToldInv, FlagInv, OnceInv
<1>1. RowTruth'
  BY DEF ToldInv, RowTruth
<1>2. ASSUME NEW a \in Appliers, app[a].pc \in Working
      PROVE  row'[OrderOf(a)] = row[OrderOf(a)]
  BY <1>0, <1>2, WorkingIs
<1>3. SeenTruth'
  BY <1>2 DEF ToldInv, SeenTruth, NextStatus, OrderOf, AlreadyFinal, Working
<1>4. SuccessTold'
  BY DEF ToldInv, SuccessTold, Announcing, OrderOf
<1>. QED
  BY <1>1, <1>3, <1>4

LEMMA ToldCreateRow ==
    ASSUME Answered, ToldInv, NEW o \in Orders, CreateRow(o)
    PROVE  ToldPart'
<1>0. BaseInv
  BY DEF ToldInv, FlagInv, OnceInv
<1>1. init[o] \notin {"mark", "done"} /\ row[o].status = "none"
  BY DEF CreateRow, Accepted, ToldInv, InitTruth
<1>2. row'[o].status \notin Final /\ \A p \in Orders : p # o => row'[p] = row[p]
  BY <1>0, CreateRowBase
<1>3. Tells(row'[o].status, provider[o[2]]) /\ row'[o].status # "SUCCESS"
  BY <1>2 DEF Tells, Final
<1>4. \A a \in Appliers : app[a].pc \in Working => OrderOf(a) # o
  BY <1>0, <1>1, WorkingIs
<1>5. UNCHANGED <<app, provider, lastTold>>
  BY DEF CreateRow
<1>6. /\ init'[o] = "done" \/ (init'[o] = "mark" /\ init[o] = "refused")
      /\ \A p \in Orders : p # o => init'[p] = init[p]
  BY <1>0 DEF CreateRow, BaseInv, Typed
<1>7. InitTruth'
  BY <1>2, <1>5, <1>6 DEF ToldInv, InitTruth
<1>. QED
  BY <1>2, <1>3, <1>4, <1>5, <1>7, ToldWritten DEF ToldPart

LEMMA ToldMarkFailed ==
    ASSUME Answered, ToldInv, NEW o \in Orders, MarkFailed(o)
    PROVE  ToldPart'
<1>0. BaseInv
  BY DEF ToldInv, FlagInv, OnceInv
<1>1. provider[o[2]] = "none"
  BY DEF MarkFailed, ToldInv, InitTruth
<1>2. row'[o].status = "FAILED" /\ \A p \in Orders : p # o => row'[p] = row[p]
  BY <1>0, MarkFailedBase
<1>3. Tells(row'[o].status, provider[o[2]]) /\ row'[o].status # "SUCCESS"
  BY <1>1, <1>2 DEF Tells
<1>4. \A a \in Appliers : app[a].pc \in Working => OrderOf(a) # o
  BY <1>0, <1>1, WorkingIs
<1>5. UNCHANGED <<app, provider, lastTold>>
  BY DEF MarkFailed
<1>6. init'[o] = "done" /\ \A p \in Orders : p # o => init'[p] = init[p]
  BY <1>0 DEF MarkFailed, BaseInv, Typed
<1>7. InitTruth'
  BY <1>2, <1>5, <1>6 DEF ToldInv, InitTruth
<1>. QED
  BY <1>2, <1>3, <1>4, <1>5, <1>7, ToldWritten DEF ToldPart

LEMMA ToldQuiet ==
    ASSUME ToldInv, NEW a \in Appliers, Quiet(a)
    PROVE  ToldPart'
<1>1. InitTruth' /\ RowTruth'
  BY DEF ToldInv, Quiet, InitTruth, RowTruth
<1>2. SeenTruth'
  BY DEF ToldInv, Quiet, SeenTruth, NextStatus, OrderOf, AlreadyFinal, Working
<1>3. \A o \in Orders : Announcing(o) => Announcing(o)'
  BY DEF Quiet, Announcing, OrderOf
<1>4. SuccessTold'
  BY <1>3 DEF ToldInv, Quiet, SuccessTold
<1>. QED
  BY <1>1, <1>2, <1>4 DEF ToldPart

LEMMA ToldReads ==
    ASSUME ToldInv, NEW a \in Appliers, Reads(a), app[a].pc = "read"
    PROVE  ToldPart'
<1>1. InitTruth' /\ RowTruth'
  BY DEF ToldInv, Reads, InitTruth, RowTruth
<1>2. OrderOf(a) \in Orders /\ OrderOf(a)[2] = app[a].ref
  BY DEF Reads, Known, OrderOf
<1>3. Tells(row[OrderOf(a)].status, provider[app[a].ref])
  BY <1>2 DEF ToldInv, RowTruth
<1>4. SeenTruth'
  BY <1>3 DEF ToldInv, Reads, SeenTruth, NextStatus, OrderOf, AlreadyFinal, Working
<1>5. \A o \in Orders : Announcing(o) => Announcing(o)'
  BY DEF Reads, Announcing, OrderOf
<1>6. SuccessTold'
  BY <1>5 DEF ToldInv, Reads, SuccessTold
<1>. QED
  BY <1>1, <1>4, <1>6 DEF ToldPart

\* Who works on a row that was final without announcing it knows that the money
\* went back.
LEMMA FinalNotSettled ==
    ASSUME ToldInv, NEW a \in Appliers, app[a].pc \in Working, AlreadyFinal(a),
           NextStatus(a) = "SUCCESS"
    PROVE  provider[app[a].ref] # "SETTLED"
<1>1. app[a].seen.status \in Final /\ app[a].seen.status # "SUCCESS"
      /\ Tells(app[a].seen.status, provider[app[a].ref])
  BY DEF ToldInv, SeenTruth, AlreadyFinal
<1>. QED
  BY <1>1 DEF Final, Tells

LEMMA ToldUpdates ==
    ASSUME Answered, ToldInv, NEW a \in Appliers, Updates(a)
    PROVE  ToldPart'
<1>. DEFINE o == OrderOf(a)
<1>0. BaseInv /\ app[a].pc \in Working
  BY DEF ToldInv, FlagInv, OnceInv, Updates, Working
<1>1. \A b \in Appliers : b # a => app[b].pc = "idle" /\ app'[b].pc = "idle"
  BY LoneStays DEF Answered, ToldInv, FlagInv, OnceInv, OncePart, Updates
<1>2. o \in Orders /\ o[2] = app[a].ref /\ Tells(NextStatus(a), provider[o[2]])
  BY <1>0, WorkingIs, TellsTrue DEF NextStatus
<1>3. row'[o].status = NextStatus(a) /\ \A p \in Orders : p # o => row'[p] = row[p]
  BY DEF Updates
<1>4. InitTruth'
  BY <1>3 DEF ToldInv, InitTruth, Updates
<1>5. RowTruth'
  BY <1>2, <1>3 DEF ToldInv, RowTruth, Updates
<1>6. CASE /\ app'[a].pc \in {"credit", "notify"}
           /\ app'[a].table = app[a].table /\ app'[a].ref = app[a].ref
           /\ app'[a].raw = app[a].raw /\ app'[a].seen = app[a].seen
           /\ app'[a].pc = "notify" => ~AlreadyFinal(a)
  <2>1. OrderOf(a)' = o /\ NextStatus(a)' = NextStatus(a)
        /\ AlreadyFinal(a)' = AlreadyFinal(a)
    BY <1>6 DEF OrderOf, NextStatus, AlreadyFinal
  <2>2. SeenTruth'
    BY <1>0, <1>1, <1>3, <1>6, <2>1 DEF ToldInv, SeenTruth, Updates, Working
  <2>3. /\ app'[a].pc \in {"credit", "notify"}
        /\ <<app'[a].table, app'[a].ref>> = o
    BY <1>6, <2>1 DEF OrderOf
  <2>4. \A p \in Orders : ~Announcing(p)
    BY <1>1 DEF Announcing, Updates
  <2>5. SuccessTold'
    <3>1. ASSUME NEW p \in Orders, p # o, row'[p].status = "SUCCESS",
                 provider'[p[2]] = "SETTLED"
          PROVE  lastTold'[p] = "SUCCESS"
      BY <1>3, <2>4, <3>1 DEF ToldInv, SuccessTold, Updates
    <3>. QED
      BY <2>3, <3>1 DEF SuccessTold, Announcing, OrderOf
  <2>. QED
    BY <1>4, <1>5, <2>2, <2>5 DEF ToldPart
<1>7. CASE AlreadyFinal(a) /\ app'[a].pc \in {"idle", "query"}
  <2>1. SeenTruth'
    BY <1>1, <1>7 DEF SeenTruth, Working
  <2>2. \A p \in Orders : ~Announcing(p)
    BY <1>1 DEF Announcing, Updates
  <2>3. row'[o].status = "SUCCESS" => provider[o[2]] # "SETTLED"
    BY <1>0, <1>2, <1>3, <1>7, FinalNotSettled
  <2>4. SuccessTold'
    BY <1>3, <2>2, <2>3 DEF ToldInv, SuccessTold, Updates
  <2>. QED
    BY <1>4, <1>5, <2>1, <2>4 DEF ToldPart
<1>. QED
  BY <1>6, <1>7 DEF Updates

LEMMA ToldCredits ==
    ASSUME Answered, ToldInv, NEW a \in Appliers, Credits(a)
    PROVE  ToldPart'
<1>. DEFINE o == OrderOf(a)
<1>0. BaseInv /\ app[a].pc \in Working
  BY DEF ToldInv, FlagInv, OnceInv, Credits, Working
<1>1. \A b \in Appliers : b # a => app[b].pc = "idle" /\ app'[b].pc = "idle"
  BY LoneStays DEF Answered, ToldInv, FlagInv, OnceInv, OncePart, Credits
<1>2. InitTruth' /\ RowTruth'
  BY DEF ToldInv, InitTruth, RowTruth, Credits
<1>3. row[o].status = NextStatus(a) /\ o[2] = app[a].ref
  BY DEF ToldInv, SeenTruth, Credits, OrderOf
<1>4. \A p \in Orders : p # o => ~Announcing(p)
  BY <1>1 DEF Announcing, Credits
<1>5. CASE /\ app'[a].pc = "notify" /\ ~AlreadyFinal(a)
           /\ app'[a].table = app[a].table /\ app'[a].ref = app[a].ref
           /\ app'[a].raw = app[a].raw /\ app'[a].seen = app[a].seen
  <2>1. OrderOf(a)' = o /\ NextStatus(a)' = NextStatus(a)
        /\ AlreadyFinal(a)' = AlreadyFinal(a)
    BY <1>5 DEF OrderOf, NextStatus, AlreadyFinal
  <2>2. SeenTruth'
    BY <1>0, <1>1, <1>3, <1>5, <2>1 DEF ToldInv, SeenTruth, Credits, Working
  <2>3. /\ app'[a].pc \in {"credit", "notify"}
        /\ <<app'[a].table, app'[a].ref>> = o
    BY <1>5, <2>1 DEF OrderOf
  <2>4. SuccessTold'
    <3>1. ASSUME NEW p \in Orders, p # o, row'[p].status = "SUCCESS",
                 provider'[p[2]] = "SETTLED"
          PROVE  lastTold'[p] = "SUCCESS"
      BY <1>4, <3>1 DEF ToldInv, SuccessTold, Credits
    <3>. QED
      BY <2>3, <3>1 DEF SuccessTold, Announcing, OrderOf
  <2>. QED
    BY <1>2, <2>2, <2>4 DEF ToldPart
<1>6. CASE AlreadyFinal(a) /\ app'[a].pc \in {"idle", "query"}
  <2>1. SeenTruth'
    BY <1>1, <1>6 DEF SeenTruth, Working
  <2>2. row[o].status = "SUCCESS" => provider[o[2]] # "SETTLED"
    BY <1>0, <1>3, <1>6, FinalNotSettled
  <2>3. SuccessTold'
    BY <1>4, <2>2 DEF ToldInv, SuccessTold, Credits
  <2>. QED
    BY <1>2, <2>1, <2>3 DEF ToldPart
<1>. QED
  BY <1>5, <1>6 DEF Credits

LEMMA ToldDispatches ==
    ASSUME Answered, ToldInv, NEW a \in Appliers, Dispatches(a)
    PROVE  ToldPart'
<1>. DEFINE o == OrderOf(a)
<1>0. lastTold \in [Orders -> Statuses \cup {"none"}]
  BY DEF ToldInv, FlagInv, OnceInv, BaseInv, Typed
<1>1. \A b \in Appliers : b # a => app[b].pc = "idle" /\ app'[b].pc = "idle"
  BY LoneStays DEF Answered, ToldInv, FlagInv, OnceInv, OncePart, Dispatches
<1>2. InitTruth' /\ RowTruth'
  BY DEF ToldInv, InitTruth, RowTruth, Dispatches
<1>3. SeenTruth'
  BY <1>1 DEF SeenTruth, Dispatches, Working
<1>4. row[o].status = NextStatus(a)
  BY DEF ToldInv, SeenTruth, Dispatches
<1>5. lastTold'[o] = NextStatus(a) /\ \A p \in Orders : p # o => lastTold'[p] = lastTold[p]
  BY <1>0 DEF Dispatches
<1>6. \A p \in Orders : p # o => ~Announcing(p)
  BY <1>1 DEF Announcing, Dispatches
<1>7. SuccessTold'
  BY <1>4, <1>5, <1>6 DEF ToldInv, SuccessTold, Dispatches
<1>. QED
  BY <1>2, <1>3, <1>7 DEF ToldPart

LEMMA ToldNext ==
    ASSUME Answered, ToldInv, FlagInv', [Next]_vars
    PROVE  ToldInv'
<1>. SUFFICES ToldPart'
  BY DEF ToldInv, ToldPart
<1>0. BaseInv /\ BaseInv' /\ ~CountFailure
  BY NoFailure DEF Answered, ToldInv, FlagInv, OnceInv
<1>1. ASSUME NEW r \in Refs, ProviderMoves(r)
      PROVE  ToldPart'
  BY <1>0, <1>1, ToldProviderMoves
<1>2. ASSUME NEW o \in Orders, InitiateAtProvider(o)
      PROVE  ToldPart'
  BY <1>0, <1>2, ToldInitiate
<1>3. ASSUME NEW o \in Orders, CreateRow(o)
      PROVE  ToldPart'
  BY <1>3, ToldCreateRow
<1>4. ASSUME NEW o \in Orders, MarkFailed(o)
      PROVE  ToldPart'
  BY <1>4, ToldMarkFailed
<1>5. ASSUME NEW o \in Orders, InitiateDies(o)
      PROVE  ToldPart'
  BY <1>0, <1>5 DEF InitiateDies
<1>6. ASSUME NEW a \in Receivers, ReceiveHook(a)
      PROVE  ToldPart'
  BY <1>0, <1>6, ReceiveHookBase, ToldQuiet DEF Starts, Appliers
<1>7. ASSUME NEW a \in Pollers, NEW t \in Tables, BeginPoll(a, t)
      PROVE  ToldPart'
  BY <1>0, <1>7, BeginPollBase, ToldQuiet DEF Starts, Appliers
<1>8. ASSUME NEW a \in Refreshers, NEW o \in Orders, BeginRefresh(a, o)
      PROVE  ToldPart'
  BY <1>0, <1>8, BeginRefreshBase, ToldQuiet DEF Starts, Appliers
<1>9. ASSUME NEW a \in Appliers, QueryProvider(a)
      PROVE  ToldPart'
  BY <1>0, <1>9, QueryProviderBase, ToldQuiet
<1>10. ASSUME NEW a \in Appliers, ReadRow(a)
       PROVE  ToldPart'
  <2>1. app[a].pc = "read"
    BY <1>10 DEF ReadRow
  <2>. QED
    BY <1>0, <1>10, <2>1, ReadRowBase, ToldQuiet, ToldReads
<1>11. ASSUME NEW a \in Appliers, UpdateRow(a)
       PROVE  ToldPart'
  BY <1>0, <1>11, UpdateRowBase, ToldUpdates
<1>12. ASSUME NEW a \in Appliers, CreditWallet(a)
       PROVE  ToldPart'
  BY <1>0, <1>12, CreditWalletBase, ToldCredits
<1>13. ASSUME NEW a \in Appliers, DispatchStatus(a)
       PROVE  ToldPart'
  BY <1>0, <1>13, DispatchStatusBase, ToldDispatches
<1>14. ASSUME NEW a \in Appliers, ApplierDies(a)
       PROVE  ToldPart'
  BY <1>0, <1>14 DEF ApplierDies
<1>15. CASE UNCHANGED vars
  BY <1>15 DEF vars, ToldInv, ToldPart, InitTruth, RowTruth, SeenTruth, SuccessTold,
               NextStatus, OrderOf, AlreadyFinal, Announcing
<1>. QED
  BY <1>1, <1>2, <1>3, <1>4, <1>5, <1>6, <1>7, <1>8, <1>9, <1>10, <1>11, <1>12, <1>13,
     <1>14, <1>15 DEF Next, InitiateStep, ApplyStep

LEMMA ToldMeansTold ==
    ASSUME ToldInv
    PROVE  MerchantToldPaid
<1>1. ASSUME NEW o \in Orders, AtRest(o)
      PROVE  ~Announcing(o)
  BY <1>1 DEF AtRest, Announcing
<1>. QED
  BY <1>1 DEF ToldInv, SuccessTold, MerchantToldPaid

\* A row that says SUCCESS while the provider holds to it has been announced as
\* such, when status updates come one at a time, nothing fails and every answer
\* to an initiation arrives (webhooks.dispatch, txn-status.service.ts:131-147).
THEOREM PaidIsTold == Answered => (Spec => []MerchantToldPaid)
<1>. SUFFICES ASSUME Answered
              PROVE  Spec => []MerchantToldPaid
  OBVIOUS
<1>1. Init => ToldInv /\ CreditedOnlyIfPaid
  BY ToldInit, InitBase
<1>2. ToldInv /\ CreditedOnlyIfPaid /\ [Next]_vars => (ToldInv /\ CreditedOnlyIfPaid)'
  BY FlagInvNext, ToldNext DEF ToldInv, Answered
<1>3. ToldInv => MerchantToldPaid
  BY ToldMeansTold
<1>. QED
  BY <1>1, <1>2, <1>3, PTL DEF Spec

=============================================================================
