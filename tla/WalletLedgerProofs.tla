------------------------- MODULE WalletLedgerProofs -------------------------
(***************************************************************************)
(* The safety of WalletLedger for any number of concurrent requests, any   *)
(* amounts and any fee.                                                    *)
(***************************************************************************)
EXTENDS WalletLedger, TLAPS

\* The target balance a transfer has read is never negative.
SnapshotNonNegative ==
    \A p \in Procs : pc[p] = "transferCredit" => snap[p]["DISBURSEMENT"] >= 0

\* Inductive: NoOverdraft needs the row lock, the consistency of the
\* COLLECTION wallet needs only the types.
LedgerInv ==
    /\ TypeOK
    /\ NoOverdraft
    /\ CollectionConsistent
    /\ TransferHoldsSource
    /\ SnapshotNonNegative

\* The fee and the total debit of a transfer are natural numbers.
LEMMA FeeIsNat ==
    ASSUME NEW r \in Request
    PROVE  /\ TransferFee(r.amount) \in Nat
           /\ TotalDebit(r) \in Nat
<1>1. r.amount \in Nat /\ FeeBps \in Nat
  BY LedgerAssumption DEF Request
<1>2. r.amount * FeeBps \in Nat
  BY <1>1
<1>3. \A n \in Nat : (n + 5000) \div 10000 \in Nat
  OBVIOUS
<1>4. TransferFee(r.amount) \in Nat
  BY <1>2, <1>3 DEF TransferFee
<1>. QED
  BY <1>1, <1>4 DEF TotalDebit

\* The two kinds of request a caller can submit are requests.
LEMMA RequestKinds ==
    /\ MoveRequest \subseteq Request
    /\ TransferRequest \subseteq Request
    /\ NoRequest \in Request
BY LedgerAssumption
   DEF MoveRequest, TransferRequest, NoRequest, Request, Wallets, DebitTypes,
       CreditTypes

LEMMA InitTypeOK == Init => TypeOK
BY RequestKinds, LedgerAssumption DEF Init, TypeOK, Steps, Wallets

LEMMA RejectTypeOK ==
    ASSUME TypeOK, NEW p \in Procs, Reject(p)
    PROVE  TypeOK'
BY RequestKinds DEF TypeOK, Reject, Goto, Forget, Unlock, db, Steps, Wallets

LEMMA StepTypeOK ==
    ASSUME TypeOK, NEW p \in Procs, Step(p)
    PROVE  TypeOK'
<1>1. CASE MoveRead(p)
  <2>1. CASE MoveRefused(req[p])
    BY <1>1, <2>1, RejectTypeOK DEF MoveRead
  <2>2. CASE ~MoveRefused(req[p])
    <3>1. req[p].wallet \in Wallets
      BY DEF TypeOK, Request
    <3>2. balance[req[p].wallet] \in Int
      BY <3>1 DEF TypeOK
    <3>3. snap' \in [Procs -> [Wallets -> Int]]
      <4>1. snap' = [snap EXCEPT ![p] = [snap[p] EXCEPT ![req[p].wallet] = balance[req[p].wallet]]]
        BY <1>1, <2>2 DEF MoveRead, ReadBalance
      <4>2. snap[p] \in [Wallets -> Int]
        BY DEF TypeOK
      <4>3. [snap[p] EXCEPT ![req[p].wallet] = balance[req[p].wallet]] \in [Wallets -> Int]
        BY <3>1, <3>2, <4>2
      <4>. QED  BY <4>1, <4>3 DEF TypeOK
    <3>4. pc' \in [Procs -> Steps]
      BY <1>1, <2>2 DEF MoveRead, Goto, TypeOK, Steps
    <3>. QED
      BY <1>1, <2>2, <3>3, <3>4 DEF MoveRead, TypeOK, db
  <2>. QED  BY <2>1, <2>2
<1>2. CASE MoveCommit(p)
  <2>1. CASE ~FloorHolds(req[p])
    BY <1>2, <2>1, RejectTypeOK DEF MoveCommit
  <2>2. CASE FloorHolds(req[p])
    <3>1. req[p].wallet \in Wallets /\ Delta(req[p]) \in Int
      BY DEF TypeOK, Request, Delta, IsDebit
    <3>2. snap[p][req[p].wallet] \in Int
      BY <3>1 DEF TypeOK
    <3>3. balance' \in [Wallets -> Int]
      <4>1. balance' = [balance EXCEPT ![req[p].wallet] = @ + Delta(req[p])]
        BY <1>2, <2>2 DEF MoveCommit
      <4>. QED  BY <4>1, <3>1 DEF TypeOK
    <3>4. /\ posted' \in [Wallets -> Int]
          /\ lastRow' \in [Wallets -> [before : Int, after : Int]]
      <4>1. PostRow(req[p].wallet, Delta(req[p]), snap[p][req[p].wallet])
        BY <1>2, <2>2 DEF MoveCommit
      <4>2. snap[p][req[p].wallet] + Delta(req[p]) \in Int
        BY <3>1, <3>2
      <4>3. posted' \in [Wallets -> Int]
        BY <4>1, <3>1 DEF PostRow, TypeOK
      <4>4. [before |-> snap[p][req[p].wallet],
             after  |-> snap[p][req[p].wallet] + Delta(req[p])]
              \in [before : Int, after : Int]
        BY <3>2, <4>2
      <4>5. lastRow' \in [Wallets -> [before : Int, after : Int]]
        BY <4>1, <4>4, <3>1 DEF PostRow, TypeOK
      <4>. QED  BY <4>3, <4>5
    <3>5. pc' \in [Procs -> Steps]
      <4>1. Goto(p, "idle")
        BY <1>2, <2>2 DEF MoveCommit
      <4>. QED  BY <4>1 DEF Goto, TypeOK, Steps
    <3>6. req' \in [Procs -> Request] /\ snap' \in [Procs -> [Wallets -> Int]]
      <4>1. Forget(p)
        BY <1>2, <2>2 DEF MoveCommit
      <4>. QED  BY <4>1, RequestKinds DEF Forget, TypeOK
    <3>. QED
      BY <1>2, <2>2, <3>3, <3>4, <3>5, <3>6 DEF MoveCommit, TypeOK
  <2>. QED  BY <2>1, <2>2
<1>3. CASE TransferReadSource(p)
  <2>1. CASE Reject(p)
    BY <2>1, RejectTypeOK
  <2>2. CASE ~Reject(p)
    BY <1>3, <2>2
       DEF TransferReadSource, ReadBalance, Goto, TypeOK, db, Steps, Wallets
  <2>. QED  BY <2>1, <2>2
<1>4. CASE TransferDebit(p)
  <2>1. CASE Reject(p)
    BY <2>1, RejectTypeOK
  <2>2. CASE ~Reject(p)
    BY <1>4, <2>2 DEF TransferDebit, Goto, TypeOK, db, Steps, Wallets
  <2>. QED  BY <2>1, <2>2
<1>5. CASE TransferReadTarget(p)
  <2>1. CASE Reject(p)
    BY <2>1, RejectTypeOK
  <2>2. CASE ~Reject(p)
    BY <1>5, <2>2
       DEF TransferReadTarget, ReadBalance, Goto, TypeOK, db, Steps, Wallets
  <2>. QED  BY <2>1, <2>2
<1>6. CASE TransferCommit(p)
  <2>1. req[p] \in Request /\ TotalDebit(req[p]) \in Nat
    BY FeeIsNat DEF TypeOK
  <2>2. /\ req[p].amount \in Nat
        /\ snap[p]["COLLECTION"] \in Int
        /\ TargetBalance(p) \in Int
    BY <2>1 DEF TypeOK, Request, TargetBalance, Wallets
  <2>3. balance' \in [Wallets -> Int] /\ posted' \in [Wallets -> Int]
    BY <1>6, <2>1, <2>2 DEF TransferCommit, TypeOK, Wallets
  <2>4. lastRow' \in [Wallets -> [before : Int, after : Int]]
    BY <1>6, <2>1, <2>2 DEF TransferCommit, TypeOK, Wallets
  <2>5. transferRefs' \in [References -> Nat]
    BY <1>6 DEF TransferCommit, TypeOK
  <2>6. pc' \in [Procs -> Steps] /\ rowLock' \in [Wallets -> Procs \cup {Nobody}]
    BY <1>6 DEF TransferCommit, Goto, Unlock, TypeOK, Steps
  <2>7. req' \in [Procs -> Request] /\ snap' \in [Procs -> [Wallets -> Int]]
    BY <1>6, RequestKinds DEF TransferCommit, Forget, TypeOK
  <2>. QED
    BY <1>6, <2>3, <2>4, <2>5, <2>6, <2>7 DEF TransferCommit, TypeOK
<1>. QED
  BY <1>1, <1>2, <1>3, <1>4, <1>5, <1>6 DEF Step

LEMMA NextTypeOK == TypeOK /\ [Next]_vars => TypeOK'
<1>. SUFFICES ASSUME TypeOK, [Next]_vars
              PROVE  TypeOK'
  OBVIOUS
<1>1. CASE UNCHANGED vars
  BY <1>1 DEF vars, TypeOK
<1>2. ASSUME NEW p \in Procs, BeginMove(p)
      PROVE  TypeOK'
  BY <1>2, RequestKinds DEF BeginMove, Goto, TypeOK, db, Steps
<1>3. ASSUME NEW p \in Procs, BeginTransfer(p)
      PROVE  TypeOK'
  BY <1>3, RequestKinds DEF BeginTransfer, Goto, TypeOK, db, Steps
<1>4. ASSUME NEW p \in Procs, NEW w \in Wallets, SetFrozen(p, w)
      PROVE  TypeOK'
  BY <1>4 DEF SetFrozen, TypeOK
<1>5. ASSUME NEW p \in Procs, Abort(p)
      PROVE  TypeOK'
  BY <1>5, RejectTypeOK DEF Abort
<1>. QED
  BY <1>1, <1>2, <1>3, <1>4, <1>5, StepTypeOK DEF Next

\* Every variable keeps its type, for every set of requests and amounts.
THEOREM TypeCorrect == Spec => []TypeOK
BY InitTypeOK, NextTypeOK, PTL DEF Spec
-----------------------------------------------------------------------------
(* The safety invariant *)

\* What the rows and the locks promise, apart from their types.
RowInv ==
    /\ NoOverdraft
    /\ CollectionConsistent
    /\ TransferHoldsSource
    /\ SnapshotNonNegative

LEMMA InitRowInv == Init => RowInv
BY LedgerAssumption
   DEF Init, RowInv, NoOverdraft, CollectionConsistent, Consistent,
       TransferHoldsSource, BetweenLegs, SnapshotNonNegative, Wallets

\* A rollback leaves the rows alone and releases what its request held.
LEMMA RejectRowInv ==
    ASSUME LedgerInv, NEW p \in Procs, Reject(p)
    PROVE  RowInv'
<1>1. /\ balance' = balance /\ posted' = posted
      /\ pc' = [pc EXCEPT ![p] = "idle"]
  BY DEF Reject, Goto, db
<1>2. /\ \A q \in Procs : q # p =>
            pc'[q] = pc[q] /\ req'[q] = req[q] /\ snap'[q] = snap[q]
      /\ pc'[p] = "idle"
  BY <1>1 DEF Reject, Forget, LedgerInv, TypeOK
<1>3. NoOverdraft' /\ CollectionConsistent' /\ SnapshotNonNegative'
  BY <1>1, <1>2
     DEF LedgerInv, NoOverdraft, CollectionConsistent, Consistent,
         SnapshotNonNegative
<1>4. TransferHoldsSource'
  <2>1. \A w \in Wallets :
          rowLock'[w] = IF rowLock[w] = p THEN Nobody ELSE rowLock[w]
    BY DEF Reject, Unlock
  <2>2. rowLock'["DISBURSEMENT"] = Nobody
    BY <2>1 DEF LedgerInv, TransferHoldsSource, Wallets
  <2>3. ASSUME NEW q \in Procs
        PROVE  /\ BetweenLegs(q)' <=> rowLock'["COLLECTION"] = q
               /\ BetweenLegs(q)' => balance'["COLLECTION"] >= TotalDebit(req'[q])
    BY <1>1, <1>2, <2>1, LedgerAssumption
       DEF LedgerInv, TransferHoldsSource, BetweenLegs, Wallets
  <2>. QED  BY <2>2, <2>3 DEF TransferHoldsSource, BetweenLegs
<1>. QED  BY <1>3, <1>4 DEF RowInv

\* A step of request p that changes no balance, no row and no lock, and takes p
\* neither into nor out of the stretch between two legs.
LEMMA QuietRowInv ==
    ASSUME LedgerInv, NEW p \in Procs,
           UNCHANGED <<balance, posted, rowLock>>,
           \A q \in Procs : q # p =>
               pc'[q] = pc[q] /\ req'[q] = req[q] /\ snap'[q] = snap[q],
           BetweenLegs(p)' <=> BetweenLegs(p),
           BetweenLegs(p) => req'[p] = req[p],
           pc'[p] = "transferCredit" => snap'[p]["DISBURSEMENT"] >= 0
    PROVE  RowInv'
<1>1. NoOverdraft' /\ CollectionConsistent' /\ SnapshotNonNegative'
  BY DEF LedgerInv, NoOverdraft, CollectionConsistent, Consistent,
         SnapshotNonNegative
<1>2. TransferHoldsSource'
  BY DEF LedgerInv, TransferHoldsSource, BetweenLegs
<1>. QED  BY <1>1, <1>2 DEF RowInv

LEMMA MoveCommitRowInv ==
    ASSUME LedgerInv, NEW p \in Procs, MoveCommit(p)
    PROVE  RowInv'
<1>1. CASE ~FloorHolds(req[p])
  BY <1>1, RejectRowInv DEF MoveCommit
<1>2. CASE FloorHolds(req[p])
  <2> DEFINE w == req[p].wallet
             d == Delta(req[p])
  <2>1. w \in Wallets /\ d \in Int
    BY DEF LedgerInv, TypeOK, Request, Delta, IsDebit
  <2>2. /\ rowLock[w] = Nobody
        /\ balance' = [balance EXCEPT ![w] = @ + d]
        /\ posted' = [posted EXCEPT ![w] = @ + d]
        /\ rowLock' = rowLock
        /\ pc' = [pc EXCEPT ![p] = "idle"]
        /\ req' = [req EXCEPT ![p] = NoRequest]
        /\ snap' = [snap EXCEPT ![p] = [x \in Wallets |-> 0]]
    BY <1>2 DEF MoveCommit, PostRow, Goto, Forget
  <2>3. balance[w] \in Int /\ balance[w] + d >= 0
    BY <1>2, <2>1
       DEF LedgerInv, TypeOK, NoOverdraft, FloorHolds, Delta, IsDebit, Request
  <2>. HIDE DEF d
  <2>4. NoOverdraft'
    BY <2>1, <2>2, <2>3 DEF LedgerInv, TypeOK, NoOverdraft
  <2>5. CollectionConsistent'
    BY <2>1, <2>2
       DEF LedgerInv, TypeOK, CollectionConsistent, Consistent, Wallets
  <2>6. SnapshotNonNegative'
    BY <2>2 DEF LedgerInv, TypeOK, SnapshotNonNegative
  <2>7. ASSUME NEW q \in Procs
        PROVE  /\ BetweenLegs(q)' <=> rowLock'["COLLECTION"] = q
               /\ BetweenLegs(q)' => balance'["COLLECTION"] >= TotalDebit(req'[q])
    <3>1. CASE q = p
      <4>1. ~BetweenLegs(p) /\ ~BetweenLegs(p)'
        BY <2>2 DEF BetweenLegs, MoveCommit, LedgerInv, TypeOK
      <4>. QED
        BY <3>1, <4>1, <2>2 DEF LedgerInv, TransferHoldsSource
    <3>2. CASE q # p
      <4>1. /\ BetweenLegs(q)' <=> BetweenLegs(q)
            /\ req'[q] = req[q]
        BY <3>2, <2>2 DEF BetweenLegs, LedgerInv, TypeOK
      <4>2. BetweenLegs(q) => balance'["COLLECTION"] = balance["COLLECTION"]
        BY <2>1, <2>2, LedgerAssumption
           DEF LedgerInv, TypeOK, TransferHoldsSource, Wallets
      <4>. QED
        BY <4>1, <4>2, <2>2 DEF LedgerInv, TransferHoldsSource
    <3>. QED  BY <3>1, <3>2
  <2>8. TransferHoldsSource'
    BY <2>2, <2>7 DEF LedgerInv, TransferHoldsSource, BetweenLegs
  <2>. QED  BY <2>4, <2>5, <2>6, <2>8 DEF RowInv
<1>. QED  BY <1>1, <1>2

LEMMA TransferDebitRowInv ==
    ASSUME LedgerInv, NEW p \in Procs, TransferDebit(p)
    PROVE  RowInv'
<1>1. CASE Reject(p)
  BY <1>1, RejectRowInv
<1>2. CASE ~Reject(p)
  <2>1. /\ pc[p] = "transferDebit" /\ rowLock["COLLECTION"] = Nobody
        /\ balance' = balance /\ posted' = posted
        /\ req' = req /\ snap' = snap
        /\ pc' = [pc EXCEPT ![p] = "transferReadTarget"]
        /\ rowLock' = [rowLock EXCEPT !["COLLECTION"] = p]
        /\ ~(balance["COLLECTION"] < TotalDebit(req[p]))
    BY <1>2 DEF TransferDebit, Goto, db
  <2>2. balance["COLLECTION"] \in Int /\ TotalDebit(req[p]) \in Nat
    BY FeeIsNat DEF LedgerInv, TypeOK, Wallets
  <2>3. NoOverdraft' /\ CollectionConsistent' /\ SnapshotNonNegative'
    BY <2>1 DEF LedgerInv, TypeOK, NoOverdraft, CollectionConsistent,
                Consistent, SnapshotNonNegative
  <2>4. rowLock'["DISBURSEMENT"] = Nobody /\ rowLock'["COLLECTION"] = p
    BY <2>1 DEF LedgerInv, TypeOK, TransferHoldsSource, Wallets
  <2>5. ASSUME NEW q \in Procs
        PROVE  /\ BetweenLegs(q)' <=> q = p
               /\ BetweenLegs(q)' => balance["COLLECTION"] >= TotalDebit(req[q])
    BY <2>1, <2>2, LedgerAssumption
       DEF BetweenLegs, LedgerInv, TypeOK, TransferHoldsSource
  <2>6. TransferHoldsSource'
    BY <2>1, <2>4, <2>5 DEF TransferHoldsSource, BetweenLegs
  <2>. QED  BY <2>3, <2>6 DEF RowInv
<1>. QED  BY <1>1, <1>2

LEMMA TransferReadTargetRowInv ==
    ASSUME LedgerInv, NEW p \in Procs, TransferReadTarget(p)
    PROVE  RowInv'
<1>1. CASE Reject(p)
  BY <1>1, RejectRowInv
<1>2. CASE ~Reject(p)
  <2>1. /\ pc[p] = "transferReadTarget"
        /\ UNCHANGED <<balance, posted, rowLock, req>>
        /\ pc' = [pc EXCEPT ![p] = "transferCredit"]
        /\ snap' = [snap EXCEPT ![p]["DISBURSEMENT"] = balance["DISBURSEMENT"]]
    BY <1>2 DEF TransferReadTarget, ReadBalance, Goto, db
  <2>2. snap'[p]["DISBURSEMENT"] = balance["DISBURSEMENT"]
    BY <2>1 DEF LedgerInv, TypeOK, Wallets
  <2>3. balance["DISBURSEMENT"] >= 0
    BY DEF LedgerInv, NoOverdraft, Wallets
  <2>4. \A q \in Procs : q # p =>
           pc'[q] = pc[q] /\ req'[q] = req[q] /\ snap'[q] = snap[q]
    BY <2>1 DEF LedgerInv, TypeOK
  <2>5. BetweenLegs(p)' /\ BetweenLegs(p)
    BY <2>1 DEF BetweenLegs, LedgerInv, TypeOK
  <2>. QED
    BY <2>1, <2>2, <2>3, <2>4, <2>5, QuietRowInv
<1>. QED  BY <1>1, <1>2

LEMMA TransferCommitRowInv ==
    ASSUME LedgerInv, NEW p \in Procs, TransferCommit(p)
    PROVE  RowInv'
<1> DEFINE total == TotalDebit(req[p])
<1>1. total \in Nat /\ req[p].amount \in Nat
  BY FeeIsNat DEF LedgerInv, TypeOK, Request
<1>2. BetweenLegs(p) /\ rowLock["COLLECTION"] = p /\ balance["COLLECTION"] >= total
  BY DEF TransferCommit, LedgerInv, TransferHoldsSource, BetweenLegs
<1>3. TargetBalance(p) \in Int /\ TargetBalance(p) >= 0
  BY <1>1 DEF TransferCommit, TargetBalance, LedgerInv, TypeOK,
              SnapshotNonNegative, Wallets
<1>4. /\ balance' = [balance EXCEPT !["COLLECTION"] = @ - total,
                                    !["DISBURSEMENT"] = TargetBalance(p)]
      /\ posted' = [posted EXCEPT !["COLLECTION"] = @ - total,
                                  !["DISBURSEMENT"] = @ + req[p].amount]
      /\ rowLock' = [w \in Wallets |->
                       IF rowLock[w] = p THEN Nobody ELSE rowLock[w]]
      /\ pc' = [pc EXCEPT ![p] = "idle"]
      /\ snap' = [snap EXCEPT ![p] = [w \in Wallets |-> 0]]
  BY DEF TransferCommit, Goto, Forget, Unlock
<1>. HIDE DEF total
<1>5. NoOverdraft'
  BY <1>1, <1>2, <1>3, <1>4 DEF LedgerInv, TypeOK, NoOverdraft, Wallets
<1>6. CollectionConsistent'
  BY <1>1, <1>4
     DEF LedgerInv, TypeOK, CollectionConsistent, Consistent, Wallets
<1>7. SnapshotNonNegative'
  BY <1>4 DEF LedgerInv, TypeOK, SnapshotNonNegative
<1>8. rowLock'["COLLECTION"] = Nobody /\ rowLock'["DISBURSEMENT"] = Nobody
  BY <1>2, <1>4 DEF LedgerInv, TransferHoldsSource, Wallets
<1>9. \A q \in Procs : ~BetweenLegs(q)'
  BY <1>2, <1>4 DEF BetweenLegs, LedgerInv, TypeOK, TransferHoldsSource
<1>10. TransferHoldsSource'
  BY <1>8, <1>9, LedgerAssumption DEF TransferHoldsSource, BetweenLegs
<1>. QED  BY <1>5, <1>6, <1>7, <1>10 DEF RowInv

LEMMA NextRowInv == LedgerInv /\ [Next]_vars => RowInv'
<1>. SUFFICES ASSUME LedgerInv, [Next]_vars
              PROVE  RowInv'
  OBVIOUS
<1>1. CASE UNCHANGED vars
  BY <1>1
     DEF vars, LedgerInv, RowInv, NoOverdraft, CollectionConsistent, Consistent,
         TransferHoldsSource, BetweenLegs, SnapshotNonNegative
<1>2. ASSUME NEW p \in Procs, BeginMove(p)
      PROVE  RowInv'
  BY <1>2, QuietRowInv DEF BeginMove, Goto, db, BetweenLegs, LedgerInv, TypeOK
<1>3. ASSUME NEW p \in Procs, BeginTransfer(p)
      PROVE  RowInv'
  BY <1>3, QuietRowInv
     DEF BeginTransfer, Goto, db, BetweenLegs, LedgerInv, TypeOK
<1>4. ASSUME NEW p \in Procs, MoveRead(p)
      PROVE  RowInv'
  <2>1. CASE MoveRefused(req[p])
    BY <1>4, <2>1, RejectRowInv DEF MoveRead
  <2>2. CASE ~MoveRefused(req[p])
    BY <1>4, <2>2, QuietRowInv
       DEF MoveRead, ReadBalance, Goto, db, BetweenLegs, LedgerInv, TypeOK
  <2>. QED  BY <2>1, <2>2
<1>5. ASSUME NEW p \in Procs, TransferReadSource(p)
      PROVE  RowInv'
  <2>1. CASE Reject(p)
    BY <2>1, RejectRowInv
  <2>2. CASE ~Reject(p)
    BY <1>5, <2>2, QuietRowInv
       DEF TransferReadSource, ReadBalance, Goto, db, BetweenLegs, LedgerInv,
           TypeOK
  <2>. QED  BY <2>1, <2>2
<1>6. ASSUME NEW p \in Procs, NEW w \in Wallets, SetFrozen(p, w)
      PROVE  RowInv'
  BY <1>6, QuietRowInv DEF SetFrozen, BetweenLegs, LedgerInv, TypeOK
<1>7. ASSUME NEW p \in Procs, Abort(p)
      PROVE  RowInv'
  BY <1>7, RejectRowInv DEF Abort
<1>. QED
  BY <1>1, <1>2, <1>3, <1>4, <1>5, <1>6, <1>7, MoveCommitRowInv,
     TransferDebitRowInv, TransferReadTargetRowInv, TransferCommitRowInv
     DEF Next, Step

\* The inductive invariant holds in every reachable state.
THEOREM LedgerInvariant == Spec => []LedgerInv
<1>1. Init => LedgerInv
  BY InitTypeOK, InitRowInv DEF LedgerInv, RowInv
<1>2. LedgerInv /\ [Next]_vars => LedgerInv'
  BY NextTypeOK, NextRowInv DEF LedgerInv, RowInv
<1>. QED  BY <1>1, <1>2, PTL DEF Spec

\* No interleaving of movements, transfers, freezes and rollbacks overdraws a
\* wallet (wallets.service.ts:14-17).
THEOREM NeverOverdrawn == Spec => []NoOverdraft
<1>1. LedgerInv => NoOverdraft
  BY DEF LedgerInv
<1>. QED  BY <1>1, LedgerInvariant, PTL

\* The COLLECTION balance is always the sum of its ledger rows, as
\* ledgerIntegrity checks it.
THEOREM CollectionAlwaysConsistent == Spec => []CollectionConsistent
<1>1. LedgerInv => CollectionConsistent
  BY DEF LedgerInv
<1>. QED  BY <1>1, LedgerInvariant, PTL

\* A transfer holds the source row, and the row its debit, from its check to
\* its commit.
THEOREM TransferLocking == Spec => []TransferHoldsSource
<1>1. LedgerInv => TransferHoldsSource
  BY DEF LedgerInv
<1>. QED  BY <1>1, LedgerInvariant, PTL
-----------------------------------------------------------------------------
(* Transfers alone *)

\* When callers move funds only in the COLLECTION wallet, a transfer that has
\* read the DISBURSEMENT balance is the only one that can write it.
TransferInv ==
    /\ \A p \in Procs :
        pc[p] \in {"moveRead", "moveUpdate"} => req[p].wallet = "COLLECTION"
    /\ \A p \in Procs :
        pc[p] = "transferCredit" =>
            snap[p]["DISBURSEMENT"] = balance["DISBURSEMENT"]
    /\ Consistent("DISBURSEMENT")

\* A step that changes only request p, and not into leg 2.
LEMMA LocalTransferInv ==
    ASSUME TransferInv, NEW p \in Procs,
           UNCHANGED <<balance, posted>>,
           \A q \in Procs : q # p =>
               pc'[q] = pc[q] /\ req'[q] = req[q] /\ snap'[q] = snap[q],
           pc'[p] \in {"moveRead", "moveUpdate"} => req'[p].wallet = "COLLECTION",
           pc'[p] = "transferCredit" =>
               snap'[p]["DISBURSEMENT"] = balance["DISBURSEMENT"]
    PROVE  TransferInv'
BY DEF TransferInv, Consistent

LEMMA RejectTransferInv ==
    ASSUME LedgerInv, TransferInv, NEW p \in Procs, Reject(p)
    PROVE  TransferInv'
<1>1. /\ UNCHANGED <<balance, posted>>
      /\ pc' = [pc EXCEPT ![p] = "idle"]
      /\ req' = [req EXCEPT ![p] = NoRequest]
      /\ snap' = [snap EXCEPT ![p] = [w \in Wallets |-> 0]]
  BY DEF Reject, Goto, Forget, db
<1>. QED
  BY <1>1, LocalTransferInv DEF LedgerInv, TypeOK

LEMMA StepTransferInv ==
    ASSUME LedgerInv, TransferInv, NEW p \in Procs, Step(p)
    PROVE  TransferInv'
<1>. USE DEF LedgerInv
<1>1. CASE Reject(p)
  BY <1>1, RejectTransferInv
<1>2. CASE ~Reject(p) /\ MoveRead(p)
  BY <1>2, LocalTransferInv
     DEF MoveRead, ReadBalance, Goto, db, TypeOK, TransferInv
<1>3. CASE ~Reject(p) /\ MoveCommit(p)
  <2>1. pc[p] = "moveUpdate" /\ req[p].wallet = "COLLECTION"
    BY <1>3 DEF MoveCommit, TransferInv
  <2>2. PICK d : /\ balance' = [balance EXCEPT !["COLLECTION"] = @ + d]
                 /\ posted' = [posted EXCEPT !["COLLECTION"] = @ + d]
                 /\ pc' = [pc EXCEPT ![p] = "idle"]
                 /\ req' = [req EXCEPT ![p] = NoRequest]
                 /\ snap' = [snap EXCEPT ![p] = [w \in Wallets |-> 0]]
    BY <1>3, <2>1 DEF MoveCommit, PostRow, Goto, Forget
  <2>. QED
    BY <2>2 DEF TransferInv, Consistent, TypeOK, Wallets
<1>4. CASE ~Reject(p) /\ TransferReadSource(p)
  BY <1>4, LocalTransferInv DEF TransferReadSource, ReadBalance, Goto, db, TypeOK
<1>5. CASE ~Reject(p) /\ TransferDebit(p)
  BY <1>5, LocalTransferInv DEF TransferDebit, Goto, db, TypeOK
<1>6. CASE ~Reject(p) /\ TransferReadTarget(p)
  <2>1. /\ UNCHANGED <<balance, posted, req>>
        /\ pc' = [pc EXCEPT ![p] = "transferCredit"]
        /\ snap' = [snap EXCEPT ![p]["DISBURSEMENT"] = balance["DISBURSEMENT"]]
    BY <1>6 DEF TransferReadTarget, ReadBalance, Goto, db
  <2>2. snap'[p]["DISBURSEMENT"] = balance["DISBURSEMENT"]
    BY <2>1 DEF TypeOK, Wallets
  <2>. QED
    BY <2>1, <2>2, LocalTransferInv DEF TypeOK
<1>7. CASE ~Reject(p) /\ TransferCommit(p)
  <2>1. BetweenLegs(p) /\ pc[p] = "transferCredit"
    BY <1>7 DEF TransferCommit, BetweenLegs
  <2>2. \A q \in Procs : q # p => ~BetweenLegs(q)
    BY <2>1 DEF TransferHoldsSource
  <2>3. /\ balance'["DISBURSEMENT"] = snap[p]["DISBURSEMENT"] + req[p].amount
        /\ posted'["DISBURSEMENT"] = posted["DISBURSEMENT"] + req[p].amount
        /\ pc' = [pc EXCEPT ![p] = "idle"]
        /\ req' = [req EXCEPT ![p] = NoRequest]
    BY <1>7 DEF TransferCommit, TargetBalance, Goto, Forget, TypeOK, Wallets
  <2>4. Consistent("DISBURSEMENT")'
    BY <2>1, <2>3 DEF TransferInv, Consistent
  <2>5. \A q \in Procs : pc'[q] # "transferCredit"
    BY <2>2, <2>3 DEF TypeOK, BetweenLegs
  <2>6. \A q \in Procs :
          pc'[q] \in {"moveRead", "moveUpdate"} => req'[q].wallet = "COLLECTION"
    BY <2>3 DEF TransferInv, TypeOK
  <2>. QED  BY <2>4, <2>5, <2>6 DEF TransferInv
<1>. QED
  BY <1>1, <1>2, <1>3, <1>4, <1>5, <1>6, <1>7 DEF Step

\* Any number of concurrent transfers keeps both wallets consistent, as long as
\* nothing else writes the DISBURSEMENT balance; the run wallet_lost_update
\* shows that the premise is needed.
THEOREM TransfersConsistent ==
    ASSUME MoveWallets = {"COLLECTION"}
    PROVE  Spec => []LedgerConsistent
<1>1. Init => TransferInv
  BY DEF Init, TransferInv, Consistent, Wallets
<1>2. LedgerInv /\ TransferInv /\ [Next]_vars => TransferInv'
  <2>. SUFFICES ASSUME LedgerInv, TransferInv, [Next]_vars
                PROVE  TransferInv'
    OBVIOUS
  <2>. USE DEF LedgerInv
  <2>1. CASE UNCHANGED vars
    BY <2>1 DEF vars, TransferInv, Consistent
  <2>2. ASSUME NEW p \in Procs, BeginMove(p)
        PROVE  TransferInv'
    <3>1. PICK r \in MoveRequest : req' = [req EXCEPT ![p] = r]
      BY <2>2 DEF BeginMove
    <3>2. r.wallet = "COLLECTION"
      BY DEF MoveRequest
    <3>. QED
      BY <2>2, <3>1, <3>2, LocalTransferInv DEF BeginMove, Goto, db, TypeOK
  <2>3. ASSUME NEW p \in Procs, BeginTransfer(p)
        PROVE  TransferInv'
    BY <2>3, LocalTransferInv DEF BeginTransfer, Goto, db, TypeOK
  <2>4. ASSUME NEW p \in Procs, NEW w \in Wallets, SetFrozen(p, w)
        PROVE  TransferInv'
    BY <2>4 DEF SetFrozen, TransferInv, Consistent
  <2>5. ASSUME NEW p \in Procs, Abort(p)
        PROVE  TransferInv'
    BY <2>5, RejectTransferInv DEF Abort
  <2>. QED
    BY <2>1, <2>2, <2>3, <2>4, <2>5, StepTransferInv DEF Next
<1>3. LedgerInv /\ TransferInv => LedgerConsistent
  BY DEF LedgerInv, TransferInv, LedgerConsistent, CollectionConsistent, Wallets
<1>. QED
  BY <1>1, <1>2, <1>3, LedgerInvariant, PTL DEF Spec
=============================================================================
