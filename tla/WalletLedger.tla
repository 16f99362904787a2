---------------------------- MODULE WalletLedger ----------------------------
(***************************************************************************)
(* The two wallets of one account and the operations of WalletsService     *)
(* (src/src/wallets/wallets.service.ts): move, transferCollectionTo-       *)
(* Disbursement and setFrozen, run by concurrent requests of several       *)
(* application instances.                                                  *)
(*                                                                         *)
(* The transactions run at PostgreSQL's default READ COMMITTED level: the  *)
(* code calls prisma.$transaction without an isolation level.  A read      *)
(* returns the last committed value; an UPDATE waits for the row lock of a *)
(* transaction that updated the row first, re-evaluates its WHERE on the   *)
(* committed row, and holds the lock until its own commit.  An action is   *)
(* one database round trip, except that the last UPDATE of a transaction   *)
(* is merged with the inserts and the commit behind it: they touch no row  *)
(* another request reads in between.  Amounts are integer minor units.     *)
(***************************************************************************)
EXTENDS Integers, FiniteSets

CONSTANTS
    Procs,        \* requests in flight at one time, over all instances
    Nobody,       \* the holder of a row nobody locks
    Amounts,      \* amounts a caller may ask for
    References,   \* client references a transfer may carry
    NoReference,  \* a transfer without a client reference
    MoveWallets,  \* the wallets callers of move name in this environment
    FeeBps,       \* the account's transfer fee, in basis points
    MaxRequests   \* bound: requests accepted in a behaviour

Wallets == {"COLLECTION", "DISBURSEMENT"}

ASSUME LedgerAssumption ==
    /\ Nobody \notin Procs
    /\ Amounts \subseteq Nat
    /\ NoReference \notin References
    /\ MoveWallets \subseteq Wallets
    /\ FeeBps \in Nat
    /\ MaxRequests \in Nat

VARIABLES
    balance,      \* wallet.balance, committed
    posted,       \* sum of the committed walletTransaction.amount, per wallet
    lastRow,      \* balanceBefore/balanceAfter of the newest ledger row
    frozen,       \* wallet.status = FROZEN
    rowLock,      \* the open transaction that has updated the wallet row
    transferRefs, \* number of walletTransfer rows per client reference
    pc, req, snap,\* per request: next statement, arguments, balances read
    accepted      \* requests accepted so far (bounded by MaxRequests)

db   == <<balance, posted, lastRow, frozen, transferRefs>>
vars == <<balance, posted, lastRow, frozen, rowLock, transferRefs,
          pc, req, snap, accepted>>

-----------------------------------------------------------------------------
(* Requests *)

DebitTypes  == {"WITHDRAWAL", "PAYOUT_DEBIT", "BATCH_HOLD"}
CreditTypes == {"DEPOSIT", "COLLECTION_CREDIT", "REFUND"}

\* The ignoreFrozen argument the callers of move pass with each ledger type:
\* the status engine settles and refunds with TRUE, everyone else leaves it out.
IgnoreFrozen(txType) ==
    CASE txType \in {"COLLECTION_CREDIT", "REFUND"} -> {TRUE}
      [] txType = "DEPOSIT"                         -> BOOLEAN
      [] OTHER                                      -> {FALSE}

\* Mutant: a caller's negative amount is not made positive.
MoveRequest_signed ==
    [wallet : MoveWallets, txType : DebitTypes, amount : {-a : a \in Amounts},
     ignoreFrozen : {FALSE}, ref : {NoReference}]

MoveRequest ==
    { r \in [wallet : MoveWallets, txType : DebitTypes \cup CreditTypes,
             amount : Amounts, ignoreFrozen : BOOLEAN, ref : {NoReference}] :
        r.ignoreFrozen \in IgnoreFrozen(r.txType) }

TransferRequest ==
    [wallet : {"COLLECTION"}, txType : {"TRANSFER_OUT"}, amount : Amounts,
     ignoreFrozen : {FALSE}, ref : References \cup {NoReference}]

Request == [wallet : Wallets,
            txType : DebitTypes \cup CreditTypes \cup {"TRANSFER_OUT"},
            amount : Nat, ignoreFrozen : BOOLEAN,
            ref : References \cup {NoReference}]

\* The ledger type fixes the direction, never the sign of the amount.
IsDebit(r) == r.txType \in DebitTypes

\* computeTransferFee: amount * bps / 10000, rounded half up to a minor unit.
TransferFee(amount) == (amount * FeeBps + 5000) \div 10000

TotalDebit(r) == r.amount + TransferFee(r.amount)

Steps == {"idle", "moveRead", "moveUpdate", "transferReadSource",
          "transferDebit", "transferReadTarget", "transferCredit"}

NoRequest == [wallet |-> "COLLECTION", txType |-> "DEPOSIT", amount |-> 0,
              ignoreFrozen |-> FALSE, ref |-> NoReference]

-----------------------------------------------------------------------------
Init ==
    /\ balance      = [w \in Wallets |-> 0]
    /\ posted       = [w \in Wallets |-> 0]
    /\ lastRow      = [w \in Wallets |-> [before |-> 0, after |-> 0]]
    /\ frozen       = [w \in Wallets |-> FALSE]
    /\ rowLock      = [w \in Wallets |-> Nobody]
    /\ transferRefs = [r \in References |-> 0]
    /\ pc           = [p \in Procs |-> "idle"]
    /\ req          = [p \in Procs |-> NoRequest]
    /\ snap         = [p \in Procs |-> [w \in Wallets |-> 0]]
    /\ accepted     = 0

Goto(p, step) == pc' = [pc EXCEPT ![p] = step]

\* What a request has read is gone with it.
Forget(p) ==
    /\ req'  = [req EXCEPT ![p] = NoRequest]
    /\ snap' = [snap EXCEPT ![p] = [w \in Wallets |-> 0]]

\* Mutant: a row stays locked after the transaction.
Unlock_never(p) == rowLock' = rowLock

\* The rows the request's transaction has updated are free again.
Unlock(p) ==
    rowLock' = [w \in Wallets |-> IF rowLock[w] = p THEN Nobody ELSE rowLock[w]]

\* An exception: the transaction rolls back and nothing it did remains.
Reject(p) ==
    /\ Goto(p, "idle")
    /\ Forget(p)
    /\ Unlock(p)
    /\ UNCHANGED <<db, accepted>>

ReadBalance(p, w) == snap' = [snap EXCEPT ![p][w] = balance[w]]

-----------------------------------------------------------------------------
(* WalletsService.move *)

\* move up to $transaction: amount and status checks on a plain read.
BeginMove(p) ==
    /\ pc[p] = "idle"
    /\ accepted < MaxRequests
    /\ \E r \in MoveRequest :
        /\ r.amount # 0
        /\ frozen[r.wallet] => r.ignoreFrozen
        /\ req' = [req EXCEPT ![p] = r]
    /\ Goto(p, "moveRead")
    /\ accepted' = accepted + 1
    /\ UNCHANGED <<db, rowLock, snap>>

\* tx.wallet.findUnique, with the status and floor checks on what it returns.
MoveRefused(r) ==
    \/ frozen[r.wallet] /\ ~r.ignoreFrozen
    \/ IsDebit(r) /\ balance[r.wallet] < r.amount

MoveRead(p) ==
    /\ pc[p] = "moveRead"
    /\ IF MoveRefused(req[p])
       THEN Reject(p)
       ELSE /\ ReadBalance(p, req[p].wallet)
            /\ Goto(p, "moveUpdate")
            /\ UNCHANGED <<db, rowLock, req, accepted>>

\* One ledger row of wallet w: its amount, and the balances it records.
PostRow(w, amount, before) ==
    /\ posted'  = [posted EXCEPT ![w] = @ + amount]
    /\ lastRow' = [lastRow EXCEPT ![w] =
                     [before |-> before, after |-> before + amount]]

\* The signed amount the movement posts.
Delta(r) == IF IsDebit(r) THEN -r.amount ELSE r.amount

\* Mutant: the decrement has no floor.
FloorHolds_unchecked(r) == TRUE

\* updateMany ... WHERE balance >= delta: the floor is re-checked on the row.
FloorHolds(r) == IsDebit(r) => balance[r.wallet] >= r.amount

\* Mutant: move writes the balance it computed from its read.
MoveCommit_absolute(p) ==
    LET r == req[p] w == req[p].wallet IN
    /\ pc[p] = "moveUpdate"
    /\ rowLock[w] = Nobody
    /\ balance' = [balance EXCEPT ![w] = snap[p][w] + Delta(r)]
    /\ PostRow(w, Delta(r), snap[p][w])
    /\ Goto(p, "idle")
    /\ Forget(p)
    /\ UNCHANGED <<frozen, rowLock, transferRefs, accepted>>

\* The conditional decrement (or the increment), the ledger row and the commit.
MoveCommit(p) ==
    LET r == req[p] w == req[p].wallet IN
    /\ pc[p] = "moveUpdate"
    /\ rowLock[w] = Nobody
    /\ IF FloorHolds(r)
       THEN /\ balance' = [balance EXCEPT ![w] = @ + Delta(r)]
            /\ PostRow(w, Delta(r), snap[p][w])
            /\ Goto(p, "idle")
            /\ Forget(p)
            /\ UNCHANGED <<frozen, rowLock, transferRefs, accepted>>
       ELSE Reject(p)

-----------------------------------------------------------------------------
(* WalletsService.transferCollectionToDisbursement *)

\* Up to $transaction: status of both wallets, duplicate reference, amount.
BeginTransfer(p) ==
    /\ pc[p] = "idle"
    /\ accepted < MaxRequests
    /\ \A w \in Wallets : ~frozen[w]
    /\ \E r \in TransferRequest :
        /\ r.ref # NoReference => transferRefs[r.ref] = 0
        /\ r.amount > 0
        /\ req' = [req EXCEPT ![p] = r]
    /\ Goto(p, "transferReadSource")
    /\ accepted' = accepted + 1
    /\ UNCHANGED <<db, rowLock, snap>>

TransferReadSource(p) ==
    /\ pc[p] = "transferReadSource"
    /\ IF frozen["COLLECTION"] \/ balance["COLLECTION"] < TotalDebit(req[p])
       THEN Reject(p)
       ELSE /\ ReadBalance(p, "COLLECTION")
            /\ Goto(p, "transferDebit")
            /\ UNCHANGED <<db, rowLock, req, accepted>>

\* Mutant: leg 1 is a read and a later write, without the row lock between.
TransferDebit_unlocked(p) ==
    /\ pc[p] = "transferDebit"
    /\ rowLock["COLLECTION"] = Nobody
    /\ balance["COLLECTION"] >= TotalDebit(req[p])
    /\ Goto(p, "transferReadTarget")
    /\ UNCHANGED <<db, rowLock, req, snap, accepted>>

\* Leg 1: the conditional decrement locks the COLLECTION row until the commit;
\* nobody else sees the new balance before.
TransferDebit(p) ==
    /\ pc[p] = "transferDebit"
    /\ rowLock["COLLECTION"] = Nobody
    /\ IF balance["COLLECTION"] < TotalDebit(req[p])
       THEN Reject(p)
       ELSE /\ rowLock' = [rowLock EXCEPT !["COLLECTION"] = p]
            /\ Goto(p, "transferReadTarget")
            /\ UNCHANGED <<db, req, snap, accepted>>

TransferReadTarget(p) ==
    /\ pc[p] = "transferReadTarget"
    /\ IF frozen["DISBURSEMENT"]
       THEN Reject(p)
       ELSE /\ ReadBalance(p, "DISBURSEMENT")
            /\ Goto(p, "transferCredit")
            /\ UNCHANGED <<db, rowLock, req, accepted>>

\* Leg 2 writes the balance computed from the read, not an increment.
TargetBalance(p) == snap[p]["DISBURSEMENT"] + req[p].amount

\* Leg 2, both ledger rows, the walletTransfer row and the commit.
TransferCommit(p) ==
    LET r == req[p] total == TotalDebit(req[p]) IN
    /\ pc[p] = "transferCredit"
    /\ rowLock["DISBURSEMENT"] = Nobody
    /\ balance' = [balance EXCEPT !["COLLECTION"]   = @ - total,
                                  !["DISBURSEMENT"] = TargetBalance(p)]
    /\ posted'  = [posted EXCEPT !["COLLECTION"]   = @ - total,
                                 !["DISBURSEMENT"] = @ + r.amount]
    /\ lastRow' = [w \in Wallets |->
                     [before |-> snap[p][w],
                      after  |-> IF w = "COLLECTION" THEN snap[p][w] - total
                                                     ELSE TargetBalance(p)]]
    /\ transferRefs' = [x \in References |->
                          IF x = r.ref THEN transferRefs[x] + 1
                                       ELSE transferRefs[x]]
    /\ Goto(p, "idle")
    /\ Forget(p)
    /\ Unlock(p)
    /\ UNCHANGED <<frozen, accepted>>

-----------------------------------------------------------------------------
\* WalletsService.setFrozen, an UPDATE of the status column only.
SetFrozen(p, w) ==
    /\ pc[p] = "idle"
    /\ rowLock[w] = Nobody
    /\ frozen' = [frozen EXCEPT ![w] = ~@]
    /\ UNCHANGED <<balance, posted, lastRow, rowLock, transferRefs, pc, req,
                   snap, accepted>>

\* The instance dies, the connection is lost or Prisma's transaction timeout
\* fires: PostgreSQL rolls the open transaction back.
Abort(p) == pc[p] # "idle" /\ Reject(p)

Step(p) ==
    \/ MoveRead(p)
    \/ MoveCommit(p)
    \/ TransferReadSource(p)
    \/ TransferDebit(p)
    \/ TransferReadTarget(p)
    \/ TransferCommit(p)

Next ==
    \E p \in Procs :
        \/ BeginMove(p)
        \/ BeginTransfer(p)
        \/ Step(p)
        \/ \E w \in Wallets : SetFrozen(p, w)
        \/ Abort(p)

\* A request that has started runs to its end: its next statement is sent, and
\* the database answers it once the row is free.
Fairness == \A p \in Procs : WF_vars(Step(p))

Spec == Init /\ [][Next]_vars /\ Fairness

-----------------------------------------------------------------------------
(* Properties *)

TypeOK ==
    /\ balance \in [Wallets -> Int]
    /\ posted \in [Wallets -> Int]
    /\ lastRow \in [Wallets -> [before : Int, after : Int]]
    /\ frozen \in [Wallets -> BOOLEAN]
    /\ rowLock \in [Wallets -> Procs \cup {Nobody}]
    /\ transferRefs \in [References -> Nat]
    /\ pc \in [Procs -> Steps]
    /\ req \in [Procs -> Request]
    /\ snap \in [Procs -> [Wallets -> Int]]
    /\ accepted \in Nat

\* Overdraft is impossible even under concurrent requests (wallets.service.ts:
\* 14-17): move re-checks the floor in its UPDATE, a transfer holds the row
\* from its check to its commit.
NoOverdraft == \A w \in Wallets : balance[w] >= 0

\* ledgerIntegrity (wallets.service.ts:302-320) finds wallet w consistent: the
\* balance is the sum of the amounts of its ledger rows.
Consistent(w) == balance[w] = posted[w]

\* Whatever requests run together, the COLLECTION wallet, which every
\* operation updates by increments, stays consistent with its ledger.
CollectionConsistent == Consistent("COLLECTION")

\* Both wallets stay consistent.  Transfers alone keep it although leg 2 writes
\* an absolute balance: the COLLECTION row lock serialises them.
LedgerConsistent == \A w \in Wallets : Consistent(w)

\* The newest ledger row of a wallet ends at the wallet's balance, as a
\* statement of account shows it (README: before/after balances in the ledger).
RowsExact == \A w \in Wallets : lastRow[w].after = balance[w]

\* No debit lands on a wallet that is frozen when the debit commits
\* (wallets.service.ts:19).
FrozenBlocksDebits ==
    [][\A w \in Wallets : frozen[w] => balance'[w] >= balance[w]]_vars

\* A client reference names at most one transfer (duplicate-reference guard,
\* wallets.service.ts:172-179).
TransferReferencesUnique == \A r \in References : transferRefs[r] <= 1

\* Frozen wallets reject all movements, as wallets.service.ts:19 says (nothing
\* issues an ADJUSTMENT): the status engine's credits and refunds do not.
FrozenRejectsAll ==
    [][\A w \in Wallets : frozen[w] => balance'[w] = balance[w]]_vars

\* Between its two legs a transfer owns the COLLECTION row, nobody else locks
\* anything, and the committed balance still covers what the transfer debits:
\* the reason why the decrement it made earlier cannot overdraw at commit.
BetweenLegs(p) == pc[p] \in {"transferReadTarget", "transferCredit"}

TransferHoldsSource ==
    /\ rowLock["DISBURSEMENT"] = Nobody
    /\ \A p \in Procs :
        /\ BetweenLegs(p) <=> rowLock["COLLECTION"] = p
        /\ BetweenLegs(p) => balance["COLLECTION"] >= TotalDebit(req[p])

\* Every accepted request ends: no request waits for ever for a row lock.
RequestsEnd == \A p \in Procs : pc[p] # "idle" ~> pc[p] = "idle"

=============================================================================
