----------------------------- MODULE Accounts ----------------------------
(***************************************************************************)
(* Accounts, their API keys and permissions (accounts.service.ts), and the *)
(* guards every merchant request passes (api-key.guard.ts,                 *)
(* service-permission.guard.ts).  An administrator's operation reads, then *)
(* writes; a request reads key, account and permissions in three queries   *)
(* of one include and is judged by that snapshot from then on.             *)
(***************************************************************************)
EXTENDS Naturals, FiniteSets

CONSTANTS
  Accounts, Codes, Keys, Services,
  Admins, Requests,
  MaxChanges, MaxFailures      \* bounds of the model

VARIABLES
  account,    \* rows with their permissions; code NoCode: not created
  key,        \* the account a key belongs to, and whether it is revoked
  op,         \* an administrator's operation between its read and its write
  request,    \* merchant requests: where they are, what they read
  doomed,     \* history: why a request must be refused, whatever happens
  stirred,    \* history: accounts whose wallets moved while they were suspended
  used

avars == <<account, key, op, request, doomed, stirred, used>>

NoCode == "no code"
NoAccount == "no account"
Free == [at |-> "idle", account |-> NoAccount, code |-> NoCode, key |-> "none"]
NotCreated == [code |-> NoCode, status |-> "ACTIVE", granted |-> {}]

Init ==
  /\ account = [a \in Accounts |-> NotCreated]
  /\ key = [k \in Keys |-> [of |-> NoAccount, revoked |-> FALSE]]
  /\ op = [m \in Admins |-> Free]
  /\ request = [r \in Requests |-> [at |-> "idle", key |-> "none", service |-> "none",
                                    status |-> "ACTIVE", granted |-> {}]]
  /\ doomed = [r \in Requests |-> {}] /\ stirred = {}
  /\ used = [changes |-> 0, failures |-> 0]

Created == {a \in Accounts : account[a].code # NoCode}
Taken(c) == \E a \in Created : account[a].code = c
Begin(m, kind, a, c, k) ==
  /\ op[m].at = "idle" /\ used.changes < MaxChanges
  /\ used' = [used EXCEPT !.changes = @ + 1]
  /\ op' = [op EXCEPT ![m] = [at |-> kind, account |-> a, code |-> c, key |-> k]]
  /\ UNCHANGED <<account, key, request, doomed, stirred>>
Done(m) == op' = [op EXCEPT ![m] = Free]
\* A reason to refuse requests of account a is gone.
Redeem(a, why) == doomed' = [r \in Requests |->
  IF request[r].at # "idle" /\ key[request[r].key].of = a THEN doomed[r] \ why ELSE doomed[r]]

-----------------------------------------------------------------------------
(* Administrators.                                                         *)

\* uniqueSourceCode looks for a code that is free ...
BeginCreate(m, a, c) == a \notin Created /\ ~Taken(c) /\ Begin(m, "create", a, c, "none")

\* ... the transaction creates account, wallets and denied permissions, or
\* nothing when the code was taken meanwhile; the first key comes after it.
CreateAccount(m) ==
  /\ op[m].at = "create"
  /\ IF Taken(op[m].code) \/ op[m].account \in Created
     THEN Done(m) /\ UNCHANGED account
     ELSE /\ account' = [account EXCEPT ![op[m].account].code = op[m].code]
          /\ op' = [op EXCEPT ![m].at = "key"]
  /\ UNCHANGED <<key, request, doomed, used, stirred>>

BeginIssue(m, a) == a \in Created /\ Begin(m, "key", a, NoCode, "none")

IssueApiKey(m, k) ==
  /\ op[m].at = "key" /\ key[k].of = NoAccount
  /\ key' = [key EXCEPT ![k].of = op[m].account] /\ Done(m)
  /\ UNCHANGED <<account, request, doomed, used, stirred>>

\* revokeApiKey, suspend and activate end early when there is nothing to do.
BeginRevoke(m, k) == /\ key[k].of # NoAccount /\ ~key[k].revoked
                     /\ Begin(m, "revoke", key[k].of, NoCode, k)
RevokeApiKey(m) ==
  /\ op[m].at = "revoke" /\ key' = [key EXCEPT ![op[m].key].revoked = TRUE] /\ Done(m)
  /\ UNCHANGED <<account, request, doomed, used, stirred>>

BeginSuspend(m, a) == a \in Created /\ account[a].status = "ACTIVE" /\ Begin(m, "suspend", a, NoCode, "none")
Suspend(m) ==
  /\ op[m].at = "suspend" /\ Done(m)
  /\ account' = [account EXCEPT ![op[m].account].status = "SUSPENDED"]
  /\ UNCHANGED <<key, request, doomed, used, stirred>>

BeginActivate(m, a) == a \in Created /\ account[a].status = "SUSPENDED" /\ Begin(m, "activate", a, NoCode, "none")
Activate(m) ==
  /\ op[m].at = "activate" /\ Done(m)
  /\ account' = [account EXCEPT ![op[m].account].status = "ACTIVE"]
  /\ Redeem(op[m].account, {"suspended"})
  /\ UNCHANGED <<key, request, used, stirred>>

\* setPermissions upserts its items in one transaction.
SetPermissions(a, services, granted) ==
  /\ a \in Created /\ used.changes < MaxChanges /\ used' = [used EXCEPT !.changes = @ + 1]
  /\ account' = [account EXCEPT ![a].granted = IF granted THEN @ \cup services ELSE @ \ services]
  /\ IF granted THEN Redeem(a, services) ELSE UNCHANGED doomed
  /\ UNCHANGED <<key, op, request, stirred>>

\* A statement fails or the instance dies before the write.
Fail(m) == /\ op[m].at # "idle" /\ used.failures < MaxFailures
           /\ used' = [used EXCEPT !.failures = @ + 1] /\ Done(m)
           /\ UNCHANGED <<account, key, request, doomed, stirred>>

-----------------------------------------------------------------------------
(* Requests.                                                               *)

Advance(r, at) == request' = [request EXCEPT ![r].at = at]

Arrive(r, k, s) ==
  LET a == key[k].of IN
  /\ request[r].at = "idle" /\ a # NoAccount
  /\ request' = [request EXCEPT ![r] = [@ EXCEPT !.at = "key", !.key = k, !.service = s]]
  /\ doomed' = [doomed EXCEPT ![r] =
       (IF key[k].revoked THEN {"revoked"} ELSE {})
       \cup (IF account[a].status = "SUSPENDED" THEN {"suspended"} ELSE {})
       \cup ({s} \ account[a].granted)]
  /\ UNCHANGED <<account, key, op, used, stirred>>

KeyValid_any(k) == TRUE

KeyValid(k) == ~key[k].revoked

\* The include's queries: the key, the account, the permissions.
ReadKey(r) == /\ request[r].at = "key"
              /\ Advance(r, IF KeyValid(request[r].key) THEN "account" ELSE "refused")
              /\ UNCHANGED <<account, key, op, doomed, used, stirred>>
ReadAccount(r) ==
  /\ request[r].at = "account"
  /\ request' = [request EXCEPT ![r].at = "permissions", ![r].status = account[key[request[r].key].of].status]
  /\ UNCHANGED <<account, key, op, doomed, used, stirred>>
ReadPermissions(r) ==
  /\ request[r].at = "permissions"
  /\ request' = [request EXCEPT ![r].at = "judge", ![r].granted = account[key[request[r].key].of].granted]
  /\ UNCHANGED <<account, key, op, doomed, used, stirred>>

NotSuspended(r) == request[r].status # "SUSPENDED"
Granted(r) == request[r].service \in request[r].granted

Judge(r) == /\ request[r].at = "judge"
            /\ Advance(r, IF NotSuspended(r) /\ Granted(r) THEN "admitted" ELSE "refused")
            /\ UNCHANGED <<account, key, op, doomed, used, stirred>>

\* Wallets know FROZEN; whether the account is suspended they do not ask.
Stir(a) == stirred' = IF account[a].status = "SUSPENDED" THEN stirred \cup {a} ELSE stirred

\* What was admitted moves the wallets before it is answered; the same client
\* may come back.
Answer(r) == /\ request[r].at \in {"admitted", "refused"} /\ Advance(r, "idle")
             /\ doomed' = [doomed EXCEPT ![r] = {}]
             /\ IF request[r].at = "admitted" THEN Stir(key[request[r].key].of) ELSE UNCHANGED stirred
             /\ UNCHANGED <<account, key, op, used>>

\* An administrator's deposit or withdrawal, a refund, a paid collection.
MoveWallet(a) == /\ a \in Created /\ Stir(a)
                 /\ UNCHANGED <<account, key, op, request, doomed, used>>

Next ==
  \/ \E m \in Admins :
       \/ \E a \in Accounts : \/ BeginIssue(m, a) \/ BeginSuspend(m, a) \/ BeginActivate(m, a)
                              \/ \E c \in Codes : BeginCreate(m, a, c)
       \/ \E k \in Keys : IssueApiKey(m, k) \/ BeginRevoke(m, k)
       \/ CreateAccount(m) \/ RevokeApiKey(m) \/ Suspend(m) \/ Activate(m) \/ Fail(m)
  \/ \E a \in Accounts, s \in SUBSET Services, g \in BOOLEAN : SetPermissions(a, s, g)
  \/ \E a \in Accounts : MoveWallet(a)
  \/ \E r \in Requests :
       \/ \E k \in Keys, s \in Services : Arrive(r, k, s)
       \/ ReadKey(r) \/ ReadAccount(r) \/ ReadPermissions(r) \/ Judge(r) \/ Answer(r)

Spec == Init /\ [][Next]_avars

-----------------------------------------------------------------------------
(***************************************************************************)
(* A request is refused when it arrived after its key was revoked, after   *)
(* its account was suspended or before its service was granted, unless     *)
(* that was undone meanwhile, although the guard reads the three at        *)
(* different times.                                                        *)
(***************************************************************************)
RefusalHolds == \A r \in Requests : request[r].at = "admitted" => doomed[r] = {}

(***************************************************************************)
(* "All API keys stop working immediately and wallets are frozen for       *)
(* movement": nothing moves the wallets of an account that is suspended.   *)
(***************************************************************************)
SuspendedIsStill == stirred = {}

=============================================================================
