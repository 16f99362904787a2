------------------------- MODULE BackgroundProofs -------------------------
(***************************************************************************)
(* Webhooks and billing for any number of endpoints, clients, handlers,    *)
(* accounts and plans: endpoints stay within their limit and one more per  *)
(* concurrent client, rows of deliveries tell the truth, and dates are     *)
(* billed once.  The statements about SMS are proved in SmsProofs.         *)
(***************************************************************************)
EXTENDS MCBackground, FiniteSetTheorems, TLAPS

-----------------------------------------------------------------------------
(* The run picks a part and is a behaviour of that part.                   *)

LEMMA SumOfDeliveries ==
  /\ SumInit => D!Init
  /\ [SumNext]_vars => [D!Next]_(D!dvars)
<1>. USE DEF vars, smsvars, deliveryVars, billingVars, D!dvars
<1>1. SumInit => D!Init
  BY DEF SumInit
<1>2. [SumNext]_vars => [D!Next]_(D!dvars)
  BY DEF SumNext
<1>. QED
  BY <1>1, <1>2

LEMMA SumOfBilling ==
  /\ SumInit => B!Init
  /\ [SumNext]_vars => [B!Next]_(B!bvars)
<1>. USE DEF vars, smsvars, deliveryVars, billingVars, B!bvars
<1>1. SumInit => B!Init
  BY DEF SumInit
<1>2. [SumNext]_vars => [B!Next]_(B!bvars)
  BY DEF SumNext
<1>. QED
  BY <1>1, <1>2

\* The instance's Cardinality is the one the library's theorems are about.
LEMMA SameCardinality == \A S : D!Cardinality(S) = Cardinality(S)
BY DEF D!Cardinality, Cardinality

-----------------------------------------------------------------------------
(* Endpoints.                                                              *)

\* Finitely many ids and clients, and a limit of at least one.
EndpointConstants ==
  /\ IsFiniteSet(Slots) /\ IsFiniteSet(Clients)
  /\ EndpointLimit \in Nat \ {0}

\* Registrations that have counted less than the limit and will create one.
Registering == {c \in Clients : client[c].at = "create" /\ D!BelowLimit(client[c].count)}

EndpointTypeOK ==
  /\ endpoint \in [Slots -> {"none", "active", "disabled", "deleted"}]
  /\ client \in [Clients -> [at : {"idle", "create"}, count : Nat]]

\* Endpoints and registrations under way share one allowance: whoever joins
\* them has counted less than the limit, so all clients but it fit on top.
EndpointInv ==
  /\ EndpointTypeOK
  /\ Cardinality(D!Present) + Cardinality(Registering) <= EndpointLimit + Cardinality(Clients) - 1

LEMMA FiniteParts ==
  ASSUME EndpointConstants
  PROVE  /\ IsFiniteSet(D!Present) /\ Cardinality(D!Present) \in Nat
         /\ IsFiniteSet(Registering) /\ Cardinality(Registering) \in Nat
         /\ Cardinality(Clients) \in Nat
         /\ Cardinality(Registering) <= Cardinality(Clients)
<1>1. IsFiniteSet(Slots) /\ IsFiniteSet(Clients)
  BY DEF EndpointConstants
<1>2. D!Present \in SUBSET Slots /\ Registering \in SUBSET Clients
  BY DEF D!Present, Registering
<1>3. IsFiniteSet(D!Present)
  BY <1>1, <1>2, FS_Subset
<1>4. IsFiniteSet(Registering) /\ Cardinality(Registering) <= Cardinality(Clients)
  BY <1>1, <1>2, FS_Subset
<1>. QED
  BY <1>1, <1>3, <1>4, FS_CardinalityType

LEMMA EndpointInit ==
  ASSUME EndpointConstants, D!Init
  PROVE  EndpointInv
<1>1. EndpointTypeOK
  BY DEF D!Init, EndpointTypeOK
<1>2. D!Present = {} /\ Registering = {}
  BY DEF D!Init, D!Present, Registering
<1>3. Cardinality(D!Present) = 0 /\ Cardinality(Registering) = 0
  BY <1>2, FS_EmptySet
<1>. QED
  BY <1>1, <1>3, FiniteParts DEF EndpointInv, EndpointConstants

LEMMA EndpointStep ==
  ASSUME EndpointConstants, EndpointInv, [D!Next]_(D!dvars)
  PROVE  EndpointInv'
<1>. USE DEF EndpointInv
<1>f. /\ IsFiniteSet(D!Present) /\ Cardinality(D!Present) \in Nat
      /\ IsFiniteSet(Registering) /\ Cardinality(Registering) \in Nat
      /\ Cardinality(Clients) \in Nat /\ EndpointLimit \in Nat
      /\ Cardinality(Registering) <= Cardinality(Clients)
  BY FiniteParts DEF EndpointConstants
<1>1. ASSUME NEW c \in Clients, D!CountEndpoints(c)
      PROVE  EndpointInv'
  <2>1. /\ EndpointTypeOK'
        /\ client' = [client EXCEPT ![c] = [at |-> "create", count |-> Cardinality(D!Present)]]
        /\ client[c].at = "idle"
    BY <1>1, <1>f, SameCardinality DEF EndpointTypeOK, D!CountEndpoints
  <2>2. D!Present' = D!Present
    BY <1>1 DEF D!CountEndpoints, D!Present
  <2>3. CASE D!BelowLimit(Cardinality(D!Present))
    <3>1. Registering' = Registering \cup {c}
      BY <2>1, <2>3 DEF Registering, D!BelowLimit, EndpointTypeOK
    <3>2. c \notin Registering
      BY <2>1 DEF Registering
    <3>3. /\ IsFiniteSet(Registering \cup {c})
          /\ Cardinality(Registering \cup {c}) = Cardinality(Registering) + 1
      BY <3>2, <1>f, FS_AddElement
    <3>4. Cardinality(Registering \cup {c}) <= Cardinality(Clients)
      <4>1. Registering \cup {c} \in SUBSET Clients
        BY DEF Registering
      <4>. QED
        BY <4>1, FS_Subset DEF EndpointConstants
    <3>5. Cardinality(D!Present) < EndpointLimit
      BY <2>3 DEF D!BelowLimit
    <3>. QED
      BY <1>f, <2>1, <2>2, <3>1, <3>3, <3>4, <3>5
  <2>4. CASE ~D!BelowLimit(Cardinality(D!Present))
    <3>1. Registering' = Registering
      BY <2>1, <2>4 DEF Registering, D!BelowLimit, EndpointTypeOK
    <3>. QED
      BY <2>1, <2>2, <3>1
  <2>. QED
    BY <2>3, <2>4
<1>2. ASSUME NEW c \in Clients, D!CreateEndpoint(c)
      PROVE  EndpointInv'
  <2>1. /\ EndpointTypeOK'
        /\ client' = [client EXCEPT ![c] = [at |-> "idle", count |-> 0]]
        /\ client[c].at = "create"
    BY <1>2 DEF EndpointTypeOK, D!CreateEndpoint
  <2>2. Registering' = Registering \ {c}
    BY <2>1 DEF Registering, D!BelowLimit, EndpointTypeOK
  <2>3. CASE D!BelowLimit(client[c].count)
    <3>1. PICK s \in Slots : endpoint[s] = "none" /\ endpoint' = [endpoint EXCEPT ![s] = "active"]
      BY <1>2, <2>3 DEF D!CreateEndpoint
    <3>2. D!Present' = D!Present \cup {s} /\ s \notin D!Present
      BY <3>1 DEF D!Present, EndpointTypeOK
    <3>3. Cardinality(D!Present') = Cardinality(D!Present) + 1
      BY <3>2, <1>f, FS_AddElement
    <3>4. c \in Registering
      BY <2>1, <2>3 DEF Registering
    <3>5. Cardinality(Registering') = Cardinality(Registering) - 1
      BY <3>4, <2>2, <1>f, FS_RemoveElement
    <3>. QED
      BY <1>f, <2>1, <3>3, <3>5
  <2>4. CASE ~D!BelowLimit(client[c].count)
    <3>1. D!Present' = D!Present
      BY <1>2, <2>4 DEF D!CreateEndpoint, D!Present
    <3>2. Registering' = Registering
      BY <2>2, <2>4 DEF Registering
    <3>. QED
      BY <2>1, <3>1, <3>2
  <2>. QED
    BY <2>3, <2>4
<1>3. ASSUME NEW s \in Slots, D!RemoveEndpoint(s)
      PROVE  EndpointInv'
  <2>1. EndpointTypeOK'
    BY <1>3 DEF EndpointTypeOK, D!RemoveEndpoint
  <2>2. Registering' = Registering
    BY <1>3 DEF D!RemoveEndpoint, Registering, D!BelowLimit
  <2>3. D!Present' = D!Present \ {s} /\ s \in D!Present
    BY <1>3 DEF D!RemoveEndpoint, D!Present, EndpointTypeOK
  <2>4. Cardinality(D!Present') = Cardinality(D!Present) - 1
    BY <2>3, <1>f, FS_RemoveElement
  <2>. QED
    BY <1>f, <2>1, <2>2, <2>4
<1>4. ASSUME NEW s \in Slots, D!DisableEndpoint(s)
      PROVE  EndpointInv'
  <2>1. EndpointTypeOK'
    BY <1>4 DEF EndpointTypeOK, D!DisableEndpoint
  <2>2. Registering' = Registering
    BY <1>4 DEF D!DisableEndpoint, Registering, D!BelowLimit
  <2>3. D!Present' = D!Present
    BY <1>4 DEF D!DisableEndpoint, D!Present, EndpointTypeOK
  <2>. QED
    BY <2>1, <2>2, <2>3
<1>5. ASSUME UNCHANGED <<endpoint, client>>
      PROVE  EndpointInv'
  BY <1>5 DEF EndpointTypeOK, D!Present, Registering, D!BelowLimit
<1>6. \/ UNCHANGED <<endpoint, client>>
      \/ \E c \in Clients : D!CountEndpoints(c) \/ D!CreateEndpoint(c)
      \/ \E s \in Slots : D!RemoveEndpoint(s) \/ D!DisableEndpoint(s)
  BY DEF D!Next, D!dvars, D!BeginDispatch, D!CreateDelivery, D!EnqueueDelivery, D!ReadDelivery,
         D!Post, D!WriteOutcome, D!EnqueueRetry, D!Throw, D!Crash, D!BecomeDue, D!Sweep
<1>. QED
  BY <1>1, <1>2, <1>3, <1>4, <1>5, <1>6

(***************************************************************************)
(* create: whatever number of clients register endpoints at the same time, *)
(* they exceed the limit by at most one each but the first.                *)
(***************************************************************************)
THEOREM EndpointLimitHolds ==
  ASSUME EndpointConstants
  PROVE  /\ D!Spec  => []EndpointsBounded
         /\ SumSpec => []EndpointsBounded
<1>1. D!Init => EndpointInv
  BY EndpointInit
<1>2. EndpointInv /\ [D!Next]_(D!dvars) => EndpointInv'
  BY EndpointStep
<1>3. EndpointInv => EndpointsBounded
  <2>1. /\ Cardinality(D!Present) \in Nat /\ Cardinality(Registering) \in Nat
        /\ Cardinality(Clients) \in Nat /\ EndpointLimit \in Nat
    BY FiniteParts DEF EndpointConstants
  <2>. QED
    BY <2>1, SameCardinality DEF EndpointInv, EndpointsBounded, D!EndpointsBounded
<1>. QED
  BY <1>1, <1>2, <1>3, SumOfDeliveries, PTL DEF D!Spec, SumSpec

-----------------------------------------------------------------------------
(* Deliveries.                                                             *)

DeliveryRows == [status : {"NONE", "PENDING", "DELIVERED", "FAILED", "DEAD"},
                 attempts : Nat, timed : BOOLEAN]
Handlings == [d : D!Deliveries \cup {<<>>}, attempts : Nat,
              at : {"idle", "post", "disabled", "ok", "failed", "retry"}]

DeliveryTypeOK ==
  /\ dispatch \in [Events -> [at : {"idle", "row"} \cup Slots, to : SUBSET Slots]]
  /\ row \in [D!Deliveries -> DeliveryRows]
  /\ jobs \in [D!Deliveries -> [due : Nat, delayed : Nat]]
  /\ work \in [Workers -> Handlings]
  /\ posts \in [D!Deliveries -> Nat]
  /\ acked \in SUBSET D!Deliveries

\* What a handler holds at x.at: the attempt it counts is the POST it is about
\* to send, or one that was sent, and it believes in a 2xx only after one.
HandlingHonest(x) ==
  x.at # "idle" =>
    /\ x.d \in D!Deliveries
    /\ x.at = "post" => x.attempts <= posts[x.d] + 1
    /\ x.at \in {"ok", "failed", "retry"} => x.attempts <= posts[x.d]
    /\ x.at = "ok" => x.d \in acked

DeliveryInv ==
  /\ DeliveryTypeOK
  /\ D!OutcomeHonest
  /\ \A w \in Workers : HandlingHonest(work[w])

LEMMA DeliveryInit ==
  ASSUME D!Init
  PROVE  DeliveryInv
<1>1. D!Absent \in DeliveryRows /\ D!Idle \in Handlings
  BY DEF D!Absent, D!Idle, DeliveryRows, Handlings
<1>2. DeliveryTypeOK
  BY <1>1 DEF D!Init, DeliveryTypeOK
<1>3. D!OutcomeHonest
  BY DEF D!Init, D!OutcomeHonest, D!Absent
<1>4. \A w \in Workers : HandlingHonest(work[w])
  BY DEF D!Init, HandlingHonest, D!Idle
<1>. QED
  BY <1>2, <1>3, <1>4 DEF DeliveryInv

\* A handler that comes to rest, or goes on with what is honest, disturbs nobody.
LEMMA OneHandler ==
  ASSUME DeliveryInv, NEW w \in Workers, NEW x \in Handlings,
         work' = [work EXCEPT ![w] = x], UNCHANGED <<posts, acked>>, HandlingHonest(x)
  PROVE  /\ work' \in [Workers -> Handlings]
         /\ \A v \in Workers : HandlingHonest(work[v])'
<1>1. work \in [Workers -> Handlings]
  BY DEF DeliveryInv, DeliveryTypeOK
<1>2. work' \in [Workers -> Handlings]
  BY <1>1
<1>3. \A v \in Workers : work'[v] = IF v = w THEN x ELSE work[v]
  BY <1>1
<1>4. ASSUME NEW v \in Workers PROVE HandlingHonest(work[v])'
  <2>1. HandlingHonest(IF v = w THEN x ELSE work[v])
    BY DEF DeliveryInv
  <2>. QED
    BY <1>3, <2>1 DEF HandlingHonest
<1>. QED
  BY <1>2, <1>4

LEMMA AtRest == D!Idle \in Handlings /\ HandlingHonest(D!Idle)
BY DEF D!Idle, Handlings, HandlingHonest

\* One more job of a delivery, due now or later.
LEMMA OneMoreJob ==
  ASSUME DeliveryTypeOK, NEW d \in D!Deliveries
  PROVE  /\ [jobs EXCEPT ![d].due = @ + 1] \in [D!Deliveries -> [due : Nat, delayed : Nat]]
         /\ [jobs EXCEPT ![d].delayed = @ + 1] \in [D!Deliveries -> [due : Nat, delayed : Nat]]
<1>1. jobs \in [D!Deliveries -> [due : Nat, delayed : Nat]]
  BY DEF DeliveryTypeOK
<1>2. /\ [jobs[d] EXCEPT !.due = @ + 1] \in [due : Nat, delayed : Nat]
      /\ [jobs[d] EXCEPT !.delayed = @ + 1] \in [due : Nat, delayed : Nat]
  BY <1>1
<1>. QED
  BY <1>1, <1>2

\* The steps before a handler: rows come to be without attempts, or go.
LEMMA RowsComeAndGo ==
  ASSUME DeliveryInv, UNCHANGED <<work, posts, acked>>,
         jobs' \in [D!Deliveries -> [due : Nat, delayed : Nat]],
         dispatch' \in [Events -> [at : {"idle", "row"} \cup Slots, to : SUBSET Slots]],
         row' \in [D!Deliveries -> DeliveryRows],
         \A d \in D!Deliveries :
           row'[d] = row[d] \/ (row'[d].attempts = 0 /\ row'[d].status \in {"NONE", "PENDING"})
  PROVE  DeliveryInv'
<1>1. DeliveryTypeOK'
  BY DEF DeliveryInv, DeliveryTypeOK
<1>2. D!OutcomeHonest'
  <2>. SUFFICES ASSUME NEW d \in D!Deliveries
       PROVE  /\ row'[d].attempts <= posts[d]
              /\ row'[d].status = "DELIVERED" => d \in acked
              /\ row'[d].status = "DEAD" => posts[d] >= DeliveryAttempts
    BY DEF D!OutcomeHonest
  <2>1. posts[d] \in Nat
    BY DEF DeliveryInv, DeliveryTypeOK
  <2>2. CASE row'[d] = row[d]
    BY <2>2 DEF DeliveryInv, D!OutcomeHonest
  <2>3. CASE row'[d].attempts = 0 /\ row'[d].status \in {"NONE", "PENDING"}
    BY <2>1, <2>3
  <2>. QED
    BY <2>2, <2>3
<1>3. \A w \in Workers : HandlingHonest(work[w])'
  BY DEF DeliveryInv, HandlingHonest
<1>. QED
  BY <1>1, <1>2, <1>3 DEF DeliveryInv

LEMMA DeliveryDispatchStep ==
  ASSUME DeliveryInv,
         \/ \E s \in Slots : D!RemoveEndpoint(s)
         \/ \E e \in Events : D!BeginDispatch(e) \/ D!CreateDelivery(e) \/ D!EnqueueDelivery(e)
  PROVE  DeliveryInv'
<1>t. DeliveryTypeOK
  BY DEF DeliveryInv
<1>1. ASSUME NEW s \in Slots, D!RemoveEndpoint(s) PROVE DeliveryInv'
  <2>1. D!Absent \in DeliveryRows /\ D!Absent.attempts = 0 /\ D!Absent.status = "NONE"
    BY DEF D!Absent, DeliveryRows
  <2>2. row' \in [D!Deliveries -> DeliveryRows]
    BY <1>t, <1>1, <2>1 DEF D!RemoveEndpoint, DeliveryTypeOK
  <2>3. \A d \in D!Deliveries : row'[d] = row[d] \/ row'[d] = D!Absent
    BY <1>1 DEF D!RemoveEndpoint
  <2>. QED
    BY <1>t, <1>1, <2>1, <2>2, <2>3, RowsComeAndGo DEF D!RemoveEndpoint, DeliveryTypeOK
<1>2. ASSUME NEW e \in Events, D!BeginDispatch(e) PROVE DeliveryInv'
  BY <1>t, <1>2, RowsComeAndGo DEF D!BeginDispatch, DeliveryTypeOK
<1>3. ASSUME NEW e \in Events, D!CreateDelivery(e) PROVE DeliveryInv'
  <2>1. PICK s \in dispatch[e].to :
          IF endpoint[s] = "deleted"
          THEN dispatch' = [dispatch EXCEPT ![e].to = {}] /\ UNCHANGED row
          ELSE /\ row' = [row EXCEPT ![<<e, s>>] = [D!Absent EXCEPT !.status = "PENDING"]]
               /\ dispatch' = [dispatch EXCEPT ![e] = [at |-> s, to |-> @.to \ {s}]]
    BY <1>3 DEF D!CreateDelivery
  <2>2. s \in Slots
    BY <1>t DEF DeliveryTypeOK
  <2>3. dispatch' \in [Events -> [at : {"idle", "row"} \cup Slots, to : SUBSET Slots]]
    BY <1>t, <2>1, <2>2 DEF DeliveryTypeOK
  <2>. DEFINE new == [D!Absent EXCEPT !.status = "PENDING"]
  <2>4. new \in DeliveryRows /\ new.attempts = 0 /\ new.status = "PENDING"
    BY DEF D!Absent, DeliveryRows
  <2>5. row' = row \/ row' = [row EXCEPT ![<<e, s>>] = new]
    BY <2>1
  <2>. HIDE DEF new
  <2>6. row' \in [D!Deliveries -> DeliveryRows]
    BY <1>t, <2>4, <2>5 DEF DeliveryTypeOK
  <2>7. \A d \in D!Deliveries : row'[d] = row[d] \/ row'[d] = new
    BY <1>t, <2>5 DEF DeliveryTypeOK
  <2>. QED
    BY <1>t, <1>3, <2>3, <2>4, <2>6, <2>7, RowsComeAndGo DEF D!CreateDelivery, DeliveryTypeOK
<1>4. ASSUME NEW e \in Events, D!EnqueueDelivery(e) PROVE DeliveryInv'
  <2>1. jobs' \in [D!Deliveries -> [due : Nat, delayed : Nat]]
    <3>1. <<e, dispatch[e].at>> \in D!Deliveries
      BY <1>4 DEF D!EnqueueDelivery, D!Deliveries
    <3>. QED
      BY <1>t, <1>4, <3>1, OneMoreJob DEF D!EnqueueDelivery
  <2>2. dispatch' \in [Events -> [at : {"idle", "row"} \cup Slots, to : SUBSET Slots]]
    <3>1. dispatch \in [Events -> [at : {"idle", "row"} \cup Slots, to : SUBSET Slots]]
      BY <1>t DEF DeliveryTypeOK
    <3>2. dispatch' = [dispatch EXCEPT ![e].at = "row"]
      BY <1>4 DEF D!EnqueueDelivery
    <3>. QED
      BY <3>1, <3>2
  <2>. QED
    BY <1>t, <1>4, <2>1, <2>2, RowsComeAndGo DEF D!EnqueueDelivery, DeliveryTypeOK
<1>. QED
  BY <1>1, <1>2, <1>3, <1>4

LEMMA DeliveryHandlerStep ==
  ASSUME DeliveryAttempts \in Nat, DeliveryInv, NEW w \in Workers,
         \/ \E d \in D!Deliveries : D!ReadDelivery(w, d)
         \/ \E ok \in BOOLEAN : D!Post(w, ok)
         \/ D!WriteOutcome(w) \/ D!EnqueueRetry(w) \/ D!Throw(w) \/ D!Crash(w)
  PROVE  DeliveryInv'
<1>t. DeliveryTypeOK /\ D!OutcomeHonest /\ HandlingHonest(work[w]) /\ work[w] \in Handlings
  BY DEF DeliveryInv, DeliveryTypeOK
<1>1. ASSUME NEW d \in D!Deliveries, D!ReadDelivery(w, d) PROVE DeliveryInv'
  <2>1. jobs' \in [D!Deliveries -> [due : Nat, delayed : Nat]]
    <3>1. jobs[d].due - 1 \in Nat
      BY <1>t, <1>1 DEF D!ReadDelivery, DeliveryTypeOK
    <3>. QED
      BY <1>t, <1>1, <3>1 DEF D!ReadDelivery, DeliveryTypeOK
  <2>. DEFINE x == [d |-> d, attempts |-> row[d].attempts + 1,
                    at |-> IF endpoint[d[2]] = "active" THEN "post" ELSE "disabled"]
  <2>2. row[d].attempts \in Nat /\ posts[d] \in Nat /\ row[d].attempts <= posts[d]
    BY <1>t DEF DeliveryTypeOK, DeliveryRows, D!OutcomeHonest
  <2>3. x \in Handlings /\ HandlingHonest(x)
    BY <2>2 DEF Handlings, HandlingHonest
  <2>4. work' = work \/ work' = [work EXCEPT ![w] = x]
    BY <1>1 DEF D!ReadDelivery
  <2>. HIDE DEF x
  <2>5. UNCHANGED <<dispatch, row, posts, acked>>
    BY <1>1 DEF D!ReadDelivery
  <2>6. work' \in [Workers -> Handlings] /\ \A v \in Workers : HandlingHonest(work[v])'
    <3>1. CASE work' = work
      BY <1>t, <2>5, <3>1 DEF DeliveryInv, DeliveryTypeOK, HandlingHonest
    <3>2. CASE work' = [work EXCEPT ![w] = x]
      BY <2>3, <2>5, <3>2, OneHandler
    <3>. QED
      BY <2>4, <3>1, <3>2
  <2>. QED
    BY <1>t, <2>1, <2>5, <2>6 DEF DeliveryInv, DeliveryTypeOK, D!OutcomeHonest
<1>2. ASSUME NEW ok \in BOOLEAN, D!Post(w, ok) PROVE DeliveryInv'
  <2>. DEFINE d == work[w].d
  <2>1. work[w].at = "post" /\ d \in D!Deliveries /\ work[w].attempts <= posts[d] + 1
    BY <1>t, <1>2 DEF D!Post, HandlingHonest
  <2>2. /\ posts' = [posts EXCEPT ![d] = @ + 1]
        /\ acked' = IF ok THEN acked \cup {d} ELSE acked
        /\ work' = [work EXCEPT ![w].at = IF ok THEN "ok" ELSE "failed"]
        /\ UNCHANGED <<dispatch, row, jobs>>
    BY <1>2 DEF D!Post
  <2>3. DeliveryTypeOK'
    <3>1. work' \in [Workers -> Handlings]
      BY <1>t, <2>2 DEF DeliveryTypeOK, Handlings
    <3>2. posts' \in [D!Deliveries -> Nat] /\ acked' \in SUBSET D!Deliveries
      BY <1>t, <2>1, <2>2 DEF DeliveryTypeOK
    <3>. QED
      BY <1>t, <2>2, <3>1, <3>2 DEF DeliveryTypeOK
  <2>4. \A c \in D!Deliveries : /\ posts[c] \in Nat /\ posts'[c] \in Nat /\ posts[c] <= posts'[c]
                                /\ c = d => posts'[c] = posts[c] + 1
                                /\ c \in acked => c \in acked'
    BY <1>t, <2>1, <2>2 DEF DeliveryTypeOK
  <2>5. D!OutcomeHonest'
    <3>. SUFFICES ASSUME NEW c \in D!Deliveries
         PROVE  /\ row[c].attempts <= posts'[c]
                /\ row[c].status = "DELIVERED" => c \in acked'
                /\ row[c].status = "DEAD" => posts'[c] >= DeliveryAttempts
      BY <2>2 DEF D!OutcomeHonest
    <3>1. row[c].attempts \in Nat
      BY <1>t DEF DeliveryTypeOK, DeliveryRows
    <3>. QED
      BY <1>t, <2>4, <3>1 DEF D!OutcomeHonest
  <2>6. ASSUME NEW v \in Workers PROVE HandlingHonest(work[v])'
    <3>1. CASE v = w
      <4>1. /\ work'[v].d = d /\ work'[v].attempts = work[w].attempts
            /\ work'[v].at = IF ok THEN "ok" ELSE "failed"
        BY <1>t, <2>2, <3>1 DEF DeliveryTypeOK, Handlings
      <4>2. ok => d \in acked'
        BY <2>2
      <4>3. work[w].attempts <= posts'[d]
        BY <2>1, <2>4
      <4>. QED
        BY <2>1, <4>1, <4>2, <4>3 DEF HandlingHonest
    <3>2. CASE v # w
      <4>1. work'[v] = work[v] /\ work[v] \in Handlings /\ HandlingHonest(work[v])
        BY <1>t, <2>2, <3>2 DEF DeliveryInv, DeliveryTypeOK
      <4>2. work[v].attempts \in Nat
        BY <4>1 DEF Handlings
      <4>3. ASSUME work[v].at # "idle" PROVE work[v].d \in D!Deliveries
        BY <4>1, <4>3 DEF HandlingHonest
      <4>. QED
        BY <2>4, <4>1, <4>2, <4>3 DEF HandlingHonest
    <3>. QED
      BY <3>1, <3>2
  <2>. QED
    BY <2>3, <2>5, <2>6 DEF DeliveryInv
<1>3. ASSUME D!WriteOutcome(w) PROVE DeliveryInv'
  <2>. DEFINE x == work[w]
              d == work[w].d
  <2>1. /\ x.at \in {"disabled", "ok", "failed"} /\ d \in D!Deliveries
        /\ UNCHANGED <<dispatch, jobs, posts, acked>>
    BY <1>t, <1>3 DEF D!WriteOutcome, HandlingHonest
  <2>2. /\ posts[d] \in Nat /\ x.attempts \in Nat
        /\ row[d] \in DeliveryRows /\ row[d].attempts <= posts[d]
        /\ x.at \in {"ok", "failed"} => x.attempts <= posts[d]
        /\ x.at = "ok" => d \in acked
    BY <1>t, <2>1 DEF DeliveryTypeOK, Handlings, HandlingHonest, D!OutcomeHonest
  <2>3. \/ work' = [work EXCEPT ![w] = D!Idle]
        \/ work' = [work EXCEPT ![w].at = "retry"] /\ x.at = "failed"
    BY <1>3 DEF D!WriteOutcome, D!Finish
  <2>4. work' \in [Workers -> Handlings] /\ \A v \in Workers : HandlingHonest(work[v])'
    <3>1. CASE work' = [work EXCEPT ![w] = D!Idle]
      BY <2>1, <3>1, AtRest, OneHandler
    <3>2. CASE work' = [work EXCEPT ![w].at = "retry"] /\ x.at = "failed"
      <4>. DEFINE y == [work[w] EXCEPT !.at = "retry"]
      <4>1. work' = [work EXCEPT ![w] = y]
        BY <3>2
      <4>2. y \in Handlings /\ y.d = d /\ y.attempts = x.attempts /\ y.at = "retry"
        BY <1>t DEF Handlings
      <4>. HIDE DEF y
      <4>3. HandlingHonest(y)
        BY <2>1, <2>2, <3>2, <4>2 DEF HandlingHonest
      <4>. QED
        BY <2>1, <4>1, <4>2, <4>3, OneHandler
    <3>. QED
      BY <2>3, <3>1, <3>2
  <2>. DEFINE o == D!Outcome(w)
  <2>5. /\ o \in DeliveryRows /\ o.attempts <= posts[d]
        /\ o.status = "DELIVERED" => d \in acked
        /\ o.status = "DEAD" => posts[d] >= DeliveryAttempts
    <3>1. CASE x.at = "disabled"
      <4>1. o = [row[d] EXCEPT !.status = "FAILED"]
        BY <3>1 DEF D!Outcome
      <4>. QED
        BY <2>2, <4>1 DEF DeliveryRows
    <3>2. CASE x.at = "ok"
      <4>1. o = [row[d] EXCEPT !.status = "DELIVERED", !.attempts = x.attempts]
        BY <3>2 DEF D!Outcome
      <4>. QED
        BY <2>2, <3>2, <4>1 DEF DeliveryRows
    <3>3. CASE x.at = "failed"
      <4>1. o = [status |-> IF D!Exhausted(x.attempts) THEN "DEAD" ELSE "PENDING",
                 attempts |-> x.attempts, timed |-> row[d].timed \/ ~D!Exhausted(x.attempts)]
        BY <3>3 DEF D!Outcome
      <4>2. D!Exhausted(x.attempts) => posts[d] >= DeliveryAttempts
        BY <2>2, <3>3 DEF D!Exhausted
      <4>3. (row[d].timed \/ ~D!Exhausted(x.attempts)) \in BOOLEAN
        OBVIOUS
      <4>4. o \in DeliveryRows
        BY <2>2, <4>1, <4>3 DEF DeliveryRows
      <4>5. /\ o.attempts = x.attempts /\ o.status # "DELIVERED"
            /\ o.status = "DEAD" => D!Exhausted(x.attempts)
        BY <4>1
      <4>. QED
        BY <2>2, <3>3, <4>2, <4>4, <4>5
    <3>. QED
      BY <2>1, <3>1, <3>2, <3>3
  <2>. HIDE DEF o
  <2>6. row' = row \/ row' = [row EXCEPT ![d] = o]
    BY <1>3 DEF D!WriteOutcome, o
  <2>7. /\ row' \in [D!Deliveries -> DeliveryRows]
        /\ \A c \in D!Deliveries : row'[c] = row[c] \/ (c = d /\ row'[c] = o)
    BY <1>t, <2>5, <2>6 DEF DeliveryTypeOK
  <2>8. D!OutcomeHonest'
    <3>. SUFFICES ASSUME NEW c \in D!Deliveries
         PROVE  /\ row'[c].attempts <= posts[c]
                /\ row'[c].status = "DELIVERED" => c \in acked
                /\ row'[c].status = "DEAD" => posts[c] >= DeliveryAttempts
      BY <2>1 DEF D!OutcomeHonest
    <3>. QED
      BY <1>t, <2>5, <2>7 DEF D!OutcomeHonest
  <2>. QED
    BY <1>t, <2>1, <2>4, <2>7, <2>8 DEF DeliveryInv, DeliveryTypeOK
<1>4. ASSUME D!EnqueueRetry(w) \/ D!Throw(w) PROVE DeliveryInv'
  <2>1. work' = [work EXCEPT ![w] = D!Idle] /\ UNCHANGED <<dispatch, row, posts, acked>>
    BY <1>4 DEF D!EnqueueRetry, D!Throw, D!Finish
  <2>2. jobs' \in [D!Deliveries -> [due : Nat, delayed : Nat]]
    <3>1. work[w].d \in D!Deliveries
      BY <1>t, <1>4 DEF D!EnqueueRetry, D!Throw, HandlingHonest
    <3>. QED
      <4>1. \/ jobs' = [jobs EXCEPT ![work[w].d].delayed = @ + 1]
            \/ jobs' = [jobs EXCEPT ![work[w].d].due = @ + 1]
        BY <1>4 DEF D!EnqueueRetry, D!Throw
      <4>2. /\ [jobs EXCEPT ![work[w].d].due = @ + 1] \in [D!Deliveries -> [due : Nat, delayed : Nat]]
            /\ [jobs EXCEPT ![work[w].d].delayed = @ + 1]
                 \in [D!Deliveries -> [due : Nat, delayed : Nat]]
        BY <1>t, <3>1, OneMoreJob
      <4>. QED
        BY <4>1, <4>2
  <2>3. work' \in [Workers -> Handlings] /\ \A v \in Workers : HandlingHonest(work[v])'
    BY <2>1, AtRest, OneHandler
  <2>. QED
    BY <1>t, <2>1, <2>2, <2>3 DEF DeliveryInv, DeliveryTypeOK, D!OutcomeHonest
<1>5. ASSUME D!Crash(w) PROVE DeliveryInv'
  <2>1. work' = [work EXCEPT ![w] = D!Idle] /\ UNCHANGED <<dispatch, row, jobs, posts, acked>>
    BY <1>5 DEF D!Crash, D!Finish
  <2>2. work' \in [Workers -> Handlings] /\ \A v \in Workers : HandlingHonest(work[v])'
    BY <2>1, AtRest, OneHandler
  <2>. QED
    BY <1>t, <2>1, <2>2 DEF DeliveryInv, DeliveryTypeOK, D!OutcomeHonest
<1>. QED
  BY <1>1, <1>2, <1>3, <1>4, <1>5

LEMMA DeliveryNext ==
  ASSUME DeliveryAttempts \in Nat, DeliveryInv, [D!Next]_D!dvars
  PROVE  DeliveryInv'
<1>t. DeliveryTypeOK
  BY DEF DeliveryInv
<1>1. ASSUME UNCHANGED <<dispatch, row, work, posts, acked>>,
             jobs' \in [D!Deliveries -> [due : Nat, delayed : Nat]]
      PROVE  DeliveryInv'
  BY <1>t, <1>1, RowsComeAndGo DEF DeliveryTypeOK
<1>2. ASSUME NEW c \in Clients, D!CountEndpoints(c) \/ D!CreateEndpoint(c) PROVE DeliveryInv'
  BY <1>t, <1>1, <1>2 DEF D!CountEndpoints, D!CreateEndpoint, DeliveryTypeOK
<1>3. ASSUME NEW s \in Slots, D!DisableEndpoint(s) PROVE DeliveryInv'
  BY <1>t, <1>1, <1>3 DEF D!DisableEndpoint, DeliveryTypeOK
<1>4. ASSUME NEW d \in D!Deliveries, D!BecomeDue(d) PROVE DeliveryInv'
  <2>1. jobs' \in [D!Deliveries -> [due : Nat, delayed : Nat]]
    BY <1>t, <1>4 DEF D!BecomeDue, DeliveryTypeOK
  <2>. QED
    BY <1>1, <1>4, <2>1 DEF D!BecomeDue
<1>5. ASSUME D!Sweep PROVE DeliveryInv'
  <2>1. jobs' \in [D!Deliveries -> [due : Nat, delayed : Nat]]
    <3>1. \A d \in D!Deliveries : [jobs[d] EXCEPT !.due = @ + 1] \in [due : Nat, delayed : Nat]
      BY <1>t DEF DeliveryTypeOK
    <3>. QED
      BY <1>t, <1>5, <3>1 DEF D!Sweep, DeliveryTypeOK
  <2>. QED
    BY <1>1, <1>5, <2>1 DEF D!Sweep
<1>6. ASSUME UNCHANGED D!dvars PROVE DeliveryInv'
  BY <1>t, <1>1, <1>6 DEF D!dvars, DeliveryTypeOK
<1>. QED
  BY <1>2, <1>3, <1>4, <1>5, <1>6, DeliveryDispatchStep, DeliveryHandlerStep DEF D!Next

(***************************************************************************)
(* deliverJob: a delivery row never claims an answer that did not come or  *)
(* attempts that were not made, with any number of handlers, overlapping   *)
(* jobs, failing statements, crashes and endpoints deleted on the way.     *)
(***************************************************************************)
THEOREM RowsTellTheTruth ==
  ASSUME DeliveryAttempts \in Nat
  PROVE  /\ D!Spec  => []OutcomeHonest
         /\ SumSpec => []OutcomeHonest
<1>1. D!Init => DeliveryInv
  BY DeliveryInit
<1>2. DeliveryInv /\ [D!Next]_D!dvars => DeliveryInv'
  BY DeliveryNext
<1>3. DeliveryInv => OutcomeHonest
  BY DEF DeliveryInv, OutcomeHonest
<1>. QED
  BY <1>1, <1>2, <1>3, SumOfDeliveries, PTL DEF D!Spec, SumSpec

-----------------------------------------------------------------------------
(* Bills.                                                                  *)

\* Plans last at least a day, and no administrator is called "system".
BillingConstants ==
  /\ Period \in [Plans -> Nat \ {0}]
  /\ "system" \notin Admins

\* One instance runs the job.
SingleJob == \A c, d \in Cron : c = d

\* Accounts that were assigned a plan, and rows of such accounts.
Subscribed == {a \in Accounts : plan[a].plan \in Plans}
PlanRows == [account : Subscribed, plan : Plans, next : Nat]

BillingTypeOK ==
  /\ day \in Nat /\ plans \in SUBSET Plans
  /\ usedB \in [assigns : Nat, errors : Nat, crashes : Nat]
  /\ plan \in [Accounts -> [plan : Plans \cup {B!Nobody}, next : Nat]]
  /\ \A a \in Accounts : plan[a].next > 0 => a \in Subscribed
  /\ run \in [Cron -> [at : {"idle", "bill", "date"}, rows : SUBSET PlanRows,
                       row : PlanRows \cup {B!NoRow}]]
  /\ ran \in [Cron -> Nat]
  /\ admin \in [Admins -> [at : {"idle", "bill"}, account : Accounts \cup {B!Nobody}, due : Nat]]
  /\ \A b \in bills : b.due \in Nat

\* The dates of account a that the job has billed all lie before d.
BilledBefore(a, d) == \A b \in bills : b.by = "system" /\ b.account = a => b.due < d

\* Rows of the job's read: one per account, due, with a date not yet billed;
\* a row whose bill is written is the last one billed of its account.
RowsLeft(c) ==
  /\ run[c].at # "idle" => ran[c] = day
  /\ \A r \in run[c].rows : r.next <= day /\ BilledBefore(r.account, r.next)
  /\ \A r, q \in run[c].rows : r.account = q.account => r = q
  /\ run[c].at = "date" =>
       /\ run[c].row \in PlanRows
       /\ BilledBefore(run[c].row.account, run[c].row.next + 1)
       /\ \A r \in run[c].rows : r.account # run[c].row.account

BeingBilled(a) == \E c \in Cron : run[c].at = "date" /\ run[c].row.account = a

\* What the job has billed of an account is past and before its next date,
\* unless that date is about to be written.
DatesAhead ==
  \A b \in bills : b.by = "system" =>
    /\ b.account \in Accounts /\ b.due <= day
    /\ b.due < plan[b.account].next \/ BeingBilled(b.account)

BillingInv ==
  /\ BillingTypeOK /\ DatesAhead /\ B!BilledOnce
  /\ \A c \in Cron : RowsLeft(c)

LEMMA BillingInit ==
  ASSUME B!Init
  PROVE  BillingInv
<1>1. B!Resting = [at |-> "idle", rows |-> {}, row |-> B!NoRow]
  BY DEF B!Resting
<1>2. BillingTypeOK
  BY <1>1 DEF B!Init, BillingTypeOK
<1>3. DatesAhead /\ B!BilledOnce
  BY DEF B!Init, DatesAhead, B!BilledOnce
<1>4. \A c \in Cron : RowsLeft(c)
  BY <1>1 DEF B!Init, RowsLeft
<1>. QED
  BY <1>2, <1>3, <1>4 DEF BillingInv

\* Administrators add plans and bills of their own, and assign dates ahead.
LEMMA BillingAdminStep ==
  ASSUME BillingConstants, BillingInv,
         \/ \E p \in Plans : B!CreatePlan(p)
         \/ \E m \in Admins : B!FirstBill(m) \/ \E a \in Accounts, p \in Plans : B!AssignPlan(m, a, p)
  PROVE  BillingInv'
<1>t. BillingTypeOK /\ DatesAhead /\ B!BilledOnce
  BY DEF BillingInv
<1>1. ASSUME NEW p \in Plans, B!CreatePlan(p) PROVE BillingInv'
  <2>1. plans' = plans \cup {p} /\ UNCHANGED <<day, plan, bills, run, ran, admin, usedB>>
    BY <1>1 DEF B!CreatePlan
  <2>2. BillingTypeOK'
    BY <1>t, <2>1 DEF BillingTypeOK, Subscribed, PlanRows
  <2>3. DatesAhead' /\ B!BilledOnce'
    BY <1>t, <2>1 DEF DatesAhead, BeingBilled, B!BilledOnce
  <2>4. \A c \in Cron : RowsLeft(c)'
    BY <2>1 DEF BillingInv, RowsLeft, BilledBefore, PlanRows, Subscribed
  <2>. QED
    BY <2>2, <2>3, <2>4 DEF BillingInv
<1>2. ASSUME NEW m \in Admins, B!FirstBill(m) PROVE BillingInv'
  <2>. DEFINE b == [account |-> admin[m].account, due |-> admin[m].due, by |-> m,
                    nr |-> B!Cardinality(bills)]
  <2>1. /\ bills' = bills \cup {b}
        /\ admin' = [admin EXCEPT ![m].at = "idle"]
        /\ UNCHANGED <<day, plans, plan, run, ran, usedB>>
    BY <1>2 DEF B!FirstBill, B!Issue
  <2>0. b.by = m /\ b.due = admin[m].due
    OBVIOUS
  <2>. HIDE DEF b
  <2>2. b.by # "system" /\ b.due \in Nat
    BY <1>t, <2>0 DEF BillingConstants, BillingTypeOK
  <2>3. BillingTypeOK'
    BY <1>t, <2>1, <2>2 DEF BillingTypeOK, Subscribed, PlanRows
  <2>4. DatesAhead' /\ B!BilledOnce'
    BY <1>t, <2>1, <2>2 DEF DatesAhead, BeingBilled, B!BilledOnce
  <2>5. \A c \in Cron : RowsLeft(c)'
    BY <2>1, <2>2 DEF BillingInv, RowsLeft, BilledBefore, PlanRows, Subscribed
  <2>. QED
    BY <2>3, <2>4, <2>5 DEF BillingInv
<1>3. ASSUME NEW m \in Admins, NEW a \in Accounts, NEW p \in Plans, B!AssignPlan(m, a, p)
      PROVE  BillingInv'
  <2>. DEFINE d == day + Period[p]
  <2>1. /\ plan' = [plan EXCEPT ![a] = [plan |-> p, next |-> d]]
        /\ admin' = [admin EXCEPT ![m] = [at |-> "bill", account |-> a, due |-> d]]
        /\ usedB' = [usedB EXCEPT !.assigns = @ + 1]
        /\ UNCHANGED <<day, plans, bills, run, ran>>
    BY <1>3 DEF B!AssignPlan
  <2>2. d \in Nat /\ day < d /\ day \in Nat
    BY <1>t DEF BillingConstants, BillingTypeOK
  <2>. HIDE DEF d
  <2>3. plan' \in [Accounts -> [plan : Plans \cup {B!Nobody}, next : Nat]]
    BY <1>t, <2>1, <2>2 DEF BillingTypeOK
  <2>4. /\ \A e \in Accounts \ {a} : plan'[e] = plan[e]
        /\ plan'[a].plan = p /\ plan'[a].next = d
    BY <1>t, <2>1 DEF BillingTypeOK
  <2>5. a \in Subscribed' /\ Subscribed \subseteq Subscribed'
    BY <2>4 DEF Subscribed
  <2>6. PlanRows \subseteq PlanRows'
    BY <2>5 DEF PlanRows
  <2>7. BillingTypeOK'
    <3>1. \A e \in Accounts : plan'[e].next > 0 => e \in Subscribed'
      BY <1>t, <2>4, <2>5 DEF BillingTypeOK
    <3>2. run' \in [Cron -> [at : {"idle", "bill", "date"}, rows : SUBSET PlanRows',
                             row : PlanRows' \cup {B!NoRow}]]
      BY <1>t, <2>1, <2>6 DEF BillingTypeOK
    <3>3. admin' \in [Admins -> [at : {"idle", "bill"}, account : Accounts \cup {B!Nobody}, due : Nat]]
      BY <1>t, <2>1, <2>2 DEF BillingTypeOK
    <3>4. usedB' \in [assigns : Nat, errors : Nat, crashes : Nat]
      BY <1>t, <2>1 DEF BillingTypeOK
    <3>5. /\ day' \in Nat /\ plans' \in SUBSET Plans /\ ran' \in [Cron -> Nat]
          /\ \A b \in bills' : b.due \in Nat
      BY <1>t, <2>1 DEF BillingTypeOK
    <3>. QED
      BY <2>3, <3>1, <3>2, <3>3, <3>4, <3>5 DEF BillingTypeOK
  <2>8. DatesAhead'
    <3>. SUFFICES ASSUME NEW b \in bills, b.by = "system"
         PROVE  /\ b.account \in Accounts /\ b.due <= day
                /\ b.due < plan'[b.account].next \/ BeingBilled(b.account)'
      BY <2>1 DEF DatesAhead
    <3>1. /\ b.account \in Accounts /\ b.due <= day /\ b.due \in Nat
          /\ b.due < plan[b.account].next \/ BeingBilled(b.account)
      BY <1>t DEF DatesAhead, BillingTypeOK
    <3>2. BeingBilled(b.account)' <=> BeingBilled(b.account)
      BY <2>1 DEF BeingBilled
    <3>. QED
      BY <2>2, <2>4, <3>1, <3>2
  <2>9. B!BilledOnce'
    BY <1>t, <2>1 DEF B!BilledOnce
  <2>10. \A c \in Cron : RowsLeft(c)'
    BY <2>1, <2>6 DEF BillingInv, RowsLeft, BilledBefore
  <2>. QED
    BY <2>7, <2>8, <2>9, <2>10 DEF BillingInv
<1>. QED
  BY <1>1, <1>2, <1>3

\* The job reads the plans that are due: their dates are not billed yet.
LEMMA BillingFireStep ==
  ASSUME BillingConstants, SingleJob, BillingInv, NEW c \in Cron, B!Fire(c)
  PROVE  BillingInv'
<1>t. BillingTypeOK /\ DatesAhead /\ B!BilledOnce /\ RowsLeft(c)
  BY DEF BillingInv
<1>1. PICK rows \in SUBSET B!DueRows :
        /\ ran[c] < day /\ ran' = [ran EXCEPT ![c] = day]
        /\ run' = [run EXCEPT ![c] = [at |-> "bill", rows |-> rows, row |-> B!NoRow]]
        /\ UNCHANGED <<day, plans, plan, bills, admin, usedB>>
  BY DEF B!Fire
<1>2. run[c].at = "idle"
  BY <1>t, <1>1 DEF RowsLeft, BillingTypeOK
<1>3. \A a \in Accounts : ~BeingBilled(a)
  BY <1>2 DEF BeingBilled, SingleJob
<1>4. ASSUME NEW r \in rows
      PROVE  /\ r \in PlanRows /\ r.next <= day /\ BilledBefore(r.account, r.next)
             /\ r = B!Row(r.account)
  <2>1. PICK a \in Accounts : plan[a].next > 0 /\ plan[a].next <= day /\ r = B!Row(a)
    BY DEF B!DueRows
  <2>2. r = [account |-> a, plan |-> plan[a].plan, next |-> plan[a].next]
    BY <2>1 DEF B!Row
  <2>r. r.account = a /\ r.next = plan[a].next
    BY <2>2
  <2>3. a \in Subscribed /\ plan[a].plan \in Plans /\ plan[a].next \in Nat
    BY <1>t, <2>1 DEF BillingTypeOK, Subscribed
  <2>4. r \in PlanRows
    BY <2>2, <2>3 DEF PlanRows
  <2>5. BilledBefore(a, plan[a].next)
    BY <1>t, <1>3 DEF BilledBefore, DatesAhead
  <2>. QED
    BY <2>1, <2>r, <2>4, <2>5
<1>5. /\ run'[c] = [at |-> "bill", rows |-> rows, row |-> B!NoRow] /\ ran'[c] = day
      /\ \A d \in Cron : d = c
  BY <1>t, <1>1 DEF BillingTypeOK, SingleJob
<1>6. BillingTypeOK'
  <2>1. run' \in [Cron -> [at : {"idle", "bill", "date"}, rows : SUBSET PlanRows,
                           row : PlanRows \cup {B!NoRow}]]
    BY <1>t, <1>1, <1>4 DEF BillingTypeOK
  <2>2. ran' \in [Cron -> Nat]
    BY <1>t, <1>1 DEF BillingTypeOK
  <2>3. PlanRows' = PlanRows /\ Subscribed' = Subscribed
    BY <1>1 DEF PlanRows, Subscribed
  <2>. QED
    BY <1>t, <1>1, <2>1, <2>2, <2>3 DEF BillingTypeOK
<1>7. DatesAhead' /\ B!BilledOnce'
  BY <1>t, <1>1, <1>3 DEF DatesAhead, B!BilledOnce
<1>8. RowsLeft(c)'
  <2>1. \A r \in rows : BilledBefore(r.account, r.next)'
    BY <1>1, <1>4 DEF BilledBefore
  <2>2. \A r, q \in rows : r.account = q.account => r = q
    BY <1>4
  <2>. QED
    BY <1>1, <1>4, <1>5, <2>1, <2>2 DEF RowsLeft
<1>. QED
  BY <1>5, <1>6, <1>7, <1>8 DEF BillingInv

\* A bill: its date lies behind all dates the account was billed for.
LEMMA BillingBillStep ==
  ASSUME BillingConstants, SingleJob, BillingInv, NEW c \in Cron, B!CreateBill(c)
  PROVE  BillingInv'
<1>t. BillingTypeOK /\ DatesAhead /\ B!BilledOnce /\ RowsLeft(c)
  BY DEF BillingInv
<1>1. run[c].at = "bill" /\ UNCHANGED <<day, plans, plan, ran, admin, usedB>>
  BY DEF B!CreateBill
<1>2. \A d \in Cron : d = c
  BY DEF SingleJob
<1>3. \A a \in Accounts : ~BeingBilled(a)
  BY <1>1, <1>2 DEF BeingBilled
<1>4. PlanRows' = PlanRows /\ Subscribed' = Subscribed
  BY <1>1 DEF PlanRows, Subscribed
<1>5. CASE run[c].rows = {}
  <2>1. run' = [run EXCEPT ![c] = B!Resting] /\ bills' = bills
    BY <1>5 DEF B!CreateBill
  <2>2. B!Resting = [at |-> "idle", rows |-> {}, row |-> B!NoRow]
    BY DEF B!Resting
  <2>3. run'[c] = B!Resting
    BY <1>t, <2>1 DEF BillingTypeOK
  <2>4. run' \in [Cron -> [at : {"idle", "bill", "date"}, rows : SUBSET PlanRows,
                           row : PlanRows \cup {B!NoRow}]]
    BY <1>t, <2>1, <2>2 DEF BillingTypeOK
  <2>5. BillingTypeOK'
    BY <1>t, <1>1, <1>4, <2>1, <2>4 DEF BillingTypeOK
  <2>6. DatesAhead' /\ B!BilledOnce'
    BY <1>t, <1>1, <1>3, <2>1 DEF DatesAhead, B!BilledOnce
  <2>7. RowsLeft(c)'
    BY <2>2, <2>3 DEF RowsLeft
  <2>. QED
    BY <1>2, <2>5, <2>6, <2>7 DEF BillingInv
<1>6. CASE run[c].rows # {}
  <2>. DEFINE b(r) == [account |-> r.account, due |-> r.next, by |-> "system",
                       nr |-> B!Cardinality(bills)]
              left(r) == [at |-> "date", rows |-> run[c].rows \ {r}, row |-> r]
  <2>1. PICK r \in run[c].rows : bills' = bills \cup {b(r)} /\ run' = [run EXCEPT ![c] = left(r)]
    BY <1>6 DEF B!CreateBill, B!Issue
  <2>2. /\ r \in PlanRows /\ r.next <= day /\ BilledBefore(r.account, r.next)
        /\ r.account \in Accounts /\ r.next \in Nat
    BY <1>t DEF RowsLeft, BillingTypeOK, PlanRows, Subscribed
  <2>3. /\ b(r).account = r.account /\ b(r).due = r.next /\ b(r).by = "system"
        /\ left(r) = [at |-> "date", rows |-> run[c].rows \ {r}, row |-> r]
    OBVIOUS
  <2>. HIDE DEF b, left
  <2>4. run'[c] = left(r)
    BY <1>t, <2>1 DEF BillingTypeOK
  <2>5. BillingTypeOK'
    <3>1. run' \in [Cron -> [at : {"idle", "bill", "date"}, rows : SUBSET PlanRows,
                             row : PlanRows \cup {B!NoRow}]]
      BY <1>t, <2>1, <2>2, <2>3 DEF BillingTypeOK
    <3>2. \A x \in bills' : x.due \in Nat
      BY <1>t, <2>1, <2>2, <2>3 DEF BillingTypeOK
    <3>. QED
      BY <1>t, <1>1, <1>4, <3>1, <3>2 DEF BillingTypeOK
  <2>6. B!BilledOnce'
    <3>1. \A x \in bills : x.by = "system" /\ x.account = r.account => x.due < r.next /\ x.due \in Nat
      BY <1>t, <2>2 DEF BilledBefore, BillingTypeOK
    <3>2. \A x \in bills : x.by = "system" /\ x.account = r.account => x.due # r.next
      BY <2>2, <3>1
    <3>. QED
      BY <1>t, <2>1, <2>3, <3>2 DEF B!BilledOnce
  <2>7. DatesAhead'
    <3>1. BeingBilled(r.account)'
      BY <2>3, <2>4 DEF BeingBilled
    <3>2. \A x \in bills : x.by = "system" =>
            x.account \in Accounts /\ x.due <= day /\ x.due < plan[x.account].next
      BY <1>t, <1>3 DEF DatesAhead
    <3>. QED
      BY <1>1, <2>1, <2>2, <2>3, <3>1, <3>2 DEF DatesAhead
  <2>8. RowsLeft(c)'
    <3>1. \A q \in run[c].rows \ {r} : q.account # r.account
      BY <1>t DEF RowsLeft
    <3>2. \A q \in run[c].rows \ {r} : q.next <= day /\ BilledBefore(q.account, q.next)'
      BY <1>t, <2>1, <2>3, <3>1 DEF RowsLeft, BilledBefore
    <3>3. BilledBefore(r.account, r.next + 1)'
      <4>1. \A x \in bills : x.by = "system" /\ x.account = r.account => x.due < r.next + 1
        BY <1>t, <2>2 DEF BilledBefore, BillingTypeOK
      <4>. QED
        BY <2>1, <2>2, <2>3, <4>1 DEF BilledBefore
    <3>4. ran'[c] = day'
      BY <1>t, <1>1 DEF RowsLeft
    <3>5. \A q, p \in run[c].rows : q.account = p.account => q = p
      BY <1>t DEF RowsLeft
    <3>. QED
      BY <1>1, <1>4, <2>2, <2>3, <2>4, <3>1, <3>2, <3>3, <3>4, <3>5 DEF RowsLeft
  <2>. QED
    BY <1>2, <2>5, <2>6, <2>7, <2>8 DEF BillingInv
<1>. QED
  BY <1>5, <1>6

\* The next date follows the one that was billed, whatever was assigned meanwhile.
LEMMA BillingDateStep ==
  ASSUME BillingConstants, SingleJob, BillingInv, NEW c \in Cron, B!AdvanceDate(c)
  PROVE  BillingInv'
<1>t. BillingTypeOK /\ DatesAhead /\ B!BilledOnce /\ RowsLeft(c)
  BY DEF BillingInv
<1>. DEFINE r == run[c].row
            a == run[c].row.account
            next == r.next + Period[r.plan]
<1>1. /\ run[c].at = "date" /\ plan' = [plan EXCEPT ![a].next = next]
      /\ run' = [run EXCEPT ![c].at = "bill", ![c].row = B!NoRow]
      /\ UNCHANGED <<day, plans, bills, ran, admin, usedB>>
  BY DEF B!AdvanceDate, B!NextDate
<1>2. /\ r \in PlanRows /\ a \in Accounts /\ a \in Subscribed
      /\ r.next \in Nat /\ BilledBefore(a, r.next + 1)
  BY <1>t, <1>1 DEF RowsLeft, PlanRows, Subscribed
<1>3. next \in Nat /\ r.next + 1 <= next
  <2>1. Period[r.plan] \in Nat \ {0}
    BY <1>2 DEF PlanRows, BillingConstants
  <2>. QED
    BY <1>2, <2>1
<1>4. /\ run' \in [Cron -> [at : {"idle", "bill", "date"}, rows : SUBSET PlanRows,
                            row : PlanRows \cup {B!NoRow}]]
      /\ run'[c].at = "bill" /\ run'[c].rows = run[c].rows
  <2>. DEFINE Job == [at : {"idle", "bill", "date"}, rows : SUBSET PlanRows,
                      row : PlanRows \cup {B!NoRow}]
              x == [run[c] EXCEPT !.at = "bill", !.row = B!NoRow]
  <2>1. run[c] \in Job /\ run \in [Cron -> Job]
    BY <1>t DEF BillingTypeOK
  <2>2. x \in Job
    BY <2>1
  <2>3. x.at = "bill" /\ x.rows = run[c].rows
    BY <2>1
  <2>4. run' = [run EXCEPT ![c] = x]
    BY <2>1, <1>1
  <2>. HIDE DEF Job, x
  <2>5. run' \in [Cron -> Job] /\ run'[c] = x
    BY <2>1, <2>2, <2>4
  <2>. QED
    BY <2>3, <2>5 DEF Job
<1>5. \A d \in Cron : d = c
  BY DEF SingleJob
<1>. HIDE DEF next
<1>6. /\ plan' \in [Accounts -> [plan : Plans \cup {B!Nobody}, next : Nat]]
      /\ plan'[a].next = next
      /\ \A e \in Accounts : plan'[e].plan = plan[e].plan /\ (e # a => plan'[e].next = plan[e].next)
  BY <1>t, <1>1, <1>2, <1>3 DEF BillingTypeOK
<1>7. Subscribed' = Subscribed /\ PlanRows' = PlanRows
  BY <1>6 DEF Subscribed, PlanRows
<1>8. BillingTypeOK'
  <2>2. \A e \in Accounts : plan'[e].next > 0 => e \in Subscribed
    BY <1>t, <1>2, <1>6 DEF BillingTypeOK
  <2>. QED
    BY <1>t, <1>1, <1>4, <1>6, <1>7, <2>2 DEF BillingTypeOK
<1>9. DatesAhead'
  <2>. SUFFICES ASSUME NEW b \in bills, b.by = "system"
       PROVE  b.account \in Accounts /\ b.due <= day /\ b.due < plan'[b.account].next
    BY <1>1 DEF DatesAhead
  <2>1. b.account \in Accounts /\ b.due <= day /\ b.due \in Nat
    BY <1>t DEF DatesAhead, BillingTypeOK
  <2>2. CASE b.account = a
    BY <1>2, <1>3, <1>6, <2>1, <2>2 DEF BilledBefore
  <2>3. CASE b.account # a
    <3>1. ~BeingBilled(b.account)
      BY <1>5, <2>3 DEF BeingBilled
    <3>. QED
      BY <1>t, <1>6, <2>1, <2>3, <3>1 DEF DatesAhead
  <2>. QED
    BY <2>2, <2>3
<1>10. B!BilledOnce'
  BY <1>t, <1>1 DEF B!BilledOnce
<1>11. RowsLeft(c)'
  <2>2. \A q \in run[c].rows : BilledBefore(q.account, q.next)' <=> BilledBefore(q.account, q.next)
    BY <1>1 DEF BilledBefore
  <2>. QED
    BY <1>t, <1>1, <1>4, <2>2 DEF RowsLeft
<1>. QED
  BY <1>5, <1>8, <1>9, <1>10, <1>11 DEF BillingInv

LEMMA BillingNext ==
  ASSUME BillingConstants, SingleJob, BillingInv, [B!Next]_(B!bvars), usedB'.crashes = 0
  PROVE  BillingInv'
<1>t. BillingTypeOK /\ DatesAhead /\ B!BilledOnce /\ \A c \in Cron : RowsLeft(c)
  BY DEF BillingInv
<1>1. ASSUME NEW c \in Cron, B!RunFails(c) PROVE BillingInv'
  <2>1. /\ run[c].at = "bill" /\ run' = [run EXCEPT ![c] = B!Resting]
        /\ usedB' = [usedB EXCEPT !.errors = @ + 1]
        /\ UNCHANGED <<day, plans, plan, bills, ran, admin>>
    BY <1>1 DEF B!RunFails
  <2>2. B!Resting = [at |-> "idle", rows |-> {}, row |-> B!NoRow]
    BY DEF B!Resting
  <2>3. run'[c] = B!Resting /\ \A d \in Cron : d = c
    BY <1>t, <2>1 DEF BillingTypeOK, SingleJob
  <2>4. BillingTypeOK'
    <3>1. run' \in [Cron -> [at : {"idle", "bill", "date"}, rows : SUBSET PlanRows,
                             row : PlanRows \cup {B!NoRow}]]
      BY <1>t, <2>1, <2>2 DEF BillingTypeOK
    <3>2. usedB' \in [assigns : Nat, errors : Nat, crashes : Nat]
      BY <1>t, <2>1 DEF BillingTypeOK
    <3>3. PlanRows' = PlanRows /\ Subscribed' = Subscribed
      BY <2>1 DEF PlanRows, Subscribed
    <3>. QED
      BY <1>t, <2>1, <3>1, <3>2, <3>3 DEF BillingTypeOK
  <2>5. \A a \in Accounts : ~BeingBilled(a)
    BY <2>1, <2>3 DEF BeingBilled
  <2>6. DatesAhead' /\ B!BilledOnce'
    BY <1>t, <2>1, <2>5 DEF DatesAhead, B!BilledOnce
  <2>7. RowsLeft(c)'
    BY <2>2, <2>3 DEF RowsLeft
  <2>. QED
    BY <2>3, <2>4, <2>6, <2>7 DEF BillingInv
<1>2. ASSUME NEW c \in Cron, B!Crash(c) PROVE FALSE
  <2>1. usedB \in [assigns : Nat, errors : Nat, crashes : Nat]
    BY <1>t DEF BillingTypeOK
  <2>2. usedB' = [usedB EXCEPT !.crashes = @ + 1]
    BY <1>2 DEF B!Crash
  <2>3. usedB'.crashes = usedB.crashes + 1 /\ usedB.crashes \in Nat
    BY <2>1, <2>2
  <2>. QED
    BY <2>3
<1>3. ASSUME B!NextDay PROVE BillingInv'
  <2>1. /\ day' = day + 1 /\ \A c \in Cron : run[c].at = "idle"
        /\ UNCHANGED <<plans, plan, bills, run, ran, admin, usedB>>
    BY <1>3 DEF B!NextDay
  <2>2. PlanRows' = PlanRows /\ Subscribed' = Subscribed
    BY <2>1 DEF PlanRows, Subscribed
  <2>3. day \in Nat /\ day' \in Nat
    BY <1>t, <2>1 DEF BillingTypeOK
  <2>4. BillingTypeOK'
    BY <1>t, <2>1, <2>2, <2>3 DEF BillingTypeOK
  <2>5. DatesAhead' /\ B!BilledOnce'
    BY <1>t, <2>1, <2>3 DEF DatesAhead, BeingBilled, B!BilledOnce, BillingTypeOK
  <2>6. ASSUME NEW c \in Cron PROVE RowsLeft(c)'
    <3>1. \A r \in run[c].rows : r.next \in Nat
      BY <1>t DEF BillingTypeOK, PlanRows
    <3>. QED
      BY <1>t, <2>1, <2>2, <2>3, <3>1 DEF RowsLeft, BilledBefore
  <2>. QED
    BY <2>4, <2>5, <2>6 DEF BillingInv
<1>4. ASSUME UNCHANGED B!bvars PROVE BillingInv'
  <2>1. UNCHANGED <<day, plans, plan, bills, run, ran, admin, usedB>>
    BY <1>4 DEF B!bvars
  <2>2. PlanRows' = PlanRows /\ Subscribed' = Subscribed
    BY <2>1 DEF PlanRows, Subscribed
  <2>3. BillingTypeOK'
    BY <1>t, <2>1, <2>2 DEF BillingTypeOK
  <2>4. DatesAhead' /\ B!BilledOnce'
    BY <1>t, <2>1 DEF DatesAhead, BeingBilled, B!BilledOnce
  <2>5. \A c \in Cron : RowsLeft(c)'
    BY <1>t, <2>1, <2>2 DEF RowsLeft, BilledBefore
  <2>. QED
    BY <2>3, <2>4, <2>5 DEF BillingInv
<1>. QED
  BY <1>1, <1>2, <1>3, <1>4, BillingAdminStep, BillingFireStep, BillingBillStep, BillingDateStep
  DEF B!Next

\* Crashes are counted and never forgotten; until the first all of it holds.
UntilCrash ==
  /\ usedB \in [assigns : Nat, errors : Nat, crashes : Nat]
  /\ usedB.crashes = 0 => BillingInv

LEMMA UntilCrashNext ==
  ASSUME BillingConstants, SingleJob, UntilCrash, [B!Next]_(B!bvars)
  PROVE  UntilCrash'
<1>1. \/ usedB' = usedB
      \/ usedB' = [usedB EXCEPT !.assigns = @ + 1]
      \/ usedB' = [usedB EXCEPT !.errors = @ + 1]
      \/ usedB' = [usedB EXCEPT !.crashes = @ + 1]
  BY DEF B!Next, B!bvars, B!CreatePlan, B!AssignPlan, B!FirstBill, B!Fire, B!CreateBill,
         B!AdvanceDate, B!RunFails, B!Crash, B!NextDay
<1>2. /\ usedB' \in [assigns : Nat, errors : Nat, crashes : Nat]
      /\ usedB'.crashes = 0 => usedB.crashes = 0
  BY <1>1 DEF UntilCrash
<1>. QED
  BY <1>2, BillingNext DEF UntilCrash

(***************************************************************************)
(* runRecurringBilling: as long as no instance has crashed, the job of one *)
(* instance bills no date of an account twice, whatever plans              *)
(* administrators assign between its statements and wherever a failing     *)
(* statement ends a run.                                                   *)
(***************************************************************************)
THEOREM DatesBilledOnce ==
  ASSUME BillingConstants, SingleJob
  PROVE  /\ B!Spec  => []BilledOnce
         /\ SumSpec => []BilledOnce
<1>1. B!Init => UntilCrash
  <2>1. B!Init => usedB = [assigns |-> 0, errors |-> 0, crashes |-> 0]
    BY DEF B!Init
  <2>. QED
    BY <2>1, BillingInit DEF UntilCrash
<1>2. UntilCrash /\ [B!Next]_(B!bvars) => UntilCrash'
  BY UntilCrashNext
<1>3. UntilCrash => BilledOnce
  BY DEF UntilCrash, BillingInv, BilledOnce
<1>. QED
  BY <1>1, <1>2, <1>3, SumOfBilling, PTL DEF B!Spec, SumSpec

=============================================================================
