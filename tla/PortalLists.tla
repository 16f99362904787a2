--------------------------- MODULE PortalLists ---------------------------
(***************************************************************************)
(* The paged and filtered lists of the two portals                         *)
(* (src/frontend/*/src/pages): a request per change of the controls, and   *)
(* whatever answer comes last is shown.  PortalPages describes the lists.  *)
(***************************************************************************)
EXTENDS Integers, Sequences, SequencesExt, PortalPages

CONSTANTS
  Lists,          \* the lists to look at
  LastPage, Filters,
  InOrder,        \* those whose answers come in the order of the requests
  MaxAsked, MaxClicks    \* bounds of the model

VARIABLES
  list,       \* the list on screen
  query,      \* its controls
  rows,       \* the query whose rows are shown
  failed,     \* the query of the last load that failed
  loading,
  timer,      \* a typed filter waits for a pause
  asked,      \* requests under way, oldest first: the query, and whether it is alive
  writing,    \* writes under way: the queries their handlers captured
  clicks

lvars == <<list, query, rows, failed, loading, timer, asked, writing, clicks>>

Nothing == [page |-> 0, filter |-> "none"]
Queries == [page: 1..LastPage, filter: Filters]
Request(q) == [query |-> q, alive |-> TRUE]

Init ==
  /\ list \in Lists
  /\ query \in [page: {1}, filter: Filters]
  /\ rows = Nothing /\ failed = Nothing /\ loading = TRUE
  /\ timer = list.typed
  /\ asked = IF list.typed THEN <<>> ELSE <<Request(query)>>
  /\ writing = {} /\ clicks = 0

Click == clicks < MaxClicks /\ clicks' = clicks + 1

\* The effect's cleanup when the controls change.
Forgotten == IF list.alive THEN [i \in DOMAIN asked |-> [asked[i] EXCEPT !.alive = FALSE]] ELSE asked

\* The effect that runs when the controls change to q.
Effect(q) ==
  /\ query' = q
  /\ IF list.typed
     THEN timer' = TRUE /\ UNCHANGED <<asked, loading>>
     ELSE /\ Len(asked) < MaxAsked /\ asked' = Append(Forgotten, Request(q))
          /\ loading' = TRUE /\ UNCHANGED timer

PagerEnabled_loading == list.pager

PagerEnabled == list.pager /\ ~loading

TurnPage(step) ==
  /\ PagerEnabled /\ query.page + step \in 1..LastPage /\ Click
  /\ Effect([query EXCEPT !.page = @ + step])
  /\ UNCHANGED <<list, rows, failed, writing>>

SetFilter(f) ==
  /\ list.filter /\ f # query.filter /\ Click
  /\ Effect([page |-> 1, filter |-> f])
  /\ UNCHANGED <<list, rows, failed, writing>>

\* The pause: 350 ms when a filter is typed in, none otherwise.
TimerFires ==
  /\ timer /\ Len(asked) < MaxAsked
  /\ timer' = FALSE /\ loading' = TRUE /\ asked' = Append(asked, Request(query))
  /\ UNCHANGED <<list, query, rows, failed, writing, clicks>>

\* The refresh of the ledger reloads the balances and shows the skeleton; the
\* list itself is loaded when its controls change, and they do not.
Refresh ==
  /\ list.refresh /\ Click /\ loading' = TRUE
  /\ UNCHANGED <<list, query, rows, failed, timer, asked, writing>>

\* A write of the page captures the load of the moment it is clicked ...
Write ==
  /\ list.reload # "none" /\ Click /\ writing' = writing \cup {query}
  /\ UNCHANGED <<list, query, rows, failed, loading, timer, asked>>

\* ... and runs it when it completes, whatever the controls are by then; the
\* effect follows when the page changes.
WriteDone(q) ==
  LET page == IF list.reload = "first" THEN 1 ELSE query.page IN
  /\ q \in writing /\ writing' = writing \ {q} /\ Len(asked) + 1 < MaxAsked
  /\ query' = [query EXCEPT !.page = page]
  /\ asked' = asked \o IF page = query.page THEN <<Request(q)>>
                       ELSE <<Request(q), Request([query EXCEPT !.page = page])>>
  /\ loading' = TRUE
  /\ UNCHANGED <<list, rows, failed, timer, clicks>>

Heard(i) == asked[i].alive

Answer(i, ok) ==
  /\ i \in DOMAIN asked /\ (list \in InOrder => i = 1)
  /\ asked' = RemoveAt(asked, i)
  /\ IF Heard(i)
     THEN /\ loading' = FALSE
          /\ IF ok THEN rows' = asked[i].query /\ UNCHANGED failed
                   ELSE failed' = asked[i].query /\ rows' = IF list.alive THEN Nothing ELSE rows
     ELSE UNCHANGED <<rows, failed, loading>>
  /\ UNCHANGED <<list, query, timer, writing, clicks>>

Next ==
  \/ \E step \in {-1, 1} : TurnPage(step)
  \/ \E f \in Filters : SetFilter(f)
  \/ TimerFires \/ Refresh \/ Write
  \/ \E q \in writing : WriteDone(q)
  \/ \E i \in DOMAIN asked, ok \in BOOLEAN : Answer(i, ok)

Fairness == /\ WF_lvars(TimerFires)
            /\ WF_lvars(\E i \in DOMAIN asked, ok \in BOOLEAN : Answer(i, ok))

Spec == Init /\ [][Next]_lvars /\ Fairness

-----------------------------------------------------------------------------
Quiet == asked = <<>> /\ ~timer

(***************************************************************************)
(* When nothing is under way the rows are those of the page and filter the *)
(* controls show, unless their load failed, whatever was clicked while     *)
(* they were under way and in whatever order they came; a list with a      *)
(* typed filter needs them in order.  Not so for lists that a write of     *)
(* their page reloads.                                                     *)
(***************************************************************************)
RowsMatch == Quiet /\ list.reload # "first" => rows = query \/ failed = query

\* The same for every list.
EveryRowsMatch == Quiet => rows = query \/ failed = query

(***************************************************************************)
(* A list that loads comes to an end of it; so does the ledger as long as  *)
(* its refresh button is left alone.                                       *)
(***************************************************************************)
LoadingEnds == (loading /\ ~list.refresh) ~> ~loading

\* The same for every list.
EveryLoadingEnds == loading ~> ~loading

=============================================================================
