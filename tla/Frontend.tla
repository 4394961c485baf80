------------------------------ MODULE Frontend ------------------------------
(***************************************************************************)
(* The page of python/dashboard/static/app.js.  refreshState asks for      *)
(* /api/state when the page is loaded, every two seconds and after each    *)
(* form, without waiting for answers still under way, so several requests  *)
(* overlap and their answers may be shown in any order.  Who answers is    *)
(* left open: Dashboard puts the page and the connector together.          *)
(***************************************************************************)
EXTENDS Naturals, Sequences

CONSTANTS
  Content,        \* what /api/state may return
  Nothing,        \* the page before the first answer
  Fetches,        \* requests under way at once
  HistoryLimit,   \* points kept for the charts
  MaxIncidents    \* lost answers and forms sent

VARIABLES
  backend,    \* what /api/state returns at the moment
  shown,      \* what the page shows
  history,    \* the points of the charts
  fetch,      \* each request: idle, asked, or the answer on its way
  form,       \* idle, or posted and about to refresh
  incidents

page == <<shown, history, fetch, form, incidents>>

Waiting == [state |-> "idle"]
Asked == [state |-> "asked"]
Answer(content) == [state |-> "answer", content |-> content]

(* The charts keep their limit, and every answer under way is one that     *)
(* /api/state gives.                                                       *)
TypeOK ==
  /\ shown \in Content \cup {Nothing}
  /\ history \in Seq(Content) /\ Len(history) <= HistoryLimit
  /\ fetch \in [Fetches -> {Waiting, Asked} \cup [state : {"answer"}, content : Content]]
  /\ form \in {"idle", "posted"}

(* The first refreshState is under way.                                    *)
PageInit ==
  /\ shown = Nothing /\ history = << >>
  /\ \E first \in Fetches : fetch = [f \in Fetches |-> IF f = first THEN Asked ELSE Waiting]
  /\ form = "idle"
  /\ incidents = 0

-----------------------------------------------------------------------------
Ask(f) ==
  /\ fetch[f] = Waiting
  /\ fetch' = [fetch EXCEPT ![f] = Asked]

(* Mutant: the page is refreshed after a form only.                        *)
no_timer == FALSE

timer_runs == TRUE

setInterval(f) ==
  /\ timer_runs
  /\ Ask(f)
  /\ UNCHANGED <<shown, history, form, incidents>>

(* The snapshot the answer will show is taken.                             *)
Served(f) ==
  /\ fetch[f] = Asked
  /\ fetch' = [fetch EXCEPT ![f] = Answer(backend)]
  /\ UNCHANGED <<shown, history, form, incidents>>

(* Mutant: old points are kept.                                            *)
history_kept(points, content) == Append(points, content)

appendHistory(points, content) ==
  LET longer == Append(points, content)
  IN  IF Len(longer) > HistoryLimit THEN Tail(longer) ELSE longer

(* What follows the second await: charts, cards, feeds and counters.       *)
refreshState(f) ==
  /\ fetch[f].state = "answer"
  /\ shown' = fetch[f].content
  /\ history' = appendHistory(history, fetch[f].content)
  /\ fetch' = [fetch EXCEPT ![f] = Waiting]
  /\ UNCHANGED <<form, incidents>>

(* The promise is rejected and nobody is told.                             *)
FetchFails(f) ==
  /\ fetch[f] # Waiting /\ incidents < MaxIncidents
  /\ fetch' = [fetch EXCEPT ![f] = Waiting]
  /\ incidents' = incidents + 1
  /\ UNCHANGED <<shown, history, form>>

(* A form: its answer is awaited, then the page is refreshed.  One that is *)
(* no JSON ends the handler before that.                                   *)
postJson ==
  /\ form = "idle" /\ incidents < MaxIncidents
  /\ form' \in {"posted", "idle"}
  /\ incidents' = incidents + 1
  /\ UNCHANGED <<shown, history, fetch>>

AfterPost(f) ==
  /\ form = "posted"
  /\ Ask(f)
  /\ form' = "idle"
  /\ UNCHANGED <<shown, history, incidents>>

(* What the page does; serving a request is the back end's step.           *)
PageStep ==
  \/ \E f \in Fetches : setInterval(f) \/ refreshState(f) \/ FetchFails(f) \/ AfterPost(f)
  \/ postJson
=============================================================================
