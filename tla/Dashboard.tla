----------------------------- MODULE Dashboard -----------------------------
(***************************************************************************)
(* The dashboard process and a browser's page together: the requests of    *)
(* the page are answered by MonitorConnector.snapshot(), which waits for   *)
(* _lock, so the page stands still while an alert is being uploaded.       *)
(***************************************************************************)
EXTENDS DashboardConnector

CONSTANTS Nothing, Fetches, HistoryLimit, MaxIncidents

ASSUME PageAssumption == HistoryLimit \in Nat

VARIABLES shown, history, fetch, form, incidents

page_vars == <<shown, history, fetch, form, incidents>>

(* The parts of the answer to /api/state that are followed to the page.    *)
api_state ==
  [connected |-> state.connected, metrics |-> state.metrics, rules |-> state.rules]

Page == INSTANCE Frontend
          WITH Content <- [connected : BOOLEAN, metrics : Nat, rules : Nat],
               backend <- api_state

snapshot(f) == _lock = "free" /\ Page!Served(f)

DashboardInit == Init /\ Page!PageInit

DashboardNext ==
  \/ Next /\ UNCHANGED page_vars
  \/ (Page!PageStep \/ \E f \in Fetches : snapshot(f)) /\ UNCHANGED vars

(* In addition to the threads and the server: the timer fires, requests    *)
(* are served and answers are shown.                                       *)
DashboardSpec ==
  /\ DashboardInit /\ [][DashboardNext]_<<vars, page_vars>>
  /\ WF_vars(ConnectorStep) /\ WF_vars(ServerReads)
  /\ \A f \in Fetches : /\ WF_page_vars(Page!setInterval(f))
                        /\ WF_page_vars(snapshot(f))
                        /\ WF_page_vars(Page!refreshState(f))

-----------------------------------------------------------------------------
(* The page's history keeps its limit of points, however refreshes overlap,*)
(* and nothing else than answers of /api/state is ever shown.              *)
PageTypeOK == Page!TypeOK

(* From the server to the page: if the server stays up, the page shows in  *)
(* the end what the server knows and that it is connected, whatever broke  *)
(* before on either way, in whichever order answers arrived and while      *)
(* alerts were uploaded.                                                   *)
PageShowsServer ==
  <>[](server = "up") =>
    <>[](shown = [connected |-> TRUE, metrics |-> truth.metrics, rules |-> truth.rules])
=============================================================================
