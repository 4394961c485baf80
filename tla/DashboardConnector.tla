------------------------- MODULE DashboardConnector -------------------------
(***************************************************************************)
(* MonitorConnector and AwsAlertPublisher of python/dashboard/services.py, *)
(* called by the routes of app.py: a thread that keeps a connection to the *)
(* server and applies its events, and one thread for every HTTP request.   *)
(* They share state and _socket under _lock, and the publisher without it. *)
(*                                                                         *)
(* A step is what a thread does between two points where another may run.  *)
(* A section under _lock without a call that waits is one step, taken when *)
(* the lock is free; the lock is held across steps only while an alert is  *)
(* uploaded.  What the server knows is a version number, an alert and a    *)
(* line are a name.                                                        *)
(***************************************************************************)
EXTENDS Naturals, Sequences, FiniteSets

CONSTANTS
  Posts,        \* requests answered by one line: to /api/chat, and commands
                \* that are /clients or nothing the server knows
  AlertCommands, ListCommands,   \* requests to /api/send-command: /alert
                \* with a rule, and /listalerts
  Uploads,      \* requests to /api/upload-latest-alert
  Targets,      \* what is configured, of "s3" and "sns"; nothing without boto3
  AwsFails,     \* calls of AWS may fail
  Room,         \* what the socket takes before the server reads, in half lines
  AlertLimit, ChatLimit,
  MaxConns, MaxChanges, MaxAlerts, MaxStops,
  MaxInputs     \* bounds requests, alerts and calls of stop() together

Sends == Posts \cup AlertCommands \cup ListCommands
Request == Sends \cup Uploads
Thread == Request \cup {"connector"}
Alert == 1..MaxAlerts

ASSUME ConnectorAssumption ==
  /\ "connector" \notin Request /\ "register" \notin Request
  /\ Sends \cap Uploads = {}
  /\ Posts \cap (AlertCommands \cup ListCommands) = {} /\ AlertCommands \cap ListCommands = {}
  /\ Targets \subseteq {"s3", "sns"} /\ AwsFails \in BOOLEAN
  /\ Room \in Nat /\ Room >= 2
  /\ AlertLimit \in Nat \ {0} /\ ChatLimit \in Nat \ {0}
  /\ MaxConns \in Nat \ {0}
  /\ MaxChanges \in Nat /\ MaxAlerts \in Nat /\ MaxStops \in Nat /\ MaxInputs \in Nat

VARIABLES
  server,       \* whether the server runs
  known,        \* how often its metrics and its rules changed, and the alerts raised
  opened,       \* connections made so far; the latest is the only one in use
  alive,        \* the server still has that connection
  sock_open,    \* the dashboard still has it
  wire,         \* half lines sent to the server over it
  drained,      \* how many of them the server has read
  inbox,        \* events on their way to the dashboard
  _running, _socket, _lock, state,
  pc,           \* where each thread is
  event,        \* the event the connector handles
  handle,       \* the socket each request found
  job,          \* the upload of each thread: the alert, and whether all went well
  answer,       \* what the browser got
  puts, notified,  \* the alerts S3 and SNS have taken
  attempted,       \* history: the alerts the connector has tried to publish
  stops

serverVars == <<server, known>>
link == <<opened, alive, sock_open, wire, drained, inbox>>
shared == <<_running, _socket, _lock, state>>
requests == <<handle, answer>>
aws == <<puts, notified, attempted, job>>
vars == <<serverVars, link, shared, pc, event, requests, aws, stops>>

Piece == [line : Sends \cup {"register"}, part : 1..2]
Event == [type : {"metrics", "rules"}, value : Nat]
    \cup [type : {"alert"}, value : Alert]
    \cup [type : {"chat"}, value : Sends \cup {"registered", "rule added", "garbled"}]

NoEvent == [type |-> "none"]
NoJob == [alert |-> 0, ok |-> TRUE]

TypeOK ==
  /\ opened \in 0..MaxConns + MaxStops   \* one more for a stop during a connect
  /\ wire \in Seq(Piece) /\ drained \in 0..Len(wire)
  /\ Len(wire) - drained <= Room
  /\ inbox \in Seq(Event)
  /\ _socket \in 0..opened
  /\ _lock \in {"free", "connector"}
  /\ Len(state.alerts) <= AlertLimit /\ Len(state.chat) <= ChatLimit
  /\ state.metrics \in Nat /\ state.rules \in Nat

Init ==
  /\ server \in {"up", "down"} /\ known = [metrics |-> 0, rules |-> 0, alert |-> 0]
  /\ opened = 0 /\ alive = FALSE /\ sock_open = FALSE
  /\ wire = << >> /\ drained = 0 /\ inbox = << >>
  /\ _running = TRUE /\ _socket = 0 /\ _lock = "free"
  /\ state = [connected |-> FALSE, metrics |-> 0, rules |-> 0, alerts |-> << >>,
              chat |-> << >>, aws |-> [alert |-> 0, uploaded |-> FALSE]]
  /\ pc = [t \in Thread |-> IF t = "connector" THEN "top" ELSE "idle"]
  /\ event = NoEvent
  /\ handle = [r \in Sends |-> 0]
  /\ answer = [r \in Request |-> "none"]
  /\ job = [t \in Thread |-> NoJob]
  /\ puts = {} /\ notified = {} /\ attempted = {}
  /\ stops = 0

(* Requests, alerts and calls of stop() so far.  A request that writes to  *)
(* the socket counts for two: it meets another one or something else.      *)
Inputs ==
  2 * Cardinality({r \in Sends : pc[r] # "idle"}) + Cardinality({r \in Uploads : pc[r] # "idle"})
    + known.alert + stops

Goto(t, label) == pc' = [pc EXCEPT ![t] = label]

-----------------------------------------------------------------------------
(* The server, as MonitorServer describes it to one dashboard.             *)

Registered == alive /\ drained >= 2

truth == [metrics |-> known.metrics, rules |-> known.rules]

More(type) ==
  IF type = "alert" THEN known.alert < MaxAlerts /\ Inputs < MaxInputs
                    ELSE known.metrics + known.rules < MaxChanges

Entry(text) == [type |-> "chat", value |-> text]
Version(type, n) == [type |-> type, value |-> n]

(* An agent's report changes what the server knows, another dashboard adds *)
(* a rule, or a rule raises an alert: whoever is registered is told.       *)
broadcast_to_dashboards(type) ==
  /\ server = "up" /\ More(type)
  /\ known' = [known EXCEPT ![type] = @ + 1]
  /\ inbox' = IF ~Registered THEN inbox
              ELSE inbox \o (IF type = "rules" THEN <<Entry("rule added")>> ELSE << >>)
                         \o <<Version(type, known[type] + 1)>>
  /\ UNCHANGED <<server, opened, alive, sock_open, wire, drained, shared, pc, event, requests,
                 aws, stops>>

(* The second half of a line ends it.  The line is all that was sent since *)
(* the line before: the other half and nothing else, or what two requests  *)
(* made of it.                                                             *)
Intact(i) ==
  /\ i > 1 /\ wire[i - 1] = [line |-> wire[i].line, part |-> 1]
  /\ i = 2 \/ wire[i - 2].part = 2

Kind(line) ==
  CASE line = "register" -> "register"
    [] line \in AlertCommands -> "alert"
    [] line \in ListCommands -> "list"
    [] OTHER -> "post"

(* To a dashboard that registers, all there is; a rule is announced to all *)
(* and acknowledged to whoever added it; /listalerts has no other answer   *)
(* than the rules.                                                         *)
Answers(kind, name, rules) ==
  CASE kind = "register" ->
         <<Entry("registered"), Version("metrics", known.metrics), Version("rules", rules)>>
    [] kind = "alert" -> <<Entry("rule added"), Version("rules", rules), Entry(name)>>
    [] kind = "list" -> <<Version("rules", rules)>>
    [] OTHER -> <<Entry(name)>>

handle_line(kind, name) ==
  LET rules == IF kind = "alert" THEN known.rules + 1 ELSE known.rules
  IN  /\ known' = [known EXCEPT !.rules = rules]
      /\ inbox' = inbox \o Answers(kind, name, rules)

(* What is left of several lines has the type and the text of any of them. *)
ServerReads ==
  /\ alive /\ drained < Len(wire)
  /\ drained' = drained + 1
  /\ LET line == wire[drained + 1].line
     IN  IF wire[drained + 1].part = 1 THEN UNCHANGED <<known, inbox>>
         ELSE IF Intact(drained + 1) THEN handle_line(Kind(line), line)
         ELSE \E kind \in {"post", "alert", "list"} : handle_line(kind, "garbled")
  /\ UNCHANGED <<server, opened, alive, sock_open, wire, shared, pc, event, requests, aws,
                 stops>>

(* The server exits or only loses the connection, by a close or a reset.   *)
ServerFails ==
  /\ server = "up" /\ opened < MaxConns
  /\ server' \in {"up", "down"}
  /\ alive' = FALSE
  /\ inbox' \in {inbox, << >>}
  /\ UNCHANGED <<known, opened, sock_open, wire, drained, shared, pc, event, requests, aws,
                 stops>>

ServerStarts ==
  /\ server = "down"
  /\ server' = "up"
  /\ known' = [known EXCEPT !.metrics = 0, !.rules = 0]
  /\ UNCHANGED <<link, shared, pc, event, requests, aws, stops>>

-----------------------------------------------------------------------------
(* _run.                                                                   *)

At(label) == pc["connector"] = label
Step(label) == Goto("connector", label)

LoopTest ==
  /\ At("top")
  /\ Step(IF _running THEN "connect" ELSE "ended")
  /\ UNCHANGED <<serverVars, link, shared, event, requests, aws, stops>>

(* Mutant: the socket is handed to the requests before the line that       *)
(* registers is out.                                                       *)
published_early(c) == c

socket_while_registering(c) == _socket

create_connection ==
  /\ At("connect") /\ server = "up"
  /\ opened' = opened + 1
  /\ alive' = TRUE /\ sock_open' = TRUE
  /\ wire' = << >> /\ drained' = 0 /\ inbox' = << >>
  /\ _socket' = socket_while_registering(opened')
  /\ Step("register")
  /\ UNCHANGED <<serverVars, _running, _lock, state, event, requests, aws, stops>>

ConnectFails ==
  /\ At("connect") /\ server = "down"
  /\ Step("except")
  /\ UNCHANGED <<serverVars, link, shared, event, requests, aws, stops>>

Halves(line) == <<[line |-> line, part |-> 1], [line |-> line, part |-> 2]>>

(* A new connection has room for the first line.                           *)
register ==
  /\ At("register") /\ Len(wire) - drained <= Room - 2
  /\ wire' = wire \o Halves("register")
  /\ Step("publish")
  /\ UNCHANGED <<serverVars, opened, alive, sock_open, drained, inbox, shared, event, requests,
                 aws, stops>>

RegisterFails ==
  /\ At("register") /\ ~alive
  /\ Step("close")
  /\ UNCHANGED <<serverVars, link, shared, event, requests, aws, stops>>

publish_socket ==
  /\ At("publish") /\ _lock = "free"
  /\ _socket' = opened
  /\ state' = [state EXCEPT !.connected = TRUE]
  /\ Step("consume")
  /\ UNCHANGED <<serverVars, link, _running, _lock, event, requests, aws, stops>>

(* Mutant: a chunk is forgotten once its first line has been handled.      *)
buffer_cleared == << >>

buffer_left == Tail(inbox)

(* _consume: the next line of the buffer, received before or just now.     *)
_consume ==
  /\ At("consume") /\ inbox # << >>
  /\ event' = Head(inbox)
  /\ inbox' = buffer_left
  /\ Step("event")
  /\ UNCHANGED <<serverVars, opened, alive, sock_open, wire, drained, shared, requests, aws,
                 stops>>

(* recv() finds the connection closed, or stop() has closed it; or a chunk *)
(* cannot be decoded or a line is no JSON.                                 *)
ConsumeFails ==
  /\ At("consume")
  /\ \/ inbox = << >> /\ ~alive
     \/ ~sock_open
     \/ inbox # << >> /\ opened < MaxConns
  /\ Step("close")
  /\ UNCHANGED <<serverVars, link, shared, event, requests, aws, stops>>

(* recv() waits two seconds for nothing: once more.                        *)
RecvTimesOut == At("consume") /\ inbox = << >> /\ alive /\ UNCHANGED vars

(* Mutant: _consume does not look at _running.                             *)
consume_forever == FALSE

consume_ends == ~_running

(* recv() returned or timed out and the loop's test fails.                 *)
ConsumeEnds ==
  /\ At("consume") /\ consume_ends
  /\ Step("leave")
  /\ UNCHANGED <<serverVars, link, shared, event, requests, aws, stops>>

(* The with statement closes the socket, after an exception and without;   *)
(* what is in the socket or in the buffer of _consume is lost with it.     *)
CloseSocket(from, to) ==
  /\ At(from)
  /\ sock_open' = FALSE /\ alive' = FALSE
  /\ wire' = << >> /\ drained' = 0 /\ inbox' = << >>
  /\ Step(to)
  /\ UNCHANGED <<serverVars, opened, shared, event, requests, aws, stops>>

(* Mutant: the thread ends with the exception.                             *)
not_retried == "ended"

after_exception == "sleep"

except ==
  /\ At("except") /\ _lock = "free"
  /\ _socket' = 0
  /\ state' = [state EXCEPT !.connected = FALSE]
  /\ Step(after_exception)
  /\ UNCHANGED <<serverVars, link, _running, _lock, event, requests, aws, stops>>

sleep ==
  /\ At("sleep")
  /\ Step("top")
  /\ UNCHANGED <<serverVars, link, shared, event, requests, aws, stops>>

-----------------------------------------------------------------------------
(* _handle_event.                                                          *)

(* Mutant: old entries are kept.                                           *)
untrimmed(s, limit) == s

Latest(s, limit) == IF Len(s) <= limit THEN s ELSE SubSeq(s, Len(s) - limit + 1, Len(s))

(* Mutant: answers of the server are not shown.                            *)
chat_dropped == state.chat

chat_after == Latest(Append(state.chat, event.value), ChatLimit)

HandleMessage ==
  /\ At("event") /\ _lock = "free" /\ event.type # "alert"
  /\ state' = CASE event.type = "metrics" -> [state EXCEPT !.metrics = event.value]
                [] event.type = "rules" -> [state EXCEPT !.rules = event.value]
                [] OTHER -> [state EXCEPT !.chat = chat_after]
  /\ event' = NoEvent
  /\ Step("consume")
  /\ UNCHANGED <<serverVars, link, _running, _socket, _lock, requests, aws, stops>>

(* Mutant: the lock is released before the upload.                         *)
released_before_upload == "free"

held_during_upload == "connector"

HandleAlert ==
  /\ At("event") /\ _lock = "free" /\ event.type = "alert"
  /\ state' = [state EXCEPT !.alerts = Latest(Append(@, event.value), AlertLimit)]
  /\ _lock' = held_during_upload
  /\ job' = [job EXCEPT !["connector"] = [alert |-> event.value, ok |-> Targets # {}]]
  /\ Step(IF Targets = {} THEN "record" ELSE "put")
  /\ UNCHANGED <<serverVars, link, _running, _socket, event, requests, puts, notified, attempted, stops>>

AlertHandled ==
  /\ At("record")
  /\ state' = [state EXCEPT !.aws = [alert |-> event.value, uploaded |-> job["connector"].ok]]
  /\ _lock' = "free"
  /\ attempted' = attempted \cup {event.value}
  /\ event' = NoEvent /\ job' = [job EXCEPT !["connector"] = NoJob]
  /\ Step("consume")
  /\ UNCHANGED <<serverVars, link, _running, _socket, requests, puts, notified, stops>>

-----------------------------------------------------------------------------
(* upload_alert, in whichever thread: S3 first, then SNS; an exception     *)
(* skips the rest, and the call may have had its effect all the same.      *)

Outcomes == IF AwsFails THEN {"done", "failed", "timed out"} ELSE {"done"}

(* Mutant: a failure is logged and the result kept.                        *)
result_kept(outcome) == TRUE

result_ok(outcome) == outcome = "done"

put_object(t) ==
  /\ pc[t] = "put"
  /\ IF "s3" \in Targets
     THEN \E outcome \in Outcomes :
            /\ puts' = IF outcome = "failed" THEN puts ELSE puts \cup {job[t].alert}
            /\ job' = [job EXCEPT ![t] = [alert |-> @.alert, ok |-> result_ok(outcome)]]
            /\ Goto(t, IF outcome = "done" THEN "publish_alert" ELSE "record")
     ELSE Goto(t, "publish_alert") /\ UNCHANGED <<puts, job>>
  /\ UNCHANGED <<serverVars, link, shared, event, requests, notified, attempted, stops>>

publish(t) ==
  /\ pc[t] = "publish_alert"
  /\ IF "sns" \in Targets
     THEN \E outcome \in Outcomes :
            /\ notified' = IF outcome = "failed" THEN notified ELSE notified \cup {job[t].alert}
            /\ job' = [job EXCEPT ![t] = [alert |-> @.alert, ok |-> result_ok(outcome)]]
     ELSE UNCHANGED <<notified, job>>
  /\ Goto(t, "record")
  /\ UNCHANGED <<serverVars, link, shared, event, requests, puts, attempted, stops>>

-----------------------------------------------------------------------------
(* The requests.                                                           *)

Arrives(r) ==
  /\ pc[r] = "idle" /\ Inputs + (IF r \in Sends THEN 2 ELSE 1) <= MaxInputs
  /\ Goto(r, "waiting")
  /\ UNCHANGED <<serverVars, link, shared, event, requests, aws, stops>>

Reply(r, text) == Goto(r, "answered") /\ answer' = [answer EXCEPT ![r] = text]

(* _send reads _socket under the lock ...                                  *)
_send(r) ==
  /\ r \in Sends /\ pc[r] = "waiting" /\ _lock = "free"
  /\ handle' = [handle EXCEPT ![r] = _socket]
  /\ IF _socket = 0
     THEN Reply(r, "error")
     ELSE Goto(r, "sending") /\ UNCHANGED answer
  /\ UNCHANGED <<serverVars, link, shared, event, aws, stops>>

Usable(r) == handle[r] = opened /\ sock_open

Rest(r) == IF pc[r] = "half" THEN <<Halves(r)[2]>> ELSE Halves(r)

(* ... and sendall writes after it was released: as much as there is room  *)
(* for, waiting up to two seconds for more.                                *)
sendall(r) ==
  /\ pc[r] \in {"sending", "half"} /\ Usable(r)
  /\ LET room == Room - (Len(wire) - drained)
     IN  IF room >= Len(Rest(r))
         THEN /\ wire' = wire \o Rest(r) /\ Reply(r, "ok")
              /\ handle' = [handle EXCEPT ![r] = 0]
         ELSE /\ room > 0
              /\ wire' = wire \o <<Head(Rest(r))>>
              /\ Goto(r, "half") /\ UNCHANGED <<answer, handle>>
  /\ UNCHANGED <<serverVars, opened, alive, sock_open, drained, inbox, shared, event, aws,
                 stops>>

(* Mutant: a send on a closed socket waits like one on a full socket.      *)
only_times_out(r) == Usable(r) /\ Room - (Len(wire) - drained) < Len(Rest(r))

(* The socket is closed, its peer has gone, or the two seconds are over.   *)
send_raises(r) == ~Usable(r) \/ ~alive \/ Room - (Len(wire) - drained) < Len(Rest(r))

SendFails(r) ==
  /\ pc[r] \in {"sending", "half"} /\ send_raises(r)
  /\ Reply(r, "error")
  /\ handle' = [handle EXCEPT ![r] = 0]
  /\ UNCHANGED <<serverVars, link, shared, event, aws, stops>>

(* The lock is free again before the upload.                               *)
upload_latest_alert(r) ==
  /\ r \in Uploads /\ pc[r] = "waiting" /\ _lock = "free"
  /\ IF state.alerts = << >>
     THEN Reply(r, "error") /\ UNCHANGED job
     ELSE /\ job' = [job EXCEPT ![r] = [alert |-> state.alerts[Len(state.alerts)],
                                        ok |-> Targets # {}]]
          /\ Goto(r, IF Targets = {} THEN "record" ELSE "put")
          /\ UNCHANGED answer
  /\ UNCHANGED <<serverVars, link, shared, event, handle, puts, notified, attempted,
                 stops>>

UploadRecorded(r) ==
  /\ r \in Uploads /\ pc[r] = "record" /\ _lock = "free"
  /\ state' = [state EXCEPT !.aws = [alert |-> job[r].alert, uploaded |-> job[r].ok]]
  /\ job' = [job EXCEPT ![r] = NoJob]
  /\ Reply(r, "ok")
  /\ UNCHANGED <<serverVars, link, _running, _socket, _lock, event, handle, puts, notified,
                 attempted, stops>>

-----------------------------------------------------------------------------
(* _socket may be none, or one that was closed before.                     *)
stop ==
  /\ _running
  /\ stops < MaxStops /\ Inputs < MaxInputs /\ opened < MaxConns
  /\ _running' = FALSE
  /\ IF _socket = opened THEN sock_open' = FALSE /\ alive' = FALSE
                         ELSE UNCHANGED <<sock_open, alive>>
  /\ stops' = stops + 1
  /\ UNCHANGED <<serverVars, opened, wire, drained, inbox, _socket, _lock, state, pc, event,
                 requests, aws>>

(* start() returns at once while the old thread is alive.                  *)
start ==
  /\ ~_running /\ At("ended")
  /\ _running' = TRUE
  /\ Step("top")
  /\ UNCHANGED <<serverVars, link, _socket, _lock, state, event, requests, aws, stops>>

ConnectorStep ==
  \/ LoopTest \/ create_connection \/ ConnectFails \/ register \/ RegisterFails
  \/ publish_socket \/ _consume \/ RecvTimesOut \/ ConsumeFails \/ ConsumeEnds
  \/ CloseSocket("close", "except") \/ CloseSocket("leave", "top") \/ except \/ sleep
  \/ HandleMessage \/ HandleAlert \/ AlertHandled
  \/ put_object("connector") \/ publish("connector")

RequestStep(r) ==
  \/ _send(r) \/ sendall(r) \/ SendFails(r)
  \/ upload_latest_alert(r) \/ UploadRecorded(r) \/ put_object(r) \/ publish(r)

ServerStep ==
  \/ \E type \in {"metrics", "rules", "alert"} : broadcast_to_dashboards(type)
  \/ ServerReads \/ ServerFails \/ ServerStarts

Next ==
  \/ ConnectorStep
  \/ \E r \in Request : Arrives(r) \/ RequestStep(r)
  \/ ServerStep
  \/ stop \/ start

Spec == Init /\ [][Next]_vars

(* The threads are scheduled, their calls of AWS return, and a server that *)
(* is up reads.                                                            *)
FairSpec ==
  /\ Spec
  /\ WF_vars(ConnectorStep)
  /\ \A r \in Request : WF_vars(RequestStep(r))
  /\ WF_vars(ServerReads)

-----------------------------------------------------------------------------
(* On every connection the line that registers is the first, whatever      *)
(* requests do meanwhile: the server knows who sends commands and chat.    *)
RegisterFirst == wire # << >> => wire[1] = [line |-> "register", part |-> 1]

(* No page shows an alert that has not been to AWS: the feed and the       *)
(* status next to it belong together.                                      *)
UploadedBeforeShown ==
  _lock = "free" => \A i \in DOMAIN state.alerts : state.alerts[i] \in attempted

(* The status says "Alert published" only of an alert that every           *)
(* configured service has taken, whichever thread uploaded it last.        *)
NoFalseSuccess ==
  state.aws.uploaded =>
    /\ "s3" \in Targets => state.aws.alert \in puts
    /\ "sns" \in Targets => state.aws.alert \in notified

(* Every request is answered, whether the server is up, the connection     *)
(* breaks under it or an alert is being uploaded.                          *)
RequestsAnswered == \A r \in Request : pc[r] = "waiting" ~> pc[r] = "answered"

(* The line of a request is on its way to the server in one piece.         *)
OnItsWay(r) ==
  \E i \in drained + 1..Len(wire) : Intact(i) /\ wire[i] = [line |-> r, part |-> 2]

(* What a request has sent in one piece comes back: the page gets the      *)
(* server's answer, and of a rule also the rule, unless the connection     *)
(* breaks.  Other requests may write to the same socket meanwhile, run out *)
(* of time in the middle of a line or mix their lines with one another.    *)
EchoShown ==
  \A r \in Posts \cup AlertCommands :
    OnItsWay(r) ~> \/ /\ \E i \in DOMAIN state.chat : state.chat[i] = r
                      /\ r \in AlertCommands => state.rules > 0
                   \/ ~sock_open \/ ~alive \/ At("close")

(* stop() ends the thread wherever it is.                                  *)
ThreadStops == ~_running ~> (At("ended") \/ _running)

(* An alert that was sent to the dashboard is published, or at least tried *)
(* to be, unless the connection it came over breaks.                       *)
AlertsPublished ==
  \A alert \in Alert :
    (\E i \in DOMAIN inbox : inbox[i] = [type |-> "alert", value |-> alert])
      ~> (alert \in attempted \/ ~alive \/ At("close"))
=============================================================================
