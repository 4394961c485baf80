--------------------------- MODULE MonitorServer ---------------------------
(***************************************************************************)
(* The server process of cpp/server/main.cpp: one thread that waits in     *)
(* select(), accepts at most one connection, reads every ready client,     *)
(* handles the complete lines it received and drops the clients whose      *)
(* socket failed.  One action is one call or one loop iteration of that    *)
(* thread, so that peers act between any two of them; every send_line is a *)
(* step of its own, because it blocks while the peer's buffers are full.   *)
(*                                                                         *)
(* Data arrives in whole lines.  A recv() that completes no line changes   *)
(* nothing the server decides on and is not a step of this module.         *)
(***************************************************************************)
EXTENDS Protocol, SequencesExt

CONSTANTS
  FD,          \* descriptors accept() can return; freed ones are reused
  PeerLabel,   \* results of endpoint_label
  Lines,       \* the lines peers send
  Faults,      \* how a connection may end: "fin", "reset", "urgent"
  InCap,       \* lines in flight on one connection
  SndCap,      \* events that fit between a send() and the peer's recv()
  MaxConns,    \* connections opened during a behaviour
  MaxLines     \* lines sent during a behaviour

ASSUME MonitorServerAssumption ==
  /\ PeerLabel \subseteq Host \ {EmptyHost}
  /\ Lines \subseteq Line
  /\ Faults \subseteq {"fin", "reset", "urgent"}
  /\ InCap \in Nat /\ SndCap \in Nat /\ MaxConns \in Nat /\ MaxLines \in Nat

VARIABLES
  \* members of MonitorServer and the global flag
  g_running, clients_, latest_metrics_, alert_rules_, active_alerts_,
  \* locals of run() and evaluate_rules(), back at their first value when
  \* their scope ends
  pc, read_set, error_set, index, disconnect_indices, metric, rule_index,
  \* send_line calls the current handler has still to make, in order
  outbox,
  \* sockets: connections waiting for accept(), state and unread input of
  \* each connection, events its peer has not read
  backlog, peer, inq, unread,
  \* history: what a dashboard on each descriptor knows once it has read all
  \* that was sent, the sockets seen failing in this round, the alerts raised
  mirror, failed, alerts,
  \* counters for MaxConns and MaxLines
  conns, sent

members == <<clients_, latest_metrics_, alert_rules_, active_alerts_>>
locals  == <<read_set, error_set, index, disconnect_indices, metric, rule_index>>
sockets == <<backlog, peer, inq, unread>>
history == <<mirror, failed, alerts>>
bounds  == <<conns, sent>>
vars == <<g_running, members, pc, locals, outbox, sockets, history, bounds>>

ClientRole == {"Unknown", "Agent", "Dashboard"}

ClientConnection == [fd : FD, role : ClientRole, peer_label : PeerLabel,
                     declared_host : Host, buffer : Seq(Lines)]

(* The keys of active_alerts_ that map to true.  The key is the string     *)
(* host|raw_command; a raw_command holds no '|', so the pair is the same.  *)
AlertKey == Host \X RawCommand

Job == [to : SUBSET FD, event : Event]

Control == {"start", "top", "select", "accept", "scan", "line", "rules",
            "drop", "shutdown", "stopped"}

PeerState == {"closed", "open", "fin", "reset", "urgent"}

(* Every variable has its type: in particular every metric the server      *)
(* stores has all five values, whatever the "metrics" line left out.       *)
TypeOK ==
  /\ g_running \in BOOLEAN
  /\ clients_ \in Seq(ClientConnection)
  /\ latest_metrics_ \in Metrics
  /\ alert_rules_ \in Seq(AlertRule)
  /\ active_alerts_ \in SUBSET AlertKey
  /\ pc \in Control
  /\ read_set \in SUBSET FD
  /\ error_set \in SUBSET FD
  /\ index \in Nat \ {0}
  /\ disconnect_indices \in Seq(Nat \ {0})
  /\ metric \in MetricSnapshot \cup {None}
  /\ rule_index \in Nat \ {0}
  /\ outbox \in Seq(Job)
  /\ backlog \in Nat
  /\ peer \in [FD -> PeerState]
  /\ inq \in [FD -> Seq(Lines)]
  /\ unread \in [FD -> 0..SndCap]
  /\ mirror \in [FD -> View]
  /\ failed \in SUBSET FD
  /\ alerts \in Seq(AlertKey)
  /\ conns \in 0..MaxConns
  /\ sent \in 0..MaxLines

Init ==
  /\ g_running = TRUE
  /\ clients_ = << >>
  /\ latest_metrics_ = [h \in Host |-> None]
  /\ alert_rules_ = << >>
  /\ active_alerts_ = {}
  /\ pc = "start"
  /\ read_set = {} /\ error_set = {}
  /\ index = 1
  /\ disconnect_indices = << >>
  /\ metric = None
  /\ rule_index = 1
  /\ outbox = << >>
  /\ backlog = 0
  /\ peer = [fd \in FD |-> "closed"]
  /\ inq = [fd \in FD |-> << >>]
  /\ unread = [fd \in FD |-> 0]
  /\ mirror = [fd \in FD |-> EmptyView]
  /\ failed = {}
  /\ alerts = << >>
  /\ conns = 0 /\ sent = 0

-----------------------------------------------------------------------------
(* The environment: signals and peers.                                     *)

(* signal_handler; the thread goes on where it is, also when select() has  *)
(* just found something ready or has not been entered yet.                 *)
signal_handler ==
  /\ g_running /\ pc # "stopped"
  /\ g_running' = FALSE
  /\ UNCHANGED <<members, pc, locals, outbox, sockets, history, bounds>>

(* The signal interrupts a waiting select(): EINTR, continue.              *)
SignalInterruptsSelect ==
  /\ g_running /\ pc = "select"
  /\ g_running' = FALSE
  /\ pc' = "top"
  /\ UNCHANGED <<members, locals, outbox, sockets, history, bounds>>

Listening == pc \notin {"start", "stopped"}

PeerConnect ==
  /\ Listening /\ conns < MaxConns
  /\ backlog' = backlog + 1
  /\ conns' = conns + 1
  /\ UNCHANGED <<g_running, members, pc, locals, outbox, peer, inq, unread, history, sent>>

Alive(fd) == peer[fd] \in {"open", "urgent"}

PeerSend(fd, line) ==
  /\ Alive(fd)
  /\ Len(inq[fd]) < InCap /\ sent < MaxLines
  /\ inq' = [inq EXCEPT ![fd] = Append(@, line)]
  /\ sent' = sent + 1
  /\ UNCHANGED <<g_running, members, pc, locals, outbox, backlog, peer, unread, history, conns>>

PeerRecv(fd) ==
  /\ Alive(fd) /\ unread[fd] > 0
  /\ unread' = [unread EXCEPT ![fd] = @ - 1]
  /\ UNCHANGED <<g_running, members, pc, locals, outbox, backlog, peer, inq, history, bounds>>

(* The peer closes, resets or sends urgent data.  A closed peer answers    *)
(* what still reaches it with a reset.                                     *)
PeerFault(fd, fault) ==
  /\ peer[fd] = "open" \/ (peer[fd] = "fin" /\ fault = "reset")
  /\ peer' = [peer EXCEPT ![fd] = fault]
  /\ UNCHANGED <<g_running, members, pc, locals, outbox, backlog, inq, unread, history, bounds>>

-----------------------------------------------------------------------------
(* The loop of run().                                                      *)

start ==
  /\ pc = "start"
  /\ pc' \in {"top", "stopped"}
  /\ UNCHANGED <<g_running, members, locals, outbox, sockets, history, bounds>>

LoopTest ==
  /\ pc = "top"
  /\ pc' = IF g_running THEN "select" ELSE "shutdown"
  /\ UNCHANGED <<g_running, members, locals, outbox, sockets, history, bounds>>

ClientFds == {clients_[i].fd : i \in DOMAIN clients_}

Readable(fd) == inq[fd] # << >> \/ peer[fd] \in {"fin", "reset"}

(* Mutant: the set given to select() is used instead of its result.        *)
all_registered == ClientFds

ready_to_read == {fd \in ClientFds : Readable(fd)}

(* Mutant: select() without a timeout returns only if something is ready.  *)
select_without_timeout ==
  \/ backlog > 0
  \/ \E fd \in ClientFds : Readable(fd) \/ peer[fd] = "urgent"

(* With its timeout of one second select() returns whatever happens; no    *)
(* descriptor is then in the sets and the round has nothing to do.         *)
select_returns == TRUE

select ==
  /\ pc = "select"
  /\ select_returns
  /\ read_set' = ready_to_read
  /\ error_set' = {fd \in ClientFds : peer[fd] = "urgent"}
  /\ pc' = IF backlog > 0 THEN "accept" ELSE "scan"
  /\ UNCHANGED <<g_running, members, index, disconnect_indices, metric, rule_index,
                 outbox, sockets, history, bounds>>

SelectFails ==
  /\ pc = "select"
  /\ pc' = "shutdown"
  /\ UNCHANGED <<g_running, members, locals, outbox, sockets, history, bounds>>

accept_connection ==
  /\ pc = "accept"
  /\ \E fd \in FD, label \in PeerLabel :
       /\ peer[fd] = "closed"
       /\ clients_' = Append(clients_, [fd |-> fd, role |-> "Unknown", peer_label |-> label,
                                        declared_host |-> EmptyHost, buffer |-> << >>])
       /\ peer' = [peer EXCEPT ![fd] = "open"]
  /\ backlog' = backlog - 1
  /\ pc' = "scan"
  /\ UNCHANGED <<g_running, latest_metrics_, alert_rules_, active_alerts_, locals, outbox,
                 inq, unread, history, bounds>>

(* The connection was aborted, or no descriptor is free and it stays.      *)
AcceptFails ==
  /\ pc = "accept"
  /\ \/ backlog' = backlog - 1
     \/ (\A fd \in FD : peer[fd] # "closed") /\ UNCHANGED backlog
  /\ pc' = "scan"
  /\ UNCHANGED <<g_running, members, locals, outbox, peer, inq, unread, history, bounds>>

-----------------------------------------------------------------------------
(* The scan over the clients and read_client.                              *)

client == clients_[index]

Scanning == pc = "scan" /\ index <= Len(clients_)

NotReady ==
  /\ Scanning
  /\ client.fd \notin read_set \cup error_set
  /\ index' = index + 1
  /\ UNCHANGED <<g_running, members, pc, read_set, error_set, disconnect_indices, metric,
                 rule_index, outbox, sockets, history, bounds>>

(* recv() returns 0 or an error, or select() reported urgent data.         *)
ClientFails ==
  /\ Scanning
  /\ \/ client.fd \in error_set
     \/ /\ client.fd \in read_set
        /\ peer[client.fd] = "reset" \/ (peer[client.fd] = "fin" /\ inq[client.fd] = << >>)
  /\ disconnect_indices' = Append(disconnect_indices, index)
  /\ failed' = failed \cup {client.fd}
  /\ index' = index + 1
  /\ UNCHANGED <<g_running, members, pc, read_set, error_set, metric, rule_index, outbox,
                 sockets, mirror, alerts, bounds>>

(* recv() returns some of the lines that have arrived.                     *)
read_client ==
  /\ Scanning
  /\ client.fd \in read_set \ error_set
  /\ peer[client.fd] # "reset"
  /\ \E n \in 1..Len(inq[client.fd]) :
       /\ clients_' = [clients_ EXCEPT ![index].buffer = @ \o SubSeq(inq[client.fd], 1, n)]
       /\ inq' = [inq EXCEPT ![client.fd] = SubSeq(@, n + 1, Len(@))]
  /\ pc' = "line"
  /\ UNCHANGED <<g_running, latest_metrics_, alert_rules_, active_alerts_, locals, outbox,
                 backlog, peer, unread, history, bounds>>

(* Mutant: one line is handled for each recv().                            *)
one_line_per_recv == TRUE

no_newline_left == client.buffer = << >>

ReadDone ==
  /\ pc = "line" /\ outbox = << >>
  /\ no_newline_left
  /\ index' = index + 1
  /\ pc' = "scan"
  /\ UNCHANGED <<g_running, members, read_set, error_set, disconnect_indices, metric,
                 rule_index, outbox, sockets, history, bounds>>

ScanDone ==
  /\ pc = "scan" /\ index > Len(clients_)
  /\ index' = 1
  /\ read_set' = {} /\ error_set' = {}
  /\ pc' = "drop"
  /\ UNCHANGED <<g_running, members, disconnect_indices, metric, rule_index, outbox, sockets,
                 history, bounds>>

-----------------------------------------------------------------------------
(* handle_line and handle_command: the line at the head of the buffer is   *)
(* removed and handled; what the handler sends goes to outbox.             *)

Dashboards == {clients_[i].fd : i \in {j \in DOMAIN clients_ : clients_[j].role = "Dashboard"}}

Reply(event) == [to |-> {client.fd}, event |-> event]
broadcast_to_dashboards(event) == [to |-> Dashboards, event |-> event]

Handling(type) ==
  /\ pc = "line" /\ outbox = << >>
  /\ client.buffer # << >>
  /\ Head(client.buffer).type = type

line == Head(client.buffer)

RemoveLine == clients_' = [clients_ EXCEPT ![index].buffer = Tail(@)]

SkipBlank ==
  /\ Handling("blank")
  /\ RemoveLine
  /\ UNCHANGED <<g_running, latest_metrics_, alert_rules_, active_alerts_, pc, locals, outbox,
                 sockets, history, bounds>>

registered_role ==
  CASE line.role = "agent" -> "Agent"
    [] line.role = "dashboard" -> "Dashboard"
    [] OTHER -> client.role

(* Mutant: a new dashboard gets the metrics but not the rules.             *)
snapshot_only(role) ==
  IF role = "Dashboard" THEN <<Reply(snapshot_event_to_json(latest_metrics_))>> ELSE << >>

catch_up(role) ==
  IF role = "Dashboard"
  THEN <<Reply(snapshot_event_to_json(latest_metrics_)), Reply(rules_event_to_json(alert_rules_))>>
  ELSE << >>

handle_register ==
  /\ Handling("register")
  /\ clients_' = [clients_ EXCEPT ![index] =
                    [client EXCEPT !.buffer = Tail(client.buffer),
                                   !.role = registered_role,
                                   !.declared_host = value_or(line.host, client.peer_label)]]
  /\ outbox' = <<Reply(ack_event_to_json([about |-> "registered as", role |-> line.role]))>>
                 \o catch_up(registered_role)
  /\ UNCHANGED <<g_running, latest_metrics_, alert_rules_, active_alerts_, pc, locals,
                 sockets, history, bounds>>

handle_metrics ==
  /\ Handling("metrics") /\ client.role = "Agent"
  /\ RemoveLine
  /\ metric' = metric_of(line, client.declared_host)
  /\ latest_metrics_' = [latest_metrics_ EXCEPT ![metric'.host] = metric']
  /\ outbox' = <<broadcast_to_dashboards(metric_event_to_json(metric'))>>
  /\ pc' = "rules"
  /\ UNCHANGED <<g_running, alert_rules_, active_alerts_, read_set, error_set, index,
                 disconnect_indices, rule_index, sockets, history, bounds>>

HandlingCommand(word) == Handling("command") /\ line.text.word = word

(* Mutant: the rules are announced as they were before the command.        *)
rules_before(rule) == alert_rules_

rules_after(rule) == Append(alert_rules_, rule)

AlertAccepted ==
  /\ HandlingCommand("/alert")
  /\ RemoveLine
  /\ LET rule == parse_alert_command(line.text) IN
       /\ rule # None
       /\ alert_rules_' = Append(alert_rules_, rule)
       /\ outbox' = <<broadcast_to_dashboards(chat_event_to_json("system")),
                      broadcast_to_dashboards(rules_event_to_json(rules_after(rule))),
                      Reply(ack_event_to_json([about |-> "rule added", rule |-> rule.raw_command]))>>
  /\ UNCHANGED <<g_running, latest_metrics_, active_alerts_, pc, locals, sockets, history, bounds>>

(* The handlers that only answer.                                          *)
Answer(job) ==
  /\ RemoveLine
  /\ outbox' = <<job>>
  /\ UNCHANGED <<g_running, latest_metrics_, alert_rules_, active_alerts_, pc, locals,
                 sockets, history, bounds>>

AlertRejected ==
  /\ HandlingCommand("/alert") /\ parse_alert_command(line.text) = None
  /\ Answer(Reply(error_event_to_json))

ListAlerts ==
  /\ HandlingCommand("/listalerts")
  /\ Answer(Reply(rules_event_to_json(alert_rules_)))

HostsReported == {h \in Host : latest_metrics_[h] # None}

CountClients ==
  /\ HandlingCommand("/clients")
  /\ Answer(Reply(ack_event_to_json([about |-> "connected agents", count |-> Cardinality(HostsReported)])))

UnknownCommand ==
  /\ HandlingCommand("other")
  /\ Answer(Reply(error_event_to_json))

handle_chat ==
  /\ Handling("chat")
  /\ LET name == IF client.declared_host = EmptyHost THEN client.peer_label ELSE client.declared_host
     IN  Answer(broadcast_to_dashboards(chat_event_to_json(value_or(line.from, name))))

Unsupported ==
  /\ Handling("unsupported") \/ (Handling("metrics") /\ client.role # "Agent")
  /\ Answer(Reply(error_event_to_json))

-----------------------------------------------------------------------------
(* evaluate_rules: one rule a step.                                        *)

(* Mutant: previous_match is not looked at.                                *)
raise_whenever_matched(matched, previous_match) == matched

raise_alert(matched, previous_match) == matched /\ ~previous_match

(* Mutant: a key that was set is never reset.                              *)
never_cleared(key, matched) ==
  IF matched THEN active_alerts_ \cup {key} ELSE active_alerts_

record_match(key, matched) ==
  IF matched THEN active_alerts_ \cup {key} ELSE active_alerts_ \ {key}

evaluate_rule ==
  /\ pc = "rules" /\ outbox = << >>
  /\ rule_index <= Len(alert_rules_)
  /\ LET rule == alert_rules_[rule_index]
         dedupe_key == <<metric.host, rule.raw_command>>
         matched == rule_matches(rule, metric)
     IN  /\ active_alerts_' = record_match(dedupe_key, matched)
         /\ IF raise_alert(matched, dedupe_key \in active_alerts_)
            THEN /\ outbox' = <<broadcast_to_dashboards(
                                  alert_event_to_json(metric.host, rule.raw_command))>>
                 /\ alerts' = Append(alerts, dedupe_key)
            ELSE UNCHANGED <<outbox, alerts>>
  /\ rule_index' = rule_index + 1
  /\ UNCHANGED <<g_running, clients_, latest_metrics_, alert_rules_, pc, read_set, error_set,
                 index, disconnect_indices, metric, sockets, mirror, failed, bounds>>

RulesDone ==
  /\ pc = "rules" /\ outbox = << >>
  /\ rule_index > Len(alert_rules_)
  /\ metric' = None /\ rule_index' = 1
  /\ pc' = "line"
  /\ UNCHANGED <<g_running, members, read_set, error_set, index, disconnect_indices, outbox,
                 sockets, history, bounds>>

-----------------------------------------------------------------------------
(* Sending.                                                                *)

(* send() to the next recipient, in the order of clients_.  It waits while *)
(* the peer's buffers are full and fails at once if the peer has gone; no  *)
(* caller looks at the result.                                             *)
send_line ==
  /\ outbox # << >>
  /\ \E i \in DOMAIN clients_ :
       LET fd == clients_[i].fd IN
       /\ fd \in outbox[1].to
       /\ \A j \in 1..(i - 1) : clients_[j].fd \notin outbox[1].to
       /\ outbox' = [outbox EXCEPT ![1].to = @ \ {fd}]
       /\ \/ /\ Alive(fd) /\ unread[fd] < SndCap
             /\ unread' = [unread EXCEPT ![fd] = @ + 1]
             /\ mirror' = [mirror EXCEPT ![fd] = _handle_event(@, outbox[1].event)]
          \/ ~Alive(fd) /\ UNCHANGED <<unread, mirror>>
  /\ UNCHANGED <<g_running, members, pc, locals, backlog, peer, inq, failed, alerts, bounds>>

SendDone ==
  /\ outbox # << >> /\ outbox[1].to = {}
  /\ outbox' = Tail(outbox)
  /\ UNCHANGED <<g_running, members, pc, locals, sockets, history, bounds>>

-----------------------------------------------------------------------------
(* Dropping clients and stopping.                                          *)

(* Mutant: the indices are used in the order they were found.              *)
begin == 1

rbegin == Len(disconnect_indices)

(* Mutant: the client is erased, its socket stays open.                    *)
not_closed(fds) == UNCHANGED <<peer, inq, unread>>

close_socket(fds) ==
  /\ peer' = [fd \in FD |-> IF fd \in fds THEN "closed" ELSE peer[fd]]
  /\ inq' = [fd \in FD |-> IF fd \in fds THEN << >> ELSE inq[fd]]
  /\ unread' = [fd \in FD |-> IF fd \in fds THEN 0 ELSE unread[fd]]

disconnect_client ==
  /\ pc = "drop" /\ disconnect_indices # << >>
  /\ LET i == disconnect_indices[rbegin] IN
       /\ close_socket({clients_[i].fd})
       /\ clients_' = RemoveAt(clients_, i)
       /\ failed' = failed \ {clients_[i].fd}
  /\ disconnect_indices' = RemoveAt(disconnect_indices, rbegin)
  /\ UNCHANGED <<g_running, latest_metrics_, alert_rules_, active_alerts_, pc, read_set,
                 error_set, index, metric, rule_index, outbox, backlog, mirror, alerts, bounds>>

DropDone ==
  /\ pc = "drop" /\ disconnect_indices = << >>
  /\ pc' = "top"
  /\ UNCHANGED <<g_running, members, locals, outbox, sockets, history, bounds>>

shutdown_all ==
  /\ pc = "shutdown"
  /\ close_socket(ClientFds)
  /\ clients_' = << >>
  /\ backlog' = 0
  /\ pc' = "stopped"
  /\ UNCHANGED <<g_running, latest_metrics_, alert_rules_, active_alerts_, locals, outbox,
                 history, bounds>>

(* The process has exited; nothing happens any more.                       *)
Exited == pc = "stopped" /\ UNCHANGED vars

-----------------------------------------------------------------------------
RunStep ==
  \/ start \/ LoopTest \/ select \/ accept_connection \/ AcceptFails
  \/ NotReady \/ ClientFails \/ read_client \/ ReadDone \/ ScanDone
  \/ disconnect_client \/ DropDone \/ shutdown_all

HandlerStep ==
  \/ SkipBlank \/ handle_register \/ handle_metrics
  \/ AlertAccepted \/ AlertRejected \/ ListAlerts \/ CountClients \/ UnknownCommand
  \/ handle_chat \/ Unsupported
  \/ evaluate_rule \/ RulesDone \/ send_line \/ SendDone

ServerStep == RunStep \/ HandlerStep

PeerStep ==
  \/ PeerConnect
  \/ \E fd \in FD : \/ \E l \in Lines : PeerSend(fd, l)
                    \/ PeerRecv(fd)
                    \/ \E fault \in Faults : PeerFault(fd, fault)

Next ==
  \/ ServerStep \/ PeerStep
  \/ signal_handler \/ SignalInterruptsSelect \/ SelectFails
  \/ Exited

Spec == Init /\ [][Next]_vars

(* The thread is scheduled; peers may do as they like, and nothing says    *)
(* that select() ever fails.                                               *)
FairServerSpec == Spec /\ WF_vars(ServerStep)

(* Moreover every peer goes on reading, as the thread of MonitorConnector  *)
(* does.  (An agent never reads; the one answer to its "register" fits its *)
(* buffers.)                                                               *)
FairSpec == FairServerSpec /\ \A fd \in FD : WF_vars(PeerRecv(fd))

-----------------------------------------------------------------------------
(* Connections.                                                            *)

(* clients_ and the open sockets are the same: accept_connection,          *)
(* disconnect_client and shutdown_all neither leak a descriptor nor keep a *)
(* client whose descriptor was closed and may belong to someone else.      *)
ClientsOwnSockets ==
  /\ \A i, j \in DOMAIN clients_ : clients_[i].fd = clients_[j].fd => i = j
  /\ ClientFds = {fd \in FD : peer[fd] # "closed"}

(* run() drops exactly the clients it found failing: the indices collected *)
(* during the scan still name them while earlier ones are being erased.    *)
DropsExactlyFailed ==
  /\ \A k \in DOMAIN disconnect_indices : disconnect_indices[k] \in DOMAIN clients_
  /\ failed = {clients_[disconnect_indices[k]].fd : k \in DOMAIN disconnect_indices}
  /\ pc \in {"top", "select", "accept"} => failed = {}

(* recv() in read_client never blocks the only thread: a client is read    *)
(* only if its socket is readable, also after a connection was accepted in *)
(* the same round, perhaps with a descriptor used before.                  *)
RecvNeverBlocks ==
  Scanning /\ client.fd \in read_set => Readable(client.fd)

(* Alerts.                                                                 *)

Justified(key) ==
  \E i \in DOMAIN alert_rules_ :
    /\ alert_rules_[i].raw_command = key[2]
    /\ latest_metrics_[key[1]] # None
    /\ rule_matches(alert_rules_[i], latest_metrics_[key[1]])

ToBeEvaluated(key) ==
  /\ pc = "rules" /\ key[1] = metric.host
  /\ \E i \in rule_index..Len(alert_rules_) : alert_rules_[i].raw_command = key[2]

(* active_alerts_ agrees with the metrics.  A key that maps to true is a   *)
(* registered rule holding for the host's latest metric, except for keys   *)
(* evaluate_rules has still to reach; the rules it has passed in this call *)
(* are true exactly if they match, even when a rule was registered twice.  *)
AlertsTrackMetrics ==
  /\ \A key \in active_alerts_ : Justified(key) \/ ToBeEvaluated(key)
  /\ pc = "rules" =>
       \A i \in 1..(rule_index - 1) :
         <<metric.host, alert_rules_[i].raw_command>> \in active_alerts_
           <=> rule_matches(alert_rules_[i], metric)

Board == INSTANCE AlertBoard WITH latest <- latest_metrics_, rules <- ToSet(alert_rules_),
                                  firing <- active_alerts_

(* The server implements AlertBoard: whatever lines arrive in whatever     *)
(* order, alerts are raised on rising edges of the latest metric only.     *)
ImplementsAlertBoard == Board!Spec

(* Dashboards.                                                             *)

(* Between two lines every dashboard that registered and is still there    *)
(* has been sent what it needs to show the server's metrics and rules,     *)
(* whenever it joined and whatever an earlier connection had told it.      *)
(* _handle_event ignores a metric without host name, a snapshot does not.  *)
SubscribersUpToDate ==
  outbox = << >> =>
    \A fd \in Dashboards :
      Alive(fd) =>
        /\ \A h \in Host \ {EmptyHost} : mirror[fd].metrics[h] = snapshot_items(latest_metrics_)[h]
        /\ mirror[fd].rules = rule_items(alert_rules_)

(* Liveness.                                                               *)

(* After SIGINT or SIGTERM the server closes its sockets and exits, also   *)
(* when the signal arrives between the loop's test and select().           *)
ShutsDown == ~g_running ~> pc = "stopped"

Arrived(fd) ==
  inq[fd] # << >> \/ \E i \in DOMAIN clients_ : clients_[i].fd = fd /\ clients_[i].buffer # << >>

(* No line stays behind in a socket or in a client's buffer, even when one *)
(* recv() returned several and nothing arrives after them.                 *)
LinesHandled == \A fd \in FD : Arrived(fd) ~> ~Arrived(fd)
=============================================================================
