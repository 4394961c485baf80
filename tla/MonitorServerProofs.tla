------------------------ MODULE MonitorServerProofs ------------------------
(* Proofs about MonitorServer, for every value of its constants.           *)
EXTENDS MonitorServer, SequenceTheorems, FiniteSetTheorems, TLAPS

-----------------------------------------------------------------------------
(* Sequences.                                                              *)

(* RemoveAt is the erase() of disconnect_client: the elements behind the   *)
(* erased one move up by one place.                                        *)
LEMMA RemoveAtProperties ==
  ASSUME NEW S, NEW s \in Seq(S), NEW i \in 1..Len(s)
  PROVE  /\ RemoveAt(s, i) \in Seq(S)
         /\ Len(RemoveAt(s, i)) = Len(s) - 1
         /\ \A j \in 1..(Len(s) - 1) : RemoveAt(s, i)[j] = IF j < i THEN s[j] ELSE s[j + 1]
<1> DEFINE front == SubSeq(s, 1, i - 1)
           back == SubSeq(s, i + 1, Len(s))
<1>1. /\ front \in Seq(S)
      /\ Len(front) = i - 1
      /\ \A j \in 1..(i - 1) : front[j] = s[j]
  <2>1. \A j \in 1..(i - 1) : s[j] \in S
    BY ElementOfSeq
  <2>2. 1 \in Int /\ i - 1 \in Int
    OBVIOUS
  <2>3. QED
    BY <2>1, <2>2, SubSeqProperties
<1>2. /\ back \in Seq(S)
      /\ Len(back) = Len(s) - i
      /\ \A j \in 1..(Len(s) - i) : back[j] = s[i + j]
  <2>1. \A j \in (i + 1)..Len(s) : s[j] \in S
    BY ElementOfSeq
  <2>2. i + 1 \in Int /\ Len(s) \in Int
    OBVIOUS
  <2>3. QED
    BY <2>1, <2>2, SubSeqProperties
<1>3. RemoveAt(s, i) = front \o back
  BY DEF RemoveAt
<1> HIDE DEF front, back
<1>4. /\ front \o back \in Seq(S)
      /\ Len(front \o back) = Len(s) - 1
      /\ \A j \in 1..(Len(s) - 1) :
           (front \o back)[j] = IF j <= i - 1 THEN front[j] ELSE back[j - (i - 1)]
  <2>1. /\ front \o back \in Seq(S)
        /\ Len(front \o back) = Len(front) + Len(back)
        /\ \A j \in 1..(Len(front) + Len(back)) :
             (front \o back)[j] = IF j <= Len(front) THEN front[j] ELSE back[j - Len(front)]
    BY <1>1, <1>2, ConcatProperties
  <2>2. Len(front) + Len(back) = Len(s) - 1
    BY <1>1, <1>2
  <2>3. QED
    BY <2>1, <2>2, <1>1
<1>5. ASSUME NEW j \in 1..(Len(s) - 1)
      PROVE  RemoveAt(s, i)[j] = IF j < i THEN s[j] ELSE s[j + 1]
  <2>1. CASE j < i
    BY <2>1, <1>1, <1>3, <1>4
  <2>2. CASE ~(j < i)
    <3>1. j - (i - 1) \in 1..(Len(s) - i) /\ i + (j - (i - 1)) = j + 1
      BY <2>2
    <3>2. QED
      BY <3>1, <2>2, <1>2, <1>3, <1>4
  <2>3. QED
    BY <2>1, <2>2
<1>6. QED
  BY <1>3, <1>4, <1>5

LEMMA ShortSequences ==
  ASSUME NEW S, NEW a \in S, NEW b \in S, NEW c \in S
  PROVE  /\ <<a>> \in Seq(S) /\ <<a, b>> \in Seq(S) /\ <<a, b, c>> \in Seq(S)
         /\ << >> \in Seq(S)
OBVIOUS

-----------------------------------------------------------------------------
(* The functions of common.hpp have the types their names promise.         *)

LEMMA TrimType ==
  ASSUME NEW text \in AlertText
  PROVE  trim(text) \in RawCommand
BY DEF trim, AlertText, RawCommand

LEMMA MetricKeyType ==
  ASSUME NEW token \in Token
  PROVE  metric_key_of(token) \in MetricKey \cup {None}
BY DEF metric_key_of, MetricKey, Token

LEMMA ParseType ==
  ASSUME NEW text \in AlertText
  PROVE  parse_alert_command(text) \in AlertRule \cup {None}
<1>1. text.token \in Token /\ text.comparison \in Comparison /\ text.threshold \in Level
  BY DEF AlertText
<1>2. QED
  BY <1>1, TrimType, MetricKeyType DEF parse_alert_command, AlertRule

LEMMA MetricOfType ==
  ASSUME NEW l \in Line, l.type = "metrics", NEW host \in Host
  PROVE  metric_of(l, host) \in MetricSnapshot
<1>1. l.host \in Host \cup {None} /\ l.values \in Reading
  BY DEF Line
<1>2. value_or(l.host, host) \in Host
  BY <1>1 DEF value_or
<1>3. [key \in MetricKey |-> IF key \in DOMAIN l.values THEN l.values[key] ELSE 0]
        \in [MetricKey -> Level]
  BY <1>1, ProtocolAssumption DEF Reading
<1>4. QED
  BY <1>2, <1>3 DEF metric_of, MetricSnapshot

LEMMA FormatType ==
  ASSUME NEW value \in Level
  PROVE  format_double(value) \in Int
BY ProtocolAssumption DEF format_double

LEMMA MetricDataType ==
  ASSUME NEW m \in MetricSnapshot
  PROVE  metric_data_to_json(m) \in MetricData
BY FormatType DEF MetricSnapshot, MetricData, metric_data_to_json

LEMMA SnapshotType ==
  ASSUME NEW metrics \in Metrics
  PROVE  snapshot_items(metrics) \in SnapshotItems
BY MetricDataType DEF Metrics, SnapshotItems, snapshot_items

LEMMA RuleItemsType ==
  ASSUME NEW rules \in Seq(AlertRule)
  PROVE  rule_items(rules) \in Seq(RuleItem)
<1> DEFINE item(i) == [command    |-> rules[i].raw_command,
                       metric_key |-> rules[i].metric_key,
                       threshold  |-> format_double(rules[i].threshold)]
<1>1. ASSUME NEW i \in 1..Len(rules)
      PROVE  item(i) \in RuleItem
  <2>1. rules[i] \in AlertRule
    BY ElementOfSeq
  <2>2. QED
    BY <2>1, FormatType DEF AlertRule, RuleItem
<1>2. DOMAIN rules = 1..Len(rules) /\ Len(rules) \in Nat
  BY LenProperties
<1>3. [i \in 1..Len(rules) |-> item(i)] \in Seq(RuleItem)
  BY <1>1, <1>2, IsASeq
<1>4. QED
  BY <1>2, <1>3 DEF rule_items

(* Every constructor yields an Event.                                      *)
LEMMA EventTypes ==
  /\ \A metrics \in Metrics : snapshot_event_to_json(metrics) \in Event
  /\ \A rules \in Seq(AlertRule) : rules_event_to_json(rules) \in Event
  /\ \A m \in MetricSnapshot : metric_event_to_json(m) \in Event
  /\ \A h \in Host, raw \in RawCommand : alert_event_to_json(h, raw) \in Event
  /\ \A sender \in Host \cup {"system"} : chat_event_to_json(sender) \in Event
  /\ \A message \in AckMessage : ack_event_to_json(message) \in Event
  /\ error_event_to_json \in Event
<1>1. \A metrics \in Metrics : snapshot_event_to_json(metrics) \in Event
  BY SnapshotType DEF snapshot_event_to_json, Event
<1>2. \A rules \in Seq(AlertRule) : rules_event_to_json(rules) \in Event
  BY RuleItemsType DEF rules_event_to_json, Event
<1>3. \A m \in MetricSnapshot : metric_event_to_json(m) \in Event
  BY MetricDataType DEF metric_event_to_json, Event
<1>4. \A h \in Host, raw \in RawCommand : alert_event_to_json(h, raw) \in Event
  BY DEF alert_event_to_json, Event
<1>5. \A sender \in Host \cup {"system"} : chat_event_to_json(sender) \in Event
  BY DEF chat_event_to_json, Event
<1>6. \A message \in AckMessage : ack_event_to_json(message) \in Event
  BY DEF ack_event_to_json, Event
<1>7. error_event_to_json \in Event
  BY DEF error_event_to_json, Event
<1>8. QED
  BY <1>1, <1>2, <1>3, <1>4, <1>5, <1>6, <1>7

LEMMA HandleEventType ==
  ASSUME NEW view \in View, NEW event \in Event
  PROVE  _handle_event(view, event) \in View
BY DEF _handle_event, View, Event, SnapshotItems, MetricData

-----------------------------------------------------------------------------
(* Types.                                                                  *)

(* What the thread relies on at each place: a connection waits when        *)
(* accept() is called, handlers run for an existing client and the metric  *)
(* just stored, nothing is left to send between two handlers, and the      *)
(* indices collected so far are increasing, valid and behind the scan.     *)
ControlInv ==
  /\ pc = "accept" => backlog > 0
  /\ pc \in {"line", "rules"} => index \in 1..Len(clients_)
  /\ pc = "rules" => metric \in MetricSnapshot /\ latest_metrics_[metric.host] = metric
  /\ pc # "rules" => rule_index = 1
  /\ pc \notin {"line", "rules"} => outbox = << >>
  /\ pc \notin {"scan", "line", "rules", "drop"} => disconnect_indices = << >>
  /\ \A k \in 1..Len(disconnect_indices) :
       /\ disconnect_indices[k] \in 1..Len(clients_)
       /\ pc # "drop" => disconnect_indices[k] < index
  /\ \A j, k \in 1..Len(disconnect_indices) :
       j < k => disconnect_indices[j] < disconnect_indices[k]

(* The hosts that have reported can be counted, as /clients does.          *)
FiniteInv == IsFiniteSet(HostsReported)

LEMMA InitTypes == Init => TypeOK /\ ControlInv /\ FiniteInv
<1> SUFFICES ASSUME Init PROVE TypeOK /\ ControlInv /\ FiniteInv
  OBVIOUS
<1>1. EmptyView \in View
  BY DEF EmptyView, View, SnapshotItems
<1>2. TypeOK
  BY <1>1, MonitorServerAssumption DEF Init, TypeOK, Metrics, Control, PeerState
<1>3. ControlInv
  BY DEF Init, ControlInv
<1>4. HostsReported = {}
  BY DEF Init, HostsReported
<1>5. QED
  BY <1>2, <1>3, <1>4, FS_EmptySet DEF FiniteInv

LEMMA ClientAt ==
  ASSUME TypeOK
  PROVE  /\ DOMAIN clients_ = 1..Len(clients_) /\ Len(clients_) \in Nat
         /\ \A i \in 1..Len(clients_) : clients_[i] \in ClientConnection /\ clients_[i].fd \in FD
<1>1. clients_ \in Seq(ClientConnection)
  BY DEF TypeOK
<1>2. \A i \in 1..Len(clients_) : clients_[i] \in ClientConnection
  BY <1>1, ElementOfSeq
<1>3. QED
  BY <1>1, <1>2, LenProperties DEF ClientConnection

LEMMA ClientFdsType ==
  ASSUME TypeOK
  PROVE  ClientFds \subseteq FD /\ Dashboards \subseteq FD
BY ClientAt DEF ClientFds, Dashboards

(* While a client is being served it is one of clients_.                   *)
LEMMA ClientType ==
  ASSUME TypeOK, ControlInv, pc \in {"line", "rules"}
  PROVE  client \in ClientConnection /\ index \in 1..Len(clients_)
BY ElementOfSeq DEF TypeOK, ControlInv, client

(* A handler runs on one of the lines peers may send.                      *)
LEMMA LineType ==
  ASSUME TypeOK, ControlInv, NEW type, Handling(type)
  PROVE  /\ pc = "line" /\ outbox = << >>
         /\ line \in Line /\ line.type = type
         /\ Tail(client.buffer) \in Seq(Lines)
<1>1. client.buffer \in Seq(Lines) /\ client.buffer # << >>
  BY ClientType DEF Handling, ClientConnection
<1>2. QED
  BY <1>1, HeadTailProperties, MonitorServerAssumption DEF Handling, line

(* Assigning a new record to the client being served.                      *)
LEMMA UpdateClient ==
  ASSUME TypeOK, ControlInv, pc \in {"line", "rules"},
         NEW c \in ClientConnection, clients_' = [clients_ EXCEPT ![index] = c]
  PROVE  /\ clients_' \in Seq(ClientConnection)
         /\ Len(clients_') = Len(clients_)
         /\ \A i \in 1..Len(clients_) : clients_'[i] = IF i = index THEN c ELSE clients_[i]
BY ClientType, ExceptSeq DEF TypeOK

LEMMA RemoveLineType ==
  ASSUME TypeOK, ControlInv, NEW type, Handling(type), RemoveLine
  PROVE  /\ clients_' \in Seq(ClientConnection)
         /\ Len(clients_') = Len(clients_)
         /\ \A i \in 1..Len(clients_) :
              clients_'[i] = IF i = index THEN [client EXCEPT !.buffer = Tail(client.buffer)]
                                          ELSE clients_[i]
<1> DEFINE c == [client EXCEPT !.buffer = Tail(client.buffer)]
<1>1. client \in ClientConnection /\ Tail(client.buffer) \in Seq(Lines) /\ pc = "line"
  BY ClientType, LineType
<1>2. c \in ClientConnection
  BY <1>1 DEF ClientConnection
<1>3. clients_' = [clients_ EXCEPT ![index] = c]
  BY DEF RemoveLine, client
<1> HIDE DEF c
<1>4. QED
  BY <1>1, <1>2, <1>3, UpdateClient DEF c

LEMMA JobTypes ==
  ASSUME TypeOK, ControlInv, pc \in {"line", "rules"}, NEW event \in Event
  PROVE  Reply(event) \in Job /\ broadcast_to_dashboards(event) \in Job
BY ClientType, ClientFdsType DEF Reply, broadcast_to_dashboards, Job, ClientConnection

(* A handler that only answers.                                            *)
LEMMA AnswerTypes ==
  ASSUME TypeOK, ControlInv, NEW type, Handling(type), NEW job \in Job, Answer(job)
  PROVE  TypeOK' /\ ControlInv'
<1>1. clients_' \in Seq(ClientConnection) /\ Len(clients_') = Len(clients_)
  BY RemoveLineType DEF Answer
<1>2. outbox' \in Seq(Job)
  BY DEF Answer
<1>3. pc = "line"
  BY LineType
<1> USE DEF Answer, locals, sockets, history, bounds
<1>4. TypeOK'
  BY <1>1, <1>2 DEF TypeOK
<1>5. ControlInv'
  BY <1>1, <1>3 DEF ControlInv
<1>6. QED
  BY <1>4, <1>5

LEMMA StepTypes == TypeOK /\ ControlInv /\ FiniteInv /\ [Next]_vars => TypeOK' /\ ControlInv'
<1> SUFFICES ASSUME TypeOK, ControlInv, FiniteInv, [Next]_vars PROVE TypeOK' /\ ControlInv'
  OBVIOUS
<1> USE DEF members, locals, sockets, history, bounds
<1>1. CASE signal_handler
  BY <1>1, MonitorServerAssumption DEF signal_handler, TypeOK, ControlInv, Control, PeerState
<1>2. CASE SignalInterruptsSelect
  BY <1>2, MonitorServerAssumption DEF SignalInterruptsSelect, TypeOK, ControlInv, Control, PeerState
<1>3. CASE PeerConnect
  BY <1>3, MonitorServerAssumption DEF PeerConnect, TypeOK, ControlInv, Control, PeerState
<1>4. CASE start
  BY <1>4, MonitorServerAssumption DEF start, TypeOK, ControlInv, Control, PeerState
<1>5. CASE LoopTest
  BY <1>5, MonitorServerAssumption DEF LoopTest, TypeOK, ControlInv, Control, PeerState
<1>6. CASE select
  <2>1. TypeOK'
    BY <1>6, ClientFdsType DEF select, ready_to_read, TypeOK, Control
  <2>2. ControlInv'
    BY <1>6 DEF select, ControlInv
  <2>3. QED
    BY <2>1, <2>2
<1>7. CASE SelectFails
  BY <1>7, MonitorServerAssumption DEF SelectFails, TypeOK, ControlInv, Control, PeerState
<1>8. CASE accept_connection
  <2>1. PICK fd \in FD, label \in PeerLabel :
          /\ clients_' = Append(clients_, [fd |-> fd, role |-> "Unknown", peer_label |-> label,
                                           declared_host |-> EmptyHost, buffer |-> << >>])
          /\ peer' = [peer EXCEPT ![fd] = "open"]
    BY <1>8 DEF accept_connection
  <2> DEFINE c == [fd |-> fd, role |-> "Unknown", peer_label |-> label,
                   declared_host |-> EmptyHost, buffer |-> << >>]
  <2>2. c \in ClientConnection
    BY ProtocolAssumption DEF ClientConnection, ClientRole
  <2> HIDE DEF c
  <2>3. clients_' \in Seq(ClientConnection) /\ Len(clients_') = Len(clients_) + 1
    BY <2>1, <2>2, AppendProperties DEF TypeOK, c
  <2>4. TypeOK'
    BY <1>8, <2>1, <2>3 DEF accept_connection, TypeOK, ControlInv, Control, PeerState
  <2>5. ControlInv'
    BY <1>8, <2>3 DEF accept_connection, TypeOK, ControlInv
  <2>6. QED
    BY <2>4, <2>5
<1>9. CASE AcceptFails
  BY <1>9, MonitorServerAssumption DEF AcceptFails, TypeOK, ControlInv, Control, PeerState
<1>10. CASE NotReady
  <2>1. TypeOK'
    BY <1>10 DEF NotReady, TypeOK
  <2>2. ControlInv'
    BY <1>10 DEF NotReady, Scanning, TypeOK, ControlInv
  <2>3. QED
    BY <2>1, <2>2
<1>11. CASE ClientFails
  <2>1. index \in 1..Len(clients_) /\ pc = "scan"
    BY <1>11 DEF ClientFails, Scanning, TypeOK
  <2>2. client \in ClientConnection
    BY <2>1, ElementOfSeq DEF client, TypeOK
  <2>3. /\ disconnect_indices' \in Seq(Nat \ {0})
        /\ Len(disconnect_indices') = Len(disconnect_indices) + 1
        /\ \A k \in 1..Len(disconnect_indices) : disconnect_indices'[k] = disconnect_indices[k]
        /\ disconnect_indices'[Len(disconnect_indices) + 1] = index
    BY <1>11, AppendProperties DEF ClientFails, TypeOK
  <2>4. TypeOK'
    BY <1>11, <2>2, <2>3 DEF ClientFails, TypeOK, ClientConnection
  <2>5. /\ \A k \in 1..Len(disconnect_indices') :
             /\ disconnect_indices'[k] \in 1..Len(clients_)
             /\ disconnect_indices'[k] < index + 1
        /\ \A j, k \in 1..Len(disconnect_indices') :
             j < k => disconnect_indices'[j] < disconnect_indices'[k]
    <3>1. Len(disconnect_indices) \in Nat
      BY LenProperties DEF TypeOK
    <3>2. \A k \in 1..Len(disconnect_indices) :
            /\ disconnect_indices[k] \in 1..Len(clients_)
            /\ disconnect_indices[k] < index
            /\ \A j \in 1..Len(disconnect_indices) :
                 j < k => disconnect_indices[j] < disconnect_indices[k]
      BY <2>1 DEF ControlInv
    <3>3. \A k \in 1..Len(disconnect_indices') :
            k \in 1..Len(disconnect_indices) \/ k = Len(disconnect_indices) + 1
      BY <3>1, <2>3
    <3>4. index \in Nat /\ Len(clients_) \in Nat
      BY ClientAt DEF TypeOK
    <3>5. \A k \in 1..Len(disconnect_indices') :
            disconnect_indices'[k] \in 1..Len(clients_) /\ disconnect_indices'[k] < index + 1
      BY <3>1, <3>2, <3>3, <3>4, <2>1, <2>3
    <3>6. ASSUME NEW j \in 1..Len(disconnect_indices'), NEW k \in 1..Len(disconnect_indices'),
                 j < k
          PROVE  disconnect_indices'[j] < disconnect_indices'[k]
      <4>1. j \in 1..Len(disconnect_indices)
        BY <3>1, <3>3, <3>6, <2>3
      <4>2. disconnect_indices'[j] = disconnect_indices[j] /\ disconnect_indices[j] < index
        BY <4>1, <3>2, <2>3
      <4>3. CASE k \in 1..Len(disconnect_indices)
        BY <4>1, <4>2, <4>3, <3>2, <3>6, <2>3
      <4>4. CASE k = Len(disconnect_indices) + 1
        BY <4>2, <4>4, <2>3
      <4>5. QED
        BY <4>3, <4>4, <3>3
    <3>7. QED
      BY <3>5, <3>6
  <2>6. ControlInv'
    BY <1>11, <2>1, <2>5 DEF ClientFails, ControlInv
  <2>7. QED
    BY <2>4, <2>6
<1>12. CASE read_client
  <2>1. index \in 1..Len(clients_) /\ pc = "scan"
    BY <1>12 DEF read_client, Scanning, TypeOK
  <2>2. client \in ClientConnection
    BY <2>1, ElementOfSeq DEF client, TypeOK
  <2>3. client.fd \in FD /\ client.buffer \in Seq(Lines) /\ inq[client.fd] \in Seq(Lines)
    BY <2>2 DEF ClientConnection, TypeOK
  <2>4. PICK n \in 1..Len(inq[client.fd]) :
          /\ clients_' = [clients_ EXCEPT ![index].buffer = @ \o SubSeq(inq[client.fd], 1, n)]
          /\ inq' = [inq EXCEPT ![client.fd] = SubSeq(@, n + 1, Len(@))]
    BY <1>12 DEF read_client
  <2> DEFINE c == [client EXCEPT !.buffer = client.buffer \o SubSeq(inq[client.fd], 1, n)]
  <2>5. SubSeq(inq[client.fd], 1, n) \in Seq(Lines)
        /\ SubSeq(inq[client.fd], n + 1, Len(inq[client.fd])) \in Seq(Lines)
    BY <2>3, ElementOfSeq, SubSeqProperties
  <2>6. c \in ClientConnection
    BY <2>2, <2>3, <2>5, ConcatProperties DEF ClientConnection
  <2>7. clients_' = [clients_ EXCEPT ![index] = c]
    BY <2>4 DEF client
  <2> HIDE DEF c
  <2>8. clients_' \in Seq(ClientConnection) /\ Len(clients_') = Len(clients_)
    BY <2>1, <2>6, <2>7, ExceptSeq DEF TypeOK
  <2>9. inq' \in [FD -> Seq(Lines)]
    BY <2>3, <2>4, <2>5 DEF TypeOK
  <2>10. TypeOK'
    BY <1>12, <2>8, <2>9 DEF read_client, TypeOK, Control
  <2>11. ControlInv'
    BY <1>12, <2>1, <2>8 DEF read_client, ControlInv
  <2>12. QED
    BY <2>10, <2>11
<1>13. CASE ReadDone
  BY <1>13, MonitorServerAssumption DEF ReadDone, TypeOK, ControlInv, Control, PeerState
<1>14. CASE ScanDone
  BY <1>14, MonitorServerAssumption DEF ScanDone, TypeOK, ControlInv, Control, PeerState
<1>15. CASE SkipBlank
  <2>1. clients_' \in Seq(ClientConnection) /\ Len(clients_') = Len(clients_) /\ pc = "line"
    BY <1>15, RemoveLineType, LineType DEF SkipBlank
  <2>2. TypeOK'
    BY <1>15, <2>1 DEF SkipBlank, TypeOK
  <2>3. ControlInv'
    BY <1>15, <2>1 DEF SkipBlank, ControlInv
  <2>4. QED
    BY <2>2, <2>3
<1>16. CASE handle_register
  <2>1. /\ client \in ClientConnection /\ pc = "line" /\ line \in Line /\ line.type = "register"
        /\ Tail(client.buffer) \in Seq(Lines)
    BY <1>16, ClientType, LineType DEF handle_register, Handling
  <2>2. line.role \in RoleName /\ line.host \in Host \cup {None}
    BY <2>1 DEF Line
  <2>3. registered_role \in ClientRole
    BY <2>1 DEF registered_role, ClientRole, ClientConnection
  <2>4. value_or(line.host, client.peer_label) \in Host
    BY <2>1, <2>2, MonitorServerAssumption DEF value_or, ClientConnection
  <2> DEFINE c == [client EXCEPT !.buffer = Tail(client.buffer), !.role = registered_role,
                                 !.declared_host = value_or(line.host, client.peer_label)]
  <2>5. c \in ClientConnection
    BY <2>1, <2>3, <2>4 DEF ClientConnection
  <2>6. clients_' = [clients_ EXCEPT ![index] = c]
    BY <1>16 DEF handle_register
  <2> HIDE DEF c
  <2>7. clients_' \in Seq(ClientConnection) /\ Len(clients_') = Len(clients_)
    BY <2>1, <2>5, <2>6, UpdateClient
  <2>8. [about |-> "registered as", role |-> line.role] \in AckMessage
    BY <2>2 DEF AckMessage
  <2>9. /\ Reply(ack_event_to_json([about |-> "registered as", role |-> line.role])) \in Job
        /\ Reply(snapshot_event_to_json(latest_metrics_)) \in Job
        /\ Reply(rules_event_to_json(alert_rules_)) \in Job
    BY <2>1, <2>8, EventTypes, JobTypes DEF TypeOK
  <2>10. catch_up(registered_role) \in Seq(Job)
    BY <2>9, ShortSequences DEF catch_up
  <2>11. outbox' \in Seq(Job)
    BY <1>16, <2>9, <2>10, ShortSequences, ConcatProperties DEF handle_register
  <2>12. TypeOK'
    BY <1>16, <2>7, <2>11 DEF handle_register, TypeOK
  <2>13. ControlInv'
    BY <1>16, <2>1, <2>7 DEF handle_register, ControlInv
  <2>14. QED
    BY <2>12, <2>13
<1>17. CASE handle_metrics
  <2>1. /\ client \in ClientConnection /\ pc = "line" /\ line \in Line /\ line.type = "metrics"
    BY <1>17, ClientType, LineType DEF handle_metrics, Handling
  <2>2. metric' \in MetricSnapshot
    BY <1>17, <2>1, MetricOfType DEF handle_metrics, ClientConnection
  <2>3. metric'.host \in Host
    BY <2>2 DEF MetricSnapshot
  <2>4. latest_metrics_' \in Metrics /\ latest_metrics_'[metric'.host] = metric'
    BY <1>17, <2>2, <2>3 DEF handle_metrics, TypeOK, Metrics
  <2>5. clients_' \in Seq(ClientConnection) /\ Len(clients_') = Len(clients_)
    BY <1>17, RemoveLineType DEF handle_metrics
  <2>6. outbox' \in Seq(Job)
    BY <1>17, <2>1, <2>2, EventTypes, JobTypes DEF handle_metrics
  <2>7. TypeOK'
    BY <1>17, <2>2, <2>4, <2>5, <2>6 DEF handle_metrics, TypeOK, Control
  <2>8. ControlInv'
    BY <1>17, <2>1, <2>2, <2>4, <2>5 DEF handle_metrics, ControlInv
  <2>9. QED
    BY <2>7, <2>8
<1>18. CASE AlertAccepted
  <2> DEFINE rule == parse_alert_command(line.text)
  <2>1. pc = "line" /\ line \in Line /\ line.type = "command" /\ line.text.word = "/alert"
    BY <1>18, LineType DEF AlertAccepted, HandlingCommand
  <2>2. line.text \in AlertText
    BY <2>1 DEF Line, Text, AlertText
  <2>3. rule \in AlertRule
    BY <1>18, <2>2, ParseType DEF AlertAccepted
  <2> HIDE DEF rule
  <2>4. /\ Append(alert_rules_, rule) \in Seq(AlertRule)
        /\ rule.raw_command \in RawCommand
    BY <2>3, AppendProperties DEF TypeOK, AlertRule
  <2>5. [about |-> "rule added", rule |-> rule.raw_command] \in AckMessage
    BY <2>4 DEF AckMessage
  <2>6. /\ broadcast_to_dashboards(chat_event_to_json("system")) \in Job
        /\ broadcast_to_dashboards(rules_event_to_json(rules_after(rule))) \in Job
        /\ Reply(ack_event_to_json([about |-> "rule added", rule |-> rule.raw_command])) \in Job
    BY <2>1, <2>4, <2>5, EventTypes, JobTypes DEF rules_after
  <2>7. outbox' \in Seq(Job) /\ alert_rules_' \in Seq(AlertRule)
    BY <1>18, <2>4, <2>6, ShortSequences DEF AlertAccepted, rule
  <2>8. clients_' \in Seq(ClientConnection) /\ Len(clients_') = Len(clients_)
    BY <1>18, RemoveLineType DEF AlertAccepted, HandlingCommand
  <2>9. TypeOK'
    BY <1>18, <2>7, <2>8 DEF AlertAccepted, TypeOK
  <2>10. ControlInv'
    BY <1>18, <2>1, <2>8 DEF AlertAccepted, ControlInv
  <2>11. QED
    BY <2>9, <2>10
<1>19. CASE AlertRejected
  <2>1. Handling("command") /\ Answer(Reply(error_event_to_json))
    BY <1>19 DEF AlertRejected, HandlingCommand
  <2>2. Reply(error_event_to_json) \in Job
    BY <2>1, LineType, EventTypes, JobTypes
  <2>3. QED
    BY <2>1, <2>2, AnswerTypes
<1>20. CASE ListAlerts
  <2>1. Handling("command") /\ Answer(Reply(rules_event_to_json(alert_rules_)))
    BY <1>20 DEF ListAlerts, HandlingCommand
  <2>2. Reply(rules_event_to_json(alert_rules_)) \in Job
    BY <2>1, LineType, EventTypes, JobTypes DEF TypeOK
  <2>3. QED
    BY <2>1, <2>2, AnswerTypes
<1>21. CASE CountClients
  <2> DEFINE message == [about |-> "connected agents", count |-> Cardinality(HostsReported)]
  <2>1. Handling("command") /\ Answer(Reply(ack_event_to_json(message)))
    BY <1>21 DEF CountClients, HandlingCommand
  <2>2. message \in AckMessage
    <3>1. Cardinality(HostsReported) \in Nat
      BY FS_CardinalityType DEF FiniteInv
    <3>2. QED
      BY <3>1 DEF AckMessage
  <2> HIDE DEF message
  <2>3. Reply(ack_event_to_json(message)) \in Job
    BY <2>1, <2>2, LineType, EventTypes, JobTypes
  <2>4. QED
    BY <2>1, <2>3, AnswerTypes
<1>22. CASE UnknownCommand
  <2>1. Handling("command") /\ Answer(Reply(error_event_to_json))
    BY <1>22 DEF UnknownCommand, HandlingCommand
  <2>2. Reply(error_event_to_json) \in Job
    BY <2>1, LineType, EventTypes, JobTypes
  <2>3. QED
    BY <2>1, <2>2, AnswerTypes
<1>23. CASE handle_chat
  <2> DEFINE name == IF client.declared_host = EmptyHost THEN client.peer_label ELSE client.declared_host
             job == broadcast_to_dashboards(chat_event_to_json(value_or(line.from, name)))
  <2>1. Handling("chat") /\ Answer(job)
    BY <1>23 DEF handle_chat
  <2>2. pc = "line" /\ line \in Line /\ line.type = "chat" /\ client \in ClientConnection
    BY <2>1, LineType, ClientType
  <2>3. name \in Host /\ line.from \in Host \cup {None}
    BY <2>2, MonitorServerAssumption DEF Line, ClientConnection
  <2>4. job \in Job
    BY <2>2, <2>3, EventTypes, JobTypes DEF value_or
  <2> HIDE DEF job
  <2>5. QED
    BY <2>1, <2>4, AnswerTypes
<1>24. CASE Unsupported
  <2>1. PICK type : Handling(type)
    BY <1>24 DEF Unsupported
  <2>2. Reply(error_event_to_json) \in Job
    BY <2>1, LineType, EventTypes, JobTypes
  <2>3. Answer(Reply(error_event_to_json))
    BY <1>24 DEF Unsupported
  <2>4. QED
    BY <2>1, <2>2, <2>3, AnswerTypes
<1>25. CASE evaluate_rule
  <2> DEFINE rule == alert_rules_[rule_index]
             key == <<metric.host, rule.raw_command>>
             alert == broadcast_to_dashboards(alert_event_to_json(metric.host, rule.raw_command))
  <2>1. /\ pc = "rules" /\ metric \in MetricSnapshot /\ rule \in AlertRule
    BY <1>25, ElementOfSeq DEF evaluate_rule, ControlInv, TypeOK
  <2>2. metric.host \in Host /\ rule.raw_command \in RawCommand
    BY <2>1 DEF MetricSnapshot, AlertRule
  <2>3. key \in AlertKey /\ alert \in Job
    BY <2>1, <2>2, EventTypes, JobTypes DEF AlertKey
  <2>4. active_alerts_' \in SUBSET AlertKey
    BY <1>25, <2>3 DEF evaluate_rule, record_match, TypeOK
  <2>5. /\ outbox' = <<alert>> \/ outbox' = outbox
        /\ alerts' = Append(alerts, key) \/ alerts' = alerts
    BY <1>25 DEF evaluate_rule
  <2>6. /\ rule_index' = rule_index + 1
        /\ UNCHANGED <<g_running, clients_, latest_metrics_, alert_rules_, pc, read_set, error_set,
                       index, disconnect_indices, metric, sockets, mirror, failed, bounds>>
    BY <1>25 DEF evaluate_rule
  <2> HIDE DEF key, alert
  <2>7. outbox' \in Seq(Job) /\ alerts' \in Seq(AlertKey)
    <3>1. outbox \in Seq(Job) /\ <<alert>> \in Seq(Job)
      BY <2>3, ShortSequences DEF TypeOK
    <3>2. alerts \in Seq(AlertKey) /\ Append(alerts, key) \in Seq(AlertKey)
      BY <2>3, AppendProperties DEF TypeOK
    <3>3. QED
      BY <3>1, <3>2, <2>5
  <2>8. TypeOK'
    BY <2>4, <2>6, <2>7 DEF TypeOK
  <2>9. ControlInv'
    BY <2>1, <2>6 DEF ControlInv
  <2>10. QED
    BY <2>8, <2>9
<1>26. CASE RulesDone
  <2>1. TypeOK'
    BY <1>26 DEF RulesDone, TypeOK, Control
  <2>2. ControlInv'
    BY <1>26 DEF RulesDone, ControlInv
  <2>3. QED
    BY <2>1, <2>2
<1>27. CASE send_line
  <2>1. PICK i \in DOMAIN clients_ :
          LET fd == clients_[i].fd IN
          /\ outbox' = [outbox EXCEPT ![1].to = @ \ {fd}]
          /\ \/ /\ unread[fd] < SndCap
                /\ unread' = [unread EXCEPT ![fd] = @ + 1]
                /\ mirror' = [mirror EXCEPT ![fd] = _handle_event(@, outbox[1].event)]
             \/ UNCHANGED <<unread, mirror>>
    BY <1>27 DEF send_line
  <2> DEFINE fd == clients_[i].fd
             job == [outbox[1] EXCEPT !.to = outbox[1].to \ {fd}]
  <2>2. fd \in FD
    BY ClientAt
  <2>3. 1 \in 1..Len(outbox) /\ outbox[1] \in Job
    BY <1>27, EmptySeq, ElementOfSeq DEF send_line, TypeOK
  <2>4. job \in Job /\ outbox[1].event \in Event
    BY <2>3 DEF Job
  <2>5. outbox' = [outbox EXCEPT ![1] = job]
    BY <2>1
  <2> HIDE DEF job
  <2>6. outbox' \in Seq(Job) /\ outbox' # << >>
    BY <2>3, <2>4, <2>5, ExceptSeq, EmptySeq DEF TypeOK
  <2>7. unread' \in [FD -> 0..SndCap] /\ mirror' \in [FD -> View]
    <3>1. unread[fd] \in 0..SndCap /\ mirror[fd] \in View /\ SndCap \in Nat
      BY <2>2, MonitorServerAssumption DEF TypeOK
    <3>2. _handle_event(mirror[fd], outbox[1].event) \in View
      BY <3>1, <2>4, HandleEventType
    <3>3. CASE UNCHANGED <<unread, mirror>>
      BY <3>3 DEF TypeOK
    <3>4. CASE /\ unread[fd] < SndCap
               /\ unread' = [unread EXCEPT ![fd] = @ + 1]
               /\ mirror' = [mirror EXCEPT ![fd] = _handle_event(@, outbox[1].event)]
      <4>1. unread[fd] + 1 \in 0..SndCap
        BY <3>1, <3>4
      <4>2. QED
        BY <4>1, <3>2, <3>4, <2>2 DEF TypeOK
    <3>5. QED
      BY <3>3, <3>4, <2>1
  <2>8. TypeOK'
    BY <1>27, <2>6, <2>7 DEF send_line, TypeOK
  <2>9. ControlInv'
    BY <1>27 DEF send_line, ControlInv
  <2>10. QED
    BY <2>8, <2>9
<1>28. CASE SendDone
  BY <1>28, MonitorServerAssumption DEF SendDone, TypeOK, ControlInv, Control, PeerState
<1>29. CASE disconnect_client
  <2> DEFINE last == Len(disconnect_indices)
             i == disconnect_indices[last]
  <2>1. last \in 1..Len(disconnect_indices) /\ last \in Nat
    BY <1>29, EmptySeq DEF disconnect_client, TypeOK
  <2>2. i \in 1..Len(clients_) /\ \A k \in 1..(last - 1) : disconnect_indices[k] < i
    BY <2>1 DEF ControlInv
  <2>3. clients_' \in Seq(ClientConnection) /\ Len(clients_') = Len(clients_) - 1
    BY <1>29, <2>2, RemoveAtProperties DEF disconnect_client, rbegin, TypeOK
  <2>4. /\ disconnect_indices' \in Seq(Nat \ {0})
        /\ Len(disconnect_indices') = last - 1
        /\ \A k \in 1..(last - 1) : disconnect_indices'[k] = disconnect_indices[k]
    <3>1. disconnect_indices' = RemoveAt(disconnect_indices, last)
      BY <1>29 DEF disconnect_client, rbegin
    <3>2. disconnect_indices \in Seq(Nat \ {0})
      BY DEF TypeOK
    <3> HIDE DEF last
    <3>3. /\ RemoveAt(disconnect_indices, last) \in Seq(Nat \ {0})
          /\ Len(RemoveAt(disconnect_indices, last)) = Len(disconnect_indices) - 1
          /\ \A k \in 1..(Len(disconnect_indices) - 1) :
               RemoveAt(disconnect_indices, last)[k] =
                 IF k < last THEN disconnect_indices[k] ELSE disconnect_indices[k + 1]
      BY <3>2, <2>1, RemoveAtProperties
    <3>4. \A k \in 1..(last - 1) : k < last
      BY <2>1
    <3>5. QED
      BY <3>1, <3>3, <3>4, <2>1 DEF last
  <2>5. TypeOK'
    BY <1>29, <2>3, <2>4, MonitorServerAssumption
       DEF disconnect_client, close_socket, TypeOK, PeerState
  <2>6. /\ \A k \in 1..Len(disconnect_indices') : disconnect_indices'[k] \in 1..Len(clients_')
        /\ \A j, k \in 1..Len(disconnect_indices') :
             j < k => disconnect_indices'[j] < disconnect_indices'[k]
    <3>1. \A j, k \in 1..last : j < k => disconnect_indices[j] < disconnect_indices[k]
      BY DEF ControlInv
    <3>2. \A k \in 1..(last - 1) : disconnect_indices[k] \in 1..Len(clients_)
      BY <2>1 DEF ControlInv
    <3>3. Len(clients_) \in Nat
      BY ClientAt
    <3> HIDE DEF i
    <3>4. \A k \in 1..(last - 1) : disconnect_indices[k] \in 1..(Len(clients_) - 1)
      BY <3>2, <3>3, <2>2
    <3>5. \A k \in 1..(last - 1) : k \in 1..last
      BY <2>1
    <3> HIDE DEF last
    <3>6. \A j, k \in 1..(last - 1) :
            j < k => disconnect_indices'[j] < disconnect_indices'[k]
      BY <3>1, <3>5, <2>4
    <3>7. \A k \in 1..(last - 1) : disconnect_indices'[k] \in 1..Len(clients_')
      BY <3>4, <2>3, <2>4
    <3>8. QED
      BY <3>6, <3>7, <2>4
  <2>7. ControlInv'
    BY <1>29, <2>6 DEF disconnect_client, ControlInv
  <2>8. QED
    BY <2>5, <2>7
<1>30. CASE DropDone
  BY <1>30, MonitorServerAssumption DEF DropDone, TypeOK, ControlInv, Control, PeerState
<1>31. CASE shutdown_all
  <2>1. TypeOK'
    BY <1>31, MonitorServerAssumption DEF shutdown_all, close_socket, TypeOK, PeerState, Control
  <2>2. ControlInv'
    BY <1>31 DEF shutdown_all, ControlInv
  <2>3. QED
    BY <2>1, <2>2
<1>32. CASE Exited
  BY <1>32 DEF Exited, vars, TypeOK, ControlInv
<1>33. CASE \E fd \in FD, l \in Lines : PeerSend(fd, l)
  <2>1. PICK fd \in FD, l \in Lines : PeerSend(fd, l)
    BY <1>33
  <2>2. inq' \in [FD -> Seq(Lines)]
    BY <2>1, AppendProperties DEF PeerSend, TypeOK
  <2>3. sent' \in 0..MaxLines
    BY <2>1, MonitorServerAssumption DEF PeerSend, TypeOK
  <2>4. TypeOK'
    BY <2>1, <2>2, <2>3 DEF PeerSend, TypeOK
  <2>5. ControlInv'
    BY <2>1 DEF PeerSend, ControlInv
  <2>6. QED
    BY <2>4, <2>5
<1>34. CASE \E fd \in FD : PeerRecv(fd)
  <2>1. PICK fd \in FD : PeerRecv(fd)
    BY <1>34
  <2>2. unread' \in [FD -> 0..SndCap]
    BY <2>1, MonitorServerAssumption DEF PeerRecv, TypeOK
  <2>3. TypeOK'
    BY <2>1, <2>2 DEF PeerRecv, TypeOK
  <2>4. ControlInv'
    BY <2>1 DEF PeerRecv, ControlInv
  <2>5. QED
    BY <2>3, <2>4
<1>35. CASE \E fd \in FD, fault \in Faults : PeerFault(fd, fault)
  BY <1>35, MonitorServerAssumption DEF PeerFault, TypeOK, ControlInv, Control, PeerState
<1>36. CASE UNCHANGED vars
  BY <1>36 DEF vars, TypeOK, ControlInv
<1>37. QED
  BY <1>1, <1>2, <1>3, <1>4, <1>5, <1>6, <1>7, <1>8, <1>9, <1>10, <1>11, <1>12, <1>13, <1>14, <1>15, <1>16, <1>17, <1>18, <1>19, <1>20, <1>21, <1>22, <1>23, <1>24, <1>25, <1>26, <1>27, <1>28, <1>29, <1>30, <1>31, <1>32, <1>33, <1>34, <1>35, <1>36
     DEF Next, ServerStep, RunStep, HandlerStep, PeerStep

(* Only a metrics line changes what is known of the hosts.                 *)
LEMMA LatestChanges ==
  ASSUME [Next]_vars
  PROVE  handle_metrics \/ UNCHANGED latest_metrics_
BY DEF Next, ServerStep, RunStep, HandlerStep, PeerStep, vars, members, locals, sockets, history,
       bounds, signal_handler, SignalInterruptsSelect, PeerConnect, PeerSend, PeerRecv, PeerFault,
       start, LoopTest, select, SelectFails, accept_connection, AcceptFails, NotReady, ClientFails,
       read_client, ReadDone, ScanDone, SkipBlank, handle_register, AlertAccepted, AlertRejected,
       ListAlerts, CountClients, UnknownCommand, handle_chat, Unsupported, Answer, evaluate_rule,
       RulesDone, send_line, SendDone, disconnect_client, DropDone, shutdown_all, Exited

LEMMA StepFinite == TypeOK /\ ControlInv /\ FiniteInv /\ [Next]_vars => FiniteInv'
<1> SUFFICES ASSUME TypeOK, ControlInv, FiniteInv, [Next]_vars PROVE FiniteInv'
  OBVIOUS
<1>1. CASE handle_metrics
  <2>1. HostsReported' \subseteq HostsReported \cup {metric'.host}
    BY <1>1 DEF handle_metrics, HostsReported, TypeOK, Metrics
  <2>2. IsFiniteSet(HostsReported \cup {metric'.host})
    BY FS_AddElement DEF FiniteInv
  <2>3. QED
    BY <2>1, <2>2, FS_Subset DEF FiniteInv
<1>2. CASE UNCHANGED latest_metrics_
  BY <1>2 DEF FiniteInv, HostsReported
<1>3. QED
  BY <1>1, <1>2, LatestChanges

LEMMA AlwaysTyped == Spec => [](TypeOK /\ ControlInv /\ FiniteInv)
<1>1. Init => TypeOK /\ ControlInv /\ FiniteInv
  BY InitTypes
<1>2. TypeOK /\ ControlInv /\ FiniteInv /\ [Next]_vars => (TypeOK /\ ControlInv /\ FiniteInv)'
  BY StepTypes, StepFinite
<1>3. QED
  BY <1>1, <1>2, PTL DEF Spec

(* Every variable of the server keeps its type: the metrics it stores are  *)
(* complete and every event it queues is well formed.                      *)
THEOREM TypeCorrect == Spec => []TypeOK
BY AlwaysTyped, PTL
=============================================================================
