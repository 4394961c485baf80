------------------------------ MODULE Protocol ------------------------------
(***************************************************************************)
(* The messages SysNetMon exchanges (one JSON object per line over TCP)    *)
(* and the pure functions of cpp/include/common.hpp on metrics and alert   *)
(* rules.  A message is a record holding the fields the receiver extracts. *)
(* Strings are kept only as far as the code tells them apart: a host name  *)
(* is an element of Host, an alert command is the record of its parts.     *)
(* Numbers are thousandths, one digit more than format_double puts on the  *)
(* wire.  Timestamps, display names, message texts and the megabyte fields *)
(* of a metric are left out: no decision of the server reads them.         *)
(***************************************************************************)
EXTENDS Integers, Sequences, FiniteSets

CONSTANTS
  Host,        \* the strings that occur as host names and peer labels
  EmptyHost,   \* the empty string
  Level,       \* the values of metrics and thresholds, in thousandths
  Spelling,    \* the ways of writing an alert command that parse alike
               \* (letter case, inner blanks, a trailing '%')
  None         \* an absent value: a Maybe without value, a key not in a map

MetricKey == {"cpu_percent", "memory_percent", "disk_percent",
              "network_rx_kbps", "network_tx_kbps"}

Token == {"cpu", "memory", "mem", "disk",
          "rx", "netrx", "net_rx", "networkrx", "network_rx",
          "tx", "nettx", "net_tx", "networktx", "network_tx", "unknown"}

Comparison == {">", "<"}

MetricSnapshot == [host : Host, values : [MetricKey -> Level]]

(* The text of a command.  An "/alert" text is split the way the regular   *)
(* expression of parse_alert_command splits it; padded says that blanks    *)
(* surround it.  A text the expression rejects has the token "unknown".    *)
AlertText == [word : {"/alert"}, token : Token, comparison : Comparison,
              threshold : Level, spelling : Spelling, padded : BOOLEAN]

Text == AlertText \cup [word : {"/listalerts", "/clients", "other"}]

RawCommand == {text \in AlertText : ~text.padded}

AlertRule == [raw_command : RawCommand, metric_key : MetricKey,
              comparison : Comparison, threshold : Level]

ASSUME ProtocolAssumption ==
  /\ EmptyHost \in Host
  /\ Level \subseteq Int
  /\ \A value \in Level : value % 10 # 5    \* no tie for format_double
  /\ 0 \in Level
  /\ None \notin Host
  /\ None \notin MetricKey
  /\ None \notin [host : Host, values : [MetricKey -> Int]]
  /\ None \notin AlertRule

-----------------------------------------------------------------------------
(* Alert rules.                                                            *)

trim(text) == [text EXCEPT !.padded = FALSE]

(* The chain of token comparisons in parse_alert_command.                  *)
metric_key_of(token) ==
  CASE token = "cpu" -> "cpu_percent"
    [] token \in {"memory", "mem"} -> "memory_percent"
    [] token = "disk" -> "disk_percent"
    [] token \in {"rx", "netrx", "net_rx", "networkrx", "network_rx"} -> "network_rx_kbps"
    [] token \in {"tx", "nettx", "net_tx", "networktx", "network_tx"} -> "network_tx_kbps"
    [] OTHER -> None

(* The rule a text denotes; raw_command keeps the spelling, not the blanks *)
(* around it.                                                              *)
parse_alert_command(text) ==
  IF metric_key_of(text.token) = None
  THEN None
  ELSE [raw_command |-> trim(text),
        metric_key  |-> metric_key_of(text.token),
        comparison  |-> text.comparison,
        threshold   |-> text.threshold]

metric_value_for_key(metric, key) == metric.values[key]

rule_matches(rule, metric) ==
  LET value == metric_value_for_key(metric, rule.metric_key)
  IN  IF rule.comparison = ">" THEN value > rule.threshold
                               ELSE value < rule.threshold

-----------------------------------------------------------------------------
(* Lines a peer sends to the server.  json_get_string and its siblings     *)
(* return a Maybe: a missing host is None, a missing number is a key       *)
(* outside DOMAIN values.                                                  *)

RoleName == {"agent", "dashboard", "other"}

Reading == UNION {[keys -> Level] : keys \in SUBSET MetricKey}

Line == [type : {"register"}, role : RoleName, host : Host \cup {None}]
   \cup [type : {"metrics"}, host : Host \cup {None}, values : Reading]
   \cup [type : {"command"}, text : Text]
   \cup [type : {"chat"}, from : Host \cup {None}]
   \cup [type : {"blank", "unsupported"}]

value_or(maybe, fallback) == IF maybe = None THEN fallback ELSE maybe

(* Mutant: a missing number is stored as an error code.                    *)
metric_with_error_code(line, declared_host) ==
  [host   |-> value_or(line.host, declared_host),
   values |-> [key \in MetricKey |->
                 IF key \in DOMAIN line.values THEN line.values[key] ELSE -1]]

(* The MetricSnapshot handle_line builds from a "metrics" line.            *)
metric_of(line, declared_host) ==
  [host   |-> value_or(line.host, declared_host),
   values |-> [key \in MetricKey |->
                 IF key \in DOMAIN line.values THEN line.values[key] ELSE 0]]

-----------------------------------------------------------------------------
(* Events the server sends.  Numbers leave it with two decimals; an item   *)
(* of a "rules" event has no comparison, which its command still shows.    *)

Metrics == [Host -> MetricSnapshot \cup {None}]

format_double(value) == ((value + 5) \div 10) * 10

MetricData == [host : Host, values : [MetricKey -> Int]]

metric_data_to_json(metric) ==
  [metric EXCEPT !.values = [key \in MetricKey |-> format_double(metric.values[key])]]

SnapshotItems == [Host -> MetricData \cup {None}]

RuleItem == [command : RawCommand, metric_key : MetricKey, threshold : Int]

AckMessage == [about : {"registered as"}, role : RoleName]
         \cup [about : {"rule added"}, rule : RawCommand]
         \cup [about : {"connected agents"}, count : Nat]

Event == [type : {"snapshot"}, metrics : SnapshotItems]
    \cup [type : {"rules"}, items : Seq(RuleItem)]
    \cup [type : {"metric"}, data : MetricData]
    \cup [type : {"alert"}, host : Host, rule : RawCommand]
    \cup [type : {"chat"}, from : Host \cup {"system"}]
    \cup [type : {"ack"}, message : AckMessage]
    \cup [type : {"error"}]

snapshot_items(metrics) ==
  [h \in Host |-> IF metrics[h] = None THEN None ELSE metric_data_to_json(metrics[h])]

rule_items(rules) ==
  [i \in DOMAIN rules |-> [command    |-> rules[i].raw_command,
                           metric_key |-> rules[i].metric_key,
                           threshold  |-> format_double(rules[i].threshold)]]

snapshot_event_to_json(metrics) == [type |-> "snapshot", metrics |-> snapshot_items(metrics)]
rules_event_to_json(rules) == [type |-> "rules", items |-> rule_items(rules)]
metric_event_to_json(metric) == [type |-> "metric", data |-> metric_data_to_json(metric)]
alert_event_to_json(host, raw_command) == [type |-> "alert", host |-> host, rule |-> raw_command]
chat_event_to_json(sender) == [type |-> "chat", from |-> sender]
ack_event_to_json(message) == [type |-> "ack", message |-> message]
error_event_to_json == [type |-> "error"]

-----------------------------------------------------------------------------
(* What a dashboard keeps of the events: the metrics and rules parts of    *)
(* MonitorConnector.state, as _handle_event of services.py updates them.   *)

View == [metrics : SnapshotItems, rules : Seq(RuleItem)]

EmptyView == [metrics |-> [h \in Host |-> None], rules |-> << >>]

_handle_event(view, event) ==
  CASE event.type = "snapshot" -> [view EXCEPT !.metrics = event.metrics]
    [] event.type = "metric" ->
         IF event.data.host = EmptyHost
         THEN view
         ELSE [view EXCEPT !.metrics[event.data.host] = event.data]
    [] event.type = "rules" -> [view EXCEPT !.rules = event.items]
    [] OTHER -> view
=============================================================================
