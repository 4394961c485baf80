---------------------------- MODULE AlertProofs ----------------------------
(* The alerting part of the server: active_alerts_ agrees with the latest  *)
(* metrics, and the server implements AlertBoard.                          *)
EXTENDS MonitorServerProofs

(* A registered rule is what its command parses to, so that two rules with *)
(* the same command, which share a key of active_alerts_, are equal.       *)
RulesParsed ==
  \A i \in 1..Len(alert_rules_) :
    alert_rules_[i] = parse_alert_command(alert_rules_[i].raw_command)

(* Blanks around a command do not change the rule.                         *)
LEMMA ParseTrimmed ==
  ASSUME NEW text \in AlertText
  PROVE  parse_alert_command(trim(text)) = parse_alert_command(text)
<1>1. /\ trim(text).token = text.token /\ trim(text).comparison = text.comparison
      /\ trim(text).threshold = text.threshold /\ trim(trim(text)) = trim(text)
  BY DEF trim, AlertText
<1>2. QED
  BY <1>1 DEF parse_alert_command

(* What a step may do to the state alerting depends on.                    *)
LEMMA AlertFrame ==
  ASSUME [Next]_vars
  PROVE  \/ handle_metrics \/ AlertAccepted \/ evaluate_rule \/ RulesDone
         \/ /\ UNCHANGED <<latest_metrics_, alert_rules_, active_alerts_, metric, rule_index, alerts>>
            /\ pc' = "rules" <=> pc = "rules"
BY DEF Next, ServerStep, RunStep, HandlerStep, PeerStep, vars, members, locals, sockets, history,
       bounds, signal_handler, SignalInterruptsSelect, PeerConnect, PeerSend, PeerRecv, PeerFault,
       start, LoopTest, select, SelectFails, accept_connection, AcceptFails, NotReady, ClientFails,
       Scanning, read_client, ReadDone, ScanDone, SkipBlank, Handling, HandlingCommand,
       handle_register, AlertRejected, ListAlerts, CountClients, UnknownCommand, handle_chat,
       Unsupported, Answer, send_line, SendDone, disconnect_client, DropDone, shutdown_all, Exited

LEMMA RuleAt ==
  ASSUME TypeOK
  PROVE  /\ DOMAIN alert_rules_ = 1..Len(alert_rules_) /\ Len(alert_rules_) \in Nat
         /\ \A i \in 1..Len(alert_rules_) :
              alert_rules_[i] \in AlertRule /\ alert_rules_[i].raw_command \in RawCommand
<1>1. alert_rules_ \in Seq(AlertRule)
  BY DEF TypeOK
<1>2. \A i \in 1..Len(alert_rules_) : alert_rules_[i] \in AlertRule
  BY <1>1, ElementOfSeq
<1>3. QED
  BY <1>1, <1>2, LenProperties DEF AlertRule

(* An accepted command appends a rule that is what its command parses to.  *)
LEMMA AcceptedRule ==
  ASSUME TypeOK, ControlInv, AlertAccepted
  PROVE  /\ pc = "line" /\ pc' = "line"
         /\ UNCHANGED <<latest_metrics_, active_alerts_, metric, rule_index, alerts>>
         /\ \E rule \in AlertRule :
              /\ alert_rules_' = Append(alert_rules_, rule)
              /\ rule = parse_alert_command(rule.raw_command)
<1> DEFINE rule == parse_alert_command(line.text)
<1>1. pc = "line" /\ line \in Line /\ line.type = "command" /\ line.text.word = "/alert"
  BY LineType DEF AlertAccepted, HandlingCommand
<1>2. line.text \in AlertText
  BY <1>1 DEF Line, Text, AlertText
<1>3. rule \in AlertRule /\ rule # None
  BY <1>2, ParseType DEF AlertAccepted
<1>4. rule.raw_command = trim(line.text)
  BY <1>3 DEF parse_alert_command
<1>5. rule = parse_alert_command(rule.raw_command)
  BY <1>2, <1>4, ParseTrimmed
<1>6. alert_rules_' = Append(alert_rules_, rule)
  BY DEF AlertAccepted
<1>7. pc' = pc /\ UNCHANGED <<latest_metrics_, active_alerts_, metric, rule_index, alerts>>
  BY DEF AlertAccepted, locals, history
<1> HIDE DEF rule
<1>8. QED
  BY <1>1, <1>3, <1>5, <1>6, <1>7

LEMMA StepRulesParsed ==
  TypeOK /\ ControlInv /\ RulesParsed /\ [Next]_vars => RulesParsed'
<1> SUFFICES ASSUME TypeOK, ControlInv, RulesParsed, [Next]_vars PROVE RulesParsed'
  OBVIOUS
<1>1. CASE AlertAccepted
  <2>1. PICK rule \in AlertRule : /\ alert_rules_' = Append(alert_rules_, rule)
                                  /\ rule = parse_alert_command(rule.raw_command)
    BY <1>1, AcceptedRule
  <2>2. /\ Len(alert_rules_') = Len(alert_rules_) + 1
        /\ \A i \in 1..Len(alert_rules_) : alert_rules_'[i] = alert_rules_[i]
        /\ alert_rules_'[Len(alert_rules_) + 1] = rule
    BY <2>1, AppendProperties DEF TypeOK
  <2>3. \A i \in 1..Len(alert_rules_') : i \in 1..Len(alert_rules_) \/ i = Len(alert_rules_) + 1
    BY <2>2, RuleAt
  <2>4. QED
    BY <2>1, <2>2, <2>3 DEF RulesParsed
<1>2. CASE UNCHANGED alert_rules_
  BY <1>2 DEF RulesParsed
<1>3. QED
  BY <1>1, <1>2, AlertFrame DEF handle_metrics, evaluate_rule, RulesDone, members

(* One iteration of evaluate_rules.                                        *)
LEMMA EvaluatedRule ==
  ASSUME TypeOK, ControlInv, evaluate_rule
  PROVE  /\ pc = "rules" /\ pc' = "rules" /\ rule_index' = rule_index + 1
         /\ rule_index \in 1..Len(alert_rules_)
         /\ metric \in MetricSnapshot /\ metric.host \in Host
         /\ latest_metrics_[metric.host] = metric /\ metric # None
         /\ UNCHANGED <<latest_metrics_, alert_rules_, metric>>
         /\ LET rule == alert_rules_[rule_index]
                key == <<metric.host, rule.raw_command>>
                matched == rule_matches(rule, metric)
            IN  /\ key \in AlertKey
                /\ active_alerts_' = IF matched THEN active_alerts_ \cup {key}
                                                ELSE active_alerts_ \ {key}
                /\ alerts' = IF matched /\ key \notin active_alerts_ THEN Append(alerts, key)
                                                                     ELSE alerts
<1>1. /\ pc = "rules" /\ pc' = pc /\ rule_index' = rule_index + 1
      /\ UNCHANGED <<latest_metrics_, alert_rules_, metric>>
  BY DEF evaluate_rule
<1>2. rule_index \in 1..Len(alert_rules_)
  BY RuleAt DEF evaluate_rule, TypeOK
<1>3. metric \in MetricSnapshot /\ latest_metrics_[metric.host] = metric
  BY <1>1 DEF ControlInv
<1>4. metric.host \in Host
  BY <1>3 DEF MetricSnapshot
<1>5. metric # None
  <2>1. metric \in MetricData
    BY <1>3, ProtocolAssumption DEF MetricSnapshot, MetricData
  <2>2. QED
    BY <2>1, ProtocolAssumption DEF MetricData
<1>6. <<metric.host, alert_rules_[rule_index].raw_command>> \in AlertKey
  BY <1>2, <1>4, RuleAt DEF AlertKey
<1>7. QED
  BY <1>1, <1>2, <1>3, <1>4, <1>5, <1>6 DEF evaluate_rule, record_match, raise_alert

LEMMA InitAlerts == Init => RulesParsed /\ AlertsTrackMetrics
BY DEF Init, RulesParsed, AlertsTrackMetrics

LEMMA StepAlerts ==
  TypeOK /\ ControlInv /\ RulesParsed /\ AlertsTrackMetrics /\ [Next]_vars => AlertsTrackMetrics'
<1> SUFFICES ASSUME TypeOK, ControlInv, RulesParsed, AlertsTrackMetrics, [Next]_vars
             PROVE  AlertsTrackMetrics'
  OBVIOUS
<1>1. CASE handle_metrics
  <2>1. /\ pc = "line" /\ pc' = "rules" /\ rule_index' = 1
        /\ UNCHANGED <<alert_rules_, active_alerts_>>
    BY <1>1 DEF handle_metrics, Handling, ControlInv
  <2>2. \A h \in Host : h # metric'.host => latest_metrics_'[h] = latest_metrics_[h]
    BY <1>1 DEF handle_metrics, TypeOK, Metrics
  <2>3. ASSUME NEW key \in active_alerts_
        PROVE  Justified(key)' \/ ToBeEvaluated(key)'
    <3>1. Justified(key) /\ key[1] \in Host
      BY <2>1 DEF AlertsTrackMetrics, ToBeEvaluated, TypeOK, AlertKey
    <3>2. CASE key[1] = metric'.host
      BY <3>1, <3>2, <2>1, RuleAt DEF Justified, ToBeEvaluated
    <3>3. CASE key[1] # metric'.host
      BY <3>1, <3>3, <2>1, <2>2 DEF Justified
    <3>4. QED
      BY <3>2, <3>3
  <2>4. QED
    BY <2>1, <2>3 DEF AlertsTrackMetrics
<1>2. CASE AlertAccepted
  <2>1. PICK rule \in AlertRule : alert_rules_' = Append(alert_rules_, rule)
    BY <1>2, AcceptedRule
  <2>2. /\ pc = "line" /\ pc' = "line"
        /\ UNCHANGED <<latest_metrics_, active_alerts_>>
    BY <1>2, AcceptedRule
  <2>3. /\ DOMAIN alert_rules_' = 1..(Len(alert_rules_) + 1)
        /\ \A i \in 1..Len(alert_rules_) : alert_rules_'[i] = alert_rules_[i]
    BY <2>1, AppendProperties, LenProperties DEF TypeOK
  <2>4. \A key \in active_alerts_ : Justified(key)
    BY <2>2 DEF AlertsTrackMetrics, ToBeEvaluated
  <2>5. \A key \in active_alerts_ : Justified(key)'
    BY <2>2, <2>3, <2>4, RuleAt DEF Justified
  <2>6. QED
    BY <2>2, <2>5 DEF AlertsTrackMetrics
<1>3. CASE evaluate_rule
  <2> DEFINE rule == alert_rules_[rule_index]
             current == <<metric.host, rule.raw_command>>
             matched == rule_matches(rule, metric)
  <2>1. /\ pc = "rules" /\ pc' = "rules" /\ rule_index' = rule_index + 1
        /\ rule_index \in 1..Len(alert_rules_) /\ Len(alert_rules_) \in Nat
        /\ metric.host \in Host
        /\ latest_metrics_[metric.host] = metric /\ metric # None
        /\ UNCHANGED <<latest_metrics_, alert_rules_, metric>>
    BY <1>3, EvaluatedRule, RuleAt
  <2>2. active_alerts_' = IF matched THEN active_alerts_ \cup {current}
                                     ELSE active_alerts_ \ {current}
    BY <1>3, EvaluatedRule
  <2>3. ASSUME NEW key \in active_alerts_'
        PROVE  Justified(key)' \/ ToBeEvaluated(key)'
    <3>1. CASE key = current
      BY <3>1, <2>1, <2>2, RuleAt DEF Justified
    <3>2. CASE key # current
      <4>1. key \in active_alerts_ /\ key \in AlertKey
        BY <3>2, <2>2 DEF TypeOK
      <4>2. CASE Justified(key)
        BY <4>2, <2>1 DEF Justified
      <4>3. CASE ToBeEvaluated(key)
        <5>1. PICK i \in rule_index..Len(alert_rules_) : alert_rules_[i].raw_command = key[2]
          BY <4>3 DEF ToBeEvaluated
        <5>2. key = <<key[1], key[2]>> /\ key[1] = metric.host
          BY <4>1, <4>3 DEF AlertKey, ToBeEvaluated
        <5>3. i # rule_index
          BY <5>1, <5>2, <3>2
        <5>4. i \in (rule_index + 1)..Len(alert_rules_)
          BY <5>1, <5>3, <2>1
        <5>5. QED
          BY <5>1, <5>2, <5>4, <2>1 DEF ToBeEvaluated
      <4>4. QED
        BY <4>1, <4>2, <4>3 DEF AlertsTrackMetrics
    <3>3. QED
      BY <3>1, <3>2
  <2>4. ASSUME NEW i \in 1..rule_index
        PROVE  <<metric.host, alert_rules_[i].raw_command>> \in active_alerts_'
                 <=> rule_matches(alert_rules_[i], metric)
    <3>1. CASE alert_rules_[i].raw_command = rule.raw_command
      <4>1. alert_rules_[i] = rule
        BY <3>1, <2>1 DEF RulesParsed
      <4>2. QED
        BY <4>1, <2>2
    <3>2. CASE alert_rules_[i].raw_command # rule.raw_command
      <4>1. i \in 1..(rule_index - 1)
        BY <3>2, <2>1
      <4>2. <<metric.host, alert_rules_[i].raw_command>> # current
        BY <3>2
      <4>3. QED
        BY <4>1, <4>2, <2>1, <2>2 DEF AlertsTrackMetrics
    <3>3. QED
      BY <3>1, <3>2
  <2>5. rule_index' - 1 = rule_index
    BY <2>1
  <2>6. QED
    BY <2>1, <2>3, <2>4, <2>5 DEF AlertsTrackMetrics
<1>4. CASE RulesDone
  <2>1. /\ pc = "rules" /\ pc' = "line" /\ rule_index > Len(alert_rules_)
        /\ UNCHANGED <<latest_metrics_, alert_rules_, active_alerts_>>
    BY <1>4 DEF RulesDone, members
  <2>2. \A key \in active_alerts_ : Justified(key)
    BY <2>1, RuleAt DEF AlertsTrackMetrics, ToBeEvaluated, TypeOK
  <2>3. QED
    BY <2>1, <2>2 DEF AlertsTrackMetrics, Justified
<1>5. CASE /\ UNCHANGED <<latest_metrics_, alert_rules_, active_alerts_, metric, rule_index>>
           /\ pc' = "rules" <=> pc = "rules"
  BY <1>5 DEF AlertsTrackMetrics, Justified, ToBeEvaluated
<1>6. QED
  BY <1>1, <1>2, <1>3, <1>4, <1>5, AlertFrame

(* Whatever lines arrive in whatever order, active_alerts_ agrees with the *)
(* latest metrics (see AlertsTrackMetrics).                                *)
THEOREM AlertsCorrect == Spec => []AlertsTrackMetrics
<1>1. Init => RulesParsed /\ AlertsTrackMetrics
  BY InitAlerts
<1>2. TypeOK /\ ControlInv /\ RulesParsed /\ AlertsTrackMetrics /\ [Next]_vars
        => (RulesParsed /\ AlertsTrackMetrics)'
  BY StepRulesParsed, StepAlerts
<1>3. QED
  BY <1>1, <1>2, AlwaysTyped, PTL DEF Spec

-----------------------------------------------------------------------------
(* Refinement.                                                             *)

LEMMA InitBoard == Init => Board!Init
BY DEF Init, Board!Init, ToSet

(* AlertBoard's copies of the operators of Protocol are the same.          *)
LEMMA SameOperators ==
  /\ Board!MetricSnapshot = MetricSnapshot
  /\ Board!AlertRule = AlertRule
  /\ \A rule, m : Board!rule_matches(rule, m) = rule_matches(rule, m)
BY DEF Board!MetricSnapshot, Board!MetricKey, Board!AlertRule, Board!RawCommand, Board!AlertText,
       Board!Token, Board!Comparison, Board!rule_matches, Board!metric_value_for_key,
       MetricSnapshot, MetricKey, AlertRule, RawCommand, AlertText, Token, Comparison,
       rule_matches, metric_value_for_key

(* A step of the server is a step of AlertBoard or leaves the board alone. *)
LEMMA StepBoard ==
  TypeOK /\ ControlInv /\ [Next]_vars => [Board!Next]_(Board!vars)
<1> SUFFICES ASSUME TypeOK, ControlInv, [Next]_vars
             PROVE  Board!Next \/ UNCHANGED Board!vars
  OBVIOUS
<1>1. CASE handle_metrics
  <2>1. /\ pc = "line" /\ line \in Line /\ line.type = "metrics" /\ client \in ClientConnection
    BY <1>1, LineType, ClientType DEF handle_metrics
  <2>2. metric' \in MetricSnapshot
    BY <1>1, <2>1, MetricOfType DEF handle_metrics, ClientConnection
  <2>3. metric'.host \in Host
    BY <2>2 DEF MetricSnapshot
  <2>4. /\ latest_metrics_' = [latest_metrics_ EXCEPT ![metric'.host] = metric']
        /\ UNCHANGED <<alert_rules_, active_alerts_, alerts>>
    BY <1>1 DEF handle_metrics, history
  <2>5. latest_metrics_'[metric'.host] = metric'
    BY <2>3, <2>4 DEF TypeOK, Metrics
  <2>6. Board!Report(metric'.host)
    <3>1. latest_metrics_'[metric'.host] \in Board!MetricSnapshot
      BY <2>2, <2>5, SameOperators
    <3>2. latest_metrics_' = [latest_metrics_ EXCEPT ![metric'.host] = latest_metrics_'[metric'.host]]
      BY <2>4, <2>5
    <3>3. UNCHANGED <<ToSet(alert_rules_), active_alerts_, alerts>>
      BY <2>4 DEF ToSet
    <3>4. QED
      BY <3>1, <3>2, <3>3 DEF Board!Report
  <2>7. QED
    BY <2>3, <2>6 DEF Board!Next
<1>2. CASE AlertAccepted
  <2>1. PICK rule \in AlertRule : alert_rules_' = Append(alert_rules_, rule)
    BY <1>2, AcceptedRule
  <2>2. UNCHANGED <<latest_metrics_, active_alerts_, alerts>>
    BY <1>2, AcceptedRule
  <2>3. /\ DOMAIN alert_rules_' = 1..(Len(alert_rules_) + 1)
        /\ \A i \in 1..Len(alert_rules_) : alert_rules_'[i] = alert_rules_[i]
        /\ alert_rules_'[Len(alert_rules_) + 1] = rule
    BY <2>1, AppendProperties, LenProperties DEF TypeOK
  <2>4. ToSet(alert_rules_') = ToSet(alert_rules_) \cup {rule}
    <3>1. \A i : i \in 1..(Len(alert_rules_) + 1)
                  <=> i \in 1..Len(alert_rules_) \/ i = Len(alert_rules_) + 1
      BY RuleAt
    <3>2. QED
      BY <3>1, <2>3, RuleAt DEF ToSet
  <2>5. Board!AddRule
    <3>1. rule \in ToSet(alert_rules_)' /\ ToSet(alert_rules_)' = ToSet(alert_rules_) \cup {rule}
      BY <2>4 DEF ToSet
    <3>2. QED
      BY <3>1, <2>2, SameOperators DEF Board!AddRule
  <2>6. QED
    BY <2>5 DEF Board!Next
<1>3. CASE evaluate_rule
  <2> DEFINE rule == alert_rules_[rule_index]
             key == <<metric.host, rule.raw_command>>
             matched == rule_matches(rule, metric)
  <2>1. /\ metric.host \in Host /\ latest_metrics_[metric.host] = metric /\ metric # None
        /\ UNCHANGED <<latest_metrics_, alert_rules_>>
        /\ active_alerts_' = IF matched THEN active_alerts_ \cup {key} ELSE active_alerts_ \ {key}
        /\ alerts' = IF matched /\ key \notin active_alerts_ THEN Append(alerts, key) ELSE alerts
    BY <1>3, EvaluatedRule
  <2>2. rule \in ToSet(alert_rules_)
    BY <1>3, EvaluatedRule, RuleAt DEF ToSet
  <2>3. Board!Holds(rule, metric.host) <=> matched
    BY <2>1, SameOperators DEF Board!Holds
  <2>4. CASE matched /\ key \notin active_alerts_
    <3>1. Board!Raise(rule, metric.host)
      BY <2>1, <2>3, <2>4 DEF Board!Raise, ToSet
    <3>2. QED
      BY <3>1, <2>1, <2>2 DEF Board!Next
  <2>5. CASE matched /\ key \in active_alerts_
    BY <2>1, <2>5 DEF Board!vars, ToSet
  <2>6. CASE ~matched
    <3>1. Board!Clear(rule, metric.host)
      BY <2>1, <2>3, <2>6 DEF Board!Clear, ToSet
    <3>2. QED
      BY <3>1, <2>1, <2>2 DEF Board!Next
  <2>7. QED
    BY <2>4, <2>5, <2>6
<1>4. CASE RulesDone
  BY <1>4 DEF RulesDone, members, history, Board!vars, ToSet
<1>5. CASE UNCHANGED <<latest_metrics_, alert_rules_, active_alerts_, alerts>>
  BY <1>5 DEF Board!vars, ToSet
<1>6. QED
  BY <1>1, <1>2, <1>3, <1>4, <1>5, AlertFrame

(* The server implements AlertBoard: it raises an alert exactly when a     *)
(* rule turns from not firing to firing on the latest metric of a host.    *)
THEOREM AlertRefinement == Spec => ImplementsAlertBoard
<1>1. Init => Board!Init
  BY InitBoard
<1>2. TypeOK /\ ControlInv /\ [Next]_vars => [Board!Next]_(Board!vars)
  BY StepBoard
<1>3. QED
  BY <1>1, <1>2, AlwaysTyped, PTL DEF Spec, ImplementsAlertBoard, Board!Spec
=============================================================================
