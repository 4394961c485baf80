----------------------------- MODULE AlertBoard -----------------------------
(***************************************************************************)
(* What the alerting part of the server promises, without connections,     *)
(* lines or evaluation order: hosts report metrics, rules are added, and a *)
(* rule raises an alert for a host exactly when it turns from not firing   *)
(* to firing on the host's latest report.                                  *)
(***************************************************************************)
EXTENDS Protocol

VARIABLES
  latest,   \* the last report of every host
  rules,    \* the registered rules
  firing,   \* the <<host, command>> pairs whose rule holds
  alerts    \* every alert raised so far, in order

vars == <<latest, rules, firing, alerts>>

Init ==
  /\ latest = [h \in Host |-> None]
  /\ rules = {}
  /\ firing = {}
  /\ alerts = << >>

Report(h) ==
  /\ latest'[h] \in MetricSnapshot
  /\ latest' = [latest EXCEPT ![h] = latest'[h]]
  /\ UNCHANGED <<rules, firing, alerts>>

AddRule ==
  /\ \E rule \in rules' : rule \in AlertRule /\ rules' = rules \cup {rule}
  /\ UNCHANGED <<latest, firing, alerts>>

Holds(rule, h) == latest[h] # None /\ rule_matches(rule, latest[h])

Raise(rule, h) ==
  /\ Holds(rule, h)
  /\ <<h, rule.raw_command>> \notin firing
  /\ firing' = firing \cup {<<h, rule.raw_command>>}
  /\ alerts' = Append(alerts, <<h, rule.raw_command>>)
  /\ UNCHANGED <<latest, rules>>

Clear(rule, h) ==
  /\ ~Holds(rule, h)
  /\ firing' = firing \ {<<h, rule.raw_command>>}
  /\ UNCHANGED <<latest, rules, alerts>>

Next ==
  \/ AddRule
  \/ \E h \in Host : Report(h) \/ \E rule \in rules : Raise(rule, h) \/ Clear(rule, h)

Spec == Init /\ [][Next]_vars
=============================================================================
