# SysNetMon in TLA+

A formal model of SysNetMon: the C++ monitoring server, its agents with their metric
collectors, and the dashboard with its page. TLC checks small instances, TLAPS proves the main
safety properties for every value of the constants. `PROJECT.json` lists the runs,
the source lines each definition models, the hazards and the findings.

## The system

| Component | State | Operations | Interacts with |
|---|---|---|---|
| Server `cpp/server/main.cpp` | `clients_`, `latest_metrics_`, `alert_rules_`, `active_alerts_`, `g_running`; one thread | `run` (select loop), `accept_connection`, `read_client`, `handle_line` (register, metrics, command, chat), `handle_command` (`/alert`, `/listalerts`, `/clients`), `evaluate_rules`, `broadcast_to_dashboards`, `disconnect_client`, `shutdown_all` | agents and dashboards over TCP, one JSON object per line |
| Protocol `cpp/include/common.hpp` | none | building and taking apart messages, `parse_alert_command`, `rule_matches`, `send_line` | server, agent |
| Agent `cpp/client/main.cpp` | the socket handle, `g_running`, previous samples | connect, register, report every interval, reconnect | server (never reads from it) |
| Collectors `cpp/include/metrics.hpp` | previous CPU and network counters | `collect_metrics` | agent |
| Dashboard connector `python/dashboard/services.py` | `state` under `_lock`, `_socket`, a thread | `_run`, `_consume`, `_handle_event`, `_send`, `upload_latest_alert`, `start`, `stop` | server, Flask routes, AWS |
| AWS publisher `services.py` | `last_result` | `upload_alert` (S3, then SNS) | connector |
| Web application `app.py`, front end `app.js` | none / history of 20 points | REST routes / polling | connector |

What is hard here:

* the server's only thread calls blocking `send()` and `recv()`: a call on the wrong
  socket, or a peer that does not read, stops everything;
* peers close, reset and reconnect between any two calls of that thread, and closed
  descriptors are handed out again;
* clients are dropped by position while positions shift;
* alerts are edges of a state kept per host and command text;
* dashboards rebuild the server's state from a snapshot followed by increments;
* a signal may arrive anywhere;
* the agent learns of a lost server only from a failing `send()`;
* the connector shares its state and its socket between threads, and calls AWS with and
  without its lock;
* lines are cut into pieces by `send()` and `recv()`, and texts are escaped and taken apart
  several times on their way;
* metrics are differences of unsigned counters of several widths; their sources may fail, and
  network interfaces come and go with their counters;
* the page asks again before it has been answered.

What makes each part correct: the server loses no line, no alert edge, no descriptor,
never waits in `recv()`, keeps live dashboards current and stops when told to; the
agent closes every socket once, reports again after any fault and stops when told to;
the dashboard answers every request, shows what the server knows and says of an alert that
it was published only if it was; a line is handled whole, a text stays in its field; a
report is about the last interval and its percentages are percentages, as long as its own
sources could be read and no counter went back.

## Modules

| Module | Models |
|---|---|
| `Protocol` | messages as records, alert commands and rules, formatting, what a dashboard keeps of an event |
| `MonitorServer` | the server process and the sockets it uses |
| `AlertBoard` | abstract: what the alerting part promises |
| `MCMonitorServer` | instances of `MonitorServer` for TLC |
| `Agent` | the agent's reconnect loop |
| `Collector` | `collect_metrics` and the samples `main()` keeps for it |
| `WireFormat` | escaping, extraction by regular expressions, and what becomes of a text |
| `LineFraming` | one direction of a connection in bytes; `MCLineFraming` gives the lines of its runs |
| `LineChannel` | abstract: a channel of whole lines |
| `DashboardConnector` | `MonitorConnector`, `AwsAlertPublisher` and the routes that call them |
| `Frontend` | the page: refreshes, forms, history |
| `Dashboard` | `DashboardConnector` and `Frontend` together |
| `MonitorServerProofs`, `AlertProofs`, `ConnectionProofs` | theorems about the server: its types, its alerts, its connections and dashboards |
| `AgentProofs`, `CollectorProofs`, `DashboardProofs`, `FramingProofs`, `WireProofs` | theorems about the agent, the collectors, the dashboard, the bytes of a connection, the texts in a message |

### MonitorServer

The variables are the members of the class, the locals of `run()` and
`evaluate_rules()` and a program counter `pc` with one value for each place where the
thread can be between two calls (`top`, `select`, `accept`, `scan`, `line`, `rules`,
`drop`, `shutdown`). An action is one call or one loop iteration:

* `LoopTest`, `select`, `SelectFails`, `SignalInterruptsSelect` (EINTR) and the
  one-second timeout (`select` with nothing ready);
* `accept_connection` and `AcceptFails` (aborted, or no descriptor free);
* the scan: `NotReady`, `ClientFails`, `read_client` (any number of the lines that
  have arrived), `ReadDone`, `ScanDone`;
* one action per kind of line, from `SkipBlank` to `Unsupported`; the events a handler
  sends are put in `outbox` in the code's order;
* `send_line` sends to one recipient: it waits while the peer's buffers are full, and a
  peer that has gone makes it fail, which no caller looks at;
* `evaluate_rule` is one iteration of `evaluate_rules`, with the alert broadcast before
  the next rule is looked at;
* `disconnect_client` erases the last index first; `shutdown_all`.

Peers connect, send, read, close, reset and send urgent data between any two of these
steps. `mirror`, `failed` and `alerts` are history: what a dashboard on a descriptor
knows once it has read everything, the sockets seen failing in this round, the alerts
raised so far.

Abstractions: a line is the record of the fields the handler extracts, and arrives
whole; a host name is an element of `Host`, an alert command the record of its parts
(the token in lower case, comparison, threshold, a spelling, blanks around it); a number
is in thousandths, so that `format_double` loses a digit and rules see it. A level halfway
between two hundredths is excluded, because the rounding of such a double depends on its
binary value. The dedupe key `host|command` is the pair: a command holds no `|`, so
the last `|` of the string separates the two. Time stamps, display names, texts and the
megabyte fields decide nothing and are left out.

### Agent

`pc` follows `connect_to_server` and the two loops of `main()`; `link` is the connection
as the next `send()` will find it: a line sent after the server closed is still accepted
(`fin` to `pipe`), the next one fails, and in a build with SIGPIPE (`sigpipe`, chosen once
from `SigPipe`) it ends the process. `full` makes `send()` wait. Collecting the metrics happens inside `Interval`.

### AlertBoard

Hosts report, rules are added, a rule that holds on a host's latest report and was not
firing raises exactly one alert, one that no longer holds stops firing. `MonitorServer`
implements it with `rules <- ToSet(alert_rules_)`, `firing <- active_alerts_`: the steps of
the loop, the sockets and the sends are stutters.

### Collector

`Work` and `Traffic` are the kernel's counters, as wide as each platform has them: octets have
32 bits (`NarrowW` values, after which a counter comes round) on Windows and macOS
(`NarrowOctets`), ticks on macOS (`NarrowTicks`). All others, and everything the code computes
with, have 64 (`W`), and `CollectorAssumption` says that this is never reached. The code
enumerates the interfaces at every sample; between two samples one may appear, with counters
at zero, or vanish with its counters (`Appears`, `Vanishes`); loopback stays.
`collect_metrics` takes any set of the sources that can be read this time; a failed read gives
zeros, as the code's zero-initialised samples do, and these become the next baseline.
Percentages and throughputs are kept as numerator and denominator, so that no rounding hides a
wrapped difference. A sum over the interfaces is written as the number of octets that the
interfaces counted, which is the sum for any finite set of interfaces.

`since` and `last` are history. `since` says what really happened since the previous sample,
and in `since.back` which sources had a counter that went back, because it came round or its
interface vanished. `last` keeps this for the interval of the latest report, with the sources
read at its end (`read`) and those of which the sample at its beginning showed anything
(`base`). A report is held to the sources in `Sound`: read at its end, no counter gone back. For
every other report the code subtracts a larger number from a smaller one, and the properties
say that this is over with the next report. `Total` and `Available` are drawn independently:
more memory may be available than there is on macOS only, where the code provides for it. A
decreasing `iowait` is outside the model.

### WireFormat

A text is a sequence over the characters that `escape_json`, the pattern of
`json_get_string` and `json.loads` tell apart (quote, backslash, newline, another control
character, a letter outside ASCII and the word its escape spells, a byte that is not UTF-8, the
name of the next field). A form's text is Unicode; an agent's name is whatever bytes it was
given. `Send`, `Store`, `Announce` and `Show` are the four places it passes. A message is
modelled from the field's name to the end of the next field. `Show` decodes before it calls
`json.loads` (`decodes`): a byte that is not UTF-8 always fails, a letter outside ASCII does if
a chunk happens to end inside it. Here the conversions are
the subject, so they are functions on characters; every other module uses names.
`escape_json` and `json.dumps` are the same loop (`Written`) with different tables of
replacements, and `json.loads` a function of the position it reads from.

### LineFraming and LineChannel

`send` writes any part of what is left, `recv` takes any part of what has arrived up to
the size of its buffer, `Split` removes and handles one line. A mapping from bytes to the
complete lines among them (`LinesIn`) shows that the lines handled are those of
`LineChannel`: whole, once, in order (`Safe`), all of them (`Fairness`). This is what
`MonitorServer` assumes by letting lines arrive whole. The variable `reader` says who reads: the server, or the dashboard,
which decodes each chunk for itself and gives the connection up (`Break`) when a chunk ends
inside a character of several bytes.

### DashboardConnector

`pc` gives every thread's place: the connector's thread in `_run`, `_consume`,
`_handle_event` and `upload_alert`, each request in its route. A section under `_lock` is one
step, except that of an alert, which calls AWS: there the lock is held across `put_object`
and `publish`, and every other thread waits for it. `_send` reads `_socket` in one step and
writes in others; a line is two halves, so that a full socket can take the first half only. A
call of AWS succeeds, fails, or fails after it took effect. The server is what `MonitorServer`
does for one dashboard. What it knows are version numbers of the metrics and the rules, since
`SubscribersUpToDate` already follows the contents; it repeats them to a dashboard that
registers and sends changes and alerts to a registered one. There are three kinds of lines a
request can send (`Kind`), each with its own answer (`Answers`): chat, `/clients` and what the
server does not know are answered by one chat entry, `/alert` changes the rules and is
answered by an announcement, the rules and an acknowledgement, `/listalerts` by the rules
only. A line is handled as sent only if it is `Intact`: its two halves stand together, behind
a complete line. The rest of a `sendall` that timed out, or the halves of two requests, make a
garbled line, which may have the type of any of them. The server may restart, close or reset
at any moment; a chunk that cannot be decoded or a line that is no JSON ends the connection as
well. `puts`, `notified` and `attempted` are history.

### Frontend and Dashboard

A request of the page is idle, asked or answered; the timer starts another one without
waiting. `Served` takes the snapshot, `refreshState` shows it, in any order among several; `postJson`
refreshes once a form has been posted.
`Frontend` leaves open who answers; `Dashboard` composes it with `DashboardConnector`
(`INSTANCE Frontend WITH backend <- api_state`), and serving (`snapshot`) waits for `_lock`.

## Runs

| Run | Instance | Shows |
|---|---|---|
| `server_alerts` | 1 connection, 5 lines of 6 | `TypeOK`, `AlertsTrackMetrics`, `ImplementsAlertBoard` |
| `server_dashboards` | 2 descriptors, 3 connections, 4 lines of 4, closes | `SubscribersUpToDate`, also for a dashboard that comes back |
| `server_connections` | 3 descriptors, 4 connections, 1 line of 14 (every kind), closes, resets, urgent data | `ClientsOwnSockets`, `DropsExactlyFailed`, `RecvNeverBlocks` |
| `server_liveness` | 2 connections, 2 lines, fair peers | `ShutsDown`, `LinesHandled` |
| `server_stalled` | 1 dashboard that stops reading | finding: `ShutsDown` fails |
| `agent` | 3 faults, with and without SIGPIPE | `TypeOK`, `SocketsBalanced`, `ResumesReporting`, `StopsOnSignal` |
| `agent_sigpipe` | 3 faults, SIGPIPE | finding: `RetriesWhenDisconnected` fails |
| `collector` | 3 platforms, loopback and an interface that comes and goes, narrow counters that come round, failing CPU and network reads, contradicting memory sizes, 2 reports | `PercentagesInRange`, `ReportsLastInterval` |
| `wire` | all texts of up to 5 of 10 characters, both senders | `OneLine`, `EventsReadable`, `FieldsSeparate`, `NamesDistinct` |
| `line_framing` | 5 lines of 3 kinds, chunks of up to 3 bytes, 6 under way, both readers | `ImplementsLineChannel`, `HandlesEveryLine` |
| `dashboard` | 2 of 3 forms (a chat line, `/alert`, `/listalerts`) at once, or 1 with up to 2 of an alert, an upload and a stop, or all three without a form; 2 connections and one more after a stop, failing AWS | `TypeOK`, `RegisterFirst`, `UploadedBeforeShown`, `NoFalseSuccess`, `RequestsAnswered`, `EchoShown`, `ThreadStops`, `AlertsPublished` |
| `dashboard_page` | 2 connections, 1 change, 1 alert, 2 requests of the page, 1 form or 1 lost answer | `PageTypeOK`, `PageShowsServer` |

Bounds. `MaxConns` and `MaxLines` end a behaviour's supply of connections and lines,
`InCap` and `SndCap` are the lengths of the socket buffers, in lines. Five lines are
enough for an agent to register, a rule to be added, to fire, to clear and to fire again;
four connections on three descriptors let two clients fail in one round, a third one
behind them stay, and a descriptor be used again. `SndCap = 1` makes every second event of a
catch-up wait for the peer. Descriptors are symmetric where only safety is checked. Where
there are more connections than descriptors, `AcceptFails` leaves one in the backlog.

The collectors need three samples (before the loop and two reports) for one to fail between
two that do not, for a counter to come round in one interval and for an interface to vanish in
one and return in the next. At most two ticks or bytes are counted in an interval, counters
go up to 3, and a narrow one has two values; what happens after the last report shows in none
and is left out. Five characters spell a whole field inside a text, and
`NamesDistinct` states that a stored name can be read back, so that pairs of names need not
be enumerated. Five lines fill the
network and a chunk holds the end of one line and the start of the next. Two connections let
a request hold the socket of the first while the thread uses the second, and the last connection
of an instance is left alone, so that "if the server stays up" can come true. Requests, alerts
and calls of `stop()` share a bound (`MaxInputs`), since a thread that is started again repeats
everything; a request that writes counts for two in it, so that two of them meet on a full
socket, or one meets an alert and a stop. One alert is enough for an upload from the page to
meet the connector's own. `AlertLimit` and `ChatLimit` stand for 50 and 80,
`HistoryLimit` for 20. Texts, lines and reports come to an end, so `wire`,
`line_framing` and `collector` do not look for deadlock; all other runs do.

Fairness. `FairServerSpec` says that the server's thread is scheduled; it does not force
`select()` to fail. `FairSpec` adds
that peers go on reading, which is what the thread of `MonitorConnector` does; that
`ShutsDown` needs it is the first finding. The agent's `FairSpec` says that the agent
is scheduled, that its sleeps end, and that a server it fills up goes on reading, which
`LinesHandled` shows under the server's own assumptions. `ResumesReporting` assumes
nothing about when the server is up: it says that if it stays up from some point, reports
arrive for ever, from every agent that SIGPIPE did not kill. In `DashboardConnector` the threads are scheduled, calls of AWS return (boto3
has time limits) and a server that is up reads, which is `LinesHandled`; nothing
makes connections break, alerts appear or requests arrive. In `Dashboard` the timer also fires,
requests are served and answers are shown; answers may be lost a bounded number of times.
In `LineFraming` `send()` goes on when there is room, and the reader reads.

Findings:

1. A dashboard that stops reading keeps the server's thread in `send()`, and SIGTERM no
   longer ends it (`server_stalled`).
2. On POSIX systems the agent does not ignore SIGPIPE, and the second line after the
   server's close ends it in place of "Disconnected from server, retrying" (`agent_sigpipe`).

Limits met while modelling. The properties are stated so that they say nothing about these:

* `/clients` answers "connected agents: " with the number of hosts that ever reported.
* A CPU or network read that fails after one that did not is reported as zero minus the
  baseline, which wraps: a load above 100 or a throughput near 2^64, once.
* An interface that vanishes makes the sum smaller and does the same to one throughput.
* Byte counters of 32 bits (Windows, macOS) and the ticks of macOS are widened before they are
  subtracted: the interval in which one comes round is reported wrongly. These three are in the
  model, its run and its theorems, which say that no other report is affected.
* Chat texts with quotes, backslashes or letters outside ASCII are not shown as typed;
  `EventsReadable` follows what the server stored, and plain text from end to end.
* The dashboard decodes chunks, not lines: a character cut by a chunk costs the connection.
  A host name with control characters or bytes that are not UTF-8 is refused in every snapshot,
  one with other characters outside ASCII whenever a chunk ends inside one.
* Two alerts of one host in one second have the same S3 key, and the later one stays.
* An alert raised while the dashboard is not registered is never shown or uploaded;
  `AlertsPublished` is about alerts that were sent to it.
* Two requests that write to a full socket at once mix their lines, and one that times out in the
  middle leaves half a line. Both happen in `dashboard`, and the server may take what results for
  any kind of request; `EchoShown` is about lines in one piece.

## Proofs

All theorems hold for any set of hosts, descriptors, lines and levels and any bounds,
from `ProtocolAssumption`, `MonitorServerAssumption`, `AgentAssumption`,
`CollectorAssumption`, `ConnectorAssumption`, `PageAssumption`, `FramingAssumption` and
`WireAssumption` only. Every invariant of the runs is proved.

| Theorem | Statement |
|---|---|
| `TypeCorrect` | `Spec => []TypeOK` |
| `AlertsCorrect` | `Spec => []AlertsTrackMetrics` |
| `AlertRefinement` | `Spec => ImplementsAlertBoard` |
| `SocketsOwned` | `Spec => []ClientsOwnSockets` |
| `DropsCorrect` | `Spec => []DropsExactlyFailed` |
| `RecvCorrect` | `Spec => []RecvNeverBlocks` |
| `DashboardsUpToDate` | `Spec => []SubscribersUpToDate` |
| `AgentTypes` | `Spec => []TypeOK` (agent) |
| `AgentSockets` | `Spec => []SocketsBalanced` (agent) |
| `PercentagesCorrect` | `Spec => []PercentagesInRange` (collector) |
| `ReportsCorrect` | `Spec => []ReportsLastInterval` (collector) |
| `ConnectorTypeCorrect` | `Spec => []TypeOK` (connector) |
| `RegistersFirst` | `Spec => []RegisterFirst` (connector) |
| `FeedAfterUpload` | `Spec => []UploadedBeforeShown` (connector) |
| `StatusIsTrue` | `Spec => []NoFalseSuccess` (connector) |
| `FramingRefinement` | `Spec => ImplementsLineChannel` (bytes) |
| `PageTypeCorrect` | `DashboardSpec => []PageTypeOK` |
| `LinesStayWhole` | `Spec => []OneLine` (texts) |
| `EventsStayReadable` | `Spec => []EventsReadable` (texts) |
| `FieldsStaySeparate` | `Spec => []FieldsSeparate` (texts) |
| `NamesStayDistinct` | `Spec => []NamesDistinct` (texts) |
| `RoundTrip` | `json.loads` undoes `escape_json` for every text without control characters, and refuses every other |
| `NamesInjective` | what is stored of two names without quotes and control characters is equal only if the names are |

* `TypeCorrect` needs `ControlInv`: which locals are set where, that the indices collected
  are increasing, name clients and, during the scan, lie behind the scan. Without it neither
  `clients_[index]` nor the erased position is known to exist. `FiniteInv` makes the
  number of hosts a number.
* `AlertsCorrect` is inductive with `RulesParsed`: a rule is what its command parses to, so
  two rules that share a key of `active_alerts_` are the same rule, and the later
  evaluation of one agrees with the earlier one of the other. `AlertRefinement` then maps
  `handle_metrics` to `Report`, `AlertAccepted` to `AddRule`, and `evaluate_rule` to
  `Raise`, `Clear` or a stutter.
* `SocketsOwned` rests on `ConnectionFrame` (three calls open or close sockets) and on
  `RemoveAtProperties`, what an erase does to positions.
* `DropsCorrect` adds that the failed sockets are those at the collected positions;
  erasing from the back leaves the earlier positions alone, and distinct descriptors make
  the erased one the only one that leaves the set.
* `RecvCorrect` is inductive as `ReportHolds`: what `select()` reported stays true for the
  clients ahead of the scan, since only the server's own reading makes a socket
  unreadable, and a connection accepted in between was not in the report.
* `AgentTypes` and `AgentSockets` share an invariant with `HandleInv`: no closed handle reaches
  the close behind the inner loop, so the number of sockets never falls below what it should be.
* `PercentagesCorrect` and `ReportsCorrect` rest on `SinceInv`: the previous sample and what was
  counted since then make up the counters, if the sample was read and no counter went back; a
  sample that was not read is zero. So a difference in a sound report is what was counted and
  wraps neither by itself nor when it is subtracted from another. The step that adds a byte needs
  `OctetAdded`: one more on a counted interface is one more in the sum. Interfaces that appear add
  nothing, as their counters are zero. Nothing is assumed of the narrow counters.
* `DashboardsUpToDate` is inductive as `EventsTruthful` and `SubscribersServed`. What the server
  knows (`latest_metrics_`, `alert_rules_`) changes only while the outbox is empty, and the
  step that changes it fills the outbox with an event for every dashboard. So each event on
  its way says what is still true, and a dashboard that lacks something has its event ahead of
  it, in the outbox or in the answer to its registration. A descriptor that is
  reused belongs to nobody at that moment (`SocketsOwned`), so no event of an old dashboard
  counts for a new one.
* The four theorems of the connector share `ConnectorInv`: which thread may be where while
  `_lock` is held, and what `_socket` may be at each place (`ControlInv`); that only the thread
  that registers can write to a socket nothing was written to yet (`FreshInv`, with `OpenedInv`
  counting the sockets); that everything in the feed was tried, or is in the hands of the thread
  that holds the lock (`FeedInv`); and that an upload about to be recorded as good reached each
  target (`JobInv`).
* `FramingRefinement` rests on three facts about `LinesIn`: bytes without a newline add no line,
  bytes up to a newline complete the line that was begun, and taking the first line away from
  the bytes takes it away from the lines. `LinesIn` numbers the ends of lines by rank instead of
  recursion, so that these follow from cardinalities. The invariant (`FramingInv`) says
  that the bytes at the reader and in the network end with a newline, or with a beginning whose
  rest is what `send_line` has still to write.

* The theorems about texts share `WireInv`: at each stage the text is what the conversions so
  far make of what was typed. The rest is about the conversions, for texts of any length, and
  goes by induction over the positions of a text, written as the set of positions at
  which a fact holds (`InductUp`, `InductDown`), since the provers cannot use an induction rule
  for formulas. Both tables are good (`GoodTable`): a character is copied, which quotes,
  backslashes and newlines are not, or a backslash and one more character are written for
  it. So nothing written holds a newline, and a backslash stands before every quote
  (`QuotesEscapedWritten`). A match of the next field's key inside a text would need a quote behind
  the key itself (`FollowerTaken`), so the leftmost match is the real field; the text itself is
  taken up to its first quote, so whole if it has none (`FirstTaken`). `RoundTrip` reads
  backwards from the end of what `escape_json` wrote, one replacement at a time.

Only model-checked: liveness (`ShutsDown`, `LinesHandled`, `ResumesReporting`,
`StopsOnSignal`, `HandlesEveryLine`, `RequestsAnswered`, `EchoShown`, `ThreadStops`,
`AlertsPublished`, `PageShowsServer`), which the prover does not do.

## Not modelled

Reading `/proc`, Mach and Win32 counters, Winsock start-up, argument parsing, time stamps,
logging, rendering and page layout, scripts, containers and workflows: pure I/O or no state
of their own. Numbers that `std::stod` and `std::stoll` refuse, descriptors beyond
`FD_SETSIZE`, a decreasing `iowait`, and the second process of Flask's reloader are outside
the model. The server, an agent and a dashboard are not put into one module: `DashboardConnector`
contains what `MonitorServer` does for one dashboard and `Agent` what it does for one agent,
and the properties that cross them are stated there.
