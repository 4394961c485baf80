--------------------------- MODULE DashboardProofs ---------------------------
(* The dashboard's threads and its page, for any requests, limits and      *)
(* numbers of connections.                                                 *)
EXTENDS Dashboard, SequenceTheorems, TLAPS

(* What the requests and the connector's thread keep, beyond TypeOK.       *)
Chat == Sends \cup {"registered", "rule added", "garbled"}
Uploading == {"put", "publish_alert", "record"}
Label == {"top", "connect", "register", "publish", "consume", "event", "put", "publish_alert",
          "record", "close", "leave", "except", "sleep", "ended", "idle", "waiting", "sending",
          "half", "answered"}

ServerTypes ==
  /\ server \in {"up", "down"}
  /\ known \in [metrics : Nat, rules : Nat, alert : 0..MaxAlerts]
  /\ stops \in 0..MaxStops

ThreadTypes ==
  /\ alive \in BOOLEAN /\ sock_open \in BOOLEAN /\ _running \in BOOLEAN
  /\ pc \in [Thread -> Label]
  /\ event \in Event \cup {NoEvent}
  /\ handle \in [Sends -> 0..opened]
  /\ answer \in [Request -> {"none", "ok", "error"}]

AlertTypes ==
  /\ state \in [connected : BOOLEAN, metrics : Nat, rules : Nat, alerts : Seq(Alert),
                chat : Seq(Chat), aws : [alert : 0..MaxAlerts, uploaded : BOOLEAN]]
  /\ job \in [Thread -> [alert : 0..MaxAlerts, ok : BOOLEAN]]
  /\ puts \subseteq Alert /\ notified \subseteq Alert /\ attempted \subseteq Alert

(* Who is where: only requests of one kind send, only the others upload;   *)
(* the connector has an event while it handles one, and holds the lock     *)
(* exactly while it uploads.                                               *)
ControlInv ==
  /\ \A r \in Sends : pc[r] \in {"idle", "waiting", "sending", "half", "answered"}
  /\ \A r \in Uploads : pc[r] \in {"idle", "waiting", "answered"} \cup Uploading
  /\ pc["connector"] \notin {"idle", "waiting", "sending", "half", "answered"}
  /\ pc["connector"] = "event" => event \in Event
  /\ pc["connector"] \in Uploading =>
       event \in Event /\ event.type = "alert" /\ job["connector"].alert = event.value
  /\ _lock = "connector" <=> pc["connector"] \in Uploading
  /\ \A r \in Uploads : pc[r] \in Uploading => job[r].alert \in Alert

(* Connections still to come: one if the present one is broken or will be  *)
(* given up, two if it is not even open and will be given up.              *)
Between == {"top", "connect", "close", "leave", "except", "sleep", "ended"}

Pending ==
  IF pc["connector"] = "connect" /\ ~_running THEN 2
  ELSE IF pc["connector"] \in Between \/ ~alive \/ ~sock_open \/ ~_running THEN 1 ELSE 0

OpenedInv == opened + Pending <= MaxConns + stops

(* Nobody but the thread can write to a connection on which it has not     *)
(* registered, or failed to.                                               *)
FreshInv ==
  sock_open /\ wire = << >> =>
    /\ pc["connector"] \in {"register", "close"} /\ opened > 0
    /\ _socket # opened
    /\ \A r \in Sends : handle[r] # opened

(* The alert that is shown but has not been tried is the one the lock is   *)
(* held for.                                                               *)
FeedInv ==
  \A i \in DOMAIN state.alerts :
    \/ state.alerts[i] \in attempted
    \/ pc["connector"] \in Uploading /\ state.alerts[i] = event.value

(* SNS is called only after S3 took the alert; a result that is good in    *)
(* the end means that both calls had effect.                               *)
JobInv ==
  \A t \in Uploads \cup {"connector"} :
    /\ pc[t] = "publish_alert" /\ "s3" \in Targets => job[t].alert \in puts
    /\ pc[t] = "record" /\ job[t].ok =>
         /\ "s3" \in Targets => job[t].alert \in puts
         /\ "sns" \in Targets => job[t].alert \in notified

ConnectorInv ==
  /\ TypeOK /\ ServerTypes /\ ThreadTypes /\ AlertTypes /\ ControlInv /\ OpenedInv
  /\ FreshInv /\ RegisterFirst
  /\ FeedInv /\ JobInv /\ NoFalseSuccess

-----------------------------------------------------------------------------
(* What the steps of the threads come to.                                  *)

(* del alerts[:-20] and del chat[:-80] keep the newest entries.            *)
LEMMA LatestProperties ==
  ASSUME NEW S, NEW s \in Seq(S), NEW limit \in Nat
  PROVE  /\ Latest(s, limit) \in Seq(S)
         /\ Len(Latest(s, limit)) <= limit
         /\ \A j \in DOMAIN Latest(s, limit) : \E i \in DOMAIN s : Latest(s, limit)[j] = s[i]
<1>1. CASE Len(s) <= limit
  BY <1>1 DEF Latest
<1>2. CASE ~(Len(s) <= limit)
  <2> DEFINE first == Len(s) - limit + 1
  <2>1. first \in 1..Len(s) + 1 /\ Len(s) \in Nat
    BY <1>2
  <2>2. \A i \in first..Len(s) : s[i] \in S
    BY <2>1, ElementOfSeq
  <2>3. /\ SubSeq(s, first, Len(s)) \in Seq(S)
        /\ Len(SubSeq(s, first, Len(s))) = limit
        /\ \A j \in 1..limit : SubSeq(s, first, Len(s))[j] = s[first + j - 1]
    BY <1>2, <2>1, <2>2, SubSeqProperties
  <2>4. DOMAIN SubSeq(s, first, Len(s)) = 1..limit /\ DOMAIN s = 1..Len(s)
    BY <2>3
  <2>5. ASSUME NEW j \in 1..limit
        PROVE  \E i \in DOMAIN s : SubSeq(s, first, Len(s))[j] = s[i]
    <3>1. first + j - 1 \in DOMAIN s
      BY <1>2, <2>1, <2>4
    <3>2. QED
      BY <3>1, <2>3
  <2>6. Latest(s, limit) = SubSeq(s, first, Len(s))
    BY <1>2 DEF Latest
  <2> HIDE DEF first
  <2>7. Latest(s, limit) \in Seq(S) /\ Len(Latest(s, limit)) <= limit
    BY <2>3, <2>6
  <2>8. \A j \in DOMAIN Latest(s, limit) : \E i \in DOMAIN s : Latest(s, limit)[j] = s[i]
    BY <2>4, <2>5, <2>6, Zenon
  <2>9. QED
    BY <2>7, <2>8
<1>3. QED
  BY <1>1, <1>2

(* An upload in any thread: its own place and job, and what AWS has taken. *)
UploadMove(t, label, ok) ==
  /\ t \in Uploads \cup {"connector"} /\ pc[t] \in {"put", "publish_alert"}
  /\ pc' = [pc EXCEPT ![t] = label]
  /\ job' = [job EXCEPT ![t] = [alert |-> job[t].alert, ok |-> ok]]
  /\ job[t].alert \in Alert
  /\ puts' \in {puts, puts \cup {job[t].alert}}
  /\ notified' \in {notified, notified \cup {job[t].alert}}
  /\ label = "publish_alert" /\ "s3" \in Targets => job[t].alert \in puts'
  /\ label = "record" /\ ok =>
       /\ "s3" \in Targets => job[t].alert \in puts'
       /\ "sns" \in Targets => job[t].alert \in notified'
  /\ UNCHANGED <<serverVars, link, shared, event, requests, attempted, stops>>

LEMMA UploadMoves ==
  ASSUME ConnectorInv, NEW t \in Thread, put_object(t) \/ publish(t)
  PROVE  \E label \in {"publish_alert", "record"}, ok \in BOOLEAN : UploadMove(t, label, ok)
<1> USE DEF ConnectorInv, ThreadTypes, AlertTypes, ControlInv, Uploading, Thread, Request, Goto
<1>1. t \in Uploads \cup {"connector"} /\ pc[t] \in {"put", "publish_alert"}
  BY DEF put_object, publish
<1>2. job[t].alert \in Alert
  BY <1>1 DEF Event
<1>3. /\ job = [job EXCEPT ![t] = [alert |-> job[t].alert, ok |-> job[t].ok]]
      /\ job[t].ok \in BOOLEAN
  OBVIOUS
<1>4. CASE put_object(t) /\ "s3" \in Targets
  <2>1. PICK outcome \in Outcomes :
          /\ puts' = IF outcome = "failed" THEN puts ELSE puts \cup {job[t].alert}
          /\ job' = [job EXCEPT ![t] = [alert |-> job[t].alert, ok |-> (outcome = "done")]]
          /\ pc' = [pc EXCEPT ![t] = IF outcome = "done" THEN "publish_alert" ELSE "record"]
    BY <1>4 DEF put_object, result_ok
  <2>2. UNCHANGED <<serverVars, link, shared, event, requests, notified, attempted, stops>>
    BY <1>4 DEF put_object
  <2>3. CASE outcome = "done"
    <3>1. UploadMove(t, "publish_alert", TRUE)
      BY <1>1, <1>2, <2>1, <2>2, <2>3 DEF UploadMove
    <3>2. QED
      BY <3>1
  <2>4. CASE outcome # "done"
    <3>1. UploadMove(t, "record", FALSE)
      BY <1>1, <1>2, <2>1, <2>2, <2>4 DEF UploadMove
    <3>2. QED
      BY <3>1
  <2>5. QED
    BY <2>3, <2>4
<1>5. CASE put_object(t) /\ "s3" \notin Targets
  <2>1. /\ pc' = [pc EXCEPT ![t] = "publish_alert"] /\ UNCHANGED <<puts, job>>
        /\ UNCHANGED <<serverVars, link, shared, event, requests, notified, attempted, stops>>
    BY <1>5 DEF put_object
  <2>2. UploadMove(t, "publish_alert", job[t].ok)
    BY <1>1, <1>2, <1>3, <1>5, <2>1 DEF UploadMove
  <2>3. QED
    BY <1>3, <2>2
<1>6. CASE publish(t)
  <2>1. /\ pc' = [pc EXCEPT ![t] = "record"] /\ pc[t] = "publish_alert"
        /\ UNCHANGED <<serverVars, link, shared, event, requests, puts, attempted, stops>>
    BY <1>6 DEF publish
  <2>2. "s3" \in Targets => job[t].alert \in puts
    BY <1>1, <2>1 DEF JobInv
  <2>3. CASE "sns" \in Targets
    <3>1. PICK outcome \in Outcomes :
            /\ notified' = IF outcome = "failed" THEN notified ELSE notified \cup {job[t].alert}
            /\ job' = [job EXCEPT ![t] = [alert |-> job[t].alert, ok |-> (outcome = "done")]]
      BY <1>6, <2>3 DEF publish, result_ok
    <3>2. CASE outcome = "done"
      <4>1. UploadMove(t, "record", TRUE)
        BY <1>1, <1>2, <2>1, <2>2, <3>1, <3>2 DEF UploadMove
      <4>2. QED
        BY <4>1
    <3>3. CASE outcome # "done"
      <4>1. UploadMove(t, "record", FALSE)
        BY <1>1, <1>2, <2>1, <3>1, <3>3 DEF UploadMove
      <4>2. QED
        BY <4>1
    <3>4. QED
      BY <3>2, <3>3
  <2>4. CASE "sns" \notin Targets
    <3>1. UNCHANGED <<notified, job>>
      BY <1>6, <2>4 DEF publish
    <3>2. UploadMove(t, "record", job[t].ok)
      BY <1>1, <1>2, <1>3, <2>1, <2>2, <2>4, <3>1 DEF UploadMove
    <3>3. QED
      BY <1>3, <3>2
  <2>5. QED
    BY <2>3, <2>4
<1>7. QED
  BY <1>4, <1>5, <1>6

(* A request that sends: its own place, socket and answer, and half lines  *)
(* at the end of the wire if its socket is the present one.                *)
SendMove(r, label, sent) ==
  /\ r \in Sends
  /\ pc' = [pc EXCEPT ![r] = label]
  /\ answer' \in [Request -> {"none", "ok", "error"}]
  /\ handle' \in {handle, [handle EXCEPT ![r] = _socket], [handle EXCEPT ![r] = 0]}
  /\ wire' = wire \o sent /\ Len(wire) + Len(sent) - drained <= Room
  /\ sent # << >> => handle[r] = opened /\ sock_open
  /\ UNCHANGED <<serverVars, opened, alive, sock_open, drained, inbox, shared, event, aws, stops>>

LEMMA SendMoves ==
  ASSUME ConnectorInv, NEW r \in Request, _send(r) \/ sendall(r) \/ SendFails(r)
  PROVE  \E label \in {"sending", "half", "answered"}, sent \in Seq(Piece) :
           SendMove(r, label, sent)
<1> USE DEF ConnectorInv, ThreadTypes, ControlInv, Uploading, Thread, Request, Goto, Reply
<1>1. r \in Sends
  BY ConnectorAssumption DEF _send, sendall, SendFails
<1>2. \A text \in {"ok", "error"} :
        [answer EXCEPT ![r] = text] \in [Request -> {"none", "ok", "error"}]
  OBVIOUS
<1>3. /\ wire \in Seq(Piece) /\ Len(wire) \in Nat /\ drained \in Nat /\ Room \in Nat
      /\ Len(wire) - drained <= Room
  BY ConnectorAssumption DEF TypeOK
<1>4. << >> \in Seq(Piece) /\ Len(<< >>) = 0 /\ wire \o << >> = wire
  BY <1>3, ConcatEmptySeq
<1>5. CASE _send(r)
  <2>1. /\ handle' = [handle EXCEPT ![r] = _socket] /\ wire' = wire
        /\ UNCHANGED <<serverVars, opened, alive, sock_open, drained, inbox, shared, event, aws,
                       stops>>
    BY <1>5 DEF _send, link
  <2>2. CASE _socket = 0
    <3>1. SendMove(r, "answered", << >>)
      BY <1>1, <1>2, <1>3, <1>4, <1>5, <2>1, <2>2 DEF _send, SendMove
    <3>2. QED
      BY <1>4, <3>1
  <2>3. CASE _socket # 0
    <3>1. SendMove(r, "sending", << >>)
      BY <1>1, <1>3, <1>4, <1>5, <2>1, <2>3 DEF _send, SendMove
    <3>2. QED
      BY <1>4, <3>1
  <2>4. QED
    BY <2>2, <2>3
<1>6. CASE SendFails(r)
  <2>1. SendMove(r, "answered", << >>)
    BY <1>1, <1>2, <1>3, <1>4, <1>6 DEF SendFails, link, SendMove
  <2>2. QED
    BY <1>4, <2>1
<1>7. CASE sendall(r)
  <2> DEFINE room == Room - (Len(wire) - drained)
             first == [line |-> r, part |-> 1]
             second == [line |-> r, part |-> 2]
  <2>1. /\ handle[r] = opened /\ sock_open
        /\ UNCHANGED <<serverVars, opened, alive, sock_open, drained, inbox, shared, event, aws,
                       stops>>
    BY <1>7 DEF sendall, Usable
  <2>2. first \in Piece /\ second \in Piece /\ Halves(r) = <<first, second>>
    BY <1>1 DEF Halves, Piece
  <2> HIDE DEF first, second
  <2>3. Rest(r) \in {<<first, second>>, <<second>>}
    BY <2>2 DEF Rest
  <2>4. Rest(r) \in Seq(Piece) /\ Len(Rest(r)) \in {1, 2} /\ Rest(r) # << >>
    <3>1. CASE Rest(r) = <<first, second>>
      BY <2>2, <3>1
    <3>2. CASE Rest(r) = <<second>>
      BY <2>2, <3>2
    <3>3. QED
      BY <2>3, <3>1, <3>2
  <2>5. CASE room >= Len(Rest(r))
    <3>1. /\ wire' = wire \o Rest(r) /\ pc' = [pc EXCEPT ![r] = "answered"]
          /\ answer' = [answer EXCEPT ![r] = "ok"] /\ handle' = [handle EXCEPT ![r] = 0]
      BY <1>7, <2>5 DEF sendall
    <3>2. Len(wire) + Len(Rest(r)) - drained <= Room
      BY <1>3, <2>4, <2>5
    <3>3. SendMove(r, "answered", Rest(r))
      BY <1>1, <1>2, <2>1, <3>1, <3>2 DEF SendMove
    <3>4. QED
      BY <2>4, <3>3
  <2>6. CASE ~(room >= Len(Rest(r)))
    <3>1. /\ room > 0 /\ wire' = wire \o <<Head(Rest(r))>>
          /\ pc' = [pc EXCEPT ![r] = "half"] /\ answer' = answer /\ handle' = handle
      BY <1>7, <2>6 DEF sendall
    <3>2. <<Head(Rest(r))>> \in Seq(Piece) /\ Len(<<Head(Rest(r))>>) = 1
      BY <2>2, <2>3
    <3>3. Len(wire) + Len(<<Head(Rest(r))>>) - drained <= Room
      BY <1>3, <3>1, <3>2
    <3>4. SendMove(r, "half", <<Head(Rest(r))>>)
      BY <1>1, <2>1, <3>1, <3>3 DEF SendMove
    <3>5. QED
      BY <3>2, <3>4
  <2>7. QED
    BY <2>5, <2>6
<1>8. QED
  BY <1>5, <1>6, <1>7

(* A request that uploads takes the newest alert that is shown, if any.    *)
UploadStart(r, label, todo) ==
  /\ r \in Uploads /\ pc[r] = "waiting"
  /\ pc' = [pc EXCEPT ![r] = label]
  /\ answer' \in [Request -> {"none", "ok", "error"}]
  /\ job' = [job EXCEPT ![r] = todo]
  /\ label \in Uploading => todo.alert \in Alert
  /\ label = "record" => Targets = {}
  /\ UNCHANGED <<serverVars, link, shared, event, handle, puts, notified, attempted, stops>>

LEMMA UploadStarts ==
  ASSUME ConnectorInv, NEW r \in Request, upload_latest_alert(r)
  PROVE  \E label \in {"put", "record", "answered"}, todo \in [alert : 0..MaxAlerts, ok : BOOLEAN] :
           UploadStart(r, label, todo)
<1> USE DEF Goto, Reply
<1>1. /\ r \in Uploads /\ pc[r] = "waiting"
      /\ UNCHANGED <<serverVars, link, shared, event, handle, puts, notified, attempted, stops>>
  BY DEF upload_latest_alert
<1>2. /\ answer \in [Request -> {"none", "ok", "error"}]
      /\ job \in [Thread -> [alert : 0..MaxAlerts, ok : BOOLEAN]]
      /\ state.alerts \in Seq(Alert)
  BY DEF ConnectorInv, ThreadTypes, AlertTypes
<1>3. CASE state.alerts = << >>
  <2>1. /\ pc' = [pc EXCEPT ![r] = "answered"] /\ job' = job
        /\ answer' = [answer EXCEPT ![r] = "error"]
    BY <1>3 DEF upload_latest_alert
  <2>2. UploadStart(r, "answered", job[r])
    BY <1>1, <1>2, <2>1 DEF UploadStart, Thread, Uploading
  <2>3. QED
    BY <1>2, <2>2 DEF Thread
<1>4. CASE state.alerts # << >>
  <2> DEFINE todo == [alert |-> state.alerts[Len(state.alerts)], ok |-> Targets # {}]
             label == IF Targets = {} THEN "record" ELSE "put"
  <2>1. state.alerts[Len(state.alerts)] \in Alert
    BY <1>2, <1>4
  <2>2. todo \in [alert : 0..MaxAlerts, ok : BOOLEAN] /\ todo.alert \in Alert
    BY <2>1 DEF Alert
  <2>3. job' = [job EXCEPT ![r] = todo] /\ pc' = [pc EXCEPT ![r] = label] /\ answer' = answer
    BY <1>4 DEF upload_latest_alert
  <2>4. label \in {"put", "record"} /\ (label = "record" => Targets = {})
    OBVIOUS
  <2> HIDE DEF todo, label
  <2>5. UploadStart(r, label, todo)
    BY <1>1, <1>2, <2>2, <2>3, <2>4 DEF UploadStart
  <2>6. QED
    BY <2>2, <2>4, <2>5
<1>5. QED
  BY <1>3, <1>4

(* The server answers a dashboard with events it can handle.               *)
LEMMA AnswersType ==
  ASSUME ConnectorInv, NEW kind, NEW name \in Chat, NEW rules \in Nat
  PROVE  Answers(kind, name, rules) \in Seq(Event)
<1> DEFINE registered == Entry("registered")
           added == Entry("rule added")
           own == Entry(name)
           metrics == Version("metrics", known.metrics)
           list == Version("rules", rules)
<1>1. registered \in Event /\ added \in Event /\ own \in Event
  BY DEF Event, Entry, Chat
<1>2. metrics \in Event /\ list \in Event
  BY DEF ConnectorInv, ServerTypes, Event, Version
<1>3. Answers(kind, name, rules) \in
        {<<registered, metrics, list>>, <<added, list, own>>, <<list>>, <<own>>}
  BY DEF Answers
<1> HIDE DEF registered, added, own, metrics, list
<1>4. /\ <<registered, metrics, list>> \in Seq(Event) /\ <<added, list, own>> \in Seq(Event)
      /\ <<list>> \in Seq(Event) /\ <<own>> \in Seq(Event)
  BY <1>1, <1>2
<1>5. QED
  BY <1>3, <1>4

(* A line adds a rule or changes nothing, and is answered with events.     *)
LEMMA ReadType ==
  ASSUME ConnectorInv, ServerReads
  PROVE  /\ inbox' \in Seq(Event)
         /\ known' \in [metrics : Nat, rules : Nat, alert : 0..MaxAlerts]
<1> DEFINE i == drained + 1
<1>1. /\ inbox \in Seq(Event) /\ known \in [metrics : Nat, rules : Nat, alert : 0..MaxAlerts]
      /\ wire \in Seq(Piece) /\ i \in 1..Len(wire)
  BY DEF ConnectorInv, TypeOK, ServerTypes, ServerReads
<1>2. wire[i] \in Piece
  BY <1>1, ElementOfSeq
<1>3. ASSUME NEW kind, NEW name \in Chat, handle_line(kind, name)
      PROVE  /\ inbox' \in Seq(Event)
             /\ known' \in [metrics : Nat, rules : Nat, alert : 0..MaxAlerts]
  <2>1. PICK rules \in Nat : /\ known' = [known EXCEPT !.rules = rules]
                             /\ inbox' = inbox \o Answers(kind, name, rules)
    <3>1. known.rules \in Nat /\ known.rules + 1 \in Nat
      BY <1>1
    <3>2. QED
      BY <1>3, <3>1 DEF handle_line
  <2>2. Answers(kind, name, rules) \in Seq(Event)
    BY AnswersType
  <2>3. QED
    BY <1>1, <2>1, <2>2, ConcatProperties
<1>4. CASE wire[i].part = 1
  BY <1>1, <1>4 DEF ServerReads
<1>5. CASE wire[i].part # 1 /\ Intact(i) /\ wire[i].line = "register"
  <2>1. handle_line("register", "register")
    BY <1>5, ConnectorAssumption DEF ServerReads, Kind, Request, Sends
  <2>2. known' = known /\ inbox' = inbox \o Answers("register", "registered", known.rules)
    BY <2>1, <1>1 DEF handle_line, Answers
  <2>3. Answers("register", "registered", known.rules) \in Seq(Event)
    BY <1>1, AnswersType DEF Chat
  <2>4. QED
    BY <1>1, <2>2, <2>3, ConcatProperties
<1>6. CASE wire[i].part # 1 /\ Intact(i) /\ wire[i].line # "register"
  <2>1. handle_line(Kind(wire[i].line), wire[i].line)
    BY <1>6 DEF ServerReads
  <2>2. wire[i].line \in Chat
    BY <1>2, <1>6 DEF Piece, Chat
  <2>3. QED
    BY <1>3, <2>1, <2>2
<1>7. CASE wire[i].part # 1 /\ ~Intact(i)
  <2>1. PICK kind \in {"post", "alert", "list"} : handle_line(kind, "garbled")
    BY <1>7 DEF ServerReads
  <2>2. QED
    BY <1>3, <2>1 DEF Chat
<1>8. QED
  BY <1>4, <1>5, <1>6, <1>7

(* The line that registers is two half lines more on the wire.             *)
LEMMA RegisterGrows ==
  ASSUME ConnectorInv, register
  PROVE  wire' \in Seq(Piece) /\ Len(wire') = Len(wire) + 2 /\ wire' # << >>
<1> DEFINE line == Halves("register")
<1>1. line \in Seq(Piece) /\ Len(line) = 2
  BY DEF Halves, Piece
<1>2. wire' = wire \o line
  BY DEF register
<1>3. wire \in Seq(Piece) /\ Len(wire) \in Nat
  BY DEF ConnectorInv, TypeOK
<1> HIDE DEF line
<1>4. wire' \in Seq(Piece) /\ Len(wire') = Len(wire) + Len(line)
  BY <1>1, <1>2, <1>3, ConcatProperties
<1>5. QED
  BY <1>1, <1>3, <1>4

(* What the server broadcasts are events, too.                             *)
LEMMA BroadcastType ==
  ASSUME ConnectorInv, NEW type \in {"metrics", "rules", "alert"}, broadcast_to_dashboards(type)
  PROVE  /\ inbox' \in Seq(Event)
         /\ known' \in [metrics : Nat, rules : Nat, alert : 0..MaxAlerts]
<1> DEFINE news == Version(type, known[type] + 1)
           added == Entry("rule added")
<1>1. /\ known \in [metrics : Nat, rules : Nat, alert : 0..MaxAlerts] /\ MaxAlerts \in Nat
      /\ inbox \in Seq(Event)
  BY ConnectorAssumption DEF ConnectorInv, ServerTypes, TypeOK
<1>2. known' = [known EXCEPT ![type] = known[type] + 1]
  BY DEF broadcast_to_dashboards
<1>3. /\ known' \in [metrics : Nat, rules : Nat, alert : 0..MaxAlerts]
      /\ news \in Event
  <2>1. CASE type = "alert"
    <3>1. known.alert < MaxAlerts
      BY <2>1 DEF broadcast_to_dashboards, More
    <3>2. known.alert + 1 \in Alert /\ known.alert + 1 \in 0..MaxAlerts
      BY <1>1, <3>1 DEF Alert
    <3>3. QED
      BY <1>1, <1>2, <2>1, <3>2 DEF Version, Event
  <2>2. CASE type = "metrics"
    <3>1. known' = [known EXCEPT !["metrics"] = known["metrics"] + 1] /\ known["metrics"] + 1 \in Nat
      BY <1>1, <1>2, <2>2
    <3>2. Version("metrics", known["metrics"] + 1) \in Event
      BY <3>1 DEF Version, Event
    <3>3. QED
      BY <1>1, <2>2, <3>1, <3>2
  <2>3. CASE type = "rules"
    <3>1. known' = [known EXCEPT !["rules"] = known["rules"] + 1] /\ known["rules"] + 1 \in Nat
      BY <1>1, <1>2, <2>3
    <3>2. Version("rules", known["rules"] + 1) \in Event
      BY <3>1 DEF Version, Event
    <3>3. QED
      BY <1>1, <2>3, <3>1, <3>2
  <2>4. QED
    BY <2>1, <2>2, <2>3
<1>4. added \in Event
  BY DEF Entry, Event
<1>5. inbox' \in {inbox, inbox \o << >> \o <<news>>, inbox \o <<added>> \o <<news>>}
  BY DEF broadcast_to_dashboards
<1> HIDE DEF news, added
<1>6. << >> \in Seq(Event) /\ <<news>> \in Seq(Event) /\ <<added>> \in Seq(Event)
  BY <1>3, <1>4
<1>7. /\ inbox \o << >> \in Seq(Event) /\ inbox \o <<added>> \in Seq(Event)
  BY <1>1, <1>6, ConcatProperties
<1>8. /\ inbox \o << >> \o <<news>> \in Seq(Event)
      /\ inbox \o <<added>> \o <<news>> \in Seq(Event)
  BY <1>6, <1>7, ConcatProperties
<1>9. QED
  BY <1>1, <1>3, <1>5, <1>8

(* Every step, with the uploads and the requests as above.                 *)
LEMMA StepCases ==
  ASSUME ConnectorInv, [Next]_vars
  PROVE  \/ LoopTest \/ ConnectFails \/ RegisterFails \/ ConsumeFails \/ ConsumeEnds \/ sleep
         \/ create_connection \/ register \/ publish_socket \/ _consume
         \/ CloseSocket("close", "except") \/ CloseSocket("leave", "top") \/ except
         \/ HandleMessage \/ HandleAlert \/ AlertHandled
         \/ \E t \in Thread, label \in {"publish_alert", "record"}, ok \in BOOLEAN :
              UploadMove(t, label, ok)
         \/ \E r \in Request : Arrives(r)
         \/ \E r \in Sends, label \in {"sending", "half", "answered"}, sent \in Seq(Piece) :
              SendMove(r, label, sent)
         \/ \E r \in Uploads, label \in {"put", "record", "answered"},
               todo \in [alert : 0..MaxAlerts, ok : BOOLEAN] : UploadStart(r, label, todo)
         \/ \E r \in Uploads : UploadRecorded(r)
         \/ \E type \in {"metrics", "rules", "alert"} : broadcast_to_dashboards(type)
         \/ ServerReads \/ ServerFails \/ ServerStarts \/ stop \/ start
         \/ UNCHANGED vars
<1>1. ASSUME NEW t \in Thread, put_object(t) \/ publish(t)
      PROVE  \E label \in {"publish_alert", "record"}, ok \in BOOLEAN : UploadMove(t, label, ok)
  BY <1>1, UploadMoves
<1>2. ASSUME NEW r \in Request, _send(r) \/ sendall(r) \/ SendFails(r)
      PROVE  \E q \in Sends, label \in {"sending", "half", "answered"}, sent \in Seq(Piece) :
               SendMove(q, label, sent)
  <2>1. PICK label \in {"sending", "half", "answered"}, sent \in Seq(Piece) :
          SendMove(r, label, sent)
    BY <1>2, SendMoves
  <2>2. r \in Sends
    BY <2>1 DEF SendMove
  <2>3. QED
    BY <2>1, <2>2
<1>3. ASSUME NEW r \in Request, upload_latest_alert(r)
      PROVE  \E q \in Uploads, label \in {"put", "record", "answered"},
                todo \in [alert : 0..MaxAlerts, ok : BOOLEAN] : UploadStart(q, label, todo)
  <2>1. PICK label \in {"put", "record", "answered"},
             todo \in [alert : 0..MaxAlerts, ok : BOOLEAN] : UploadStart(r, label, todo)
    BY <1>3, UploadStarts
  <2>2. r \in Uploads
    BY <2>1 DEF UploadStart
  <2>3. QED
    BY <2>1, <2>2
<1>4. ASSUME NEW r \in Request, UploadRecorded(r)
      PROVE  \E q \in Uploads : UploadRecorded(q)
  BY <1>4 DEF UploadRecorded
<1>5. "connector" \in Thread /\ Request \subseteq Thread
  BY DEF Thread
<1>6. CASE ConnectorStep
  BY <1>1, <1>5, <1>6 DEF ConnectorStep, RecvTimesOut
<1>7. ASSUME NEW r \in Request, RequestStep(r)
      PROVE  \/ \E t \in Thread, label \in {"publish_alert", "record"}, ok \in BOOLEAN :
                  UploadMove(t, label, ok)
             \/ \E q \in Sends, label \in {"sending", "half", "answered"}, sent \in Seq(Piece) :
                  SendMove(q, label, sent)
             \/ \E q \in Uploads, label \in {"put", "record", "answered"},
                   todo \in [alert : 0..MaxAlerts, ok : BOOLEAN] : UploadStart(q, label, todo)
             \/ \E q \in Uploads : UploadRecorded(q)
  BY <1>1, <1>2, <1>3, <1>4, <1>5, <1>7 DEF RequestStep
<1>8. QED
  BY <1>6, <1>7 DEF Next, ServerStep

-----------------------------------------------------------------------------
(* Every step keeps the parts of ConnectorInv, one lemma for each part.    *)

(* The limits of the feed, the chat and the socket, and what is on its way *)
(* in either direction.                                                    *)
LEMMA TypeOKStep ==
  ASSUME ConnectorInv, [Next]_vars
  PROVE  TypeOK'
<1>1. /\ TypeOK /\ Room \in Nat
      /\ state \in [connected : BOOLEAN, metrics : Nat, rules : Nat, alerts : Seq(Alert),
                    chat : Seq(Chat), aws : [alert : 0..MaxAlerts, uploaded : BOOLEAN]]
  BY ConnectorAssumption DEF ConnectorInv, AlertTypes
<1> USE <1>1 DEF TypeOK, Goto, At, Step, serverVars, link, shared, requests, aws
<1>2. CASE \/ LoopTest \/ ConnectFails \/ RegisterFails \/ ConsumeFails \/ ConsumeEnds
           \/ sleep
           \/ \E t \in Thread, label \in {"publish_alert", "record"}, ok \in BOOLEAN :
                UploadMove(t, label, ok)
           \/ \E r \in Request : Arrives(r)
           \/ \E r \in Uploads, label \in {"put", "record", "answered"},
                 todo \in [alert : 0..MaxAlerts, ok : BOOLEAN] : UploadStart(r, label, todo)
           \/ ServerStarts \/ stop \/ start \/ UNCHANGED vars
  <2>1. UNCHANGED <<opened, wire, drained, inbox, _socket, _lock, state>>
    BY <1>2 DEF LoopTest, ConnectFails, RegisterFails, ConsumeFails, ConsumeEnds, sleep,
         UploadMove, Arrives, UploadStart, ServerStarts, stop, start, vars
  <2>2. QED
    BY <2>1
<1>3. CASE create_connection
  <2>1. Pending \in {1, 2} /\ opened + Pending <= MaxConns + stops
    BY <1>3 DEF create_connection, ConnectorInv, OpenedInv, Pending, Between
  <2>2. stops \in 0..MaxStops /\ opened \in Nat /\ MaxConns \in Nat /\ MaxStops \in Nat
    BY ConnectorAssumption DEF ConnectorInv, ServerTypes
  <2>3. opened + 1 \in 0..MaxConns + MaxStops
    <3>1. CASE Pending = 1
      BY <2>1, <2>2, <3>1
    <3>2. CASE Pending = 2
      BY <2>1, <2>2, <3>2
    <3>3. QED
      BY <2>1, <3>1, <3>2
  <2>4. << >> \in Seq(Piece) /\ << >> \in Seq(Event) /\ Len(<< >>) = 0
    OBVIOUS
  <2>5. /\ opened' = opened + 1 /\ wire' = << >> /\ drained' = 0 /\ inbox' = << >>
        /\ UNCHANGED <<_socket, _lock, state>>
    BY <1>3 DEF create_connection, socket_while_registering
  <2>6. QED
    BY <2>3, <2>4, <2>5
<1>4. CASE register
  <2>1. wire' \in Seq(Piece) /\ Len(wire') = Len(wire) + 2
    BY <1>4, RegisterGrows
  <2>2. Len(wire) - drained <= Room - 2 /\ Len(wire) \in Nat
    BY <1>4 DEF register
  <2>3. UNCHANGED <<opened, drained, inbox, _socket, _lock, state>>
    BY <1>4 DEF register
  <2>4. QED
    BY <2>1, <2>2, <2>3
<1>5. CASE publish_socket
  BY <1>5 DEF publish_socket
<1>6. CASE _consume
  <2>1. Tail(inbox) \in Seq(Event)
    BY <1>6, HeadTailProperties DEF _consume
  <2>2. QED
    BY <1>6, <2>1 DEF _consume, buffer_left
<1>7. CASE CloseSocket("close", "except") \/ CloseSocket("leave", "top")
  <2>1. << >> \in Seq(Piece) /\ << >> \in Seq(Event) /\ Len(<< >>) = 0
    OBVIOUS
  <2>2. /\ wire' = << >> /\ drained' = 0 /\ inbox' = << >>
        /\ UNCHANGED <<opened, _socket, _lock, state>>
    BY <1>7 DEF CloseSocket
  <2>3. QED
    BY <2>1, <2>2
<1>8. CASE except
  BY <1>8 DEF except, after_exception
<1>9. CASE HandleMessage
  <2>1. event \in Event /\ event.type # "alert" /\ UNCHANGED <<link, _socket, _lock>>
    BY <1>9 DEF HandleMessage, ConnectorInv, ControlInv
  <2>2. CASE event.type \in {"metrics", "rules"}
    <3>1. /\ event.value \in Nat
          /\ state' \in {[state EXCEPT !.metrics = event.value], [state EXCEPT !.rules = event.value]}
      BY <1>9, <2>1, <2>2 DEF HandleMessage, Event
    <3>2. QED
      BY <2>1, <3>1
  <2>3. CASE event.type \notin {"metrics", "rules"}
    <3>1. event.value \in Chat /\ state' = [state EXCEPT !.chat = chat_after]
      BY <1>9, <2>1, <2>3 DEF HandleMessage, Event, Chat
    <3>2. Append(state.chat, event.value) \in Seq(Chat) /\ ChatLimit \in Nat
      BY <3>1, ConnectorAssumption
    <3>3. Len(chat_after) <= ChatLimit
      BY <3>2, LatestProperties DEF chat_after
    <3>4. QED
      BY <2>1, <3>1, <3>3
  <2>4. QED
    BY <2>2, <2>3
<1>10. CASE HandleAlert
  <2>1. event.value \in Alert
    BY <1>10 DEF HandleAlert, Event, ConnectorInv, ControlInv
  <2>2. Append(state.alerts, event.value) \in Seq(Alert) /\ AlertLimit \in Nat
    BY <2>1, ConnectorAssumption
  <2>3. Len(Latest(Append(state.alerts, event.value), AlertLimit)) <= AlertLimit
    BY <2>2, LatestProperties
  <2>4. QED
    BY <1>10, <2>3 DEF HandleAlert, held_during_upload
<1>11. CASE AlertHandled
  BY <1>11 DEF AlertHandled
<1>12. ASSUME NEW r \in Sends, NEW label \in {"sending", "half", "answered"},
               NEW sent \in Seq(Piece), SendMove(r, label, sent)
       PROVE  TypeOK'
  <2>1. /\ wire' = wire \o sent /\ Len(wire) + Len(sent) - drained <= Room
        /\ UNCHANGED <<opened, drained, inbox, _socket, _lock, state>>
    BY <1>12 DEF SendMove
  <2>2. wire' \in Seq(Piece) /\ Len(wire') = Len(wire) + Len(sent) /\ Len(sent) \in Nat
    BY <2>1, ConcatProperties
  <2>3. QED
    BY <2>1, <2>2
<1>13. ASSUME NEW r \in Uploads, UploadRecorded(r)
       PROVE  TypeOK'
  BY <1>13 DEF UploadRecorded, Reply
<1>14. ASSUME NEW type \in {"metrics", "rules", "alert"}, broadcast_to_dashboards(type)
       PROVE  TypeOK'
  <2>1. UNCHANGED <<opened, wire, drained, _socket, _lock, state>>
    BY <1>14 DEF broadcast_to_dashboards
  <2>2. inbox' \in Seq(Event)
    BY <1>14, BroadcastType
  <2>3. QED
    BY <2>1, <2>2
<1>15. CASE ServerReads
  <2>1. /\ drained < Len(wire) /\ drained' = drained + 1
        /\ UNCHANGED <<opened, wire, _socket, _lock, state>>
    BY <1>15 DEF ServerReads
  <2>2. Len(wire) \in Nat /\ drained \in Nat /\ Len(wire) - drained <= Room
    OBVIOUS
  <2>3. drained' \in 1..Len(wire) /\ Len(wire) - drained' <= Room
    BY <2>1, <2>2
  <2>4. inbox' \in Seq(Event)
    BY <1>15, ReadType
  <2>5. QED
    BY <2>1, <2>3, <2>4
<1>16. CASE ServerFails
  <2>1. << >> \in Seq(Event)
    OBVIOUS
  <2>2. inbox' \in {inbox, << >>} /\ UNCHANGED <<opened, wire, drained, _socket, _lock, state>>
    BY <1>16 DEF ServerFails
  <2>3. QED
    BY <2>1, <2>2
<1> HIDE <1>1 DEF TypeOK, Goto, At, Step, serverVars, link, shared, requests, aws
<1>17. QED
  BY <1>2, <1>3, <1>4, <1>5, <1>6, <1>7, <1>8, <1>9, <1>10, <1>11, <1>12, <1>13, <1>14, <1>15,
       <1>16, StepCases

(* What the server knows stays within the bounds of a run.                 *)
LEMMA ServerTypesStep ==
  ASSUME ConnectorInv, [Next]_vars
  PROVE  ServerTypes'
<1>1. /\ ServerTypes
      /\ MaxChanges \in Nat /\ MaxStops \in Nat /\ MaxAlerts \in Nat
  BY ConnectorAssumption DEF ConnectorInv
<1> USE <1>1 DEF ServerTypes, Goto, At, Step, serverVars, link, shared, requests, aws
<1>2. CASE \/ LoopTest \/ ConnectFails \/ RegisterFails \/ ConsumeFails \/ ConsumeEnds
           \/ sleep \/ create_connection \/ register \/ publish_socket \/ _consume
           \/ CloseSocket("close", "except") \/ CloseSocket("leave", "top") \/ except
           \/ HandleMessage \/ HandleAlert \/ AlertHandled
           \/ \E t \in Thread, label \in {"publish_alert", "record"}, ok \in BOOLEAN :
                UploadMove(t, label, ok)
           \/ \E r \in Request : Arrives(r)
           \/ \E r \in Sends, label \in {"sending", "half", "answered"}, sent \in Seq(Piece) :
                SendMove(r, label, sent)
           \/ \E r \in Uploads, label \in {"put", "record", "answered"},
                 todo \in [alert : 0..MaxAlerts, ok : BOOLEAN] : UploadStart(r, label, todo)
           \/ \E r \in Uploads : UploadRecorded(r)
           \/ start \/ UNCHANGED vars
  <2>1. UNCHANGED <<server, known, stops>>
    BY <1>2 DEF LoopTest, ConnectFails, RegisterFails, ConsumeFails, ConsumeEnds, sleep,
         create_connection, register, publish_socket, _consume, CloseSocket, except,
         HandleMessage, HandleAlert, AlertHandled, UploadMove, Arrives, SendMove, UploadStart,
         UploadRecorded, start, vars
  <2>2. QED
    BY <2>1
<1>3. ASSUME NEW type \in {"metrics", "rules", "alert"}, broadcast_to_dashboards(type)
      PROVE  ServerTypes'
  <2>1. known' \in [metrics : Nat, rules : Nat, alert : 0..MaxAlerts]
    BY <1>3, BroadcastType
  <2>2. UNCHANGED <<server, stops>>
    BY <1>3 DEF broadcast_to_dashboards
  <2>3. QED
    BY <2>1, <2>2
<1>4. CASE ServerFails
  BY <1>4 DEF ServerFails
<1>5. CASE ServerStarts
  BY <1>5 DEF ServerStarts
<1>6. CASE stop
  BY <1>6 DEF stop
<1>7. CASE ServerReads
  <2>1. known' \in [metrics : Nat, rules : Nat, alert : 0..MaxAlerts]
    BY <1>7, ReadType
  <2>2. QED
    BY <1>7, <2>1 DEF ServerReads
<1> HIDE <1>1 DEF ServerTypes, Goto, At, Step, serverVars, link, shared, requests, aws
<1>8. QED
  BY <1>2, <1>3, <1>4, <1>5, <1>6, <1>7, StepCases

(* The threads are where the code has a place for them, and a request's    *)
(* socket is one that has been opened.                                     *)
LEMMA ThreadTypesStep ==
  ASSUME ConnectorInv, [Next]_vars
  PROVE  ThreadTypes'
<1>1. /\ ThreadTypes
      /\ opened \in Nat /\ _socket \in 0..opened
      /\ inbox \in Seq(Event)
  BY ConnectorAssumption DEF ConnectorInv, TypeOK
<1> USE <1>1 DEF ThreadTypes, Label, Thread, Request, Goto, At, Step, serverVars, link, shared,
     requests, aws
<1>2. CASE \/ \E type \in {"metrics", "rules", "alert"} : broadcast_to_dashboards(type)
           \/ ServerReads \/ ServerStarts \/ UNCHANGED vars
  <2>1. UNCHANGED <<opened, alive, sock_open, _running, pc, event, handle, answer>>
    BY <1>2 DEF broadcast_to_dashboards, ServerReads, ServerStarts, vars
  <2>2. QED
    BY <2>1
<1>3. CASE LoopTest \/ ConnectFails \/ RegisterFails \/ ConsumeFails \/ ConsumeEnds \/ sleep
  BY <1>3 DEF LoopTest, ConnectFails, RegisterFails, ConsumeFails, ConsumeEnds, consume_ends,
       sleep
<1>4. CASE create_connection
  BY <1>4 DEF create_connection, socket_while_registering
<1>5. CASE register
  BY <1>5 DEF register, Halves
<1>6. CASE publish_socket
  BY <1>6 DEF publish_socket
<1>7. CASE _consume
  <2>1. Head(inbox) \in Event
    BY <1>7, HeadTailProperties DEF _consume
  <2>2. QED
    BY <1>7, <2>1 DEF _consume
<1>8. CASE CloseSocket("close", "except") \/ CloseSocket("leave", "top")
  BY <1>8 DEF CloseSocket
<1>9. CASE except
  BY <1>9 DEF except, after_exception
<1>10. CASE HandleMessage
  BY <1>10 DEF HandleMessage, chat_after
<1>11. CASE HandleAlert
  BY <1>11 DEF HandleAlert, held_during_upload
<1>12. CASE AlertHandled
  BY <1>12 DEF AlertHandled
<1>13. ASSUME NEW t \in Thread, NEW label \in {"publish_alert", "record"}, NEW ok \in BOOLEAN,
               UploadMove(t, label, ok)
       PROVE  ThreadTypes'
  BY <1>13 DEF UploadMove
<1>14. ASSUME NEW r \in Request, Arrives(r)
       PROVE  ThreadTypes'
  BY <1>14 DEF Arrives
<1>15. ASSUME NEW r \in Sends, NEW label \in {"sending", "half", "answered"},
               NEW sent \in Seq(Piece), SendMove(r, label, sent)
       PROVE  ThreadTypes'
  <2>1. /\ r \in Sends /\ pc' = [pc EXCEPT ![r] = label]
        /\ handle' \in {handle, [handle EXCEPT ![r] = _socket], [handle EXCEPT ![r] = 0]}
        /\ answer' \in [Request -> {"none", "ok", "error"}]
        /\ UNCHANGED <<opened, alive, sock_open, event, _running>>
    BY <1>15 DEF SendMove
  <2>2. pc' \in [Thread -> Label]
    BY <2>1
  <2>3. handle' \in [Sends -> 0..opened]
    <3>1. CASE handle' = handle
      BY <3>1
    <3>2. CASE handle' = [handle EXCEPT ![r] = _socket]
      BY <2>1, <3>2
    <3>3. CASE handle' = [handle EXCEPT ![r] = 0]
      BY <2>1, <3>3
    <3>4. QED
      BY <2>1, <3>1, <3>2, <3>3
  <2>4. QED
    BY <2>1, <2>2, <2>3
<1>16. ASSUME NEW r \in Uploads, NEW label \in {"put", "record", "answered"},
               NEW todo \in [alert : 0..MaxAlerts, ok : BOOLEAN], UploadStart(r, label, todo)
       PROVE  ThreadTypes'
  BY <1>16 DEF UploadStart
<1>17. ASSUME NEW r \in Uploads, UploadRecorded(r)
       PROVE  ThreadTypes'
  BY <1>17 DEF UploadRecorded, Reply
<1>18. CASE ServerFails
  BY <1>18 DEF ServerFails
<1>19. CASE stop
  BY <1>19 DEF stop
<1>20. CASE start
  BY <1>20 DEF start
<1> HIDE <1>1 DEF ThreadTypes, Label, Thread, Request, Goto, At, Step, serverVars, link, shared,
     requests, aws
<1>21. QED
  BY <1>2, <1>3, <1>4, <1>5, <1>6, <1>7, <1>8, <1>9, <1>10, <1>11, <1>12, <1>13, <1>14, <1>15,
       <1>16, <1>17, <1>18, <1>19, <1>20, StepCases

(* What is shown and uploaded are alerts the server raised.                *)
LEMMA AlertTypesStep ==
  ASSUME ConnectorInv, [Next]_vars
  PROVE  AlertTypes'
<1>1. /\ AlertTypes /\ ControlInv
      /\ Alert \subseteq 0..MaxAlerts /\ AlertLimit \in Nat /\ ChatLimit \in Nat
  BY ConnectorAssumption DEF ConnectorInv, Alert
<1> USE <1>1 DEF AlertTypes, Thread, Request, Goto, At, Step, serverVars, link, shared, requests,
     aws
<1>2. CASE \/ LoopTest \/ ConnectFails \/ RegisterFails \/ ConsumeFails \/ ConsumeEnds
           \/ sleep \/ create_connection \/ register \/ _consume
           \/ CloseSocket("close", "except") \/ CloseSocket("leave", "top")
           \/ \E r \in Request : Arrives(r)
           \/ \E r \in Sends, label \in {"sending", "half", "answered"}, sent \in Seq(Piece) :
                SendMove(r, label, sent)
           \/ \E type \in {"metrics", "rules", "alert"} : broadcast_to_dashboards(type)
           \/ ServerReads \/ ServerFails \/ ServerStarts \/ stop \/ start \/ UNCHANGED vars
  <2>1. UNCHANGED <<state, job, puts, notified, attempted>>
    BY <1>2 DEF LoopTest, ConnectFails, RegisterFails, ConsumeFails, ConsumeEnds, sleep,
         create_connection, register, _consume, CloseSocket, Arrives, SendMove,
         broadcast_to_dashboards, ServerReads, ServerFails, ServerStarts, stop, start, vars
  <2>2. QED
    BY <2>1
<1>3. CASE publish_socket
  BY <1>3 DEF publish_socket
<1>4. CASE except
  BY <1>4 DEF except, after_exception
<1>5. CASE HandleMessage
  <2>1. /\ event \in Event /\ event.type # "alert"
        /\ UNCHANGED <<job, puts, notified, attempted>>
    BY <1>5 DEF HandleMessage, ControlInv
  <2>2. CASE event.type \in {"metrics", "rules"}
    <3>1. /\ event.value \in Nat
          /\ state' \in {[state EXCEPT !.metrics = event.value], [state EXCEPT !.rules = event.value]}
      BY <1>5, <2>1, <2>2 DEF HandleMessage, Event
    <3>2. QED
      BY <2>1, <3>1
  <2>3. CASE event.type \notin {"metrics", "rules"}
    <3>1. event.value \in Chat /\ state' = [state EXCEPT !.chat = chat_after]
      BY <1>5, <2>1, <2>3 DEF HandleMessage, Event, Chat
    <3>2. Append(state.chat, event.value) \in Seq(Chat)
      BY <3>1
    <3>3. chat_after \in Seq(Chat)
      BY <3>2, LatestProperties DEF chat_after
    <3>4. QED
      BY <2>1, <3>1, <3>3
  <2>4. QED
    BY <2>2, <2>3
<1>6. CASE HandleAlert
  <2>1. event.value \in Alert
    BY <1>6 DEF HandleAlert, Event, ControlInv
  <2>2. Append(state.alerts, event.value) \in Seq(Alert)
    BY <2>1
  <2>3. Latest(Append(state.alerts, event.value), AlertLimit) \in Seq(Alert)
    BY <2>2, LatestProperties
  <2>4. [alert |-> event.value, ok |-> Targets # {}] \in [alert : 0..MaxAlerts, ok : BOOLEAN]
    BY <2>1
  <2>5. QED
    BY <1>6, <2>3, <2>4 DEF HandleAlert
<1>7. CASE AlertHandled
  <2>1. event.value \in Alert
    BY <1>7 DEF AlertHandled, Event, ControlInv, Uploading
  <2>2. [alert |-> event.value, uploaded |-> job["connector"].ok]
          \in [alert : 0..MaxAlerts, uploaded : BOOLEAN]
    BY <2>1
  <2>3. state' \in [connected : BOOLEAN, metrics : Nat, rules : Nat, alerts : Seq(Alert),
                     chat : Seq(Chat), aws : [alert : 0..MaxAlerts, uploaded : BOOLEAN]]
    BY <1>7, <2>2 DEF AlertHandled
  <2>4. job' \in [Thread -> [alert : 0..MaxAlerts, ok : BOOLEAN]]
    BY <1>7, ConnectorAssumption DEF AlertHandled, NoJob
  <2>5. attempted' \subseteq Alert /\ UNCHANGED <<puts, notified>>
    BY <1>7, <2>1 DEF AlertHandled
  <2>6. QED
    BY <2>3, <2>4, <2>5
<1>8. ASSUME NEW t \in Thread, NEW label \in {"publish_alert", "record"}, NEW ok \in BOOLEAN,
              UploadMove(t, label, ok)
      PROVE  AlertTypes'
  BY <1>8 DEF UploadMove
<1>9. ASSUME NEW r \in Uploads, NEW label \in {"put", "record", "answered"},
              NEW todo \in [alert : 0..MaxAlerts, ok : BOOLEAN], UploadStart(r, label, todo)
      PROVE  AlertTypes'
  BY <1>9 DEF UploadStart
<1>10. ASSUME NEW r \in Uploads, UploadRecorded(r)
       PROVE  AlertTypes'
  <2>1. [alert |-> job[r].alert, uploaded |-> job[r].ok]
          \in [alert : 0..MaxAlerts, uploaded : BOOLEAN]
    BY <1>10
  <2>2. NoJob \in [alert : 0..MaxAlerts, ok : BOOLEAN]
    BY ConnectorAssumption DEF NoJob
  <2>3. QED
    BY <1>10, <2>1, <2>2 DEF UploadRecorded
<1> HIDE <1>1 DEF AlertTypes, Thread, Request, Goto, At, Step, serverVars, link, shared,
     requests, aws
<1>11. QED
  BY <1>2, <1>3, <1>4, <1>5, <1>6, <1>7, <1>8, <1>9, <1>10, StepCases

(* The lock is taken and released with the place of the connector.         *)
LEMMA ControlInvStep ==
  ASSUME ConnectorInv, [Next]_vars
  PROVE  ControlInv'
<1>1. /\ ControlInv
      /\ pc \in [Thread -> Label]
      /\ job \in [Thread -> [alert : 0..MaxAlerts, ok : BOOLEAN]]
      /\ _lock \in {"free", "connector"}
      /\ "connector" \notin Request /\ Sends \cap Uploads = {}
  BY ConnectorAssumption DEF ConnectorInv, ThreadTypes, AlertTypes, TypeOK
<1> USE <1>1 DEF ControlInv, Uploading, Thread, Request, Goto, At, Step, serverVars, link,
     shared, requests, aws
<1>2. CASE \/ \E type \in {"metrics", "rules", "alert"} : broadcast_to_dashboards(type)
           \/ ServerReads \/ ServerFails \/ ServerStarts \/ stop \/ UNCHANGED vars
  <2>1. UNCHANGED <<pc, event, job, _lock>>
    BY <1>2 DEF broadcast_to_dashboards, ServerReads, ServerFails, ServerStarts, stop, vars
  <2>2. QED
    BY <2>1
<1>3. CASE LoopTest \/ ConnectFails \/ RegisterFails \/ ConsumeFails \/ ConsumeEnds \/ sleep
  <2>1. CASE LoopTest
    BY <2>1 DEF LoopTest
  <2>2. CASE ConnectFails
    BY <2>2 DEF ConnectFails
  <2>3. CASE RegisterFails
    BY <2>3 DEF RegisterFails
  <2>4. CASE ConsumeFails
    BY <2>4 DEF ConsumeFails
  <2>5. CASE ConsumeEnds
    BY <2>5 DEF ConsumeEnds, consume_ends
  <2>6. CASE sleep
    BY <2>6 DEF sleep
  <2>7. QED
    BY <1>3, <2>1, <2>2, <2>3, <2>4, <2>5, <2>6
<1>4. CASE create_connection
  BY <1>4 DEF create_connection, socket_while_registering
<1>5. CASE register
  BY <1>5 DEF register, Halves
<1>6. CASE publish_socket
  BY <1>6 DEF publish_socket
<1>7. CASE _consume
  <2>1. inbox \in Seq(Event) /\ inbox # << >>
    BY <1>7 DEF _consume, ConnectorInv, TypeOK
  <2>2. Head(inbox) \in Event
    BY <2>1, HeadTailProperties
  <2>3. QED
    BY <1>7, <2>2 DEF _consume
<1>8. CASE CloseSocket("close", "except") \/ CloseSocket("leave", "top")
  <2>1. CASE CloseSocket("close", "except")
    BY <2>1 DEF CloseSocket
  <2>2. CASE CloseSocket("leave", "top")
    BY <2>2 DEF CloseSocket
  <2>3. QED
    BY <1>8, <2>1, <2>2
<1>9. CASE except
  BY <1>9 DEF except, after_exception
<1>10. CASE HandleMessage
  BY <1>10 DEF HandleMessage, chat_after
<1>11. CASE HandleAlert
  BY <1>11 DEF HandleAlert, held_during_upload
<1>12. CASE AlertHandled
  BY <1>12 DEF AlertHandled
<1>13. ASSUME NEW t \in Thread, NEW label \in {"publish_alert", "record"}, NEW ok \in BOOLEAN,
               UploadMove(t, label, ok)
       PROVE  ControlInv'
  BY <1>13 DEF UploadMove
<1>14. ASSUME NEW r \in Request, Arrives(r)
       PROVE  ControlInv'
  BY <1>14 DEF Arrives
<1>15. ASSUME NEW r \in Sends, NEW label \in {"sending", "half", "answered"},
               NEW sent \in Seq(Piece), SendMove(r, label, sent)
       PROVE  ControlInv'
  <2>1. /\ pc' = [pc EXCEPT ![r] = label] /\ UNCHANGED <<event, _lock, job>>
    BY <1>15 DEF SendMove
  <2>2. r # "connector" /\ r \notin Uploads
    OBVIOUS
  <2>3. QED
    BY <2>1, <2>2
<1>16. ASSUME NEW r \in Uploads, NEW label \in {"put", "record", "answered"},
               NEW todo \in [alert : 0..MaxAlerts, ok : BOOLEAN], UploadStart(r, label, todo)
       PROVE  ControlInv'
  BY <1>16 DEF UploadStart
<1>17. ASSUME NEW r \in Uploads, UploadRecorded(r)
       PROVE  ControlInv'
  BY <1>17 DEF UploadRecorded, Reply
<1>18. CASE start
  BY <1>18 DEF start
<1> HIDE <1>1 DEF ControlInv, Uploading, Thread, Request, Goto, At, Step, serverVars, link,
     shared, requests, aws
<1>19. QED
  BY <1>2, <1>3, <1>4, <1>5, <1>6, <1>7, <1>8, <1>9, <1>10, <1>11, <1>12, <1>13, <1>14, <1>15,
       <1>16, <1>17, <1>18, StepCases

(* Every connection opened was counted as one to come.                     *)
LEMMA OpenedInvStep ==
  ASSUME ConnectorInv, [Next]_vars
  PROVE  OpenedInv'
<1>1. /\ OpenedInv
      /\ pc \in [Thread -> Label]
      /\ opened \in Nat /\ stops \in Nat /\ MaxConns \in Nat /\ _running \in BOOLEAN
      /\ "connector" \notin Request
  BY ConnectorAssumption DEF ConnectorInv, ServerTypes, ThreadTypes, TypeOK
<1> USE <1>1 DEF OpenedInv, Pending, Between, Thread, Request, Goto, At, Step, serverVars, link,
     shared, requests, aws
<1>2. CASE \/ \E r \in Request : Arrives(r)
           \/ \E r \in Sends, label \in {"sending", "half", "answered"}, sent \in Seq(Piece) :
                SendMove(r, label, sent)
           \/ \E r \in Uploads, label \in {"put", "record", "answered"},
                 todo \in [alert : 0..MaxAlerts, ok : BOOLEAN] : UploadStart(r, label, todo)
           \/ \E r \in Uploads : UploadRecorded(r)
           \/ \E type \in {"metrics", "rules", "alert"} : broadcast_to_dashboards(type)
           \/ ServerReads \/ ServerStarts \/ UNCHANGED vars
  <2>1. UNCHANGED <<opened, stops, alive, sock_open, _running, pc["connector"]>>
    BY <1>2 DEF Arrives, SendMove, UploadStart, UploadRecorded, Reply, broadcast_to_dashboards,
         ServerReads, ServerStarts, vars
  <2>2. QED
    BY <2>1
<1>3. CASE LoopTest \/ ConnectFails \/ RegisterFails \/ ConsumeFails \/ ConsumeEnds \/ sleep
  <2>1. CASE LoopTest
    BY <2>1 DEF LoopTest
  <2>2. CASE ConnectFails
    BY <2>2 DEF ConnectFails
  <2>3. CASE RegisterFails
    BY <2>3 DEF RegisterFails
  <2>4. CASE ConsumeFails
    BY <2>4 DEF ConsumeFails
  <2>5. CASE ConsumeEnds
    BY <2>5 DEF ConsumeEnds, consume_ends
  <2>6. CASE sleep
    BY <2>6 DEF sleep
  <2>7. QED
    BY <1>3, <2>1, <2>2, <2>3, <2>4, <2>5, <2>6
<1>4. CASE create_connection
  <2>1. /\ pc["connector"] = "connect" /\ pc'["connector"] = "register"
        /\ opened' = opened + 1 /\ alive' /\ sock_open' /\ UNCHANGED <<_running, stops>>
    BY <1>4 DEF create_connection
  <2>2. CASE _running
    BY <2>1, <2>2
  <2>3. CASE ~_running
    BY <2>1, <2>3
  <2>4. QED
    BY <2>2, <2>3
<1>5. CASE register
  BY <1>5 DEF register, Halves
<1>6. CASE publish_socket
  BY <1>6 DEF publish_socket
<1>7. CASE _consume
  BY <1>7 DEF _consume, buffer_left
<1>8. CASE CloseSocket("close", "except") \/ CloseSocket("leave", "top")
  <2>1. CASE CloseSocket("close", "except")
    BY <2>1 DEF CloseSocket
  <2>2. CASE CloseSocket("leave", "top")
    BY <2>2 DEF CloseSocket
  <2>3. QED
    BY <1>8, <2>1, <2>2
<1>9. CASE except
  BY <1>9 DEF except, after_exception
<1>10. CASE HandleMessage
  BY <1>10 DEF HandleMessage, chat_after
<1>11. CASE HandleAlert
  BY <1>11 DEF HandleAlert, held_during_upload
<1>12. CASE AlertHandled
  BY <1>12 DEF AlertHandled
<1>13. ASSUME NEW t \in Thread, NEW label \in {"publish_alert", "record"}, NEW ok \in BOOLEAN,
               UploadMove(t, label, ok)
       PROVE  OpenedInv'
  BY <1>13 DEF UploadMove
<1>14. CASE ServerFails
  <2>1. opened < MaxConns /\ UNCHANGED <<pc, _running, opened, stops>>
    BY <1>14 DEF ServerFails
  <2>2. CASE pc["connector"] = "connect" /\ ~_running
    BY <2>1, <2>2
  <2>3. CASE ~(pc["connector"] = "connect" /\ ~_running)
    BY <2>1, <2>3
  <2>4. QED
    BY <2>2, <2>3
<1>15. CASE stop
  <2>1. opened < MaxConns /\ opened' = opened /\ stops' = stops + 1
    BY <1>15 DEF stop
  <2>2. Pending' \in 0..2
    OBVIOUS
  <2>3. QED
    BY <2>1, <2>2
<1>16. CASE start
  BY <1>16 DEF start
<1> HIDE <1>1 DEF OpenedInv, Pending, Between, Thread, Request, Goto, At, Step, serverVars, link,
     shared, requests, aws
<1>17. QED
  BY <1>2, <1>3, <1>4, <1>5, <1>6, <1>7, <1>8, <1>9, <1>10, <1>11, <1>12, <1>13, <1>14, <1>15,
       <1>16, StepCases

(* _socket and the sockets of requests are older than a connection that    *)
(* has not registered.                                                     *)
LEMMA FreshInvStep ==
  ASSUME ConnectorInv, [Next]_vars
  PROVE  FreshInv'
<1>1. /\ FreshInv
      /\ pc \in [Thread -> Label]
      /\ wire \in Seq(Piece) /\ opened \in Nat /\ _socket \in 0..opened
      /\ handle \in [Sends -> 0..opened]
      /\ "connector" \notin Request
  BY ConnectorAssumption DEF ConnectorInv, ThreadTypes, TypeOK
<1> USE <1>1 DEF FreshInv, Thread, Request, Goto, At, Step, serverVars, link, shared, requests,
     aws
<1>2. CASE \/ \E r \in Request : Arrives(r)
           \/ \E r \in Uploads, label \in {"put", "record", "answered"},
                 todo \in [alert : 0..MaxAlerts, ok : BOOLEAN] : UploadStart(r, label, todo)
           \/ \E r \in Uploads : UploadRecorded(r)
           \/ \E type \in {"metrics", "rules", "alert"} : broadcast_to_dashboards(type)
           \/ ServerReads \/ ServerFails \/ ServerStarts \/ UNCHANGED vars
  <2>1. UNCHANGED <<sock_open, wire, opened, _socket, handle, pc["connector"]>>
    BY <1>2 DEF Arrives, UploadStart, UploadRecorded, Reply, broadcast_to_dashboards,
         ServerReads, ServerFails, ServerStarts, vars
  <2>2. QED
    BY <2>1
<1>3. CASE LoopTest \/ ConnectFails \/ RegisterFails \/ ConsumeFails \/ ConsumeEnds \/ sleep
  BY <1>3 DEF LoopTest, ConnectFails, RegisterFails, ConsumeFails, ConsumeEnds, consume_ends,
       sleep
<1>4. CASE create_connection
  BY <1>4 DEF create_connection, socket_while_registering
<1>5. CASE register
  <2>1. wire' # << >>
    BY <1>5, RegisterGrows
  <2>2. QED
    BY <2>1
<1>6. CASE publish_socket
  BY <1>6 DEF publish_socket
<1>7. CASE _consume
  BY <1>7 DEF _consume, buffer_left
<1>8. CASE CloseSocket("close", "except") \/ CloseSocket("leave", "top")
  BY <1>8 DEF CloseSocket
<1>9. CASE except
  BY <1>9 DEF except, after_exception
<1>10. CASE HandleMessage
  BY <1>10 DEF HandleMessage, chat_after
<1>11. CASE HandleAlert
  BY <1>11 DEF HandleAlert, held_during_upload
<1>12. CASE AlertHandled
  BY <1>12 DEF AlertHandled
<1>13. ASSUME NEW t \in Thread, NEW label \in {"publish_alert", "record"}, NEW ok \in BOOLEAN,
               UploadMove(t, label, ok)
       PROVE  FreshInv'
  BY <1>13 DEF UploadMove
<1>14. ASSUME NEW r \in Sends, NEW label \in {"sending", "half", "answered"},
               NEW sent \in Seq(Piece), SendMove(r, label, sent)
       PROVE  FreshInv'
  <2>1. wire' = << >> => wire = << >>
    <3>1. wire' = wire \o sent
      BY <1>14 DEF SendMove
    <3>2. Len(wire') = Len(wire) + Len(sent) /\ Len(sent) \in Nat /\ Len(wire) \in Nat
      BY <3>1, ConcatProperties
    <3>3. QED
      BY <3>1, <3>2
  <2>2. /\ r \in Sends /\ pc' = [pc EXCEPT ![r] = label]
        /\ UNCHANGED <<_socket, opened, sock_open>>
        /\ handle' \in {handle, [handle EXCEPT ![r] = _socket], [handle EXCEPT ![r] = 0]}
    BY <1>14 DEF SendMove
  <2>3. pc'["connector"] = pc["connector"]
    BY <2>2
  <2>4. ASSUME _socket # opened, opened > 0, \A q \in Sends : handle[q] # opened
        PROVE  \A q \in Sends : handle'[q] # opened
    BY <2>2, <2>4
  <2>5. QED
    BY <2>1, <2>2, <2>3, <2>4
<1>15. CASE stop
  BY <1>15 DEF stop
<1>16. CASE start
  BY <1>16 DEF start
<1> HIDE <1>1 DEF FreshInv, Thread, Request, Goto, At, Step, serverVars, link, shared, requests,
     aws
<1>17. QED
  BY <1>2, <1>3, <1>4, <1>5, <1>6, <1>7, <1>8, <1>9, <1>10, <1>11, <1>12, <1>13, <1>14, <1>15,
       <1>16, StepCases

(* A request can write only where the thread has written before.           *)
LEMMA RegisterFirstStep ==
  ASSUME ConnectorInv, [Next]_vars
  PROVE  RegisterFirst'
<1>1. /\ RegisterFirst /\ FreshInv /\ ControlInv
      /\ wire \in Seq(Piece)
  BY ConnectorAssumption DEF ConnectorInv, TypeOK
<1> USE <1>1 DEF RegisterFirst, Goto, At, Step, serverVars, link, shared, requests, aws
<1>2. CASE \/ LoopTest \/ ConnectFails \/ RegisterFails \/ ConsumeFails \/ ConsumeEnds
           \/ sleep \/ publish_socket \/ _consume \/ except \/ HandleMessage \/ HandleAlert
           \/ AlertHandled
           \/ \E t \in Thread, label \in {"publish_alert", "record"}, ok \in BOOLEAN :
                UploadMove(t, label, ok)
           \/ \E r \in Request : Arrives(r)
           \/ \E r \in Uploads, label \in {"put", "record", "answered"},
                 todo \in [alert : 0..MaxAlerts, ok : BOOLEAN] : UploadStart(r, label, todo)
           \/ \E r \in Uploads : UploadRecorded(r)
           \/ \E type \in {"metrics", "rules", "alert"} : broadcast_to_dashboards(type)
           \/ ServerReads \/ ServerFails \/ ServerStarts \/ stop \/ start \/ UNCHANGED vars
  <2>1. UNCHANGED <<wire>>
    BY <1>2 DEF LoopTest, ConnectFails, RegisterFails, ConsumeFails, ConsumeEnds, sleep,
         publish_socket, _consume, except, HandleMessage, HandleAlert, AlertHandled, UploadMove,
         Arrives, UploadStart, UploadRecorded, broadcast_to_dashboards, ServerReads, ServerFails,
         ServerStarts, stop, start, vars
  <2>2. QED
    BY <2>1
<1>3. CASE create_connection
  BY <1>3 DEF create_connection, socket_while_registering
<1>4. CASE register
  BY <1>4 DEF register, Halves
<1>5. CASE CloseSocket("close", "except") \/ CloseSocket("leave", "top")
  BY <1>5 DEF CloseSocket
<1>6. ASSUME NEW r \in Sends, NEW label \in {"sending", "half", "answered"},
              NEW sent \in Seq(Piece), SendMove(r, label, sent)
      PROVE  RegisterFirst'
  <2>1. CASE sent = << >>
    BY <1>6, <2>1 DEF SendMove
  <2>2. CASE sent # << >>
    <3>1. wire # << >>
      BY <1>6, <2>2 DEF SendMove, FreshInv
    <3>2. QED
      BY <1>6, <3>1 DEF SendMove
  <2>3. QED
    BY <2>1, <2>2
<1> HIDE <1>1 DEF RegisterFirst, Goto, At, Step, serverVars, link, shared, requests, aws
<1>7. QED
  BY <1>2, <1>3, <1>4, <1>5, <1>6, StepCases

(* An alert enters the feed together with the lock, and has been tried     *)
(* when the lock is released.                                              *)
LEMMA FeedInvStep ==
  ASSUME ConnectorInv, [Next]_vars
  PROVE  FeedInv'
<1>1. /\ FeedInv /\ ControlInv
      /\ pc \in [Thread -> Label]
      /\ state.alerts \in Seq(Alert)
      /\ state \in [connected : BOOLEAN, metrics : Nat, rules : Nat, alerts : Seq(Alert),
                    chat : Seq(Chat), aws : [alert : 0..MaxAlerts, uploaded : BOOLEAN]]
      /\ "connector" \notin Request
  BY ConnectorAssumption DEF ConnectorInv, ThreadTypes, AlertTypes
<1> USE <1>1 DEF FeedInv, Uploading, Thread, Request, Goto, At, Step, serverVars, link, shared,
     requests, aws
<1>2. CASE \/ \E r \in Request : Arrives(r)
           \/ \E r \in Sends, label \in {"sending", "half", "answered"}, sent \in Seq(Piece) :
                SendMove(r, label, sent)
           \/ \E r \in Uploads, label \in {"put", "record", "answered"},
                 todo \in [alert : 0..MaxAlerts, ok : BOOLEAN] : UploadStart(r, label, todo)
           \/ \E type \in {"metrics", "rules", "alert"} : broadcast_to_dashboards(type)
           \/ ServerReads \/ ServerFails \/ ServerStarts \/ stop \/ UNCHANGED vars
  <2>1. UNCHANGED <<state, attempted, event, pc["connector"]>>
    BY <1>2 DEF Arrives, SendMove, UploadStart, broadcast_to_dashboards, ServerReads,
         ServerFails, ServerStarts, stop, vars
  <2>2. QED
    BY <2>1
<1>3. CASE LoopTest \/ ConnectFails \/ RegisterFails \/ ConsumeFails \/ ConsumeEnds \/ sleep
  BY <1>3 DEF LoopTest, ConnectFails, RegisterFails, ConsumeFails, ConsumeEnds, consume_ends,
       sleep
<1>4. CASE create_connection
  BY <1>4 DEF create_connection, socket_while_registering
<1>5. CASE register
  BY <1>5 DEF register, Halves
<1>6. CASE publish_socket
  BY <1>6 DEF publish_socket
<1>7. CASE _consume
  BY <1>7 DEF _consume, buffer_left
<1>8. CASE CloseSocket("close", "except") \/ CloseSocket("leave", "top")
  BY <1>8 DEF CloseSocket
<1>9. CASE except
  BY <1>9 DEF except, after_exception
<1>10. CASE HandleMessage
  BY <1>10 DEF HandleMessage, chat_after
<1>11. CASE HandleAlert
  <2> DEFINE longer == Append(state.alerts, event.value)
  <2>1. /\ pc["connector"] = "event" /\ event \in Event /\ event.value \in Alert
        /\ pc'["connector"] \in Uploading /\ event' = event /\ attempted' = attempted
        /\ state'.alerts = Latest(longer, AlertLimit)
    BY <1>11 DEF HandleAlert, Event, ControlInv
  <2>2. longer \in Seq(Alert)
    BY <2>1
  <2>3. \A i \in DOMAIN longer : longer[i] \in attempted \/ longer[i] = event.value
    BY <2>1, <2>2
  <2> HIDE DEF longer
  <2>4. \A j \in DOMAIN Latest(longer, AlertLimit) :
          \E i \in DOMAIN longer : Latest(longer, AlertLimit)[j] = longer[i]
    BY <2>2, LatestProperties, ConnectorAssumption
  <2>5. QED
    BY <2>1, <2>3, <2>4
<1>12. CASE AlertHandled
  BY <1>12 DEF AlertHandled
<1>13. ASSUME NEW t \in Thread, NEW label \in {"publish_alert", "record"}, NEW ok \in BOOLEAN,
               UploadMove(t, label, ok)
       PROVE  FeedInv'
  BY <1>13 DEF UploadMove
<1>14. ASSUME NEW r \in Uploads, UploadRecorded(r)
       PROVE  FeedInv'
  BY <1>14 DEF UploadRecorded, Reply
<1>15. CASE start
  BY <1>15 DEF start
<1> HIDE <1>1 DEF FeedInv, Uploading, Thread, Request, Goto, At, Step, serverVars, link, shared,
     requests, aws
<1>16. QED
  BY <1>2, <1>3, <1>4, <1>5, <1>6, <1>7, <1>8, <1>9, <1>10, <1>11, <1>12, <1>13, <1>14, <1>15,
       StepCases

(* Each thread's upload goes to S3 first, whatever the others do.          *)
LEMMA JobInvStep ==
  ASSUME ConnectorInv, [Next]_vars
  PROVE  JobInv'
<1>1. /\ JobInv /\ ControlInv
      /\ pc \in [Thread -> Label]
      /\ job \in [Thread -> [alert : 0..MaxAlerts, ok : BOOLEAN]]
      /\ "connector" \notin Request /\ Sends \cap Uploads = {}
  BY ConnectorAssumption DEF ConnectorInv, ThreadTypes, AlertTypes
<1> USE <1>1 DEF JobInv, Thread, Request, Goto, At, Step, serverVars, link, shared, requests, aws
<1>2. CASE \/ \E type \in {"metrics", "rules", "alert"} : broadcast_to_dashboards(type)
           \/ ServerReads \/ ServerFails \/ ServerStarts \/ stop \/ UNCHANGED vars
  <2>1. UNCHANGED <<pc, job, puts, notified>>
    BY <1>2 DEF broadcast_to_dashboards, ServerReads, ServerFails, ServerStarts, stop, vars
  <2>2. QED
    BY <2>1
<1>3. CASE LoopTest \/ ConnectFails \/ RegisterFails \/ ConsumeFails \/ ConsumeEnds \/ sleep
  BY <1>3 DEF LoopTest, ConnectFails, RegisterFails, ConsumeFails, ConsumeEnds, consume_ends,
       sleep
<1>4. CASE create_connection
  BY <1>4 DEF create_connection, socket_while_registering
<1>5. CASE register
  BY <1>5 DEF register, Halves
<1>6. CASE publish_socket
  BY <1>6 DEF publish_socket
<1>7. CASE _consume
  BY <1>7 DEF _consume, buffer_left
<1>8. CASE CloseSocket("close", "except") \/ CloseSocket("leave", "top")
  BY <1>8 DEF CloseSocket
<1>9. CASE except
  BY <1>9 DEF except, after_exception
<1>10. CASE HandleMessage
  BY <1>10 DEF HandleMessage, chat_after
<1>11. CASE HandleAlert
  BY <1>11 DEF HandleAlert, held_during_upload
<1>12. CASE AlertHandled
  BY <1>12 DEF AlertHandled
<1>13. ASSUME NEW t \in Thread, NEW label \in {"publish_alert", "record"}, NEW ok \in BOOLEAN,
               UploadMove(t, label, ok)
       PROVE  JobInv'
  BY <1>13 DEF UploadMove
<1>14. ASSUME NEW r \in Request, Arrives(r)
       PROVE  JobInv'
  BY <1>14 DEF Arrives
<1>15. ASSUME NEW r \in Sends, NEW label \in {"sending", "half", "answered"},
               NEW sent \in Seq(Piece), SendMove(r, label, sent)
       PROVE  JobInv'
  BY <1>15 DEF SendMove
<1>16. ASSUME NEW r \in Uploads, NEW label \in {"put", "record", "answered"},
               NEW todo \in [alert : 0..MaxAlerts, ok : BOOLEAN], UploadStart(r, label, todo)
       PROVE  JobInv'
  BY <1>16 DEF UploadStart
<1>17. ASSUME NEW r \in Uploads, UploadRecorded(r)
       PROVE  JobInv'
  BY <1>17 DEF UploadRecorded, Reply
<1>18. CASE start
  BY <1>18 DEF start
<1> HIDE <1>1 DEF JobInv, Thread, Request, Goto, At, Step, serverVars, link, shared, requests, aws
<1>19. QED
  BY <1>2, <1>3, <1>4, <1>5, <1>6, <1>7, <1>8, <1>9, <1>10, <1>11, <1>12, <1>13, <1>14, <1>15,
       <1>16, <1>17, <1>18, StepCases

(* The status is written from a job that is over.                          *)
LEMMA NoFalseSuccessStep ==
  ASSUME ConnectorInv, [Next]_vars
  PROVE  NoFalseSuccess'
<1>1. /\ NoFalseSuccess /\ JobInv /\ ControlInv
      /\ state \in [connected : BOOLEAN, metrics : Nat, rules : Nat, alerts : Seq(Alert),
                    chat : Seq(Chat), aws : [alert : 0..MaxAlerts, uploaded : BOOLEAN]]
  BY ConnectorAssumption DEF ConnectorInv, AlertTypes
<1> USE <1>1 DEF NoFalseSuccess, Goto, At, Step, serverVars, link, shared, requests, aws
<1>2. CASE \/ LoopTest \/ ConnectFails \/ RegisterFails \/ ConsumeFails \/ ConsumeEnds
           \/ sleep \/ create_connection \/ register \/ _consume
           \/ CloseSocket("close", "except") \/ CloseSocket("leave", "top")
           \/ \E r \in Request : Arrives(r)
           \/ \E r \in Sends, label \in {"sending", "half", "answered"}, sent \in Seq(Piece) :
                SendMove(r, label, sent)
           \/ \E r \in Uploads, label \in {"put", "record", "answered"},
                 todo \in [alert : 0..MaxAlerts, ok : BOOLEAN] : UploadStart(r, label, todo)
           \/ \E type \in {"metrics", "rules", "alert"} : broadcast_to_dashboards(type)
           \/ ServerReads \/ ServerFails \/ ServerStarts \/ stop \/ start \/ UNCHANGED vars
  <2>1. UNCHANGED <<state, puts, notified>>
    BY <1>2 DEF LoopTest, ConnectFails, RegisterFails, ConsumeFails, ConsumeEnds, sleep,
         create_connection, register, _consume, CloseSocket, Arrives, SendMove, UploadStart,
         broadcast_to_dashboards, ServerReads, ServerFails, ServerStarts, stop, start, vars
  <2>2. QED
    BY <2>1
<1>3. CASE publish_socket
  BY <1>3 DEF publish_socket
<1>4. CASE except
  BY <1>4 DEF except, after_exception
<1>5. CASE HandleMessage
  BY <1>5 DEF HandleMessage, chat_after
<1>6. CASE HandleAlert
  BY <1>6 DEF HandleAlert, held_during_upload
<1>7. CASE AlertHandled
  BY <1>7 DEF AlertHandled, ControlInv, JobInv, Uploading
<1>8. ASSUME NEW t \in Thread, NEW label \in {"publish_alert", "record"}, NEW ok \in BOOLEAN,
              UploadMove(t, label, ok)
      PROVE  NoFalseSuccess'
  BY <1>8 DEF UploadMove
<1>9. ASSUME NEW r \in Uploads, UploadRecorded(r)
      PROVE  NoFalseSuccess'
  BY <1>9 DEF UploadRecorded, JobInv
<1> HIDE <1>1 DEF NoFalseSuccess, Goto, At, Step, serverVars, link, shared, requests, aws
<1>10. QED
  BY <1>2, <1>3, <1>4, <1>5, <1>6, <1>7, <1>8, <1>9, StepCases

-----------------------------------------------------------------------------
(* The connector.                                                          *)

LEMMA InitConnector == Init => ConnectorInv
<1> SUFFICES ASSUME Init PROVE ConnectorInv
  OBVIOUS
<1> USE ConnectorAssumption DEF Init
<1>1. << >> \in Seq(Piece) /\ << >> \in Seq(Event) /\ << >> \in Seq(Alert) /\ << >> \in Seq(Chat)
        /\ Len(<< >>) = 0
  OBVIOUS
<1>2. TypeOK
  BY <1>1 DEF TypeOK
<1>3. ServerTypes
  BY DEF ServerTypes
<1>4. ThreadTypes
  <2>1. pc \in [Thread -> Label] /\ handle \in [Sends -> 0..opened]
    BY DEF Label
  <2>2. answer \in [Request -> {"none", "ok", "error"}] /\ event \in Event \cup {NoEvent}
    OBVIOUS
  <2>3. alive \in BOOLEAN /\ sock_open \in BOOLEAN /\ _running \in BOOLEAN
    OBVIOUS
  <2>4. QED
    BY <2>1, <2>2, <2>3 DEF ThreadTypes
<1>5. AlertTypes
  <2>1. NoJob \in [alert : 0..MaxAlerts, ok : BOOLEAN]
    BY DEF NoJob
  <2>2. QED
    BY <1>1, <2>1 DEF AlertTypes
<1>6. ControlInv
  BY DEF ControlInv, Uploading, Thread, Request
<1>7. OpenedInv
  BY DEF OpenedInv, Pending, Between, Thread
<1>8. FreshInv /\ RegisterFirst
  BY DEF FreshInv, RegisterFirst
<1>9. FeedInv /\ NoFalseSuccess
  BY DEF FeedInv, NoFalseSuccess
<1>10. JobInv
  BY DEF JobInv, Thread, Request
<1>11. QED
  BY <1>2, <1>3, <1>4, <1>5, <1>6, <1>7, <1>8, <1>9, <1>10 DEF ConnectorInv

LEMMA StepConnector == ConnectorInv /\ [Next]_vars => ConnectorInv'
<1> SUFFICES ASSUME ConnectorInv, [Next]_vars PROVE ConnectorInv'
  OBVIOUS
<1>1. TypeOK' /\ ServerTypes' /\ ThreadTypes' /\ AlertTypes'
  BY TypeOKStep, ServerTypesStep, ThreadTypesStep, AlertTypesStep
<1>2. ControlInv' /\ OpenedInv' /\ FreshInv' /\ RegisterFirst'
  BY ControlInvStep, OpenedInvStep, FreshInvStep, RegisterFirstStep
<1>3. FeedInv' /\ JobInv' /\ NoFalseSuccess'
  BY FeedInvStep, JobInvStep, NoFalseSuccessStep
<1>4. QED
  BY <1>1, <1>2, <1>3 DEF ConnectorInv

LEMMA ConnectorInvariant == Spec => []ConnectorInv
BY InitConnector, StepConnector, PTL DEF Spec

(* The feed, the chat and the socket's buffer keep their limits, only the  *)
(* connector's thread ever holds _lock across a wait, and a stop() during  *)
(* a connect costs one connection more and never two.                      *)
THEOREM ConnectorTypeCorrect == Spec => []TypeOK
<1>1. ConnectorInv => TypeOK
  BY DEF ConnectorInv
<1>2. QED
  BY <1>1, ConnectorInvariant, PTL

(* However many requests run beside _run, none of them can write to a      *)
(* connection before the line that registers: _socket is published only    *)
(* after sendall, and a request that found an older socket fails on it.    *)
THEOREM RegistersFirst == Spec => []RegisterFirst
<1>1. ConnectorInv => RegisterFirst
  BY DEF ConnectorInv
<1>2. QED
  BY <1>1, ConnectorInvariant, PTL

(* _handle_event appends to the feed and uploads under one lock: whoever   *)
(* reads the feed with the lock free sees only alerts already tried.       *)
THEOREM FeedAfterUpload == Spec => []UploadedBeforeShown
<1>1. ConnectorInv => UploadedBeforeShown
  <2> SUFFICES ASSUME ConnectorInv, _lock = "free", NEW i \in DOMAIN state.alerts
               PROVE  state.alerts[i] \in attempted
    BY DEF UploadedBeforeShown
  <2>1. pc["connector"] \notin Uploading
    BY DEF ConnectorInv, ControlInv
  <2>2. QED
    BY <2>1 DEF ConnectorInv, FeedInv
<1>2. QED
  BY <1>1, ConnectorInvariant, PTL

(* aws_status of publish(): uploads of several threads may end in any      *)
(* order and fail at either call, with or without effect, and the status   *)
(* they leave is never better than what S3 and SNS have taken.             *)
THEOREM StatusIsTrue == Spec => []NoFalseSuccess
<1>1. ConnectorInv => NoFalseSuccess
  BY DEF ConnectorInv
<1>2. QED
  BY <1>1, ConnectorInvariant, PTL

-----------------------------------------------------------------------------
(* The connector and the page.                                             *)

(* Beside the page the connector takes its own steps and no others.        *)
LEMMA PageOnlyReads == DashboardSpec => Spec
<1>1. DashboardInit => Init
  BY DEF DashboardInit
<1>2. [DashboardNext]_<<vars, page_vars>> => [Next]_vars
  BY DEF DashboardNext
<1>3. QED
  BY <1>1, <1>2, PTL DEF DashboardSpec, Spec

LEMMA InitPage == DashboardInit => PageTypeOK
<1> SUFFICES ASSUME DashboardInit PROVE PageTypeOK
  OBVIOUS
<1>1. PICK first \in Fetches :
        fetch = [f \in Fetches |-> IF f = first THEN Page!Asked ELSE Page!Waiting]
  BY DEF DashboardInit, Page!PageInit
<1>2. QED
  BY <1>1, PageAssumption DEF DashboardInit, Page!PageInit, PageTypeOK, Page!TypeOK

(* A page step: every answer is a snapshot of the connector's state, and   *)
(* appendHistory drops a point for each one it adds once there are enough. *)
LEMMA StepPage ==
  ASSUME ConnectorInv, PageTypeOK, [DashboardNext]_<<vars, page_vars>>
  PROVE  PageTypeOK'
<1> DEFINE C == [connected : BOOLEAN, metrics : Nat, rules : Nat]
           A == {Page!Waiting, Page!Asked} \cup [state : {"answer"}, content : C]
<1>1. /\ shown \in C \cup {Nothing} /\ history \in Seq(C) /\ Len(history) <= HistoryLimit
      /\ fetch \in [Fetches -> A] /\ form \in {"idle", "posted"}
  BY DEF PageTypeOK, Page!TypeOK
<1>2. Page!Waiting \in A /\ Page!Asked \in A /\ \A content \in C : Page!Answer(content) \in A
  BY DEF Page!Answer
<1>3. api_state \in C
  BY DEF ConnectorInv, AlertTypes, api_state
<1>4. ASSUME NEW answered \in A, answered.state = "answer"
      PROVE  answered.content \in C
  BY <1>4 DEF Page!Waiting, Page!Asked, Page!Answer
<1> HIDE DEF C, A
<1>5. ASSUME NEW content \in C
      PROVE  /\ Page!appendHistory(history, content) \in Seq(C)
             /\ Len(Page!appendHistory(history, content)) <= HistoryLimit
  <2> DEFINE longer == Append(history, content)
  <2>1. longer \in Seq(C) /\ Len(longer) = Len(history) + 1 /\ longer # << >>
    BY <1>1
  <2>2. Page!appendHistory(history, content) =
          IF Len(longer) > HistoryLimit THEN Tail(longer) ELSE longer
    BY DEF Page!appendHistory
  <2> HIDE DEF longer
  <2>3. Tail(longer) \in Seq(C) /\ Len(Tail(longer)) = Len(longer) - 1
    BY <2>1, HeadTailProperties
  <2>4. QED
    BY <1>1, <2>1, <2>2, <2>3, PageAssumption
<1>6. SUFFICES /\ shown' \in C \cup {Nothing}
               /\ history' \in Seq(C) /\ Len(history') <= HistoryLimit
               /\ fetch' \in [Fetches -> A] /\ form' \in {"idle", "posted"}
  BY DEF PageTypeOK, Page!TypeOK, C, A
<1> USE <1>1
<1>7. CASE UNCHANGED page_vars
  BY <1>7 DEF page_vars
<1>8. ASSUME NEW f \in Fetches, Page!setInterval(f) \/ Page!AfterPost(f)
      PROVE  <1>6!1
  BY <1>2, <1>8 DEF Page!setInterval, Page!AfterPost, Page!Ask
<1>9. ASSUME NEW f \in Fetches, Page!refreshState(f)
      PROVE  <1>6!1
  <2>1. fetch[f].content \in C
    BY <1>4, <1>9 DEF Page!refreshState
  <2>2. QED
    BY <1>2, <1>5, <1>9, <2>1 DEF Page!refreshState
<1>10. ASSUME NEW f \in Fetches, Page!FetchFails(f)
       PROVE  <1>6!1
  BY <1>2, <1>10 DEF Page!FetchFails
<1>11. CASE Page!postJson
  BY <1>11 DEF Page!postJson
<1>12. ASSUME NEW f \in Fetches, snapshot(f)
       PROVE  <1>6!1
  BY <1>2, <1>3, <1>12 DEF snapshot, Page!Served
<1>13. QED
  BY <1>7, <1>8, <1>9, <1>10, <1>11, <1>12 DEF DashboardNext, Page!PageStep

(* The page shows answers of /api/state and nothing else, and the charts   *)
(* never have more than HistoryLimit points, however many refreshes       *)
(* overlap and in whatever order their answers arrive.                     *)
THEOREM PageTypeCorrect == DashboardSpec => []PageTypeOK
<1>1. DashboardSpec => []ConnectorInv
  BY PageOnlyReads, ConnectorInvariant, PTL
<1>2. QED
  BY <1>1, InitPage, StepPage, PTL DEF DashboardSpec
=============================================================================
