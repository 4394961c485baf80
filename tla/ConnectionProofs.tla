-------------------------- MODULE ConnectionProofs --------------------------
(* The connections of the server: clients_ and the open sockets agree, the *)
(* clients dropped are those that failed, and recv() never blocks.         *)
EXTENDS MonitorServerProofs

(* The clients and whether their sockets are open stay as they are.        *)
SameClients ==
  /\ DOMAIN clients_' = DOMAIN clients_
  /\ \A i \in DOMAIN clients_ : clients_'[i].fd = clients_[i].fd
  /\ \A fd \in FD : peer'[fd] = "closed" <=> peer[fd] = "closed"

LEMMA SameClientsUpdate ==
  ASSUME TypeOK, UNCHANGED peer, NEW c, c.fd = client.fd,
         clients_' = [clients_ EXCEPT ![index] = c]
  PROVE  SameClients
BY DEF SameClients, client, TypeOK

LEMMA SameClientsBuffer ==
  ASSUME TypeOK, UNCHANGED peer, index \in 1..Len(clients_), NEW b,
         clients_' = [clients_ EXCEPT ![index].buffer = b]
  PROVE  SameClients
<1> DEFINE c == [client EXCEPT !.buffer = b]
<1>1. client \in ClientConnection
  BY ClientAt DEF client
<1>2. c.fd = client.fd
  BY <1>1 DEF ClientConnection
<1>3. clients_' = [clients_ EXCEPT ![index] = c]
  BY DEF client
<1> HIDE DEF c
<1>4. QED
  BY <1>2, <1>3, SameClientsUpdate

(* Only three calls open or close a client's socket.                       *)
LEMMA ConnectionFrame ==
  ASSUME TypeOK, ControlInv, [Next]_vars
  PROVE  accept_connection \/ disconnect_client \/ shutdown_all \/ SameClients
<1> USE DEF members, sockets
<1>1. CASE PeerStep
  <2>1. CASE \E fd \in FD, fault \in Faults : PeerFault(fd, fault)
    BY <2>1, MonitorServerAssumption DEF PeerFault, SameClients, TypeOK
  <2>2. CASE UNCHANGED <<clients_, peer>>
    BY <2>2 DEF SameClients
  <2>3. QED
    BY <1>1, <2>1, <2>2 DEF PeerStep, PeerConnect, PeerSend, PeerRecv
<1>2. CASE \E type : Handling(type) /\ RemoveLine /\ UNCHANGED peer
  <2>1. index \in 1..Len(clients_)
    BY <1>2, ClientType DEF Handling
  <2>2. QED
    BY <1>2, <2>1, SameClientsBuffer DEF RemoveLine
<1>3. CASE handle_register
  <2> DEFINE c == [client EXCEPT !.buffer = Tail(client.buffer), !.role = registered_role,
                                 !.declared_host = value_or(line.host, client.peer_label)]
  <2>1. client \in ClientConnection
    BY <1>3, ClientType DEF handle_register, Handling
  <2>2. c.fd = client.fd
    BY <2>1 DEF ClientConnection
  <2>3. clients_' = [clients_ EXCEPT ![index] = c] /\ UNCHANGED peer
    BY <1>3 DEF handle_register
  <2> HIDE DEF c
  <2>4. QED
    BY <2>2, <2>3, SameClientsUpdate
<1>4. CASE read_client
  <2>1. index \in 1..Len(clients_)
    BY <1>4 DEF read_client, Scanning, TypeOK
  <2>2. (\E b : clients_' = [clients_ EXCEPT ![index].buffer = b]) /\ UNCHANGED peer
    BY <1>4 DEF read_client
  <2>3. QED
    BY <2>1, <2>2, SameClientsBuffer
<1>5. CASE UNCHANGED <<clients_, peer>>
  BY <1>5 DEF SameClients
<1>6. QED
  BY <1>1, <1>2, <1>3, <1>4, <1>5
     DEF Next, ServerStep, RunStep, HandlerStep, vars, signal_handler, SignalInterruptsSelect,
         start, LoopTest, select, SelectFails, AcceptFails, NotReady, ClientFails, ReadDone,
         ScanDone, SkipBlank, handle_metrics, AlertAccepted, AlertRejected, ListAlerts,
         CountClients, UnknownCommand, handle_chat, Unsupported, HandlingCommand, Answer,
         evaluate_rule, RulesDone, send_line, SendDone, DropDone, Exited

-----------------------------------------------------------------------------
(* Sockets.                                                                *)

(* accept() returned a descriptor that was closed.                         *)
LEMMA Accepted ==
  ASSUME TypeOK, accept_connection
  PROVE  \E fd \in FD :
           /\ peer[fd] = "closed" /\ peer' = [peer EXCEPT ![fd] = "open"]
           /\ DOMAIN clients_' = 1..(Len(clients_) + 1)
           /\ \A i \in 1..Len(clients_) : clients_'[i] = clients_[i]
           /\ clients_'[Len(clients_) + 1].fd = fd
<1>1. PICK fd \in FD, label \in PeerLabel :
        /\ peer[fd] = "closed"
        /\ clients_' = Append(clients_, [fd |-> fd, role |-> "Unknown", peer_label |-> label,
                                         declared_host |-> EmptyHost, buffer |-> << >>])
        /\ peer' = [peer EXCEPT ![fd] = "open"]
  BY DEF accept_connection
<1> DEFINE c == [fd |-> fd, role |-> "Unknown", peer_label |-> label,
                 declared_host |-> EmptyHost, buffer |-> << >>]
<1>2. c \in ClientConnection /\ c.fd = fd
  BY ProtocolAssumption DEF ClientConnection, ClientRole
<1>3. clients_' = Append(clients_, c)
  BY <1>1
<1> HIDE DEF c
<1>4. /\ DOMAIN clients_' = 1..(Len(clients_) + 1)
      /\ \A i \in 1..Len(clients_) : clients_'[i] = clients_[i]
      /\ clients_'[Len(clients_) + 1] = c
  BY <1>2, <1>3, AppendProperties, LenProperties DEF TypeOK
<1>5. QED
  BY <1>1, <1>2, <1>4

(* The client with the last index collected is erased and its socket       *)
(* closed; the clients behind it move up.                                  *)
LEMMA Disconnected ==
  ASSUME TypeOK, ControlInv, disconnect_client
  PROVE  \E i \in 1..Len(clients_) :
           LET last == Len(disconnect_indices) IN
           /\ last \in Nat \ {0} /\ i = disconnect_indices[last]
           /\ peer' = [fd \in FD |-> IF fd = clients_[i].fd THEN "closed" ELSE peer[fd]]
           /\ failed' = failed \ {clients_[i].fd}
           /\ DOMAIN clients_' = 1..(Len(clients_) - 1)
           /\ \A j \in 1..(Len(clients_) - 1) :
                clients_'[j] = IF j < i THEN clients_[j] ELSE clients_[j + 1]
           /\ Len(disconnect_indices') = last - 1
           /\ \A k \in 1..(last - 1) : /\ disconnect_indices'[k] = disconnect_indices[k]
                                       /\ disconnect_indices[k] \in 1..(i - 1)
<1> DEFINE last == Len(disconnect_indices)
           i == disconnect_indices[last]
<1>1. last \in 1..Len(disconnect_indices) /\ last \in Nat \ {0}
  BY EmptySeq DEF disconnect_client, TypeOK
<1>2. i \in 1..Len(clients_)
  BY <1>1 DEF ControlInv
<1>3. \A k \in 1..(last - 1) : disconnect_indices[k] \in 1..Len(clients_) /\ disconnect_indices[k] < i
  BY <1>1 DEF ControlInv
<1>4. /\ clients_' = RemoveAt(clients_, i)
      /\ disconnect_indices' = RemoveAt(disconnect_indices, last)
      /\ peer' = [fd \in FD |-> IF fd = clients_[i].fd THEN "closed" ELSE peer[fd]]
      /\ failed' = failed \ {clients_[i].fd}
  BY DEF disconnect_client, close_socket, rbegin
<1>5. clients_ \in Seq(ClientConnection) /\ disconnect_indices \in Seq(Nat \ {0})
  BY DEF TypeOK
<1> HIDE DEF last, i
<1>6. /\ DOMAIN clients_' = 1..(Len(clients_) - 1)
      /\ \A j \in 1..(Len(clients_) - 1) :
           clients_'[j] = IF j < i THEN clients_[j] ELSE clients_[j + 1]
  <2>1. /\ RemoveAt(clients_, i) \in Seq(ClientConnection)
        /\ Len(RemoveAt(clients_, i)) = Len(clients_) - 1
        /\ \A j \in 1..(Len(clients_) - 1) :
             RemoveAt(clients_, i)[j] = IF j < i THEN clients_[j] ELSE clients_[j + 1]
    BY <1>2, <1>5, RemoveAtProperties
  <2>2. QED
    BY <2>1, <1>4, LenProperties
<1>7. /\ RemoveAt(disconnect_indices, last) \in Seq(Nat \ {0})
      /\ Len(RemoveAt(disconnect_indices, last)) = Len(disconnect_indices) - 1
      /\ \A k \in 1..(Len(disconnect_indices) - 1) :
           RemoveAt(disconnect_indices, last)[k] =
             IF k < last THEN disconnect_indices[k] ELSE disconnect_indices[k + 1]
  BY <1>1, <1>5, RemoveAtProperties
<1>8. /\ Len(disconnect_indices') = last - 1
      /\ \A k \in 1..(last - 1) : disconnect_indices'[k] = disconnect_indices[k]
  BY <1>1, <1>4, <1>7, LenProperties DEF last
<1>9. \A k \in 1..(last - 1) : disconnect_indices[k] \in 1..(i - 1)
  BY <1>2, <1>3
<1>10. QED
  BY <1>1, <1>2, <1>4, <1>6, <1>8, <1>9 DEF last, i

LEMMA StepOwnSockets ==
  TypeOK /\ ControlInv /\ ClientsOwnSockets /\ [Next]_vars => ClientsOwnSockets'
<1> SUFFICES ASSUME TypeOK, ControlInv, ClientsOwnSockets, [Next]_vars PROVE ClientsOwnSockets'
  OBVIOUS
<1>1. /\ DOMAIN clients_ = 1..Len(clients_) /\ Len(clients_) \in Nat
      /\ \A i \in 1..Len(clients_) : clients_[i].fd \in FD /\ peer[clients_[i].fd] # "closed"
      /\ \A fd \in FD : peer[fd] # "closed" => \E i \in 1..Len(clients_) : clients_[i].fd = fd
      /\ \A i, j \in 1..Len(clients_) : clients_[i].fd = clients_[j].fd => i = j
      /\ peer \in [FD -> PeerState]
  <2>1. /\ DOMAIN clients_ = 1..Len(clients_) /\ Len(clients_) \in Nat
        /\ peer \in [FD -> PeerState]
    BY LenProperties DEF TypeOK
  <2>2. ClientFds = {clients_[i].fd : i \in 1..Len(clients_)}
    BY <2>1 DEF ClientFds
  <2>3. ClientFds = {fd \in FD : peer[fd] # "closed"}
    BY DEF ClientsOwnSockets
  <2>4. \A i \in 1..Len(clients_) : clients_[i].fd \in FD /\ peer[clients_[i].fd] # "closed"
    BY <2>2, <2>3
  <2>5. \A fd \in FD : peer[fd] # "closed" => \E i \in 1..Len(clients_) : clients_[i].fd = fd
    BY <2>2, <2>3
  <2>6. \A i, j \in 1..Len(clients_) : clients_[i].fd = clients_[j].fd => i = j
    BY <2>1 DEF ClientsOwnSockets
  <2>7. QED
    BY <2>1, <2>4, <2>5, <2>6
<1>2. CASE accept_connection
  <2>1. PICK fd \in FD :
          /\ peer[fd] = "closed" /\ peer' = [peer EXCEPT ![fd] = "open"]
          /\ DOMAIN clients_' = 1..(Len(clients_) + 1)
          /\ \A i \in 1..Len(clients_) : clients_'[i] = clients_[i]
          /\ clients_'[Len(clients_) + 1].fd = fd
    BY <1>2, Accepted
  <2>2. \A i : i \in 1..(Len(clients_) + 1)
               <=> i \in 1..Len(clients_) \/ i = Len(clients_) + 1
    BY <1>1
  <2>3. \A i, j \in DOMAIN clients_' : clients_'[i].fd = clients_'[j].fd => i = j
    BY <2>1, <2>2, <1>1
  <2>4. ClientFds' = {g \in FD : peer'[g] # "closed"}
    BY <2>1, <2>2, <1>1 DEF ClientFds
  <2>5. QED
    BY <2>3, <2>4 DEF ClientsOwnSockets
<1>3. CASE disconnect_client
  <2>1. PICK i \in 1..Len(clients_) :
          /\ peer' = [fd \in FD |-> IF fd = clients_[i].fd THEN "closed" ELSE peer[fd]]
          /\ DOMAIN clients_' = 1..(Len(clients_) - 1)
          /\ \A j \in 1..(Len(clients_) - 1) :
               clients_'[j] = IF j < i THEN clients_[j] ELSE clients_[j + 1]
    BY <1>3, Disconnected
  <2> DEFINE old(j) == IF j < i THEN j ELSE j + 1
  <2>2. \A j \in 1..(Len(clients_) - 1) : /\ old(j) \in 1..Len(clients_) /\ old(j) # i
                                         /\ clients_'[j] = clients_[old(j)]
    BY <1>1, <2>1
  <2>3. \A j, k \in 1..(Len(clients_) - 1) : old(j) = old(k) => j = k
    BY <1>1
  <2>4. \A k \in 1..Len(clients_) : k # i => \E j \in 1..(Len(clients_) - 1) : old(j) = k
    <3>1. SUFFICES ASSUME NEW k \in 1..Len(clients_), k # i
                   PROVE  \E j \in 1..(Len(clients_) - 1) : old(j) = k
      OBVIOUS
    <3>2. CASE k < i
      <4>1. k \in 1..(Len(clients_) - 1) /\ old(k) = k
        BY <3>2, <1>1
      <4>2. QED
        BY <4>1
    <3>3. CASE k > i
      <4>1. k - 1 \in 1..(Len(clients_) - 1) /\ old(k - 1) = k
        BY <3>3, <1>1
      <4>2. QED
        BY <4>1
    <3>4. QED
      BY <3>1, <3>2, <3>3, <1>1
  <2> HIDE DEF old
  <2>5. \A j, k \in DOMAIN clients_' : clients_'[j].fd = clients_'[k].fd => j = k
    <3>1. SUFFICES ASSUME NEW j \in 1..(Len(clients_) - 1), NEW k \in 1..(Len(clients_) - 1),
                          clients_'[j].fd = clients_'[k].fd
                   PROVE  j = k
      BY <2>1
    <3>2. clients_[old(j)].fd = clients_[old(k)].fd
      BY <2>2, <3>1
    <3>3. old(j) = old(k)
      BY <3>2, <2>2, <1>1
    <3>4. QED
      BY <3>3, <2>3
  <2>6. \A fd \in FD : peer'[fd] # "closed" <=> peer[fd] # "closed" /\ fd # clients_[i].fd
    BY <2>1
  <2>7. ASSUME NEW fd \in ClientFds'
        PROVE  fd \in FD /\ peer'[fd] # "closed"
    <3>1. PICK j \in 1..(Len(clients_) - 1) : fd = clients_[old(j)].fd
      BY <2>1, <2>2 DEF ClientFds
    <3>2. QED
      BY <3>1, <2>2, <2>6, <1>1
  <2>8. ASSUME NEW fd \in FD, peer'[fd] # "closed"
        PROVE  fd \in ClientFds'
    <3>1. PICK k \in 1..Len(clients_) : clients_[k].fd = fd /\ k # i
      BY <2>6, <2>8, <1>1
    <3>2. PICK j \in 1..(Len(clients_) - 1) : old(j) = k
      BY <3>1, <2>4
    <3>3. clients_'[j].fd = fd
      BY <3>1, <3>2, <2>2
    <3>4. QED
      BY <3>3, <2>1 DEF ClientFds
  <2>9. QED
    BY <2>5, <2>7, <2>8 DEF ClientsOwnSockets
<1>4. CASE shutdown_all
  <2>1. /\ clients_' = << >>
        /\ peer' = [fd \in FD |-> IF fd \in ClientFds THEN "closed" ELSE peer[fd]]
    BY <1>4 DEF shutdown_all, close_socket
  <2>2. \A fd \in FD : peer'[fd] = "closed"
    BY <2>1 DEF ClientsOwnSockets
  <2>3. QED
    BY <2>1, <2>2 DEF ClientsOwnSockets, ClientFds
<1>5. CASE SameClients
  BY <1>5 DEF SameClients, ClientsOwnSockets, ClientFds
<1>6. QED
  BY <1>2, <1>3, <1>4, <1>5, ConnectionFrame

(* No descriptor leaks and no client outlives its socket.                  *)
THEOREM SocketsOwned == Spec => []ClientsOwnSockets
<1>1. Init => ClientsOwnSockets
  BY DEF Init, ClientsOwnSockets, ClientFds
<1>2. TypeOK /\ ControlInv /\ ClientsOwnSockets /\ [Next]_vars => ClientsOwnSockets'
  BY StepOwnSockets
<1>3. QED
  BY <1>1, <1>2, AlwaysTyped, PTL DEF Spec

-----------------------------------------------------------------------------
(* The clients dropped.                                                    *)

FailedCollected ==
  failed = {clients_[disconnect_indices[k]].fd : k \in 1..Len(disconnect_indices)}

LEMMA FailedFrame ==
  ASSUME [Next]_vars
  PROVE  ClientFails \/ disconnect_client \/ UNCHANGED <<failed, disconnect_indices>>
BY DEF Next, ServerStep, RunStep, HandlerStep, PeerStep, vars, members, locals, sockets, history,
       bounds, signal_handler, SignalInterruptsSelect, PeerConnect, PeerSend, PeerRecv, PeerFault,
       start, LoopTest, select, SelectFails, accept_connection, AcceptFails, NotReady,
       read_client, ReadDone, ScanDone, SkipBlank, handle_register, handle_metrics, AlertAccepted,
       AlertRejected, ListAlerts, CountClients, UnknownCommand, handle_chat, Unsupported, Answer,
       evaluate_rule, RulesDone, send_line, SendDone, DropDone, shutdown_all, Exited

LEMMA StepFailed ==
  TypeOK /\ ControlInv /\ ClientsOwnSockets /\ FailedCollected /\ [Next]_vars => FailedCollected'
<1> SUFFICES ASSUME TypeOK, ControlInv, ClientsOwnSockets, FailedCollected, [Next]_vars
             PROVE  FailedCollected'
  OBVIOUS
<1>1. disconnect_indices \in Seq(Nat \ {0}) /\ Len(disconnect_indices) \in Nat
  BY LenProperties DEF TypeOK
<1>2. \A k \in 1..Len(disconnect_indices) : disconnect_indices[k] \in 1..Len(clients_)
  BY DEF ControlInv
<1>3. CASE ClientFails
  <2>1. /\ disconnect_indices' = Append(disconnect_indices, index)
        /\ failed' = failed \cup {clients_[index].fd} /\ clients_' = clients_
        /\ index \in Nat \ {0}
    BY <1>3 DEF ClientFails, client, members, TypeOK
  <2>2. /\ Len(disconnect_indices') = Len(disconnect_indices) + 1
        /\ \A k \in 1..Len(disconnect_indices) : disconnect_indices'[k] = disconnect_indices[k]
        /\ disconnect_indices'[Len(disconnect_indices) + 1] = index
    BY <1>1, <2>1, AppendProperties
  <2>3. \A k : k \in 1..Len(disconnect_indices')
               <=> k \in 1..Len(disconnect_indices) \/ k = Len(disconnect_indices) + 1
    BY <1>1, <2>2
  <2>4. QED
    BY <2>1, <2>2, <2>3 DEF FailedCollected
<1>4. CASE disconnect_client
  <2>1. PICK i \in 1..Len(clients_) :
          LET last == Len(disconnect_indices) IN
          /\ last \in Nat \ {0} /\ i = disconnect_indices[last]
          /\ failed' = failed \ {clients_[i].fd}
          /\ DOMAIN clients_' = 1..(Len(clients_) - 1)
          /\ \A j \in 1..(Len(clients_) - 1) :
               clients_'[j] = IF j < i THEN clients_[j] ELSE clients_[j + 1]
          /\ Len(disconnect_indices') = last - 1
          /\ \A k \in 1..(last - 1) : /\ disconnect_indices'[k] = disconnect_indices[k]
                                      /\ disconnect_indices[k] \in 1..(i - 1)
    BY <1>4, Disconnected
  <2> DEFINE last == Len(disconnect_indices)
  <2>2. \A k \in 1..(last - 1) : /\ clients_'[disconnect_indices'[k]] = clients_[disconnect_indices[k]]
                                 /\ clients_[disconnect_indices[k]].fd # clients_[i].fd
    <3>1. SUFFICES ASSUME NEW k \in 1..(last - 1)
                   PROVE  /\ clients_'[disconnect_indices'[k]] = clients_[disconnect_indices[k]]
                          /\ clients_[disconnect_indices[k]].fd # clients_[i].fd
      OBVIOUS
    <3>2. /\ disconnect_indices[k] \in 1..(Len(clients_) - 1)
          /\ disconnect_indices[k] < i /\ disconnect_indices'[k] = disconnect_indices[k]
      BY <2>1, ClientAt
    <3>3. disconnect_indices[k] \in DOMAIN clients_ /\ i \in DOMAIN clients_
          /\ disconnect_indices[k] # i
      BY <3>2, ClientAt
    <3>4. clients_[disconnect_indices[k]].fd # clients_[i].fd
      BY <3>3 DEF ClientsOwnSockets
    <3>5. QED
      BY <2>1, <3>2, <3>4
  <2>3. \A k : k \in 1..last <=> k \in 1..(last - 1) \/ k = last
    BY <2>1
  <2>4. failed' = {clients_[disconnect_indices[k]].fd : k \in 1..(last - 1)}
    BY <2>1, <2>2, <2>3 DEF FailedCollected
  <2>5. failed' = {clients_'[disconnect_indices'[k]].fd : k \in 1..(last - 1)}
    BY <2>2, <2>4
  <2>6. QED
    BY <2>1, <2>5 DEF FailedCollected
<1>5. CASE UNCHANGED <<failed, disconnect_indices>>
  <2>1. CASE disconnect_indices = << >>
    BY <2>1, <1>5 DEF FailedCollected
  <2>2. CASE disconnect_indices # << >>
    <3>1. ~accept_connection /\ ~shutdown_all
      BY <2>2 DEF accept_connection, shutdown_all, ControlInv
    <3>2. CASE SameClients
      <4>1. \A k \in 1..Len(disconnect_indices) :
              clients_'[disconnect_indices[k]].fd = clients_[disconnect_indices[k]].fd
        BY <3>2, <1>2, ClientAt DEF SameClients
      <4>2. QED
        BY <4>1, <1>5 DEF FailedCollected
    <3>3. QED
      BY <3>1, <3>2, <1>4, ConnectionFrame
  <2>3. QED
    BY <2>1, <2>2
<1>6. QED
  BY <1>3, <1>4, <1>5, FailedFrame

(* The clients erased at the end of a round are those that failed in it.   *)
THEOREM DropsCorrect == Spec => []DropsExactlyFailed
<1>1. Init => FailedCollected
  BY DEF Init, FailedCollected
<1>2. TypeOK /\ ControlInv /\ ClientsOwnSockets /\ FailedCollected /\ [Next]_vars => FailedCollected'
  BY StepFailed
<1>3. TypeOK /\ ControlInv /\ FailedCollected => DropsExactlyFailed
  <2> SUFFICES ASSUME TypeOK, ControlInv, FailedCollected PROVE DropsExactlyFailed
    OBVIOUS
  <2>2. DOMAIN disconnect_indices = 1..Len(disconnect_indices) /\ DOMAIN clients_ = 1..Len(clients_)
    BY LenProperties DEF TypeOK
  <2>3. pc \in {"top", "select", "accept"} => failed = {}
    <3>1. SUFFICES ASSUME pc \in {"top", "select", "accept"} PROVE failed = {}
      OBVIOUS
    <3>2. disconnect_indices = << >>
      BY <3>1 DEF ControlInv
    <3>3. QED
      BY <3>2 DEF FailedCollected
  <2>4. \A k \in DOMAIN disconnect_indices : disconnect_indices[k] \in DOMAIN clients_
    BY <2>2 DEF ControlInv
  <2>5. failed = {clients_[disconnect_indices[k]].fd : k \in DOMAIN disconnect_indices}
    BY <2>2 DEF FailedCollected
  <2>6. QED
    BY <2>3, <2>4, <2>5 DEF DropsExactlyFailed
<1>4. QED
  BY <1>1, <1>2, <1>3, AlwaysTyped, SocketsOwned, PTL DEF Spec

-----------------------------------------------------------------------------
(* Reading.                                                                *)

Round == {"accept", "scan", "line", "rules"}

(* The scan has still to look at client i.                                 *)
Ahead(i) == IF pc \in {"line", "rules"} THEN i > index ELSE i >= index

(* What select() reported of the clients ahead stays true during the round. *)
ReportHolds ==
  /\ pc \notin Round => read_set = {}
  /\ pc = "accept" => read_set \subseteq ClientFds
  /\ \A i \in 1..Len(clients_) :
       Ahead(i) /\ clients_[i].fd \in read_set => Readable(clients_[i].fd)

(* A step that leaves the report of select() as true as it was.            *)
ReportKept ==
  /\ SameClients
  /\ read_set' = read_set
  /\ pc' \in Round <=> pc \in Round
  /\ pc' # "accept"
  /\ \A i \in Nat : Ahead(i)' => Ahead(i)
  /\ \A fd \in FD : Readable(fd) => Readable(fd)'

LEMMA ReportFrame ==
  ASSUME TypeOK, ControlInv, [Next]_vars
  PROVE  \/ select \/ accept_connection \/ read_client \/ ScanDone
         \/ disconnect_client \/ shutdown_all
         \/ ReportKept
         \/ SameClients /\ UNCHANGED <<pc, read_set, index>> /\ \A fd \in FD : Readable(fd) => Readable(fd)'
<1> USE DEF members, locals, sockets
<1> DEFINE Same == UNCHANGED <<pc, read_set, index>>
<1>1. index \in Nat
  BY DEF TypeOK
<1>2. \/ accept_connection \/ disconnect_client \/ shutdown_all \/ SameClients
  BY ConnectionFrame
<1>3. CASE \E fd \in FD, l \in Lines : PeerSend(fd, l)
  <2>1. PICK fd \in FD, l \in Lines : inq' = [inq EXCEPT ![fd] = Append(@, l)]
    BY <1>3 DEF PeerSend
  <2>2. inq[fd] \in Seq(Lines)
    BY DEF TypeOK
  <2>3. Append(inq[fd], l) # << >>
    BY <2>2, AppendProperties, EmptySeq
  <2>4. \A g \in FD : inq[g] # << >> => inq'[g] # << >>
    BY <2>1, <2>3 DEF TypeOK
  <2>5. Same /\ UNCHANGED peer /\ UNCHANGED clients_
    BY <1>3 DEF PeerSend
  <2>6. QED
    BY <2>4, <2>5 DEF Readable, SameClients
<1>4. CASE \E fd \in FD, fault \in Faults : PeerFault(fd, fault)
  <2>1. PICK fd \in FD, fault \in Faults : PeerFault(fd, fault)
    BY <1>4
  <2>2. \A g \in FD : Readable(g) => Readable(g)'
    BY <2>1 DEF PeerFault, Readable, TypeOK
  <2>3. Same
    BY <2>1 DEF PeerFault
  <2>4. SameClients
    BY <2>1, MonitorServerAssumption DEF PeerFault, SameClients, TypeOK
  <2>5. QED
    BY <2>2, <2>3, <2>4
<1>5. CASE Same /\ UNCHANGED <<peer, inq>>
  BY <1>5, <1>2 DEF Readable
<1>6. CASE NotReady \/ ClientFails \/ ReadDone
  <2>1. /\ pc \in {"scan", "line"} /\ pc' = "scan" /\ index' = index + 1
        /\ UNCHANGED <<read_set, clients_, peer, inq>>
    BY <1>6 DEF NotReady, ClientFails, ReadDone, Scanning
  <2>2. QED
    BY <2>1, <1>1 DEF ReportKept, SameClients, Round, Ahead, Readable
<1>7. CASE handle_metrics \/ RulesDone
  <2>1. /\ pc \in {"line", "rules"} /\ pc' \in {"line", "rules"}
        /\ UNCHANGED <<read_set, index, peer, inq>>
    BY <1>7 DEF handle_metrics, RulesDone, Handling
  <2>2. SameClients
    BY <1>2, <2>1 DEF accept_connection, disconnect_client, shutdown_all
  <2>3. QED
    BY <2>1, <2>2 DEF ReportKept, Round, Ahead, Readable
<1>8. CASE signal_handler \/ SignalInterruptsSelect \/ start \/ LoopTest \/ SelectFails \/ AcceptFails \/ DropDone
  <2>1. /\ pc' # "accept" \/ pc' = pc
        /\ pc \in {"accept", "scan", "start", "top", "select", "drop"} \/ pc' = pc
        /\ pc' \in {"scan", "start", "top", "select", "shutdown", "stopped"} \/ pc' = pc
        /\ pc = "accept" /\ pc' # pc => pc' = "scan"
        /\ pc' = "scan" /\ pc' # pc => pc = "accept"
        /\ pc = "scan" => pc' = pc
        /\ UNCHANGED <<read_set, index, peer, inq, clients_>>
    BY <1>8 DEF signal_handler, SignalInterruptsSelect, start, LoopTest, SelectFails, AcceptFails, DropDone
  <2>2. CASE pc' = pc
    BY <2>1, <2>2 DEF SameClients, Readable
  <2>3. CASE pc' # pc
    BY <2>1, <2>3 DEF ReportKept, SameClients, Round, Ahead, Readable
  <2>4. QED
    BY <2>2, <2>3
<1>9. QED
  BY <1>3, <1>4, <1>5, <1>6, <1>7, <1>8
     DEF Next, ServerStep, RunStep, HandlerStep, PeerStep, vars, PeerConnect, PeerRecv,
         SkipBlank, handle_register, AlertAccepted, AlertRejected, ListAlerts,
         CountClients, UnknownCommand, handle_chat, Unsupported, Answer,
         evaluate_rule, send_line, SendDone, Exited

LEMMA StepReport ==
  TypeOK /\ ControlInv /\ FiniteInv /\ ClientsOwnSockets /\ ReportHolds /\ [Next]_vars => ReportHolds'
<1> SUFFICES ASSUME TypeOK, ControlInv, FiniteInv, ClientsOwnSockets, ReportHolds, [Next]_vars
             PROVE  ReportHolds'
  OBVIOUS
<1>1. /\ DOMAIN clients_ = 1..Len(clients_) /\ Len(clients_) \in Nat
      /\ \A i \in 1..Len(clients_) : clients_[i].fd \in FD
      /\ \A i, j \in 1..Len(clients_) : clients_[i].fd = clients_[j].fd => i = j
      /\ index \in Nat
  BY ClientAt DEF ClientsOwnSockets, TypeOK
<1>2. DOMAIN clients_' = 1..Len(clients_') /\ Len(clients_') \in Nat
  BY StepTypes, LenProperties DEF TypeOK
<1>3. CASE select
  <2>1. /\ read_set' = {fd \in ClientFds : Readable(fd)} /\ UNCHANGED <<clients_, peer, inq>>
        /\ pc' \in Round
    BY <1>3 DEF select, ready_to_read, members, sockets, Round
  <2>2. \A fd \in read_set' : fd \in ClientFds' /\ Readable(fd)'
    BY <2>1 DEF Readable, ClientFds
  <2>3. QED
    BY <2>1, <2>2 DEF ReportHolds
<1>4. CASE accept_connection
  <2>1. PICK fd \in FD :
          /\ peer[fd] = "closed" /\ peer' = [peer EXCEPT ![fd] = "open"]
          /\ DOMAIN clients_' = 1..(Len(clients_) + 1)
          /\ \A i \in 1..Len(clients_) : clients_'[i] = clients_[i]
          /\ clients_'[Len(clients_) + 1].fd = fd
    BY <1>4, Accepted
  <2>2. /\ pc = "accept" /\ pc' = "scan" /\ UNCHANGED <<read_set, index, inq>>
    BY <1>4 DEF accept_connection, locals
  <2>3. fd \notin read_set
    BY <2>1, <2>2 DEF ReportHolds, ClientsOwnSockets
  <2>4. \A g \in FD : g # fd /\ Readable(g) => Readable(g)'
    BY <2>1, <2>2 DEF Readable, TypeOK
  <2>5. \A i \in 1..Len(clients_') : i \in 1..Len(clients_) \/ clients_'[i].fd = fd
    BY <2>1, <1>1, <1>2
  <2>6. ASSUME NEW i \in 1..Len(clients_'), Ahead(i)', (clients_[i].fd \in read_set)'
        PROVE  Readable(clients_[i].fd)'
    <3>1. i \in 1..Len(clients_) /\ clients_'[i] = clients_[i] /\ clients_[i].fd # fd
      BY <2>1, <2>2, <2>3, <2>5, <2>6
    <3>2. Ahead(i)
      BY <2>2, <2>6 DEF Ahead
    <3>3. Readable(clients_[i].fd) /\ clients_[i].fd \in FD
      BY <3>1, <3>2, <2>2, <2>6, <1>1 DEF ReportHolds
    <3>4. QED
      BY <3>1, <3>3, <2>4
  <2>7. QED
    BY <2>2, <2>6 DEF ReportHolds, Round
<1>5. CASE read_client
  <2>1. /\ pc = "scan" /\ pc' = "line" /\ UNCHANGED <<read_set, index, peer>>
        /\ index \in 1..Len(clients_)
    BY <1>5, <1>1 DEF read_client, Scanning, locals, TypeOK
  <2>2. \A fd \in FD : fd # clients_[index].fd => inq'[fd] = inq[fd]
    BY <1>5 DEF read_client, client, TypeOK
  <2>3. SameClients
    BY <2>1, ConnectionFrame DEF accept_connection, disconnect_client, shutdown_all
  <2>4. Len(clients_') = Len(clients_)
    BY <2>3, <1>1, <1>2 DEF SameClients
  <2>5. ASSUME NEW i \in 1..Len(clients_'), Ahead(i)', (clients_[i].fd \in read_set)'
        PROVE  Readable(clients_[i].fd)'
    <3>1. i \in 1..Len(clients_) /\ clients_'[i].fd = clients_[i].fd
      BY <2>3, <2>4, <1>1 DEF SameClients
    <3>2. i > index /\ Ahead(i)
      BY <2>1, <2>5, <3>1, <1>1 DEF Ahead
    <3>3. clients_[i].fd # clients_[index].fd /\ clients_[i].fd \in FD
      BY <3>1, <3>2, <2>1, <1>1
    <3>4. Readable(clients_[i].fd)
      BY <3>1, <3>2, <2>1, <2>5 DEF ReportHolds
    <3>5. QED
      BY <3>1, <3>3, <3>4, <2>1, <2>2 DEF Readable
  <2>6. QED
    BY <2>1, <2>5 DEF ReportHolds, Round
<1>6. CASE ScanDone \/ disconnect_client \/ shutdown_all
  <2>1. read_set' = {} /\ pc' # "accept"
    BY <1>6 DEF ScanDone, disconnect_client, shutdown_all, locals, ReportHolds, Round
  <2>2. QED
    BY <2>1 DEF ReportHolds
<1>7. ASSUME SameClients, read_set' = read_set, \A i \in Nat : Ahead(i)' => Ahead(i),
             \A fd \in FD : Readable(fd) => Readable(fd)'
      PROVE  \A i \in 1..Len(clients_') :
               (Ahead(i) /\ clients_[i].fd \in read_set => Readable(clients_[i].fd))'
  <2>1. SUFFICES ASSUME NEW i \in 1..Len(clients_'), Ahead(i)', (clients_[i].fd \in read_set)'
                 PROVE  Readable(clients_[i].fd)'
    OBVIOUS
  <2>2. i \in 1..Len(clients_) /\ i \in Nat /\ clients_'[i].fd = clients_[i].fd
    BY <1>1, <1>2, <1>7 DEF SameClients
  <2>3. Readable(clients_[i].fd)
    BY <2>1, <2>2, <1>7 DEF ReportHolds
  <2>4. QED
    BY <2>2, <2>3, <1>1, <1>7
<1>8. CASE ReportKept
  <2>1. \A i \in 1..Len(clients_') :
          (Ahead(i) /\ clients_[i].fd \in read_set => Readable(clients_[i].fd))'
    BY <1>7, <1>8 DEF ReportKept
  <2>2. QED
    BY <2>1, <1>8 DEF ReportKept, ReportHolds
<1>9. CASE /\ SameClients /\ UNCHANGED <<pc, read_set, index>>
           /\ \A fd \in FD : Readable(fd) => Readable(fd)'
  <2>1. \A i \in Nat : Ahead(i)' => Ahead(i)
    BY <1>9 DEF Ahead
  <2>2. \A i \in 1..Len(clients_') :
          (Ahead(i) /\ clients_[i].fd \in read_set => Readable(clients_[i].fd))'
    BY <1>7, <1>9, <2>1
  <2>3. ClientFds' = ClientFds
    BY <1>9 DEF SameClients, ClientFds
  <2>4. QED
    BY <2>2, <2>3, <1>9 DEF ReportHolds
<1>10. QED
  BY <1>3, <1>4, <1>5, <1>6, <1>8, <1>9, ReportFrame

(* recv() is called on readable sockets only.                              *)
THEOREM RecvCorrect == Spec => []RecvNeverBlocks
<1>1. Init => ReportHolds
  BY DEF Init, ReportHolds
<1>2. TypeOK /\ ControlInv /\ FiniteInv /\ ClientsOwnSockets /\ ReportHolds /\ [Next]_vars => ReportHolds'
  BY StepReport
<1>3. TypeOK /\ ReportHolds => RecvNeverBlocks
  BY DEF ReportHolds, RecvNeverBlocks, Scanning, Ahead, client, TypeOK
<1>4. QED
  BY <1>1, <1>2, <1>3, AlwaysTyped, SocketsOwned, PTL DEF Spec

-----------------------------------------------------------------------------
(* The dashboards: each one that registered and is still there has been    *)
(* sent what it needs to show the server's metrics and rules.              *)

(* What an event says agrees with the metrics and rules given.             *)
Truthful(event, metrics, rules) ==
  /\ event.type = "snapshot" => event.metrics = snapshot_items(metrics)
  /\ event.type = "metric" => event.data = snapshot_items(metrics)[event.data.host]
  /\ event.type = "rules" => event.items = rule_items(rules)

(* Nothing outdated waits to be sent.                                      *)
EventsTruthful ==
  \A k \in 1..Len(outbox) : Truthful(outbox[k].event, latest_metrics_, alert_rules_)

LiveDashboards == {fd \in Dashboards : Alive(fd)}

TellsMetric(event, h) ==
  event.type = "snapshot" \/ (event.type = "metric" /\ event.data.host = h)

(* The dashboard shows the metric of h, or an event that tells it waits.   *)
MetricServed(fd, h) ==
  \/ mirror[fd].metrics[h] = snapshot_items(latest_metrics_)[h]
  \/ \E k \in 1..Len(outbox) : fd \in outbox[k].to /\ TellsMetric(outbox[k].event, h)

RulesServed(fd) ==
  \/ mirror[fd].rules = rule_items(alert_rules_)
  \/ \E k \in 1..Len(outbox) : fd \in outbox[k].to /\ outbox[k].event.type = "rules"

SubscribersServed ==
  \A fd \in LiveDashboards : RulesServed(fd) /\ \A h \in Host \ {EmptyHost} : MetricServed(fd, h)

-----------------------------------------------------------------------------
(* Events.                                                                 *)

(* A new metric of one host changes the item of that host only.            *)
LEMMA SnapshotUpdate ==
  ASSUME NEW metrics \in Metrics, NEW m \in MetricSnapshot
  PROVE  /\ m.host \in Host /\ metric_data_to_json(m).host = m.host
         /\ \A h \in Host :
              snapshot_items([metrics EXCEPT ![m.host] = m])[h] =
                IF h = m.host THEN metric_data_to_json(m) ELSE snapshot_items(metrics)[h]
<1>1. m.host \in Host /\ metric_data_to_json(m).host = m.host
  BY DEF MetricSnapshot, metric_data_to_json
<1>2. m # None
  BY ProtocolAssumption DEF MetricSnapshot
<1>3. \A h \in Host : [metrics EXCEPT ![m.host] = m][h] = IF h = m.host THEN m ELSE metrics[h]
  BY DEF Metrics
<1>4. QED
  BY <1>1, <1>2, <1>3 DEF snapshot_items

(* A dashboard that reads a truthful event is up to date in what it tells  *)
(* and keeps the rest.                                                     *)
LEMMA ReadsTruthful ==
  ASSUME NEW view \in View, NEW event \in Event,
         Truthful(event, latest_metrics_, alert_rules_)
  PROVE  /\ \A h \in Host \ {EmptyHost} :
              _handle_event(view, event).metrics[h] =
                IF TellsMetric(event, h) THEN snapshot_items(latest_metrics_)[h] ELSE view.metrics[h]
         /\ _handle_event(view, event).rules =
              IF event.type = "rules" THEN rule_items(alert_rules_) ELSE view.rules
<1>1. view.metrics \in SnapshotItems /\ view = [metrics |-> view.metrics, rules |-> view.rules]
  BY DEF View
<1>2. CASE event.type = "snapshot"
  BY <1>1, <1>2 DEF _handle_event, Truthful, TellsMetric
<1>3. CASE event.type = "rules"
  BY <1>1, <1>3 DEF _handle_event, Truthful, TellsMetric
<1>4. CASE event.type = "metric" /\ event.data.host = EmptyHost
  BY <1>1, <1>4 DEF _handle_event, TellsMetric
<1>5. CASE event.type = "metric" /\ event.data.host # EmptyHost
  <2>1. event.data.host \in Host
    BY <1>5 DEF Event, MetricData
  <2>2. event.data = snapshot_items(latest_metrics_)[event.data.host]
    BY <1>5 DEF Truthful
  <2>3. _handle_event(view, event) = [view EXCEPT !.metrics = [view.metrics EXCEPT ![event.data.host] = event.data]]
    BY <1>5 DEF _handle_event
  <2>4. /\ _handle_event(view, event).metrics = [view.metrics EXCEPT ![event.data.host] = event.data]
        /\ _handle_event(view, event).rules = view.rules
    BY <2>3, <1>1
  <2>5. \A h \in Host : [view.metrics EXCEPT ![event.data.host] = event.data][h] =
                          IF h = event.data.host THEN event.data ELSE view.metrics[h]
    BY <1>1 DEF SnapshotItems
  <2>6. QED
    BY <2>1, <2>2, <2>4, <2>5, <1>5 DEF TellsMetric
<1>6. CASE event.type \notin {"snapshot", "rules", "metric"}
  BY <1>1, <1>6 DEF _handle_event, TellsMetric
<1>7. QED
  BY <1>2, <1>3, <1>4, <1>5, <1>6

-----------------------------------------------------------------------------
(* Steps.                                                                  *)

SameRoles ==
  /\ DOMAIN clients_' = DOMAIN clients_
  /\ \A i \in DOMAIN clients_ : /\ clients_'[i].fd = clients_[i].fd
                                /\ clients_'[i].role = clients_[i].role

(* No dashboard joins and the server's metrics and rules stay; at most the *)
(* answer to a line is queued, when everything before it has been sent.    *)
Quiet ==
  /\ LiveDashboards' \subseteq LiveDashboards
  /\ UNCHANGED <<latest_metrics_, alert_rules_, mirror>>
  /\ \/ UNCHANGED outbox
     \/ outbox = << >> /\ EventsTruthful'

LEMMA RolesKept ==
  ASSUME TypeOK, ControlInv, [Next]_vars
  PROVE  \/ accept_connection \/ handle_register \/ disconnect_client \/ shutdown_all
         \/ SameRoles
<1>1. CASE \E type : Handling(type) /\ RemoveLine
  <2>1. PICK type : Handling(type) /\ RemoveLine
    BY <1>1
  <2>2. /\ Len(clients_') = Len(clients_) /\ clients_' \in Seq(ClientConnection)
        /\ \A i \in 1..Len(clients_) :
             clients_'[i] = IF i = index THEN [client EXCEPT !.buffer = Tail(client.buffer)]
                                         ELSE clients_[i]
    BY <2>1, RemoveLineType
  <2>3. client \in ClientConnection
    BY <2>1, LineType, ClientType
  <2>4. /\ [client EXCEPT !.buffer = Tail(client.buffer)].fd = client.fd
        /\ [client EXCEPT !.buffer = Tail(client.buffer)].role = client.role
    BY <2>3 DEF ClientConnection
  <2>5. DOMAIN clients_' = 1..Len(clients_) /\ DOMAIN clients_ = 1..Len(clients_)
    BY <2>2, ClientAt, LenProperties
  <2>6. QED
    BY <2>2, <2>4, <2>5 DEF SameRoles, client
<1>2. CASE read_client
  <2>1. index \in 1..Len(clients_)
    BY <1>2 DEF read_client, Scanning, TypeOK
  <2>2. PICK b : clients_' = [clients_ EXCEPT ![index] = [clients_[index] EXCEPT !.buffer = b]]
    BY <1>2 DEF read_client
  <2> DEFINE c == [clients_[index] EXCEPT !.buffer = b]
  <2>3. c.fd = clients_[index].fd /\ c.role = clients_[index].role
    BY <2>1, ClientAt DEF ClientConnection
  <2>4. clients_' = [clients_ EXCEPT ![index] = c]
    BY <2>2
  <2> HIDE DEF c
  <2>5. QED
    BY <2>1, <2>3, <2>4, ClientAt DEF SameRoles
<1>3. CASE UNCHANGED clients_
  BY <1>3 DEF SameRoles
<1>4. QED
  BY <1>1, <1>2, <1>3
     DEF Next, ServerStep, RunStep, HandlerStep, PeerStep, vars, members, signal_handler,
         SignalInterruptsSelect, PeerConnect, PeerSend, PeerRecv, PeerFault,
         start, LoopTest, select, SelectFails, AcceptFails, NotReady, ClientFails, ReadDone,
         ScanDone, SkipBlank, handle_metrics, AlertAccepted, AlertRejected, ListAlerts,
         CountClients, UnknownCommand, handle_chat, Unsupported, HandlingCommand, Answer,
         evaluate_rule, RulesDone, send_line, SendDone, DropDone, Exited

LEMMA DashboardsKept ==
  ASSUME SameRoles
  PROVE  Dashboards' = Dashboards
BY DEF SameRoles, Dashboards

(* Opening and closing connections makes nobody a live dashboard: the      *)
(* descriptor a new client gets belonged to nobody.                        *)
LEMMA ConnectionsQuiet ==
  ASSUME TypeOK, ControlInv, ClientsOwnSockets,
         accept_connection \/ disconnect_client \/ shutdown_all
  PROVE  Quiet
<1>1. UNCHANGED <<latest_metrics_, alert_rules_, mirror, outbox>>
  BY DEF accept_connection, disconnect_client, shutdown_all, members, locals, history
<1>2. DOMAIN clients_ = 1..Len(clients_) /\ Len(clients_) \in Nat
  BY ClientAt
<1>3. CASE accept_connection
  <2>1. PICK fd \in FD, label \in PeerLabel :
          /\ peer[fd] = "closed"
          /\ clients_' = Append(clients_, [fd |-> fd, role |-> "Unknown", peer_label |-> label,
                                           declared_host |-> EmptyHost, buffer |-> << >>])
          /\ peer' = [peer EXCEPT ![fd] = "open"]
    BY <1>3 DEF accept_connection
  <2> DEFINE c == [fd |-> fd, role |-> "Unknown", peer_label |-> label,
                   declared_host |-> EmptyHost, buffer |-> << >>]
  <2>2. c \in ClientConnection /\ c.role # "Dashboard"
    BY ProtocolAssumption DEF ClientConnection, ClientRole
  <2>3. clients_' = Append(clients_, c)
    BY <2>1
  <2> HIDE DEF c
  <2>4. /\ DOMAIN clients_' = 1..(Len(clients_) + 1)
        /\ \A i \in 1..Len(clients_) : clients_'[i] = clients_[i]
        /\ clients_'[Len(clients_) + 1] = c
    BY <2>2, <2>3, AppendProperties, LenProperties DEF TypeOK
  <2>5. \A i \in 1..(Len(clients_) + 1) : i \in 1..Len(clients_) \/ i = Len(clients_) + 1
    BY <1>2
  <2>6. Dashboards' \subseteq Dashboards
    BY <2>2, <2>4, <2>5, <1>2 DEF Dashboards
  <2>7. fd \notin Dashboards
    BY <2>1 DEF ClientsOwnSockets, ClientFds, Dashboards
  <2>8. \A g \in Dashboards : g \in FD /\ g # fd
    BY <2>7, ClientFdsType
  <2>9. \A g \in Dashboards : Alive(g)' => Alive(g)
    BY <2>1, <2>8 DEF Alive, TypeOK
  <2>10. QED
    BY <1>1, <2>6, <2>9 DEF Quiet, LiveDashboards
<1>4. CASE disconnect_client
  <2>1. PICK i \in 1..Len(clients_) :
          /\ peer' = [fd \in FD |-> IF fd = clients_[i].fd THEN "closed" ELSE peer[fd]]
          /\ DOMAIN clients_' = 1..(Len(clients_) - 1)
          /\ \A j \in 1..(Len(clients_) - 1) :
               clients_'[j] = IF j < i THEN clients_[j] ELSE clients_[j + 1]
    BY <1>4, Disconnected
  <2>2. \A j \in 1..(Len(clients_) - 1) : \E k \in 1..Len(clients_) : clients_'[j] = clients_[k]
    <3>1. TAKE j \in 1..(Len(clients_) - 1)
    <3>2. j \in 1..Len(clients_) /\ j + 1 \in 1..Len(clients_)
      BY <1>2
    <3>3. QED
      BY <3>2, <2>1
  <2>3. ASSUME NEW g \in Dashboards'
        PROVE  g \in Dashboards
    <3>1. PICK j \in 1..(Len(clients_) - 1) : clients_'[j].role = "Dashboard" /\ clients_'[j].fd = g
      BY <2>1 DEF Dashboards
    <3>2. PICK k \in 1..Len(clients_) : clients_[k].role = "Dashboard" /\ clients_[k].fd = g
      BY <3>1, <2>2
    <3>3. QED
      BY <3>2, <1>2 DEF Dashboards
  <2>4. \A g \in Dashboards : Alive(g)' => Alive(g)
    BY <2>1, ClientFdsType DEF Alive
  <2>5. QED
    BY <1>1, <2>3, <2>4 DEF Quiet, LiveDashboards
<1>5. CASE shutdown_all
  <2>1. clients_' = << >>
    BY <1>5 DEF shutdown_all
  <2>2. Dashboards' = {}
    BY <2>1 DEF Dashboards
  <2>3. QED
    BY <1>1, <2>2 DEF Quiet, LiveDashboards
<1>6. QED
  BY <1>3, <1>4, <1>5

(* A handler that only answers: alerts, chat, errors and acknowledgements  *)
(* say nothing of metrics and rules, /listalerts answers with the rules.   *)
LEMMA AnswerTruthful ==
  ASSUME outbox = << >>, UNCHANGED <<latest_metrics_, alert_rules_>>,
         NEW job, outbox' = <<job>>,
         \/ job.event = rules_event_to_json(alert_rules_)
         \/ job.event.type \notin {"snapshot", "metric", "rules"}
  PROVE  EventsTruthful'
<1>1. Truthful(job.event, latest_metrics_', alert_rules_')
  BY DEF Truthful, rules_event_to_json
<1>2. Len(outbox') = 1 /\ outbox'[1] = job
  OBVIOUS
<1>3. \A k \in 1..Len(outbox') : k = 1
  BY <1>2
<1>4. QED
  BY <1>1, <1>2, <1>3 DEF EventsTruthful

(* What a step does to the dashboards.                                     *)
LEMMA StepKinds ==
  ASSUME TypeOK, ControlInv, ClientsOwnSockets, [Next]_vars
  PROVE  handle_register \/ handle_metrics \/ AlertAccepted \/ send_line \/ SendDone \/ Quiet
<1> USE DEF members, sockets, history
<1>1. CASE accept_connection \/ disconnect_client \/ shutdown_all
  BY <1>1, ConnectionsQuiet
<1>2. ASSUME ~accept_connection, ~disconnect_client, ~shutdown_all, ~handle_register,
             \A fd \in FD : Alive(fd)' => Alive(fd)
      PROVE  LiveDashboards' \subseteq LiveDashboards
  BY <1>2, RolesKept, DashboardsKept, ClientFdsType DEF LiveDashboards
<1>3. CASE \E fd \in FD, fault \in Faults : PeerFault(fd, fault)
  <2>1. PICK fd \in FD, fault \in Faults : PeerFault(fd, fault)
    BY <1>3
  <2>2. UNCHANGED <<latest_metrics_, alert_rules_, mirror, outbox, clients_>>
    BY <2>1 DEF PeerFault
  <2>3. \A g \in FD : Alive(g)' => Alive(g)
    BY <2>1 DEF PeerFault, Alive, TypeOK
  <2>4. Dashboards' = Dashboards
    BY <2>2 DEF Dashboards
  <2>5. QED
    BY <2>2, <2>3, <2>4, ClientFdsType DEF Quiet, LiveDashboards
<1>4. CASE UNCHANGED <<latest_metrics_, alert_rules_, mirror, outbox, peer>> /\ ~handle_register
  <2>1. \A fd \in FD : Alive(fd)' => Alive(fd)
    BY <1>4 DEF Alive
  <2>2. QED
    BY <1>1, <1>2, <1>4, <2>1 DEF Quiet
<1>5. CASE /\ UNCHANGED <<latest_metrics_, alert_rules_, mirror, peer>> /\ outbox = << >>
           /\ ~handle_register
           /\ \E job : /\ outbox' = <<job>>
                       /\ \/ job.event = rules_event_to_json(alert_rules_)
                          \/ job.event.type \notin {"snapshot", "metric", "rules"}
  <2>1. \A fd \in FD : Alive(fd)' => Alive(fd)
    BY <1>5 DEF Alive
  <2>2. EventsTruthful'
    BY <1>5, AnswerTruthful
  <2>3. QED
    BY <1>1, <1>2, <1>5, <2>1, <2>2 DEF Quiet
<1>6. CASE AlertRejected \/ ListAlerts \/ CountClients \/ UnknownCommand \/ handle_chat \/ Unsupported
  <2>1. outbox = << >> /\ UNCHANGED <<latest_metrics_, alert_rules_, mirror, peer>>
    BY <1>6 DEF AlertRejected, ListAlerts, CountClients, UnknownCommand, handle_chat, Unsupported,
                HandlingCommand, Handling, Answer
  <2>2. \E job : /\ outbox' = <<job>>
                 /\ \/ job.event = rules_event_to_json(alert_rules_)
                    \/ job.event.type \notin {"snapshot", "metric", "rules"}
    <3>1. \A event : Reply(event).event = event /\ broadcast_to_dashboards(event).event = event
      BY DEF Reply, broadcast_to_dashboards
    <3>2. /\ error_event_to_json.type = "error"
          /\ \A x : ack_event_to_json(x).type = "ack" /\ chat_event_to_json(x).type = "chat"
      BY DEF error_event_to_json, ack_event_to_json, chat_event_to_json
    <3>3. CASE AlertRejected \/ UnknownCommand \/ Unsupported
      BY <3>1, <3>2, <3>3 DEF AlertRejected, UnknownCommand, Unsupported, Answer
    <3>4. CASE ListAlerts
      BY <3>1, <3>4 DEF ListAlerts, Answer
    <3>5. CASE CountClients
      <4>1. \E message : Answer(Reply(ack_event_to_json(message)))
        BY <3>5 DEF CountClients
      <4>2. QED
        BY <4>1, <3>1, <3>2 DEF Answer
    <3>6. CASE handle_chat
      <4>1. \E name : Answer(broadcast_to_dashboards(chat_event_to_json(name)))
        BY <3>6 DEF handle_chat
      <4>2. QED
        BY <4>1, <3>1, <3>2 DEF Answer
    <3>7. QED
      BY <1>6, <3>3, <3>4, <3>5, <3>6
  <2>3. ~handle_register
    BY <1>6 DEF AlertRejected, ListAlerts, CountClients, UnknownCommand, handle_chat, Unsupported,
                HandlingCommand, Handling, handle_register
  <2>4. QED
    BY <2>1, <2>2, <2>3, <1>5
<1>7. CASE evaluate_rule
  <2>1. outbox = << >> /\ UNCHANGED <<latest_metrics_, alert_rules_, mirror, peer>>
    BY <1>7 DEF evaluate_rule
  <2>2. \/ UNCHANGED outbox
        \/ \E job : /\ outbox' = <<job>>
                    /\ job.event.type \notin {"snapshot", "metric", "rules"}
    BY <1>7 DEF evaluate_rule, broadcast_to_dashboards, alert_event_to_json
  <2>3. ~handle_register
    BY <1>7 DEF evaluate_rule, handle_register, Handling
  <2>4. QED
    BY <2>1, <2>2, <2>3, <1>4, <1>5
<1>8. ASSUME ~handle_register PROVE UNCHANGED <<latest_metrics_, alert_rules_, mirror, outbox, peer>>
        \/ accept_connection \/ disconnect_client \/ shutdown_all
        \/ (\E fd \in FD, fault \in Faults : PeerFault(fd, fault))
        \/ AlertRejected \/ ListAlerts \/ CountClients \/ UnknownCommand \/ handle_chat \/ Unsupported
        \/ evaluate_rule \/ handle_metrics \/ AlertAccepted \/ send_line \/ SendDone
  BY <1>8
     DEF Next, ServerStep, RunStep, HandlerStep, PeerStep, vars, signal_handler,
         SignalInterruptsSelect, PeerConnect, PeerSend, PeerRecv,
         start, LoopTest, select, SelectFails, AcceptFails, NotReady, ClientFails, read_client,
         ReadDone, ScanDone, SkipBlank, RulesDone, DropDone, Exited
<1>9. QED
  BY <1>1, <1>3, <1>4, <1>6, <1>7, <1>8

-----------------------------------------------------------------------------
(* The invariant is kept.                                                  *)

LEMMA QuietKeeps ==
  ASSUME EventsTruthful, SubscribersServed, Quiet
  PROVE  EventsTruthful' /\ SubscribersServed'
<1>1. CASE UNCHANGED outbox
  <2>1. UNCHANGED <<latest_metrics_, alert_rules_, mirror, outbox>> /\ LiveDashboards' \subseteq LiveDashboards
    BY <1>1 DEF Quiet
  <2>2. EventsTruthful'
    BY <2>1 DEF EventsTruthful, Truthful
  <2>3. SubscribersServed'
    BY <2>1 DEF SubscribersServed, RulesServed, MetricServed, TellsMetric
  <2>4. QED
    BY <2>2, <2>3
<1>2. CASE outbox = << >> /\ EventsTruthful'
  <2>1. \A fd \in LiveDashboards' :
          /\ mirror[fd].rules = rule_items(alert_rules_)
          /\ \A h \in Host \ {EmptyHost} : mirror[fd].metrics[h] = snapshot_items(latest_metrics_)[h]
    BY <1>2 DEF Quiet, SubscribersServed, RulesServed, MetricServed
  <2>2. SubscribersServed'
    BY <2>1 DEF Quiet, SubscribersServed, RulesServed, MetricServed
  <2>3. QED
    BY <1>2, <2>2
<1>3. QED
  BY <1>1, <1>2 DEF Quiet

LEMMA AckFirst ==
  ASSUME NEW a, NEW b, NEW c
  PROVE  <<a>> \o <<b, c>> = <<a, b, c>> /\ <<a>> \o << >> = <<a>>
<1> DEFINE S == {a, b, c}
           long == <<a>> \o <<b, c>>
<1>1. <<a>> \in Seq(S) /\ <<b, c>> \in Seq(S) /\ <<a, b, c>> \in Seq(S)
  BY ShortSequences
<1> HIDE DEF S
<1>2. /\ long \in Seq(S) /\ Len(long) = 1 + 2
      /\ \A i \in 1..(1 + 2) : long[i] = IF i <= 1 THEN <<a>>[i] ELSE <<b, c>>[i - 1]
  BY <1>1, ConcatProperties
<1> HIDE DEF long
<1>3. Len(long) = Len(<<a, b, c>>) /\ \A i \in 1..Len(long) : long[i] = <<a, b, c>>[i]
  BY <1>2
<1>4. long = <<a, b, c>>
  BY <1>1, <1>2, <1>3, SeqEqual
<1>5. QED
  BY <1>1, <1>4, ConcatEmptySeq DEF long

(* A dashboard that registers is sent the snapshot and the rules.          *)
LEMMA RegisterKeeps ==
  ASSUME TypeOK, ControlInv, EventsTruthful, SubscribersServed, handle_register
  PROVE  EventsTruthful' /\ SubscribersServed'
<1> DEFINE c == [client EXCEPT !.buffer = Tail(client.buffer), !.role = registered_role,
                               !.declared_host = value_or(line.host, client.peer_label)]
           ack == Reply(ack_event_to_json([about |-> "registered as", role |-> line.role]))
           snap == Reply(snapshot_event_to_json(latest_metrics_))
           rul == Reply(rules_event_to_json(alert_rules_))
<1>1. /\ outbox = << >> /\ clients_' = [clients_ EXCEPT ![index] = c]
      /\ outbox' = <<ack>> \o catch_up(registered_role)
      /\ UNCHANGED <<latest_metrics_, alert_rules_, mirror, peer>>
  BY DEF handle_register, Handling, sockets, history
<1>2. client \in ClientConnection /\ index \in 1..Len(clients_)
  BY ClientType DEF handle_register, Handling
<1>3. c.fd = client.fd /\ c.role = registered_role
  BY <1>2 DEF ClientConnection
<1>4. /\ ack.event.type = "ack"
      /\ snap.event = snapshot_event_to_json(latest_metrics_) /\ snap.to = {client.fd}
      /\ rul.event = rules_event_to_json(alert_rules_) /\ rul.to = {client.fd}
  BY DEF Reply, ack_event_to_json
<1> HIDE DEF c, ack, snap, rul
<1>5. /\ registered_role = "Dashboard" => outbox' = <<ack, snap, rul>>
      /\ registered_role # "Dashboard" => outbox' = <<ack>>
  BY <1>1, AckFirst DEF catch_up, snap, rul
<1>6. \A event \in {ack.event, snap.event, rul.event} :
        Truthful(event, latest_metrics_', alert_rules_')
  BY <1>1, <1>4 DEF Truthful, snapshot_event_to_json, rules_event_to_json
<1>7. EventsTruthful'
  BY <1>5, <1>6 DEF EventsTruthful
<1>8. ASSUME NEW fd \in LiveDashboards'
      PROVE  fd \in LiveDashboards \/ (fd = client.fd /\ registered_role = "Dashboard")
  <2>1. PICK i \in DOMAIN clients_' : clients_'[i].role = "Dashboard" /\ clients_'[i].fd = fd
    BY DEF LiveDashboards, Dashboards
  <2>2. CASE i = index
    BY <2>1, <2>2, <1>1, <1>2, <1>3, ClientAt
  <2>3. CASE i # index
    <3>1. i \in DOMAIN clients_ /\ clients_[i].role = "Dashboard" /\ clients_[i].fd = fd
      BY <2>1, <2>3, <1>1
    <3>2. Alive(fd)
      BY <1>1 DEF LiveDashboards, Alive
    <3>3. QED
      BY <3>1, <3>2 DEF LiveDashboards, Dashboards
  <2>4. QED
    BY <2>2, <2>3
<1>9. ASSUME NEW fd \in LiveDashboards'
      PROVE  RulesServed(fd)' /\ \A h \in Host \ {EmptyHost} : MetricServed(fd, h)'
  <2>1. CASE fd \in LiveDashboards
    BY <2>1, <1>1 DEF SubscribersServed, RulesServed, MetricServed
  <2>2. CASE fd = client.fd /\ registered_role = "Dashboard"
    <3>1. /\ Len(outbox') = 3 /\ outbox'[2] = snap /\ outbox'[3] = rul
          /\ 2 \in 1..Len(outbox') /\ 3 \in 1..Len(outbox')
      BY <2>2, <1>5
    <3>2. fd \in snap.to /\ fd \in rul.to
      BY <2>2, <1>4
    <3>3. rul.event.type = "rules" /\ snap.event.type = "snapshot"
      BY <1>4 DEF rules_event_to_json, snapshot_event_to_json
    <3>4. QED
      BY <3>1, <3>2, <3>3 DEF RulesServed, MetricServed, TellsMetric
  <2>3. QED
    BY <2>1, <2>2, <1>8
<1>10. QED
  BY <1>7, <1>9 DEF SubscribersServed

(* A metric is broadcast to the dashboards there are when it is stored.    *)
LEMMA MetricKeeps ==
  ASSUME TypeOK, ControlInv, EventsTruthful, SubscribersServed, handle_metrics
  PROVE  EventsTruthful' /\ SubscribersServed'
<1> DEFINE m == metric_of(line, client.declared_host)
           job == broadcast_to_dashboards(metric_event_to_json(m))
<1>1. /\ outbox = << >> /\ outbox' = <<job>>
      /\ latest_metrics_' = [latest_metrics_ EXCEPT ![m.host] = m]
      /\ UNCHANGED <<alert_rules_, mirror, peer>>
  BY DEF handle_metrics, Handling, sockets, history
<1>2. m \in MetricSnapshot /\ latest_metrics_ \in Metrics
  <2>1. line \in Line /\ line.type = "metrics" /\ client \in ClientConnection
    BY LineType, ClientType DEF handle_metrics, Handling
  <2>2. QED
    BY <2>1, MetricOfType DEF TypeOK, ClientConnection
<1>3. /\ job.event.type = "metric" /\ job.event.data = metric_data_to_json(m)
      /\ job.to = Dashboards
  BY DEF broadcast_to_dashboards, metric_event_to_json
<1> HIDE DEF m, job
<1>4. /\ m.host \in Host /\ metric_data_to_json(m).host = m.host
      /\ \A h \in Host : snapshot_items(latest_metrics_')[h] =
           IF h = m.host THEN metric_data_to_json(m) ELSE snapshot_items(latest_metrics_)[h]
  BY <1>1, <1>2, SnapshotUpdate
<1>5. Len(outbox') = 1 /\ outbox'[1] = job /\ 1 \in 1..Len(outbox') /\ \A k \in 1..Len(outbox') : k = 1
  BY <1>1
<1>6. EventsTruthful'
  <2>1. Truthful(job.event, latest_metrics_', alert_rules_')
    BY <1>3, <1>4 DEF Truthful
  <2>2. QED
    BY <2>1, <1>5 DEF EventsTruthful
<1>7. LiveDashboards' = LiveDashboards /\ LiveDashboards \subseteq Dashboards
  <2>1. SameRoles
    <3>1. Handling("metrics") /\ RemoveLine
      BY DEF handle_metrics
    <3>2. pc = "line"
      BY <3>1, LineType
    <3>3. ~accept_connection /\ ~disconnect_client /\ ~shutdown_all /\ ~handle_register
      BY <3>1, <3>2 DEF accept_connection, disconnect_client, shutdown_all, handle_register, Handling
    <3>4. QED
      BY <3>3, RolesKept DEF Next, ServerStep, HandlerStep
  <2>2. QED
    BY <2>1, <1>1, DashboardsKept DEF LiveDashboards, Alive
<1>8. ASSUME NEW fd \in LiveDashboards
      PROVE  RulesServed(fd)' /\ \A h \in Host \ {EmptyHost} : MetricServed(fd, h)'
  <2>1. /\ mirror[fd].rules = rule_items(alert_rules_)
        /\ \A h \in Host \ {EmptyHost} : mirror[fd].metrics[h] = snapshot_items(latest_metrics_)[h]
    BY <1>1 DEF SubscribersServed, RulesServed, MetricServed
  <2>2. RulesServed(fd)'
    BY <2>1, <1>1 DEF RulesServed
  <2>3. ASSUME NEW h \in Host \ {EmptyHost} PROVE MetricServed(fd, h)'
    <3>1. CASE h = m.host
      <4>1. TellsMetric(job.event, h) /\ fd \in job.to
        BY <3>1, <1>3, <1>4, <1>7 DEF TellsMetric
      <4>2. QED
        BY <4>1, <1>5 DEF MetricServed, TellsMetric
    <3>2. CASE h # m.host
      BY <3>2, <2>1, <1>1, <1>4 DEF MetricServed
    <3>3. QED
      BY <3>1, <3>2
  <2>4. QED
    BY <2>2, <2>3
<1>9. QED
  BY <1>6, <1>7, <1>8 DEF SubscribersServed

(* A new rule is announced to the dashboards there are when it is stored.  *)
LEMMA AlertKeeps ==
  ASSUME TypeOK, ControlInv, EventsTruthful, SubscribersServed, AlertAccepted
  PROVE  EventsTruthful' /\ SubscribersServed'
<1>1. PICK rule, note, news, ack :
        /\ alert_rules_' = Append(alert_rules_, rule)
        /\ outbox' = <<note, news, ack>>
        /\ note.event.type = "chat" /\ ack.event.type = "ack"
        /\ news = broadcast_to_dashboards(rules_event_to_json(Append(alert_rules_, rule)))
  <2>1. PICK rule, message :
          /\ alert_rules_' = Append(alert_rules_, rule)
          /\ outbox' = <<broadcast_to_dashboards(chat_event_to_json("system")),
                         broadcast_to_dashboards(rules_event_to_json(Append(alert_rules_, rule))),
                         Reply(ack_event_to_json(message))>>
    BY DEF AlertAccepted, rules_after
  <2>2. /\ broadcast_to_dashboards(chat_event_to_json("system")).event.type = "chat"
        /\ Reply(ack_event_to_json(message)).event.type = "ack"
    BY DEF broadcast_to_dashboards, Reply, chat_event_to_json, ack_event_to_json
  <2>3. QED
    BY <2>1, <2>2
<1>2. outbox = << >> /\ UNCHANGED <<latest_metrics_, mirror, peer>>
  BY DEF AlertAccepted, HandlingCommand, Handling, sockets, history
<1>3. /\ news.to = Dashboards /\ news.event.type = "rules"
      /\ news.event.items = rule_items(alert_rules_')
  BY <1>1 DEF broadcast_to_dashboards, rules_event_to_json
<1>4. /\ Len(outbox') = 3 /\ outbox'[1] = note /\ outbox'[2] = news /\ outbox'[3] = ack
      /\ \A k \in 1..Len(outbox') : k = 1 \/ k = 2 \/ k = 3
  BY <1>1
<1>5. EventsTruthful'
  <2>1. \A job \in {note, news, ack} : Truthful(job.event, latest_metrics_', alert_rules_')
    BY <1>1, <1>3 DEF Truthful
  <2>2. QED
    BY <2>1, <1>4 DEF EventsTruthful
<1>6. LiveDashboards' = LiveDashboards /\ LiveDashboards \subseteq Dashboards
  <2>1. Handling("command") /\ pc = "line"
    BY DEF AlertAccepted, HandlingCommand, Handling
  <2>2. ~accept_connection /\ ~disconnect_client /\ ~shutdown_all /\ ~handle_register
    BY <2>1 DEF accept_connection, disconnect_client, shutdown_all, handle_register, Handling
  <2>3. SameRoles
    BY <2>2, RolesKept DEF Next, ServerStep, HandlerStep
  <2>4. QED
    BY <2>3, <1>2, DashboardsKept DEF LiveDashboards, Alive
<1>7. ASSUME NEW fd \in LiveDashboards
      PROVE  RulesServed(fd)' /\ \A h \in Host \ {EmptyHost} : MetricServed(fd, h)'
  <2>1. \A h \in Host \ {EmptyHost} : mirror[fd].metrics[h] = snapshot_items(latest_metrics_)[h]
    BY <1>2 DEF SubscribersServed, MetricServed
  <2>2. 2 \in 1..Len(outbox') /\ fd \in outbox'[2].to /\ outbox'[2].event.type = "rules"
    BY <1>3, <1>4, <1>6
  <2>3. QED
    BY <2>1, <2>2, <1>2 DEF RulesServed, MetricServed
<1>8. QED
  BY <1>5, <1>6, <1>7 DEF SubscribersServed

(* An event sent updates the dashboard that reads it; the other events and *)
(* the other dashboards wait as before.                                    *)
LEMMA SendKeeps ==
  ASSUME TypeOK, ControlInv, EventsTruthful, SubscribersServed, send_line
  PROVE  EventsTruthful' /\ SubscribersServed'
<1>1. PICK i \in DOMAIN clients_ :
        /\ outbox' = [outbox EXCEPT ![1] = [outbox[1] EXCEPT !.to = outbox[1].to \ {clients_[i].fd}]]
        /\ \/ mirror' = [mirror EXCEPT ![clients_[i].fd] =
                           _handle_event(mirror[clients_[i].fd], outbox[1].event)]
           \/ ~Alive(clients_[i].fd) /\ mirror' = mirror
  BY DEF send_line
<1>2. PICK to : to = clients_[i].fd
  OBVIOUS
<1>3. /\ to \in FD /\ outbox \in Seq(Job) /\ Len(outbox) \in Nat /\ 1 \in 1..Len(outbox)
      /\ \A k \in 1..Len(outbox) : outbox[k] \in Job
  <2>1. outbox \in Seq(Job) /\ outbox # << >>
    BY DEF send_line, TypeOK
  <2>2. to \in FD
    BY <1>2, ClientAt
  <2>3. QED
    BY <2>1, <2>2, EmptySeq, LenProperties, ElementOfSeq
<1>4. UNCHANGED <<latest_metrics_, alert_rules_, clients_, peer>>
  BY DEF send_line, members
<1>5. /\ Len(outbox') = Len(outbox)
      /\ \A k \in 1..Len(outbox) :
           /\ outbox'[k].event = outbox[k].event
           /\ outbox'[k].to = IF k = 1 THEN outbox[k].to \ {to} ELSE outbox[k].to
  <2> DEFINE job == [outbox[1] EXCEPT !.to = outbox[1].to \ {to}]
  <2>1. job \in Job /\ job.to = outbox[1].to \ {to} /\ job.event = outbox[1].event
    BY <1>3 DEF Job
  <2>2. outbox' = [outbox EXCEPT ![1] = job]
    BY <1>1, <1>2
  <2> HIDE DEF job
  <2>3. Len(outbox') = Len(outbox) /\ \A k \in 1..Len(outbox) : outbox'[k] = IF k = 1 THEN job ELSE outbox[k]
    BY <1>3, <2>1, <2>2, ExceptSeq
  <2>4. QED
    BY <2>1, <2>3
<1>6. EventsTruthful'
  BY <1>4, <1>5 DEF EventsTruthful
<1>7. LiveDashboards' = LiveDashboards
  BY <1>4 DEF LiveDashboards, Dashboards, Alive
<1>8. \A fd \in FD : fd # to => mirror'[fd] = mirror[fd]
  BY <1>1, <1>2 DEF TypeOK
<1>9. ASSUME Alive(to)
      PROVE  /\ \A h \in Host \ {EmptyHost} :
                  mirror'[to].metrics[h] = IF TellsMetric(outbox[1].event, h)
                                           THEN snapshot_items(latest_metrics_)[h]
                                           ELSE mirror[to].metrics[h]
             /\ mirror'[to].rules = IF outbox[1].event.type = "rules" THEN rule_items(alert_rules_)
                                                                     ELSE mirror[to].rules
  <2>1. mirror'[to] = _handle_event(mirror[to], outbox[1].event) /\ mirror[to] \in View
    BY <1>1, <1>2, <1>3, <1>9 DEF TypeOK
  <2>2. outbox[1].event \in Event /\ Truthful(outbox[1].event, latest_metrics_, alert_rules_)
    BY <1>3 DEF Job, EventsTruthful
  <2>3. QED
    BY <2>1, <2>2, ReadsTruthful
<1>10. ASSUME NEW fd \in LiveDashboards PROVE RulesServed(fd)'
  <2>1. fd \in FD /\ RulesServed(fd) /\ Alive(fd)
    BY ClientFdsType DEF SubscribersServed, LiveDashboards
  <2>2. CASE mirror[fd].rules = rule_items(alert_rules_)
    <3>1. mirror'[fd].rules = rule_items(alert_rules_)
      BY <2>1, <2>2, <1>8, <1>9
    <3>2. QED
      BY <3>1, <1>4 DEF RulesServed
  <2>3. ASSUME NEW k \in 1..Len(outbox), fd \in outbox[k].to, outbox[k].event.type = "rules"
        PROVE  RulesServed(fd)'
    <3>1. CASE k = 1 /\ fd = to
      BY <3>1, <2>1, <2>3, <1>4, <1>9 DEF RulesServed
    <3>2. CASE k # 1 \/ fd # to
      BY <3>2, <2>3, <1>5 DEF RulesServed
    <3>3. QED
      BY <3>1, <3>2
  <2>4. QED
    BY <2>1, <2>2, <2>3 DEF RulesServed
<1>11. ASSUME NEW fd \in LiveDashboards, NEW h \in Host \ {EmptyHost} PROVE MetricServed(fd, h)'
  <2>1. fd \in FD /\ MetricServed(fd, h) /\ Alive(fd)
    BY ClientFdsType DEF SubscribersServed, LiveDashboards
  <2>2. CASE mirror[fd].metrics[h] = snapshot_items(latest_metrics_)[h]
    <3>1. mirror'[fd].metrics[h] = snapshot_items(latest_metrics_)[h]
      BY <2>1, <2>2, <1>8, <1>9
    <3>2. QED
      BY <3>1, <1>4 DEF MetricServed
  <2>3. ASSUME NEW k \in 1..Len(outbox), fd \in outbox[k].to, TellsMetric(outbox[k].event, h)
        PROVE  MetricServed(fd, h)'
    <3>1. CASE k = 1 /\ fd = to
      BY <3>1, <2>1, <2>3, <1>4, <1>9 DEF MetricServed
    <3>2. CASE k # 1 \/ fd # to
      BY <3>2, <2>3, <1>5 DEF MetricServed, TellsMetric
    <3>3. QED
      BY <3>1, <3>2
  <2>4. QED
    BY <2>1, <2>2, <2>3 DEF MetricServed
<1>12. QED
  BY <1>6, <1>7, <1>10, <1>11 DEF SubscribersServed

(* An event everyone has been sent is forgotten.                           *)
LEMMA SendDoneKeeps ==
  ASSUME TypeOK, EventsTruthful, SubscribersServed, SendDone
  PROVE  EventsTruthful' /\ SubscribersServed'
<1>1. /\ outbox \in Seq(Job) /\ outbox # << >> /\ outbox[1].to = {} /\ outbox' = Tail(outbox)
      /\ UNCHANGED <<latest_metrics_, alert_rules_, clients_, peer, mirror>>
  BY DEF SendDone, TypeOK, members, sockets, history
<1>2. /\ Len(outbox) \in Nat \ {0} /\ Len(outbox') = Len(outbox) - 1
      /\ \A k \in 1..Len(outbox') : outbox'[k] = outbox[k + 1]
  <2>1. Len(outbox) \in Nat \ {0}
    BY <1>1, EmptySeq
  <2>2. QED
    BY <1>1, <2>1, HeadTailProperties
<1>3. \A k \in 1..Len(outbox') : k + 1 \in 1..Len(outbox)
  BY <1>2
<1>4. \A k \in 1..Len(outbox) : k # 1 => k - 1 \in 1..Len(outbox') /\ outbox'[k - 1] = outbox[k]
  BY <1>2
<1>5. EventsTruthful'
  BY <1>1, <1>2, <1>3 DEF EventsTruthful
<1>6. LiveDashboards' = LiveDashboards
  BY <1>1 DEF LiveDashboards, Dashboards, Alive
<1>7. \A k \in 1..Len(outbox) : \A fd : fd \in outbox[k].to => k # 1
  BY <1>1
<1>8. ASSUME NEW fd \in LiveDashboards PROVE RulesServed(fd)'
  <2>1. CASE mirror[fd].rules = rule_items(alert_rules_)
    BY <2>1, <1>1 DEF RulesServed
  <2>2. ASSUME NEW k \in 1..Len(outbox), fd \in outbox[k].to, outbox[k].event.type = "rules"
        PROVE  RulesServed(fd)'
    BY <2>2, <1>4, <1>7 DEF RulesServed
  <2>3. QED
    BY <2>1, <2>2 DEF SubscribersServed, RulesServed
<1>9. ASSUME NEW fd \in LiveDashboards, NEW h \in Host \ {EmptyHost} PROVE MetricServed(fd, h)'
  <2>1. CASE mirror[fd].metrics[h] = snapshot_items(latest_metrics_)[h]
    BY <2>1, <1>1 DEF MetricServed
  <2>2. ASSUME NEW k \in 1..Len(outbox), fd \in outbox[k].to, TellsMetric(outbox[k].event, h)
        PROVE  MetricServed(fd, h)'
    BY <2>2, <1>4, <1>7 DEF MetricServed, TellsMetric
  <2>3. QED
    BY <2>1, <2>2 DEF SubscribersServed, MetricServed
<1>10. QED
  BY <1>5, <1>6, <1>8, <1>9 DEF SubscribersServed

LEMMA StepSubscribers ==
  TypeOK /\ ControlInv /\ ClientsOwnSockets /\ EventsTruthful /\ SubscribersServed /\ [Next]_vars
    => EventsTruthful' /\ SubscribersServed'
<1> SUFFICES ASSUME TypeOK, ControlInv, ClientsOwnSockets, EventsTruthful, SubscribersServed, [Next]_vars
             PROVE  EventsTruthful' /\ SubscribersServed'
  OBVIOUS
<1>1. QED
  BY StepKinds, QuietKeeps, RegisterKeeps, MetricKeeps, AlertKeeps, SendKeeps, SendDoneKeeps

(* Between two lines every registered dashboard that is still there has    *)
(* been sent the server's metrics and rules, whenever it joined.           *)
THEOREM DashboardsUpToDate == Spec => []SubscribersUpToDate
<1>1. Init => EventsTruthful /\ SubscribersServed
  BY DEF Init, EventsTruthful, SubscribersServed, LiveDashboards, Dashboards
<1>2. TypeOK /\ ControlInv /\ ClientsOwnSockets /\ EventsTruthful /\ SubscribersServed /\ [Next]_vars
        => EventsTruthful' /\ SubscribersServed'
  BY StepSubscribers
<1>3. SubscribersServed => SubscribersUpToDate
  BY DEF SubscribersServed, SubscribersUpToDate, LiveDashboards, RulesServed, MetricServed
<1>4. QED
  BY <1>1, <1>2, <1>3, AlwaysTyped, SocketsOwned, PTL DEF Spec
=============================================================================
