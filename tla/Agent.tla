------------------------------- MODULE Agent -------------------------------
(***************************************************************************)
(* The monitoring agent of cpp/client/main.cpp: it connects, registers,    *)
(* sends a metrics line after every interval and, when sending fails,      *)
(* closes its socket and tries again.  The agent never reads, so it learns *)
(* that the server has gone only from a failing send().                    *)
(***************************************************************************)
EXTENDS Naturals

CONSTANTS
  SigPipe,     \* the builds: TRUE for POSIX, where send() on a closed connection
               \* raises SIGPIPE, whose default action the agent leaves in place
  MaxFaults    \* server stops, stalls, resets and failed lookups in a behaviour

ASSUME AgentAssumption == SigPipe \subseteq BOOLEAN /\ MaxFaults \in Nat

VARIABLES
  sigpipe,       \* the build the agent is, fixed for its life
  g_running,
  pc,            \* where main() and connect_to_server() are
  socket_fd,     \* the handle: invalid, an open socket or one already closed
  open_sockets,  \* descriptors the process holds
  link,          \* the connection behind the handle, as send() will find it
  server,        \* whether the server listens
  reported,      \* the line sent before this interval reached the server
  faults

vars == <<sigpipe, g_running, pc, socket_fd, open_sockets, link, server, reported, faults>>

(* "full": the server does not read and send() has to wait.  "fin": the    *)
(* server closed it.  "pipe": it has also answered a line that came too    *)
(* late with a reset.  "rst": it was reset before any close.               *)
Link == {"none", "up", "full", "fin", "pipe", "rst"}

TypeOK ==
  /\ sigpipe \in SigPipe
  /\ g_running \in BOOLEAN
  /\ pc \in {"outer", "connect", "register", "inner", "interval", "send",
             "leave", "wait", "exited", "killed"}
  /\ socket_fd \in {"invalid", "open", "closed"}
  /\ open_sockets \in 0..1
  /\ link \in Link
  /\ server \in {"up", "down"}
  /\ reported \in BOOLEAN
  /\ faults \in 0..MaxFaults

Init ==
  /\ sigpipe \in SigPipe
  /\ g_running = TRUE
  /\ pc = "outer"
  /\ socket_fd = "invalid"
  /\ open_sockets = 0
  /\ link = "none"
  /\ server \in {"up", "down"}
  /\ reported = FALSE
  /\ faults = 0

-----------------------------------------------------------------------------
(* The environment.                                                        *)

signal_handler ==
  /\ g_running
  /\ g_running' = FALSE
  /\ UNCHANGED <<sigpipe, pc, socket_fd, open_sockets, link, server, reported, faults>>

Fault == faults < MaxFaults /\ faults' = faults + 1

(* The server exits, or only drops this connection; the system closes the  *)
(* socket with a reset if lines were left unread.                          *)
ServerCloses ==
  /\ Fault
  /\ server' \in {server, "down"}
  /\ link' \in IF link \in {"up", "full"} THEN {"fin", "rst"} ELSE {link}
  /\ UNCHANGED <<sigpipe, g_running, pc, socket_fd, open_sockets, reported>>

(* The server's thread is held up elsewhere; the lines sent fill the       *)
(* buffers.  The line that registers always fits.                          *)
ServerStalls ==
  /\ Fault
  /\ link = "up" /\ pc # "register"
  /\ link' = "full"
  /\ UNCHANGED <<sigpipe, g_running, pc, socket_fd, open_sockets, server, reported>>

ServerReads ==
  /\ link = "full"
  /\ link' = "up"
  /\ UNCHANGED <<sigpipe, g_running, pc, socket_fd, open_sockets, server, reported, faults>>

ServerStarts ==
  /\ server = "down"
  /\ server' = "up"
  /\ UNCHANGED <<sigpipe, g_running, pc, socket_fd, open_sockets, link, reported, faults>>

-----------------------------------------------------------------------------
(* The agent.                                                              *)

LoopTest ==
  /\ pc = "outer"
  /\ pc' = IF g_running THEN "connect" ELSE "exited"
  /\ socket_fd' = "invalid"
  /\ UNCHANGED <<sigpipe, g_running, open_sockets, link, server, reported, faults>>

(* socket() and connect() succeed.                                         *)
connect_to_server ==
  /\ pc = "connect" /\ server = "up"
  /\ socket_fd' = "open"
  /\ open_sockets' = open_sockets + 1
  /\ link' = "up"
  /\ pc' = "register"
  /\ UNCHANGED <<sigpipe, g_running, server, reported, faults>>

(* No socket, no address, or nobody listens: whatever was opened is closed *)
(* again and the handle is invalid.                                        *)
ConnectFails ==
  /\ pc = "connect"
  /\ (server = "down" /\ UNCHANGED faults) \/ Fault
  /\ pc' = "wait"
  /\ UNCHANGED <<sigpipe, g_running, socket_fd, open_sockets, link, server, reported>>

(* send() accepts a line also for a peer that has closed.                  *)
Accepts(l) == l \in {"up", "fin"}
Refuses(l) == l \in {"pipe", "rst"}
AfterSend(l) == IF l = "fin" THEN "pipe" ELSE l
Killed(l) == l = "pipe" /\ sigpipe

RegisterSent ==
  /\ pc = "register" /\ Accepts(link)
  /\ link' = AfterSend(link)
  /\ pc' = "inner"
  /\ UNCHANGED <<sigpipe, g_running, socket_fd, open_sockets, server, reported, faults>>

(* Mutant: connect_to_server returns false without closing the socket.     *)
left_open == open_sockets

closed_on_failure == open_sockets - 1

RegisterFails ==
  /\ pc = "register" /\ Refuses(link) /\ ~Killed(link)
  /\ socket_fd' = "closed"
  /\ open_sockets' = closed_on_failure
  /\ link' = "none"
  /\ pc' = "wait"
  /\ UNCHANGED <<sigpipe, g_running, server, reported, faults>>

(* sleep_seconds(3) or sleep_seconds(2) before the next attempt.           *)
Wait ==
  /\ pc = "wait"
  /\ pc' = "outer"
  /\ UNCHANGED <<sigpipe, g_running, socket_fd, open_sockets, link, server, reported, faults>>

(* Mutant: the inner loop does not look at g_running.                      *)
report_forever == "interval"

inner_loop == IF g_running THEN "interval" ELSE "leave"

InnerTest ==
  /\ pc = "inner"
  /\ pc' = inner_loop
  /\ UNCHANGED <<sigpipe, g_running, socket_fd, open_sockets, link, server, reported, faults>>

Interval ==
  /\ pc = "interval"
  /\ reported' = FALSE
  /\ pc' = "send"
  /\ UNCHANGED <<sigpipe, g_running, socket_fd, open_sockets, link, server, faults>>

MetricsSent ==
  /\ pc = "send" /\ Accepts(link)
  /\ reported' = (link = "up")
  /\ link' = AfterSend(link)
  /\ pc' = "inner"
  /\ UNCHANGED <<sigpipe, g_running, socket_fd, open_sockets, server, faults>>

(* Mutant: the handle keeps its value after the close.                     *)
handle_kept == socket_fd

handle_after_close == "invalid"

(* Mutant: the agent gives up instead of trying again.                     *)
give_up == "exited"

after_disconnect == "leave"

MetricsFail ==
  /\ pc = "send" /\ Refuses(link) /\ ~Killed(link)
  /\ open_sockets' = open_sockets - 1
  /\ socket_fd' = handle_after_close
  /\ link' = "none"
  /\ pc' = after_disconnect
  /\ UNCHANGED <<sigpipe, g_running, server, reported, faults>>

(* Behind the inner loop: close a socket that is still valid; sleep before *)
(* the next attempt unless a signal came.                                  *)
Leave ==
  /\ pc = "leave"
  /\ IF socket_fd # "invalid"
     THEN open_sockets' = open_sockets - 1 /\ socket_fd' = "closed" /\ link' = "none"
     ELSE UNCHANGED <<open_sockets, socket_fd, link>>
  /\ pc' = IF g_running THEN "wait" ELSE "outer"
  /\ UNCHANGED <<sigpipe, g_running, server, reported, faults>>

(* SIGPIPE ends the process in the middle of send().                       *)
KilledBySigPipe ==
  /\ pc \in {"register", "send"} /\ Killed(link)
  /\ pc' = "killed"
  /\ open_sockets' = 0
  /\ UNCHANGED <<sigpipe, g_running, socket_fd, link, server, reported, faults>>

Ended == pc \in {"exited", "killed"} /\ UNCHANGED vars

AgentStep ==
  \/ LoopTest \/ connect_to_server \/ ConnectFails \/ RegisterSent \/ RegisterFails
  \/ Wait \/ InnerTest \/ Interval \/ MetricsSent \/ MetricsFail \/ Leave \/ KilledBySigPipe

Next ==
  \/ AgentStep \/ signal_handler \/ Ended
  \/ ServerCloses \/ ServerStarts \/ ServerStalls \/ ServerReads

Spec == Init /\ [][Next]_vars

(* The agent is scheduled and its sleeps end; a server that is up goes on  *)
(* reading, which LinesHandled of MonitorServer says it does.              *)
FairSpec == Spec /\ WF_vars(AgentStep) /\ WF_vars(ServerReads)

-----------------------------------------------------------------------------
(* Every socket is closed exactly once, on whichever of the paths out of   *)
(* connect_to_server and main's loops it leaves; the handle shows as valid *)
(* to main exactly while the descriptor is open.                           *)
SocketsBalanced ==
  /\ open_sockets = IF socket_fd = "open" /\ pc # "killed" THEN 1 ELSE 0
  /\ pc \in {"register", "inner", "interval", "send"} => socket_fd = "open"
  /\ pc \in {"connect", "exited"} => socket_fd = "invalid"

(* "Disconnected from server, retrying": losing the server never ends the  *)
(* agent.                                                                  *)
RetriesWhenDisconnected == pc # "killed"

(* However often the connection breaks, if the server stays up from some   *)
(* point on and nobody stops the agent, reports reach the server again,    *)
(* except from an agent that SIGPIPE killed.                               *)
ResumesReporting ==
  <>[](server = "up" /\ g_running) => []<>reported \/ <>(pc = "killed")

(* SIGINT or SIGTERM ends the agent, in whichever loop, sleep or send() it *)
(* is.                                                                     *)
StopsOnSignal == ~g_running ~> pc \in {"exited", "killed"}
=============================================================================
