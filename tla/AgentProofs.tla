---------------------------- MODULE AgentProofs ----------------------------
(* The agent's sockets, for every number of faults and either platform.    *)
EXTENDS Agent, TLAPS

(* Which handles main() may hold where it does not use them: without this  *)
(* the close behind the inner loop might be a second one.                  *)
HandleInv ==
  /\ pc \in {"outer", "wait"} => socket_fd # "open"
  /\ pc = "leave" => socket_fd # "closed"

AgentInv == TypeOK /\ SocketsBalanced /\ HandleInv

LEMMA InitAgent == Init => AgentInv
<1> SUFFICES ASSUME Init PROVE AgentInv
  OBVIOUS
<1>1. TypeOK
  <2>1. g_running \in BOOLEAN /\ reported \in BOOLEAN /\ server \in {"up", "down"} /\ link \in Link
           /\ sigpipe \in SigPipe
    BY DEF Init, Link
  <2>2. open_sockets \in 0..1 /\ faults \in 0..MaxFaults
    BY AgentAssumption DEF Init
  <2>3. QED
    BY <2>1, <2>2 DEF Init, TypeOK
<1>2. SocketsBalanced /\ HandleInv
  BY DEF Init, SocketsBalanced, HandleInv
<1>3. QED
  BY <1>1, <1>2 DEF AgentInv

LEMMA StepAgent == AgentInv /\ [Next]_vars => AgentInv'
<1> SUFFICES ASSUME AgentInv, [Next]_vars PROVE AgentInv'
  OBVIOUS
<1> USE AgentAssumption DEF AgentInv, TypeOK, SocketsBalanced, HandleInv, Link
<1>1. CASE signal_handler
  BY <1>1 DEF signal_handler
<1>2. CASE ServerCloses
  BY <1>2 DEF ServerCloses, Fault
<1>3. CASE ServerStarts
  BY <1>3 DEF ServerStarts
<1>4. CASE ServerStalls
  BY <1>4 DEF ServerStalls, Fault
<1>5. CASE ServerReads
  BY <1>5 DEF ServerReads
<1>6. CASE LoopTest
  BY <1>6 DEF LoopTest
<1>7. CASE connect_to_server
  BY <1>7 DEF connect_to_server
<1>8. CASE ConnectFails
  BY <1>8 DEF ConnectFails, Fault
<1>9. CASE RegisterSent
  BY <1>9 DEF RegisterSent, Accepts, AfterSend
<1>10. CASE RegisterFails
  BY <1>10 DEF RegisterFails, closed_on_failure
<1>11. CASE Wait
  BY <1>11 DEF Wait
<1>12. CASE InnerTest
  BY <1>12 DEF InnerTest, inner_loop
<1>13. CASE Interval
  BY <1>13 DEF Interval
<1>14. CASE MetricsSent
  BY <1>14 DEF MetricsSent, Accepts, AfterSend
<1>15. CASE MetricsFail
  BY <1>15 DEF MetricsFail, handle_after_close, after_disconnect
<1>16. CASE Leave
  BY <1>16 DEF Leave
<1>17. CASE KilledBySigPipe
  BY <1>17 DEF KilledBySigPipe
<1>18. CASE UNCHANGED vars
  BY <1>18 DEF vars
<1>19. QED
  BY <1>1, <1>2, <1>3, <1>4, <1>5, <1>6, <1>7, <1>8, <1>9, <1>10, <1>11, <1>12, <1>13, <1>14,
     <1>15, <1>16, <1>17, <1>18
     DEF Next, AgentStep, Ended

(* However the environment and the agent interleave, every variable keeps  *)
(* its type; the number of sockets, which connect_to_server raises and     *)
(* three paths lower, stays 0 or 1.                                        *)
THEOREM AgentTypes == Spec => []TypeOK
<1>1. AgentInv => TypeOK
  BY DEF AgentInv
<1>2. QED
  BY <1>1, InitAgent, StepAgent, PTL DEF Spec

(* Whatever fails and however often the agent reconnects, it closes each   *)
(* socket exactly once.                                                    *)
THEOREM AgentSockets == Spec => []SocketsBalanced
<1>1. AgentInv => SocketsBalanced
  BY DEF AgentInv
<1>2. QED
  BY <1>1, InitAgent, StepAgent, PTL DEF Spec
=============================================================================
