-------------------------- MODULE MCMonitorServer --------------------------
(* The lines peers send in the runs of MonitorServer.                      *)
EXTENDS MonitorServer

CONSTANTS web1,    \* the host name agents report
          addr,    \* the peer label of every connection
          plain, spaced   \* two spellings of a command

MCHost == {EmptyHost, web1, addr}
MCPeerLabel == {addr}
MCSpelling == {plain, spaced}

(* 50.004 is above a threshold of 50 but is shown as 50.00.                *)
MCLevel == {0, 50000, 50004}

Register(role, host) == [type |-> "register", role |-> role, host |-> host]
Measured(host, values) == [type |-> "metrics", host |-> host, values |-> values]
Alert(token, comparison, spelling, padded) ==
  [type |-> "command",
   text |-> [word |-> "/alert", token |-> token, comparison |-> comparison,
             threshold |-> 50000, spelling |-> spelling, padded |-> padded]]
Command(word) == [type |-> "command", text |-> [word |-> word]]

Cpu(value) == [key \in {"cpu_percent"} |-> value]
Nothing == [key \in {} |-> 0]

(* Reports of two hosts above and below a threshold, one rule in two       *)
(* spellings.                                                              *)
AlertLines ==
  {Register("agent", web1),
   Measured(None, Cpu(50004)), Measured(None, Nothing), Measured(addr, Cpu(50004)),
   Alert("cpu", ">", plain, FALSE), Alert("cpu", ">", spaced, TRUE)}

(* An agent, dashboards that join, leave and join again.                   *)
DashboardLines ==
  {Register("agent", None), Register("dashboard", None),
   Measured(web1, Cpu(50004)), Alert("mem", ">", plain, FALSE)}

(* Every kind of line there is.                                            *)
AllLines ==
  {Register("agent", web1), Register("dashboard", web1), Register("other", None),
   Measured(None, Cpu(50004)), Measured(EmptyHost, Nothing),
   Alert("unknown", ">", plain, FALSE), Alert("network_tx", "<", plain, FALSE),
   Command("/listalerts"), Command("/clients"), Command("other"),
   [type |-> "chat", from |-> None], [type |-> "chat", from |-> web1],
   [type |-> "blank"], [type |-> "unsupported"]}

FDSymmetry == Permutations(FD)
=============================================================================
