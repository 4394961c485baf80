----------------------------- MODULE Collector -----------------------------
(***************************************************************************)
(* The metric collectors of cpp/include/metrics.hpp and the variables      *)
(* main() of cpp/client/main.cpp keeps for them between two reports.  The  *)
(* kernel counts work and traffic, and interfaces come and go with their   *)
(* counters; collect_metrics takes differences of unsigned numbers.  A     *)
(* percentage is its numerator and denominator, a throughput the bytes and *)
(* the time it divides; the factors 100 and 1024, the megabyte fields and  *)
(* the time stamp are left out.                                            *)
(***************************************************************************)
EXTENDS Integers, FiniteSets

CONSTANTS
  Platform,      \* the builds considered: "windows", "apple", "linux"
  Interface, Loopback,
  W,             \* how many values an unsigned long long has
  NarrowW,       \* how many values a 32-bit counter has
  Unreadable,    \* the sources a read may fail on
  Total, Available,   \* amounts of memory and disk
  Seconds,       \* the time between two reports
  Initial,       \* what a counter may show when the agent starts
  MaxCount,      \* bound of every counter
  MaxWork,       \* ticks and counted bytes between two reports
  MaxReports

Source == {"cpu", "memory", "disk", "net"}

ASSUME CollectorAssumption ==
  /\ Platform \subseteq {"windows", "apple", "linux"}
  /\ Unreadable \subseteq Source
  /\ Loopback \in Interface /\ IsFiniteSet(Interface)
  /\ Total \cup Available \subseteq 0..(W - 1) /\ Seconds \subseteq Nat \ {0} /\ Initial \subseteq 0..MaxCount
  /\ MaxCount \in Nat /\ MaxWork \in Nat /\ MaxReports \in Nat
  /\ NarrowW \in Nat \ {0} /\ W \in Nat /\ NarrowW < W
  \* 2^64 ticks or bytes are never reached, by one counter or all together
  /\ 2 * MaxCount < W /\ Cardinality(Interface) * MaxCount < W

VARIABLES
  platform,        \* which build this is; never changes
  cpu,             \* the kernel's counters of idle and busy time
  present,         \* the interfaces there are
  interfaces,      \* the kernel's counters of each interface
  previous_cpu, previous_net,
  metric,          \* the latest MetricSnapshot
  since,           \* history: what happened since the previous sample, and the
                   \* sources of which a counter went back: it came round, or
                   \* its interface vanished
  last,            \* history: what happened in the interval metric is about,
                   \* the sources read at its end, and those of which the
                   \* sample at its beginning showed anything at all
  reports

kernel == <<platform, cpu, present, interfaces>>
agent == <<previous_cpu, previous_net, metric, last, reports>>
vars == <<kernel, agent, since>>

NoWork == [idle |-> 0, busy |-> 0, rx |-> 0, tx |-> 0, back |-> {}]
NoMetric == [cpu    |-> <<0, 1>>, memory |-> <<0, 1>>, disk |-> <<0, 1>>,
             rx     |-> <<0, 1>>, tx     |-> <<0, 1>>]
NoCpu == [idle |-> 0, total |-> 0]
NoNet == [rx_bytes |-> 0, tx_bytes |-> 0]

(* Difference of two numbers of type unsigned long long.                   *)
minus(a, b) == IF a >= b THEN a - b ELSE a - b + W

(* GetSystemTimes, host_statistics, /proc/stat.  Time waiting for I/O is   *)
(* idle time; the total is everything.  A failed read leaves zeros.        *)
read_cpu_sample(read) ==
  IF "cpu" \in read THEN [idle |-> cpu.idle, total |-> cpu.idle + cpu.busy] ELSE NoCpu

counted_interfaces == present \ {Loopback}

(* The octets the counters stand for, <<i, n>> being the nth of interface  *)
(* i: there are as many as the counters add up to.                         *)
Octets(counter) == UNION {{i} \X (1..counter[i]) : i \in counted_interfaces}

received == Cardinality(Octets([i \in Interface |-> interfaces[i].rx]))
transmitted == Cardinality(Octets([i \in Interface |-> interfaces[i].tx]))

(* GetIfTable, getifaddrs, /proc/net/dev.                                  *)
read_net_sample(read) ==
  IF "net" \in read THEN [rx_bytes |-> received, tx_bytes |-> transmitted] ELSE NoNet

Reads == {Source \ failed : failed \in SUBSET Unreadable}

(* cpu_ticks of macOS, and the octet counters of macOS and Windows, have   *)
(* 32 bits and come round; the others have 64.                             *)
NarrowTicks == platform = "apple"
NarrowOctets == platform # "linux"

Start(narrow) == {n \in Initial : narrow => n < NarrowW}

(* The samples main() takes before its loop.                               *)
Init ==
  /\ platform \in Platform
  /\ cpu \in [idle : Start(NarrowTicks), busy : Start(NarrowTicks)]
  /\ present \in {there \in SUBSET Interface : Loopback \in there}
  /\ \E rx \in [present -> Start(NarrowOctets)] :
       interfaces = [i \in Interface |-> [rx |-> IF i \in present THEN rx[i] ELSE 0, tx |-> 0]]
  /\ \E read \in Reads :
       /\ previous_cpu = read_cpu_sample(read)
       /\ previous_net = read_net_sample(read)
       /\ last = [work |-> NoWork, read |-> read, base |-> {}]
  /\ metric = NoMetric
  /\ since = NoWork
  /\ reports = 0

-----------------------------------------------------------------------------
(* The kernel.                                                             *)

ComesRound(counter, narrow) == narrow /\ counter + 1 = NarrowW

Add(counter, narrow) == IF ComesRound(counter, narrow) THEN 0 ELSE counter + 1

Happened(kind, went_back) ==
  since' = [since EXCEPT ![kind] = since[kind] + 1, !.back = since.back \cup went_back]

(* Nothing after the last report shows in any.                             *)
More == reports < MaxReports

MoreWork == More /\ since.idle + since.busy + since.rx + since.tx < MaxWork

Work(kind) ==
  /\ MoreWork /\ cpu[kind] < MaxCount
  /\ cpu' = [cpu EXCEPT ![kind] = Add(@, NarrowTicks)]
  /\ Happened(kind, IF ComesRound(cpu[kind], NarrowTicks) THEN {"cpu"} ELSE {})
  /\ UNCHANGED <<platform, present, interfaces, agent>>

Traffic(i, way) ==
  /\ i \in present
  /\ MoreWork /\ interfaces[i][way] < MaxCount
  /\ interfaces' = [interfaces EXCEPT ![i][way] = Add(@, NarrowOctets)]
  /\ IF i = Loopback
     THEN UNCHANGED since
     ELSE Happened(way, IF ComesRound(interfaces[i][way], NarrowOctets) THEN {"net"} ELSE {})
  /\ UNCHANGED <<platform, cpu, present, agent>>

(* A device, a tunnel or the interface of a container comes and goes; its  *)
(* counters start at zero.                                                 *)
Appears(i) ==
  /\ More /\ i \notin present
  /\ present' = present \cup {i}
  /\ UNCHANGED <<platform, cpu, interfaces, agent, since>>

Vanishes(i) ==
  /\ More /\ i \in counted_interfaces
  /\ present' = present \ {i}
  /\ interfaces' = [interfaces EXCEPT ![i] = [rx |-> 0, tx |-> 0]]
  /\ since' = [since EXCEPT !.back = @ \cup {"net"}]
  /\ UNCHANGED <<platform, cpu, agent>>

-----------------------------------------------------------------------------
(* The agent.                                                              *)

(* What the system says of memory and disk.  More may be available than    *)
(* there is only where the code provides for it.                           *)
Sizes == {size \in [total : Total, available : Available] : size.available <= size.total}

MemorySizes == IF platform = "apple" THEN [total : Total, available : Available] ELSE Sizes

(* Mutant: the difference is taken without the comparison.                 *)
used_unchecked(size) == minus(size.total, size.available)

used_memory(size) ==
  IF platform = "apple" /\ size.total <= size.available
  THEN 0
  ELSE minus(size.total, size.available)

used_disk(size) == minus(size.total, size.available)

(* A field keeps its zero if its source cannot be read or is empty.        *)
percent(used, total) == IF total > 0 THEN <<used, total>> ELSE <<0, 1>>

cpu_percent(current) ==
  LET total_delta == minus(current.total, previous_cpu.total)
      idle_delta == minus(current.idle, previous_cpu.idle)
  IN  IF previous_cpu.total # 0 /\ total_delta > 0
      THEN <<minus(total_delta, idle_delta), total_delta>>
      ELSE <<0, 1>>

(* Mutant: throughput is computed against whatever the previous sample is. *)
any_baseline(elapsed) == elapsed > 0

has_baseline(elapsed) == previous_net.rx_bytes # 0 /\ elapsed > 0

kbps(current, previous, elapsed) ==
  IF has_baseline(elapsed) THEN <<minus(current, previous), elapsed>> ELSE <<0, 1>>

collect_metrics(read, memory, disk, elapsed) ==
  /\ More
  /\ LET current_cpu == read_cpu_sample(read)
         current_net == read_net_sample(read)
     IN  /\ metric' =
              [cpu    |-> cpu_percent(current_cpu),
               memory |-> IF "memory" \in read THEN percent(used_memory(memory), memory.total)
                                               ELSE <<0, 1>>,
               disk   |-> IF "disk" \in read THEN percent(used_disk(disk), disk.total)
                                             ELSE <<0, 1>>,
               rx     |-> kbps(current_net.rx_bytes, previous_net.rx_bytes, elapsed),
               tx     |-> kbps(current_net.tx_bytes, previous_net.tx_bytes, elapsed)]
         /\ previous_cpu' = current_cpu
         /\ previous_net' = current_net
  /\ last' = [work |-> since, read |-> read,
              base |-> {source \in {"cpu", "net"} :
                          IF source = "cpu" THEN previous_cpu.total > 0 ELSE previous_net.rx_bytes > 0}]
  /\ since' = NoWork
  /\ reports' = reports + 1
  /\ UNCHANGED kernel

Next ==
  \/ \E kind \in {"idle", "busy"} : Work(kind)
  \/ \E i \in Interface, way \in {"rx", "tx"} : Traffic(i, way)
  \/ \E i \in Interface : Appears(i) \/ Vanishes(i)
  \/ \E read \in Reads, memory \in MemorySizes, disk \in Sizes, elapsed \in Seconds :
       collect_metrics(read, memory, disk, elapsed)

Spec == Init /\ [][Next]_vars

-----------------------------------------------------------------------------
InRange(ratio) == ratio[1] \in Nat /\ ratio[2] \in Nat \ {0} /\ ratio[1] <= ratio[2]

(* The sources a report can be held to: they could be read at its end, and *)
(* none of their counters went back in its interval.                       *)
Sound == last.read \ last.work.back

(* Whatever was read or failed to be read before, and whatever the system  *)
(* says is free, the share of memory in use lies between 0 and 100, and    *)
(* that of busy time does if it could be read and no counter came round.   *)
(* (A report whose own read fails after one that did not is outside:       *)
(* zero minus the baseline wraps, and it shows a load above 100.)          *)
PercentagesInRange ==
  /\ "cpu" \in Sound => InRange(metric.cpu)
  /\ InRange(metric.memory)

(* A report whose sources could be read, and of which no counter went back *)
(* in the interval, is about the time since the previous sample: exactly   *)
(* that if the previous sample showed anything, and otherwise, after a     *)
(* read that failed or on a host that had not received a byte, never more. *)
(* So a failed read, a counter that comes round and an interface that      *)
(* vanishes each spoil one report, by a difference that wraps, and no      *)
(* later one.                                                              *)
ReportsLastInterval ==
  LET shown == metric.cpu[1] * (last.work.idle + last.work.busy)
      happened == last.work.busy * metric.cpu[2]
  IN
  /\ "cpu" \in Sound => shown <= happened
  /\ "cpu" \in Sound \cap last.base => shown = happened
  /\ "net" \in Sound =>
       metric.rx[1] <= last.work.rx /\ metric.tx[1] <= last.work.tx
  /\ "net" \in Sound \cap last.base =>
       metric.rx[1] = last.work.rx /\ metric.tx[1] = last.work.tx
=============================================================================
