-------------------------- MODULE CollectorProofs --------------------------
(* Percentages and what a report is about, for every platform, any number  *)
(* of interfaces and any width of the counters.                            *)
EXTENDS Collector, FiniteSetTheorems, TLAPS

CounterType ==
  /\ cpu \in [idle : Nat, busy : Nat]
  /\ present \subseteq Interface
  /\ interfaces \in [Interface -> [rx : Nat, tx : Nat]]
  /\ \A i \in Interface \ present : interfaces[i].rx = 0 /\ interfaces[i].tx = 0
  /\ since \in [idle : Nat, busy : Nat, rx : Nat, tx : Nat, back : SUBSET Source]
  /\ previous_cpu \in [idle : Nat, total : Nat]
  /\ previous_net \in [rx_bytes : Nat, tx_bytes : Nat]

(* What was counted since the previous sample is the difference to it, if  *)
(* it could be taken and no counter went back.                             *)
CpuSince ==
  IF "cpu" \in last.read
  THEN "cpu" \notin since.back =>
         /\ previous_cpu.idle + since.idle = cpu.idle
         /\ previous_cpu.total + since.idle + since.busy = cpu.idle + cpu.busy
  ELSE previous_cpu = NoCpu

NetSince ==
  IF "net" \in last.read
  THEN "net" \notin since.back =>
         /\ previous_net.rx_bytes + since.rx = received
         /\ previous_net.tx_bytes + since.tx = transmitted
  ELSE previous_net = NoNet

SinceInv == CounterType /\ CpuSince /\ NetSince

ReportInv == PercentagesInRange /\ ReportsLastInterval

-----------------------------------------------------------------------------
(* Memory and disk.                                                        *)

LEMMA UsedInRange ==
  ASSUME NEW size \in [total : Total, available : Available]
  PROVE  /\ platform = "apple" \/ size.available <= size.total
              => InRange(percent(used_memory(size), size.total))
         /\ size.available <= size.total => InRange(percent(used_disk(size), size.total))
<1>1. size.total \in Nat /\ size.available \in Nat
  <2>1. size.total \in Total /\ size.available \in Available
    OBVIOUS
  <2>2. Total \subseteq Nat /\ Available \subseteq Nat
    BY CollectorAssumption
  <2>3. QED
    BY <2>1, <2>2
<1>2. size.available <= size.total => /\ minus(size.total, size.available) \in Nat
                                      /\ minus(size.total, size.available) <= size.total
  BY <1>1 DEF minus
<1>3. ASSUME NEW used \in Nat, used <= size.total PROVE InRange(percent(used, size.total))
  BY <1>1, <1>3 DEF InRange, percent
<1>4. size.available <= size.total => InRange(percent(used_disk(size), size.total))
  BY <1>2, <1>3 DEF used_disk
<1>5. platform = "apple" \/ size.available <= size.total
        => used_memory(size) \in Nat /\ used_memory(size) <= size.total
  BY <1>1, <1>2 DEF used_memory
<1>6. QED
  BY <1>3, <1>4, <1>5

LEMMA ZeroInRange == InRange(<<0, 1>>)
  BY DEF InRange

-----------------------------------------------------------------------------
(* Adding the interfaces up.                                               *)

(* The bytes every interface counts can be counted together.               *)
LEMMA OctetsFinite ==
  ASSUME present \subseteq Interface, NEW counter \in [Interface -> Nat]
  PROVE  IsFiniteSet(Octets(counter)) /\ Cardinality(Octets(counter)) \in Nat
<1> DEFINE of == [i \in counted_interfaces |-> {i} \X (1..counter[i])]
           all == {{i} \X (1..counter[i]) : i \in counted_interfaces}
<1>1. IsFiniteSet(counted_interfaces)
  <2>1. counted_interfaces \subseteq Interface
    BY DEF counted_interfaces
  <2>2. QED
    BY <2>1, CollectorAssumption, FS_Subset
<1>2. of \in Surjection(counted_interfaces, all)
  BY DEF Surjection
<1>3. IsFiniteSet(all)
  BY <1>1, <1>2, FS_Surjection
<1>4. ASSUME NEW i \in counted_interfaces PROVE IsFiniteSet({i} \X (1..counter[i]))
  <2>1. 1 \in Int /\ counter[i] \in Int
    BY DEF counted_interfaces
  <2>2. IsFiniteSet({i}) /\ IsFiniteSet(1..counter[i])
    BY <2>1, FS_Singleton, FS_Interval
  <2>3. QED
    BY <2>2, FS_Product
<1>5. IsFiniteSet(UNION all)
  BY <1>3, <1>4, FS_UNION
<1>6. QED
  BY <1>5, FS_CardinalityType DEF Octets

(* A byte more on an interface that is counted is a byte more of all.      *)
LEMMA OctetAdded ==
  ASSUME present \subseteq Interface,
         NEW counter \in [Interface -> Nat], NEW more \in [Interface -> Nat],
         NEW i \in counted_interfaces, more = [counter EXCEPT ![i] = counter[i] + 1]
  PROVE  Cardinality(Octets(more)) = Cardinality(Octets(counter)) + 1
<1> DEFINE new == <<i, counter[i] + 1>>
<1>1. \A c \in [Interface -> Nat] : \A j, n :
        <<j, n>> \in Octets(c) <=> j \in counted_interfaces /\ n \in 1..c[j]
  BY DEF Octets
<1>2. \A c \in [Interface -> Nat] : \A o \in Octets(c) : \E j, n : o = <<j, n>>
  BY DEF Octets
<1>3. i \in Interface /\ counted_interfaces \subseteq Interface
  BY DEF counted_interfaces
<1>4. /\ counter[i] \in Nat /\ more[i] = counter[i] + 1
      /\ \A j \in Interface : j # i => more[j] = counter[j]
  BY <1>3
<1>5. \A n : n \in 1..(counter[i] + 1) <=> n \in 1..counter[i] \/ n = counter[i] + 1
  BY <1>4
<1>6. \A j, n : <<j, n>> \in Octets(more) <=> <<j, n>> \in Octets(counter) \/ <<j, n>> = new
  BY <1>1, <1>3, <1>4, <1>5
<1>7. new \notin Octets(counter)
  BY <1>1, <1>4
<1> HIDE DEF new
<1>8. ASSUME NEW o \in Octets(more) PROVE o \in Octets(counter) \cup {new}
  <2>1. PICK j, n : o = <<j, n>>
    BY <1>2
  <2>2. QED
    BY <2>1, <1>6
<1>9. ASSUME NEW o \in Octets(counter) \cup {new} PROVE o \in Octets(more)
  <2>1. PICK j, n : o = <<j, n>>
    BY <1>2 DEF new
  <2>2. QED
    BY <2>1, <1>6
<1>10. Octets(more) = Octets(counter) \cup {new}
  BY <1>8, <1>9
<1>11. QED
  BY <1>7, <1>10, OctetsFinite, FS_AddElement

LEMMA Totals ==
  ASSUME present \subseteq Interface, interfaces \in [Interface -> [rx : Nat, tx : Nat]]
  PROVE  received \in Nat /\ transmitted \in Nat
<1>1. /\ [i \in Interface |-> interfaces[i].rx] \in [Interface -> Nat]
      /\ [i \in Interface |-> interfaces[i].tx] \in [Interface -> Nat]
  OBVIOUS
<1>2. QED
  BY <1>1, OctetsFinite DEF received, transmitted

-----------------------------------------------------------------------------
(* What a report shows.                                                    *)

(* What cpu_percent shows is the work since the previous sample if there   *)
(* is one, and zero otherwise.                                             *)
LEMMA CpuReport ==
  ASSUME CounterType, CpuSince, NEW read, "cpu" \in read, "cpu" \notin since.back
  PROVE  LET all == since.idle + since.busy
         IN  cpu_percent(read_cpu_sample(read)) =
               IF previous_cpu.total > 0 /\ all > 0 THEN <<since.busy, all>> ELSE <<0, 1>>
<1> DEFINE current == read_cpu_sample(read)
           total_delta == minus(current.total, previous_cpu.total)
           idle_delta == minus(current.idle, previous_cpu.idle)
           all == since.idle + since.busy
<1>1. current.idle = cpu.idle /\ current.total = cpu.idle + cpu.busy
  BY DEF read_cpu_sample
<1>2. /\ since.idle \in Nat /\ since.busy \in Nat /\ cpu.idle \in Nat /\ cpu.busy \in Nat
      /\ previous_cpu.idle \in Nat /\ previous_cpu.total \in Nat
  BY DEF CounterType
<1>3. CASE previous_cpu.total > 0
  <2>1. "cpu" \in last.read
    BY <1>3 DEF CpuSince, NoCpu
  <2>2. /\ previous_cpu.idle + since.idle = cpu.idle
        /\ previous_cpu.total + since.idle + since.busy = cpu.idle + cpu.busy
    BY <2>1 DEF CpuSince
  <2>3. total_delta = all /\ idle_delta = since.idle
    BY <1>1, <1>2, <2>2 DEF minus
  <2>4. minus(total_delta, idle_delta) = since.busy
    BY <1>2, <2>3 DEF minus
  <2> HIDE DEF current, total_delta, idle_delta, all
  <2>5. cpu_percent(current) = IF total_delta > 0 THEN <<minus(total_delta, idle_delta), total_delta>>
                                                 ELSE <<0, 1>>
    BY <1>2, <1>3 DEF cpu_percent, total_delta, idle_delta
  <2>6. QED
    BY <1>3, <2>3, <2>4, <2>5 DEF current, all
<1>4. CASE ~(previous_cpu.total > 0)
  <2>1. previous_cpu.total = 0
    BY <1>2, <1>4
  <2>2. QED
    BY <1>4, <2>1 DEF cpu_percent
<1>5. QED
  BY <1>3, <1>4

(* The same for the throughput.                                            *)
LEMMA NetReport ==
  ASSUME CounterType, NetSince, NEW read, "net" \in read, "net" \notin since.back,
         NEW elapsed \in Seconds
  PROVE  LET current == read_net_sample(read)
             rx == kbps(current.rx_bytes, previous_net.rx_bytes, elapsed)
             tx == kbps(current.tx_bytes, previous_net.tx_bytes, elapsed)
         IN  /\ previous_net.rx_bytes > 0 => rx[1] = since.rx /\ tx[1] = since.tx
             /\ ~(previous_net.rx_bytes > 0) => rx[1] = 0 /\ tx[1] = 0
<1>1. read_net_sample(read).rx_bytes = received /\ read_net_sample(read).tx_bytes = transmitted
  BY DEF read_net_sample
<1>2. /\ since.rx \in Nat /\ since.tx \in Nat
      /\ previous_net.rx_bytes \in Nat /\ previous_net.tx_bytes \in Nat
      /\ elapsed > 0
  BY CollectorAssumption DEF CounterType
<1>3. CASE previous_net.rx_bytes > 0
  <2>1. "net" \in last.read
    BY <1>3 DEF NetSince, NoNet
  <2>2. /\ previous_net.rx_bytes + since.rx = received
        /\ previous_net.tx_bytes + since.tx = transmitted
    BY <2>1 DEF NetSince
  <2>3. /\ minus(received, previous_net.rx_bytes) = since.rx
        /\ minus(transmitted, previous_net.tx_bytes) = since.tx
    BY <1>2, <2>2 DEF minus
  <2>4. has_baseline(elapsed)
    BY <1>2, <1>3 DEF has_baseline
  <2>5. QED
    BY <1>1, <1>3, <2>3, <2>4 DEF kbps
<1>4. CASE ~(previous_net.rx_bytes > 0)
  <2>1. ~has_baseline(elapsed)
    BY <1>2, <1>4 DEF has_baseline
  <2>2. QED
    BY <1>4, <2>1 DEF kbps
<1>5. QED
  BY <1>3, <1>4

-----------------------------------------------------------------------------
(* The invariant holds.                                                    *)

LEMMA InitCollector == Init => SinceInv /\ ReportInv
<1> SUFFICES ASSUME Init PROVE SinceInv /\ ReportInv
  OBVIOUS
<1>1. PICK read \in Reads :
        /\ previous_cpu = read_cpu_sample(read) /\ previous_net = read_net_sample(read)
        /\ last = [work |-> NoWork, read |-> read, base |-> {}]
  BY DEF Init
<1>2. Start(NarrowTicks) \subseteq Nat /\ Start(NarrowOctets) \subseteq Nat
  <2>1. Initial \subseteq 0..MaxCount
    BY CollectorAssumption
  <2>2. Start(NarrowTicks) \subseteq Initial /\ Start(NarrowOctets) \subseteq Initial
    BY DEF Start
  <2>3. 0..MaxCount \subseteq Nat
    OBVIOUS
  <2>4. QED
    BY <2>1, <2>2, <2>3, Zenon
<1>3. cpu \in [idle : Nat, busy : Nat] /\ present \subseteq Interface /\ since = NoWork /\ metric = NoMetric
  <2>1. cpu \in [idle : Start(NarrowTicks), busy : Start(NarrowTicks)]
    BY DEF Init
  <2>2. cpu \in [idle : Nat, busy : Nat]
    BY <1>2, <2>1
  <2>3. QED
    BY <2>2 DEF Init
<1>4. /\ interfaces \in [Interface -> [rx : Nat, tx : Nat]]
      /\ \A i \in Interface \ present : interfaces[i].rx = 0 /\ interfaces[i].tx = 0
  <2>1. PICK rx \in [present -> Start(NarrowOctets)] :
          interfaces = [i \in Interface |-> [rx |-> IF i \in present THEN rx[i] ELSE 0, tx |-> 0]]
    BY DEF Init
  <2>2. \A i \in Interface : (IF i \in present THEN rx[i] ELSE 0) \in Nat
    BY <1>2
  <2>3. /\ \A i \in Interface : /\ interfaces[i] = [rx |-> IF i \in present THEN rx[i] ELSE 0, tx |-> 0]
                                /\ interfaces[i] \in [rx : Nat, tx : Nat]
        /\ interfaces = [i \in Interface |-> interfaces[i]]
    BY <2>1, <2>2
  <2>4. interfaces \in [Interface -> [rx : Nat, tx : Nat]]
    BY <2>3
  <2>5. QED
    BY <2>3, <2>4
<1>5. received \in Nat /\ transmitted \in Nat
  BY <1>3, <1>4, Totals
<1>6. since \in [idle : Nat, busy : Nat, rx : Nat, tx : Nat, back : SUBSET Source]
  BY <1>3 DEF NoWork
<1>7. /\ previous_cpu \in [idle : Nat, total : Nat]
      /\ previous_net \in [rx_bytes : Nat, tx_bytes : Nat]
  BY <1>1, <1>3, <1>5 DEF read_cpu_sample, read_net_sample, NoCpu, NoNet
<1>8. CounterType
  BY <1>3, <1>4, <1>6, <1>7 DEF CounterType
<1>9. CpuSince
  BY <1>1, <1>3 DEF CpuSince, NoWork, read_cpu_sample
<1>10. NetSince
  BY <1>1, <1>3, <1>5 DEF NetSince, NoWork, read_net_sample
<1>11. PercentagesInRange
  BY <1>3, ZeroInRange DEF NoMetric, PercentagesInRange
<1>12. ReportsLastInterval
  BY <1>1, <1>3 DEF ReportsLastInterval, Sound, NoMetric, NoWork
<1>13. QED
  BY <1>8, <1>9, <1>10, <1>11, <1>12 DEF SinceInv, ReportInv

(* What a step of the kernel does to since.                                *)
LEMMA HappenedSince ==
  ASSUME CounterType, NEW kind \in {"idle", "busy", "rx", "tx"}, NEW went_back \in SUBSET Source,
         Happened(kind, went_back)
  PROVE  /\ since' \in [idle : Nat, busy : Nat, rx : Nat, tx : Nat, back : SUBSET Source]
         /\ since'.back = since.back \cup went_back
         /\ since'.idle = IF kind = "idle" THEN since.idle + 1 ELSE since.idle
         /\ since'.busy = IF kind = "busy" THEN since.busy + 1 ELSE since.busy
         /\ since'.rx = IF kind = "rx" THEN since.rx + 1 ELSE since.rx
         /\ since'.tx = IF kind = "tx" THEN since.tx + 1 ELSE since.tx
<1>1. since \in [idle : Nat, busy : Nat, rx : Nat, tx : Nat, back : SUBSET Source]
  BY DEF CounterType
<1>2. since' = [since EXCEPT ![kind] = since[kind] + 1, !.back = since.back \cup went_back]
  BY DEF Happened
<1>3. CASE kind = "idle"
  <2>1. since' = [since EXCEPT !["idle"] = since.idle + 1, !["back"] = since.back \cup went_back]
    BY <1>2, <1>3
  <2>2. QED
    BY <1>1, <1>3, <2>1
<1>4. CASE kind = "busy"
  <2>1. since' = [since EXCEPT !["busy"] = since.busy + 1, !["back"] = since.back \cup went_back]
    BY <1>2, <1>4
  <2>2. QED
    BY <1>1, <1>4, <2>1
<1>5. CASE kind = "rx"
  <2>1. since' = [since EXCEPT !["rx"] = since.rx + 1, !["back"] = since.back \cup went_back]
    BY <1>2, <1>5
  <2>2. QED
    BY <1>1, <1>5, <2>1
<1>6. CASE kind = "tx"
  <2>1. since' = [since EXCEPT !["tx"] = since.tx + 1, !["back"] = since.back \cup went_back]
    BY <1>2, <1>6
  <2>2. QED
    BY <1>1, <1>6, <2>1
<1>7. QED
  BY <1>3, <1>4, <1>5, <1>6

LEMMA AddType ==
  ASSUME NEW counter \in Nat, NEW narrow \in BOOLEAN
  PROVE  /\ Add(counter, narrow) \in Nat
         /\ ~ComesRound(counter, narrow) => Add(counter, narrow) = counter + 1
  BY DEF Add

LEMMA WorkSince ==
  ASSUME SinceInv, NEW kind \in {"idle", "busy"}, Work(kind)
  PROVE  SinceInv'
<1> DEFINE went_back == IF ComesRound(cpu[kind], NarrowTicks) THEN {"cpu"} ELSE {}
<1>1. CounterType /\ CpuSince /\ NetSince
  BY DEF SinceInv
<1>2. /\ cpu' = [cpu EXCEPT ![kind] = Add(cpu[kind], NarrowTicks)] /\ Happened(kind, went_back)
      /\ UNCHANGED <<present, interfaces, previous_cpu, previous_net, last>>
  BY DEF Work, agent
<1>3. /\ cpu[kind] \in Nat /\ NarrowTicks \in BOOLEAN
      /\ went_back \in SUBSET Source /\ kind \in {"idle", "busy", "rx", "tx"}
  BY <1>1 DEF CounterType, NarrowTicks, Source
<1>4. /\ since' \in [idle : Nat, busy : Nat, rx : Nat, tx : Nat, back : SUBSET Source]
      /\ since'.back = since.back \cup went_back /\ since'.rx = since.rx /\ since'.tx = since.tx
      /\ since'.idle = IF kind = "idle" THEN since.idle + 1 ELSE since.idle
      /\ since'.busy = IF kind = "busy" THEN since.busy + 1 ELSE since.busy
  <2> HIDE DEF went_back
  <2>1. QED
    BY <1>1, <1>2, <1>3, HappenedSince
<1>5. Add(cpu[kind], NarrowTicks) \in Nat
  BY <1>3, AddType
<1>6. CounterType'
  <2>1. cpu' \in [idle : Nat, busy : Nat]
    <3>1. CASE kind = "idle"
      BY <1>1, <1>2, <1>5, <3>1 DEF CounterType
    <3>2. CASE kind = "busy"
      BY <1>1, <1>2, <1>5, <3>2 DEF CounterType
    <3>3. QED
      BY <3>1, <3>2
  <2>2. QED
    BY <1>1, <1>2, <1>4, <2>1 DEF CounterType
<1>7. CpuSince'
  <2>1. CASE ComesRound(cpu[kind], NarrowTicks)
    <3>1. "cpu" \in since'.back
      BY <1>4, <2>1
    <3>2. QED
      BY <1>1, <1>2, <3>1 DEF CpuSince, NoCpu
  <2>2. CASE ~ComesRound(cpu[kind], NarrowTicks)
    <3>1. cpu' = [cpu EXCEPT ![kind] = cpu[kind] + 1] /\ since'.back = since.back
      BY <1>2, <1>3, <1>4, <2>2, AddType
    <3>2. CASE kind = "idle"
      BY <1>1, <1>2, <1>4, <3>1, <3>2 DEF CounterType, CpuSince, NoCpu
    <3>3. CASE kind = "busy"
      BY <1>1, <1>2, <1>4, <3>1, <3>3 DEF CounterType, CpuSince, NoCpu
    <3>4. QED
      BY <3>2, <3>3
  <2>3. QED
    BY <2>1, <2>2
<1>8. NetSince'
  <2>1. received' = received /\ transmitted' = transmitted
    BY <1>2 DEF received, transmitted, Octets, counted_interfaces
  <2>2. "net" \notin since'.back => "net" \notin since.back
    BY <1>4
  <2> HIDE DEF went_back
  <2>3. QED
    BY <1>1, <1>2, <1>4, <2>1, <2>2 DEF NetSince, NoNet
<1>9. QED
  BY <1>6, <1>7, <1>8 DEF SinceInv

LEMMA TrafficSince ==
  ASSUME SinceInv, NEW i \in Interface, NEW way \in {"rx", "tx"}, Traffic(i, way)
  PROVE  SinceInv'
<1> DEFINE rx == [j \in Interface |-> interfaces[j].rx]
           tx == [j \in Interface |-> interfaces[j].tx]
           went_back == IF ComesRound(interfaces[i][way], NarrowOctets) THEN {"net"} ELSE {}
           counted == Add(interfaces[i][way], NarrowOctets)
<1>1. CounterType /\ CpuSince /\ NetSince
  BY DEF SinceInv
<1>2. /\ interfaces' = [interfaces EXCEPT ![i] = [interfaces[i] EXCEPT ![way] = counted]]
      /\ i = Loopback => since' = since
      /\ i # Loopback => Happened(way, went_back)
      /\ i \in present
      /\ UNCHANGED <<cpu, present, previous_cpu, previous_net, last>>
  BY DEF Traffic, agent
<1>3. /\ interfaces[i][way] \in Nat /\ NarrowOctets \in BOOLEAN
      /\ went_back \in SUBSET Source /\ way \in {"idle", "busy", "rx", "tx"}
  BY <1>1 DEF CounterType, NarrowOctets, Source
<1>4. counted \in Nat /\ (~ComesRound(interfaces[i][way], NarrowOctets) => counted = interfaces[i][way] + 1)
  BY <1>3, AddType
<1> HIDE DEF counted
<1>5. /\ interfaces' \in [Interface -> [rx : Nat, tx : Nat]]
      /\ rx \in [Interface -> Nat] /\ tx \in [Interface -> Nat]
      /\ rx' \in [Interface -> Nat] /\ tx' \in [Interface -> Nat]
      /\ way = "rx" => rx' = [rx EXCEPT ![i] = counted] /\ tx' = tx
      /\ way = "tx" => tx' = [tx EXCEPT ![i] = counted] /\ rx' = rx
      /\ \A j \in Interface : j # i => interfaces'[j] = interfaces[j]
  <2>1. interfaces \in [Interface -> [rx : Nat, tx : Nat]]
    BY <1>1 DEF CounterType
  <2>2. CASE way = "rx"
    <3>1. /\ [interfaces[i] EXCEPT ![way] = counted] \in [rx : Nat, tx : Nat]
          /\ [interfaces[i] EXCEPT ![way] = counted].rx = counted
          /\ [interfaces[i] EXCEPT ![way] = counted].tx = interfaces[i].tx
      BY <1>4, <2>1, <2>2
    <3>2. QED
      BY <1>2, <2>1, <2>2, <3>1
  <2>3. CASE way = "tx"
    <3>1. /\ [interfaces[i] EXCEPT ![way] = counted] \in [rx : Nat, tx : Nat]
          /\ [interfaces[i] EXCEPT ![way] = counted].tx = counted
          /\ [interfaces[i] EXCEPT ![way] = counted].rx = interfaces[i].rx
      BY <1>4, <2>1, <2>3
    <3>2. QED
      BY <1>2, <2>1, <2>3, <3>1
  <2>4. QED
    BY <2>2, <2>3
<1>6. received = Cardinality(Octets(rx)) /\ transmitted = Cardinality(Octets(tx))
  BY DEF received, transmitted
<1>7. received' = Cardinality(Octets(rx')) /\ transmitted' = Cardinality(Octets(tx'))
  BY <1>2 DEF received, transmitted, Octets, counted_interfaces
<1>8. rx[i] = interfaces[i].rx /\ tx[i] = interfaces[i].tx /\ present \subseteq Interface
  BY <1>1 DEF CounterType
<1>9. received \in Nat /\ transmitted \in Nat
  BY <1>1, Totals DEF CounterType
<1> HIDE DEF rx, tx, went_back
<1>10. CASE i = Loopback
  <2>1. \A j \in counted_interfaces : j \in Interface /\ j # i
    BY <1>8, <1>10 DEF counted_interfaces
  <2>2. \A j \in counted_interfaces : rx'[j] = rx[j] /\ tx'[j] = tx[j]
    BY <1>5, <2>1
  <2>3. Octets(rx') = Octets(rx) /\ Octets(tx') = Octets(tx)
    BY <2>2 DEF Octets
  <2>4. received' = received /\ transmitted' = transmitted /\ since' = since
    BY <1>2, <1>6, <1>7, <1>10, <2>3
  <2>5. CounterType'
    BY <1>1, <1>2, <1>5, <2>4 DEF CounterType
  <2>6. CpuSince' /\ NetSince'
    BY <1>1, <1>2, <2>4 DEF CpuSince, NetSince, NoCpu, NoNet
  <2>7. QED
    BY <2>5, <2>6 DEF SinceInv
<1>11. CASE i # Loopback
  <2>1. /\ since' \in [idle : Nat, busy : Nat, rx : Nat, tx : Nat, back : SUBSET Source]
        /\ since'.back = since.back \cup went_back
        /\ since'.idle = since.idle /\ since'.busy = since.busy
        /\ since'.rx = IF way = "rx" THEN since.rx + 1 ELSE since.rx
        /\ since'.tx = IF way = "tx" THEN since.tx + 1 ELSE since.tx
    BY <1>1, <1>2, <1>3, <1>11, HappenedSince
  <2>2. CounterType'
    BY <1>1, <1>2, <1>5, <2>1 DEF CounterType
  <2>3. CpuSince'
    <3>1. "cpu" \notin since'.back => "cpu" \notin since.back
      BY <2>1
    <3>2. QED
      BY <1>1, <1>2, <2>1, <3>1 DEF CpuSince, NoCpu
  <2>4. NetSince'
    <3>1. CASE ComesRound(interfaces[i][way], NarrowOctets)
      <4>1. "net" \in since'.back
        BY <2>1, <3>1 DEF went_back
      <4>2. QED
        BY <1>1, <1>2, <4>1 DEF NetSince, NoNet
    <3>2. CASE ~ComesRound(interfaces[i][way], NarrowOctets)
      <4>1. i \in counted_interfaces
        BY <1>2, <1>11 DEF counted_interfaces
      <4>2. CASE way = "rx"
        <5>1. rx' = [rx EXCEPT ![i] = rx[i] + 1] /\ tx' = tx
          BY <1>4, <1>5, <1>8, <3>2, <4>2
        <5>2. received' = received + 1 /\ transmitted' = transmitted
          BY <1>5, <1>6, <1>7, <1>8, <4>1, <5>1, OctetAdded
        <5>3. since'.rx = since.rx + 1 /\ since'.tx = since.tx
          BY <2>1, <4>2
        <5>4. since'.back = since.back
          BY <2>1, <3>2 DEF went_back
        <5>5. QED
          BY <1>1, <1>2, <1>9, <5>2, <5>3, <5>4 DEF CounterType, NetSince, NoNet
      <4>3. CASE way = "tx"
        <5>1. tx' = [tx EXCEPT ![i] = tx[i] + 1] /\ rx' = rx
          BY <1>4, <1>5, <1>8, <3>2, <4>3
        <5>2. transmitted' = transmitted + 1 /\ received' = received
          BY <1>5, <1>6, <1>7, <1>8, <4>1, <5>1, OctetAdded
        <5>3. since'.tx = since.tx + 1 /\ since'.rx = since.rx
          BY <2>1, <4>3
        <5>4. since'.back = since.back
          BY <2>1, <3>2 DEF went_back
        <5>5. QED
          BY <1>1, <1>2, <1>9, <5>2, <5>3, <5>4 DEF CounterType, NetSince, NoNet
      <4>4. QED
        BY <4>2, <4>3
    <3>3. QED
      BY <3>1, <3>2
  <2>5. QED
    BY <2>2, <2>3, <2>4 DEF SinceInv
<1>12. QED
  BY <1>10, <1>11

(* A new interface has counted nothing yet.                                *)
LEMMA AppearsSince ==
  ASSUME SinceInv, NEW i \in Interface, Appears(i)
  PROVE  SinceInv'
<1> DEFINE rx == [j \in Interface |-> interfaces[j].rx]
           tx == [j \in Interface |-> interfaces[j].tx]
<1>1. CounterType /\ CpuSince /\ NetSince
  BY DEF SinceInv
<1>2. /\ i \notin present /\ present' = present \cup {i}
      /\ UNCHANGED <<cpu, interfaces, previous_cpu, previous_net, last, since>>
  BY DEF Appears, agent
<1>3. rx \in [Interface -> Nat] /\ tx \in [Interface -> Nat] /\ rx[i] = 0 /\ tx[i] = 0
  BY <1>1, <1>2 DEF CounterType
<1>4. rx' = rx /\ tx' = tx
  BY <1>2
<1>5. ASSUME NEW counter \in [Interface -> Nat], counter[i] = 0
      PROVE  UNION {{j} \X (1..counter[j]) : j \in present' \ {Loopback}}
               = UNION {{j} \X (1..counter[j]) : j \in present \ {Loopback}}
  <2>1. 1..counter[i] = {}
    BY <1>5
  <2>2. {i} \X (1..counter[i]) = {}
    BY <2>1
  <2>3. QED
    BY <1>2, <2>2
<1>6. /\ received = Cardinality(UNION {{j} \X (1..rx[j]) : j \in present \ {Loopback}})
      /\ transmitted = Cardinality(UNION {{j} \X (1..tx[j]) : j \in present \ {Loopback}})
  BY DEF received, transmitted, Octets, counted_interfaces
<1>7. /\ received' = Cardinality(UNION {{j} \X (1..rx'[j]) : j \in present' \ {Loopback}})
      /\ transmitted' = Cardinality(UNION {{j} \X (1..tx'[j]) : j \in present' \ {Loopback}})
  BY DEF received, transmitted, Octets, counted_interfaces
<1> HIDE DEF rx, tx
<1>8. received' = received /\ transmitted' = transmitted
  BY <1>3, <1>4, <1>5, <1>6, <1>7
<1>9. CounterType'
  BY <1>1, <1>2 DEF CounterType
<1>10. CpuSince' /\ NetSince'
  BY <1>1, <1>2, <1>8 DEF CpuSince, NetSince, NoCpu, NoNet
<1>11. QED
  BY <1>9, <1>10 DEF SinceInv

LEMMA VanishesSince ==
  ASSUME SinceInv, NEW i \in Interface, Vanishes(i)
  PROVE  SinceInv'
<1>1. CounterType /\ CpuSince /\ NetSince
  BY DEF SinceInv
<1>2. /\ present' = present \ {i}
      /\ interfaces' = [interfaces EXCEPT ![i] = [rx |-> 0, tx |-> 0]]
      /\ since' = [since EXCEPT !.back = since.back \cup {"net"}]
      /\ UNCHANGED <<cpu, previous_cpu, previous_net, last>>
  BY DEF Vanishes, agent
<1>3. /\ since' \in [idle : Nat, busy : Nat, rx : Nat, tx : Nat, back : SUBSET Source]
      /\ since'.idle = since.idle /\ since'.busy = since.busy
      /\ since'.back = since.back \cup {"net"}
  BY <1>1, <1>2 DEF CounterType, Source
<1>4. CounterType'
  BY <1>1, <1>2, <1>3 DEF CounterType
<1>5. CpuSince'
  <2>1. "cpu" \notin since'.back => "cpu" \notin since.back
    BY <1>3
  <2>2. QED
    BY <1>1, <1>2, <1>3, <2>1 DEF CpuSince, NoCpu
<1>6. NetSince'
  BY <1>1, <1>2, <1>3 DEF NetSince, NoNet
<1>7. QED
  BY <1>4, <1>5, <1>6 DEF SinceInv

LEMMA CollectSince ==
  ASSUME SinceInv, NEW read, NEW memory, NEW disk, NEW elapsed,
         collect_metrics(read, memory, disk, elapsed)
  PROVE  SinceInv'
<1>1. /\ previous_cpu' = read_cpu_sample(read) /\ previous_net' = read_net_sample(read)
      /\ since' = NoWork /\ last'.read = read /\ UNCHANGED <<cpu, present, interfaces>>
  BY DEF collect_metrics, kernel
<1>2. CounterType
  BY DEF SinceInv
<1>3. received \in Nat /\ transmitted \in Nat
  BY <1>2, Totals DEF CounterType
<1>4. received' = received /\ transmitted' = transmitted
  BY <1>1 DEF received, transmitted, Octets, counted_interfaces
<1>5. since' \in [idle : Nat, busy : Nat, rx : Nat, tx : Nat, back : SUBSET Source]
  BY <1>1 DEF NoWork
<1>6. cpu.idle \in Nat /\ cpu.busy \in Nat
  BY <1>2 DEF CounterType
<1>7. /\ previous_cpu' \in [idle : Nat, total : Nat]
      /\ previous_net' \in [rx_bytes : Nat, tx_bytes : Nat]
  BY <1>1, <1>3, <1>6 DEF read_cpu_sample, read_net_sample, NoCpu, NoNet
<1>8. CounterType'
  BY <1>1, <1>2, <1>5, <1>7 DEF CounterType
<1>9. CpuSince'
  BY <1>1, <1>6 DEF CpuSince, NoWork, read_cpu_sample, NoCpu
<1>10. NetSince'
  BY <1>1, <1>3, <1>4 DEF NetSince, NoWork, read_net_sample, NoNet
<1>11. QED
  BY <1>8, <1>9, <1>10 DEF SinceInv

LEMMA CollectReport ==
  ASSUME SinceInv, NEW read, NEW memory \in MemorySizes, NEW disk, NEW elapsed \in Seconds,
         collect_metrics(read, memory, disk, elapsed)
  PROVE  ReportInv'
<1> DEFINE net == read_net_sample(read)
           base == {source \in {"cpu", "net"} :
                      IF source = "cpu" THEN previous_cpu.total > 0 ELSE previous_net.rx_bytes > 0}
           all == since.idle + since.busy
           busy == since.busy
<1>1. /\ last' = [work |-> since, read |-> read, base |-> base]
      /\ metric'.cpu = cpu_percent(read_cpu_sample(read))
      /\ metric'.memory \in {percent(used_memory(memory), memory.total), <<0, 1>>}
      /\ metric'.rx = kbps(net.rx_bytes, previous_net.rx_bytes, elapsed)
      /\ metric'.tx = kbps(net.tx_bytes, previous_net.tx_bytes, elapsed)
  BY DEF collect_metrics
<1>2. /\ last'.work = since /\ Sound' = read \ since.back
      /\ "cpu" \in last'.base <=> previous_cpu.total > 0
      /\ "net" \in last'.base <=> previous_net.rx_bytes > 0
  BY <1>1 DEF Sound
<1>3. CounterType /\ CpuSince /\ NetSince
  BY DEF SinceInv
<1>4. busy \in Nat /\ all \in Nat /\ busy <= all /\ since.rx \in Nat /\ since.tx \in Nat
  BY <1>3 DEF CounterType
<1>5. ASSUME "cpu" \in Sound'
      PROVE  metric'.cpu = IF previous_cpu.total > 0 /\ all > 0 THEN <<busy, all>> ELSE <<0, 1>>
  BY <1>1, <1>2, <1>3, <1>5, CpuReport
<1>6. ASSUME "net" \in Sound'
      PROVE  /\ previous_net.rx_bytes > 0 => metric'.rx[1] = since.rx /\ metric'.tx[1] = since.tx
             /\ ~(previous_net.rx_bytes > 0) => metric'.rx[1] = 0 /\ metric'.tx[1] = 0
  BY <1>1, <1>2, <1>3, <1>6, NetReport
<1> DEFINE shown == metric'.cpu[1] * all
           happened == busy * metric'.cpu[2]
<1>7. ASSUME "cpu" \in Sound'
      PROVE  shown <= happened /\ ("cpu" \in last'.base => shown = happened)
  <2>1. CASE previous_cpu.total > 0 /\ all > 0
    <3>1. metric'.cpu[1] = busy /\ metric'.cpu[2] = all
      BY <1>5, <1>7, <2>1
    <3> HIDE DEF all, busy
    <3>2. shown = busy * all /\ happened = busy * all /\ busy * all \in Nat
      BY <1>4, <3>1
    <3>3. QED
      BY <3>2
  <2>2. CASE ~(previous_cpu.total > 0 /\ all > 0)
    <3>1. metric'.cpu[1] = 0 /\ metric'.cpu[2] = 1
      BY <1>5, <1>7, <2>2
    <3> HIDE DEF all, busy
    <3>2. shown = 0 /\ happened = busy
      BY <1>4, <3>1
    <3>3. previous_cpu.total > 0 => busy = 0
      BY <1>4, <2>2
    <3>4. QED
      BY <1>2, <1>4, <3>2, <3>3
  <2>3. QED
    BY <2>1, <2>2
<1>8. ASSUME "cpu" \in Sound' PROVE InRange(metric'.cpu)
  <2>1. CASE previous_cpu.total > 0 /\ all > 0
    BY <1>4, <1>5, <1>8, <2>1 DEF InRange
  <2>2. CASE ~(previous_cpu.total > 0 /\ all > 0)
    BY <1>5, <1>8, <2>2, ZeroInRange
  <2>3. QED
    BY <2>1, <2>2
<1>9. InRange(metric'.memory)
  <2>1. memory \in [total : Total, available : Available] /\ (platform = "apple" \/ memory.available <= memory.total)
    BY DEF MemorySizes, Sizes
  <2>2. QED
    BY <1>1, <2>1, UsedInRange, ZeroInRange
<1>10. PercentagesInRange'
  BY <1>8, <1>9 DEF PercentagesInRange, InRange
<1>11. ReportsLastInterval'
  <2>1. /\ "net" \in Sound' => metric'.rx[1] <= since.rx /\ metric'.tx[1] <= since.tx
        /\ "net" \in Sound' /\ "net" \in last'.base
             => metric'.rx[1] = since.rx /\ metric'.tx[1] = since.tx
    BY <1>2, <1>4, <1>6
  <2>2. /\ "cpu" \in Sound' => shown <= happened
        /\ "cpu" \in Sound' /\ "cpu" \in last'.base => shown = happened
    BY <1>7
  <2>3. /\ shown = metric'.cpu[1] * (last'.work.idle + last'.work.busy)
        /\ happened = last'.work.busy * metric'.cpu[2]
    BY <1>2
  <2> HIDE DEF shown, happened
  <2>4. QED
    BY <1>2, <2>1, <2>2, <2>3 DEF ReportsLastInterval
<1>12. QED
  BY <1>10, <1>11 DEF ReportInv

LEMMA StepCollector == SinceInv /\ ReportInv /\ [Next]_vars => SinceInv' /\ ReportInv'
<1> SUFFICES ASSUME SinceInv, ReportInv, [Next]_vars PROVE SinceInv' /\ ReportInv'
  OBVIOUS
<1>1. ASSUME UNCHANGED <<metric, last>> PROVE ReportInv'
  BY <1>1 DEF ReportInv, PercentagesInRange, ReportsLastInterval, Sound, InRange
<1>2. ASSUME NEW kind \in {"idle", "busy"}, Work(kind) PROVE SinceInv' /\ ReportInv'
  <2>1. UNCHANGED <<metric, last>>
    BY <1>2 DEF Work, agent
  <2>2. QED
    BY <1>1, <1>2, <2>1, WorkSince
<1>3. ASSUME NEW i \in Interface, NEW way \in {"rx", "tx"}, Traffic(i, way) PROVE SinceInv' /\ ReportInv'
  <2>1. UNCHANGED <<metric, last>>
    BY <1>3 DEF Traffic, agent
  <2>2. QED
    BY <1>1, <1>3, <2>1, TrafficSince
<1>4. ASSUME NEW i \in Interface, Appears(i) PROVE SinceInv' /\ ReportInv'
  <2>1. UNCHANGED <<metric, last>>
    BY <1>4 DEF Appears, agent
  <2>2. QED
    BY <1>1, <1>4, <2>1, AppearsSince
<1>5. ASSUME NEW i \in Interface, Vanishes(i) PROVE SinceInv' /\ ReportInv'
  <2>1. UNCHANGED <<metric, last>>
    BY <1>5 DEF Vanishes, agent
  <2>2. QED
    BY <1>1, <1>5, <2>1, VanishesSince
<1>6. ASSUME NEW read \in Reads, NEW memory \in MemorySizes, NEW disk \in Sizes,
             NEW elapsed \in Seconds, collect_metrics(read, memory, disk, elapsed)
      PROVE  SinceInv' /\ ReportInv'
  BY <1>6, CollectSince, CollectReport
<1>7. CASE UNCHANGED vars
  <2>1. /\ UNCHANGED <<cpu, present, interfaces, previous_cpu, previous_net, since>>
        /\ UNCHANGED <<metric, last>>
    BY <1>7 DEF vars, kernel, agent
  <2>2. SinceInv'
    BY <2>1 DEF SinceInv, CounterType, CpuSince, NetSince, NoCpu, NoNet, received, transmitted,
                Octets, counted_interfaces
  <2>3. QED
    BY <1>1, <2>1, <2>2
<1>8. QED
  BY <1>2, <1>3, <1>4, <1>5, <1>6, <1>7 DEF Next

-----------------------------------------------------------------------------
(* On every platform, for any number of interfaces that come and go, and   *)
(* for counters of any width, the share of memory collect_metrics reports  *)
(* lies between 0 and 100, and so does that of busy time if it could be    *)
(* read and no 32-bit counter of it came round in the interval.            *)
THEOREM PercentagesCorrect == Spec => []PercentagesInRange
<1>1. SinceInv /\ ReportInv => PercentagesInRange
  BY DEF ReportInv
<1>2. QED
  BY <1>1, InitCollector, StepCollector, PTL DEF Spec

(* Under the same conditions collect_metrics reports the work and the      *)
(* traffic since the previous sample, or zero where that sample is zero,   *)
(* if no counter went back in the interval and its own read succeeded:     *)
(* whatever failed, came round or vanished before leaves no trace.         *)
THEOREM ReportsCorrect == Spec => []ReportsLastInterval
<1>1. SinceInv /\ ReportInv => ReportsLastInterval
  BY DEF ReportInv
<1>2. QED
  BY <1>1, InitCollector, StepCollector, PTL DEF Spec
=============================================================================
