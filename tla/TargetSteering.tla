--------------------------- MODULE TargetSteering ---------------------------
(***************************************************************************)
(* Core assignment and application steering of the target (target/tcp.c):  *)
(* a new connection becomes a queue on the next core, in the throughput or *)
(* the latency lane by its index; nvmet_tcp_data_ready updates the load of *)
(* every queue of the NUMA node and may move the queue to another core of  *)
(* the node.  CPU c is core c \div NrNodes of node c % NrNodes.            *)
(***************************************************************************)
EXTENDS Integers, FiniteSets, FiniteSetsExt

CONSTANTS
    NrCpus, NrNodes,
    MaxQueues,      \* bound: indices of nvmet_tcp_queue_ida in use
    Busy,           \* indices of the queues that see traffic
    Samples,        \* sk_rmem_alloc of a busy queue
    MinMetric,      \* initial min_metric, 1000000
    MaxRelease      \* bound: queues released

Idx == 0 .. MaxQueues - 1
Cpu == 0 .. NrCpus - 1
Core == 0 .. NrCpus \div NrNodes - 1

VARIABLES
    list,           \* nvmet_tcp_queue_list, by index
    cpu, orig_cpu, numa_node, metric,
    last_cpu,       \* port->last_cpu
    released

vars == <<list, cpu, orig_cpu, numa_node, metric, last_cpu, released>>

\* queue->prio_class and the lane: fixed by the index.
IsLatency(q) == q > NrCpus
\* The first queue is the admin queue.
IsAdmin(q) == q = 0

Init ==
    /\ list = {} /\ last_cpu = -1 /\ released = 0
    /\ cpu = [q \in Idx |-> 0] /\ orig_cpu = [q \in Idx |-> 0]
    /\ numa_node = [q \in Idx |-> 0] /\ metric = [q \in Idx |-> 0]

\* nvmet_tcp_alloc_queue: the lowest free index; queue 1 shares the core
\* of the admin queue; a latency lane is shifted by one core.
AllocQueue ==
    /\ list # Idx
    /\ LET q    == Min(Idx \ list)
           l    == IF q = 1 THEN last_cpu ELSE (last_cpu + 1) % NrCpus
           lane == IF IsLatency(q) THEN l + 1 ELSE l
           c    == IF lane >= NrCpus THEN 0 ELSE lane
       IN /\ list' = list \cup {q} /\ last_cpu' = l
          /\ cpu' = [cpu EXCEPT ![q] = c] /\ orig_cpu' = [orig_cpu EXCEPT ![q] = c]
          /\ numa_node' = [numa_node EXCEPT ![q] = c % NrNodes]
          /\ metric' = [metric EXCEPT ![q] = 0]
    /\ UNCHANGED released
\* nvmet_tcp_release_queue_work takes the queue off the list.
ReleaseQueue(q) ==
    /\ q \in list /\ q # 0 /\ released < MaxRelease
    /\ list' = list \ {q} /\ released' = released + 1
    /\ UNCHANGED <<cpu, orig_cpu, numa_node, metric, last_cpu>>

-----------------------------------------------------------------------------
(* nvmet_tcp_data_ready with i10_target_steering *)

\* Exponential average in integers; small values count as none.
Average(m, sample) ==
    LET n == IF m = 0 THEN sample ELSE m - m \div 8 + sample \div 8
    IN IF n < 10 THEN 0 ELSE n

\* Load of a core of q's node by lane, from metrics m and places c.
Load(q, m, c, core, lane) ==
    MapThenSumSet(LAMBDA p : m[p],
        {p \in list : /\ ~IsAdmin(p) /\ numa_node[p] = numa_node[q] /\ c[p] \div NrNodes = core
                      /\ IsLatency(p) = lane})
Lat(q, m, c, core) == Load(q, m, c, core, TRUE)
Thru(q, m, c, core) == Load(q, m, c, core, FALSE)
Total(q, m, c, core) == Lat(q, m, c, core) + Thru(q, m, c, core)

\* The cores q may move to, and their weight; the first of the lightest wins.
LatCores(q, m, c) ==
    LET local == c[q] \div NrNodes
    IN {i \in Core : /\ i # local /\ Lat(q, m, c, i) > 0 /\ Thru(q, m, c, local) > 0
                     /\ Total(q, m, c, i) < Total(q, m, c, local)
                     /\ Total(q, m, c, i) < MinMetric}
ThruCores(q, m, c) ==
    LET local == c[q] \div NrNodes
    IN {i \in Core : i # local /\ Lat(q, m, c, local) > 0 /\ Lat(q, m, c, i) < MinMetric}
Lightest(S, w(_)) == Min({i \in S : \A j \in S : w(i) <= w(j)})

TargetCpu(q, core) == core * NrNodes + numa_node[q]

\* Mutant: any core with latency traffic will do.
Target_Any(q, m, c) ==
    LET local == c[q] \div NrNodes
        S == IF IsLatency(q) THEN {i \in Core : i # local /\ Lat(q, m, c, i) > 0}
                             ELSE ThruCores(q, m, c)
    IN IF S = {} THEN c[q] ELSE TargetCpu(q, Min(S))
Target(q, m, c) ==
    LET S == IF IsLatency(q) THEN LatCores(q, m, c) ELSE ThruCores(q, m, c)
    IN IF S = {} THEN c[q]
       ELSE TargetCpu(q, Lightest(S, LAMBDA i : IF IsLatency(q) THEN Total(q, m, c, i)
                                                                ELSE Lat(q, m, c, i)))

\* The 200 ms since the last arrival are over, or not; then the new samples.
Reset(f, g, expired) == [q \in Idx |-> IF expired /\ q \in list /\ ~IsAdmin(q) THEN g[q] ELSE f[q]]
DataReady(q) ==
    /\ q \in list
    /\ \E expired \in {FALSE, ~IsAdmin(q)}, s \in [Busy -> Samples] :
          LET m == Reset(metric, [p \in Idx |-> 0], expired)
              c == Reset(cpu, orig_cpu, expired)
              n == [p \in Idx |->
                      IF p \in list /\ ~IsAdmin(p) /\ numa_node[p] = numa_node[q]
                      THEN Average(m[p], IF p \in Busy THEN s[p] ELSE 0) ELSE m[p]]
          IN metric' = n /\ cpu' = [c EXCEPT ![q] = Target(q, n, c)]
    /\ UNCHANGED <<list, orig_cpu, numa_node, last_cpu, released>>

Next ==
    \/ AllocQueue
    \/ \E q \in Idx : ReleaseQueue(q) \/ DataReady(q)
Spec == Init /\ [][Next]_vars

-----------------------------------------------------------------------------
(* Properties *)

\* A queue never leaves the NUMA node of the core it was accepted on, however
\* often it is steered, reset or its index reused.
StaysOnNode == \A q \in list : cpu[q] \in Cpu /\ cpu[q] % NrNodes = orig_cpu[q] % NrNodes

\* A queue is moved for a reason: a latency queue to a core with less load than
\* its own, away from throughput traffic; a throughput queue away from latency traffic.
SteeredForReasonStep ==
    \A q \in list : (list' = list /\ cpu'[q] \notin {cpu[q], orig_cpu[q]}) =>
        \E c \in {cpu, [cpu EXCEPT ![q] = orig_cpu[q]]} :
           LET here == c[q] \div NrNodes
               d == [p \in Idx |-> IF p = q THEN c[q] ELSE cpu'[p]]
           IN IF IsLatency(q)
              THEN /\ Thru(q, metric', d, here) > 0
                   /\ Total(q, metric', d, cpu'[q] \div NrNodes) < Total(q, metric', d, here)
              ELSE Lat(q, metric', d, here) > 0
=============================================================================
