----------------------------- MODULE MCSteering -----------------------------
(***************************************************************************)
(* Instances of ReqSteering, AppSteering and TargetSteering for TLC.  A    *)
(* behaviour is one of one part: the state space is the sum of those of    *)
(* the parts.                                                              *)
(***************************************************************************)
EXTENDS ReqSteering

VARIABLES
    part,
    s_active, s_req, s_L_metric, s_param, s_changes, s_pc, s_cur_cpu, s_nr_cpus, s_i,
    s_T_active, s_L_read, s_min_nr, s_min_active, s_target_cpu, s_two_cpu, s_two_nr,
    s_seen,
    T_bytes, L_bytes, T_metric, app_L_metric, T_appstr, L_appstr, last_appstr,
    reset_metrics, appstr_app, cpu, th, inflight, version, trail, taken, reqs,
    ticks,
    list, q_cpu, orig_cpu, numa_node, metric, last_cpu, released

scanVars == <<s_active, s_req, s_L_metric, s_param, s_changes, s_pc, s_cur_cpu,
              s_nr_cpus, s_i, s_T_active, s_L_read, s_min_nr, s_min_active,
              s_target_cpu, s_two_cpu, s_two_nr, s_seen>>
appVars == <<T_bytes, L_bytes, T_metric, app_L_metric, T_appstr, L_appstr,
             last_appstr, reset_metrics, appstr_app, cpu, th, inflight, version,
             trail, taken, reqs, ticks>>
targetVars == <<list, q_cpu, orig_cpu, numa_node, metric, last_cpu, released>>
MCvars == <<part, vars, scanVars, appVars, targetVars>>

\* Cores alternate between the nodes, as the code takes for granted.
Alternating == [c \in 0 .. NrCpus - 1 |-> c % NrNodes]

Load(active, req, L) == [active |-> active, req |-> req, L |-> L]

\* Five cores on two nodes, each idle, busy or almost so, and a parameter that
\* is rewritten.
Mix == {Load(0, 0, 0), Load(2, 0, 0), Load(Depth, 0, 0)}

\* The scan of three cores of one node: queues of every length with nothing in
\* the batch, a part of a batch, or a latency application on the core.
AllLoads == {Load(n, 0, 0) : n \in 0 .. Depth} \cup {Load(2, 2, 0), Load(1, 0, 1)}
Scan == INSTANCE ReqSteering WITH NrCpus <- 3, NrNodes <- 1,
    NodeOf <- [c \in 0 .. 2 |-> 0], Params <- {0}, Loads <- AllLoads,
    nr_active <- s_active, nr_req <- s_req, L_metric <- s_L_metric, param <- s_param,
    changes <- s_changes, pc <- s_pc, cur_cpu <- s_cur_cpu, nr_cpus <- s_nr_cpus,
    i <- s_i, T_active <- s_T_active, L_read <- s_L_read, min_nr <- s_min_nr,
    min_active <- s_min_active, target_cpu <- s_target_cpu, two_cpu <- s_two_cpu,
    two_nr <- s_two_nr, seen <- s_seen

\* A T- and an L-application that start on one core of three.  Metrics: T
\* only, T and L, a core too busy with L to be considered.
App == INSTANCE AppSteering WITH
    L_metric <- app_L_metric, App <- {"t1", "l1"}, Thru <- {"t1"},
    NrCpus <- 3, NrNodes <- 1,
    Size <- [a \in {"t1", "l1"} |-> IF a = "t1" THEN 65536 ELSE 4096],
    ThreshL <- 98304, MaxMetric <- 8388608,
    StartCpu <- [a \in {"t1", "l1"} |-> 0],
    Loads <- {[T |-> 65536, L |-> 0], [T |-> 20000, L |-> 4096],
              [T |-> 0, L |-> 98400]},
    MaxReqs <- 2, MaxTicks <- 1
\* What the theorems about AppSteering suppose of the constants.
ASSUME AppAssumption == App!AppConstants

\* The target: four cores on two nodes with a connection closed, two cores of
\* one node with every mix of queues that are idle, busy or about to be steered.
Node2 == INSTANCE TargetSteering WITH cpu <- q_cpu, NrCpus <- 4, NrNodes <- 2,
    MaxQueues <- 6, Busy <- {2, 5}, Samples <- {0, 12}, MinMetric <- 1000, MaxRelease <- 1
Node1 == INSTANCE TargetSteering WITH cpu <- q_cpu, NrCpus <- 2, NrNodes <- 1,
    MaxQueues <- 5, Busy <- {1, 3, 4}, Samples <- {0, 12}, MinMetric <- 1000, MaxRelease <- 0

ReqStill == Init /\ param = 0 /\ \A c \in Cpu : nr_active[c] = 0
ScanStill ==
    /\ s_active = 0 /\ s_req = 0 /\ s_L_metric = 0 /\ s_param = 0 /\ s_changes = 0
    /\ s_pc = 0 /\ s_cur_cpu = 0 /\ s_nr_cpus = 0 /\ s_i = 0 /\ s_T_active = 0
    /\ s_L_read = 0 /\ s_min_nr = 0 /\ s_min_active = 0 /\ s_target_cpu = 0
    /\ s_two_cpu = 0 /\ s_two_nr = 0 /\ s_seen = 0
AppStill ==
    /\ T_bytes = 0 /\ L_bytes = 0 /\ T_metric = 0 /\ app_L_metric = 0
    /\ T_appstr = 0 /\ L_appstr = 0 /\ last_appstr = 0 /\ reset_metrics = 0
    /\ appstr_app = 0 /\ cpu = 0 /\ th = 0 /\ inflight = 0 /\ version = 0
    /\ trail = 0 /\ taken = 0 /\ reqs = 0 /\ ticks = 0
TargetStill ==
    /\ list = 0 /\ q_cpu = 0 /\ orig_cpu = 0 /\ numa_node = 0 /\ metric = 0
    /\ last_cpu = 0 /\ released = 0

MCInit ==
    \/ part = "nodes" /\ Init /\ ScanStill /\ AppStill /\ TargetStill
    \/ part = "scan" /\ Scan!Init /\ ReqStill /\ AppStill /\ TargetStill
    \/ part = "app" /\ App!Init /\ ReqStill /\ ScanStill /\ TargetStill
    \/ part = "node1" /\ Node1!Init /\ ReqStill /\ ScanStill /\ AppStill
    \/ part = "node2" /\ Node2!Init /\ ReqStill /\ ScanStill /\ AppStill

MCNext ==
    /\ part' = part
    /\ \/ part = "nodes" /\ Next /\ UNCHANGED <<scanVars, appVars, targetVars>>
       \/ part = "scan" /\ Scan!Next /\ UNCHANGED <<vars, appVars, targetVars>>
       \/ part = "app" /\ App!Next /\ UNCHANGED <<vars, scanVars, targetVars>>
       \/ part = "node1" /\ Node1!Next /\ UNCHANGED <<vars, scanVars, appVars>>
       \/ part = "node2" /\ Node2!Next /\ UNCHANGED <<vars, scanVars, appVars>>

MCSpec == MCInit /\ [][MCNext]_MCvars

-----------------------------------------------------------------------------
\* ReqSteering, AppSteering, TargetSteering: a scan ends with the best queue, an
\* application moves to the best core of what it read, a queue of the target stays
\* on its node and on a core that exists.
SteersToBetter ==
    /\ part = "scan" => Scan!TypeOK /\ Scan!ScanPicksBest
    /\ part = "app" => App!TypeOK /\ App!SteersToBetter
    /\ part = "node1" => Node1!StaysOnNode
    /\ part = "node2" => Node2!StaysOnNode

\* TargetSteering: a queue moves to a core where it meets less.
SteeredForReason ==
    [][/\ part = "node1" => Node1!SteeredForReasonStep
       /\ part = "node2" => Node2!SteeredForReasonStep]_MCvars

\* AppSteering: one snapshot never sends an application back and forth.
NoPingPong == [][part = "app" => App!NoPingPongStep]_MCvars
=============================================================================
