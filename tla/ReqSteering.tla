---------------------------- MODULE ReqSteering ----------------------------
(***************************************************************************)
(* Request steering (the second half of blk_mq_get_request): a throughput  *)
(* request whose local queue is busy goes to another queue of its node,    *)
(* the one with the fullest batch, or to the better of two drawn at random.*)
(*                                                                         *)
(* A submitter reads nr_active, the L metric and nr_req of one core after  *)
(* another while other CPUs change them: every read is a step of its own.  *)
(* hctx->blk_switch is a bool, so whatever the driver stored reads back as *)
(* BLK_SWITCH_TCP: the branches for RDMA are never taken.                  *)
(***************************************************************************)
EXTENDS Integers, FiniteSets

CONSTANTS
    Thread,         \* submitters
    NrCpus,         \* num_online_cpus()
    NrNodes,        \* num_online_nodes()
    NodeOf,         \* NodeOf[c]: hctx->numa_node of core c's queue
    Params,         \* values written to the parameter blk_switch_nr_cpus
    ThreshB,        \* blk_switch_thresh_B
    Batch,          \* BLK_SWITCH_TCP_BATCH
    MinNr,          \* initial min_nr, 1024 in the code
    MinActive,      \* initial min_active, 2048 in the code
    Depth,          \* tags per queue; bounds nr_req too
    Loads,          \* what may be going on at a core when the model starts
    MaxChanges      \* bound on what the rest of the system does

Cpu == 0 .. NrCpus - 1

ASSUME SteeringAssumption ==
    /\ NrCpus \in Nat \ {0} /\ NrNodes \in 1 .. NrCpus
    /\ NodeOf \in [Cpu -> 0 .. NrNodes - 1]
    /\ Params \subseteq Int /\ ThreshB \in Int
    /\ Batch \in Nat \ {0} /\ MinNr > Batch /\ MinActive \in Nat /\ MinNr \in Nat
    /\ Depth \in Nat \ {0} /\ MaxChanges \in Nat
    /\ Loads \subseteq [active : 0 .. Depth, req : 0 .. Depth, L : {0, 1}]

VARIABLES
    nr_active,   \* hctx->nr_active of each core's default queue
    nr_req,      \* nr_req of the driver's queue behind it
    L_metric,    \* blk_switch_L_metric
    param,       \* blk_switch_nr_cpus
    changes,     \* steps of the rest of the system so far
    pc,          \* where each submitter is
    cur_cpu,     \* the core of data->ctx on entry
    nr_cpus, i,  \* locals of those names
    T_active, L_read,
    min_nr, min_active,
    target_cpu,  \* -1: none yet
    two_cpu,     \* the two cores drawn
    two_nr,      \* the first of the two counts read
    seen         \* history: what the scan read of each core

sysVars == <<nr_active, nr_req, L_metric, param, changes>>
locals == <<pc, cur_cpu, nr_cpus, i, T_active, L_read, min_nr, min_active,
            target_cpu, two_cpu, two_nr, seen>>
vars == <<sysVars, locals>>

Sample == [cpu : Cpu, active : Nat, L : Nat, nr : Int]

Init ==
    /\ \E load \in [Cpu -> Loads] :
          /\ nr_active = [c \in Cpu |-> load[c].active]
          /\ nr_req = [c \in Cpu |-> load[c].req]
          /\ L_metric = [c \in Cpu |-> load[c].L]
    /\ param \in Params /\ changes = 0
    /\ pc = [t \in Thread |-> "idle"] /\ cur_cpu = [t \in Thread |-> 0]
    /\ nr_cpus = [t \in Thread |-> NrCpus] /\ i = [t \in Thread |-> 0]
    /\ T_active = [t \in Thread |-> 0] /\ L_read = [t \in Thread |-> 0]
    /\ min_nr = [t \in Thread |-> MinNr]
    /\ min_active = [t \in Thread |-> MinActive]
    /\ target_cpu = [t \in Thread |-> -1]
    /\ two_cpu = [t \in Thread |-> <<-1, -1>>] /\ two_nr = [t \in Thread |-> 0]
    /\ seen = [t \in Thread |-> {}]

-----------------------------------------------------------------------------
(* A submitter in blk_mq_get_request *)

Goto(t, l) == pc' = [pc EXCEPT ![t] = l]

\* blk_switch_nr_cpus if it makes sense, else every online CPU.
UsableCpus == IF param <= 0 \/ param > NrCpus THEN NrCpus ELSE param

\* Two choices need two cores on each node.
EnoughCpus_One == UsableCpus >= NrNodes
EnoughCpus == UsableCpus >= NrNodes * 2

\* Entry, up to the condition of request steering.  A request that may not
\* be steered (latency, application just steered, feature off) stays local.
Enter(t) ==
    /\ pc[t] = "idle"
    /\ \E c \in Cpu, steerable \in BOOLEAN :
          /\ cur_cpu' = [cur_cpu EXCEPT ![t] = c]
          /\ nr_cpus' = [nr_cpus EXCEPT ![t] = UsableCpus]
          /\ \/ /\ steerable /\ EnoughCpus
                /\ Goto(t, "local")
                /\ UNCHANGED target_cpu
             \/ /\ ~(steerable /\ EnoughCpus)
                /\ Goto(t, "tag")
                /\ target_cpu' = [target_cpu EXCEPT ![t] = c]
    /\ UNCHANGED <<sysVars, i, T_active, L_read, min_nr, min_active, two_cpu,
                   two_nr, seen>>

ReqThresh == IF ThreshB > 0 THEN ThreshB * 2 ELSE Batch * 2

\* 1. Push T-requests into the local queue until it becomes busy.
CheckLocal(t) ==
    /\ pc[t] = "local"
    /\ \/ /\ nr_active[cur_cpu[t]] <= ReqThresh
          /\ target_cpu' = [target_cpu EXCEPT ![t] = cur_cpu[t]]
          /\ Goto(t, "tag")
       \/ /\ nr_active[cur_cpu[t]] > ReqThresh
          /\ Goto(t, "scan")
          /\ UNCHANGED target_cpu
    /\ UNCHANGED <<sysVars, cur_cpu, nr_cpus, i, T_active, L_read, min_nr,
                   min_active, two_cpu, two_nr, seen>>

CoresPerNode(t) == nr_cpus[t] \div NrNodes

\* The k-th core of the submitter's node, if cores alternate between nodes.
CoreAt_Blocked(t, k) == NodeOf[cur_cpu[t]] * CoresPerNode(t) + k
CoreAt(t, k) == k * NrNodes + NodeOf[cur_cpu[t]]

ReadActive(t) ==
    /\ pc[t] = "scan" /\ i[t] < CoresPerNode(t)
    /\ T_active' = [T_active EXCEPT ![t] = nr_active[CoreAt(t, i[t])]]
    /\ Goto(t, "scan_L")
    /\ UNCHANGED <<sysVars, cur_cpu, nr_cpus, i, L_read, min_nr, min_active,
                   target_cpu, two_cpu, two_nr, seen>>

ReadMetric(t) ==
    /\ pc[t] = "scan_L"
    /\ L_read' = [L_read EXCEPT ![t] = L_metric[CoreAt(t, i[t])]]
    /\ Goto(t, "scan_nr")
    /\ UNCHANGED <<sysVars, cur_cpu, nr_cpus, i, T_active, min_nr, min_active,
                   target_cpu, two_cpu, two_nr, seen>>

\* 2. A queue is a candidate if no latency application is on its core and
\* its batch is not complete.  Fewer requests to a full batch are better,
\* then fewer outstanding ones, then the local queue, then a coin.
Candidate(t) == L_read[t] = 0 /\ T_active[t] < Batch

Closer(t, nr) == nr < min_nr[t] \/ (nr = min_nr[t] /\ T_active[t] < min_active[t])
Ties(t, nr) == nr = min_nr[t] /\ T_active[t] = min_active[t]

Take(t, c, nr) ==
    /\ target_cpu' = [target_cpu EXCEPT ![t] = c]
    /\ min_nr' = [min_nr EXCEPT ![t] = nr]
    /\ min_active' = [min_active EXCEPT ![t] = T_active[t]]

\* The same without the test that the local queue was chosen already.
Consider_Coin(t, c, nr) ==
    \/ /\ Candidate(t) /\ (Closer(t, nr) \/ Ties(t, nr))
       /\ Take(t, c, nr)
    \/ /\ ~(Candidate(t) /\ (Closer(t, nr) \/ (Ties(t, nr) /\ c = cur_cpu[t])))
       /\ UNCHANGED <<target_cpu, min_nr, min_active>>

Consider(t, c, nr) ==
    \/ /\ Candidate(t)
       /\ \/ Closer(t, nr)
          \/ Ties(t, nr) /\ (c = cur_cpu[t] \/ target_cpu[t] # cur_cpu[t])
       /\ Take(t, c, nr)
    \/ /\ ~(Candidate(t) /\ (Closer(t, nr) \/ (Ties(t, nr) /\ c = cur_cpu[t])))
       /\ UNCHANGED <<target_cpu, min_nr, min_active>>

ReadBatch(t) ==
    LET c == CoreAt(t, i[t])
        nr == Batch - nr_req[c]
    IN  /\ pc[t] = "scan_nr"
        /\ Consider(t, c, nr)
        /\ seen' = [seen EXCEPT ![t] = @ \cup
              {[cpu |-> c, active |-> T_active[t], L |-> L_read[t], nr |-> nr]}]
        /\ i' = [i EXCEPT ![t] = @ + 1]
        /\ Goto(t, "scan")
        /\ UNCHANGED <<sysVars, cur_cpu, nr_cpus, T_active, L_read, two_cpu, two_nr>>

EndScan_NoDraw(t) ==
    /\ pc[t] = "scan" /\ i[t] >= CoresPerNode(t)
    /\ Goto(t, "tag")
    /\ UNCHANGED <<sysVars, cur_cpu, nr_cpus, i, T_active, L_read, min_nr,
                   min_active, target_cpu, two_cpu, two_nr, seen>>

EndScan(t) ==
    /\ pc[t] = "scan" /\ i[t] >= CoresPerNode(t)
    /\ Goto(t, IF target_cpu[t] < 0 THEN "draw" ELSE "tag")
    /\ UNCHANGED <<sysVars, cur_cpu, nr_cpus, i, T_active, L_read, min_nr,
                   min_active, target_cpu, two_cpu, two_nr, seen>>

\* 3. Power of two choices: the second is drawn until it differs from the
\* first.
DrawFirst(t) ==
    /\ pc[t] = "draw"
    /\ \E k \in 0 .. CoresPerNode(t) - 1 :
          two_cpu' = [two_cpu EXCEPT ![t] = <<CoreAt(t, k), -1>>]
    /\ Goto(t, "draw_other")
    /\ UNCHANGED <<sysVars, cur_cpu, nr_cpus, i, T_active, L_read, min_nr,
                   min_active, target_cpu, two_nr, seen>>

DrawSecond(t) ==
    /\ pc[t] = "draw_other"
    /\ \E k \in 0 .. CoresPerNode(t) - 1 :
          /\ CoreAt(t, k) # two_cpu[t][1]
          /\ two_cpu' = [two_cpu EXCEPT ![t][2] = CoreAt(t, k)]
    /\ Goto(t, "read_first")
    /\ UNCHANGED <<sysVars, cur_cpu, nr_cpus, i, T_active, L_read, min_nr,
                   min_active, target_cpu, two_nr, seen>>

DrawSame(t) ==
    /\ pc[t] = "draw_other"
    /\ \E k \in 0 .. CoresPerNode(t) - 1 : CoreAt(t, k) = two_cpu[t][1]
    /\ UNCHANGED vars

ReadFirst(t) ==
    /\ pc[t] = "read_first"
    /\ two_nr' = [two_nr EXCEPT ![t] = nr_active[two_cpu[t][1]]]
    /\ Goto(t, "read_second")
    /\ UNCHANGED <<sysVars, cur_cpu, nr_cpus, i, T_active, L_read, min_nr,
                   min_active, target_cpu, two_cpu, seen>>

ReadSecond(t) ==
    /\ pc[t] = "read_second"
    /\ target_cpu' = [target_cpu EXCEPT ![t] =
          IF two_nr[t] <= nr_active[two_cpu[t][2]] THEN two_cpu[t][1]
                                                   ELSE two_cpu[t][2]]
    /\ Goto(t, "tag")
    /\ UNCHANGED <<sysVars, cur_cpu, nr_cpus, i, T_active, L_read, min_nr,
                   min_active, two_cpu, two_nr, seen>>

\* The call returns; the next one finds its locals as this one did.
Return(t) ==
    /\ Goto(t, "idle")
    /\ cur_cpu' = [cur_cpu EXCEPT ![t] = 0]
    /\ nr_cpus' = [nr_cpus EXCEPT ![t] = NrCpus]
    /\ i' = [i EXCEPT ![t] = 0]
    /\ T_active' = [T_active EXCEPT ![t] = 0]
    /\ L_read' = [L_read EXCEPT ![t] = 0]
    /\ min_nr' = [min_nr EXCEPT ![t] = MinNr]
    /\ min_active' = [min_active EXCEPT ![t] = MinActive]
    /\ target_cpu' = [target_cpu EXCEPT ![t] = -1]
    /\ two_cpu' = [two_cpu EXCEPT ![t] = <<-1, -1>>]
    /\ two_nr' = [two_nr EXCEPT ![t] = 0]
    /\ seen' = [seen EXCEPT ![t] = {}]

\* A tag of the queue the request was steered to.
GetTag(t) ==
    /\ pc[t] \in {"tag", "retag"} /\ nr_active[target_cpu[t]] < Depth
    /\ nr_active' = [nr_active EXCEPT ![target_cpu[t]] = @ + 1]
    /\ Return(t)
    /\ UNCHANGED <<nr_req, L_metric, param, changes>>

\* No tag, and REQ_NOWAIT: blk_mq_get_request returns NULL.
FailTag(t) ==
    /\ pc[t] \in {"tag", "retag"} /\ nr_active[target_cpu[t]] = Depth
    /\ Return(t)
    /\ UNCHANGED sysVars

\* blk_mq_get_tag slept: it maps the request to the queue of the CPU it
\* woke up on, wherever it had been steered.
WaitTag(t) ==
    /\ pc[t] \in {"tag", "retag"} /\ nr_active[target_cpu[t]] = Depth
    /\ \E c \in Cpu : target_cpu' = [target_cpu EXCEPT ![t] = c]
    /\ Goto(t, "retag")
    /\ UNCHANGED <<sysVars, cur_cpu, nr_cpus, i, T_active, L_read, min_nr,
                   min_active, two_cpu, two_nr, seen>>

Steer(t) ==
    \/ Enter(t) \/ CheckLocal(t)
    \/ ReadActive(t) \/ ReadMetric(t) \/ ReadBatch(t) \/ EndScan(t)
    \/ DrawFirst(t) \/ DrawSecond(t) \/ DrawSame(t)
    \/ ReadFirst(t) \/ ReadSecond(t)
    \/ GetTag(t) \/ FailTag(t) \/ WaitTag(t)

-----------------------------------------------------------------------------
(* The rest of the system changes what the submitters read *)

Change == changes < MaxChanges /\ changes' = changes + 1

\* nvme_tcp_queue_request counts a request, or its data after an R2T.
Issue(c) ==
    /\ Change /\ nr_active[c] > 0 /\ nr_req[c] < Depth
    /\ nr_req' = [nr_req EXCEPT ![c] = @ + 1]
    /\ UNCHANGED <<nr_active, L_metric, param, locals>>

\* nvme_tcp_try_send accounts a caravan.
Drain(c) ==
    /\ Change
    /\ \E n \in 0 .. Depth : n < nr_req[c] /\ nr_req' = [nr_req EXCEPT ![c] = n]
    /\ UNCHANGED <<nr_active, L_metric, param, locals>>

\* blk_mq_free_request
Complete(c) ==
    /\ Change /\ nr_active[c] > 0
    /\ nr_active' = [nr_active EXCEPT ![c] = @ - 1]
    /\ UNCHANGED <<nr_req, L_metric, param, locals>>

\* A latency request arrives on a core, or its average fades.
ChangeMetric(c) ==
    /\ Change
    /\ L_metric' = [L_metric EXCEPT ![c] = 1 - @]
    /\ UNCHANGED <<nr_active, nr_req, param, locals>>

WriteParam ==
    /\ Change
    /\ \E v \in Params : v # param /\ param' = v
    /\ UNCHANGED <<nr_active, nr_req, L_metric, locals>>

Next ==
    \/ \E t \in Thread : Steer(t)
    \/ \E c \in Cpu : Issue(c) \/ Drain(c) \/ Complete(c) \/ ChangeMetric(c)
    \/ WriteParam

Spec == Init /\ [][Next]_vars

\* A submitter goes on; get_random_bytes does not draw the same core forever.
FairSpec == Spec /\ \A t \in Thread : WF_vars(pc[t] # "idle" /\ Steer(t))

-----------------------------------------------------------------------------
(* Properties *)

Steering == {"local", "scan", "scan_L", "scan_nr", "draw", "draw_other",
             "read_first", "read_second"}

TypeOK ==
    /\ nr_active \in [Cpu -> 0 .. Depth] /\ nr_req \in [Cpu -> 0 .. Depth]
    /\ L_metric \in [Cpu -> {0, 1}] /\ param \in Params
    /\ changes \in 0 .. MaxChanges
    /\ pc \in [Thread -> Steering \cup {"idle", "tag", "retag"}]
    /\ cur_cpu \in [Thread -> Cpu] /\ nr_cpus \in [Thread -> 1 .. NrCpus]
    /\ i \in [Thread -> Nat]
    /\ T_active \in [Thread -> 0 .. Depth] /\ L_read \in [Thread -> {0, 1}]
    /\ min_nr \in [Thread -> Int] /\ min_active \in [Thread -> Nat]
    /\ target_cpu \in [Thread -> Cpu \cup {-1}]
    /\ two_cpu \in [Thread -> (Cpu \cup {-1}) \X (Cpu \cup {-1})]
    /\ two_nr \in [Thread -> 0 .. Depth]
    /\ seen \in [Thread -> SUBSET Sample]
    /\ \A t \in Thread : pc[t] \in {"tag", "retag"} => target_cpu[t] \in Cpu

\* A total preorder on what the scan read: distance to a full batch, then
\* requests outstanding.
Better(a, b) == a.nr < b.nr \/ (a.nr = b.nr /\ a.active < b.active)
Candidates(t) == {s \in seen[t] : s.L = 0 /\ s.active < Batch}

\* The scan, one comparison at a time, ends with what its comments say: of
\* the values it read, no candidate is better than the target, the local
\* queue wins its ties, and there is no target only if there is no candidate.
ScanPicksBest ==
    \A t \in Thread : pc[t] \in {"scan", "draw"} =>
        \/ Candidates(t) = {} /\ target_cpu[t] = -1
        \/ \E s \in Candidates(t) :
              /\ s.cpu = target_cpu[t]
              /\ \A o \in Candidates(t) :
                    /\ ~Better(o, s)
                    /\ o.cpu = cur_cpu[t] /\ ~Better(s, o) => s.cpu = cur_cpu[t]

\* A request is steered to a core of its own node among the first
\* blk_switch_nr_cpus, whatever is written to that parameter meanwhile.
TargetOnNode ==
    \A t \in Thread : pc[t] = "tag" /\ target_cpu[t] # cur_cpu[t] =>
        /\ target_cpu[t] < nr_cpus[t]
        /\ NodeOf[target_cpu[t]] = NodeOf[cur_cpu[t]]

\* Steering decides: the scan ends, and so does the draw of two different
\* cores, which the guard nr_cpus >= nr_nodes * 2 is there for.
SteeringEnds == \A t \in Thread : pc[t] = "local" ~> pc[t] = "tag"
=============================================================================
