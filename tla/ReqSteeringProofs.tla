------------------------- MODULE ReqSteeringProofs -------------------------
(***************************************************************************)
(* Proofs about ReqSteering, for any number of submitters, cores and nodes.*)
(***************************************************************************)
EXTENDS ReqSteering, TLAPS

-----------------------------------------------------------------------------
(* Cores of a node *)

(* i * nr_nodes + cur_node stays below nr_cpus for i < nr_cpus / nr_nodes. *)
LEMMA CoreBound ==
  ASSUME NEW d \in Nat \ {0}, NEW n \in Nat, NEW r \in 0 .. d - 1,
         NEW k \in 0 .. (n \div d) - 1
  PROVE  k * d + r \in 0 .. n - 1
<1> DEFINE q == n \div d
<1>1. q \in Nat /\ q * d <= n
  OBVIOUS
<1>2. k + 1 <= q /\ k \in Nat
  BY <1>1
<1>3. (k + 1) * d <= q * d
  <2> HIDE DEF q
  <2> QED BY <1>1, <1>2
<1>4. (k + 1) * d = k * d + d /\ k * d \in Nat
  BY <1>2
<1> HIDE DEF q
<1> QED
  BY <1>1, <1>3, <1>4

(* A core reached from cur_node in steps of nr_nodes has that remainder. *)
LEMMA CoreNode ==
  ASSUME NEW d \in Nat \ {0}, NEW r \in 0 .. d - 1, NEW k \in Nat
  PROVE  (k * d + r) % d = r
<1> DEFINE x == k * d + r
<1>1. k * d \in Nat /\ x \in Nat
  OBVIOUS
<1>2. x = (x \div d) * d + (x % d) /\ x % d \in 0 .. d - 1 /\ x \div d \in Nat
  BY <1>1
<1> QED
  BY <1>1, <1>2

-----------------------------------------------------------------------------
(* Types, and which cores a submitter can have at hand *)

NodeCores(t) == {CoreAt(t, k) : k \in 0 .. CoresPerNode(t) - 1}

Hand(t) ==
    /\ pc[t] = "idle" => target_cpu[t] = -1
    /\ pc[t] \in {"scan_L", "scan_nr"} => i[t] < CoresPerNode(t)
    /\ pc[t] \in {"draw_other", "read_first", "read_second"}
          => two_cpu[t][1] \in NodeCores(t)
    /\ pc[t] \in {"read_first", "read_second"} => two_cpu[t][2] \in NodeCores(t)
    /\ pc[t] # "retag" => target_cpu[t] \in {-1, cur_cpu[t]} \cup NodeCores(t)

HandInv == \A t \in Thread : Hand(t)

TInv == TypeOK /\ HandInv

(* Every core of the scan and of the draw is one of the first nr_cpus. *)
LEMMA CoresInRange ==
  ASSUME TypeOK, NEW t \in Thread
  PROVE  /\ CoresPerNode(t) \in Nat
         /\ NodeCores(t) \subseteq Cpu
         /\ \A c \in NodeCores(t) : c < nr_cpus[t]
         /\ \A k \in 0 .. CoresPerNode(t) - 1 : CoreAt(t, k) \in NodeCores(t)
<1> DEFINE n == nr_cpus[t]  r == NodeOf[cur_cpu[t]]
<1>1. /\ n \in 1 .. NrCpus /\ r \in 0 .. NrNodes - 1
      /\ NrNodes \in Nat \ {0} /\ NrCpus \in Nat
  BY SteeringAssumption DEF TypeOK
<1>2. CoresPerNode(t) \in Nat
  BY <1>1 DEF CoresPerNode
<1>3. ASSUME NEW k \in 0 .. CoresPerNode(t) - 1
      PROVE  CoreAt(t, k) \in 0 .. n - 1
  <2> HIDE DEF n, r
  <2>1. k \in 0 .. (n \div NrNodes) - 1
    BY DEF n, CoresPerNode
  <2>2. k * NrNodes + r \in 0 .. n - 1
    BY <1>1, <2>1, CoreBound
  <2> QED
    BY <2>2 DEF r, CoreAt
<1> QED
  BY <1>1, <1>2, <1>3 DEF NodeCores, Cpu

(* At entry every local has its initial value. *)
LEMMA HandInit == Init => TInv
<1> SUFFICES ASSUME Init PROVE TInv
  OBVIOUS
<1> USE SteeringAssumption
<1>1. PICK load \in [Cpu -> Loads] :
          /\ nr_active = [c \in Cpu |-> load[c].active]
          /\ nr_req = [c \in Cpu |-> load[c].req]
          /\ L_metric = [c \in Cpu |-> load[c].L]
  BY DEF Init
<1>2. \A c \in Cpu : /\ load[c].active \in 0 .. Depth /\ load[c].req \in 0 .. Depth
                      /\ load[c].L \in {0, 1}
  BY <1>1
<1>3. /\ nr_active \in [Cpu -> 0 .. Depth] /\ nr_req \in [Cpu -> 0 .. Depth]
      /\ L_metric \in [Cpu -> {0, 1}]
  BY <1>1, <1>2
<1>4. 0 \in Cpu /\ NrCpus \in 1 .. NrCpus /\ 0 \in 0 .. Depth /\ MinNr \in Int
  BY DEF Cpu
<1>5. TypeOK
  BY <1>3, <1>4 DEF Init, TypeOK, Steering, Sample
<1>6. HandInv
  BY DEF Init, HandInv, Hand
<1> QED
  BY <1>5, <1>6 DEF TInv

(* The cores of its node are fixed while a submitter decides. *)
LEMMA CoresKept ==
  ASSUME NEW t \in Thread, nr_cpus'[t] = nr_cpus[t], cur_cpu'[t] = cur_cpu[t]
  PROVE  CoresPerNode(t)' = CoresPerNode(t) /\ NodeCores(t)' = NodeCores(t)
  BY DEF CoresPerNode, NodeCores, CoreAt

(* Every step of a submitter, and of the rest of the system, keeps both. *)
LEMMA HandNext == TInv /\ [Next]_vars => TInv'
<1> SUFFICES ASSUME TInv, [Next]_vars PROVE TInv'
  OBVIOUS
<1> USE SteeringAssumption DEF TInv
<1>1. ASSUME NEW t \in Thread, Enter(t) PROVE TInv'
  <2>0. UsableCpus \in 1 .. NrCpus
    BY DEF TypeOK, UsableCpus
  <2>a. PICK c \in Cpu :
          /\ cur_cpu' = [cur_cpu EXCEPT ![t] = c]
          /\ nr_cpus' = [nr_cpus EXCEPT ![t] = UsableCpus]
          /\ \/ pc' = [pc EXCEPT ![t] = "local"] /\ target_cpu' = target_cpu
             \/ /\ pc' = [pc EXCEPT ![t] = "tag"]
                /\ target_cpu' = [target_cpu EXCEPT ![t] = c]
    BY <1>1 DEF Enter, Goto
  <2>b. UNCHANGED <<sysVars, i, T_active, L_read, min_nr, min_active, two_cpu,
                    two_nr, seen>>
    BY <1>1 DEF Enter
  <2>1. TypeOK'
    <3>1. /\ cur_cpu' \in [Thread -> Cpu] /\ nr_cpus' \in [Thread -> 1 .. NrCpus]
      BY <2>0, <2>a DEF TypeOK
    <3>2. /\ pc' \in [Thread -> Steering \cup {"idle", "tag", "retag"}]
          /\ target_cpu' \in [Thread -> Cpu \cup {-1}]
      <4>1. CASE target_cpu' = target_cpu /\ pc' = [pc EXCEPT ![t] = "local"]
        BY <4>1 DEF TypeOK, Steering
      <4>2. CASE /\ target_cpu' = [target_cpu EXCEPT ![t] = c]
                 /\ pc' = [pc EXCEPT ![t] = "tag"]
        BY <2>a, <4>2 DEF TypeOK, Steering
      <4> QED
        BY <2>a, <4>1, <4>2
    <3>3. ASSUME NEW u \in Thread, pc'[u] \in {"tag", "retag"}
          PROVE  target_cpu'[u] \in Cpu
      <4>1. CASE u = t
        BY <2>a, <3>3, <4>1 DEF TypeOK
      <4>2. CASE u # t
        BY <2>a, <3>3, <4>2 DEF TypeOK
      <4> QED BY <4>1, <4>2
    <3> QED
      BY <2>b, <3>1, <3>2, <3>3 DEF TypeOK, sysVars
  <2>2. ASSUME NEW u \in Thread, u # t PROVE Hand(u)'
    BY <1>1, <2>2, CoresKept DEF TypeOK, Hand, HandInv, Enter, Goto
  <2>3. Hand(t)'
    BY <1>1, CoresKept, CoresInRange DEF TypeOK, Hand, HandInv, Enter, Goto
  <2> QED
    BY <2>1, <2>2, <2>3 DEF HandInv
<1>2. ASSUME NEW t \in Thread, CheckLocal(t) PROVE TInv'
  <2>1. TypeOK'
    <3>1. \/ /\ pc' = [pc EXCEPT ![t] = "tag"]
             /\ target_cpu' = [target_cpu EXCEPT ![t] = cur_cpu[t]]
          \/ pc' = [pc EXCEPT ![t] = "scan"] /\ target_cpu' = target_cpu
      BY <1>2 DEF CheckLocal, Goto
    <3>2. UNCHANGED <<sysVars, cur_cpu, nr_cpus, i, T_active, L_read, min_nr,
                      min_active, two_cpu, two_nr, seen>>
      BY <1>2 DEF CheckLocal
    <3>3. /\ pc' \in [Thread -> Steering \cup {"idle", "tag", "retag"}]
          /\ target_cpu' \in [Thread -> Cpu \cup {-1}]
      BY <3>1 DEF TypeOK, Steering
    <3>4. \A u \in Thread : pc'[u] \in {"tag", "retag"} => target_cpu'[u] \in Cpu
      BY <3>1 DEF TypeOK
    <3> QED
      BY <3>2, <3>3, <3>4 DEF TypeOK, sysVars
  <2>2. ASSUME NEW u \in Thread, u # t PROVE Hand(u)'
    BY <1>2, <2>2, CoresKept DEF TypeOK, Hand, HandInv, CheckLocal, Goto
  <2>3. Hand(t)'
    BY <1>2, CoresKept, CoresInRange DEF TypeOK, Hand, HandInv, CheckLocal, Goto
  <2> QED
    BY <2>1, <2>2, <2>3 DEF HandInv
<1>3. ASSUME NEW t \in Thread, ReadActive(t) PROVE TInv'
  <2>1. TypeOK'
    BY <1>3, CoresInRange, SMTT(60) DEF TypeOK, Hand, HandInv, ReadActive, Goto, sysVars, Steering
  <2>2. ASSUME NEW u \in Thread, u # t PROVE Hand(u)'
    BY <1>3, <2>2, CoresKept DEF TypeOK, Hand, HandInv, ReadActive, Goto
  <2>3. Hand(t)'
    BY <1>3, CoresKept, CoresInRange DEF TypeOK, Hand, HandInv, ReadActive, Goto
  <2> QED
    BY <2>1, <2>2, <2>3 DEF HandInv
<1>4. ASSUME NEW t \in Thread, ReadMetric(t) PROVE TInv'
  <2>1. TypeOK'
    BY <1>4, CoresInRange, SMTT(60) DEF TypeOK, Hand, HandInv, ReadMetric, Goto, sysVars, Steering
  <2>2. ASSUME NEW u \in Thread, u # t PROVE Hand(u)'
    BY <1>4, <2>2, CoresKept DEF TypeOK, Hand, HandInv, ReadMetric, Goto
  <2>3. Hand(t)'
    BY <1>4, CoresKept, CoresInRange DEF TypeOK, Hand, HandInv, ReadMetric, Goto
  <2> QED
    BY <2>1, <2>2, <2>3 DEF HandInv
<1>5. ASSUME NEW t \in Thread, ReadBatch(t) PROVE TInv'
  <2>1. TypeOK'
    <3> DEFINE c == CoreAt(t, i[t])  nr == Batch - nr_req[c]
          x == [cpu |-> c, active |-> T_active[t], L |-> L_read[t], nr |-> nr]
    <3>1. c \in Cpu
      BY <1>5, CoresInRange DEF TypeOK, Hand, HandInv, ReadBatch
    <3>2. nr \in Int
      BY <3>1 DEF TypeOK
    <3>3. x \in Sample
      BY <3>1, <3>2 DEF TypeOK, Sample
    <3>4. /\ pc' = [pc EXCEPT ![t] = "scan"] /\ i' = [i EXCEPT ![t] = @ + 1]
          /\ seen' = [seen EXCEPT ![t] = @ \cup {x}]
          /\ UNCHANGED <<sysVars, cur_cpu, nr_cpus, T_active, L_read, two_cpu, two_nr>>
      BY <1>5 DEF ReadBatch, Goto
    <3>5. \/ /\ target_cpu' = [target_cpu EXCEPT ![t] = c]
             /\ min_nr' = [min_nr EXCEPT ![t] = nr]
             /\ min_active' = [min_active EXCEPT ![t] = T_active[t]]
          \/ UNCHANGED <<target_cpu, min_nr, min_active>>
      BY <1>5 DEF ReadBatch, Consider, Take
    <3> HIDE DEF c, nr, x
    <3>6. seen' \in [Thread -> SUBSET Sample] /\ i' \in [Thread -> Nat]
      BY <3>3, <3>4 DEF TypeOK
    <3>7. /\ pc' \in [Thread -> Steering \cup {"idle", "tag", "retag"}]
          /\ \A u \in Thread : pc'[u] \in {"tag", "retag"} => u # t /\ pc'[u] = pc[u]
      BY <3>4 DEF TypeOK, Steering
    <3>8. /\ target_cpu' \in [Thread -> Cpu \cup {-1}]
          /\ min_nr' \in [Thread -> Int] /\ min_active' \in [Thread -> Nat]
          /\ \A u \in Thread : u # t => target_cpu'[u] = target_cpu[u]
      <4>1. T_active[t] \in Nat
        BY DEF TypeOK
      <4> QED
        BY <3>1, <3>2, <3>5, <4>1 DEF TypeOK
    <3> QED
      BY <3>4, <3>6, <3>7, <3>8 DEF TypeOK, sysVars
  <2>2. ASSUME NEW u \in Thread, u # t PROVE Hand(u)'
    BY <1>5, <2>2, CoresKept DEF TypeOK, Hand, HandInv, ReadBatch, Goto, Consider, Take
  <2>3. Hand(t)'
    BY <1>5, CoresKept, CoresInRange DEF TypeOK, Hand, HandInv, ReadBatch, Goto, Consider, Take
  <2> QED
    BY <2>1, <2>2, <2>3 DEF HandInv
<1>6. ASSUME NEW t \in Thread, EndScan(t) PROVE TInv'
  <2>1. TypeOK'
    BY <1>6, CoresInRange, SMTT(60) DEF TypeOK, Hand, HandInv, EndScan, Goto, sysVars, Steering
  <2>2. ASSUME NEW u \in Thread, u # t PROVE Hand(u)'
    BY <1>6, <2>2, CoresKept DEF TypeOK, Hand, HandInv, EndScan, Goto
  <2>3. Hand(t)'
    BY <1>6, CoresKept, CoresInRange DEF TypeOK, Hand, HandInv, EndScan, Goto
  <2> QED
    BY <2>1, <2>2, <2>3 DEF HandInv
<1>7. ASSUME NEW t \in Thread, DrawFirst(t) PROVE TInv'
  <2>1. TypeOK'
    BY <1>7, CoresInRange, SMTT(60) DEF TypeOK, Hand, HandInv, DrawFirst, Goto, sysVars, Steering
  <2>2. ASSUME NEW u \in Thread, u # t PROVE Hand(u)'
    BY <1>7, <2>2, CoresKept DEF TypeOK, Hand, HandInv, DrawFirst, Goto
  <2>3. Hand(t)'
    BY <1>7, CoresKept, CoresInRange DEF TypeOK, Hand, HandInv, DrawFirst, Goto
  <2> QED
    BY <2>1, <2>2, <2>3 DEF HandInv
<1>8. ASSUME NEW t \in Thread, DrawSecond(t) PROVE TInv'
  <2>1. TypeOK'
    BY <1>8, CoresInRange, SMTT(60) DEF TypeOK, Hand, HandInv, DrawSecond, Goto, sysVars, Steering
  <2>2. ASSUME NEW u \in Thread, u # t PROVE Hand(u)'
    BY <1>8, <2>2, CoresKept DEF TypeOK, Hand, HandInv, DrawSecond, Goto
  <2>3. Hand(t)'
    BY <1>8, CoresKept, CoresInRange DEF TypeOK, Hand, HandInv, DrawSecond, Goto
  <2> QED
    BY <2>1, <2>2, <2>3 DEF HandInv
<1>9. ASSUME NEW t \in Thread, ReadFirst(t) PROVE TInv'
  <2>1. TypeOK'
    BY <1>9, CoresInRange, SMTT(60) DEF TypeOK, Hand, HandInv, ReadFirst, Goto, sysVars, Steering
  <2>2. ASSUME NEW u \in Thread, u # t PROVE Hand(u)'
    BY <1>9, <2>2, CoresKept DEF TypeOK, Hand, HandInv, ReadFirst, Goto
  <2>3. Hand(t)'
    BY <1>9, CoresKept, CoresInRange DEF TypeOK, Hand, HandInv, ReadFirst, Goto
  <2> QED
    BY <2>1, <2>2, <2>3 DEF HandInv
<1>10. ASSUME NEW t \in Thread, ReadSecond(t) PROVE TInv'
  <2>1. TypeOK'
    BY <1>10, CoresInRange, SMTT(60)
       DEF TypeOK, Hand, HandInv, ReadSecond, Goto, sysVars, Steering
  <2>2. ASSUME NEW u \in Thread, u # t PROVE Hand(u)'
    BY <1>10, <2>2, CoresKept DEF TypeOK, Hand, HandInv, ReadSecond, Goto
  <2>3. Hand(t)'
    BY <1>10, CoresKept, CoresInRange DEF TypeOK, Hand, HandInv, ReadSecond, Goto
  <2> QED
    BY <2>1, <2>2, <2>3 DEF HandInv
<1>11. ASSUME NEW t \in Thread, GetTag(t) PROVE TInv'
  <2>1. TypeOK'
    <3>1. 0 \in Cpu /\ NrCpus \in 1 .. NrCpus /\ MinNr \in Int /\ 0 \in 0 .. Depth
      BY DEF Cpu
    <3>2. nr_active' \in [Cpu -> 0 .. Depth]
      BY <1>11 DEF TypeOK, GetTag
    <3> QED
      BY <1>11, <3>1, <3>2, SMTT(60) DEF TypeOK, GetTag, Goto, sysVars, Return, Steering
  <2>2. ASSUME NEW u \in Thread, u # t PROVE Hand(u)'
    BY <1>11, <2>2, CoresKept DEF TypeOK, Hand, HandInv, GetTag, Goto, Return
  <2>3. Hand(t)'
    BY <1>11, CoresKept, CoresInRange DEF TypeOK, Hand, HandInv, GetTag, Goto, Return
  <2> QED
    BY <2>1, <2>2, <2>3 DEF HandInv
<1>12. ASSUME NEW t \in Thread, FailTag(t) PROVE TInv'
  <2>1. TypeOK'
    <3>1. 0 \in Cpu /\ NrCpus \in 1 .. NrCpus /\ MinNr \in Int /\ 0 \in 0 .. Depth
      BY DEF Cpu
    <3>2. UNCHANGED sysVars
      BY <1>12 DEF FailTag
    <3> QED
      BY <1>12, <3>1, <3>2, SMTT(60) DEF TypeOK, FailTag, Goto, sysVars, Return, Steering
  <2>2. ASSUME NEW u \in Thread, u # t PROVE Hand(u)'
    BY <1>12, <2>2, CoresKept DEF TypeOK, Hand, HandInv, FailTag, Goto, Return
  <2>3. Hand(t)'
    BY <1>12, CoresKept, CoresInRange DEF TypeOK, Hand, HandInv, FailTag, Goto, Return
  <2> QED
    BY <2>1, <2>2, <2>3 DEF HandInv
<1>13. ASSUME NEW t \in Thread, WaitTag(t) PROVE TInv'
  <2>1. TypeOK'
    BY <1>13, CoresInRange, SMTT(60) DEF TypeOK, Hand, HandInv, WaitTag, Goto, sysVars, Steering
  <2>2. ASSUME NEW u \in Thread, u # t PROVE Hand(u)'
    BY <1>13, <2>2, CoresKept DEF TypeOK, Hand, HandInv, WaitTag, Goto
  <2>3. Hand(t)'
    BY <1>13, CoresKept, CoresInRange DEF TypeOK, Hand, HandInv, WaitTag, Goto
  <2> QED
    BY <2>1, <2>2, <2>3 DEF HandInv
<1>14. ASSUME NEW c \in Cpu, Issue(c) \/ Drain(c) \/ Complete(c) \/ ChangeMetric(c)
       PROVE  TInv'
  <2>1. TypeOK'
    <3>1. CASE Issue(c)
      BY <3>1 DEF TypeOK, Issue, Change, locals
    <3>2. CASE Drain(c)
      BY <3>2 DEF TypeOK, Drain, Change, locals
    <3>3. CASE Complete(c)
      BY <3>3 DEF TypeOK, Complete, Change, locals
    <3>4. CASE ChangeMetric(c)
      <4>1. L_metric' \in [Cpu -> {0, 1}]
        BY <3>4 DEF TypeOK, ChangeMetric
      <4> QED
        BY <3>4, <4>1 DEF TypeOK, ChangeMetric, Change, locals
    <3> QED
      BY <1>14, <3>1, <3>2, <3>3, <3>4
  <2>2. ASSUME NEW u \in Thread PROVE Hand(u)'
    BY <1>14, CoresKept
    DEF Hand, HandInv, Issue, Drain, Complete, ChangeMetric, locals
  <2> QED
    BY <2>1, <2>2 DEF HandInv
<1>15. CASE WriteParam \/ vars' = vars
  <2>1. TypeOK'
    BY <1>15 DEF TypeOK, WriteParam, Change, vars, sysVars, locals
  <2>2. ASSUME NEW u \in Thread PROVE Hand(u)'
    BY <1>15, CoresKept DEF Hand, HandInv, WriteParam, vars, locals
  <2> QED
    BY <2>1, <2>2 DEF HandInv
<1> QED
  BY <1>1, <1>2, <1>3, <1>4, <1>5, <1>6, <1>7, <1>8, <1>9, <1>10, <1>11, <1>12,
     <1>13, <1>14, <1>15 DEF Next, Steer, DrawSame

(* What TypeOK says holds in every run: no submitter gets to a tag without *)
(* a target, and every target is an online core.                           *)
THEOREM SteeringTypes == Spec => []TypeOK
<1>1. Spec => []TInv
  BY HandInit, HandNext, PTL DEF Spec
<1>2. TInv => TypeOK
  BY DEF TInv
<1> QED
  BY <1>1, <1>2, PTL

-----------------------------------------------------------------------------
(* The target is on the node *)

(* With cores that alternate between the nodes, which is the layout that    *)
(* i * nr_nodes + cur_node enumerates, a steered request stays on its node *)
(* and within nr_cpus.                                                     *)
THEOREM TargetCorrect ==
  ASSUME \A c \in Cpu : NodeOf[c] = c % NrNodes
  PROVE  Spec => []TargetOnNode
<1>1. Spec => []TInv
  BY HandInit, HandNext, PTL DEF Spec
<1>2. TInv => TargetOnNode
  <2> SUFFICES ASSUME TInv, NEW t \in Thread, pc[t] = "tag",
                      target_cpu[t] # cur_cpu[t]
               PROVE  /\ target_cpu[t] < nr_cpus[t]
                      /\ NodeOf[target_cpu[t]] = NodeOf[cur_cpu[t]]
    BY DEF TargetOnNode
  <2> USE SteeringAssumption DEF TInv
  <2>1. target_cpu[t] \in NodeCores(t)
    <3>1. target_cpu[t] \in Cpu
      BY DEF TypeOK
    <3>2. -1 \notin Cpu
      BY DEF Cpu
    <3>3. target_cpu[t] \in {-1, cur_cpu[t]} \cup NodeCores(t)
      BY DEF HandInv, Hand
    <3> QED
      BY <3>1, <3>2, <3>3
  <2>2. PICK k \in 0 .. CoresPerNode(t) - 1 : target_cpu[t] = CoreAt(t, k)
    BY <2>1 DEF NodeCores
  <2>3. target_cpu[t] \in Cpu /\ target_cpu[t] < nr_cpus[t] /\ k \in Nat
    BY <2>1, CoresInRange
  <2>4. NodeOf[cur_cpu[t]] \in 0 .. NrNodes - 1 /\ NrNodes \in Nat \ {0}
    BY DEF TypeOK
  <2>5. CoreAt(t, k) % NrNodes = NodeOf[cur_cpu[t]]
    BY <2>3, <2>4, CoreNode DEF CoreAt
  <2> QED
    BY <2>2, <2>3, <2>5
<1> QED
  BY <1>1, <1>2, PTL

-----------------------------------------------------------------------------
(* The scan *)

Leads(t, s) ==
    /\ s.cpu = target_cpu[t] /\ s.nr = min_nr[t] /\ s.active = min_active[t]
    /\ \A o \in Candidates(t) :
          /\ ~Better(o, s)
          /\ o.cpu = cur_cpu[t] /\ ~Better(s, o) => s.cpu = cur_cpu[t]

\* min_nr and min_active are those of the best candidate so far.
Led(t) ==
    \/ Candidates(t) = {} /\ target_cpu[t] = -1 /\ min_nr[t] = MinNr
    \/ \E s \in Candidates(t) : Leads(t, s)

ScanInv ==
    \A t \in Thread :
      /\ pc[t] \in {"idle", "local"} =>
            seen[t] = {} /\ target_cpu[t] = -1 /\ min_nr[t] = MinNr
      /\ pc[t] \in {"scan", "scan_L", "scan_nr", "draw"} => Led(t)

(* One iteration of the loop keeps the best of what was read so far. *)
LEMMA Iteration ==
  ASSUME TInv, NEW t \in Thread, ReadBatch(t), Led(t)
  PROVE  Led(t)'
<1>0. PICK c, nr, x :
         /\ c = CoreAt(t, i[t]) /\ nr = Batch - nr_req[c]
         /\ x = [cpu |-> c, active |-> T_active[t], L |-> L_read[t], nr |-> nr]
  OBVIOUS
<1>1. c \in Cpu
  <2>1. TypeOK /\ i[t] < CoresPerNode(t)
    BY DEF TInv, Hand, HandInv, ReadBatch
  <2>2. i[t] \in Nat
    BY <2>1 DEF TypeOK
  <2>3. CoresPerNode(t) \in Nat /\ NodeCores(t) \subseteq Cpu
        /\ \A k \in 0 .. CoresPerNode(t) - 1 : CoreAt(t, k) \in NodeCores(t)
    BY <2>1, CoresInRange
  <2>4. i[t] \in 0 .. CoresPerNode(t) - 1
    BY <2>1, <2>2, <2>3
  <2> QED
    BY <1>0, <2>3, <2>4
<1>2. /\ nr \in Int /\ nr < MinNr /\ T_active[t] \in Nat
      /\ min_nr[t] \in Int /\ min_active[t] \in Nat /\ MinNr \in Int
  BY SteeringAssumption, <1>0, <1>1 DEF TInv, TypeOK
<1>3. \A s \in Candidates(t) : s.nr \in Int /\ s.active \in Nat
  BY DEF TInv, TypeOK, Candidates, Sample
<1>4. /\ cur_cpu'[t] = cur_cpu[t] /\ seen'[t] = seen[t] \cup {x}
      /\ Consider(t, c, nr)
  BY <1>0 DEF ReadBatch, TInv, TypeOK
<1>5. x.cpu = c /\ x.active = T_active[t] /\ x.L = L_read[t] /\ x.nr = nr
  BY <1>0
<1>6. \/ Candidate(t) /\ Candidates(t)' = Candidates(t) \cup {x}
      \/ ~Candidate(t) /\ Candidates(t)' = Candidates(t)
  BY <1>4, <1>5 DEF Candidates, Candidate
<1>7. Take(t, c, nr) => /\ target_cpu'[t] = c /\ min_nr'[t] = nr
                        /\ min_active'[t] = T_active[t]
  BY DEF Take, TInv, TypeOK
<1>8. CASE ~Candidate(t)
  <2>1. UNCHANGED <<target_cpu, min_nr, min_active>> /\ Candidates(t)' = Candidates(t)
    BY <1>4, <1>6, <1>8 DEF Consider
  <2> QED
    BY <1>4, <2>1 DEF Led, Leads
<1>9. CASE Candidate(t) /\ Candidates(t) = {} /\ min_nr[t] = MinNr
  <2>1. Closer(t, nr)
    BY <1>2, <1>9 DEF Closer
  <2>2. Take(t, c, nr)
    BY <1>4, <1>9, <2>1 DEF Consider
  <2>3. Candidates(t)' = {x}
    BY <1>6, <1>9
  <2>4. Leads(t, x)'
    <3>1. ~Better(x, x)
      BY <1>2, <1>5 DEF Better
    <3>2. x.cpu = target_cpu'[t] /\ x.nr = min_nr'[t] /\ x.active = min_active'[t]
      BY <1>5, <1>7, <2>2
    <3> QED
      BY <2>3, <3>1, <3>2 DEF Leads, Better
  <2> QED
    BY <2>3, <2>4 DEF Led
<1>10. ASSUME Candidate(t), NEW s \in Candidates(t), Leads(t, s)
       PROVE  Led(t)'
  <2>0. /\ s.nr = min_nr[t] /\ s.active = min_active[t] /\ s.cpu = target_cpu[t]
        /\ s.nr \in Int /\ s.active \in Nat /\ x.nr \in Int /\ x.active \in Nat
    BY <1>2, <1>3, <1>5, <1>10 DEF Leads
  <2>a. ~Better(x, x)
    BY <2>0 DEF Better
  <2>1. Candidates(t)' = Candidates(t) \cup {x}
    BY <1>6, <1>10
  <2>2. CASE Take(t, c, nr) /\ Closer(t, nr)
    <3>0. x.cpu = target_cpu'[t] /\ x.nr = min_nr'[t] /\ x.active = min_active'[t]
      BY <1>5, <1>7, <2>2
    <3>a. Better(x, s)
      BY <1>5, <2>0, <2>2 DEF Better, Closer
    <3>b. \A o \in Candidates(t) : ~Better(o, x) /\ Better(x, o)
      <4>1. TAKE o \in Candidates(t)
      <4>2. o.nr \in Int /\ o.active \in Nat /\ ~Better(o, s)
        BY <1>3, <1>10 DEF Leads
      <4> QED
        BY <2>0, <3>a, <4>2 DEF Better
    <3>1. Leads(t, x)'
      BY <2>1, <2>a, <3>0, <3>b DEF Leads, Better
    <3> QED
      BY <2>1, <3>1 DEF Led
  <2>3. CASE /\ Take(t, c, nr) /\ Ties(t, nr)
             /\ c = cur_cpu[t] \/ target_cpu[t] # cur_cpu[t]
    <3>0. x.cpu = target_cpu'[t] /\ x.nr = min_nr'[t] /\ x.active = min_active'[t]
      BY <1>5, <1>7, <2>3
    <3>a. x.nr = s.nr /\ x.active = s.active
      BY <1>5, <2>0, <2>3 DEF Ties
    <3>b. \A o \in Candidates(t) :
             ~Better(o, x) /\ (o.cpu = cur_cpu[t] /\ ~Better(x, o) => x.cpu = cur_cpu[t])
      BY <1>5, <1>10, <2>0, <2>3, <3>a DEF Leads, Better
    <3>1. Leads(t, x)'
      BY <1>4, <2>1, <2>a, <3>0, <3>b DEF Leads, Better
    <3> QED
      BY <2>1, <3>1 DEF Led
  <2>4. CASE /\ ~Closer(t, nr) /\ ~(Ties(t, nr) /\ c = cur_cpu[t])
             /\ UNCHANGED <<target_cpu, min_nr, min_active>>
    <3>a. ~Better(x, s) /\ (x.cpu = cur_cpu[t] => Better(s, x))
      <4>1. ~(x.nr < s.nr) /\ ~(x.nr = s.nr /\ x.active < s.active)
        BY <1>5, <2>0, <2>4 DEF Closer
      <4>2. x.cpu = cur_cpu[t] => ~(x.nr = s.nr /\ x.active = s.active)
        BY <1>5, <2>0, <2>4 DEF Ties
      <4>3. x.cpu = cur_cpu[t] =>
               s.nr < x.nr \/ (s.nr = x.nr /\ s.active < x.active)
        BY <2>0, <4>1, <4>2
      <4> QED
        BY <4>1, <4>3 DEF Better
    <3>1. Leads(t, s)'
      BY <1>4, <1>10, <2>1, <2>4, <3>a DEF Leads, Better
    <3> QED
      BY <2>1, <3>1 DEF Led
  <2> QED
    BY <1>4, <1>10, <2>2, <2>3, <2>4 DEF Consider
<1> QED
  BY <1>8, <1>9, <1>10 DEF Led

(* A step leaves the scan of a submitter alone if it leaves these alone. *)
LEMMA LedKept ==
  ASSUME NEW t \in Thread, seen'[t] = seen[t], target_cpu'[t] = target_cpu[t],
         min_nr'[t] = min_nr[t], min_active'[t] = min_active[t],
         cur_cpu'[t] = cur_cpu[t], Led(t)
  PROVE  Led(t)'
<1>1. Candidates(t)' = Candidates(t)
  BY DEF Candidates
<1> QED
  BY <1>1 DEF Led, Leads

(* Every step of a submitter keeps the best candidate of its scan. *)
LEMMA ScanNext == TInv /\ ScanInv /\ [Next]_vars => ScanInv'
<1> SUFFICES ASSUME TInv, ScanInv, [Next]_vars, NEW u \in Thread
             PROVE  /\ pc'[u] \in {"idle", "local"} =>
                         /\ seen'[u] = {} /\ target_cpu'[u] = -1 /\ min_nr'[u] = MinNr
                    /\ pc'[u] \in {"scan", "scan_L", "scan_nr", "draw"} => Led(u)'
  BY DEF ScanInv
<1> DEFINE Goal == /\ pc'[u] \in {"idle", "local"} =>
                         /\ seen'[u] = {} /\ target_cpu'[u] = -1 /\ min_nr'[u] = MinNr
                   /\ pc'[u] \in {"scan", "scan_L", "scan_nr", "draw"} => Led(u)'
<1>0. /\ pc \in [Thread -> Steering \cup {"idle", "tag", "retag"}]
      /\ cur_cpu \in [Thread -> Cpu] /\ seen \in [Thread -> SUBSET Sample]
      /\ target_cpu \in [Thread -> Cpu \cup {-1}] /\ min_nr \in [Thread -> Int]
      /\ min_active \in [Thread -> Nat]
  BY DEF TInv, TypeOK
<1>1. CASE UNCHANGED locals
  BY <1>1, LedKept DEF ScanInv, locals
<1>2. ASSUME NEW t \in Thread, Steer(t), u # t PROVE Goal
  <2>1. /\ pc'[u] = pc[u] /\ seen'[u] = seen[u] /\ target_cpu'[u] = target_cpu[u]
        /\ min_nr'[u] = min_nr[u] /\ min_active'[u] = min_active[u]
        /\ cur_cpu'[u] = cur_cpu[u]
    BY <1>0, <1>2 DEF Steer, Enter, CheckLocal, ReadActive, ReadMetric, ReadBatch,
       Consider, Take, EndScan, DrawFirst, DrawSecond, DrawSame, ReadFirst,
       ReadSecond, GetTag, FailTag, WaitTag, Return, Goto, vars, locals
  <2> QED
    BY <2>1, LedKept DEF ScanInv
<1>3. ASSUME ReadBatch(u) PROVE Goal
  <2>1. pc'[u] = "scan" /\ pc[u] = "scan_nr"
    BY <1>0, <1>3 DEF ReadBatch, Goto
  <2> QED
    BY <1>3, <2>1, Iteration DEF ScanInv
<1>4. ASSUME CheckLocal(u) PROVE Goal
  <2>1. /\ pc[u] = "local" /\ pc'[u] \in {"tag", "scan"}
        /\ pc'[u] = "scan" => target_cpu' = target_cpu
        /\ UNCHANGED <<seen, min_nr, min_active, cur_cpu>>
    BY <1>0, <1>4 DEF CheckLocal, Goto
  <2>2. Led(u)
    BY <2>1 DEF ScanInv, Led, Candidates
  <2> QED
    BY <2>1, <2>2, LedKept
<1>5. ASSUME Enter(u) PROVE Goal
  <2>1. /\ pc[u] = "idle" /\ pc'[u] \in {"local", "tag"}
        /\ pc'[u] = "local" => target_cpu' = target_cpu
        /\ UNCHANGED <<seen, min_nr>>
    BY <1>0, <1>5 DEF Enter, Goto
  <2> QED
    BY <2>1 DEF ScanInv
<1>6. ASSUME GetTag(u) \/ FailTag(u) PROVE Goal
  BY <1>0, <1>6 DEF GetTag, FailTag, Return, Goto
<1>7. ASSUME ReadActive(u) \/ ReadMetric(u) \/ EndScan(u) PROVE Goal
  <2>1. /\ pc[u] \in {"scan", "scan_L"}
        /\ pc'[u] \in {"scan_L", "scan_nr", "draw", "tag"}
        /\ UNCHANGED <<seen, target_cpu, min_nr, min_active, cur_cpu>>
    BY <1>0, <1>7 DEF ReadActive, ReadMetric, EndScan, Goto
  <2> QED
    BY <2>1, LedKept DEF ScanInv
<1>8. ASSUME DrawFirst(u) \/ DrawSecond(u) \/ ReadFirst(u) \/ ReadSecond(u) \/ WaitTag(u)
      PROVE  Goal
  BY <1>0, <1>8 DEF DrawFirst, DrawSecond, ReadFirst, ReadSecond, WaitTag, Goto
<1>9. ASSUME NEW t \in Thread, Steer(t) PROVE Goal
  BY <1>1, <1>2, <1>3, <1>4, <1>5, <1>6, <1>7, <1>8, <1>9 DEF Steer, DrawSame, vars
<1> QED
  BY <1>1, <1>9 DEF Next, Issue, Drain, Complete, ChangeMetric, WriteParam, vars

(* The loop over the cores finds the best queue of what it read, with the  *)
(* local queue first among equals, for any number of cores and whatever    *)
(* the other CPUs do to the counters meanwhile.                            *)
THEOREM ScanCorrect == Spec => []ScanPicksBest
<1>1. Init => ScanInv
  BY DEF Init, ScanInv
<1>2. Spec => [](TInv /\ ScanInv)
  BY <1>1, HandInit, HandNext, ScanNext, PTL DEF Spec
<1>3. TInv /\ ScanInv => ScanPicksBest
  BY DEF ScanInv, ScanPicksBest, Led, Leads
<1> QED
  BY <1>2, <1>3, PTL
=============================================================================
