-------------------------- MODULE SchedulingProofs --------------------------
(***************************************************************************)
(* Theorems about who runs where: AppSteering, for any applications, cores *)
(* and nodes and any order of copies, searches and moves, and the policies *)
(* of Caladan's iokernel; and about read-copy-update in Caladan's runtime. *)
(***************************************************************************)
EXTENDS AppSteering, RtRcu, IokPolicy, FiniteSetTheorems, TLAPS

-----------------------------------------------------------------------------
(* AppSteering *)

(* What a core looked like when a search came by. *)
Sample == [cpu : Cpu, L : Nat, T : Nat]

ThRec == [pc : {"idle", "copy", "own", "search", "tag"}, i : Nat, L : Nat, T : Nat,
          min : Nat, target : {-1} \cup Cpu, seen : SUBSET Sample, ver : Nat]

Counters ==
    /\ T_bytes \in [Cpu -> Nat] /\ L_bytes \in [Cpu -> Nat]
    /\ T_metric \in [Cpu -> Nat] /\ L_metric \in [Cpu -> Nat]
    /\ T_appstr \in [Cpu -> Nat] /\ L_appstr \in [Cpu -> Nat]
Types ==
    /\ Counters
    /\ last_appstr \in {"none", "ahead", "due"} /\ appstr_app \in {"T", "L"}
    /\ reset_metrics \in {"none", "ahead", "past"}
    /\ version \in Nat /\ cpu \in [App -> Cpu] /\ th \in [App -> ThRec]
    /\ inflight \in [App -> SUBSET [cpu : Cpu, tagged : BOOLEAN]]
    /\ trail \in [App -> [ver : Nat, cores : SUBSET Cpu]]

(* The search of application a so far: min belongs to the target, and to   *)
(* the best core seen; a T-application that has met a core an              *)
(* L-application could come from has given up.                             *)
Led(a, me) ==
    /\ a \notin Thru =>
          /\ me.min <= me.L + me.T
          /\ me.T > 0 => \A o \in me.seen : o.L = 0 \/ me.min <= o.L + o.T
          /\ me.target >= 0 =>
                /\ me.T > 0 /\ me.min < me.L + me.T
                /\ \E s \in me.seen : s.cpu = me.target /\ s.L > 0 /\ s.L + s.T = me.min
    /\ a \in Thru =>
          /\ \A o \in me.seen : o.L < me.L => me.min <= o.T
          /\ me.target >= 0 =>
                \E s \in me.seen : s.cpu = me.target /\ s.L < me.L /\ s.T = me.min
          /\ \A o \in me.seen : WaitForL(me.L, o.L) =>
                me.target = -1 /\ me.i >= NrCpus \div NrNodes

SearchInv == \A a \in App : th[a].pc = "search" => Led(a, th[a])

(* What an application wants less of: L-applications want less of          *)
(* everything, T-applications less L.                                      *)
Rank(a, c) == IF a \in Thru THEN L_appstr[c] ELSE L_appstr[c] + T_appstr[c]

(* As long as nobody writes the snapshot, what was read of it is what it   *)
(* says, and an application ranks the core it is on below those it left.   *)
Current(a) ==
    (th[a].pc = "search" /\ th[a].ver = version) =>
        /\ th[a].L = L_appstr[cpu[a]] /\ th[a].T = T_appstr[cpu[a]]
        /\ \A s \in th[a].seen : s.L = L_appstr[s.cpu] /\ s.T = T_appstr[s.cpu]
Downhill(a) ==
    /\ th[a].ver <= version /\ trail[a].ver <= version
    /\ trail[a].ver = version => \A c \in trail[a].cores : Rank(a, cpu[a]) < Rank(a, c)
TrailInv == \A a \in App : Current(a) /\ Downhill(a)

IInv == Types /\ SearchInv /\ TrailInv
-----------------------------------------------------------------------------
(* Types *)

(* i * nr_nodes + cur_node is a core for i < nr_cpus / nr_nodes. *)
LEMMA CoreBound ==
    ASSUME NEW d \in Nat \ {0}, NEW n \in Nat, NEW r \in 0 .. d - 1, NEW k \in Nat,
           k < n \div d
    PROVE  k * d + r \in 0 .. n - 1
  <1> DEFINE q == n \div d
  <1>1. q \in Nat /\ q * d <= n
    OBVIOUS
  <1>2. k + 1 <= q
    BY <1>1
  <1>3. (k + 1) * d <= q * d
    <2> HIDE DEF q
    <2> QED BY <1>1, <1>2
  <1>4. (k + 1) * d = k * d + d /\ k * d \in Nat
    OBVIOUS
  <1> HIDE DEF q
  <1> QED
    BY <1>1, <1>3, <1>4

(* Averages of natural numbers are natural numbers. *)
LEMMA AverageType ==
    ASSUME NEW m \in Nat, NEW n \in Nat
    PROVE  Averaged(m, n) \in Nat /\ Floor(m) \in Nat /\ Less(m, n) \in Nat
  BY DEF Averaged, Floor, Less

(* The search looks at cores only. *)
LEMMA IterType ==
    ASSUME AppConstants, Types, NEW a \in App, NEW k \in Nat, k < NrCpus \div NrNodes
    PROVE  IterCpu(a, k) \in Cpu
  <1>1. cpu[a] \in Int /\ NrNodes \in Nat \ {0} /\ NrCpus \in Nat
    BY DEF Types, AppConstants, Cpu
  <1>2. cpu[a] % NrNodes \in 0 .. NrNodes - 1
    BY <1>1
  <1> QED
    BY <1>1, <1>2, CoreBound, Zenon DEF IterCpu, Cpu

(* One core of the search, without the state it is read from.              *)
Looked(a, me, c, iL, iT, nxt, rec) ==
    \/ a \notin Thru /\ BetterForL(me.L, me.T, iL, iT, me.min)
         /\ rec = [nxt EXCEPT !.target = c, !.min = iL + iT]
    \/ a \in Thru /\ WaitForL(me.L, iL)
         /\ rec = [nxt EXCEPT !.target = -1, !.i = NrCpus]
    \/ a \in Thru /\ ~WaitForL(me.L, iL) /\ BetterForT(me.L, iL, iT, me.min)
         /\ rec = [nxt EXCEPT !.target = c, !.min = iT]
    \/ /\ \/ a \notin Thru /\ ~BetterForL(me.L, me.T, iL, iT, me.min)
          \/ a \in Thru /\ ~WaitForL(me.L, iL) /\ ~BetterForT(me.L, iL, iT, me.min)
       /\ rec = nxt

SearchedTo(a, c, iL, iT, rec) ==
    /\ th' = [th EXCEPT ![a] = rec] /\ th[a].pc = "search"
    /\ th[a].i < NrCpus \div NrNodes /\ iL = L_appstr[c] /\ iT = T_appstr[c]
    /\ \/ rec = [th[a] EXCEPT !.i = @ + 1]
       \/ Looked(a, th[a], c, iL, iT,
                 [th[a] EXCEPT !.i = @ + 1,
                               !.seen = @ \cup {[cpu |-> c, L |-> iL, T |-> iT]}],
                 rec)

(* A step of the search skips a core or looks at it. *)
LEMMA SearchStep ==
    ASSUME AppConstants, Types, NEW a \in App, SearchCore(a)
    PROVE  \E rec : \E c \in Cpu, iL \in Nat, iT \in Nat : SearchedTo(a, c, iL, iT, rec)
  <1> DEFINE me == th[a]
             c == IterCpu(a, me.i)
             iL == L_appstr[c]
             iT == T_appstr[c]
             skip == c = cpu[a] \/ iL > ThreshL
             mine == ~skip /\ appstr_app = IF a \in Thru THEN "T" ELSE "L"
             nxt == [me EXCEPT !.i = @ + 1,
                               !.seen = @ \cup IF mine THEN {[cpu |-> c, L |-> iL, T |-> iT]}
                                                      ELSE {}]
  <1>1. me \in ThRec /\ me.i \in Nat /\ me.i < NrCpus \div NrNodes
    BY Zenon DEF Types, ThRec, SearchCore
  <1>2. c \in Cpu /\ iL \in Nat /\ iT \in Nat
    BY <1>1, IterType, Zenon DEF Types, Counters
  <1>3. CASE mine
    <2>1. nxt = [me EXCEPT !.i = @ + 1,
                           !.seen = @ \cup {[cpu |-> c, L |-> iL, T |-> iT]}]
      BY <1>3, Zenon
    <2>2. \E rec : th' = [th EXCEPT ![a] = rec] /\ Looked(a, me, c, iL, iT, nxt, rec)
      BY <1>3, Zenon DEF SearchCore, Looked, Th
    <2> QED
      BY <1>1, <1>2, <2>1, <2>2, Zenon DEF SearchCore, SearchedTo
  <1>4. CASE ~mine
    <2>1. nxt = [me EXCEPT !.i = @ + 1]
      BY <1>1, <1>4, Zenon DEF ThRec
    <2>2. th' = [th EXCEPT ![a] = nxt]
      BY <1>4, Zenon DEF SearchCore, Th
    <2> QED
      BY <1>1, <1>2, <2>1, <2>2, Zenon DEF SearchCore, SearchedTo
  <1> QED
    BY <1>3, <1>4, Zenon

(* Updates of a thread's record. *)
LEMMA RecordType ==
    ASSUME NEW me \in ThRec, NEW n \in Nat, NEW m \in Nat, NEW t \in {-1} \cup Cpu,
           NEW S \in SUBSET Sample
    PROVE  /\ [me EXCEPT !.i = n] \in ThRec
           /\ [me EXCEPT !.i = n, !.seen = S] \in ThRec
           /\ [me EXCEPT !.target = t, !.min = m] \in ThRec
           /\ [me EXCEPT !.target = t, !.i = n] \in ThRec
  <1>1. [me EXCEPT !.i = n] \in ThRec
    BY Zenon DEF ThRec
  <1>2. [me EXCEPT !.i = n, !.seen = S] \in ThRec
    BY Zenon DEF ThRec
  <1>3. [me EXCEPT !.target = t, !.min = m] \in ThRec
    BY Zenon DEF ThRec
  <1>4. [me EXCEPT !.target = t, !.i = n] \in ThRec
    BY Zenon DEF ThRec
  <1> QED
    BY <1>1, <1>2, <1>3, <1>4, Zenon

(* Every step of the search leaves a well-typed record. *)
LEMMA SearchType ==
    ASSUME AppConstants, Types, NEW a \in App, SearchCore(a)
    PROVE  th' \in [App -> ThRec]
  <1>1a. PICK rec : \E c \in Cpu, iL \in Nat, iT \in Nat : SearchedTo(a, c, iL, iT, rec)
    BY SearchStep, Zenon
  <1>1. PICK c \in Cpu, iL \in Nat, iT \in Nat : SearchedTo(a, c, iL, iT, rec)
    BY <1>1a, Zenon
  <1>2. th[a] \in ThRec /\ th \in [App -> ThRec] /\ NrCpus \in Nat
    BY Zenon DEF Types, AppConstants
  <1> DEFINE nxt == [th[a] EXCEPT !.i = @ + 1,
                                  !.seen = @ \cup {[cpu |-> c, L |-> iL, T |-> iT]}]
  <1>3. nxt \in ThRec /\ [th[a] EXCEPT !.i = @ + 1] \in ThRec
    <2>1. [cpu |-> c, L |-> iL, T |-> iT] \in Sample
      BY Zenon DEF Sample
    <2>2. th[a].i + 1 \in Nat /\ th[a].seen \cup {[cpu |-> c, L |-> iL, T |-> iT]} \in SUBSET Sample
      BY <1>2, <2>1 DEF ThRec
    <2>3. nxt = [th[a] EXCEPT !.i = th[a].i + 1,
                              !.seen = th[a].seen \cup {[cpu |-> c, L |-> iL, T |-> iT]}]
      BY Zenon
    <2> QED
      BY <1>2, <2>2, <2>3, RecordType, Zenon
  <1> HIDE DEF nxt
  <1>4. rec \in ThRec
    <2>1. /\ [nxt EXCEPT !.target = c, !.min = iL + iT] \in ThRec
          /\ [nxt EXCEPT !.target = c, !.min = iT] \in ThRec
          /\ [nxt EXCEPT !.target = -1, !.i = NrCpus] \in ThRec
      <3>1. iL + iT \in Nat /\ c \in {-1} \cup Cpu /\ -1 \in {-1} \cup Cpu
        OBVIOUS
      <3> QED
        BY <1>2, <1>3, <3>1, RecordType, Zenon
    <2> QED
      BY <1>1, <1>3, <2>1, Zenon DEF Looked, SearchedTo, nxt
  <1> QED
    BY <1>1, <1>2, <1>4, Zenon DEF SearchedTo

(* Every step keeps the types. *)
LEMMA TypesNext == AppConstants /\ Types /\ [Next]_vars => Types'
  <1> SUFFICES ASSUME AppConstants, Types, [Next]_vars PROVE Types'
    BY Zenon
  <1>0. /\ NrCpus \in Nat \ {0} /\ MaxMetric \in Nat /\ Size \in [App -> Nat]
        /\ Zero \in [Cpu -> Nat] /\ NoTh \in ThRec
    BY Zenon DEF AppConstants, Zero, NoTh, ThRec
  <1>1. CASE UNCHANGED vars
    BY <1>1, Zenon DEF Types, Counters, vars, bytes, metrics, snapshot, deadlines
  <1>2. ASSUME NEW a \in App, Submit(a) PROVE Types'
    <2> DEFINE fresh == reset_metrics # "ahead"
               c == cpu[a]
               old(f) == IF fresh THEN Zero ELSE f
               T == IF a \in Thru THEN Averaged(old(T_metric)[c], old(T_bytes)[c] + Size[a])
                    ELSE old(T_metric)[c]
               L == IF a \notin Thru THEN Averaged(old(L_metric)[c], old(L_bytes)[c] + Size[a])
                    ELSE old(L_metric)[c]
    <2>1. /\ old(T_metric) \in [Cpu -> Nat] /\ old(L_metric) \in [Cpu -> Nat]
          /\ old(T_bytes) \in [Cpu -> Nat] /\ old(L_bytes) \in [Cpu -> Nat]
          /\ old(T_appstr) \in [Cpu -> Nat] /\ old(L_appstr) \in [Cpu -> Nat]
          /\ c \in Cpu /\ Size[a] \in Nat
      BY <1>0, Zenon DEF Types, Counters
    <2>2. Floor(T) \in Nat /\ Floor(L) \in Nat
      <3>1. /\ old(T_metric)[c] \in Nat /\ old(T_bytes)[c] + Size[a] \in Nat
            /\ old(L_metric)[c] \in Nat /\ old(L_bytes)[c] + Size[a] \in Nat
        <4> HIDE DEF old, c
        <4> QED
          BY <2>1
      <3> HIDE DEF old, c
      <3> QED
        BY <3>1, AverageType, Zenon
    <2>3. /\ T_bytes' = old(T_bytes) /\ L_bytes' = old(L_bytes)
          /\ T_metric' = [old(T_metric) EXCEPT ![c] = Floor(T)]
          /\ L_metric' = [old(L_metric) EXCEPT ![c] = Floor(L)]
          /\ T_appstr' = old(T_appstr) /\ L_appstr' = old(L_appstr)
          /\ version' = IF fresh THEN version + 1 ELSE version
          /\ appstr_app' = IF fresh THEN "T" ELSE appstr_app
          /\ reset_metrics' = "ahead" /\ UNCHANGED <<cpu, inflight, trail>>
      BY <1>2, Zenon DEF Submit
    <2>4. Counters'
      <3> HIDE DEF old, T, L, c
      <3> QED
        BY <2>1, <2>2, <2>3, Zenon DEF Counters
    <2>5. th' \in [App -> ThRec] /\ last_appstr' \in {"none", "ahead", "due"}
      <3>1. \A p \in {"copy", "own"} : [NoTh EXCEPT !.pc = p] \in ThRec
        BY <1>0, Zenon DEF ThRec
      <3> QED
        BY <1>2, <3>1, Zenon DEF Submit, Th, Types
    <2> QED
      BY <2>3, <2>4, <2>5 DEF Types
  <1>3. ASSUME NEW a \in App, CopyCore(a) PROVE Types'
    <2>1. th[a] \in ThRec /\ th[a].i \in Nat /\ th[a].i < NrCpus
      BY <1>3, Zenon DEF CopyCore, Types, ThRec
    <2>2. th[a].i \in Cpu /\ th[a].i + 1 \in Nat
      BY <1>0, <2>1 DEF Cpu
    <2>3. [th[a] EXCEPT !.i = th[a].i + 1] \in ThRec
      BY <2>1, <2>2, RecordType, Zenon
    <2> QED
      BY <1>3, <2>2, <2>3 DEF CopyCore, Types, Counters, Th, bytes, metrics, deadlines
  <1>4. ASSUME NEW a \in App, HandOver(a) PROVE Types'
    <2>1. [NoTh EXCEPT !.pc = "own"] \in ThRec
      BY <1>0, Zenon DEF ThRec
    <2> QED
      BY <1>4, <2>1, Zenon DEF HandOver, Types, Counters, Th, bytes, metrics, snapshot
  <1>5. ASSUME NEW a \in App, ReadOwn(a) PROVE Types'
    <2>1. L_appstr[cpu[a]] \in Nat /\ T_appstr[cpu[a]] \in Nat /\ version \in Nat
      BY Zenon DEF Types, Counters
    <2>2. \A l, t, m \in Nat : [NoTh EXCEPT !.pc = "search", !.L = l, !.T = t, !.ver = version,
                                              !.min = m] \in ThRec
      BY <1>0, <2>1, Zenon DEF ThRec
    <2>3. (IF a \in Thru THEN MaxMetric ELSE L_appstr[cpu[a]] + T_appstr[cpu[a]]) \in Nat
      BY <1>0, <2>1
    <2>4. PICK rec \in ThRec : th' = [th EXCEPT ![a] = rec]
      BY <1>5, <2>1, <2>2, <2>3, Zenon DEF ReadOwn, Th
    <2> QED
      BY <1>5, <2>4, Zenon DEF ReadOwn, Types, Counters, bytes, metrics, snapshot, deadlines
  <1>6. ASSUME NEW a \in App, SearchCore(a) PROVE Types'
    <2>1. th' \in [App -> ThRec]
      BY <1>6, SearchType, Zenon
    <2>2. UNCHANGED <<bytes, metrics, snapshot, deadlines, cpu, inflight, trail>>
      BY <1>6, Zenon DEF SearchCore
    <2> QED
      BY <2>1, <2>2, Zenon DEF Types, Counters, bytes, metrics, snapshot, deadlines
  <1>7. ASSUME NEW a \in App, Steer(a) PROVE Types'
    <2>1. /\ th[a] \in ThRec /\ [th[a] EXCEPT !.pc = "tag"] \in ThRec
          /\ th[a].target \in {-1} \cup Cpu /\ cpu[a] \in Cpu
      BY DEF Types, ThRec
    <2>2. th' \in [App -> ThRec]
      BY <1>7, <2>1, Zenon DEF Steer, Th, Types
    <2>3. /\ cpu' \in [App -> Cpu] /\ T_metric' \in [Cpu -> Nat] /\ L_metric' \in [Cpu -> Nat]
          /\ trail' \in [App -> [ver : Nat, cores : SUBSET Cpu]]
      <3>1. CASE th[a].target >= 0
        <4>1. th[a].target \in Cpu
          BY <2>1, <3>1
        <4>5. ~(th[a].target < 0)
          BY <4>1, <3>1 DEF Cpu
        <4>2. cpu' = [cpu EXCEPT ![a] = th[a].target]
          BY <1>7, <4>5, Zenon DEF Steer
        <4>3. /\ T_metric' \in {T_metric, [T_metric EXCEPT ![cpu[a]] = 0]}
              /\ L_metric' \in {L_metric, [L_metric EXCEPT ![cpu[a]] = 0]}
          BY <1>7, <4>5, Zenon DEF Steer
        <4>4. \E C \in SUBSET Cpu : trail' = [trail EXCEPT ![a] = [ver |-> version, cores |-> C]]
          <5>1. trail[a].cores \cup {cpu[a]} \in SUBSET Cpu /\ {cpu[a]} \in SUBSET Cpu
                /\ {} \in SUBSET Cpu /\ trail \in [App -> [ver : Nat, cores : SUBSET Cpu]]
            BY <2>1, Zenon DEF Types
          <5>2. trail' = [trail EXCEPT ![a] =
                   [ver |-> version,
                    cores |-> IF th[a].ver # version THEN {}
                              ELSE IF trail[a].ver = version THEN trail[a].cores \cup {cpu[a]}
                              ELSE {cpu[a]}]]
            BY <1>7, <4>5, Zenon DEF Steer
          <5> QED
            BY <5>1, <5>2, Zenon
        <4>6. trail' \in [App -> [ver : Nat, cores : SUBSET Cpu]]
          <5>1. PICK C \in SUBSET Cpu : trail' = [trail EXCEPT ![a] = [ver |-> version, cores |-> C]]
            BY <4>4, Zenon
          <5>2. [ver |-> version, cores |-> C] \in [ver : Nat, cores : SUBSET Cpu]
            BY Zenon DEF Types
          <5>3. trail \in [App -> [ver : Nat, cores : SUBSET Cpu]]
            BY Zenon DEF Types
          <5> QED
            BY <5>1, <5>2, <5>3, Zenon
        <4>7. T_metric' \in [Cpu -> Nat] /\ L_metric' \in [Cpu -> Nat]
          BY <2>1, <4>3 DEF Types, Counters
        <4>8. cpu' \in [App -> Cpu]
          BY <4>1, <4>2, Zenon DEF Types
        <4> QED
          BY <4>6, <4>7, <4>8, Zenon
      <3>2. CASE th[a].target < 0
        <4>1. ~(th[a].target >= 0)
          BY <2>1, <3>2 DEF Cpu
        <4>2. UNCHANGED <<cpu, metrics, trail>>
          BY <1>7, <4>1, Zenon DEF Steer
        <4> QED
          BY <4>2, Zenon DEF metrics, Types, Counters
      <3> QED
        BY <2>1, <3>1, <3>2 DEF Cpu
    <2>4. UNCHANGED <<bytes, snapshot, deadlines, inflight>>
      BY <1>7, Zenon DEF Steer
    <2> QED
      BY <2>2, <2>3, <2>4, Zenon DEF Types, Counters, bytes, snapshot, deadlines
  <1>8. ASSUME NEW a \in App, InitRequest(a) PROVE Types'
    <2>1. /\ cpu[a] \in Cpu /\ T_bytes[cpu[a]] + Size[a] \in Nat
          /\ L_bytes[cpu[a]] + Size[a] \in Nat
      BY <1>0 DEF Types, Counters
    <2>2. /\ T_bytes' \in {T_bytes, [T_bytes EXCEPT ![cpu[a]] = T_bytes[cpu[a]] + Size[a]]}
          /\ L_bytes' \in {L_bytes, [L_bytes EXCEPT ![cpu[a]] = L_bytes[cpu[a]] + Size[a]]}
      BY <1>8, <2>1, Zenon DEF InitRequest, Types, Counters
    <2>3. th' \in [App -> ThRec]
      BY <1>0, <1>8, Zenon DEF InitRequest, Th, Types
    <2>4. inflight' \in [App -> SUBSET [cpu : Cpu, tagged : BOOLEAN]]
      BY <1>8, <2>1 DEF InitRequest, Types
    <2>5. UNCHANGED <<metrics, snapshot, deadlines, cpu, trail>>
      BY <1>8, Zenon DEF InitRequest
    <2> QED
      <3>1. T_bytes' \in [Cpu -> Nat] /\ L_bytes' \in [Cpu -> Nat]
        BY <2>1, <2>2 DEF Types, Counters
      <3> QED
        BY <2>3, <2>4, <2>5, <3>1, Zenon DEF Types, Counters, metrics, snapshot, deadlines
  <1>9. ASSUME NEW a \in App, EndRequest(a) PROVE Types'
    <2>1. PICK rq \in inflight[a] :
             /\ T_bytes' = IF rq.tagged /\ a \in Thru
                             THEN [T_bytes EXCEPT ![rq.cpu] = Less(@, Size[a])] ELSE T_bytes
             /\ L_bytes' = IF rq.tagged /\ a \notin Thru
                             THEN [L_bytes EXCEPT ![rq.cpu] = Less(@, Size[a])] ELSE L_bytes
      BY <1>9, Zenon DEF EndRequest
    <2>2. rq.cpu \in Cpu
      BY DEF Types
    <2>3. Less(T_bytes[rq.cpu], Size[a]) \in Nat /\ Less(L_bytes[rq.cpu], Size[a]) \in Nat
      BY <1>0, <2>2, AverageType, Zenon DEF Types, Counters
    <2>4. T_bytes' \in [Cpu -> Nat] /\ L_bytes' \in [Cpu -> Nat]
      BY <2>1, <2>2, <2>3, Zenon DEF Types, Counters
    <2>5. inflight' \in [App -> SUBSET [cpu : Cpu, tagged : BOOLEAN]]
      BY <1>9, Zenon DEF EndRequest, Types
    <2>6. UNCHANGED <<metrics, snapshot, deadlines, cpu, th, trail>>
      BY <1>9, Zenon DEF EndRequest
    <2> QED
      BY <2>4, <2>5, <2>6, Zenon DEF Types, Counters, metrics, snapshot, deadlines
  <1>10. CASE TickSnapshot \/ TickReset
    BY <1>10, Zenon DEF TickSnapshot, TickReset, Types, Counters, bytes, metrics, snapshot
  <1> QED
    BY <1>1, <1>2, <1>3, <1>4, <1>5, <1>6, <1>7, <1>8, <1>9, <1>10, Zenon DEF Next

-----------------------------------------------------------------------------
(* The search *)

(* What was read before, looking at a core leaves alone. *)
LEMMA LookedFields ==
    ASSUME NEW a, NEW me, NEW c, NEW iL, NEW iT, NEW nxt \in ThRec, NEW rec,
           Looked(a, me, c, iL, iT, nxt, rec)
    PROVE  rec.L = nxt.L /\ rec.T = nxt.T /\ rec.ver = nxt.ver /\ rec.seen = nxt.seen
  <1>1. DOMAIN nxt = {"pc", "i", "L", "T", "min", "target", "seen", "ver"}
    BY Zenon DEF ThRec
  <1>3. \/ rec = nxt
        \/ rec = [nxt EXCEPT !.target = c, !.min = iL + iT]
        \/ rec = [nxt EXCEPT !.target = -1, !.i = NrCpus]
        \/ rec = [nxt EXCEPT !.target = c, !.min = iT]
    BY Zenon DEF Looked
  <1>4. CASE rec = nxt
    BY <1>1, <1>4, Zenon
  <1>5. CASE rec = [nxt EXCEPT !.target = c, !.min = iL + iT]
    BY <1>1, <1>5, Zenon
  <1>6. CASE rec = [nxt EXCEPT !.target = -1, !.i = NrCpus]
    BY <1>1, <1>6, Zenon
  <1>7. CASE rec = [nxt EXCEPT !.target = c, !.min = iT]
    BY <1>1, <1>7, Zenon
  <1> QED
    BY <1>3, <1>4, <1>5, <1>6, <1>7, Zenon

(* Looking at one more core keeps min and target those of the best seen. *)
LEMMA LookedLed ==
    ASSUME AppConstants, NEW a \in App, NEW me \in ThRec, Led(a, me),
           me.i < NrCpus \div NrNodes,
           NEW c \in Cpu, NEW iL \in Nat, NEW iT \in Nat, NEW rec,
           Looked(a, me, c, iL, iT,
                  [me EXCEPT !.i = @ + 1,
                             !.seen = @ \cup {[cpu |-> c, L |-> iL, T |-> iT]}], rec)
    PROVE  Led(a, rec)
  <1> DEFINE x == [cpu |-> c, L |-> iL, T |-> iT]
             nxt == [me EXCEPT !.i = @ + 1, !.seen = @ \cup {x}]
  <1>1. /\ me.L \in Nat /\ me.T \in Nat /\ me.min \in Nat /\ me.i \in Nat
        /\ me.target \in {-1} \cup Cpu
        /\ \A o \in me.seen : o.L \in Nat /\ o.T \in Nat
    BY Zenon DEF ThRec, Sample
  <1>2. x.cpu = c /\ x.L = iL /\ x.T = iT /\ c >= 0 /\ c \in Int
    BY DEF Cpu, AppConstants
  <1>3. /\ nxt.L = me.L /\ nxt.T = me.T /\ nxt.min = me.min /\ nxt.target = me.target
        /\ nxt.seen = me.seen \cup {x} /\ nxt.i = me.i + 1
    BY Zenon DEF ThRec
  <1>4. CASE a \notin Thru /\ BetterForL(me.L, me.T, iL, iT, me.min)
             /\ rec = [nxt EXCEPT !.target = c, !.min = iL + iT]
    <2>1. /\ rec.L = me.L /\ rec.T = me.T /\ rec.seen = me.seen \cup {x}
          /\ rec.target = c /\ rec.min = iL + iT
      BY <1>3, <1>4, Zenon DEF ThRec
    <2>2. \A o \in rec.seen : o.L = 0 \/ rec.min <= o.L + o.T
      <3>1. \A o \in me.seen : o.L = 0 \/ me.min <= o.L + o.T
        BY <1>1, <1>4, Zenon DEF Led, BetterForL
      <3> QED
        BY <1>1, <1>2, <1>4, <2>1, <3>1 DEF BetterForL
    <2>3. /\ iL + iT < me.L + me.T /\ me.T > 0 /\ iL > 0
          /\ x \in rec.seen /\ x.cpu = rec.target /\ x.L > 0 /\ x.L + x.T = rec.min
      BY <1>1, <1>2, <1>4, <2>1, Zenon DEF BetterForL
    <2>4. rec.min <= rec.L + rec.T /\ rec.min < rec.L + rec.T /\ rec.T > 0
      BY <1>1, <2>1, <2>3
    <2> HIDE DEF x
    <2> QED
      BY <1>4, <2>2, <2>3, <2>4, Zenon DEF Led
  <1>5. CASE a \in Thru /\ WaitForL(me.L, iL)
             /\ rec = [nxt EXCEPT !.target = -1, !.i = NrCpus]
    <2>1. /\ rec.L = me.L /\ rec.T = me.T /\ rec.seen = me.seen \cup {x}
          /\ rec.target = -1 /\ rec.min = me.min /\ rec.i = NrCpus
      BY <1>3, <1>5, Zenon DEF ThRec
    <2>2. NrCpus >= NrCpus \div NrNodes
      BY DEF AppConstants
    <2>3. \A o \in rec.seen : o.L < rec.L => rec.min <= o.T
      BY <1>1, <1>2, <1>5, <2>1 DEF Led, WaitForL, AppConstants
    <2> QED
      BY <1>5, <2>1, <2>2, <2>3 DEF Led
  <1>6. CASE a \in Thru /\ ~WaitForL(me.L, iL) /\ BetterForT(me.L, iL, iT, me.min)
             /\ rec = [nxt EXCEPT !.target = c, !.min = iT]
    <2>1. /\ rec.L = me.L /\ rec.T = me.T /\ rec.seen = me.seen \cup {x}
          /\ rec.target = c /\ rec.min = iT
      BY <1>3, <1>6, Zenon DEF ThRec
    <2>2. \A o \in me.seen : ~WaitForL(me.L, o.L)
      BY <1>1, <1>6 DEF Led, AppConstants
    <2>3. \A o \in rec.seen : ~WaitForL(rec.L, o.L)
      BY <1>2, <1>6, <2>1, <2>2, Zenon
    <2>4. \A o \in rec.seen : o.L < rec.L => rec.min <= o.T
      BY <1>1, <1>2, <1>6, <2>1 DEF Led, BetterForT
    <2>5. x \in rec.seen /\ x.cpu = rec.target /\ x.L < rec.L /\ x.T = rec.min
      BY <1>1, <1>2, <1>6, <2>1, Zenon DEF BetterForT
    <2> QED
      BY <1>6, <2>3, <2>4, <2>5, Zenon DEF Led
  <1>7. CASE a \notin Thru /\ ~BetterForL(me.L, me.T, iL, iT, me.min) /\ rec = nxt
    <2>1. me.T > 0 => \A o \in nxt.seen : o.L = 0 \/ me.min <= o.L + o.T
      <3>1. ASSUME me.T > 0 PROVE iL = 0 \/ me.min <= iL + iT
        BY <1>1, <1>7, <3>1 DEF BetterForL, Led
      <3> QED
        BY <1>2, <1>3, <1>7, <3>1, Zenon DEF Led
    <2> QED
      BY <1>3, <1>7, <2>1, Zenon DEF Led
  <1>8. CASE a \in Thru /\ ~WaitForL(me.L, iL) /\ ~BetterForT(me.L, iL, iT, me.min)
             /\ rec = nxt
    <2>1. \A o \in me.seen : ~WaitForL(me.L, o.L)
      BY <1>1, <1>8 DEF Led, AppConstants
    <2>2. \A o \in nxt.seen : ~WaitForL(me.L, o.L)
      BY <1>2, <1>3, <1>8, <2>1, Zenon
    <2>3. \A o \in nxt.seen : o.L < me.L => me.min <= o.T
      BY <1>1, <1>2, <1>3, <1>8 DEF Led, BetterForT
    <2> QED
      BY <1>3, <1>8, <2>2, <2>3, Zenon DEF Led
  <1> QED
    BY <1>4, <1>5, <1>6, <1>7, <1>8, Zenon DEF Looked

(* Every step keeps min and target of every search those of the best seen. *)
LEMMA SearchNext == AppConstants /\ Types /\ SearchInv /\ [Next]_vars => SearchInv'
  <1> SUFFICES ASSUME AppConstants, Types, SearchInv, [Next]_vars, NEW b \in App,
                      th'[b].pc = "search"
               PROVE  Led(b, th'[b])
    BY Zenon DEF SearchInv
  <1>0. th \in [App -> ThRec] /\ th[b] \in ThRec
    BY Zenon DEF Types
  <1>1. CASE th'[b] = th[b]
    BY <1>1, Zenon DEF SearchInv
  <1>2. ASSUME NEW a \in App, SearchCore(a), th'[b] # th[b] PROVE Led(b, th'[b])
    <2>1a. PICK rec : \E c \in Cpu, iL \in Nat, iT \in Nat : SearchedTo(a, c, iL, iT, rec)
      BY <1>2, SearchStep, Zenon
    <2>1. PICK c \in Cpu, iL \in Nat, iT \in Nat : SearchedTo(a, c, iL, iT, rec)
      BY <2>1a, Zenon
    <2>2. b = a /\ th'[b] = rec
      BY <1>0, <1>2, <2>1, Zenon DEF SearchedTo
    <2>3. Led(a, th[a]) /\ th[a] \in ThRec
      BY <1>0, <2>1, <2>2, Zenon DEF SearchInv, SearchedTo
    <2>4. CASE rec = [th[a] EXCEPT !.i = @ + 1]
      <3>1. /\ rec.L = th[a].L /\ rec.T = th[a].T /\ rec.seen = th[a].seen
            /\ rec.target = th[a].target /\ rec.min = th[a].min /\ rec.i = th[a].i + 1
        BY <2>3, <2>4, Zenon DEF ThRec
      <3>2. th[a].i \in Nat /\ NrCpus \div NrNodes \in Int
        BY <2>3 DEF ThRec, AppConstants
      <3>3. th[a].i >= NrCpus \div NrNodes => rec.i >= NrCpus \div NrNodes
        BY <3>1, <3>2
      <3> QED
        BY <2>2, <2>3, <3>1, <3>3, Zenon DEF Led
    <2> QED
      BY <2>1, <2>2, <2>3, <2>4, LookedLed, Zenon DEF SearchedTo
  <1>3. ASSUME NEW a \in App, ReadOwn(a), th'[b] # th[b] PROVE Led(b, th'[b])
    <2>1. /\ L_appstr[cpu[a]] \in Nat /\ T_appstr[cpu[a]] \in Nat /\ MaxMetric \in Nat
      BY Zenon DEF Types, Counters, AppConstants
    <2> DEFINE l == L_appstr[cpu[a]]
               t == T_appstr[cpu[a]]
               rec == [NoTh EXCEPT !.pc = "search", !.L = l, !.T = t, !.ver = version,
                                   !.min = IF a \in Thru THEN MaxMetric ELSE l + t]
    <2>2. b = a /\ th'[b] = rec
      BY <1>0, <1>3, Zenon DEF ReadOwn, Th
    <2>3. /\ rec.L = l /\ rec.T = t /\ rec.seen = {} /\ rec.target = -1
          /\ a \notin Thru => rec.min = l + t
      BY Zenon DEF NoTh
    <2> QED
      BY <2>1, <2>2, <2>3 DEF Led
  <1>4. ASSUME NEW a \in App, Submit(a) \/ HandOver(a) \/ Steer(a) \/ InitRequest(a)
        PROVE  th'[b] = th[b]
    <2>1. ASSUME NEW rec, th' = [th EXCEPT ![a] = rec], rec.pc # "search"
          PROVE  th'[b] = th[b]
      BY <1>0, <2>1, Zenon
    <2>2. CASE Submit(a)
      <3>1. \A p \in {"copy", "own"} : [NoTh EXCEPT !.pc = p].pc # "search"
        BY Zenon DEF NoTh
      <3> QED
        BY <2>1, <2>2, <3>1, Zenon DEF Submit, Th
    <2>3. CASE HandOver(a)
      <3>1. [NoTh EXCEPT !.pc = "own"].pc # "search"
        BY Zenon DEF NoTh
      <3> QED
        BY <2>1, <2>3, <3>1, Zenon DEF HandOver, Th
    <2>4. CASE Steer(a)
      <3>1. [th[a] EXCEPT !.pc = "tag"].pc # "search"
        BY <1>0, Zenon DEF ThRec
      <3> QED
        BY <2>1, <2>4, <3>1, Zenon DEF Steer, Th
    <2>5. CASE InitRequest(a)
      BY <2>1, <2>5 DEF InitRequest, Th, NoTh
    <2> QED
      BY <1>4, <2>2, <2>3, <2>4, <2>5, Zenon
  <1>5. ASSUME NEW a \in App, CopyCore(a) PROVE th'[b] = th[b]
    <2>1. th' = [th EXCEPT ![a] = [th[a] EXCEPT !.i = @ + 1]] /\ th[a].pc = "copy"
      BY <1>5, Zenon DEF CopyCore, Th
    <2>2. [th[a] EXCEPT !.i = @ + 1].pc = "copy"
      BY <1>0, <2>1, Zenon DEF ThRec
    <2> QED
      BY <1>0, <2>1, <2>2, Zenon
  <1>6. CASE UNCHANGED vars \/ TickSnapshot \/ TickReset \/ \E a \in App : EndRequest(a)
    BY <1>1, <1>6, Zenon DEF vars, TickSnapshot, TickReset, EndRequest
  <1> QED
    BY <1>1, <1>2, <1>3, <1>4, <1>5, <1>6, Zenon DEF Next

-----------------------------------------------------------------------------
(* Decisions on one snapshot *)

(* A write to the snapshot makes everything read before it history. *)
LEMMA NewSnapshot ==
    ASSUME Types, TrailInv, NEW b \in App, version' = version + 1, trail' = trail,
           th'[b].ver \in {0, th[b].ver}
    PROVE  Current(b)' /\ Downhill(b)'
  <1>1. /\ version \in Nat /\ th[b].ver \in Nat /\ trail[b].ver \in Nat
        /\ th[b].ver <= version /\ trail[b].ver <= version
    BY Zenon DEF Types, ThRec, TrailInv, Downhill
  <1>2. th'[b].ver < version' /\ trail'[b].ver < version'
    BY <1>1
  <1>3. /\ th'[b].ver \in Nat /\ trail'[b].ver \in Nat /\ version' \in Nat
    BY <1>1
  <1> QED
    BY <1>2, <1>3 DEF Current, Downhill

(* Without one, an application that neither reads nor moves keeps its place. *)
LEMMA SameSnapshot ==
    ASSUME Types, TrailInv, NEW b \in App, UNCHANGED snapshot,
           cpu'[b] = cpu[b], trail'[b] = trail[b],
           \/ th'[b] = th[b]
           \/ th'[b].pc # "search" /\ th'[b].ver \in {0, th[b].ver}
    PROVE  Current(b)' /\ Downhill(b)'
  <1>1. Current(b) /\ Downhill(b) /\ version \in Nat
    BY Zenon DEF Types, TrailInv
  <1>2. /\ version' = version /\ L_appstr' = L_appstr /\ T_appstr' = T_appstr
    BY Zenon DEF snapshot
  <1>3. Current(b)'
    BY <1>1, <1>2, Zenon DEF Current
  <1>4. Downhill(b)'
    BY <1>1, <1>2 DEF Downhill, Rank
  <1> QED
    BY <1>3, <1>4, Zenon

(* A search that ends on the snapshot it began on has found a core the     *)
(* application ranks below its own.                                        *)
LEMMA TargetRank ==
    ASSUME Types, SearchInv, TrailInv, NEW a \in App, th[a].pc = "search",
           th[a].target >= 0, th[a].ver = version
    PROVE  Rank(a, th[a].target) < Rank(a, cpu[a])
  <1>1. Led(a, th[a]) /\ Current(a)
    BY Zenon DEF SearchInv, TrailInv
  <1>2. /\ th[a].L = L_appstr[cpu[a]] /\ th[a].T = T_appstr[cpu[a]]
        /\ \A s \in th[a].seen : s.L = L_appstr[s.cpu] /\ s.T = T_appstr[s.cpu]
    BY <1>1, Zenon DEF Current
  <1>3. CASE a \in Thru
    <2>1. PICK s \in th[a].seen : s.cpu = th[a].target /\ s.L < th[a].L
      BY <1>1, <1>3, Zenon DEF Led
    <2> QED
      BY <1>2, <1>3, <2>1, Zenon DEF Rank
  <1>4. CASE a \notin Thru
    <2>1. /\ th[a].min < th[a].L + th[a].T
          /\ \E s \in th[a].seen : s.cpu = th[a].target /\ s.L + s.T = th[a].min
      BY <1>1, <1>4, Zenon DEF Led
    <2> QED
      BY <1>2, <1>4, <2>1, Zenon DEF Rank
  <1> QED
    BY <1>3, <1>4, Zenon

(* A move. *)
LEMMA SteerTrail ==
    ASSUME Types, SearchInv, TrailInv, NEW a \in App, Steer(a), th[a].target >= 0
    PROVE  Downhill(a)'
  <1> DEFINE t == th[a].target
  <1>1. /\ th[a] \in ThRec /\ cpu[a] \in Cpu /\ version \in Nat /\ t \in Cpu
        /\ trail \in [App -> [ver : Nat, cores : SUBSET Cpu]] /\ cpu \in [App -> Cpu]
        /\ th \in [App -> ThRec] /\ th[a].ver \in Nat
    BY DEF Types, ThRec
  <1>2. /\ th[a].pc = "search" /\ ~(th[a].target < 0)
        /\ version' = version /\ L_appstr' = L_appstr /\ T_appstr' = T_appstr
    BY <1>1 DEF Steer, snapshot, Cpu
  <1>3. /\ cpu'[a] = t
        /\ trail'[a] = [ver |-> version,
                        cores |-> IF th[a].ver # version THEN {}
                                  ELSE IF trail[a].ver = version THEN trail[a].cores \cup {cpu[a]}
                                  ELSE {cpu[a]}]
    BY <1>1, <1>2, Zenon DEF Steer
  <1>4. th'[a].ver = th[a].ver
    BY <1>1, Zenon DEF Steer, Th, ThRec
  <1>5. th[a].ver <= version
    BY Zenon DEF TrailInv, Downhill
  <1>6. \A c \in trail'[a].cores : Rank(a, t) < Rank(a, c)
    <2>1. CASE th[a].ver # version
      BY <1>3, <2>1
    <2>2. CASE th[a].ver = version
      <3>1. Rank(a, t) < Rank(a, cpu[a])
        BY <1>2, <2>2, TargetRank, Zenon
      <3>2. trail[a].ver = version => \A c \in trail[a].cores : Rank(a, cpu[a]) < Rank(a, c)
        BY Zenon DEF TrailInv, Downhill
      <3>3. \A c \in Cpu : Rank(a, c) \in Int
        BY DEF Rank, Types, Counters
      <3>4. trail[a].cores \subseteq Cpu
        BY <1>1, Zenon
      <3>5. \A c \in trail[a].cores : trail[a].ver = version => Rank(a, t) < Rank(a, c)
        BY <1>1, <3>1, <3>2, <3>3, <3>4
      <3> QED
        BY <1>3, <2>2, <3>1, <3>5
    <2> QED
      BY <2>1, <2>2, Zenon
  <1>7. trail'[a].ver <= version' /\ th'[a].ver <= version'
    BY <1>1, <1>2, <1>3, <1>4, <1>5
  <1>8. \A c : Rank(a, c)' = Rank(a, c)
    BY <1>2, Zenon DEF Rank
  <1>9. Rank(a, cpu[a])' = Rank(a, t)
    BY <1>2, <1>3, Zenon DEF Rank
  <1> QED
    BY <1>2, <1>6, <1>7, <1>8, <1>9, Zenon DEF Downhill

(* Every step keeps the order of the cores an application has left. *)
LEMMA TrailNext ==
    AppConstants /\ Types /\ SearchInv /\ TrailInv /\ [Next]_vars => TrailInv'
  <1> SUFFICES ASSUME AppConstants, Types, SearchInv, TrailInv, [Next]_vars, NEW b \in App
               PROVE  Current(b)' /\ Downhill(b)'
    BY Zenon DEF TrailInv
  <1>0. /\ th \in [App -> ThRec] /\ th[b] \in ThRec /\ cpu \in [App -> Cpu] /\ version \in Nat
        /\ trail \in [App -> [ver : Nat, cores : SUBSET Cpu]]
    BY Zenon DEF Types
  <1>1. CASE UNCHANGED vars \/ TickSnapshot \/ TickReset \/ \E a \in App : EndRequest(a)
    BY <1>1, SameSnapshot, Zenon DEF vars, TickSnapshot, TickReset, EndRequest
  <1>2. ASSUME NEW a \in App, Submit(a) PROVE Current(b)' /\ Downhill(b)'
    <2>1. /\ cpu' = cpu /\ trail' = trail
          /\ version' = version + 1 \/ UNCHANGED snapshot
      BY <1>2, Zenon DEF Submit, snapshot
    <2>2. th'[b] = th[b] \/ (th'[b].pc # "search" /\ th'[b].ver = 0)
      BY <1>0, <1>2, Zenon DEF Submit, Th, NoTh
    <2> QED
      BY <2>1, <2>2, SameSnapshot, NewSnapshot, Zenon
  <1>3. ASSUME NEW a \in App, CopyCore(a) PROVE Current(b)' /\ Downhill(b)'
    <2>1. version' = version + 1 /\ trail' = trail
      BY <1>3, Zenon DEF CopyCore
    <2>2. th'[b].ver = th[b].ver
      BY <1>0, <1>3, Zenon DEF CopyCore, Th, ThRec
    <2> QED
      BY <2>1, <2>2, NewSnapshot, Zenon
  <1>4. ASSUME NEW a \in App, HandOver(a) \/ InitRequest(a) PROVE Current(b)' /\ Downhill(b)'
    <2>1. UNCHANGED snapshot /\ cpu' = cpu /\ trail' = trail
      BY <1>4, Zenon DEF HandOver, InitRequest
    <2>2. th'[b] = th[b] \/ (th'[b].pc # "search" /\ th'[b].ver = 0)
      BY <1>0, <1>4 DEF HandOver, InitRequest, Th, NoTh
    <2> QED
      BY <2>1, <2>2, SameSnapshot, Zenon
  <1>5. ASSUME NEW a \in App, ReadOwn(a) PROVE Current(b)' /\ Downhill(b)'
    <2>1. UNCHANGED snapshot /\ cpu' = cpu /\ trail' = trail
      BY <1>5, Zenon DEF ReadOwn
    <2>2. CASE b # a
      <3>1. th'[b] = th[b]
        BY <1>0, <1>5, <2>2, Zenon DEF ReadOwn, Th
      <3> QED
        BY <2>1, <3>1, SameSnapshot, Zenon
    <2>3. CASE b = a
      <3>1. /\ th'[b].L = L_appstr[cpu[b]] /\ th'[b].T = T_appstr[cpu[b]]
            /\ th'[b].seen = {} /\ th'[b].ver = version
        BY <1>0, <1>5, <2>3, Zenon DEF ReadOwn, Th, NoTh
      <3>2. Downhill(b)
        BY Zenon DEF TrailInv
      <3>3. Current(b)'
        BY <2>1, <3>1, Zenon DEF Current, snapshot
      <3>4. Downhill(b)'
        BY <1>0, <2>1, <3>1, <3>2 DEF Downhill, snapshot, Rank
      <3> QED
        BY <3>3, <3>4, Zenon
    <2> QED
      BY <2>2, <2>3, Zenon
  <1>6. ASSUME NEW a \in App, SearchCore(a) PROVE Current(b)' /\ Downhill(b)'
    <2>1. UNCHANGED snapshot /\ cpu' = cpu /\ trail' = trail
      BY <1>6, Zenon DEF SearchCore
    <2>2a. PICK rec : \E c \in Cpu, iL \in Nat, iT \in Nat : SearchedTo(a, c, iL, iT, rec)
      BY <1>6, SearchStep, Zenon
    <2>2. PICK c \in Cpu, iL \in Nat, iT \in Nat : SearchedTo(a, c, iL, iT, rec)
      BY <2>2a, Zenon
    <2>3. CASE b # a
      <3>1. th'[b] = th[b]
        BY <1>0, <2>2, <2>3, Zenon DEF SearchedTo
      <3> QED
        BY <2>1, <3>1, SameSnapshot, Zenon
    <2>4. CASE b = a
      <3> DEFINE x == [cpu |-> c, L |-> iL, T |-> iT]
      <3>1. th'[b] = rec
        BY <1>0, <2>2, <2>4, Zenon DEF SearchedTo
      <3>2. /\ rec.L = th[b].L /\ rec.T = th[b].T /\ rec.ver = th[b].ver
            /\ rec.seen = th[b].seen \/ rec.seen = th[b].seen \cup {x}
        <4>1. CASE rec = [th[a] EXCEPT !.i = @ + 1]
          BY <1>0, <2>4, <4>1, Zenon DEF ThRec
        <4>2. CASE Looked(a, th[a], c, iL, iT, [th[a] EXCEPT !.i = @ + 1, !.seen = @ \cup {x}], rec)
          <5>1. th[a] \in ThRec
            BY <1>0, Zenon
          <5>2. /\ rec.L = th[a].L /\ rec.T = th[a].T /\ rec.ver = th[a].ver
                /\ rec.seen = th[a].seen \cup {x}
            <6> DEFINE nxt == [th[a] EXCEPT !.i = @ + 1, !.seen = @ \cup {x}]
            <6>1. nxt \in ThRec
              <7>1. x \in Sample
                BY Zenon DEF Sample
              <7>2. th[a].i + 1 \in Nat /\ th[a].seen \cup {x} \in SUBSET Sample
                BY <5>1, <7>1 DEF ThRec
              <7> HIDE DEF x
              <7> QED
                BY <5>1, <7>2, RecordType, Zenon
            <6>2. /\ nxt.L = th[a].L /\ nxt.T = th[a].T /\ nxt.ver = th[a].ver
                  /\ nxt.seen = th[a].seen \cup {x}
              BY <5>1, Zenon DEF ThRec
            <6>3. Looked(a, th[a], c, iL, iT, nxt, rec)
              BY <4>2, Zenon
            <6> HIDE DEF x, nxt
            <6> QED
              BY <6>1, <6>2, <6>3, LookedFields
          <5> QED
            BY <2>4, <5>2, Zenon
        <4> QED
          BY <2>2, <4>1, <4>2, Zenon DEF SearchedTo
      <3>3. Current(b) /\ Downhill(b)
        BY Zenon DEF TrailInv
      <3>4. x.cpu = c /\ x.L = L_appstr[x.cpu] /\ x.T = T_appstr[x.cpu]
        BY <2>2, Zenon DEF SearchedTo
      <3>5. Current(b)'
        <4> HIDE DEF x
        <4> QED
          BY <2>1, <2>2, <2>4, <3>1, <3>2, <3>3, <3>4, Zenon DEF Current, snapshot, SearchedTo
      <3>6. Downhill(b)'
        BY <2>1, <3>1, <3>2, <3>3, Zenon DEF Downhill, snapshot, Rank
      <3> QED
        BY <3>5, <3>6, Zenon
    <2> QED
      BY <2>3, <2>4, Zenon
  <1>7. ASSUME NEW a \in App, Steer(a) PROVE Current(b)' /\ Downhill(b)'
    <2>1. UNCHANGED snapshot /\ th' = [th EXCEPT ![a] = [th[a] EXCEPT !.pc = "tag"]]
      BY <1>7, Zenon DEF Steer, Th
    <2>2. th'[b] = th[b] \/ (th'[b].pc # "search" /\ th'[b].ver = th[b].ver)
      BY <1>0, <2>1, Zenon DEF ThRec
    <2>5. th[a].target \in {-1} \cup Cpu
      BY Zenon DEF Types, ThRec
    <2>3. CASE b # a \/ th[a].target < 0
      <3>1. cpu'[b] = cpu[b] /\ trail'[b] = trail[b]
        <4>1. CASE b # a
          BY <1>0, <1>7, <4>1, Zenon DEF Steer
        <4>2. CASE th[a].target < 0
          <5>1. ~(th[a].target >= 0)
            BY <2>5, <4>2 DEF Cpu
          <5> QED
            BY <1>7, <5>1, Zenon DEF Steer
        <4> QED
          BY <2>3, <4>1, <4>2, Zenon
      <3> QED
        BY <2>1, <2>2, <3>1, SameSnapshot, Zenon
    <2>4. CASE b = a /\ th[a].target >= 0
      <3>1. Downhill(b)'
        BY <1>7, <2>4, SteerTrail, Zenon
      <3>2. th'[b].pc = "tag"
        BY <1>0, <2>1, <2>4, Zenon DEF ThRec
      <3> QED
        BY <3>1, <3>2, Zenon DEF Current
    <2> QED
      BY <2>3, <2>4, <2>5 DEF Cpu
  <1> QED
    BY <1>1, <1>2, <1>3, <1>4, <1>5, <1>6, <1>7, Zenon DEF Next

-----------------------------------------------------------------------------
(* Theorems *)

(* The initial states satisfy the invariant. *)
LEMMA InitInv == AppConstants /\ Init => IInv
  <1> SUFFICES ASSUME AppConstants, Init PROVE IInv
    BY Zenon
  <1>1. Types
    <2>1. PICK load \in [Cpu -> Loads] :
             /\ T_metric = [c \in Cpu |-> load[c].T] /\ T_appstr = T_metric
             /\ L_metric = [c \in Cpu |-> load[c].L] /\ L_appstr = L_metric
             /\ last_appstr \in {"none", "ahead"} /\ reset_metrics \in {"none", "ahead"}
             /\ appstr_app \in {"T", "L"}
      BY Zenon DEF Init
    <2>2. \A c \in Cpu : load[c].T \in Nat /\ load[c].L \in Nat
      BY DEF AppConstants
    <2>3. Counters
      BY <2>1, <2>2, Zenon DEF Init, Counters, Zero
    <2>4. th \in [App -> ThRec]
      BY Zenon DEF Init, NoTh, ThRec
    <2> QED
      BY <2>1, <2>3, <2>4, Zenon DEF Init, Types, AppConstants
  <1>2. SearchInv
    BY Zenon DEF Init, SearchInv, NoTh
  <1>3. TrailInv
    BY DEF Init, TrailInv, Current, Downhill, NoTh
  <1> QED
    BY <1>1, <1>2, <1>3, Zenon DEF IInv

(* The invariant is inductive. *)
LEMMA Invariance == AppConstants => (Spec => []IInv)
  <1> SUFFICES ASSUME AppConstants PROVE Spec => []IInv
    BY Zenon
  <1>1. Init => IInv
    BY InitInv, Zenon
  <1>2. IInv /\ [Next]_vars => IInv'
    BY TypesNext, SearchNext, TrailNext, Zenon DEF IInv
  <1> QED
    BY <1>1, <1>2, PTL DEF Spec

(* The metrics and the snapshot stay natural numbers, applications stay on *)
(* cores, and blk_mq_get_request only ever aims at a core of the machine.  *)
THEOREM TypeCorrect == AppConstants => (Spec => []TypeOK)
  <1> SUFFICES ASSUME AppConstants PROVE Spec => []TypeOK
    BY Zenon
  <1>1. IInv => TypeOK
    BY Zenon DEF IInv, Types, Counters, ThRec, TypeOK
  <1> QED
    BY <1>1, Invariance, PTL

(* However copies and searches interleave, the search of blk_mq_get_request*)
(* only picks a core that, as it read it, beats the application's own, and *)
(* the best of those it looked at.                                         *)
THEOREM SteersCorrect == AppConstants => (Spec => []SteersToBetter)
  <1> SUFFICES ASSUME AppConstants PROVE Spec => []SteersToBetter
    BY Zenon
  <1>1. IInv => SteersToBetter
    <2> SUFFICES ASSUME IInv, NEW a \in App, th[a].pc = "search", th[a].target >= 0
                 PROVE  \E s \in th[a].seen :
                            /\ s.cpu = th[a].target
                            /\ a \notin Thru =>
                                  /\ s.L > 0 /\ s.L + s.T < th[a].L + th[a].T
                                  /\ \A o \in th[a].seen : o.L = 0 \/ s.L + s.T <= o.L + o.T
                            /\ a \in Thru =>
                                  /\ s.L < th[a].L
                                  /\ \A o \in th[a].seen :
                                        /\ o.L < th[a].L => s.T <= o.T
                                        /\ ~(th[a].L < o.L /\ o.L < ThreshL)
      BY Zenon DEF SteersToBetter
    <2>1. Led(a, th[a])
      BY Zenon DEF IInv, SearchInv
    <2>2. CASE a \notin Thru
      <3>1. PICK s \in th[a].seen : s.cpu = th[a].target /\ s.L > 0 /\ s.L + s.T = th[a].min
        BY <2>1, <2>2, Zenon DEF Led
      <3>2. th[a].min < th[a].L + th[a].T
            /\ \A o \in th[a].seen : o.L = 0 \/ th[a].min <= o.L + o.T
        BY <2>1, <2>2, Zenon DEF Led
      <3> QED
        BY <2>2, <3>1, <3>2, Zenon
    <2>3. CASE a \in Thru
      <3>1. PICK s \in th[a].seen : s.cpu = th[a].target /\ s.L < th[a].L /\ s.T = th[a].min
        BY <2>1, <2>3, Zenon DEF Led
      <3>2. \A o \in th[a].seen : /\ o.L < th[a].L => th[a].min <= o.T
                                  /\ ~WaitForL(th[a].L, o.L)
        BY <2>1, <2>3 DEF Led
      <3>3. \A o \in th[a].seen : /\ o.L < th[a].L => s.T <= o.T
                                  /\ ~(th[a].L < o.L /\ o.L < ThreshL)
        BY <3>1, <3>2, Zenon DEF WaitForL
      <3> QED
        BY <2>3, <3>1, <3>3, Zenon
    <2> QED
      BY <2>2, <2>3, Zenon
  <1> QED
    BY <1>1, Invariance, PTL

(* As long as the snapshot is not written, the moves of an application go  *)
(* strictly down in what it wants less of, so that none returns it to a    *)
(* core it left.                                                           *)
THEOREM NoPingPongCorrect == AppConstants => (Spec => NoPingPong)
  <1> SUFFICES ASSUME AppConstants PROVE Spec => NoPingPong
    BY Zenon
  <1>1. IInv /\ [Next]_vars => [NoPingPongStep]_vars
    <2> SUFFICES ASSUME IInv, [Next]_vars, NEW a \in App, cpu'[a] # cpu[a],
                        th[a].ver = version, trail[a].ver = version
                 PROVE  cpu'[a] \notin trail[a].cores
      BY Zenon DEF NoPingPongStep
    <2>1. Steer(a) /\ th[a].target >= 0 /\ cpu'[a] = th[a].target
      <3>1. cpu \in [App -> Cpu]
        BY Zenon DEF IInv, Types
      <3>2. \E b \in App : Steer(b)
        BY DEF Next, vars, Submit, CopyCore, HandOver, ReadOwn, SearchCore, InitRequest,
               EndRequest, TickSnapshot, TickReset
      <3> QED
        BY <3>1, <3>2, Zenon DEF Steer
    <2>2. Rank(a, th[a].target) < Rank(a, cpu[a])
      BY <2>1, TargetRank, Zenon DEF IInv, Steer
    <2>3. \A c \in trail[a].cores : Rank(a, cpu[a]) < Rank(a, c)
      BY Zenon DEF IInv, TrailInv, Downhill
    <2>4. \A c \in Cpu : Rank(a, c) \in Int
      BY DEF IInv, Types, Counters, Rank
    <2>5. cpu[a] \in Cpu /\ trail[a].cores \subseteq Cpu /\ th[a].target \in {-1} \cup Cpu
      BY Zenon DEF IInv, Types, ThRec
    <2> QED
      BY <2>1, <2>2, <2>3, <2>4, <2>5
  <1>2. Spec => [][Next]_vars
    BY PTL DEF Spec
  <1> QED
    BY <1>1, <1>2, Invariance, PTL DEF NoPingPong

-----------------------------------------------------------------------------
(* RtRcu: no reader of what was freed, for any number of kthreads and      *)
(* objects and any width of the counters                                   *)

RcuTypes ==
    /\ nrks \in Nat /\ gen = [k \in ks |-> gen[k]] /\ reading \in [ks -> Obj \cup {NoObj}]
    /\ ptr \in Obj /\ state \in [Obj -> {"live", "queued", "syncing", "woken", "free"}]
    /\ pc \in {"idle", "read", "check"} /\ head \subseteq Obj
    /\ last = [k \in ks |-> last[k]] /\ i \in Nat

\* Whoever reads an object of the list has been running since it was taken: its
\* counter is yet to be read, or was read and is yet to be compared.
Held(k) ==
    /\ gen[k] % 2 = 1
    /\ \/ pc = "read" /\ i <= k
       \/ last[k] = gen[k] /\ (pc = "read" \/ i <= k)

RcuInv ==
    /\ RcuTypes
    /\ state[ptr] = "live" /\ \A o \in Obj : state[o] = "live" => o = ptr
    /\ \A o \in head : state[o] \in {"queued", "syncing"}
    /\ pc = "idle" => head = {}
    /\ \A k \in ks : reading[k] # NoObj =>
          /\ k <= nrks /\ gen[k] % 2 = 1 /\ reading[k] \in Obj
          /\ state[reading[k]] \in {"live", "queued", "syncing"}
          /\ reading[k] \in head => Held(k)

(* Every step keeps RcuInv. *)
LEMMA RcuStep == RcuInv /\ [RcuNext]_rcuVars => RcuInv'
  <1> SUFFICES ASSUME RcuInv, [RcuNext]_rcuVars PROVE RcuInv'
    BY Zenon
  <1> USE DEF RcuInv
  <1>1. CASE UNCHANGED rcuVars
    BY <1>1, Zenon DEF rcuVars, RcuTypes, Held
  <1>2. CASE AttachKthread
    <2>1. \A k \in ks : k <= nrks => k <= nrks + 1
      BY DEF RcuTypes, ks
    <2> QED
      BY <1>2, <2>1 DEF AttachKthread, wvars, RcuTypes, Held
  <1>3. ASSUME NEW k \in ks, Switch(k) PROVE RcuInv'
    <2>1. gen' = [j \in ks |-> gen'[j]] /\ \A j \in ks : reading[j] # NoObj => gen'[j] = gen[j]
      BY <1>3, Zenon DEF Switch, RcuTypes
    <2> QED
      BY <1>3, <2>1, Zenon DEF Switch, wvars, RcuTypes, Held
  <1>4. ASSUME NEW k \in ks, ReadLock(k) PROVE RcuInv'
    <2>1. ptr \notin head
      BY Zenon
    <2> QED
      BY <1>4, <2>1, Zenon DEF ReadLock, wvars, RcuTypes, Held
  <1>5. ASSUME NEW k \in ks, ReadUnlock(k) PROVE RcuInv'
    BY <1>5, Zenon DEF ReadUnlock, wvars, RcuTypes, Held
  <1>6. ASSUME NEW how \in {"queued", "syncing"}, Replace(how) PROVE RcuInv'
    <2>1. PICK o \in Obj : /\ state[o] = "free" /\ ptr' = o
                           /\ state' = [state EXCEPT ![ptr] = how, ![o] = "live"]
      BY <1>6, Zenon DEF Replace
    <2>2. o # ptr /\ o \notin head /\ ptr \notin head
      BY <2>1, Zenon
    <2>3. /\ state'[o] = "live" /\ state'[ptr] = how
          /\ \A p \in Obj \ {o, ptr} : state'[p] = state[p]
          /\ state' \in [Obj -> {"live", "queued", "syncing", "woken", "free"}]
      BY <2>1, <2>2, Zenon DEF RcuTypes
    <2> QED
      BY <1>6, <2>1, <2>2, <2>3 DEF Replace, kvars, wvars, RcuTypes, Held
  <1>7. ASSUME NEW o \in Obj, OwnerFrees(o) PROVE RcuInv'
    BY <1>7, Zenon DEF OwnerFrees, kvars, wvars, RcuTypes, Held
  <1>8. CASE WorkerTake
    BY <1>8 DEF WorkerTake, kvars, RcuTypes, Held, ks
  <1>9. CASE WorkerRead
    <2>1. ASSUME NEW k \in ks, reading[k] \in head, reading[k] # NoObj, i > nrks
          PROVE  last[k] = gen[k] /\ 1 <= k
      BY <2>1 DEF RcuTypes, Held, ks
    <2>2. CASE i <= nrks
      <3>1. /\ last' = [last EXCEPT ![i] = gen[i]] /\ i' = i + 1 /\ pc' = "read" /\ pc = "read"
            /\ UNCHANGED <<ptr, state, head, nrks, gen, reading>>
        BY <1>9, <2>2, Zenon DEF WorkerRead, kvars
      <3>2. /\ last' = [k \in ks |-> last'[k]]
            /\ \A k \in ks : last'[k] = IF k = i THEN gen[k] ELSE last[k]
        BY <3>1, Zenon DEF RcuTypes
      <3>3. \A k \in ks : k \in Int
        BY DEF ks
      <3>4. ASSUME NEW k \in ks, Held(k) PROVE Held(k)'
        BY <3>1, <3>2, <3>3, <3>4 DEF Held, RcuTypes
      <3> QED
        BY <3>1, <3>2, <3>4 DEF RcuTypes
    <2>3. CASE i > nrks
      BY <1>9, <2>1, <2>3 DEF WorkerRead, kvars, RcuTypes, Held
    <2> QED
      BY <2>2, <2>3 DEF RcuTypes
  <1>10. CASE WorkerCheck
    BY <1>10 DEF WorkerCheck, Same, kvars, RcuTypes, Held, ks
  <1>11. CASE WorkerEnd
    <2>1. ASSUME NEW k \in ks, reading[k] # NoObj PROVE reading[k] \notin head
      BY <1>11, <2>1 DEF WorkerEnd, RcuTypes, Held, ks
    <2>2. CASE i - 1 # maxks
      BY <1>11, <2>1, <2>2 DEF WorkerEnd, kvars, RcuTypes
    <2>3. CASE i - 1 = maxks
      <3>1. /\ head' = {} /\ pc' = "idle" /\ i' = 1
            /\ UNCHANGED <<last, ptr, nrks, gen, reading>>
            /\ \A o \in Obj \ head : state'[o] = state[o]
            /\ \A o \in head : state'[o] \in {"free", "woken"}
            /\ state' \in [Obj -> {"live", "queued", "syncing", "woken", "free"}]
        BY <1>11, <2>3 DEF WorkerEnd, kvars, RcuTypes
      <3> QED
        BY <2>1, <3>1 DEF RcuTypes
    <2> QED
      BY <2>2, <2>3, Zenon
  <1> QED
    BY <1>1, <1>2, <1>3, <1>4, <1>5, <1>6, <1>7, <1>8, <1>9, <1>10, <1>11, Zenon
       DEF RcuNext, RcuFree, SynchronizeRcu

(* rcu_worker and synchronize_rcu never let go of an object a reader still *)
(* holds, although the counters are read one by one, kthreads attach while *)
(* they are, and the counters wrap.                                        *)
THEOREM RcuCorrect == RcuSpec => []NoReaderOfFreed
  <1>1. RcuInit => RcuInv
    BY DEF RcuInit, RcuInv, RcuTypes
  <1>2. RcuInv => NoReaderOfFreed
    BY Zenon DEF RcuInv, NoReaderOfFreed
  <1> QED
    BY <1>1, <1>2, RcuStep, PTL DEF RcuSpec

-----------------------------------------------------------------------------
(* IokPolicy: the books of the simple and numa policies, for any cores,    *)
(* processes, guarantees and limits                                        *)

Owner == P \cup {NoProc}

\* Core c runs the thread of p, or will: a switch that has been asked for
\* comes after the one under way.
Running(c) == IF pend[c] # NoProc THEN pend[c] ELSE cur[c]

PolTypes ==
    /\ policy \in {"simple", "numa"} /\ attached \subseteq P
    /\ cores \in [Cores -> Owner] /\ cur \in [Cores -> Owner] /\ pend \in [Cores -> Owner]
    /\ wait \in [Cores -> BOOLEAN] /\ idle \in [Cores -> BOOLEAN]
    /\ threads_active \in [P -> Int] /\ congested \in Seq(P)
    /\ edge \subseteq Allowed

\* The low-level scheduler: only a core that waits has a switch pending; an idle
\* one has neither.
SwitchRight ==
    \A c \in Cores : /\ ~wait[c] => pend[c] = NoProc
                     /\ idle[c] => ~wait[c] /\ cur[c] = NoProc

\* The list has every process once, and none that is gone.
ListRight ==
    /\ \A j, k \in 1 .. Len(congested) : congested[j] = congested[k] => j = k
    /\ Congested \subseteq attached

On(f, p) == {c \in Cores : f[c] = p}
CountsRight ==
    \A p \in P : /\ threads_active[p] = Cardinality(On(cores, p))
                 /\ Cardinality(On(cur, p)) + Cardinality(On(pend, p)) <= Max[p]

CoresRight ==
    /\ \A c \in Cores : cores[c] \in attached \cup {NoProc}
    /\ \A c \in Cores \ edge : cores[c] # NoProc => cores[c] = Running(c) /\ c \notin idle_cores
    /\ \A c \in Allowed \ edge : cores[c] = NoProc => c \in idle_cores \/ ~idle[c]

PolicyInv ==
    /\ PolTypes /\ SwitchRight /\ ListRight /\ CountsRight /\ CoresRight /\ warned = FALSE

-----------------------------------------------------------------------------
(* What the operators do *)

LEMMA OnFinite ==
  ASSUME NEW f, NEW p
  PROVE  IsFiniteSet(On(f, p)) /\ Cardinality(On(f, p)) \in Nat
  <1>1. IsFiniteSet(On(f, p))
    BY PolicyAssumption, FS_Subset, Zenon DEF On
  <1> QED
    BY <1>1, FS_CardinalityType, Zenon

(* One core changes hands: its new process gains one, its old one loses one. *)
LEMMA OnExcept ==
  ASSUME NEW f \in [Cores -> Owner], NEW g \in [Cores -> Owner], NEW c \in Cores, NEW p \in P,
         \A d \in Cores \ {c} : g[d] = f[d]
  PROVE  Cardinality(On(g, p)) = Cardinality(On(f, p)) + (IF p = g[c] THEN 1 ELSE 0)
                                     - (IF p = f[c] THEN 1 ELSE 0)
  <1>0. IsFiniteSet(On(f, p)) /\ Cardinality(On(f, p)) \in Nat
    BY OnFinite, Zenon
  <1>1. CASE p = g[c] /\ p # f[c]
    <2>1. On(g, p) = On(f, p) \cup {c} /\ c \notin On(f, p)
      BY <1>1, Zenon DEF On
    <2>2. Cardinality(On(g, p)) = Cardinality(On(f, p)) + 1
      BY <1>0, <2>1, FS_AddElement, Zenon
    <2> QED
      BY <1>0, <1>1, <2>2
  <1>2. CASE p # g[c] /\ p = f[c]
    <2>1. On(g, p) = On(f, p) \ {c} /\ c \in On(f, p)
      BY <1>2 DEF On
    <2>2. Cardinality(On(g, p)) = Cardinality(On(f, p)) - 1
      <3>1. Cardinality(On(f, p) \ {c}) = Cardinality(On(f, p)) - 1
        BY <1>0, <2>1, FS_RemoveElement, Zenon
      <3> QED
        BY <2>1, <3>1, Zenon
    <2> QED
      BY <1>0, <1>2, <2>2
  <1>3. CASE (p = g[c]) <=> (p = f[c])
    <2>1. On(g, p) = On(f, p)
      BY <1>3, Zenon DEF On
    <2> QED
      BY <1>0, <1>3, <2>1
  <1> QED
    BY <1>1, <1>2, <1>3, Zenon

(* A process that is taken from the list is not on it, and no other leaves it. *)
LEMMA WithoutRight ==
  ASSUME PolTypes, ListRight, NEW p, congested' = Without(p)
  PROVE  /\ congested' \in Seq(P)
         /\ \A j, k \in 1 .. Len(congested') : congested'[j] = congested'[k] => j = k
         /\ Congested' \subseteq Congested \ {p}
  <1>1. CASE p \notin Congested
    <2>1. congested' = congested
      BY <1>1, Zenon DEF Without
    <2> QED
      BY <1>1, <2>1, Zenon DEF PolTypes, ListRight, Congested
  <1>2. CASE p \in Congested
    <2> DEFINE k == CHOOSE k \in 1 .. Len(congested) : congested[k] = p
    <2>1. k \in 1 .. Len(congested) /\ congested[k] = p
      BY <1>2, Zenon DEF Congested
    <2>2. congested' = [j \in 1 .. Len(congested) - 1 |-> congested[IF j < k THEN j ELSE j + 1]]
      BY <1>2, Zenon DEF Without
    <2> HIDE DEF k
    <2>3. Len(congested) \in Nat /\ \A j \in 1 .. Len(congested) : congested[j] \in P
      BY DEF PolTypes
    <2>4. \A j \in 1 .. Len(congested) - 1 :
            (IF j < k THEN j ELSE j + 1) \in 1 .. Len(congested) /\ (IF j < k THEN j ELSE j + 1) # k
      BY <2>1, <2>3
    <2>5. congested' \in Seq(P) /\ Len(congested') = Len(congested) - 1
      <3>1. Len(congested) - 1 \in Nat
        BY <2>1, <2>3
      <3>2. \A j \in 1 .. Len(congested) - 1 : congested[IF j < k THEN j ELSE j + 1] \in P
        BY <2>3, <2>4, Zenon
      <3> QED
        BY <2>2, <3>1, <3>2
    <2>6. \A j \in 1 .. Len(congested') : congested'[j] = congested[IF j < k THEN j ELSE j + 1]
      BY <2>2, <2>5, Zenon
    <2>7. ASSUME NEW j \in 1 .. Len(congested'), NEW l \in 1 .. Len(congested'),
                 congested'[j] = congested'[l]
          PROVE  j = l
      <3>1. (IF j < k THEN j ELSE j + 1) = (IF l < k THEN l ELSE l + 1)
        BY <2>4, <2>5, <2>6, <2>7 DEF ListRight
      <3> QED
        BY <2>1, <2>3, <2>5, <3>1
    <2>8. ASSUME NEW j \in 1 .. Len(congested') PROVE congested'[j] \in Congested \ {p}
      BY <2>1, <2>4, <2>5, <2>6, <2>8 DEF ListRight, Congested
    <2> QED
      BY <2>5, <2>7, <2>8, Zenon DEF Congested
  <1> QED
    BY <1>1, <1>2, Zenon

-----------------------------------------------------------------------------
(* What a step of the policy does to the books *)

\* The list as a step may leave it.
ListKept ==
    /\ congested' \in Seq(P) /\ Congested' \subseteq attached
    /\ \A j, k \in 1 .. Len(congested') : congested'[j] = congested'[k] => j = k

(* A core is given to a process, or to nobody. *)
LEMMA AssignRight ==
  ASSUME PolTypes, CountsRight, NEW c \in Cores, NEW p \in Owner, Assign(c, p)
  PROVE  /\ cores' \in [Cores -> Owner] /\ threads_active' \in [P -> Int] /\ cores'[c] = p
         /\ \A d \in Cores \ {c} : cores'[d] = cores[d]
         /\ \A q \in P : threads_active'[q] = Cardinality(On(cores, q)')
  <1>1. /\ cores \in [Cores -> Owner] /\ cores' \in [Cores -> Owner] /\ cores'[c] = p
        /\ \A d \in Cores \ {c} : cores'[d] = cores[d]
    BY Zenon DEF Assign, PolTypes
  <1>2. threads_active' \in [P -> Int]
    BY DEF Assign, PolTypes
  <1>3. ASSUME NEW q \in P PROVE threads_active'[q] = Cardinality(On(cores, q)')
    <2>1. On(cores, q)' = On(cores', q)
      BY Zenon DEF On
    <2>2. Cardinality(On(cores', q)) = Cardinality(On(cores, q)) + (IF q = cores'[c] THEN 1 ELSE 0)
                                         - (IF q = cores[c] THEN 1 ELSE 0)
      BY <1>1, OnExcept
    <2>3. threads_active'[q] = threads_active[q] + (IF q = p THEN 1 ELSE 0)
                                 - (IF q = cores[c] THEN 1 ELSE 0)
      BY Zenon DEF Assign
    <2> QED
      BY <1>1, <2>1, <2>2, <2>3, Zenon DEF CountsRight
  <1> QED
    BY <1>1, <1>2, <1>3, Zenon

(* A thread is started on a core: it is the one that will run there. *)
LEMMA SchedRunRight ==
  ASSUME PolTypes, SwitchRight, CountsRight, NEW c \in Cores, NEW p \in P, SchedRun(c, p),
         Avail(p) > 0
  PROVE  /\ cur' \in [Cores -> Owner] /\ pend' \in [Cores -> Owner]
         /\ wait' \in [Cores -> BOOLEAN] /\ idle' \in [Cores -> BOOLEAN]
         /\ SwitchRight' /\ Running(c)' = p
         /\ \A d \in Cores \ {c} : Running(d)' = Running(d) /\ idle'[d] = idle[d]
         /\ \A q \in P : Cardinality(On(cur, q)') + Cardinality(On(pend, q)') <= Max[q]
  <1>0. p # NoProc /\ c \in Cores /\ p \in Owner
    BY PolicyAssumption, Zenon DEF Owner
  <1>1. /\ cur' \in [Cores -> Owner] /\ pend' \in [Cores -> Owner]
        /\ wait' \in [Cores -> BOOLEAN] /\ idle' \in [Cores -> BOOLEAN]
        /\ \A d \in Cores \ {c} : /\ cur'[d] = cur[d] /\ pend'[d] = pend[d]
                                  /\ wait'[d] = wait[d] /\ idle'[d] = idle[d]
    BY <1>0, Zenon DEF SchedRun, PolTypes
  <1>2. /\ wait[c] => cur'[c] = cur[c] /\ pend'[c] = p /\ wait'[c] /\ idle'[c] = idle[c]
        /\ ~wait[c] => cur'[c] = p /\ pend'[c] = pend[c] /\ wait'[c] /\ ~idle'[c]
    BY <1>0, Zenon DEF SchedRun, PolTypes
  <1>3. SwitchRight'
    BY <1>1, <1>2, Zenon DEF SwitchRight
  <1>4. Running(c)' = p /\ \A d \in Cores \ {c} : Running(d)' = Running(d) /\ idle'[d] = idle[d]
    BY <1>0, <1>1, <1>2, Zenon DEF Running, SwitchRight
  <1>6. cur \in [Cores -> Owner] /\ pend \in [Cores -> Owner]
    BY Zenon DEF PolTypes
  <1>5. ASSUME NEW q \in P PROVE Cardinality(On(cur, q)') + Cardinality(On(pend, q)') <= Max[q]
    <2>1. On(cur, q)' = On(cur', q) /\ On(pend, q)' = On(pend', q)
      BY Zenon DEF On
    <2>2. Cardinality(On(cur', q)) = Cardinality(On(cur, q)) + (IF q = cur'[c] THEN 1 ELSE 0)
                                       - (IF q = cur[c] THEN 1 ELSE 0)
      BY <1>1, <1>6, OnExcept
    <2>3. Cardinality(On(pend', q)) = Cardinality(On(pend, q)) + (IF q = pend'[c] THEN 1 ELSE 0)
                                        - (IF q = pend[c] THEN 1 ELSE 0)
      BY <1>1, <1>6, OnExcept
    <2>4. Cardinality(On(cur, q)) \in Nat /\ Cardinality(On(pend, q)) \in Nat /\ Max[q] \in Nat
      BY OnFinite, PolicyAssumption, Zenon
    <2>5. q = p => Cardinality(On(cur, q)) + Cardinality(On(pend, q)) < Max[q]
      BY <2>4 DEF Avail, On
    <2>6. Cardinality(On(cur, q)) + Cardinality(On(pend, q)) <= Max[q]
      BY Zenon DEF CountsRight
    <2> QED
      BY <1>2, <2>1, <2>2, <2>3, <2>4, <2>5, <2>6
  <1> QED
    BY <1>1, <1>3, <1>4, <1>5, Zenon

(* A kthread is run on a core. *)
LEMMA RunRight ==
  ASSUME PolicyInv, NEW p \in attached, NEW c \in Cores, RunKthreadOnCore(p, c), ListKept,
         edge' = edge \/ edge' = edge \ {c}, UNCHANGED <<policy, attached, warned>>
  PROVE  PolicyInv'
  <1> USE DEF PolicyInv
  <1>0. p \in P /\ p \in Owner /\ p # NoProc
    BY PolicyAssumption, Zenon DEF PolTypes, Owner
  <1>1. /\ cores' \in [Cores -> Owner] /\ threads_active' \in [P -> Int] /\ cores'[c] = p
        /\ \A d \in Cores \ {c} : cores'[d] = cores[d]
        /\ \A q \in P : threads_active'[q] = Cardinality(On(cores, q)')
    BY <1>0, AssignRight, Zenon DEF RunKthreadOnCore
  <1>2. /\ cur' \in [Cores -> Owner] /\ pend' \in [Cores -> Owner]
        /\ wait' \in [Cores -> BOOLEAN] /\ idle' \in [Cores -> BOOLEAN]
        /\ SwitchRight' /\ Running(c)' = p
        /\ \A d \in Cores \ {c} : Running(d)' = Running(d) /\ idle'[d] = idle[d]
        /\ \A q \in P : Cardinality(On(cur, q)') + Cardinality(On(pend, q)') <= Max[q]
    BY <1>0, SchedRunRight, Zenon DEF RunKthreadOnCore, CanRun
  <1>3. PolTypes' /\ ListRight' /\ warned' = FALSE
    BY <1>1, <1>2, Zenon DEF PolTypes, ListKept, ListRight
  <1>4. CountsRight'
    BY <1>1, <1>2, Zenon DEF CountsRight
  <1>5. idle_cores' = idle_cores \ {c} /\ attached' = attached
    BY Zenon DEF RunKthreadOnCore
  <1>6. CoresRight'
    <2>1. \A d \in Cores : cores'[d] \in attached' \cup {NoProc}
      BY <1>1, <1>5, Zenon DEF CoresRight
    <2>2. \A d \in Cores \ edge' : cores'[d] # NoProc => cores'[d] = Running(d)' /\ d \notin idle_cores'
      BY <1>1, <1>2, <1>5, Zenon DEF CoresRight
    <2>3. \A d \in Allowed \ edge' : cores'[d] = NoProc => d \in idle_cores' \/ ~idle'[d]
      BY <1>0, <1>1, <1>2, <1>5, PolicyAssumption, Zenon DEF CoresRight
    <2> QED
      BY <2>1, <2>2, <2>3, Zenon DEF CoresRight
  <1> QED
    BY <1>2, <1>3, <1>4, <1>6, Zenon

(* A core that went idle is nobody's. *)
LEMMA IdleRight ==
  ASSUME PolicyInv, NEW c \in Cores, Assign(c, NoProc), idle_cores' = idle_cores \cup {c},
         ListKept, edge' = edge \ {c}, UNCHANGED <<policy, attached, warned, cur, pend, wait, idle>>
  PROVE  PolicyInv'
  <1> USE DEF PolicyInv
  <1>0. NoProc \in Owner
    BY Zenon DEF Owner
  <1>1. /\ cores' \in [Cores -> Owner] /\ threads_active' \in [P -> Int] /\ cores'[c] = NoProc
        /\ \A d \in Cores \ {c} : cores'[d] = cores[d]
        /\ \A q \in P : threads_active'[q] = Cardinality(On(cores, q)')
    BY <1>0, AssignRight, Zenon
  <1>2. PolTypes' /\ ListRight' /\ SwitchRight' /\ warned' = FALSE
    BY <1>1, Zenon DEF PolTypes, ListKept, ListRight, SwitchRight
  <1>3. CountsRight'
    BY <1>1, Zenon DEF CountsRight, On
  <1>4. \A d \in Cores : Running(d)' = Running(d)
    BY Zenon DEF Running
  <1>5. CoresRight'
    <2>1. \A d \in Cores : cores'[d] \in attached' \cup {NoProc}
      BY <1>1, Zenon DEF CoresRight
    <2>2. \A d \in Cores \ edge' : cores'[d] # NoProc => cores'[d] = Running(d)' /\ d \notin idle_cores'
      BY <1>1, <1>4, Zenon DEF CoresRight
    <2>3. \A d \in Allowed \ edge' : cores'[d] = NoProc => d \in idle_cores' \/ ~idle'[d]
      BY <1>1, PolicyAssumption, Zenon DEF CoresRight
    <2> QED
      BY <2>1, <2>2, <2>3, Zenon DEF CoresRight
  <1> QED
    BY <1>2, <1>3, <1>5, Zenon

(* A core the policy chooses for a process is free for it. *)
LEMMA ChosenFree ==
  ASSUME PolTypes, NEW p \in P, NEW c \in ChooseCore(p)
  PROVE  c \in Cores /\ Free(c, p)
  <1>1. \A s \in SiblingCores(p) : s \in Cores /\ Free(s, p)
    BY PolicyAssumption, Zenon DEF SiblingCores
  <1>2. \A s \in InSubset(p, Allowed) \cup InSubset(p, Near(p)) : s \in Cores /\ Free(s, p)
    BY PolicyAssumption, Zenon DEF InSubset, Near
  <1>3. c \in SiblingCores(p) \cup InSubset(p, Allowed) \cup InSubset(p, Near(p))
    BY Zenon DEF ChooseCore
  <1> QED
    BY <1>1, <1>2, <1>3, Zenon
-----------------------------------------------------------------------------
(* Every step keeps the invariant *)

LEMMA AttachRight == ASSUME PolicyInv, NEW p \in P, Attach(p), UNCHANGED edge PROVE PolicyInv'
  <1>1. /\ attached' = attached \cup {p} /\ attached' \subseteq P
        /\ UNCHANGED <<policy, cores, threads_active, congested, idle_cores, warned, cur, pend,
                       wait, idle, edge>>
    BY Zenon DEF PolicyInv, PolTypes, Attach, schedvars
  <1>2. PolTypes' /\ SwitchRight' /\ ListRight' /\ CountsRight' /\ warned' = FALSE
    BY <1>1 DEF PolicyInv, PolTypes, SwitchRight, ListRight, Congested, CountsRight, On
  <1>3. CoresRight'
    BY <1>1, Zenon DEF PolicyInv, CoresRight, Running
  <1> QED
    BY <1>2, <1>3, Zenon DEF PolicyInv

LEMMA DetachRight == ASSUME PolicyInv, NEW p \in P, Detach(p), edge = {}, edge' = {} PROVE PolicyInv'
  <1>1. /\ attached' = attached \ {p} /\ attached' \subseteq P
        /\ cores' = [c \in Cores |-> IF cores[c] = p THEN NoProc ELSE cores[c]]
        /\ threads_active' = [threads_active EXCEPT ![p] = 0]
        /\ UNCHANGED <<policy, idle_cores, warned, cur, pend, wait, idle>>
        /\ congested' = Without(p)
    BY Zenon DEF PolicyInv, PolTypes, Detach, schedvars
  <1>2. /\ congested' \in Seq(P)
        /\ \A j, k \in 1 .. Len(congested') : congested'[j] = congested'[k] => j = k
        /\ Congested' \subseteq Congested \ {p}
    BY <1>1, WithoutRight, Zenon DEF PolicyInv
  <1>3. cores' \in [Cores -> Owner] /\ threads_active' \in [P -> Int]
    BY <1>1 DEF PolicyInv, PolTypes, Owner
  <1>4. PolTypes' /\ SwitchRight' /\ ListRight' /\ warned' = FALSE
    BY <1>1, <1>2, <1>3, Zenon DEF PolicyInv, PolTypes, SwitchRight, ListRight
  <1>5. CountsRight'
    <2>1. On(cores', p) = {} /\ \A q \in P \ {p} : On(cores', q) = On(cores, q)
      BY <1>1, PolicyAssumption DEF On
    <2>2. Cardinality(On(cores', p)) = 0
      BY <2>1, FS_EmptySet, Zenon
    <2>3. threads_active'[p] = 0 /\ \A q \in P \ {p} : threads_active'[q] = threads_active[q]
      BY <1>1, Zenon DEF PolicyInv, PolTypes
    <2>4. \A q \in P : On(cores, q)' = On(cores', q) /\ On(cur, q)' = On(cur, q)
                       /\ On(pend, q)' = On(pend, q)
      BY <1>1, Zenon DEF On
    <2> QED
      BY <2>1, <2>2, <2>3, <2>4, Zenon DEF PolicyInv, CountsRight
  <1>6. CoresRight'
    <2>1. \A c \in Cores : cores'[c] \in attached' \cup {NoProc}
      BY <1>1, Zenon DEF PolicyInv, CoresRight
    <2>2. \A c \in Cores : Running(c)' = Running(c)
      BY <1>1, Zenon DEF Running
    <2>3. \A c \in Cores : cores'[c] # NoProc => cores'[c] = Running(c)' /\ c \notin idle_cores'
      BY <1>1, <2>2, Zenon DEF PolicyInv, CoresRight
    <2>4. ASSUME NEW c \in Allowed, cores'[c] = NoProc PROVE c \in idle_cores' \/ ~idle'[c]
      BY <1>1, <2>4, PolicyAssumption, Zenon DEF PolicyInv, CoresRight, SwitchRight, Running
    <2> QED
      BY <2>1, <2>3, <2>4, Zenon DEF CoresRight
  <1> QED
    BY <1>4, <1>5, <1>6, Zenon DEF PolicyInv

LEMMA AddRight ==
  ASSUME PolicyInv, NEW p \in attached, AddKthread(p), UNCHANGED <<policy, attached, congested, warned, edge>>
  PROVE  PolicyInv'
  <1>1. p \in P /\ PolTypes
    BY Zenon DEF PolicyInv, PolTypes
  <1>2. PICK c \in ChooseCore(p) : RunKthreadOnCore(p, c)
    BY Zenon DEF AddKthread
  <1>3. c \in Cores
    BY <1>1, ChosenFree, Zenon
  <1>4. ListKept
    BY Zenon DEF ListKept, PolicyInv, PolTypes, ListRight, Congested
  <1> QED
    BY <1>2, <1>3, <1>4, RunRight, Zenon

(* Nothing but the list of the congested changes. *)
LEMMA ListOnly ==
  ASSUME PolicyInv, ListKept,
         UNCHANGED <<policy, attached, cores, threads_active, idle_cores, warned, cur, pend, wait, idle, edge>>
  PROVE  PolicyInv'
  <1>1. PolTypes' /\ SwitchRight' /\ ListRight' /\ warned' = FALSE
    BY Zenon DEF PolicyInv, PolTypes, SwitchRight, ListRight, ListKept
  <1>2. CountsRight' /\ CoresRight'
    BY Zenon DEF PolicyInv, CountsRight, CoresRight, On, Running
  <1> QED
    BY <1>1, <1>2, Zenon DEF PolicyInv

LEMMA CongestedRight ==
  ASSUME PolicyInv, NEW p \in P, NEW is \in BOOLEAN, NotifyCongested(p, is), UNCHANGED edge
  PROVE  PolicyInv'
  <1> USE DEF NotifyCongested, schedvars
  <1>0. p \in attached /\ UNCHANGED <<policy, attached, warned>> /\ PolTypes /\ ListRight
    BY Zenon DEF PolicyInv
  <1>1. CASE p \in waking /\ waking' = waking \ {p} /\ UNCHANGED <<cores, threads_active, congested, idle_cores>>
             /\ UNCHANGED schedvars
    <2>1. ListKept
      BY <1>0, <1>1, Zenon DEF ListKept, ListRight, PolTypes, Congested
    <2> QED
      BY <1>0, <1>1, <2>1, ListOnly, Zenon
  <1>2. CASE /\ congested' = Without(p)
             /\ UNCHANGED <<cores, threads_active, idle_cores, waking>> /\ UNCHANGED schedvars
    <2>1. ListKept
      BY <1>0, <1>2, WithoutRight, Zenon DEF ListKept, ListRight
    <2> QED
      BY <1>0, <1>2, <2>1, ListOnly, Zenon
  <1>3. CASE AddKthread(p) /\ UNCHANGED congested
    BY <1>0, <1>3, AddRight, Zenon
  <1>4. CASE /\ p \notin Congested /\ congested' = <<p>> \o congested
             /\ UNCHANGED <<cores, threads_active, idle_cores, waking>> /\ UNCHANGED schedvars
    <2>1. /\ congested' \in Seq(P) /\ Len(congested') = Len(congested) + 1 /\ Len(congested) \in Nat
          /\ congested'[1] = p
          /\ \A j \in 2 .. Len(congested) + 1 : congested'[j] = congested[j - 1]
      BY <1>0, <1>4 DEF PolTypes
    <2>2. \A j \in 1 .. Len(congested) : congested[j] # p /\ congested[j] \in attached
      BY <1>0, <1>4, Zenon DEF Congested, ListRight
    <2>3. \A j \in 1 .. Len(congested) + 1 : congested'[j] \in attached
      BY <1>0, <2>1, <2>2
    <2>4. ASSUME NEW j \in 1 .. Len(congested) + 1, NEW k \in 1 .. Len(congested) + 1,
                 congested'[j] = congested'[k]
          PROVE  j = k
      <3>1. CASE j = 1 \/ k = 1
        BY <2>1, <2>2, <2>4, <3>1
      <3>2. CASE j # 1 /\ k # 1
        BY <1>0, <2>1, <2>4, <3>2 DEF ListRight
      <3> QED
        BY <3>1, <3>2, Zenon
    <2>5. ListKept
      BY <2>1, <2>3, <2>4, Zenon DEF ListKept, Congested
    <2> QED
      BY <1>0, <1>4, <2>5, ListOnly, Zenon
  <1> QED
    BY <1>1, <1>2, <1>3, <1>4, Zenon
LEMMA SwitchDoneRight ==
  ASSUME PolicyInv, NEW c \in Cores, SwitchDone(c), UNCHANGED edge PROVE PolicyInv'
  <1>0. /\ PolTypes /\ SwitchRight /\ NoProc \in Owner /\ wait[c]
        /\ UNCHANGED <<policy, idle, warned, attached, cores, threads_active, congested, idle_cores, edge>>
    BY Zenon DEF PolicyInv, SwitchDone, polvars, Owner
  <1>1. /\ cur' \in [Cores -> Owner] /\ pend' \in [Cores -> Owner] /\ wait' \in [Cores -> BOOLEAN]
        /\ \A d \in Cores \ {c} : cur'[d] = cur[d] /\ pend'[d] = pend[d] /\ wait'[d] = wait[d]
    BY <1>0, Zenon DEF SwitchDone, PolTypes
  <1>2. /\ pend[c] # NoProc => cur'[c] = pend[c] /\ pend'[c] = NoProc /\ wait'[c]
        /\ pend[c] = NoProc => cur'[c] = cur[c] /\ pend'[c] = NoProc /\ ~wait'[c]
    BY <1>0, Zenon DEF SwitchDone, PolTypes
  <1>3. PolTypes' /\ ListRight' /\ warned' = FALSE
    <2>1. PolTypes'
      BY <1>0, <1>1, Zenon DEF PolTypes
    <2>2. ListRight'
      BY <1>0, Zenon DEF PolicyInv, ListRight, Congested
    <2> QED
      BY <1>0, <2>1, <2>2, Zenon DEF PolicyInv
  <1>4. SwitchRight'
    BY <1>0, <1>1, <1>2, Zenon DEF SwitchRight
  <1>5. \A d \in Cores : Running(d)' = Running(d)
    BY <1>1, <1>2, Zenon DEF Running
  <1>6. CoresRight'
    BY <1>0, <1>5, Zenon DEF PolicyInv, CoresRight
  <1>7. cur \in [Cores -> Owner] /\ pend \in [Cores -> Owner]
    BY <1>0, Zenon DEF PolTypes
  <1>8. ASSUME NEW q \in P PROVE Cardinality(On(cur, q)') + Cardinality(On(pend, q)') <= Max[q]
    <2>1. On(cur, q)' = On(cur', q) /\ On(pend, q)' = On(pend', q)
      BY Zenon DEF On
    <2>2. Cardinality(On(cur', q)) = Cardinality(On(cur, q)) + (IF q = cur'[c] THEN 1 ELSE 0)
                                       - (IF q = cur[c] THEN 1 ELSE 0)
      BY <1>1, <1>7, OnExcept
    <2>3. Cardinality(On(pend', q)) = Cardinality(On(pend, q)) + (IF q = pend'[c] THEN 1 ELSE 0)
                                        - (IF q = pend[c] THEN 1 ELSE 0)
      BY <1>1, <1>7, OnExcept
    <2>4. Cardinality(On(cur, q)) \in Nat /\ Cardinality(On(pend, q)) \in Nat /\ Max[q] \in Nat
      BY OnFinite, PolicyAssumption, Zenon
    <2>5. Cardinality(On(cur, q)) + Cardinality(On(pend, q)) <= Max[q]
      BY Zenon DEF PolicyInv, CountsRight
    <2>6. q # NoProc
      BY PolicyAssumption, Zenon
    <2> QED
      BY <1>2, <2>1, <2>2, <2>3, <2>4, <2>5, <2>6
  <1>9. CountsRight'
    BY <1>0, <1>8, Zenon DEF PolicyInv, CountsRight, On
  <1> QED
    BY <1>3, <1>4, <1>6, <1>9, Zenon DEF PolicyInv

LEMMA CoreIdleRight == ASSUME PolicyInv, NEW c \in Cores, CoreIdle(c) PROVE PolicyInv'
  <1>0. /\ PolTypes /\ SwitchRight /\ NoProc \in Owner /\ c \in Allowed /\ ~wait[c]
        /\ edge' = edge \cup {c} /\ idle' = [idle EXCEPT ![c] = TRUE]
        /\ cur' = [cur EXCEPT ![c] = NoProc]
        /\ UNCHANGED <<policy, pend, wait, warned, attached, cores, threads_active, congested, idle_cores>>
    BY Zenon DEF PolicyInv, CoreIdle, polvars, Owner
  <1>1. /\ cur' \in [Cores -> Owner] /\ idle' \in [Cores -> BOOLEAN] /\ cur'[c] = NoProc
        /\ \A d \in Cores \ {c} : cur'[d] = cur[d] /\ idle'[d] = idle[d]
    BY <1>0, Zenon DEF PolTypes
  <1>3. PolTypes' /\ ListRight' /\ warned' = FALSE
    <2>1. PolTypes'
      BY <1>0, <1>1, Zenon DEF PolTypes
    <2>2. ListRight'
      BY <1>0, Zenon DEF PolicyInv, ListRight, Congested
    <2> QED
      BY <1>0, <2>1, <2>2, Zenon DEF PolicyInv
  <1>4. SwitchRight'
    BY <1>0, <1>1, Zenon DEF SwitchRight
  <1>5. \A d \in Cores \ {c} : Running(d)' = Running(d)
    BY <1>0, <1>1, Zenon DEF Running
  <1>6. CoresRight'
    <2>1. \A d \in Cores \ edge' : cores'[d] # NoProc => cores'[d] = Running(d)' /\ d \notin idle_cores'
      BY <1>0, <1>5, Zenon DEF PolicyInv, CoresRight
    <2>2. \A d \in Allowed \ edge' : cores'[d] = NoProc => d \in idle_cores' \/ ~idle'[d]
      BY <1>0, <1>1, PolicyAssumption, Zenon DEF PolicyInv, CoresRight
    <2> QED
      BY <1>0, <2>1, <2>2, Zenon DEF PolicyInv, CoresRight
  <1>8. ASSUME NEW q \in P PROVE Cardinality(On(cur, q)') + Cardinality(On(pend, q)') <= Max[q]
    <2>1. On(cur, q)' = On(cur', q) /\ On(pend, q)' = On(pend, q)
      BY <1>0, Zenon DEF On
    <2>2. On(cur', q) \subseteq On(cur, q)
      BY <1>1, PolicyAssumption, Zenon DEF On
    <2>3. Cardinality(On(cur', q)) <= Cardinality(On(cur, q))
      BY <2>2, OnFinite, FS_Subset, Zenon
    <2>4. Cardinality(On(cur, q)) \in Nat /\ Cardinality(On(pend, q)) \in Nat /\ Max[q] \in Nat
          /\ Cardinality(On(cur', q)) \in Nat
      BY OnFinite, PolicyAssumption, Zenon
    <2>5. Cardinality(On(cur, q)) + Cardinality(On(pend, q)) <= Max[q]
      BY Zenon DEF PolicyInv, CountsRight
    <2> QED
      BY <2>1, <2>3, <2>4, <2>5
  <1>9. CountsRight'
    BY <1>0, <1>8, Zenon DEF PolicyInv, CountsRight, On
  <1> QED
    BY <1>3, <1>4, <1>6, <1>9, Zenon DEF PolicyInv

LEMMA IdlePassRight == ASSUME PolicyInv, NEW c \in Cores, IdlePass(c) PROVE PolicyInv'
  <1>0. /\ PolTypes /\ ListRight /\ c \in edge /\ c \in Allowed /\ edge' = edge \ {c}
        /\ congested' = Without(cores[c]) /\ UNCHANGED <<policy, attached>> /\ warned = FALSE
    BY Zenon DEF PolicyInv, PolTypes, IdlePass
  <1>1. ListKept
    BY <1>0, WithoutRight, Zenon DEF ListKept, ListRight
  <1> DEFINE chosen == ChooseKthread(c, Congested \ {cores[c]})
  <1>2. chosen \subseteq attached /\ (policy = "simple" => \A p \in chosen : Avail(p) > 0)
    BY <1>0, Zenon DEF ChooseKthread, ListRight
  <1>3. \/ /\ Assign(c, NoProc) /\ idle_cores' = idle_cores \cup {c}
           /\ UNCHANGED warned /\ UNCHANGED schedvars
        \/ \E p \in chosen : RunKthreadOnCore(p, c) /\ UNCHANGED warned
        \/ /\ \E p \in chosen : ~CanRun(p, c)
           /\ Assign(c, NoProc) /\ idle_cores' = idle_cores \cup {c}
           /\ warned' = (warned \/ policy = "simple") /\ UNCHANGED schedvars
    BY Zenon DEF IdlePass
  <1> HIDE DEF chosen
  <1>4. CASE /\ Assign(c, NoProc) /\ idle_cores' = idle_cores \cup {c}
             /\ UNCHANGED warned /\ UNCHANGED schedvars
    BY <1>0, <1>1, <1>4, IdleRight, Zenon DEF schedvars
  <1>5. ASSUME NEW p \in chosen, RunKthreadOnCore(p, c) /\ UNCHANGED warned PROVE PolicyInv'
    <2>1. p \in attached
      BY <1>2, Zenon
    <2> QED
      BY <1>0, <1>1, <1>5, <2>1, RunRight, Zenon
  <1>6. ASSUME NEW p \in chosen, ~CanRun(p, c), warned' = (warned \/ policy = "simple")
        PROVE  warned' = warned
    <2>1. policy # "simple"
      BY <1>0, <1>2, <1>6, Zenon DEF CanRun
    <2> QED
      BY <1>0, <1>6, <2>1, Zenon
  <1> QED
    BY <1>3, <1>4, <1>5, <1>6, Zenon

(* Every step of the policies keeps PolicyInv. *)
LEMMA PolicyStep == PolicyInv /\ [PolicyNext]_policyVars => PolicyInv'
  <1> SUFFICES ASSUME PolicyInv, [PolicyNext]_policyVars PROVE PolicyInv'
    BY Zenon
  <1>1. CASE UNCHANGED policyVars
    <2>1. ListKept
      BY <1>1, Zenon DEF policyVars, polvars, ListKept, PolicyInv, PolTypes, ListRight, Congested
    <2>2. UNCHANGED <<policy, attached, cores, threads_active, idle_cores, warned, cur, pend, wait, idle, edge>>
      BY <1>1, Zenon DEF policyVars, polvars, schedvars
    <2> QED
      BY <2>1, <2>2, ListOnly, Zenon
  <1>2. ASSUME NEW c \in Cores, CoreIdle(c) \/ IdlePass(c) PROVE PolicyInv'
    BY <1>2, CoreIdleRight, IdlePassRight, Zenon
  <1>3. ASSUME edge = {}, UNCHANGED edge, NEW p \in P,
               Attach(p) \/ Detach(p) \/ CoreNeeded(p) \/ DetectCongestion(p)
        PROVE  PolicyInv'
    <2>1. CASE Attach(p)
      BY <1>3, <2>1, AttachRight, Zenon
    <2>2. CASE Detach(p)
      BY <1>3, <2>2, DetachRight, Zenon
    <2>3. CASE CoreNeeded(p)
      BY <1>3, <2>3, AddRight, Zenon DEF CoreNeeded
    <2>4. CASE DetectCongestion(p)
      BY <1>3, <2>4, CongestedRight, Zenon DEF DetectCongestion
    <2> QED
      BY <1>3, <2>1, <2>2, <2>3, <2>4, Zenon
  <1>4. ASSUME UNCHANGED edge, NEW c \in Cores, SwitchDone(c) PROVE PolicyInv'
    BY <1>4, SwitchDoneRight, Zenon
  <1> QED
    BY <1>1, <1>2, <1>3, <1>4, Zenon DEF PolicyNext

LEMMA IntervalSize ==
  ASSUME NEW n \in Nat PROVE IsFiniteSet(1 .. n) /\ Cardinality(1 .. n) = n
  BY FS_Interval

(* PolicyInv is what BooksBalance needs. *)
LEMMA InvBooks == ASSUME PolicyInv PROVE BooksBalance
  <1> USE DEF PolicyInv
  <1>1. \A p \in P : /\ threads_active[p] = Cardinality({c \in Cores : cores[c] = p})
                     /\ Avail(p) >= 0
    <2> TAKE p \in P
    <2>1. Cardinality(On(cur, p)) \in Nat /\ Cardinality(On(pend, p)) \in Nat /\ Max[p] \in Nat
      BY OnFinite, PolicyAssumption, Zenon
    <2>2. /\ On(cores, p) = {c \in Cores : cores[c] = p} /\ On(cur, p) = {c \in Cores : cur[c] = p}
          /\ On(pend, p) = {c \in Cores : pend[c] = p}
      BY Zenon DEF On
    <2>3. Avail(p) = Max[p] - Cardinality(On(cur, p)) - Cardinality(On(pend, p))
      BY <2>2, Zenon DEF Avail
    <2>4. /\ threads_active[p] = Cardinality(On(cores, p))
          /\ Cardinality(On(cur, p)) + Cardinality(On(pend, p)) <= Max[p]
      BY Zenon DEF CountsRight
    <2>5. Avail(p) >= 0
      BY <2>1, <2>3, <2>4
    <2> QED
      BY <2>2, <2>4, <2>5, Zenon
  <1>2. ASSUME NEW p \in P PROVE Cardinality({c \in Cores \ edge : cores[c] = p}) <= Max[p]
    <2> DEFINE S == {c \in Cores \ edge : cores[c] = p}
    <2>1. S \subseteq On(cur, p) \cup On(pend, p)
      BY PolicyAssumption, Zenon DEF CoresRight, Running, On
    <2>2. /\ IsFiniteSet(On(cur, p)) /\ IsFiniteSet(On(pend, p))
          /\ Cardinality(On(cur, p)) \in Nat /\ Cardinality(On(pend, p)) \in Nat
      BY OnFinite, Zenon
    <2>3. /\ IsFiniteSet(On(cur, p) \cup On(pend, p))
          /\ Cardinality(On(cur, p) \cup On(pend, p)) =
                Cardinality(On(cur, p)) + Cardinality(On(pend, p))
                  - Cardinality(On(cur, p) \cap On(pend, p))
      BY <2>2, FS_Union, Zenon
    <2>4. Cardinality(On(cur, p) \cap On(pend, p)) \in Nat
      BY <2>2, FS_Intersection, FS_CardinalityType, Zenon
    <2>5. Cardinality(S) <= Cardinality(On(cur, p) \cup On(pend, p)) /\ Cardinality(S) \in Nat
      BY <2>1, <2>3, FS_Subset, FS_CardinalityType, Zenon
    <2>6. Cardinality(On(cur, p)) + Cardinality(On(pend, p)) <= Max[p] /\ Max[p] \in Nat
      BY PolicyAssumption, Zenon DEF CountsRight
    <2> HIDE DEF S
    <2>7. Cardinality(S) <= Max[p]
      BY <2>2, <2>3, <2>4, <2>5, <2>6
    <2> QED
      BY <2>7, Zenon DEF S
  <1>3. Cardinality(Congested) = Len(congested)
    <2> DEFINE f == [j \in 1 .. Len(congested) |-> congested[j]]
    <2>1. Len(congested) \in Nat
      BY DEF PolTypes
    <2>2. f \in Bijection(1 .. Len(congested), Congested)
      BY Zenon DEF Congested, ListRight, Bijection, Injection, Surjection, IsInjective
    <2> HIDE DEF f
    <2>3. ExistsBijection(1 .. Len(congested), Congested)
      BY <2>2, Zenon DEF ExistsBijection
    <2>4. IsFiniteSet(1 .. Len(congested)) /\ Cardinality(1 .. Len(congested)) = Len(congested)
      BY <2>1, IntervalSize, Zenon
    <2> QED
      BY <2>3, <2>4, FS_Bijection, Zenon
  <1>4. attached \subseteq P /\ Congested \subseteq attached /\ ~warned
    BY Zenon DEF PolTypes, ListRight
  <1> QED
    BY <1>1, <1>2, <1>3, <1>4, Zenon DEF BooksBalance, CoresRight, Running

(* A core is taken from a process by a step only as Preemptible allows. *)
LEMMA TakenStep == PolicyInv /\ [PolicyNext]_policyVars => TakenFairlyStep
  <1> SUFFICES ASSUME PolicyInv, [PolicyNext]_policyVars, NEW c \in Cores \ edge,
                      cores[c] # NoProc, cores'[c] # NoProc, cores'[c] # cores[c]
               PROVE  /\ threads_active[cores[c]] > Guaranteed[cores[c]]
                      /\ \/ threads_active[cores'[c]] < Guaranteed[cores'[c]]
                         \/ Priority[cores'[c]] > Priority[cores[c]]
    BY Zenon DEF TakenFairlyStep
  <1>0. PolTypes /\ cores \in [Cores -> Owner]
    BY Zenon DEF PolicyInv, PolTypes
  <1>1. ASSUME NEW p \in attached, AddKthread(p)
        PROVE  /\ threads_active[cores[c]] > Guaranteed[cores[c]]
               /\ \/ threads_active[cores'[c]] < Guaranteed[cores'[c]]
                  \/ Priority[cores'[c]] > Priority[cores[c]]
    <2>1. PICK d \in ChooseCore(p) : RunKthreadOnCore(p, d)
      BY <1>1, Zenon DEF AddKthread
    <2>2. p \in P
      BY <1>0, Zenon DEF PolTypes
    <2>3. d \in Cores /\ Free(d, p)
      BY <1>0, <2>2, ChosenFree, Zenon
    <2>4. c = d /\ cores'[c] = p
      BY <1>0, <2>1, <2>3, Zenon DEF RunKthreadOnCore, Assign
    <2> QED
      BY <2>3, <2>4, Zenon DEF Free, Preemptible
  <1>2. ~UNCHANGED cores
    BY Zenon
  <1>3. ASSUME NEW d \in Cores, IdlePass(d) PROVE FALSE
    <2>1. d \in edge /\ \E p : Assign(d, p)
      BY <1>3, Zenon DEF IdlePass, RunKthreadOnCore
    <2> QED
      BY <1>0, <2>1, Zenon DEF Assign
  <1>4. ASSUME NEW p \in P, Detach(p) PROVE FALSE
    BY <1>0, <1>4, Zenon DEF Detach
  <1>5. \E p \in attached : AddKthread(p)
    <2>1. ASSUME NEW d \in Cores PROVE ~CoreIdle(d) /\ ~SwitchDone(d)
      BY <1>2, Zenon DEF CoreIdle, SwitchDone, polvars
    <2>2. ASSUME NEW p \in P PROVE ~Attach(p)
      BY <1>2, Zenon DEF Attach
    <2>3. ~UNCHANGED policyVars
      BY <1>2, Zenon DEF policyVars, polvars
    <2>4. PICK p \in P : CoreNeeded(p) \/ DetectCongestion(p)
      BY <1>3, <1>4, <2>1, <2>2, <2>3, Zenon DEF PolicyNext
    <2> QED
      BY <1>2, <2>4, Zenon DEF CoreNeeded, DetectCongestion, NotifyCongested
  <1> QED
    BY <1>1, <1>5, Zenon

LEMMA PolicyStart == PolicyInit => PolicyInv
  <1> SUFFICES ASSUME PolicyInit PROVE PolicyInv
    BY Zenon
  <1>1. PolTypes
    BY PolicyAssumption DEF PolicyInit, PolTypes, Owner
  <1>2. SwitchRight /\ ListRight /\ CoresRight /\ warned = FALSE
    BY PolicyAssumption DEF PolicyInit, SwitchRight, ListRight, CoresRight, Congested, Running
  <1>3. CountsRight
    <2>1. \A p \in P : On(cores, p) = {} /\ On(cur, p) = {} /\ On(pend, p) = {}
      BY PolicyAssumption, Zenon DEF PolicyInit, On
    <2>2. Cardinality({}) = 0
      BY FS_EmptySet, Zenon
    <2>3. \A p \in P : threads_active[p] = 0 /\ 0 + 0 <= Max[p]
      BY PolicyAssumption DEF PolicyInit
    <2> QED
      BY <2>1, <2>2, <2>3, Zenon DEF CountsRight
  <1> QED
    BY <1>1, <1>2, <1>3, Zenon DEF PolicyInv

(* The books of the simple and numa policies balance for any number of     *)
(* cores and processes, whatever their siblings, guarantees and limits.    *)
THEOREM BooksCorrect == PolicySpec => []BooksBalance
  BY PolicyStart, PolicyStep, InvBooks, PTL DEF PolicySpec

(* simple_add_kthread and numa_add_kthread, in any state the policies      *)
(* reach, take a core only from a process above its guarantee.             *)
THEOREM GuaranteeCorrect == PolicySpec => GuaranteeKept
  BY PolicyStart, PolicyStep, TakenStep, PTL DEF PolicySpec, GuaranteeKept
=============================================================================
