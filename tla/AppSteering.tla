---------------------------- MODULE AppSteering ----------------------------
(***************************************************************************)
(* Application steering (the first half of blk_mq_get_request): every      *)
(* request updates the T and L metrics of its core; every 10 ms somebody   *)
(* copies the metrics of all cores (the snapshot) and hands the turn from  *)
(* T- to L-applications or back; an application whose turn it is moves to  *)
(* a better core of its node.                                              *)
(*                                                                         *)
(* The arrays are global and unlocked: copying and searching go core by    *)
(* core while others copy.  Time is what the code compares it with: the    *)
(* two deadlines are ahead or past.                                        *)
(***************************************************************************)
EXTENDS Integers, FiniteSets

CONSTANTS
    App,            \* applications, one thread each
    Thru,           \* those of them whose requests are T-requests
    NrCpus, NrNodes,
    Size,           \* Size[a]: bi_size of its requests
    ThreshL,        \* BLK_SWITCH_THRESH_L
    MaxMetric,      \* 8388608
    StartCpu,       \* StartCpu[a]: where it runs first
    Loads,          \* metrics [T, L] earlier traffic may have left at a core
    MaxReqs,        \* bound: requests submitted
    MaxTicks        \* bound: deadlines that pass

Cpu == 0 .. NrCpus - 1

\* What the constants are.
AppConstants ==
    /\ NrCpus \in Nat \ {0} /\ NrNodes \in Nat \ {0}
    /\ ThreshL \in Nat /\ MaxMetric \in Nat
    /\ Size \in [App -> Nat] /\ StartCpu \in [App -> Cpu]
    /\ Loads \subseteq [T : Nat, L : Nat]

VARIABLES
    T_bytes, L_bytes,       \* bytes in flight, by core
    T_metric, L_metric,     \* their moving averages
    T_appstr, L_appstr,     \* the snapshot
    last_appstr,            \* deadline of the next snapshot: none, ahead, due
    reset_metrics,          \* deadline of the reset: none, ahead, past
    appstr_app,             \* whose turn: "T" or "L"
    cpu,                    \* current->cpu
    th,                     \* the thread's place in blk_mq_get_request, its locals
                            \* and (history) what it read of cores it considered
    inflight,               \* its request: {} or {[cpu, tagged]}
    version,                \* history: writes to the snapshot so far
    trail,                  \* history: cores left by decisions on one snapshot
    taken,                  \* history: turns handed over since the deadline
    reqs, ticks

bytes == <<T_bytes, L_bytes>>
metrics == <<T_metric, L_metric>>
snapshot == <<T_appstr, L_appstr, version>>
deadlines == <<last_appstr, reset_metrics, appstr_app, taken>>
vars == <<bytes, metrics, snapshot, deadlines, cpu, th, inflight, trail, reqs, ticks>>

NoTh == [pc |-> "idle", i |-> 0, L |-> 0, T |-> 0, min |-> 0, target |-> -1,
         seen |-> {}, ver |-> 0]
Zero == [c \in Cpu |-> 0]

Init ==
    /\ T_bytes = Zero /\ L_bytes = Zero /\ version = 0
    /\ \E load \in [Cpu -> Loads] :
          /\ T_metric = [c \in Cpu |-> load[c].T] /\ T_appstr = T_metric
          /\ L_metric = [c \in Cpu |-> load[c].L] /\ L_appstr = L_metric
          /\ IF \A c \in Cpu : load[c] = [T |-> 0, L |-> 0]
             THEN last_appstr = "none" /\ reset_metrics = "none" /\ appstr_app = "T"
             ELSE last_appstr = "ahead" /\ reset_metrics = "ahead" /\ appstr_app \in {"T", "L"}
    /\ cpu = StartCpu /\ th = [a \in App |-> NoTh]
    /\ inflight = [a \in App |-> {}]
    /\ trail = [a \in App |-> [ver |-> 0, cores |-> {}]] /\ taken = 0
    /\ reqs = 0 /\ ticks = 0

-----------------------------------------------------------------------------
Th(a, rec) == th' = [th EXCEPT ![a] = rec]

\* metric -= metric >> 3; metric += sample >> 3, from the first sample on; a
\* metric below 10 is none.
Averaged(m, sample) ==
    IF m = 0 THEN sample ELSE (m - m \div 8) + sample \div 8
Floor(m) == IF m < 10 THEN 0 ELSE m

\* Entry: after a second without requests everything starts from zero; then
\* step 1 (the averages of this core) and the test of step 2.
Submit(a) ==
    /\ th[a].pc = "idle" /\ inflight[a] = {} /\ reqs < MaxReqs
    /\ reqs' = reqs + 1 /\ reset_metrics' = "ahead"
    /\ LET fresh == reset_metrics # "ahead"
           c == cpu[a]
           old(f) == IF fresh THEN Zero ELSE f
           T == IF a \in Thru THEN Averaged(old(T_metric)[c], old(T_bytes)[c] + Size[a])
                ELSE old(T_metric)[c]
           L == IF a \notin Thru THEN Averaged(old(L_metric)[c], old(L_bytes)[c] + Size[a])
                ELSE old(L_metric)[c]
           deadline == IF fresh THEN "none" ELSE last_appstr
       IN  /\ T_bytes' = old(T_bytes) /\ L_bytes' = old(L_bytes)
           /\ T_metric' = [old(T_metric) EXCEPT ![c] = Floor(T)]
           /\ L_metric' = [old(L_metric) EXCEPT ![c] = Floor(L)]
           /\ T_appstr' = old(T_appstr) /\ L_appstr' = old(L_appstr)
           /\ version' = IF fresh THEN version + 1 ELSE version
           /\ appstr_app' = IF fresh THEN "T" ELSE appstr_app
           /\ last_appstr' = IF deadline = "none" THEN "ahead" ELSE deadline
           /\ Th(a, [NoTh EXCEPT !.pc = IF deadline = "due" THEN "copy" ELSE "own"])
    /\ UNCHANGED <<cpu, inflight, trail, taken, ticks>>

\* Step 2, the snapshot: one core after another, ...
CopyCore(a) ==
    /\ th[a].pc = "copy" /\ th[a].i < NrCpus
    /\ T_appstr' = [T_appstr EXCEPT ![th[a].i] = T_metric[th[a].i]]
    /\ L_appstr' = [L_appstr EXCEPT ![th[a].i] = L_metric[th[a].i]]
    /\ version' = version + 1
    /\ Th(a, [th[a] EXCEPT !.i = @ + 1])
    /\ UNCHANGED <<bytes, metrics, deadlines, cpu, inflight, trail, reqs, ticks>>

\* ... then the next deadline and the turn.
HandOver(a) ==
    /\ th[a].pc = "copy" /\ th[a].i = NrCpus
    /\ last_appstr' = "ahead"
    /\ appstr_app' = IF appstr_app = "T" THEN "L" ELSE "T"
    /\ taken' = taken + 1
    /\ Th(a, [NoTh EXCEPT !.pc = "own"])
    /\ UNCHANGED <<bytes, metrics, snapshot, reset_metrics, cpu, inflight, trail,
                   reqs, ticks>>

\* Mutant: the core's own values are those of the last core of the loop.
ReadOwn_Last(a) ==
    /\ th[a].pc = "own"
    /\ LET L == L_appstr[NrCpus - 1]
           T == T_appstr[NrCpus - 1]
       IN  Th(a, [NoTh EXCEPT !.pc = "search", !.L = L, !.T = T, !.ver = version,
                              !.min = IF a \in Thru THEN MaxMetric ELSE L + T])
    /\ UNCHANGED <<bytes, metrics, snapshot, deadlines, cpu, inflight, trail, reqs,
                   ticks>>

\* The core's own values.
ReadOwn(a) ==
    /\ th[a].pc = "own"
    /\ LET L == L_appstr[cpu[a]]
           T == T_appstr[cpu[a]]
       IN  Th(a, [NoTh EXCEPT !.pc = "search", !.L = L, !.T = T, !.ver = version,
                              !.min = IF a \in Thru THEN MaxMetric ELSE L + T])
    /\ UNCHANGED <<bytes, metrics, snapshot, deadlines, cpu, inflight, trail, reqs,
                   ticks>>

\* The cores of the node, in the order of the loop.
IterCpu(a, i) == i * NrNodes + (cpu[a] % NrNodes)

\* Mutant: any L-application's core is good enough.
BetterForL_Any(L, T, iL, iT, min) == T > 0 /\ iL > 0 /\ min >= iL + iT
\* An L-application may move from (L, T) to (iL, iT), the best found so far
\* being min: away from T-applications, towards L-applications.
BetterForL(L, T, iL, iT, min) == T > 0 /\ iL > 0 /\ L + T > iL + iT /\ min > iL + iT
\* A T-application waits as long as an L-application could come here first.
WaitForL(L, iL) == L < iL /\ iL < ThreshL
BetterForT(L, iL, iT, min) == L > iL /\ min > iT

\* One core of the search.
SearchCore(a) ==
    /\ th[a].pc = "search" /\ th[a].i < NrCpus \div NrNodes
    /\ LET me == th[a]
           c == IterCpu(a, me.i)
           iL == L_appstr[c]
           iT == T_appstr[c]
           skip == c = cpu[a] \/ iL > ThreshL
           mine == ~skip /\ appstr_app = IF a \in Thru THEN "T" ELSE "L"
           next == [me EXCEPT !.i = @ + 1,
                              !.seen = @ \cup IF mine THEN {[cpu |-> c, L |-> iL, T |-> iT]}
                                                     ELSE {}]
       IN  \/ /\ mine /\ a \notin Thru /\ BetterForL(me.L, me.T, iL, iT, me.min)
              /\ Th(a, [next EXCEPT !.target = c, !.min = iL + iT])
           \/ /\ mine /\ a \in Thru /\ WaitForL(me.L, iL)
              /\ Th(a, [next EXCEPT !.target = -1, !.i = NrCpus])
           \/ /\ mine /\ a \in Thru /\ ~WaitForL(me.L, iL)
              /\ BetterForT(me.L, iL, iT, me.min)
              /\ Th(a, [next EXCEPT !.target = c, !.min = iT])
           \/ /\ \/ ~mine
                 \/ a \notin Thru /\ ~BetterForL(me.L, me.T, iL, iT, me.min)
                 \/ a \in Thru /\ ~WaitForL(me.L, iL)
                      /\ ~BetterForT(me.L, iL, iT, me.min)
              /\ Th(a, next)
    /\ UNCHANGED <<bytes, metrics, snapshot, deadlines, cpu, inflight, trail, reqs,
                   ticks>>

\* Step 3: the application moves.  The last one of its kind takes the metric
\* of the core with it (active_queues <= 1 is the driver's business).
Steer(a) ==
    /\ th[a].pc = "search" /\ th[a].i >= NrCpus \div NrNodes
    /\ \/ /\ th[a].target >= 0
          /\ cpu' = [cpu EXCEPT ![a] = th[a].target]
          /\ trail' = [trail EXCEPT ![a] =
                [ver |-> version,
                 cores |-> IF th[a].ver # version THEN {}
                           ELSE IF @.ver = version THEN @.cores \cup {cpu[a]}
                           ELSE {cpu[a]}]]
          /\ \E last \in BOOLEAN :
                /\ T_metric' = IF last /\ a \in Thru
                                 THEN [T_metric EXCEPT ![cpu[a]] = 0] ELSE T_metric
                /\ L_metric' = IF last /\ a \notin Thru
                                 THEN [L_metric EXCEPT ![cpu[a]] = 0] ELSE L_metric
       \/ /\ th[a].target < 0
          /\ UNCHANGED <<cpu, metrics, trail>>
    /\ Th(a, [th[a] EXCEPT !.pc = "tag"])
    /\ UNCHANGED <<bytes, snapshot, deadlines, inflight, reqs, ticks>>

\* The request is set up on the core the application is on now.
InitRequest(a) ==
    /\ th[a].pc = "tag"
    /\ \E tagged \in BOOLEAN : inflight' = [inflight EXCEPT ![a] =
                                               {[cpu |-> cpu[a], tagged |-> tagged]}]
    /\ T_bytes' = IF a \in Thru THEN [T_bytes EXCEPT ![cpu[a]] = @ + Size[a]] ELSE T_bytes
    /\ L_bytes' = IF a \notin Thru THEN [L_bytes EXCEPT ![cpu[a]] = @ + Size[a]] ELSE L_bytes
    /\ Th(a, NoTh)
    /\ UNCHANGED <<metrics, snapshot, deadlines, cpu, trail, reqs, ticks>>

\* blk_mq_end_request: the bytes are taken off, never below zero, and not for
\* the request with tag 0.
Less(x, n) == IF x >= n THEN x - n ELSE 0
EndRequest(a) ==
    /\ \E rq \in inflight[a] :
          /\ T_bytes' = IF rq.tagged /\ a \in Thru
                          THEN [T_bytes EXCEPT ![rq.cpu] = Less(@, Size[a])] ELSE T_bytes
          /\ L_bytes' = IF rq.tagged /\ a \notin Thru
                          THEN [L_bytes EXCEPT ![rq.cpu] = Less(@, Size[a])] ELSE L_bytes
    /\ inflight' = [inflight EXCEPT ![a] = {}]
    /\ UNCHANGED <<metrics, snapshot, deadlines, cpu, th, trail, reqs, ticks>>

\* jiffies passes the deadline of the snapshot, or a second goes by.
TickSnapshot ==
    /\ last_appstr = "ahead" /\ ticks < MaxTicks
    /\ last_appstr' = "due" /\ taken' = 0 /\ ticks' = ticks + 1
    /\ UNCHANGED <<bytes, metrics, snapshot, reset_metrics, appstr_app, cpu, th,
                   inflight, trail, reqs>>

TickReset ==
    /\ reset_metrics = "ahead" /\ ticks < MaxTicks
    /\ reset_metrics' = "past" /\ ticks' = ticks + 1
    /\ UNCHANGED <<bytes, metrics, snapshot, last_appstr, appstr_app, taken, cpu,
                   th, inflight, trail, reqs>>

Next ==
    \/ \E a \in App :
          \/ Submit(a) \/ CopyCore(a) \/ HandOver(a) \/ ReadOwn(a) \/ SearchCore(a)
          \/ Steer(a) \/ InitRequest(a) \/ EndRequest(a)
    \/ TickSnapshot \/ TickReset

Spec == Init /\ [][Next]_vars

-----------------------------------------------------------------------------
(* Properties *)

TypeOK ==
    /\ {T_bytes, L_bytes, T_metric, L_metric, T_appstr, L_appstr}
          \subseteq [Cpu -> Nat]
    /\ last_appstr \in {"none", "ahead", "due"} /\ appstr_app \in {"T", "L"}
    /\ reset_metrics \in {"none", "ahead", "past"} /\ cpu \in [App -> Cpu]
    /\ \A a \in App : th[a].pc \in {"idle", "copy", "own", "search", "tag"}
                        /\ th[a].target \in {-1} \cup Cpu

\* An application only moves to a core that, in what it read, beats its own:
\* an L-application to one with L-applications and less of everything, a
\* T-application to one with less L; and to the best of these, whichever way
\* the copies and the search were interleaved.
SteersToBetter ==
    \A a \in App : (th[a].pc = "search" /\ th[a].target >= 0) =>
        \E s \in th[a].seen :
            /\ s.cpu = th[a].target
            /\ a \notin Thru =>
                  /\ s.L > 0 /\ s.L + s.T < th[a].L + th[a].T
                  /\ \A o \in th[a].seen : o.L = 0 \/ s.L + s.T <= o.L + o.T
            /\ a \in Thru =>
                  /\ s.L < th[a].L
                  /\ \A o \in th[a].seen :
                        /\ o.L < th[a].L => s.T <= o.T
                        /\ ~(th[a].L < o.L /\ o.L < ThreshL)

\* Decisions taken on one snapshot never send an application back to a core
\* it left because of that snapshot: however many requests it submits before
\* the next copy, it comes to rest.
NoPingPongStep ==
    \A a \in App :
        (cpu'[a] # cpu[a] /\ th[a].ver = version /\ trail[a].ver = version)
            => cpu'[a] \notin trail[a].cores
NoPingPong == [][NoPingPongStep]_vars

\* "Determine target_cpu every 10ms": a deadline that has passed is answered
\* by one snapshot and one change of turn.
OneHandOver == taken <= 1
=============================================================================
