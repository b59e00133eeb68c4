------------------------------ MODULE IokPolicy ------------------------------
(***************************************************************************)
(* The core allocation policies of the Caladan iokernel, simple and numa,  *)
(* over its low-level scheduler: who has which core, who is congested,     *)
(* which cores are idle, and what happens when a process is congested,     *)
(* when a core goes idle and when processes come and go.  The preference   *)
(* for cores a process used before is any choice among the cores that      *)
(* qualify.                                                                *)
(***************************************************************************)
EXTENDS Integers, FiniteSets, Sequences

CONSTANTS
    P, NoProc,          \* processes
    Cores, Allowed,     \* all cores and those that may be allocated
    Sibling,            \* the hyperthread buddy of each core
    Socket, Preferred,  \* socket of each core; the socket each process prefers
    Guaranteed, Max,    \* per process; a runtime has Max kthreads
    Priority,
    Policies            \* of "simple", "numa"

ASSUME PolicyAssumption ==
    /\ NoProc \notin P /\ Policies \subseteq {"simple", "numa"}
    /\ IsFiniteSet(Cores) /\ Allowed \subseteq Cores /\ Sibling \in [Cores -> Cores]
    /\ Guaranteed \in [P -> Nat] /\ Max \in [P -> Nat] /\ Priority \in [P -> Int]

VARIABLES
    policy,
    attached, cores, threads_active, congested, idle_cores, waking,
    edge, passing,          \* cores that went idle in this sched_poll; its final pass has begun
    cur, pend, wait, idle,  \* the low-level scheduler: process and state of a core
    warned

polvars == <<attached, cores, threads_active, congested, idle_cores, waking>>
schedvars == <<cur, pend, wait, idle>>
policyVars == <<policy, polvars, schedvars, edge, passing, warned>>

PolicyInit ==
    /\ policy \in Policies /\ attached = {} /\ cores = [c \in Cores |-> NoProc]
    /\ threads_active = [p \in P |-> 0] /\ congested = <<>> /\ waking = {}
    /\ idle_cores = Allowed /\ edge = {} /\ passing = FALSE    \* simple_init, numa_init
    /\ cur = [c \in Cores |-> NoProc] /\ pend = [c \in Cores |-> NoProc]
    /\ wait = [c \in Cores |-> FALSE] /\ idle = [c \in Cores |-> FALSE]
    /\ warned = FALSE

Congested == {congested[i] : i \in 1 .. Len(congested)}
\* list_del of the process, if it is on the list.
Without(p) ==
    IF p \notin Congested THEN congested
    ELSE LET k == CHOOSE k \in 1 .. Len(congested) : congested[k] = p
         IN  [j \in 1 .. Len(congested) - 1 |-> congested[IF j < k THEN j ELSE j + 1]]

\* sched_threads_avail: a thread of a replaced process stays active until the core
\* has finished the switch it is waiting for.
Avail(p) == Max[p] - Cardinality({c \in Cores : cur[c] = p}) - Cardinality({c \in Cores : pend[c] = p})

\* simple_proc_is_preemptible
\* Mutant: a process may lose its guaranteed cores.
Preemptible_Any(q, p) == threads_active[q] >= Guaranteed[q] /\ p # q
Preemptible(q, p) ==
    /\ threads_active[q] > Guaranteed[q]
    /\ threads_active[p] < Guaranteed[p] \/ Priority[p] > Priority[q]

Free(c, p) == cores[c] # p /\ (cores[c] = NoProc \/ Preemptible(cores[c], p))

-----------------------------------------------------------------------------
(* Choosing *)

\* simple_choose_core and numa_choose_core: an active thread's sibling first.  The
\* numa policy does not ask whether the sibling may be allocated.
SiblingCores(p) ==
    {s \in {Sibling[c] : c \in {c \in Allowed : cores[c] = p}} :
        Free(s, p) /\ (policy = "numa" \/ s \in Allowed)}
\* numa_choose_core_in_subset, and the rest of simple_choose_core.
InSubset(p, S) == {c \in S : Free(c, p)}
Near(p) == {c \in Allowed : Socket[c] = Preferred[p]}
ChooseCore(p) ==
    CASE SiblingCores(p) # {} -> SiblingCores(p)
      [] SiblingCores(p) = {} /\ policy = "simple" -> InSubset(p, Allowed)
      [] SiblingCores(p) = {} /\ policy = "numa" /\ InSubset(p, Near(p)) # {} -> InSubset(p, Near(p))
      [] OTHER -> InSubset(p, Allowed)
\* simple_choose_kthread and numa_choose_kthread: the sibling's process first, else
\* any congested one that ran here, else the head of the list.
ChooseKthread(c, cong) ==
    LET wants == {p \in cong : policy = "numa" \/ Avail(p) > 0}
    IN IF cores[Sibling[c]] \in wants THEN {cores[Sibling[c]]} ELSE wants

-----------------------------------------------------------------------------
(* Running *)

\* simple_cleanup_core, numa_cleanup_core, then the new owner of the core.
Assign(c, p) ==
    /\ cores' = [cores EXCEPT ![c] = p]
    /\ threads_active' = [q \in P |-> threads_active[q] + (IF q = p THEN 1 ELSE 0)
                                        - (IF q = cores[c] THEN 1 ELSE 0)]
\* __sched_run
SchedRun(c, p) ==
    IF wait[c] THEN pend' = [pend EXCEPT ![c] = p] /\ UNCHANGED <<cur, wait, idle>>
    ELSE /\ cur' = [cur EXCEPT ![c] = p] /\ wait' = [wait EXCEPT ![c] = TRUE]
         /\ idle' = [idle EXCEPT ![c] = FALSE] /\ UNCHANGED pend
\* Mutant: nobody asks whether the process has a kthread left.
CanRun_Any(p, c) == c \in Allowed
\* simple_run_kthread_on_core: EBUSY, or EINVAL from sched_run_on_core, is a failure.
CanRun(p, c) == Avail(p) > 0 /\ c \in Allowed
RunKthreadOnCore(p, c) ==
    /\ CanRun(p, c) /\ SchedRun(c, p) /\ Assign(c, p)
    /\ idle_cores' = idle_cores \ {c}
    /\ waking' = IF policy = "simple" THEN waking \cup {p} ELSE waking

\* simple_add_kthread
AddKthread(p) ==
    /\ threads_active[p] < Max[p]
    /\ \E c \in ChooseCore(p) : RunKthreadOnCore(p, c)
AddFails(p) ==
    \/ threads_active[p] >= Max[p]
    \/ ChooseCore(p) = {}
    \/ \E c \in ChooseCore(p) : ~CanRun(p, c)

-----------------------------------------------------------------------------
(* Actions *)

\* sched_attach_proc
Attach(p) ==
    /\ p \notin attached /\ Avail(p) = Max[p] /\ attached' = attached \cup {p}
    /\ UNCHANGED <<policy, cores, threads_active, congested, idle_cores, waking, warned>>
    /\ UNCHANGED schedvars
\* simple_detach, numa_detach: the cores are forgotten, the threads still leave.
Detach(p) ==
    /\ p \in attached /\ attached' = attached \ {p} /\ congested' = Without(p)
    /\ cores' = [c \in Cores |-> IF cores[c] = p THEN NoProc ELSE cores[c]]
    /\ threads_active' = [threads_active EXCEPT ![p] = 0] /\ waking' = waking \ {p}
    /\ UNCHANGED <<policy, idle_cores, warned>> /\ UNCHANGED schedvars

\* simple_notify_core_needed: a thread that asks for a core; a failure changes nothing.
CoreNeeded(p) ==
    /\ p \in attached /\ AddKthread(p)
    /\ UNCHANGED <<policy, attached, congested, warned>>

\* simple_notify_congested
NotifyCongested(p, is) ==
    /\ p \in attached
    /\ \/ /\ p \in waking /\ waking' = waking \ {p}
          /\ UNCHANGED <<cores, threads_active, congested, idle_cores>> /\ UNCHANGED schedvars
       \/ /\ p \notin waking /\ ~is /\ congested' = Without(p)
          /\ UNCHANGED <<cores, threads_active, idle_cores, waking>> /\ UNCHANGED schedvars
       \/ p \notin waking /\ is /\ p \notin Congested /\ AddKthread(p) /\ UNCHANGED congested
       \/ /\ p \notin waking /\ is /\ p \notin Congested /\ AddFails(p)
          /\ congested' = <<p>> \o congested
          /\ UNCHANGED <<cores, threads_active, idle_cores, waking>> /\ UNCHANGED schedvars
    /\ UNCHANGED <<policy, attached, warned>>

\* sched_detect_congestion: a queue of the process stands, or none does.
DetectCongestion(p) == \E is \in BOOLEAN : NotifyCongested(p, is)

\* sched_poll: a switch is done.
SwitchDone(c) ==
    /\ wait[c]
    /\ IF pend[c] # NoProc
       THEN cur' = [cur EXCEPT ![c] = pend[c]] /\ pend' = [pend EXCEPT ![c] = NoProc] /\ UNCHANGED wait
       ELSE wait' = [wait EXCEPT ![c] = FALSE] /\ UNCHANGED <<cur, pend>>
    /\ UNCHANGED <<policy, idle, warned>> /\ UNCHANGED polvars

\* sched_poll: a core went idle, and its thread gives it up.
CoreIdle(c) ==
    /\ c \in Allowed /\ ~wait[c] /\ ~idle[c] /\ ~passing /\ edge' = edge \cup {c}
    /\ idle' = [idle EXCEPT ![c] = TRUE] /\ cur' = [cur EXCEPT ![c] = NoProc]
    /\ UNCHANGED <<policy, pend, wait, passing, warned>> /\ UNCHANGED polvars
\* simple_sched_poll, numa_sched_poll: the process that left the core is not
\* congested, and the next one is chosen; one pass over the cores that went idle.
IdlePass(c) ==
    /\ c \in edge /\ (\A d \in edge : c <= d)
    /\ edge' = edge \ {c} /\ passing' = (edge' # {})
    /\ congested' = Without(cores[c])
    /\ LET chosen == ChooseKthread(c, Congested \ {cores[c]})
       IN \/ /\ chosen = {} /\ Assign(c, NoProc) /\ idle_cores' = idle_cores \cup {c}
             /\ UNCHANGED <<waking, warned>> /\ UNCHANGED schedvars
          \/ /\ \E p \in chosen : RunKthreadOnCore(p, c)
             /\ UNCHANGED warned
          \/ /\ \E p \in chosen : ~CanRun(p, c)
             /\ Assign(c, NoProc) /\ idle_cores' = idle_cores \cup {c}
             /\ warned' = (warned \/ policy = "simple")
             /\ UNCHANGED waking /\ UNCHANGED schedvars
    /\ UNCHANGED <<policy, attached>>

PolicyNext ==
    \/ \E c \in Cores : CoreIdle(c) \/ IdlePass(c)
    \/ /\ edge = {}
       /\ \/ \E p \in P : Attach(p) \/ Detach(p) \/ CoreNeeded(p) \/ DetectCongestion(p)
          \/ \E c \in Cores : SwitchDone(c)
       /\ UNCHANGED <<edge, passing>>

PolicySpec == PolicyInit /\ [][PolicyNext]_policyVars

-----------------------------------------------------------------------------
(* Properties *)

\* The books balance whatever order cores go idle, are preempted and are switched
\* in: a process is counted for the cores it has, never above its maximum, each of
\* them is running or about to run one of its threads, and no core gets lost: one
\* that nobody has is known to be idle, or has yet to report.
BooksBalance ==
    /\ \A p \in attached : threads_active[p] = Cardinality({c \in Cores : cores[c] = p})
    /\ \A p \in P : /\ Cardinality({c \in Cores \ edge : cores[c] = p}) <= Max[p]
                    /\ Avail(p) >= 0
    /\ \A c \in Cores \ edge : cores[c] # NoProc =>
          cores[c] = (IF pend[c] # NoProc THEN pend[c] ELSE cur[c]) /\ c \notin idle_cores
    /\ \A c \in Allowed \ edge : cores[c] = NoProc => c \in idle_cores \/ ~idle[c]
    /\ Cardinality(Congested) = Len(congested) /\ Congested \subseteq attached
    /\ ~warned

\* A core given to another process belonged to one above its guarantee, and goes to one
\* that is below its own or has a higher priority.
TakenFairlyStep ==
    \A c \in Cores \ edge : cores[c] # NoProc /\ cores'[c] \notin {NoProc, cores[c]} =>
        /\ threads_active[cores[c]] > Guaranteed[cores[c]]
        /\ \/ threads_active[cores'[c]] < Guaranteed[cores'[c]]
           \/ Priority[cores'[c]] > Priority[cores[c]]
\* simple_choose_core preempts only a process above its guaranteed cores, and only for one
\* below its own or of a higher priority: no sequence of steps takes a guaranteed core.
GuaranteeKept == [][TakenFairlyStep]_policyVars
=============================================================================
