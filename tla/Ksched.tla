------------------------------- MODULE Ksched -------------------------------
(***************************************************************************)
(* How the Caladan iokernel moves kthreads between cores: the low-level    *)
(* scheduler of the iokernel, the shared page of the ksched kernel module, *)
(* the module's idle loop, park call and interrupt handler, and the        *)
(* kthreads' side of parking and preemption signals.  The iokernel writes  *)
(* a thread and a generation for a core, and interrupts a core whose       *)
(* thread has to leave; the core takes the request when its thread parks   *)
(* or when it idles.  Which thread goes where is any choice the policy     *)
(* could make.                                                             *)
(***************************************************************************)
EXTENDS Integers, FiniteSets

CONSTANTS Core, Task, None,
          MaxGen        \* bound: run requests for two cores together

VARIABLES
    \* the iokernel
    cur_th, pending_th, pending, idle, wait, active, intrs,
    \* the shared page
    gen, tid, sig, busy, last_gen,
    \* the kernel module, per core
    plast, pbusy, running, ipi,
    \* the kthreads
    pc, at, signalled, preempt,
    strayed         \* has a signal come to a thread that was entering ksched_park?

iokvars == <<cur_th, pending_th, pending, idle, wait, active, intrs>>
shmvars == <<gen, tid, sig, busy, last_gen>>
kpvars == <<plast, pbusy, running>>
thvars == <<pc, at, signalled, preempt, strayed>>
vars == <<iokvars, shmvars, kpvars, ipi, thvars>>

Init ==
    /\ cur_th = [c \in Core |-> None] /\ pending_th = [c \in Core |-> None]
    /\ pending = [c \in Core |-> FALSE] /\ idle = [c \in Core |-> FALSE]
    /\ wait = [c \in Core |-> FALSE] /\ active = {} /\ intrs = {}
    /\ gen = [c \in Core |-> 0] /\ tid = [c \in Core |-> None] /\ sig = [c \in Core |-> 0]
    /\ busy = [c \in Core |-> FALSE] /\ last_gen = [c \in Core |-> 0]
    /\ plast = [c \in Core |-> 0] /\ pbusy = [c \in Core |-> FALSE]
    /\ running = [c \in Core |-> None] /\ ipi = {}
    \* ksched_start: every kthread sleeps until it is first run
    /\ pc = [t \in Task |-> "asleep"] /\ at = [t \in Task |-> None]
    /\ signalled = {} /\ preempt = {} /\ strayed = FALSE

Set(f, c, v) == [f EXCEPT ![c] = v]

-----------------------------------------------------------------------------
(* The iokernel *)

\* ksched_run and ksched_enqueue_intr
KschedRun(c, t) ==
    /\ \A d \in Core \ {c} : gen[c] + gen[d] < MaxGen
    /\ gen[c] < MaxGen /\ tid' = Set(tid, c, t) /\ gen' = Set(gen, c, gen[c] + 1)
Enqueue(c, needed) ==
    /\ sig' = IF needed THEN Set(sig, c, gen[c]) ELSE sig
    /\ intrs' = IF needed THEN intrs \cup {c} ELSE intrs

\* __sched_run; the thread it replaces, or the one it was waiting to run, is disabled.
SchedRun(c, t) ==
    IF wait[c]
    THEN /\ pending_th' = Set(pending_th, c, t) /\ pending' = Set(pending, c, TRUE)
         /\ active' = (active \cup ({t} \ {None})) \ {pending_th[c]}
         /\ UNCHANGED <<cur_th, idle, wait, intrs>> /\ UNCHANGED shmvars
    ELSE /\ Enqueue(c, ~idle[c] /\ cur_th[c] # None)
         /\ KschedRun(c, t)
         /\ active' = (active \cup ({t} \ {None})) \ {cur_th[c]}
         /\ cur_th' = Set(cur_th, c, t) /\ wait' = Set(wait, c, TRUE)
         /\ idle' = Set(idle, c, FALSE)
         /\ UNCHANGED <<pending_th, pending, busy, last_gen>>
\* sched_run_on_core: sched_pick_kthread takes a thread that is not active.
SchedRunOnCore(c) ==
    /\ \E t \in Task \ active : SchedRun(c, t)
    /\ UNCHANGED ipi /\ UNCHANGED kpvars /\ UNCHANGED thvars
SchedIdleOnCore(c) ==
    /\ SchedRun(c, None) /\ UNCHANGED ipi /\ UNCHANGED kpvars /\ UNCHANGED thvars

\* The fast pass of sched_poll over a core.
PollWait(c) ==
    /\ wait[c] /\ last_gen[c] = gen[c]
    /\ IF pending[c]
       THEN /\ Enqueue(c, TRUE) /\ KschedRun(c, pending_th[c])
            /\ pending_th' = Set(pending_th, c, None) /\ pending' = Set(pending, c, FALSE)
            /\ active' = active \ {cur_th[c]} /\ cur_th' = Set(cur_th, c, pending_th[c])
            /\ UNCHANGED <<idle, wait, busy, last_gen>>
       ELSE /\ wait' = Set(wait, c, FALSE)
            /\ UNCHANGED <<cur_th, pending_th, pending, idle, active, intrs>> /\ UNCHANGED shmvars
    /\ UNCHANGED ipi /\ UNCHANGED kpvars /\ UNCHANGED thvars
\* The core went idle: sched_try_fast_rewake, when there is still something to do,
\* or the thread gives the core up.
PollIdle(c) ==
    /\ ~wait[c] /\ ~idle[c] /\ ~busy[c]
    /\ \/ /\ cur_th[c] # None /\ KschedRun(c, cur_th[c]) /\ wait' = Set(wait, c, TRUE)
          /\ UNCHANGED <<cur_th, idle, active, sig, busy, last_gen>>
       \/ /\ active' = active \ {cur_th[c]} /\ cur_th' = Set(cur_th, c, None)
          /\ idle' = Set(idle, c, TRUE)
          /\ UNCHANGED wait /\ UNCHANGED shmvars
    /\ UNCHANGED <<pending_th, pending, intrs, ipi>> /\ UNCHANGED kpvars /\ UNCHANGED thvars
\* ksched_send_intrs and ksched_intr
SendIntrs ==
    /\ intrs # {} /\ intrs' = {} /\ ipi' = ipi \cup intrs
    /\ UNCHANGED <<cur_th, pending_th, pending, idle, wait, active>>
    /\ UNCHANGED shmvars /\ UNCHANGED kpvars /\ UNCHANGED thvars

-----------------------------------------------------------------------------
(* The kernel module *)

Runnable(t) == pc[t] \notin {"asleep", "dead"}
OnCore(c) == {t \in Task : Runnable(t) /\ at[t] = c}

\* The scheduler part of ksched_next_tid, with the state of the caller as it stands
\* (me is the caller's next place, None for the idle loop).
NextTid(c, t, me, place) ==
    LET ok == t # None /\ pc[t] = "asleep"
    IN /\ running' = Set(running, c, IF ok THEN t ELSE None)
       /\ pc' = [u \in Task |-> CASE ok /\ u = t -> "back"
                                  [] u = me -> place
                                  [] OTHER -> pc[u]]
       /\ at' = IF ok THEN Set(at, t, c) ELSE at
\* The request is taken.
Taken(c, isBusy) ==
    /\ plast' = Set(plast, c, gen[c]) /\ last_gen' = Set(last_gen, c, gen[c])
    /\ busy' = Set(busy, c, isBusy) /\ pbusy' = Set(pbusy, c, TRUE)

\* ksched_idle: nothing runs on the core.
Idle(c) ==
    /\ OnCore(c) = {}
    /\ \/ /\ gen[c] = plast[c] /\ (pbusy[c] \/ busy[c] \/ running[c] # None)
          /\ pbusy' = Set(pbusy, c, FALSE) /\ busy' = Set(busy, c, FALSE)
          /\ running' = Set(running, c, None)
          /\ UNCHANGED <<last_gen, plast, pc, at>>
       \/ /\ gen[c] # plast[c]
          /\ NextTid(c, tid[c], None, "none") /\ Taken(c, running'[c] # None)
    /\ UNCHANGED <<gen, tid, sig, ipi, signalled, preempt, strayed>> /\ UNCHANGED iokvars

\* ksched_park, up to the point where the caller is about to sleep.
Park(t) ==
    LET c == at[t]
    IN /\ pc[t] = "park"
       /\ \/ /\ gen[c] = plast[c]
             /\ busy' = Set(busy, c, FALSE) /\ pbusy' = Set(pbusy, c, FALSE)
             /\ NextTid(c, None, t, "sleeping") /\ UNCHANGED <<plast, last_gen>>
          \/ /\ gen[c] # plast[c] /\ tid[c] = t
             /\ Taken(c, TRUE) /\ pc' = Set(pc, t, "back") /\ UNCHANGED <<running, at>>
          \/ /\ gen[c] # plast[c] /\ tid[c] # t
             /\ NextTid(c, tid[c], t, "sleeping") /\ Taken(c, running'[c] # None)
       /\ UNCHANGED <<gen, tid, sig, ipi, signalled, preempt, strayed>> /\ UNCHANGED iokvars
\* schedule(): a thread with a signal pending does not sleep.
Sleep(t) ==
    /\ pc[t] = "sleeping"
    /\ IF t \in signalled THEN pc' = Set(pc, t, "back") /\ UNCHANGED at
       ELSE pc' = Set(pc, t, "asleep") /\ at' = Set(at, t, None)
    /\ UNCHANGED <<signalled, preempt, strayed, ipi>>
    /\ UNCHANGED iokvars /\ UNCHANGED shmvars /\ UNCHANGED kpvars

\* ipi_handler and ksched_deliver_signal: only for the request it was meant for.
\* Mutant: the interrupt reaches whoever runs on the core by now.
Ipi_Anyone(c) ==
    /\ c \in ipi /\ ipi' = ipi \ {c}
    /\ signalled' = signalled \cup (IF pbusy[c] THEN {t \in {running[c]} \ {None} : Runnable(t)} ELSE {})
    /\ sig' = Set(sig, c, 0)
    /\ UNCHANGED <<gen, tid, busy, last_gen, pc, at, preempt, strayed>>
    /\ UNCHANGED iokvars /\ UNCHANGED kpvars
Ipi(c) ==
    /\ c \in ipi /\ ipi' = ipi \ {c}
    /\ LET to == IF sig[c] = plast[c] /\ pbusy[c] THEN {running[c]} \ {None} ELSE {}
       IN /\ signalled' = signalled \cup {t \in to : Runnable(t)}
          /\ strayed' = (strayed \/ \E t \in to : pc[t] = "park")
    /\ sig' = IF sig[c] = plast[c] THEN Set(sig, c, 0) ELSE sig
    /\ UNCHANGED <<gen, tid, busy, last_gen, pc, at, preempt>>
    /\ UNCHANGED iokvars /\ UNCHANGED kpvars

-----------------------------------------------------------------------------
(* The kthreads *)

\* kthread_yield_to_iokernel: back from the call; a signal that came meanwhile is
\* handled with preemption off, and the thread yields again.
Back(t) ==
    /\ pc[t] = "back"
    /\ IF t \in signalled \/ t \in preempt
       THEN pc' = Set(pc, t, "park") /\ signalled' = signalled \ {t}
       ELSE pc' = Set(pc, t, "user") /\ UNCHANGED signalled
    /\ preempt' = preempt \ {t}
    /\ UNCHANGED <<at, ipi, strayed>> /\ UNCHANGED iokvars /\ UNCHANGED shmvars /\ UNCHANGED kpvars
\* handle_sigusr1: at once, or when preemption is enabled again.
Handle(t) ==
    /\ pc[t] = "user" /\ t \in signalled /\ signalled' = signalled \ {t}
    /\ \/ pc' = Set(pc, t, "park") /\ UNCHANGED preempt
       \/ preempt' = preempt \cup {t} /\ UNCHANGED pc
    /\ UNCHANGED <<at, ipi, strayed>> /\ UNCHANGED iokvars /\ UNCHANGED shmvars /\ UNCHANGED kpvars
\* kthread_park, voluntarily or from preempt(); the pending request is cleared.
KthreadPark(t) ==
    /\ pc[t] = "user" /\ t \notin signalled
    /\ pc' = Set(pc, t, "park") /\ preempt' = preempt \ {t}
    /\ UNCHANGED <<at, signalled, ipi, strayed>>
    /\ UNCHANGED iokvars /\ UNCHANGED shmvars /\ UNCHANGED kpvars
\* The runtime exits.
Exit(t) ==
    /\ pc[t] = "user" /\ t \notin signalled
    /\ pc' = Set(pc, t, "dead") /\ at' = Set(at, t, None)
    /\ preempt' = preempt \ {t} /\ UNCHANGED signalled
    /\ UNCHANGED <<ipi, strayed>>
    /\ UNCHANGED iokvars /\ UNCHANGED shmvars /\ UNCHANGED kpvars

Next ==
    \/ SendIntrs
    \/ \E c \in Core : SchedRunOnCore(c) \/ SchedIdleOnCore(c) \/ PollWait(c) \/ PollIdle(c)
                         \/ Idle(c) \/ Ipi(c)
    \/ \E t \in Task : Park(t) \/ Sleep(t) \/ Back(t) \/ Handle(t) \/ KthreadPark(t) \/ Exit(t)

Spec == Init /\ [][Next]_vars

-----------------------------------------------------------------------------
(* Properties *)

\* The iokernel's picture of a core is right, or about to be corrected: the thread
\* it believes to be running there runs there, or the core shows idle.
PictureRight ==
    strayed \/ \A c \in Core : ~wait[c] /\ ~idle[c] /\ cur_th[c] # None /\ busy[c] =>
        running[c] = cur_th[c]

\* A core is given to one thread: a thread is active for at most one core, the
\* active ones are those the cores have or wait for.
OneCoreEach ==
    /\ active = ({cur_th[c] : c \in Core} \cup {pending_th[c] : c \in Core}) \ {None}
    /\ \A c, d \in Core : c # d => cur_th[c] = None \/ cur_th[c] \notin {cur_th[d], pending_th[d]}

\* A thread is told to leave only when its core was given away.
SignalMeant ==
    strayed \/ \A t \in signalled : Runnable(t) => gen[at[t]] # plast[at[t]] \/ running[at[t]] # t

\* A request does not get lost: a core with a request it has not taken runs a thread
\* that knows, or will be told.
CedeArrives ==
    strayed \/ \A c \in Core : gen[c] # plast[c] =>
        \A t \in OnCore(c) : pc[t] = "user" /\ t \notin signalled \cup preempt =>
            c \in intrs \cup ipi /\ sig[c] = plast[c]

\* A kthread is moved from core to core without being lost or pulled off a core
\* that is its own, although the request, the interrupt and the signal travel apart.
KschedSound == PictureRight /\ OneCoreEach /\ SignalMeant /\ CedeArrives

\* "A kthread could be stuck waiting to detach and thus temporarily unavailable ...
\* We check with the scheduler layer here to catch such a race condition."
DetachedWhenRun ==
    \A c \in Core : gen[c] # plast[c] /\ OnCore(c) = {} /\ tid[c] # None => ~Runnable(tid[c])
=============================================================================
