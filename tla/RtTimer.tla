------------------------------- MODULE RtTimer -------------------------------
(***************************************************************************)
(* The timers of a kthread of the Caladan runtime: a D-ary heap of entries *)
(* ordered by deadline, each entry knowing its place, under the timer      *)
(* lock.  The softirq takes expired entries off the top, one at a time,    *)
(* and runs each handler without the lock; any thread may start or cancel  *)
(* timers meanwhile.  The i-th place of the heap is timers[i], i >= 0.     *)
(***************************************************************************)
EXTENDS Integers

CONSTANTS
    N,              \* timer entries, all alike
    D,              \* children of a place
    Deadlines, MaxTime, \* bounds: deadlines and the clock
    Budget,         \* timers one softirq handles
    CancelFired     \* are timers cancelled that may have fired?

E == 1 .. N
None == 0
VARIABLES timers, timern, idx, deadline, armed, now, next, firing, left, lied

vars == <<timers, timern, idx, deadline, armed, now, next, firing, left, lied>>

Init ==
    /\ timers = [i \in 0 .. N |-> None] /\ timern = 0
    /\ idx = [e \in E |-> 0] /\ deadline = [e \in E |-> 0] /\ armed = [e \in E |-> FALSE]
    /\ now = 0 /\ next = 0 /\ firing = None /\ left = 0
    /\ lied = FALSE         \* has timer_cancel said true of a timer that had fired?

-----------------------------------------------------------------------------
(* The heap: q.h the array, q.x the index of every entry *)

Put(q, i, e) == [h |-> [q.h EXCEPT ![i] = e], x |-> [q.x EXCEPT ![e] = i]]
Swap(q, i, j) == Put(Put(q, i, q.h[j]), j, q.h[i])

RECURSIVE sift_up(_, _, _)
sift_up(q, dl, i) ==
    LET p == (i - 1) \div D
    IN IF i = 0 \/ dl[q.h[i]] >= dl[q.h[p]] THEN q
       ELSE sift_up(Swap(q, i, p), dl, p)

\* The first of the earliest children, when one is earlier than i.
Earlier(q, dl, i, n) ==
    LET C == {j \in (i * D + 1) .. (i * D + D) : j < n /\ dl[q.h[j]] < dl[q.h[i]]}
    IN {c \in C : \A j \in C : dl[q.h[c]] < dl[q.h[j]] \/ (dl[q.h[c]] = dl[q.h[j]] /\ c <= j)}
RECURSIVE sift_down(_, _, _, _)
sift_down(q, dl, i, n) ==
    IF Earlier(q, dl, i, n) = {} THEN q
    ELSE LET c == CHOOSE c \in Earlier(q, dl, i, n) : TRUE
         IN sift_down(Swap(q, i, c), dl, c, n)

\* n entries are left; what the array holds beyond them is never read.
SetTimers(h, n) == timern' = n /\ timers' = [i \in 0 .. N |-> IF i < n THEN h[i] ELSE None]
SetHeap(q, n) == SetTimers(q.h, n) /\ idx' = q.x
update_q_ptrs(dl) == next' = IF timern' > 0 THEN dl[timers'[0]] ELSE 0

-----------------------------------------------------------------------------
InHeap(e) == \E i \in 0 .. timern - 1 : timers[i] = e
\* armed stays set when a timer has fired.
Fired(e) == armed[e] /\ ~InHeap(e)
\* What an idle entry holds is never read.
Idle(e, dl, x) ==
    /\ armed' = [armed EXCEPT ![e] = FALSE]
    /\ deadline' = [dl EXCEPT ![e] = 0] /\ idx' = [x EXCEPT ![e] = 0]

\* timer_init, by the owner of an entry that has fired.
TimerInit(e) ==
    /\ Fired(e) /\ firing # e /\ Idle(e, deadline, idx)
    /\ UNCHANGED <<timers, timern, now, next, firing, left, lied>>

\* timer_start and __timer_sleep; BUG_ON(e->armed) keeps an entry from being
\* started twice.  Entries are alike: the first idle one is started.
TimerStart(e, dl) ==
    /\ ~armed[e] /\ \A f \in 1 .. e - 1 : armed[f]
    /\ deadline' = [deadline EXCEPT ![e] = dl]
    /\ LET q == Put([h |-> timers, x |-> idx], timern, e)
       IN SetHeap(sift_up(q, deadline', timern), timern + 1)
    /\ armed' = [armed EXCEPT ![e] = TRUE] /\ update_q_ptrs(deadline')
    /\ UNCHANGED <<now, firing, left, lied>>

\* timer_cancel
\* Mutant: the entry that fills the gap is only sifted down.
Remove_DownOnly(e) ==
    LET last == timern - 1
        heap == [h |-> timers, x |-> idx]
    IN IF idx[e] = last THEN heap
       ELSE sift_down(Put(heap, idx[e], timers[last]), deadline, idx[e], last)
Remove(e) ==
    LET last == timern - 1
        heap == [h |-> timers, x |-> idx]
        up == sift_up(Put(heap, idx[e], timers[last]), deadline, idx[e])
    IN IF idx[e] = last THEN heap ELSE sift_down(up, deadline, idx[e], last)
\* A timer that was never armed is left alone.  In an empty heap the entry of a
\* timer that has fired would be filled from before the array: not followed.
TimerCancel(e) ==
    /\ armed[e] /\ timern > 0 /\ ~lied /\ (CancelFired \/ ~Fired(e))
    /\ lied' = Fired(e)
    /\ LET q == Remove(e)
       IN SetTimers(q.h, timern - 1) /\ Idle(e, deadline, q.x) /\ update_q_ptrs(deadline)
    /\ UNCHANGED <<now, firing, left>>

\* timer_softirq: the top goes, its handler runs without the lock.
SoftirqStart ==
    /\ left = 0 /\ firing = None /\ timern > 0 /\ deadline[timers[0]] <= now /\ left' = Budget
    /\ UNCHANGED <<timers, timern, idx, deadline, armed, now, next, firing, lied>>
SoftirqPop ==
    /\ left > 0 /\ firing = None
    /\ IF timern > 0 /\ deadline[timers[0]] <= now
       THEN /\ firing' = timers[0] /\ left' = left - 1
            /\ LET last == timern - 1
                   heap == [h |-> timers, x |-> idx]
               IN SetHeap(IF last = 0 THEN heap
                          ELSE sift_down(Put(heap, 0, timers[last]), deadline, 0, last), last)
            /\ update_q_ptrs(deadline)
       ELSE left' = 0 /\ UNCHANGED <<timers, timern, idx, next, firing>>
    /\ UNCHANGED <<deadline, armed, now, lied>>
SoftirqHandler ==
    /\ firing # None /\ firing' = None
    /\ UNCHANGED <<timers, timern, idx, deadline, armed, now, next, left, lied>>

Tick ==
    /\ now < MaxTime /\ now' = now + 1
    /\ UNCHANGED <<timers, timern, idx, deadline, armed, next, firing, left, lied>>

Next ==
    \/ \E e \in E : TimerInit(e) \/ TimerCancel(e) \/ (\E dl \in Deadlines : TimerStart(e, dl))
    \/ SoftirqStart \/ SoftirqPop \/ SoftirqHandler \/ Tick

Spec == Init /\ [][Next]_vars

-----------------------------------------------------------------------------
(* Properties *)

\* The heap is a heap, whatever is cancelled from its middle while the softirq
\* runs: nobody is later than a child, every entry is in the place it knows and in
\* no other, the top is what the iokernel is told, and only the expired have fired.
TimersSound ==
    /\ \A i \in 1 .. timern - 1 : deadline[timers[(i - 1) \div D]] <= deadline[timers[i]]
    /\ \A i \in 0 .. timern - 1 : armed[timers[i]] /\ idx[timers[i]] = i
    /\ next = IF timern > 0 THEN deadline[timers[0]] ELSE 0
    /\ \A e \in E : Fired(e) => deadline[e] <= now

\* timer_cancel "Returns true if the timer was successfully cancelled, otherwise it
\* has already fired or was never armed".
CancelTruthful == ~lied
=============================================================================
