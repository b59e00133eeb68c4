------------------------------ MODULE RtSched ------------------------------
(***************************************************************************)
(* The scheduler of the Caladan runtime: every kthread runs uthreads from  *)
(* a ring of its own.  Only the owner adds to a ring, without a lock;      *)
(* owner and thieves take from it under the lock of the kthread.  A        *)
(* uthread that parks or yields may be run by another kthread before the   *)
(* first one has left its stack; stack_busy makes the other one wait.      *)
(***************************************************************************)
EXTENDS Integers, Sequences, FiniteSets

CONSTANTS
    K,              \* kthreads
    T,              \* slots for uthreads; a softirq needs one too
    Size,           \* RUNTIME_RQ_SIZE
    Budget,         \* bound: events waiting for a softirq
    None

Wide == 2 * Size    \* the width of the 32-bit indices, a multiple of Size

VARIABLES
    pc, cur,        \* cur[k]: the uthread whose stack k is on
    next, tried,    \* locals of schedule
    lock, head, tail, rq, rq_overflow, parked,
    len,            \* len[k]: q_ptrs->rq_head - q_ptrs->rq_tail
    gen,            \* rcu_gen modulo 2
    ready, seen, ret, \* locals of thread_ready
    softirq,        \* events waiting for kthread k
    state, busy, waiting

kvars == <<pc, cur, next, tried>>
queues == <<head, tail, rq, rq_overflow, len>>
call == <<ready, seen, ret>>
threads == <<state, busy, waiting>>
vars == <<kvars, queues, call, threads, lock, parked, gen, softirq>>

Init ==
    /\ \E k \in K, t \in T :
          /\ head = [x \in K |-> IF x = k THEN 1 ELSE 0] /\ len = head
          /\ rq = [x \in K |-> [i \in 0 .. Size - 1 |-> IF x = k /\ i = 0 THEN t ELSE None]]
          /\ state = [x \in T |-> IF x = t THEN "RUNNABLE" ELSE "none"]
    /\ tail = [k \in K |-> 0] /\ rq_overflow = [k \in K |-> <<>>]
    /\ pc = [k \in K |-> "start"] /\ cur = [k \in K |-> None] /\ next = [k \in K |-> None]
    /\ tried = [k \in K |-> {}] /\ lock = [k \in K |-> None] /\ parked = [k \in K |-> FALSE]
    /\ gen = [k \in K |-> 1] /\ softirq = [k \in K |-> 0]
    /\ ready = [k \in K |-> None] /\ seen = [k \in K |-> 0] /\ ret = [k \in K |-> "run"]
    /\ busy = [t \in T |-> FALSE] /\ waiting = {}

Go(k, place) == pc' = [pc EXCEPT ![k] = place]
Queued(k) == (head[k] - tail[k]) % Wide
Flip(k) == gen' = [gen EXCEPT ![k] = 1 - @]

\* The ring of k after taking its n oldest, or adding the threads of s.
Oldest(k, n) == [i \in 1 .. n |-> rq[k][(tail[k] + i - 1) % Size]]
Added(k, s) ==
    [i \in 0 .. Size - 1 |->
        IF \E j \in 1 .. Len(s) : (head[k] + j - 1) % Size = i
        THEN s[CHOOSE j \in 1 .. Len(s) : (head[k] + j - 1) % Size = i] ELSE rq[k][i]]
Room(k) == Size - Queued(k)
Min2(a, b) == IF a < b THEN a ELSE b

-----------------------------------------------------------------------------
(* thread_ready, by the kthread k *)

\* The state of the thread, and the tail as it is now.
ThreadReady(k, t, back) ==
    /\ ready' = [ready EXCEPT ![k] = t]
    /\ seen' = [seen EXCEPT ![k] = tail[k]] /\ ret' = [ret EXCEPT ![k] = back]
    /\ len' = [len EXCEPT ![k] = @ + 1] /\ Go(k, "ready")
\* Mutant: one entry too many.
Full_Above(k) == (head[k] - seen[k]) % Wide > Size
Full(k) == (head[k] - seen[k]) % Wide >= Size
Enqueue(k) ==
    /\ pc[k] = "ready"
    /\ IF Full(k)
       THEN /\ lock[k] = None
            /\ rq_overflow' = [rq_overflow EXCEPT ![k] = Append(@, ready[k])]
            /\ UNCHANGED <<rq, head>>
       ELSE /\ rq' = [rq EXCEPT ![k] = Added(k, <<ready[k]>>)]
            /\ head' = [head EXCEPT ![k] = (@ + 1) % Wide]
            /\ UNCHANGED rq_overflow
    /\ Go(k, ret[k]) /\ ready' = [ready EXCEPT ![k] = None] /\ seen' = [seen EXCEPT ![k] = 0]
    /\ UNCHANGED <<cur, next, tried, tail, len, ret, threads, lock, parked, gen, softirq>>

-----------------------------------------------------------------------------
(* What a running uthread does *)

\* thread_park_and_unlock_np: once the lock is released it can be woken.
ThreadPark(k) ==
    /\ pc[k] = "run"
    /\ state' = [state EXCEPT ![cur[k]] = "SLEEPING"] /\ busy' = [busy EXCEPT ![cur[k]] = TRUE]
    /\ waiting' = waiting \cup {cur[k]} /\ Go(k, "enter")
    /\ UNCHANGED <<cur, next, tried, queues, call, lock, parked, gen, softirq>>
Wake(k) ==
    /\ pc[k] = "run"
    /\ \E t \in waiting :
          /\ waiting' = waiting \ {t} /\ state' = [state EXCEPT ![t] = "RUNNABLE"]
          /\ ThreadReady(k, t, "run")
    /\ UNCHANGED <<cur, next, tried, head, tail, rq, rq_overflow, busy, lock, parked, gen,
                   softirq>>
\* thread_create and thread_spawn.
ThreadSpawn(k) ==
    /\ pc[k] = "run"
    /\ \E t \in T :
          /\ state[t] = "none" /\ state' = [state EXCEPT ![t] = "RUNNABLE"]
          /\ ThreadReady(k, t, "run")
    /\ UNCHANGED <<cur, next, tried, head, tail, rq, rq_overflow, busy, waiting, lock, parked, gen,
                   softirq>>
\* thread_exit: off the stack first, then it is freed.
ThreadExit(k) ==
    /\ pc[k] = "run"
    /\ state' = [state EXCEPT ![cur[k]] = "none"] /\ cur' = [cur EXCEPT ![k] = None]
    /\ Go(k, "start")
    /\ UNCHANGED <<next, tried, queues, call, busy, waiting, lock, parked, gen, softirq>>

-----------------------------------------------------------------------------
(* steal_work *)

WorkAvailable(r) == Queued(r) > 0 \/ rq_overflow[r] # <<>> \/ softirq[r] > 0
\* Half of the ring of r, or one of its overflow, or a thread for its events.
StealWork(k, r) ==
    /\ WorkAvailable(r) /\ lock[r] = None
    /\ \/ /\ Queued(r) > 0
          /\ LET n == (Queued(r) + 1) \div 2
                 s == Oldest(r, n)
                 m == Min2(n, Room(k))
             IN /\ rq' = [rq EXCEPT ![k] = Added(k, SubSeq(s, 1, m))]
                /\ head' = [head EXCEPT ![k] = (@ + m) % Wide]
                /\ rq_overflow' = [rq_overflow EXCEPT ![k] = @ \o SubSeq(s, m + 1, n)]
                /\ tail' = [tail EXCEPT ![r] = (@ + n) % Wide]
                /\ len' = [len EXCEPT ![r] = @ - n, ![k] = @ + n]
          /\ UNCHANGED <<softirq, state>>
       \/ /\ Queued(r) = 0 /\ rq_overflow[r] # <<>>
          /\ LET t == Head(rq_overflow[r])
             IN /\ rq' = IF Room(k) > 0 THEN [rq EXCEPT ![k] = Added(k, <<t>>)] ELSE rq
                /\ head' = IF Room(k) > 0 THEN [head EXCEPT ![k] = (@ + 1) % Wide] ELSE head
                /\ rq_overflow' =
                      [rq_overflow EXCEPT ![r] = Tail(@),
                                          ![k] = IF Room(k) > 0 THEN @ ELSE Append(@, t)]
          /\ len' = [len EXCEPT ![r] = @ - 1, ![k] = @ + 1]
          /\ UNCHANGED <<tail, softirq, state>>
       \/ /\ Queued(r) = 0 /\ rq_overflow[r] = <<>>
          /\ \E t \in T :
                /\ state[t] = "none" /\ state' = [state EXCEPT ![t] = "RUNNABLE"]
                /\ rq' = IF Room(k) > 0 THEN [rq EXCEPT ![k] = Added(k, <<t>>)] ELSE rq
                /\ head' = IF Room(k) > 0 THEN [head EXCEPT ![k] = (@ + 1) % Wide] ELSE head
                /\ rq_overflow' = IF Room(k) > 0 THEN rq_overflow
                                  ELSE [rq_overflow EXCEPT ![k] = Append(@, t)]
          /\ len' = [len EXCEPT ![k] = @ + 1] /\ softirq' = [softirq EXCEPT ![r] = 0]
          /\ UNCHANGED tail

\* thread_yield: softirqs first, then something from a parked kthread.
ThreadYield(k) ==
    /\ pc[k] = "run" /\ softirq' = [softirq EXCEPT ![k] = 0] /\ Go(k, "yield")
    /\ UNCHANGED <<cur, next, tried, queues, call, threads, lock, parked, gen>>
YieldSteals(k) ==
    /\ pc[k] = "yield" /\ lock[k] = None
    /\ \E r \in K \ {k} : parked[r] /\ StealWork(k, r)
    /\ Go(k, "yielding")
    /\ UNCHANGED <<cur, next, tried, call, busy, waiting, lock, parked, gen>>
YieldReady(k) ==
    /\ pc[k] \in {"yield", "yielding"}
    /\ state' = [state EXCEPT ![cur[k]] = "RUNNABLE"] /\ busy' = [busy EXCEPT ![cur[k]] = TRUE]
    /\ ThreadReady(k, cur[k], "enter")
    /\ UNCHANGED <<cur, next, tried, head, tail, rq, rq_overflow, waiting, lock, parked, gen,
                   softirq>>

\* thread_cede, on a preemption signal: the stack is left before the thread is
\* made ready; parked is set without the lock.
ThreadCede(k) ==
    /\ pc[k] = "run"
    /\ state' = [state EXCEPT ![cur[k]] = "RUNNABLE"] /\ cur' = [cur EXCEPT ![k] = None]
    /\ ThreadReady(k, cur[k], "cede")
    /\ UNCHANGED <<next, tried, head, tail, rq, rq_overflow, busy, waiting, lock, parked, gen,
                   softirq>>
FinishCede(k) ==
    /\ pc[k] = "cede"
    /\ parked' = [parked EXCEPT ![k] = TRUE] /\ Flip(k) /\ Go(k, "ceded")
    /\ UNCHANGED <<cur, next, tried, queues, call, threads, lock, softirq>>
Uncede(k) ==
    /\ pc[k] = "ceded" /\ lock[k] = None /\ lock' = [lock EXCEPT ![k] = k]
    /\ parked' = [parked EXCEPT ![k] = FALSE] /\ Go(k, "sched")
    /\ UNCHANGED <<cur, next, tried, queues, call, threads, gen, softirq>>

-----------------------------------------------------------------------------
(* enter_schedule and schedule *)

\* The fast path takes the next thread at once.
EnterFast(k) ==
    /\ pc[k] = "enter" /\ lock[k] = None /\ head[k] # tail[k]
    /\ LET t == Oldest(k, 1)[1]
       IN /\ tail' = [tail EXCEPT ![k] = (@ + 1) % Wide] /\ len' = [len EXCEPT ![k] = @ - 1]
          /\ state' = [state EXCEPT ![t] = "RUNNING"]
          /\ IF t = cur[k]
             THEN Go(k, "run") /\ busy' = [busy EXCEPT ![t] = FALSE] /\ UNCHANGED next
             ELSE Go(k, "jump") /\ next' = [next EXCEPT ![k] = t] /\ UNCHANGED busy
    /\ UNCHANGED <<cur, tried, head, rq, rq_overflow, call, waiting, lock, parked, gen, softirq>>
\* The slow path leaves the stack and calls schedule; so does the watchdog.
EnterSlow(k) ==
    /\ pc[k] \in {"enter", "start"} /\ lock[k] = None
    /\ lock' = [lock EXCEPT ![k] = k]
    /\ busy' = IF cur[k] = None THEN busy ELSE [busy EXCEPT ![cur[k]] = FALSE]
    /\ cur' = [cur EXCEPT ![k] = None] /\ Flip(k) /\ Go(k, "sched")
    /\ UNCHANGED <<next, tried, queues, call, state, waiting, parked, softirq>>
\* Mutant: runs although the stack is in use.
Jump_NoWait(k) ==
    /\ pc[k] = "jump"
    /\ busy' = IF cur[k] = None THEN busy ELSE [busy EXCEPT ![cur[k]] = FALSE]
    /\ cur' = [cur EXCEPT ![k] = next[k]] /\ next' = [next EXCEPT ![k] = None] /\ Go(k, "run")
    /\ UNCHANGED <<tried, queues, call, state, waiting, lock, parked, gen, softirq>>
\* jmp_thread and jmp_thread_direct wait for the stack of the next thread, then
\* leave the old one.
Jump(k) ==
    /\ pc[k] = "jump" /\ ~busy[next[k]]
    /\ busy' = IF cur[k] = None THEN busy ELSE [busy EXCEPT ![cur[k]] = FALSE]
    /\ cur' = [cur EXCEPT ![k] = next[k]] /\ next' = [next EXCEPT ![k] = None] /\ Go(k, "run")
    /\ UNCHANGED <<tried, queues, call, state, waiting, lock, parked, gen, softirq>>

\* softirq_run_thread: a thread of its own for the events of k.
SoftirqRunThread(k) ==
    /\ softirq[k] > 0 /\ softirq' = [softirq EXCEPT ![k] = 0]
    /\ \E t \in T :
          /\ state[t] = "none" /\ state' = [state EXCEPT ![t] = "RUNNABLE"]
          /\ next' = [next EXCEPT ![k] = t]
DrainOverflow(k) ==
    LET n == Min2(Room(k), Len(rq_overflow[k]))
    IN /\ rq' = [rq EXCEPT ![k] = Added(k, SubSeq(rq_overflow[k], 1, n))]
       /\ rq_overflow' = [rq_overflow EXCEPT ![k] = SubSeq(@, n + 1, Len(@))]
       /\ head' = [head EXCEPT ![k] = (@ + n) % Wide]

\* do_watchdog, when it is due.
Watchdog(k) ==
    /\ pc[k] = "sched" /\ SoftirqRunThread(k) /\ Go(k, "done")
    /\ UNCHANGED <<cur, tried, queues, call, busy, waiting, lock, parked, gen>>
TryLocal(k) ==
    /\ pc[k] = "sched" /\ (Queued(k) > 0 \/ rq_overflow[k] # <<>>)
    /\ DrainOverflow(k) /\ Go(k, "done")
    /\ UNCHANGED <<cur, next, tried, tail, len, call, threads, lock, parked, gen, softirq>>
ResetLocal(k) ==
    /\ pc[k] = "sched" /\ Queued(k) = 0 /\ rq_overflow[k] = <<>>
    /\ head' = [head EXCEPT ![k] = 0] /\ tail' = [tail EXCEPT ![k] = 0] /\ Go(k, "again")
    /\ UNCHANGED <<cur, next, tried, rq, rq_overflow, len, call, threads, lock, parked, gen,
                   softirq>>
\* again: local softirqs before stealing, and once more after it.
LocalSoftirq(k) ==
    /\ pc[k] = "again" /\ tried[k] \in {{}, K \ {k}} /\ SoftirqRunThread(k)
    /\ Go(k, "done") /\ tried' = [tried EXCEPT ![k] = {}]
    /\ UNCHANGED <<cur, queues, call, busy, waiting, lock, parked, gen>>
Steal(k) ==
    /\ pc[k] = "again" /\ \E r \in K \ (tried[k] \cup {k}) : StealWork(k, r)
    /\ Go(k, "done") /\ tried' = [tried EXCEPT ![k] = {}]
    /\ UNCHANGED <<cur, next, call, busy, waiting, lock, parked, gen>>
NothingToSteal(k) ==
    /\ pc[k] = "again"
    /\ \E r \in K \ (tried[k] \cup {k}) :
          /\ ~WorkAvailable(r) \/ lock[r] # None
             \/ (Queued(r) = 0 /\ rq_overflow[r] = <<>> /\ \A t \in T : state[t] # "none")
          /\ tried' = [tried EXCEPT ![k] = @ \cup {r}]
    /\ UNCHANGED <<pc, cur, next, queues, call, threads, lock, parked, gen, softirq>>
\* Polling on, or parking.
PollAgain(k) ==
    /\ pc[k] = "again" /\ tried[k] = K \ {k} /\ tried' = [tried EXCEPT ![k] = {}]
    /\ UNCHANGED <<pc, cur, next, queues, call, threads, lock, parked, gen, softirq>>
SchedPark(k) ==
    /\ pc[k] = "again" /\ tried[k] = K \ {k} /\ tried' = [tried EXCEPT ![k] = {}]
    /\ softirq[k] = 0 \/ \A t \in T : state[t] # "none"
    /\ parked' = [parked EXCEPT ![k] = TRUE] /\ lock' = [lock EXCEPT ![k] = None]
    /\ Go(k, "parked")
    /\ UNCHANGED <<cur, next, queues, call, threads, gen, softirq>>
Unpark(k) ==
    /\ pc[k] = "parked" /\ lock[k] = None /\ lock' = [lock EXCEPT ![k] = k]
    /\ parked' = [parked EXCEPT ![k] = FALSE] /\ Go(k, "again")
    /\ UNCHANGED <<cur, next, tried, queues, call, threads, gen, softirq>>
\* done: a thread from the ring, unless a softirq thread was found.
SchedDone(k) ==
    /\ pc[k] = "done"
    /\ LET pop == next[k] = None
           t == IF pop THEN Oldest(k, 1)[1] ELSE next[k]
           left == IF pop THEN (tail[k] + 1) % Wide ELSE tail[k]
           n == Min2(Room(k) + (IF pop THEN 1 ELSE 0), Len(rq_overflow[k]))
       IN /\ next' = [next EXCEPT ![k] = t] /\ state' = [state EXCEPT ![t] = "RUNNING"]
          /\ tail' = [tail EXCEPT ![k] = left]
          /\ len' = IF pop THEN [len EXCEPT ![k] = @ - 1] ELSE len
          /\ rq' = [rq EXCEPT ![k] = Added(k, SubSeq(rq_overflow[k], 1, n))]
          /\ rq_overflow' = [rq_overflow EXCEPT ![k] = SubSeq(@, n + 1, Len(@))]
          /\ head' = [head EXCEPT ![k] = (@ + n) % Wide]
    /\ lock' = [lock EXCEPT ![k] = None] /\ Flip(k) /\ Go(k, "jump")
    /\ UNCHANGED <<cur, tried, call, busy, waiting, parked, softirq>>

\* Packets, completions and timers.
SoftirqArrives(k) ==
    /\ softirq[k] < Budget /\ softirq' = [softirq EXCEPT ![k] = @ + 1]
    /\ UNCHANGED <<kvars, queues, call, threads, lock, parked, gen>>

Schedule(k) ==
    \/ Watchdog(k) \/ TryLocal(k) \/ ResetLocal(k) \/ LocalSoftirq(k) \/ Steal(k)
    \/ NothingToSteal(k) \/ PollAgain(k) \/ SchedPark(k) \/ Unpark(k) \/ SchedDone(k)
Runs(k) ==
    \/ ThreadPark(k) \/ Wake(k) \/ ThreadSpawn(k) \/ ThreadExit(k) \/ ThreadYield(k)
    \/ YieldSteals(k) \/ YieldReady(k) \/ ThreadCede(k) \/ FinishCede(k) \/ Uncede(k)
    \/ Enqueue(k)
Switch(k) == EnterFast(k) \/ EnterSlow(k) \/ Jump(k)
Next == \E k \in K : Runs(k) \/ Switch(k) \/ Schedule(k) \/ SoftirqArrives(k)

Spec == Init /\ [][Next]_vars

-----------------------------------------------------------------------------
(* Properties *)

Ring(k) == Oldest(k, Queued(k))
All(k) == Ring(k) \o rq_overflow[k]
Places(t) ==
    {<<k, i>> \in K \X (1 .. 2 * Cardinality(T)) : i <= Len(All(k)) /\ All(k)[i] = t}
      \cup {<<k, 0>> : k \in {k \in K : ready[k] = t \/ (pc[k] = "done" /\ next[k] = t)}}

\* Wherever wake-ups, yields, steals and preemptions meet, a runnable thread
\* waits in exactly one place, one that sleeps or runs in none: none is lost, none
\* is run twice (thread_ready without a lock against steal_work).
QueuedOnce ==
    \A t \in T : Cardinality(Places(t)) = IF state[t] = "RUNNABLE" THEN 1 ELSE 0

\* A stack is used by one kthread at a time although a thread can be woken and
\* taken before it has left its stack, and a parked kthread has nothing queued.
StacksApart ==
    /\ \A k, l \in K : k # l /\ cur[k] # None => cur[k] # cur[l]
    /\ \A k, l \in K : k # l /\ next[k] # None => next[k] # next[l]
    /\ \A k \in K : pc[k] = "parked" => All(k) = <<>>

\* Kthreads that wait for a stack never wait for each other: every one of them
\* waits for a kthread that is on its way off that stack (jmp_thread_direct
\* releases the old stack only after the wait).
NoSpinCycle ==
    ~\E S \in SUBSET K \ {{}} :
        \A k \in S : pc[k] = "jump" /\ \E l \in S \ {k} : cur[l] = next[k]

\* The queue length the iokernel sees is the number of threads queued, and the
\* parity of rcu_gen says whether the kthread is in a thread.
SignalsTrue ==
    \A k \in K :
        /\ len[k] = Len(All(k)) + IF ready[k] = None THEN 0 ELSE 1
        /\ pc[k] \in {"run", "yield", "yielding", "enter"} => gen[k] = 1
        /\ pc[k] \in {"sched", "again", "done", "parked"} => gen[k] = 0
SchedSound == QueuedOnce /\ StacksApart /\ NoSpinCycle /\ SignalsTrue
=============================================================================
