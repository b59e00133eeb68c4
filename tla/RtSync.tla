------------------------------- MODULE RtSync -------------------------------
(***************************************************************************)
(* The synchronization objects of the Caladan runtime: mutexes with a fast *)
(* path, condition variables, reader-writer mutexes, wait groups and       *)
(* barriers, as the pthread shim uses them.  A thread that has to wait     *)
(* parks in the critical section of a spin lock; whoever wakes it takes it *)
(* from the list under that lock and calls thread_ready after releasing    *)
(* it.  obj says which object the threads of a behaviour use.              *)
(***************************************************************************)
EXTENDS Integers, Sequences, FiniteSets

CONSTANTS
    Th,             \* threads
    Objects,        \* of "mutex", "cv", "rw", "wg", "barrier"
    MaxPhase        \* bound: rounds of a barrier

FREE == 0
HELD == 1
FLAG == 2           \* WAITER_FLAG; HELD + FLAG is both

VARIABLES
    obj, pc,
    held,           \* of the mutex
    count,          \* of the rwmutex, the wait group or the barrier
    lock,           \* spin locks held for more than a step
    waiters, readers, \* lists; readers: the read_waiters of the rwmutex
    cvwaiters, flag,  \* of the condition variable, and the condition itself
    tmp,            \* tmp[t]: threads t is going to wake
    resume,         \* resume[t]: where t goes on when it is woken
    phase           \* phase[t]: rounds t has finished

vars == <<obj, pc, held, count, lock, waiters, readers, cvwaiters, flag, tmp, resume, phase>>

Init ==
    /\ obj \in Objects /\ held = FREE /\ flag = FALSE
    /\ pc = [t \in Th |-> "idle"] /\ lock = {} /\ waiters = <<>> /\ readers = <<>>
    /\ cvwaiters = <<>> /\ tmp = [t \in Th |-> <<>>] /\ resume = [t \in Th |-> "idle"]
    /\ count = IF obj = "wg" THEN Cardinality(Th) - 1 ELSE 0
    /\ phase = [t \in Th |-> 0]

At(t, place) == pc[t] = place /\ tmp[t] = <<>>
Go(t, place) == pc' = [pc EXCEPT ![t] = place]
\* thread_park_and_unlock_np; to go on at place.
Park(t, place) == Go(t, "parked") /\ resume' = [resume EXCEPT ![t] = place]

\* thread_ready for the next thread that was taken from a list.
ReadyOne(t) ==
    /\ tmp[t] # <<>>
    /\ Go(Head(tmp[t]), resume[Head(tmp[t])]) /\ tmp' = [tmp EXCEPT ![t] = Tail(@)]
    /\ UNCHANGED <<obj, held, count, lock, waiters, readers, cvwaiters, flag, resume, phase>>
Wake(t, s) == tmp' = [tmp EXCEPT ![t] = s]

-----------------------------------------------------------------------------
(* Mutexes *)

\* The critical section: "cs" for a mutex, "check" for a condition.
Inside == IF obj = "cv" THEN "check" ELSE "cs"
MutexUnchanged == UNCHANGED <<obj, count, readers, cvwaiters, flag, phase>>

\* mutex_lock and mutex_try_lock: the fast path.
MutexLock(t) ==
    /\ obj \in {"mutex", "cv"} /\ (At(t, "idle") \/ At(t, "relock"))
    /\ IF held = FREE THEN held' = HELD /\ Go(t, Inside) ELSE Go(t, "slow") /\ UNCHANGED held
    /\ UNCHANGED <<lock, waiters, tmp, resume>> /\ MutexUnchanged
MutexTryLock(t) ==
    /\ obj = "mutex" /\ At(t, "idle") /\ held = FREE /\ held' = HELD /\ Go(t, Inside)
    /\ UNCHANGED <<lock, waiters, tmp, resume>> /\ MutexUnchanged
\* __mutex_lock: the flag is set in one step with the test.
MutexLockSlow(t) ==
    /\ At(t, "slow") /\ "m" \notin lock
    /\ IF held = FREE
       THEN /\ held' = FLAG /\ lock' = lock \cup {"m"} /\ Go(t, "take")
            /\ UNCHANGED <<waiters, resume>>
       ELSE /\ held' = (held % 2) + FLAG /\ waiters' = Append(waiters, t) /\ Park(t, Inside)
            /\ UNCHANGED lock
    /\ UNCHANGED tmp /\ MutexUnchanged
MutexTake(t) ==
    /\ At(t, "take") /\ held' = HELD /\ lock' = lock \ {"m"} /\ Go(t, Inside)
    /\ UNCHANGED <<waiters, tmp, resume>> /\ MutexUnchanged

\* mutex_unlock and __mutex_unlock: a waiter is handed the mutex as it is.
Unlocked(t, then) ==
    \/ held = HELD /\ held' = FREE /\ Go(t, then) /\ UNCHANGED <<waiters, tmp>>
    \/ /\ held # HELD /\ "m" \notin lock /\ waiters = <<>>
       /\ held' = FREE /\ Go(t, then) /\ UNCHANGED <<waiters, tmp>>
    \/ /\ held # HELD /\ "m" \notin lock /\ waiters # <<>>
       /\ waiters' = Tail(waiters) /\ Wake(t, <<Head(waiters)>>) /\ Go(t, then)
       /\ UNCHANGED held
\* Mutant: the mutex is free although it was handed over.
MutexUnlock_Frees(t) ==
    /\ obj \in {"mutex", "cv"} /\ At(t, "cs")
    /\ waiters' = IF waiters = <<>> THEN waiters ELSE Tail(waiters)
    /\ Wake(t, IF waiters = <<>> THEN <<>> ELSE <<Head(waiters)>>)
    /\ held' = FREE /\ Go(t, "idle")
    /\ UNCHANGED <<lock, resume>> /\ MutexUnchanged
MutexUnlock(t) ==
    /\ obj \in {"mutex", "cv"} /\ At(t, "cs") /\ Unlocked(t, "idle")
    /\ UNCHANGED <<lock, resume>> /\ MutexUnchanged

-----------------------------------------------------------------------------
(* Condition variables: consumers wait for the flag, producers set it *)

\* A thread in the critical section consumes, produces or waits.
Consume(t) ==
    /\ obj = "cv" /\ At(t, "check") /\ flag /\ flag' = FALSE /\ Go(t, "cs")
    /\ UNCHANGED <<obj, held, count, lock, waiters, readers, cvwaiters, tmp, resume, phase>>
Produce(t) ==
    /\ obj = "cv" /\ At(t, "check") /\ ~flag /\ phase[t] < MaxPhase
    /\ flag' = TRUE /\ phase' = [phase EXCEPT ![t] = @ + 1] /\ Go(t, "signal")
    /\ UNCHANGED <<obj, held, count, lock, waiters, readers, cvwaiters, tmp, resume>>
\* condvar_wait: the lock of the list is taken before the mutex is released.
CondvarWait(t) ==
    /\ obj = "cv" /\ At(t, "check") /\ ~flag /\ "cv" \notin lock
    /\ lock' = lock \cup {"cv"} /\ Go(t, "wait")
    /\ UNCHANGED <<obj, held, count, waiters, readers, cvwaiters, flag, tmp, resume, phase>>
CondvarUnlock(t) ==
    /\ At(t, "wait") /\ Unlocked(t, "sleep")
    /\ UNCHANGED <<obj, count, lock, readers, cvwaiters, flag, resume, phase>>
CondvarPark(t) ==
    /\ At(t, "sleep") /\ lock' = lock \ {"cv"} /\ Park(t, "relock")
    /\ cvwaiters' = Append(cvwaiters, t)
    /\ UNCHANGED <<obj, held, count, waiters, readers, flag, tmp, phase>>
CondvarSignal(t) ==
    /\ At(t, "signal") /\ "cv" \notin lock /\ Go(t, "cs")
    /\ IF cvwaiters = <<>> THEN UNCHANGED <<cvwaiters, tmp>>
       ELSE Wake(t, <<Head(cvwaiters)>>) /\ cvwaiters' = Tail(cvwaiters)
    /\ UNCHANGED <<obj, held, count, lock, waiters, readers, flag, resume, phase>>
CondvarBroadcast(t) ==
    /\ At(t, "signal") /\ "cv" \notin lock /\ Go(t, "cs")
    /\ Wake(t, cvwaiters) /\ cvwaiters' = <<>>
    /\ UNCHANGED <<obj, held, count, lock, waiters, readers, flag, resume, phase>>

-----------------------------------------------------------------------------
(* Reader-writer mutexes *)

RwUnchanged == UNCHANGED <<obj, held, lock, cvwaiters, flag, phase>>
RwmutexRdlock(t) ==
    /\ obj = "rw" /\ At(t, "idle")
    /\ IF count >= 0
       THEN count' = count + 1 /\ Go(t, "reading") /\ UNCHANGED <<readers, resume>>
       ELSE readers' = Append(readers, t) /\ Park(t, "reading") /\ UNCHANGED count
    /\ UNCHANGED <<waiters, tmp>> /\ RwUnchanged
RwmutexWrlock(t) ==
    /\ obj = "rw" /\ At(t, "idle")
    /\ IF count = 0
       THEN count' = -1 /\ Go(t, "writing") /\ UNCHANGED <<waiters, resume>>
       ELSE waiters' = Append(waiters, t) /\ Park(t, "writing") /\ UNCHANGED count
    /\ UNCHANGED <<readers, tmp>> /\ RwUnchanged
RwmutexTry(t) ==
    /\ obj = "rw" /\ At(t, "idle")
    /\ \/ count >= 0 /\ count' = count + 1 /\ Go(t, "reading")
       \/ count = 0 /\ count' = -1 /\ Go(t, "writing")
    /\ UNCHANGED <<waiters, readers, tmp, resume>> /\ RwUnchanged
\* All waiting readers first, then one writer.
RwmutexUnlock(t) ==
    /\ obj = "rw" /\ (At(t, "reading") \/ At(t, "writing")) /\ Go(t, "idle")
    /\ LET left == IF count < 0 THEN 0 ELSE count - 1
       IN \/ /\ left = 0 /\ readers # <<>>
             /\ count' = Len(readers) /\ readers' = <<>> /\ Wake(t, readers)
             /\ UNCHANGED waiters
          \/ /\ left = 0 /\ readers = <<>> /\ waiters # <<>>
             /\ count' = -1 /\ waiters' = Tail(waiters) /\ Wake(t, <<Head(waiters)>>)
             /\ UNCHANGED readers
          \/ /\ left > 0 \/ (readers = <<>> /\ waiters = <<>>)
             /\ count' = left /\ UNCHANGED <<readers, waiters, tmp>>
    /\ UNCHANGED resume /\ RwUnchanged

-----------------------------------------------------------------------------
(* Wait groups and barriers *)

GroupUnchanged == UNCHANGED <<obj, held, lock, readers, cvwaiters, flag>>
\* waitgroup_done, once per thread, up to the count of the group.
WaitgroupDone(t) ==
    /\ obj = "wg" /\ At(t, "idle") /\ phase[t] = 0 /\ count > 0
    /\ count' = count - 1 /\ phase' = [phase EXCEPT ![t] = 1] /\ Go(t, "idle")
    /\ IF count = 1 THEN Wake(t, waiters) /\ waiters' = <<>> ELSE UNCHANGED <<tmp, waiters>>
    /\ UNCHANGED resume /\ GroupUnchanged
WaitgroupWait(t) ==
    /\ obj = "wg" /\ At(t, "idle")
    /\ IF count = 0 THEN Go(t, "waited") /\ UNCHANGED <<waiters, resume>>
       ELSE waiters' = Append(waiters, t) /\ Park(t, "waited")
    /\ UNCHANGED <<count, tmp, phase>> /\ GroupUnchanged

\* barrier_wait: the last one wakes the others.
BarrierWait(t) ==
    /\ obj = "barrier" /\ At(t, "idle") /\ phase[t] < MaxPhase
    /\ phase' = [phase EXCEPT ![t] = @ + 1]
    /\ IF count + 1 >= Cardinality(Th)
       THEN /\ count' = 0 /\ Wake(t, waiters) /\ waiters' = <<>> /\ Go(t, "idle")
            /\ UNCHANGED resume
       ELSE /\ count' = count + 1 /\ waiters' = Append(waiters, t) /\ Park(t, "idle")
            /\ UNCHANGED tmp
    /\ GroupUnchanged

\* The entry points of the pthread shim.
PthreadMutex(t) == MutexLock(t) \/ MutexTryLock(t) \/ MutexUnlock(t)
PthreadCond(t) == CondvarWait(t) \/ CondvarSignal(t) \/ CondvarBroadcast(t)
PthreadRwlock(t) == RwmutexRdlock(t) \/ RwmutexWrlock(t) \/ RwmutexTry(t) \/ RwmutexUnlock(t)
PthreadBarrier(t) == BarrierWait(t)

Next ==
    \E t \in Th :
        \/ PthreadMutex(t) \/ PthreadCond(t) \/ PthreadRwlock(t) \/ PthreadBarrier(t)
        \/ MutexLockSlow(t) \/ MutexTake(t) \/ CondvarUnlock(t) \/ CondvarPark(t)
        \/ Consume(t) \/ Produce(t) \/ WaitgroupDone(t) \/ WaitgroupWait(t) \/ ReadyOne(t)

Spec == Init /\ [][Next]_vars

-----------------------------------------------------------------------------
(* Properties *)

In(S) == {t \in Th : pc[t] \in S}
Taken == UNION {{tmp[t][i] : i \in 1 .. Len(tmp[t])} : t \in Th}
\* Who has been given what: those woken but not running yet are included.
Given(place) == In({place}) \cup {t \in Taken : pc[t] = "parked" /\ resume[t] = place}
Owners == In({"cs", "check", "signal", "wait"})
            \cup {t \in Taken : pc[t] = "parked" /\ resume[t] = Inside}

\* Locks exclude: the mutex has one owner, held says so, and a waiter is never
\* missed by the owner's fast path; the count of a rwmutex is its readers or its
\* writer; a barrier lets nobody get a round ahead.
LocksExclude ==
    CASE obj \in {"mutex", "cv"} ->
            /\ Cardinality(Owners) <= 1
            /\ (Owners # {}) = (held % 2 = 1)
            /\ held = HELD => waiters = <<>>
      [] obj = "rw" ->
            /\ count = -1 => Cardinality(Given("writing")) = 1 /\ Given("reading") = {}
            /\ count >= 0 => Cardinality(Given("reading")) = count /\ Given("writing") = {}
      [] obj = "barrier" ->
            \A t, u \in Th : pc[t] = "idle" => phase[u] >= phase[t]
      [] obj = "wg" -> In({"waited"}) # {} => count = 0

\* Nobody is left behind in a list: whoever waits, waits for something that is
\* still to happen, and is in one list only.
NoneStranded ==
    /\ \A t \in Th : pc[t] = "parked" =>
          Cardinality({<<0, i>> : i \in {i \in 1 .. Len(waiters) : waiters[i] = t}}
             \cup {<<1, i>> : i \in {i \in 1 .. Len(readers) : readers[i] = t}}
             \cup {<<2, i>> : i \in {i \in 1 .. Len(cvwaiters) : cvwaiters[i] = t}}
             \cup {<<3, u>> : u \in {u \in Th : \E i \in 1 .. Len(tmp[u]) : tmp[u][i] = t}}) = 1
    /\ CASE obj \in {"mutex", "cv"} -> waiters # <<>> => Owners # {}
         [] obj \in {"rw", "barrier"} -> waiters # <<>> \/ readers # <<>> => count # 0
         [] obj = "wg" -> waiters # <<>> => count > 0
    /\ obj = "cv" /\ flag /\ cvwaiters # <<>> =>
          \E t \in Th : \/ pc[t] \in {"signal", "relock", "slow", "take", "check"}
                        \/ pc[t] = "parked" /\ (t \in Taken \/ resume[t] = "check")
SyncSound == LocksExclude /\ NoneStranded
=============================================================================
