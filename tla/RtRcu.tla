-------------------------------- MODULE RtRcu --------------------------------
(***************************************************************************)
(* Read-copy-update in the Caladan runtime: each kthread counts how often  *)
(* it enters and leaves its scheduler, odd while a uthread runs.  A worker *)
(* takes the list of objects to be freed, reads the counter of every       *)
(* kthread and frees the objects once each counter is even or has changed. *)
(* The counters are read one by one while the kthreads run on, and         *)
(* kthreads may still be attaching.                                        *)
(***************************************************************************)
EXTENDS Integers, FiniteSets

CONSTANTS
    maxks,          \* kthreads of the runtime
    Obj, NoObj,     \* objects behind one protected pointer
    Width           \* a generation counter wraps at this (2^32)

ks == 1 .. maxks
VARIABLES nrks, gen, reading, ptr, state, pc, head, last, i

rcuVars == <<nrks, gen, reading, ptr, state, pc, head, last, i>>
kvars == <<nrks, gen, reading>>
wvars == <<pc, head, last, i>>

RcuInit ==
    /\ nrks = 1 /\ gen = [k \in ks |-> 0] /\ reading = [k \in ks |-> NoObj]
    /\ \E o \in Obj : ptr = o /\ state = [p \in Obj |-> IF p = o THEN "live" ELSE "free"]
    /\ pc = "idle" /\ head = {} /\ last = [k \in ks |-> 0] /\ i = 1

-----------------------------------------------------------------------------
\* kthread_init_thread
AttachKthread ==
    /\ nrks < maxks /\ nrks' = nrks + 1
    /\ UNCHANGED <<gen, reading, ptr, state>> /\ UNCHANGED wvars
\* Into a uthread and back to the scheduler; not in a read section, where
\* preemption is off.
Switch(k) ==
    /\ k <= nrks /\ reading[k] = NoObj /\ gen' = [gen EXCEPT ![k] = (@ + 1) % Width]
    /\ UNCHANGED <<nrks, reading, ptr, state>> /\ UNCHANGED wvars

\* rcu_read_lock, rcu_dereference and rcu_read_unlock, by a uthread of k.
ReadLock(k) ==
    /\ k <= nrks /\ gen[k] % 2 = 1 /\ reading[k] = NoObj
    /\ reading' = [reading EXCEPT ![k] = ptr]
    /\ UNCHANGED <<nrks, gen, ptr, state>> /\ UNCHANGED wvars
ReadUnlock(k) ==
    /\ reading[k] # NoObj /\ reading' = [reading EXCEPT ![k] = NoObj]
    /\ UNCHANGED <<nrks, gen, ptr, state>> /\ UNCHANGED wvars

\* A new object is published; the old one goes to rcu_free, or its owner waits in
\* synchronize_rcu.
Replace(how) ==
    /\ \E o \in Obj : /\ state[o] = "free" /\ ptr' = o
                      /\ state' = [state EXCEPT ![ptr] = how, ![o] = "live"]
    /\ UNCHANGED kvars /\ UNCHANGED wvars
RcuFree == Replace("queued")
SynchronizeRcu == Replace("syncing")
\* The owner was woken by synchronize_rcu_finish, and frees the object itself.
OwnerFrees(o) ==
    /\ state[o] = "woken" /\ state' = [state EXCEPT ![o] = "free"]
    /\ UNCHANGED <<ptr>> /\ UNCHANGED kvars /\ UNCHANGED wvars

-----------------------------------------------------------------------------
(* rcu_worker *)

WorkerTake ==
    /\ pc = "idle" /\ head' = {o \in Obj : state[o] \in {"queued", "syncing"}} /\ head' # {}
    /\ pc' = "read" /\ i' = 1
    /\ UNCHANGED <<ptr, state, last>> /\ UNCHANGED kvars
WorkerRead ==
    /\ pc = "read"
    /\ IF i <= nrks THEN last' = [last EXCEPT ![i] = gen[i]] /\ i' = i + 1 /\ UNCHANGED pc
       ELSE pc' = "check" /\ i' = 1 /\ UNCHANGED last
    /\ UNCHANGED <<ptr, state, head>> /\ UNCHANGED kvars

\* Can kthread k still be where it was when its counter was read?
\* Mutant: the parity is not looked at the right way round.
Same_Even(k) == gen[k] % 2 = 0 /\ gen[k] = last[k]
Same(k) == gen[k] % 2 = 1 /\ gen[k] = last[k]
\* A kthread that attached after the counters were read is compared with whatever
\* the worker's stack holds, or with an older reading.
WorkerCheck ==
    /\ pc = "check" /\ i <= nrks
    /\ IF Same(i) THEN i' = 1 ELSE i' = i + 1
    /\ UNCHANGED <<ptr, state, pc, head, last>> /\ UNCHANGED kvars
WorkerEnd ==
    /\ pc = "check" /\ i > nrks
    /\ IF i - 1 # maxks THEN i' = 1 /\ UNCHANGED <<state, pc, head, last>>
       ELSE /\ state' = [o \in Obj |-> CASE o \in head /\ state[o] = "queued" -> "free"
                                         [] o \in head /\ state[o] = "syncing" -> "woken"
                                         [] OTHER -> state[o]]
            /\ head' = {} /\ pc' = "idle" /\ i' = 1 /\ UNCHANGED last
    /\ UNCHANGED ptr /\ UNCHANGED kvars

RcuNext ==
    \/ AttachKthread \/ RcuFree \/ SynchronizeRcu \/ \E o \in Obj : OwnerFrees(o)
    \/ \E k \in ks : Switch(k) \/ ReadLock(k) \/ ReadUnlock(k)
    \/ WorkerTake \/ WorkerRead \/ WorkerCheck \/ WorkerEnd

RcuSpec == RcuInit /\ [][RcuNext]_rcuVars

-----------------------------------------------------------------------------
\* No reader holds an object that was freed, or that synchronize_rcu said could be:
\* rcu_worker looks at one kthread after the other, without stopping them.
NoReaderOfFreed ==
    \A k \in ks : reading[k] # NoObj => state[reading[k]] \in {"live", "queued", "syncing"}
=============================================================================
