----------------------------- MODULE BlkRequest -----------------------------
(***************************************************************************)
(* The life of the requests of one queue in blk-mq.c: allocation, start,   *)
(* completion, requeue and freeing by reference count; the timeout work    *)
(* that looks at the same requests from another CPU; and freezing, which   *)
(* waits for the usage counter of the queue to reach zero.                 *)
(*                                                                         *)
(* A request is named by its tag: freeing it and allocating it again gives *)
(* the same name a new generation.  percpu_ref, the timer and the tag      *)
(* bitmap are outside src/; they appear as a counter, a flag and a set.    *)
(***************************************************************************)
EXTENDS Naturals, FiniteSets

CONSTANTS
    Req,            \* the tags
    Freezer,        \* callers of blk_mq_freeze_queue
    MaxAlloc,       \* bound: allocations
    MaxFreezes,     \* bound: freezes of one caller
    MaxTries        \* bound: retries and timer resets the driver grants one request

VARIABLES
    phase,      \* who has the request
    state,      \* rq->state
    ref,        \* rq->ref
    timed_out,  \* RQF_TIMED_OUT
    expired,    \* jiffies is past rq->deadline
    tries,      \* retries and timer resets in this generation
    gen,        \* history: which allocation the request stands for
    allocs,     \* allocations so far
    tags,       \* the bits set in hctx->tags
    usage,      \* q_usage_counter without its initial reference
    entered,    \* callers between blk_queue_enter and blk_queue_exit
    armed,      \* q->timeout is pending
    tw,         \* blk_mq_timeout_work: place, request, generation, locals
    depth,      \* q->mq_freeze_depth
    dead,       \* percpu_ref_kill was called, percpu_ref_resurrect not yet
    fz, freezes \* the freezers: place and count

rqVars == <<phase, state, ref, timed_out, expired, tries, gen, tags>>
fzVars == <<depth, dead, fz, freezes>>
vars == <<rqVars, allocs, usage, entered, armed, tw, fzVars>>

Phase == {"free", "queued", "hw", "done", "ended", "requeue", "orphan"}
NoTw == [pc |-> "idle", rq |-> {}, gen |-> 0, left |-> {}, next |-> FALSE]

Init ==
    /\ phase = [r \in Req |-> "free"] /\ state = [r \in Req |-> "idle"]
    /\ ref = [r \in Req |-> 0] /\ timed_out = [r \in Req |-> FALSE]
    /\ expired = [r \in Req |-> FALSE] /\ tries = [r \in Req |-> 0]
    /\ gen = [r \in Req |-> 0] /\ tags = {}
    /\ allocs = 0 /\ usage = 0 /\ entered = 0 /\ armed = FALSE /\ tw = NoTw
    /\ depth = 0 /\ dead = FALSE
    /\ fz = [f \in Freezer |-> "run"] /\ freezes = [f \in Freezer |-> 0]

-----------------------------------------------------------------------------
(* Submission, completion and freeing *)

Set(f, r, v) == [f EXCEPT ![r] = v]

\* blk_queue_enter: waits while the queue is frozen or freezing.
QueueEnter ==
    /\ ~dead /\ entered = 0 /\ allocs < MaxAlloc
    /\ entered' = entered + 1 /\ usage' = usage + 1
    /\ UNCHANGED <<allocs, rqVars, armed, tw, fzVars>>

\* blk_mq_get_request and blk_mq_rq_ctx_init: blk_queue_enter_live for the
\* request, the tag, ref = 1; then the caller leaves the queue.
GetRequest(r) ==
    /\ entered > 0 /\ r \notin tags
    /\ entered' = entered - 1 /\ usage' = (usage + 1) - 1
    /\ tags' = tags \cup {r} /\ ref' = Set(ref, r, 1)
    /\ allocs' = allocs + 1 /\ gen' = Set(gen, r, allocs + 1) /\ tries' = Set(tries, r, 0)
    /\ phase' = Set(phase, r, "queued")
    /\ timed_out' = Set(timed_out, r, FALSE)
    /\ UNCHANGED <<state, expired, armed, tw, fzVars>>

\* No tag and BLK_MQ_REQ_NOWAIT: both references to the queue are dropped.
GetRequestFails ==
    /\ entered > 0
    /\ entered' = entered - 1 /\ usage' = usage - 1
    /\ UNCHANGED <<allocs, rqVars, armed, tw, fzVars>>

\* blk_mq_start_request, called by the driver's queue_rq: the timer is armed
\* (blk_add_timer), then the request is in flight.
StartRequest(r) ==
    /\ phase[r] = "queued"
    /\ phase' = Set(phase, r, "hw") /\ state' = Set(state, r, "in_flight")
    /\ expired' = Set(expired, r, FALSE) /\ timed_out' = Set(timed_out, r, FALSE)
    /\ armed' = TRUE
    /\ UNCHANGED <<allocs, ref, tries, gen, tags, usage, entered, tw, fzVars>>

Expire(r) ==
    /\ state[r] = "in_flight" /\ ~expired[r]
    /\ expired' = Set(expired, r, TRUE)
    /\ UNCHANGED <<allocs, phase, state, ref, timed_out, tries, gen, tags, usage,
                   entered, armed, tw, fzVars>>

\* __blk_mq_complete_request: the state first, then q->mq_ops->complete on
\* this CPU, by softirq or by IPI.
CompleteRequest(r) ==
    /\ phase[r] = "hw"
    /\ phase' = Set(phase, r, "done") /\ state' = Set(state, r, "complete")
    /\ UNCHANGED <<allocs, ref, timed_out, expired, tries, gen, tags, usage, entered,
                   armed, tw, fzVars>>

\* The driver's complete callback requeues: blk_mq_requeue_request.
RequeueRequest(r) ==
    /\ phase[r] = "done" /\ tries[r] < MaxTries
    /\ tries' = Set(tries, r, tries[r] + 1)
    /\ phase' = Set(phase, r, "requeue")
    /\ state' = Set(state, r, "idle") /\ timed_out' = Set(timed_out, r, FALSE)
    /\ UNCHANGED <<allocs, ref, expired, gen, tags, usage, entered, armed, tw, fzVars>>

\* blk_mq_requeue_work: the whole list goes back to the queues.
RequeueWork ==
    /\ \E r \in Req : phase[r] = "requeue"
    /\ phase' = [r \in Req |-> IF phase[r] = "requeue" THEN "queued" ELSE phase[r]]
    /\ UNCHANGED <<allocs, state, ref, timed_out, expired, tries, gen, tags, usage,
                   entered, armed, tw, fzVars>>

\* blk_mq_end_request, from the complete callback or for a request the
\* driver refused, up to the write of the state in blk_mq_free_request.
EndRequest(r) ==
    /\ phase[r] \in {"done", "queued"}
    /\ phase' = Set(phase, r, "ended") /\ state' = Set(state, r, "idle")
    /\ UNCHANGED <<allocs, ref, timed_out, expired, tries, gen, tags, usage, entered,
                   armed, tw, fzVars>>

\* refcount_dec_and_test and, for the last reference, __blk_mq_free_request:
\* the tag is given back and the queue is left.
DropRef(r, otherwise) ==
    /\ ref' = Set(ref, r, ref[r] - 1)
    /\ \/ /\ ref[r] = 1
          /\ tags' = tags \ {r} /\ usage' = usage - 1
          /\ phase' = Set(phase, r, "free")
       \/ /\ ref[r] # 1
          /\ phase' = Set(phase, r, otherwise)
          /\ UNCHANGED <<tags, usage>>

\* The rest of blk_mq_free_request.
FreeRequest(r) ==
    /\ phase[r] = "ended"
    /\ DropRef(r, "orphan")
    /\ UNCHANGED <<allocs, state, timed_out, expired, tries, gen, entered, armed, tw,
                   fzVars>>

-----------------------------------------------------------------------------
(* blk_mq_timeout_work *)

\* The work enters the queue like a submitter.
TimeoutWork_Enter ==
    /\ armed /\ tw.pc = "idle" /\ ~dead
    /\ armed' = FALSE /\ usage' = usage + 1
    /\ tw' = [NoTw EXCEPT !.pc = "iter", !.left = Req]
    /\ UNCHANGED <<allocs, rqVars, entered, fzVars>>

\* The timer fires and the work runs.  The counter is only taken if it is
\* not zero: the work must run while a freeze waits for the requests.
TimeoutWork ==
    /\ armed /\ tw.pc = "idle"
    /\ armed' = FALSE
    /\ \/ /\ usage > 0
          /\ usage' = usage + 1
          /\ tw' = [NoTw EXCEPT !.pc = "iter", !.left = Req]
       \/ /\ usage = 0
          /\ UNCHANGED <<usage, tw>>
    /\ UNCHANGED <<allocs, rqVars, entered, fzVars>>

\* blk_mq_req_expired: in flight, not yet handled, past its deadline.
ReqExpired(r) == state[r] = "in_flight" /\ ~timed_out[r] /\ expired[r]
\* ... and otherwise the deadline counts for the next timer.
ReqNext(r) == state[r] = "in_flight" /\ ~timed_out[r] /\ ~expired[r]

\* blk_mq_check_expired, the quick check without a reference.
CheckExpired(r) ==
    /\ tw.pc = "iter" /\ r \in tw.left
    /\ \/ /\ r \in tags /\ ReqExpired(r)
          /\ tw' = [tw EXCEPT !.pc = "lock", !.rq = {r}, !.left = @ \ {r}]
       \/ /\ ~(r \in tags /\ ReqExpired(r))
          /\ tw' = [tw EXCEPT !.left = @ \ {r},
                              !.next = @ \/ (r \in tags /\ ReqNext(r))]
    /\ UNCHANGED <<allocs, rqVars, usage, entered, armed, fzVars>>

\* refcount_inc, without the test for zero.
LockRequest_NoTest(r) ==
    /\ tw.pc = "lock" /\ r \in tw.rq
    /\ ref' = Set(ref, r, ref[r] + 1)
    /\ tw' = [tw EXCEPT !.pc = "verify", !.gen = gen[r]]
    /\ UNCHANGED <<allocs, phase, state, timed_out, expired, tries, gen, tags, usage,
                   entered, armed, fzVars>>

\* refcount_inc_not_zero.
LockRequest(r) ==
    /\ tw.pc = "lock" /\ r \in tw.rq
    /\ \/ /\ ref[r] > 0
          /\ ref' = Set(ref, r, ref[r] + 1)
          /\ tw' = [tw EXCEPT !.pc = "verify", !.gen = gen[r]]
       \/ /\ ref[r] = 0
          /\ tw' = [tw EXCEPT !.pc = "iter", !.rq = {}]
          /\ UNCHANGED ref
    /\ UNCHANGED <<allocs, phase, state, timed_out, expired, tries, gen, tags, usage,
                   entered, armed, fzVars>>

\* The request is now pinned: check again, and mark it (blk_mq_rq_timed_out).
VerifyExpired(r) ==
    /\ tw.pc = "verify" /\ r \in tw.rq
    /\ \/ /\ ReqExpired(r)
          /\ timed_out' = Set(timed_out, r, TRUE)
          /\ tw' = [tw EXCEPT !.pc = "handle"]
       \/ /\ ~ReqExpired(r)
          /\ tw' = [tw EXCEPT !.pc = "put", !.next = @ \/ ReqNext(r)]
          /\ UNCHANGED timed_out
    /\ UNCHANGED <<allocs, phase, state, ref, expired, tries, gen, tags, usage, entered,
                   armed, fzVars>>

\* The driver's timeout callback completes the request if the hardware has
\* not (BLK_EH_DONE), or asks for more time: blk_add_timer.
HandleDone(r) ==
    /\ tw.pc = "handle" /\ r \in tw.rq
    /\ \/ /\ phase[r] = "hw"
          /\ phase' = Set(phase, r, "done") /\ state' = Set(state, r, "complete")
       \/ phase[r] # "hw" /\ UNCHANGED <<phase, state>>
    /\ tw' = [tw EXCEPT !.pc = "put"]
    /\ UNCHANGED <<allocs, ref, timed_out, expired, tries, gen, tags, usage, entered,
                   armed, fzVars>>

HandleReset(r) ==
    /\ tw.pc = "handle" /\ r \in tw.rq /\ tries[r] < MaxTries
    /\ tries' = Set(tries, r, tries[r] + 1)
    /\ expired' = Set(expired, r, FALSE) /\ timed_out' = Set(timed_out, r, FALSE)
    /\ armed' = TRUE
    /\ tw' = [tw EXCEPT !.pc = "put"]
    /\ UNCHANGED <<allocs, phase, state, ref, gen, tags, usage, entered, fzVars>>

\* The end of blk_mq_check_expired: the last reference frees the request.
PutRequest(r) ==
    /\ tw.pc = "put" /\ r \in tw.rq
    /\ DropRef(r, phase[r])
    /\ tw' = [tw EXCEPT !.pc = "iter", !.rq = {}]
    /\ UNCHANGED <<allocs, state, timed_out, expired, tries, gen, entered, armed, fzVars>>

\* After the last tag: the timer for the next deadline, if there is one.
TimeoutDone ==
    /\ tw.pc = "iter" /\ tw.left = {}
    /\ armed' = (armed \/ tw.next)
    /\ usage' = usage - 1 /\ tw' = NoTw
    /\ UNCHANGED <<allocs, rqVars, entered, fzVars>>

-----------------------------------------------------------------------------
(* Freezing *)

\* blk_freeze_queue_start, under mq_freeze_lock: the first freezer kills the
\* counter.
FreezeStart(f) ==
    /\ fz[f] = "run" /\ freezes[f] < MaxFreezes
    /\ depth' = depth + 1
    /\ dead' = (dead \/ depth = 0)
    /\ fz' = Set(fz, f, "wait") /\ freezes' = Set(freezes, f, freezes[f] + 1)
    /\ UNCHANGED <<allocs, rqVars, usage, entered, armed, tw>>

\* blk_mq_freeze_queue_wait.
FreezeWait(f) ==
    /\ fz[f] = "wait" /\ dead /\ usage = 0
    /\ fz' = Set(fz, f, "frozen")
    /\ UNCHANGED <<allocs, rqVars, usage, entered, armed, tw, depth, dead, freezes>>

\* Every unfreeze resurrects the counter.
Unfreeze_Always(f) ==
    /\ fz[f] = "frozen"
    /\ depth' = depth - 1 /\ dead' = FALSE
    /\ fz' = Set(fz, f, "run")
    /\ UNCHANGED <<allocs, rqVars, usage, entered, armed, tw, freezes>>

\* blk_mq_unfreeze_queue: the last one resurrects the counter.
Unfreeze(f) ==
    /\ fz[f] = "frozen"
    /\ depth' = depth - 1
    /\ dead' = (dead /\ depth > 1)
    /\ fz' = Set(fz, f, "run")
    /\ UNCHANGED <<allocs, rqVars, usage, entered, armed, tw, freezes>>

-----------------------------------------------------------------------------
Work == TimeoutWork \/ TimeoutDone
WorkOn(r) ==
    \/ CheckExpired(r) \/ LockRequest(r) \/ VerifyExpired(r) \/ HandleDone(r)
    \/ PutRequest(r)

Next ==
    \/ QueueEnter \/ GetRequestFails \/ RequeueWork \/ Work
    \/ \E r \in Req :
          \/ GetRequest(r) \/ StartRequest(r) \/ Expire(r) \/ CompleteRequest(r)
          \/ RequeueRequest(r) \/ EndRequest(r) \/ FreeRequest(r)
          \/ WorkOn(r) \/ HandleReset(r)
    \/ \E f \in Freezer : FreezeStart(f) \/ FreezeWait(f) \/ Unfreeze(f)

Spec == Init /\ [][Next]_vars

\* The kernel goes on with what it has begun and runs its work items and
\* timers; a driver's timeout handler is not asked for ever again (MaxTries).
\* Nothing makes the hardware complete a request, or a caller submit one.
Fairness ==
    /\ WF_vars(Work) /\ WF_vars(RequeueWork) /\ WF_vars(GetRequestFails)
    /\ \A r \in Req :
          /\ WF_vars(WorkOn(r)) /\ WF_vars(GetRequest(r)) /\ WF_vars(StartRequest(r))
          /\ WF_vars(Expire(r)) /\ WF_vars(EndRequest(r) /\ phase[r] = "done")
          /\ WF_vars(FreeRequest(r))
    /\ \A f \in Freezer : WF_vars(FreezeWait(f)) /\ WF_vars(Unfreeze(f))

FairSpec == Spec /\ Fairness

-----------------------------------------------------------------------------
(* Properties *)

TypeOK ==
    /\ phase \in [Req -> Phase]
    /\ state \in [Req -> {"idle", "in_flight", "complete"}]
    /\ ref \in [Req -> 0 .. 2] /\ gen \in [Req -> Nat] /\ allocs \in Nat /\ tries \in [Req -> Nat]
    /\ timed_out \in [Req -> BOOLEAN] /\ expired \in [Req -> BOOLEAN]
    /\ tags \subseteq Req /\ armed \in BOOLEAN /\ dead \in BOOLEAN
    /\ usage \in Nat /\ entered \in {0, 1} /\ depth \in Nat
    /\ tw \in [pc : {"idle", "iter", "lock", "verify", "handle", "put"},
               rq : {{}} \cup {{r} : r \in Req}, gen : Nat, left : SUBSET Req,
               next : BOOLEAN]
    /\ fz \in [Freezer -> {"run", "wait", "frozen"}] /\ freezes \in [Freezer -> Nat]

Holding == tw.pc \in {"verify", "handle", "put"}

\* While the timeout work holds its reference, the request it looks at stays
\* the one it took: not freed, not allocated anew ("it's not reallocated
\* during its timeout handling", blk_mq_check_expired).
PinnedWhileHandled ==
    Holding => \A r \in tw.rq : r \in tags /\ gen[r] = tw.gen /\ ref[r] > 0

\* blk_mq_freeze_queue returns with no request in use, none being submitted
\* and no timeout work running, and that stays so until it is unfrozen,
\* however many callers freeze and unfreeze.
FrozenIsEmpty ==
    (\E f \in Freezer : fz[f] = "frozen") =>
        dead /\ tags = {} /\ entered = 0 /\ tw.pc = "idle"

\* A freeze ends even if the hardware loses every request: the timeout work
\* still runs, since it takes the counter without waiting for the freeze.
FreezeCompletes == \A f \in Freezer : fz[f] = "wait" ~> fz[f] = "frozen"

=============================================================================
