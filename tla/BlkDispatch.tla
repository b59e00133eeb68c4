---------------------------- MODULE BlkDispatch ----------------------------
(***************************************************************************)
(* Dispatching the requests of one hardware queue in blk-mq.c: insertion,  *)
(* plugging and direct issue; the runs of the queue (run_work and the      *)
(* inline runs of submitters), which take requests from the lists to the   *)
(* driver and put back what it refuses; waiting for a driver tag; stopping *)
(* and quiescing.                                                          *)
(*                                                                         *)
(* A queue is not polled: a request left on a list is dispatched only if   *)
(* somebody runs the queue again, so every path that leaves one behind     *)
(* must make sure of that.  blk_mq_sched_dispatch_requests, sched_restart  *)
(* and the sbitmap are outside src/.  dispatch_busy, which only chooses    *)
(* between taking one request and taking all, is a free choice.            *)
(***************************************************************************)
EXTENDS Naturals, FiniteSets

CONSTANTS
    Req,        \* requests
    NrTags,     \* driver tags
    Elevator,   \* an I/O scheduler is attached: a driver tag is taken late
    Shared,     \* BLK_MQ_F_TAG_SHARED: another queue takes tags too
    Results,    \* what queue_rq may return besides "ok"
    MaxRefused, \* bound: refusals of the driver
    MaxPauses   \* bound: stops, quiesces, dying CPUs, tags taken elsewhere

ASSUME DispatchAssumption ==
    /\ NrTags \in Nat \ {0} /\ MaxRefused \in Nat /\ MaxPauses \in Nat
    /\ Elevator \in BOOLEAN /\ Shared \in BOOLEAN

VARIABLES
    where,      \* the list or the owner of each request
    tagged,     \* requests with a driver tag
    foreign,    \* driver tags of the other queue
    woken,      \* tags given back whose waiters are still to be woken
    restart,    \* BLK_MQ_S_SCHED_RESTART
    waiting,    \* hctx->dispatch_wait is on the tag wait queue
    pend,       \* runs asked for: of run_work (also delayed), and inline
    run,        \* the runs: place, private list, last result of queue_rq
    issue,      \* the request in __blk_mq_try_issue_directly past its checks
    stopped, quiesced,
    quiescer,   \* place of the caller of blk_mq_quiesce_queue
    readers,    \* read-side sections it waits for
    refused, pauses

vars == <<where, tagged, foreign, woken, restart, waiting, pend, run, issue,
          stopped, quiesced, quiescer, readers, refused, pauses>>
tagVars == <<tagged, foreign, woken, waiting>>
pauseVars == <<stopped, quiesced, quiescer, readers, pauses>>

Runner == {"work", "sync"}
Idle == [pc |-> "idle", list |-> {}, rq |-> {}, ret |-> "ok", no_tag |-> FALSE,
         more |-> FALSE]

Init ==
    /\ where = [r \in Req |-> "new"] /\ tagged = {} /\ foreign = 0 /\ woken = 0
    /\ restart = FALSE /\ waiting = FALSE
    /\ pend = [w \in Runner |-> FALSE] /\ run = [w \in Runner |-> Idle]
    /\ issue = {} /\ stopped = FALSE /\ quiesced = FALSE
    /\ quiescer = "run" /\ readers = {} /\ refused = 0 /\ pauses = 0

-----------------------------------------------------------------------------
On(place) == {r \in Req : where[r] = place}
Move(S, place) == [r \in Req |-> IF r \in S THEN place ELSE where[r]]

\* blk_mq_hctx_has_pending, once where' is known.
HasPending == \E r \in Req : where'[r] \in {"ctx", "dispatch"}

\* blk_mq_run_hw_queue and __blk_mq_delay_run_hw_queue: nothing happens if
\* the queue is quiesced, has nothing pending or is stopped.
RunHwQueue(w) ==
    pend' = [pend EXCEPT ![w] = @ \/ (~quiesced /\ HasPending /\ ~stopped)]

FreeTag == Cardinality(tagged) + foreign < NrTags
HasTag(r) == ~Elevator \/ r \in tagged
Woken(S) == IF Shared THEN woken + Cardinality(tagged \cap S) ELSE woken

-----------------------------------------------------------------------------
(* Submission *)

\* blk_mq_make_request: with a plug the request waits in it, with an elevator
\* (or a busy queue) it is inserted and the queue is run, asynchronously.
Insert(r) ==
    /\ where[r] = "new"
    /\ where' = Move({r}, "ctx")
    /\ RunHwQueue("work")
    /\ UNCHANGED <<tagVars, restart, run, issue, pauseVars, refused>>

Plug(r) ==
    /\ where[r] = "new"
    /\ where' = Move({r}, "plug")
    /\ UNCHANGED <<tagVars, restart, pend, run, issue, pauseVars, refused>>

\* blk_mq_flush_plug_list: everything in the plug is inserted and the queue
\* run, inline or (from the scheduler) asynchronously.
FlushPlugList ==
    /\ On("plug") # {}
    /\ where' = Move(On("plug"), "ctx")
    /\ \E w \in Runner : RunHwQueue(w)
    /\ UNCHANGED <<tagVars, restart, run, issue, pauseVars, refused>>

\* __blk_mq_try_issue_directly, up to the call of the driver.  A stopped or
\* quiesced queue keeps the request on its dispatch list without a run; so
\* does an elevator, with one.  blk_mq_try_issue_list_directly does the same
\* for the requests of a plug.
TryIssueDirectly(r) ==
    /\ issue = {}
    /\ where[r] = "new" \/ (where[r] = "plug" /\ ~Elevator)
    /\ \/ /\ stopped \/ quiesced
          /\ where' = Move({r}, "dispatch")
          /\ UNCHANGED <<pend, issue>>
       \/ /\ ~(stopped \/ quiesced) /\ Elevator
          /\ where' = Move({r}, "dispatch")
          /\ RunHwQueue("sync")
          /\ UNCHANGED issue
       \/ /\ ~(stopped \/ quiesced) /\ ~Elevator
          /\ where' = Move({r}, IF where[r] = "new" THEN "issue" ELSE "listed")
          /\ issue' = {r}
          /\ UNCHANGED pend
    /\ UNCHANGED <<tagVars, restart, run, pauseVars, refused>>

\* The driver accepts a request, or refuses it for want of something.
\* BLK_STS_DEV_RESOURCE promises that a request in flight will free it.
Accept(r, place) == where' = Move({r}, place) /\ UNCHANGED refused
Refuse(ret) ==
    /\ ret \in Results /\ refused < MaxRefused
    /\ ret = "dev_resource" => On("drv") # {}
    /\ refused' = refused + 1

\* __blk_mq_issue_directly: a busy driver sends the request to the dispatch
\* list and the queue is run (for a plug, once the rest is inserted too); on an
\* error it ends.
IssueDirectly(r) ==
    /\ r \in issue /\ issue' = {}
    /\ \/ /\ Accept(r, "drv")
          /\ UNCHANGED pend
       \/ /\ Refuse("resource") \/ Refuse("dev_resource")
          /\ where' = [q \in Req |->
                          IF q = r THEN "dispatch"
                          ELSE IF where[r] = "listed" /\ where[q] = "plug" THEN "ctx"
                          ELSE where[q]]
          /\ RunHwQueue("sync")
       \/ /\ Refuse("error")
          /\ where' = Move({r}, "put")
          /\ UNCHANGED pend
    /\ UNCHANGED <<tagVars, restart, run, pauseVars>>

-----------------------------------------------------------------------------
(* A run of the queue *)

Step(w, rec) == run' = [run EXCEPT ![w] = rec]

\* blk_mq_run_work_fn / __blk_mq_run_hw_queue: the dispatch list first, with
\* SCHED_RESTART marked; without one the requests of the software queues.
RunStart(w) ==
    /\ pend[w] /\ run[w].pc = "idle"
    /\ pend' = [pend EXCEPT ![w] = FALSE]
    /\ \/ /\ stopped \/ quiesced
          /\ UNCHANGED <<where, run, restart>>
       \/ /\ ~(stopped \/ quiesced) /\ On("dispatch") # {}
          /\ Step(w, [Idle EXCEPT !.pc = "tag", !.list = On("dispatch"), !.more = TRUE])
          /\ where' = Move(On("dispatch"), "list")
          /\ restart' = TRUE
       \/ /\ ~(stopped \/ quiesced) /\ On("dispatch") = {}
          /\ Step(w, [Idle EXCEPT !.pc = "pull", !.more = Elevator])
          /\ UNCHANGED <<where, restart>>
    /\ UNCHANGED <<tagVars, issue, pauseVars, refused>>

\* blk_mq_flush_busy_ctxs takes all; blk_mq_dequeue_from_ctx and the
\* scheduler one at a time.
RunPull(w) ==
    /\ run[w].pc = "pull"
    /\ \/ /\ On("ctx") = {}
          /\ Step(w, Idle)
          /\ UNCHANGED where
       \/ \E S \in {On("ctx")} \cup {{r} : r \in On("ctx")} :
             /\ S # {} /\ (run[w].more => Cardinality(S) = 1)
             /\ Step(w, [run[w] EXCEPT !.pc = "tag", !.list = S,
                                       !.more = @ \/ S # On("ctx")])
             /\ where' = Move(S, "list")
    /\ UNCHANGED <<tagVars, restart, pend, issue, pauseVars, refused>>

\* blk_mq_get_driver_tag for the first request of the list; the one for which
\* a tag was taken ahead comes first.
RunTag(w) ==
    /\ run[w].pc = "tag"
    /\ \E r \in run[w].list :
          /\ run[w].list \cap tagged # {} => r \in tagged
          /\ \/ /\ HasTag(r)
                /\ Step(w, [run[w] EXCEPT !.pc = "queue", !.rq = {r}])
                /\ UNCHANGED tagged
             \/ /\ ~HasTag(r) /\ FreeTag
                /\ Step(w, [run[w] EXCEPT !.pc = "queue", !.rq = {r}])
                /\ tagged' = tagged \cup {r}
             \/ /\ ~HasTag(r) /\ ~FreeTag
                /\ Step(w, [run[w] EXCEPT !.pc = "mark", !.rq = {r}])
                /\ UNCHANGED tagged
    /\ UNCHANGED <<where, foreign, woken, waiting, restart, pend, issue, pauseVars,
                   refused>>

\* blk_mq_mark_tag_wait: mark first, ...
RunMark(w) ==
    /\ run[w].pc = "mark"
    /\ \/ /\ ~Shared /\ restart' = TRUE
          /\ Step(w, [run[w] EXCEPT !.pc = "retry"])
          /\ UNCHANGED waiting
       \/ /\ Shared /\ ~waiting /\ waiting' = TRUE
          /\ Step(w, [run[w] EXCEPT !.pc = "retry"])
          /\ UNCHANGED restart
       \/ /\ Shared /\ waiting
          /\ Step(w, [run[w] EXCEPT !.pc = "splice", !.no_tag = TRUE])
          /\ UNCHANGED <<restart, waiting>>
    /\ UNCHANGED <<where, tagged, foreign, woken, pend, issue, pauseVars, refused>>

\* ... then try again: a tag may have been freed in between.
RunRetry(w) ==
    /\ run[w].pc = "retry"
    /\ \E r \in run[w].rq :
          \/ /\ FreeTag /\ tagged' = tagged \cup {r}
             /\ waiting' = FALSE
             /\ Step(w, [run[w] EXCEPT !.pc = "queue"])
          \/ /\ ~FreeTag
             /\ Step(w, [run[w] EXCEPT !.pc = "splice", !.no_tag = Shared])
             /\ UNCHANGED <<tagged, waiting>>
    /\ UNCHANGED <<where, foreign, woken, restart, pend, issue, pauseVars, refused>>

\* queue_rq.  Before it, a tag is tried for the next request; a refusal gives
\* both tags back (without a restart) and ends the loop.
RunQueue(w) ==
    /\ run[w].pc = "queue"
    /\ \E r \in run[w].rq :
       LET rest == run[w].list \ {r}
           after == IF rest = {} THEN "end" ELSE "tag"
       IN
       \/ /\ Accept(r, "drv")
          /\ Step(w, [run[w] EXCEPT !.pc = after, !.list = rest, !.rq = {}, !.ret = "ok"])
          /\ \/ rest # {} /\ Elevator /\ FreeTag /\ rest \cap tagged = {}
                /\ \E nxt \in rest : tagged' = tagged \cup {nxt}
             \/ (rest = {} \/ ~Elevator \/ ~FreeTag) /\ UNCHANGED tagged
             \/ rest \cap tagged # {} /\ UNCHANGED tagged
          /\ UNCHANGED woken
       \/ \E ret \in {"resource", "dev_resource"} :
             /\ Refuse(ret)
             /\ Step(w, [run[w] EXCEPT !.pc = "splice", !.rq = {}, !.ret = ret])
             /\ tagged' = tagged \ run[w].list
             /\ woken' = Woken(run[w].list)
             /\ UNCHANGED where
       \/ /\ Refuse("error")
          /\ where' = Move({r}, "put")
          /\ Step(w, [run[w] EXCEPT !.pc = after, !.list = rest, !.rq = {}, !.ret = "error"])
          /\ UNCHANGED <<tagged, woken>>
    /\ UNCHANGED <<foreign, waiting, restart, pend, issue, pauseVars>>

\* What is left goes to hctx->dispatch, ...
RunSplice(w) ==
    /\ run[w].pc = "splice"
    /\ where' = Move(run[w].list, "dispatch")
    /\ Step(w, [run[w] EXCEPT !.pc = "check", !.list = {}, !.rq = {}])
    /\ UNCHANGED <<tagVars, restart, pend, issue, pauseVars, refused>>

\* Mutant: a cleared restart bit is not taken for a missed run.
RunCheck_Trusting(w) ==
    /\ run[w].pc = "check" /\ UNCHANGED where
    /\ \/ /\ run[w].no_tag /\ ~waiting
          /\ RunHwQueue("work")
       \/ /\ ~(run[w].no_tag /\ ~waiting) /\ run[w].ret = "resource" /\ ~stopped
          /\ pend' = [pend EXCEPT !["work"] = TRUE]
       \/ /\ ~(run[w].no_tag /\ ~waiting) /\ (run[w].ret # "resource" \/ stopped)
          /\ UNCHANGED pend
    /\ Step(w, Idle)
    /\ UNCHANGED <<tagVars, restart, issue, pauseVars, refused>>

\* ... and then: run the queue again if the restart bit was cleared or the
\* tag waiter was woken meanwhile, and after a delay for BLK_STS_RESOURCE.
RunCheck(w) ==
    /\ run[w].pc = "check" /\ UNCHANGED where
    /\ \/ /\ ~restart \/ (run[w].no_tag /\ ~waiting)
          /\ RunHwQueue("work")
       \/ /\ restart /\ ~(run[w].no_tag /\ ~waiting) /\ run[w].ret = "resource"
          /\ pend' = [pend EXCEPT !["work"] = @ \/ ~stopped]
       \/ /\ restart /\ ~(run[w].no_tag /\ ~waiting) /\ run[w].ret # "resource"
          /\ UNCHANGED pend
    /\ Step(w, Idle)
    /\ UNCHANGED <<tagVars, restart, issue, pauseVars, refused>>

\* The whole list went to the driver: more requests, one by one.
RunEnd(w) ==
    /\ run[w].pc = "end"
    /\ Step(w, IF run[w].more THEN [Idle EXCEPT !.pc = "pull", !.more = TRUE] ELSE Idle)
    /\ UNCHANGED <<where, tagVars, restart, pend, issue, pauseVars, refused>>

-----------------------------------------------------------------------------
(* Completion *)

\* The hardware is done: __blk_mq_free_request gives the tag back, ...
PutTag(r) ==
    /\ where[r] \in {"drv", "put"}
    /\ where' = Move({r}, "restart")
    /\ tagged' = tagged \ {r}
    /\ woken' = Woken({r})
    /\ UNCHANGED <<foreign, waiting, restart, pend, run, issue, pauseVars, refused>>

\* ... and blk_mq_sched_restart runs the queue if the bit is set.
SchedRestart(r) ==
    /\ where[r] = "restart"
    /\ where' = Move({r}, "done")
    /\ \/ restart /\ restart' = FALSE /\ RunHwQueue("work")
       \/ ~restart /\ UNCHANGED <<restart, pend>>
    /\ UNCHANGED <<tagVars, run, issue, pauseVars, refused>>

\* sbq_wake_up and blk_mq_dispatch_wake.
DispatchWake ==
    /\ woken > 0 /\ woken' = woken - 1
    /\ \/ waiting /\ waiting' = FALSE /\ UNCHANGED where /\ RunHwQueue("work")
       \/ ~waiting /\ UNCHANGED <<where, waiting, pend>>
    /\ UNCHANGED <<tagged, foreign, restart, run, issue, pauseVars, refused>>

\* blk_mq_hctx_notify_dead: the CPU of a software queue goes away and its
\* requests move to the dispatch list of the hardware queue.
HctxNotifyDead ==
    /\ On("ctx") # {} /\ pauses < MaxPauses /\ pauses' = pauses + 1
    /\ where' = Move(On("ctx"), "dispatch")
    /\ RunHwQueue("work")
    /\ UNCHANGED <<tagVars, restart, run, issue, stopped, quiesced, quiescer,
                   readers, refused>>

\* Another queue of the tag set.
ForeignGet ==
    /\ Shared /\ FreeTag /\ foreign = 0 /\ pauses < MaxPauses
    /\ foreign' = 1 /\ pauses' = pauses + 1
    /\ UNCHANGED <<where, tagged, woken, waiting, restart, pend, run, issue,
                   stopped, quiesced, quiescer, readers, refused>>

ForeignPut ==
    /\ foreign > 0 /\ foreign' = foreign - 1 /\ woken' = woken + 1
    /\ UNCHANGED <<where, tagged, waiting, restart, pend, run, issue, pauseVars,
                   refused>>

-----------------------------------------------------------------------------
(* Stopping and quiescing *)

\* blk_mq_stop_hw_queue, from the driver: the pending run_work is cancelled.
StopHwQueue ==
    /\ ~stopped /\ pauses < MaxPauses
    /\ stopped' = TRUE /\ pauses' = pauses + 1
    /\ pend' = [pend EXCEPT !["work"] = FALSE]
    /\ UNCHANGED <<where, tagVars, restart, run, issue, quiesced, quiescer,
                   readers, refused>>

\* blk_mq_start_hw_queue / blk_mq_start_stopped_hw_queue.
StartHwQueue ==
    /\ stopped /\ stopped' = FALSE /\ UNCHANGED where
    /\ pend' = [pend EXCEPT !["sync"] = @ \/ (~quiesced /\ HasPending)]
    /\ UNCHANGED <<tagVars, restart, run, issue, quiesced, quiescer, readers,
                   pauses, refused>>

Running == {w \in Runner : run[w].pc # "idle"} \cup (IF issue = {} THEN {} ELSE {"issue"})

\* Mutant: without the RCU grace period.
QuiesceQueue_NoWait ==
    /\ quiescer = "run" /\ pauses < MaxPauses
    /\ quiesced' = TRUE /\ quiescer' = "sync" /\ readers' = {}
    /\ pauses' = pauses + 1
    /\ UNCHANGED <<where, tagVars, restart, pend, run, issue, stopped, refused>>

\* blk_mq_quiesce_queue: the flag, then a grace period for the runs and the
\* direct issues in progress.
QuiesceQueue ==
    /\ quiescer = "run" /\ pauses < MaxPauses
    /\ quiesced' = TRUE /\ quiescer' = "sync" /\ readers' = Running
    /\ pauses' = pauses + 1
    /\ UNCHANGED <<where, tagVars, restart, pend, run, issue, stopped, refused>>

\* The sections it found have ended; those begun since then see the flag.
Synchronize ==
    /\ quiescer = "sync"
    /\ readers \cap Running = {}
    /\ quiescer' = "quiet" /\ readers' = {}
    /\ UNCHANGED <<where, tagVars, restart, pend, run, issue, stopped, quiesced,
                   pauses, refused>>

\* blk_mq_unquiesce_queue.
UnquiesceQueue ==
    /\ quiescer = "quiet"
    /\ quiesced' = FALSE /\ quiescer' = "run" /\ UNCHANGED where
    /\ pend' = [pend EXCEPT !["work"] = @ \/ (HasPending /\ ~stopped)]
    /\ UNCHANGED <<tagVars, restart, run, issue, stopped, readers, pauses, refused>>

-----------------------------------------------------------------------------
RunStep(w) ==
    \/ RunStart(w) \/ RunPull(w) \/ RunTag(w) \/ RunMark(w) \/ RunRetry(w)
    \/ RunQueue(w) \/ RunSplice(w) \/ RunCheck(w) \/ RunEnd(w)

Next ==
    \/ \E r \in Req :
          \/ Insert(r) \/ Plug(r) \/ TryIssueDirectly(r) \/ IssueDirectly(r)
          \/ PutTag(r) \/ SchedRestart(r)
    \/ FlushPlugList \/ HctxNotifyDead \/ DispatchWake \/ ForeignGet \/ ForeignPut
    \/ \E w \in Runner : RunStep(w)
    \/ StopHwQueue \/ StartHwQueue
    \/ QuiesceQueue \/ Synchronize \/ UnquiesceQueue

Spec == Init /\ [][Next]_vars

-----------------------------------------------------------------------------
(* Properties *)

TypeOK ==
    /\ where \in [Req -> {"new", "plug", "ctx", "dispatch", "list", "issue",
                          "listed", "drv", "put", "restart", "done"}]
    /\ tagged \subseteq Req /\ Cardinality(tagged) + foreign <= NrTags
    /\ woken \in Nat /\ foreign \in {0, 1} /\ refused \in 0 .. MaxRefused
    /\ {restart, waiting, stopped, quiesced} \subseteq BOOLEAN
    /\ pend \in [Runner -> BOOLEAN] /\ issue \subseteq Req
    /\ \A w \in Runner :
          /\ run[w].pc \in {"idle", "pull", "tag", "mark", "retry", "queue",
                            "splice", "check", "end"}
          /\ run[w].list \subseteq On("list")
    /\ quiescer \in {"run", "sync", "quiet"}

\* Nobody will run the queue any more: no run is under way or asked for, no
\* request is in the driver or being completed, no tag waiter is to be woken.
NobodyRuns ==
    /\ \A w \in Runner : ~pend[w] /\ run[w].pc = "idle"
    /\ \A r \in Req : where[r] \in {"new", "ctx", "dispatch", "done"}
    /\ foreign = 0 /\ woken = 0 /\ issue = {} /\ ~stopped /\ quiescer = "run"

\* Every path that leaves a request on a list (no tag, a busy driver, a stopped
\* or quiesced queue, a run that found nothing) makes sure of another run:
\* when nothing is left that would start one, the lists are empty.
NoStall == NobodyRuns => \A r \in Req : where[r] \notin {"ctx", "dispatch"}

\* "Once this function is returned, we make sure no dispatch can happen until
\* the queue is unquiesced" (blk_mq_quiesce_queue).
QuiesceBlocks ==
    [][quiescer = "quiet" => On("drv")' \subseteq On("drv")]_vars
=============================================================================
