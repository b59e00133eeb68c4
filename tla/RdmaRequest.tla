---------------------------- MODULE RdmaRequest ----------------------------
(***************************************************************************)
(* A request on an NVMe/RDMA queue: registered, sent, answered, perhaps    *)
(* invalidated, and ended.  The adapter completes work requests in its own *)
(* time: the response may be seen before the completion of the SEND that   *)
(* asked for it.  The requests of a torn down queue are cancelled.         *)
(***************************************************************************)
EXTENDS Integers, FiniteSets

CONSTANTS
    Req,
    Kind,           \* Kind[r]: how nvme_rdma_map_data maps it: null, inline, single, fr
    MR,             \* memory regions of the queue's pool
    MaxErrors,      \* bound: work requests that fail
    MaxStarts       \* bound: times a request is started

None == "none"
ASSUME RegionAssumption == None \notin MR

VARIABLES
    st,             \* idle, started, ended (nvme_end_request), failed
    ref,            \* req->ref
    mr,             \* req->mr
    pool,           \* qp->rdma_mrs
    valid,          \* regions the remote side can access
    wr,             \* wr[r]: posted work requests: "send", "inv"
    answer,         \* the target's response: none, owed, plain, invalidated
    queue,          \* live, recovering (error recovery is queued), drained
    ends,           \* times r has been ended since it was started
    errors, starts

hca == <<valid, wr, answer>>
vars == <<st, ref, mr, pool, hca, queue, ends, errors, starts>>

Init ==
    /\ st = [r \in Req |-> "idle"] /\ ref = [r \in Req |-> 0]
    /\ mr = [r \in Req |-> None] /\ pool = MR /\ valid = {}
    /\ wr = [r \in Req |-> {}] /\ answer = [r \in Req |-> "none"]
    /\ queue = "live" /\ ends = [r \in Req |-> 0]
    /\ errors = 0 /\ starts = [r \in Req |-> 0]

\* nvme_rdma_error_recovery: the first one counts.
Recover == queue' = IF queue = "live" THEN "recovering" ELSE queue
Error == errors < MaxErrors /\ errors' = errors + 1 /\ Recover

\* refcount_dec_and_test(&req->ref), and nvme_end_request if that was the last.
DecAndEnd(r) ==
    /\ ref' = [ref EXCEPT ![r] = @ - 1]
    /\ st' = [st EXCEPT ![r] = IF ref[r] = 1 THEN "ended" ELSE @]
    /\ ends' = [ends EXCEPT ![r] = IF ref[r] = 1 THEN @ + 1 ELSE @]

-----------------------------------------------------------------------------
(* nvme_rdma_queue_rq *)

\* nvme_rdma_map_data, then the registration and the SEND in one post.  The
\* pool has a region for every request of the queue.
QueueRq(r) ==
    /\ st[r] = "idle" /\ queue = "live" /\ starts[r] < MaxStarts
    /\ starts' = [starts EXCEPT ![r] = @ + 1]
    /\ st' = [st EXCEPT ![r] = "started"] /\ ref' = [ref EXCEPT ![r] = 2]
    /\ ends' = [ends EXCEPT ![r] = 0]
    /\ wr' = [wr EXCEPT ![r] = {"send"}]
    /\ IF Kind[r] = "fr"
       THEN \E m \in pool : /\ mr' = [mr EXCEPT ![r] = m] /\ pool' = pool \ {m}
                            /\ valid' = valid \cup {m}
       ELSE UNCHANGED <<mr, pool, valid>>
    /\ answer' = [answer EXCEPT ![r] = "owed"]
    /\ UNCHANGED <<queue, errors>>

\* Mapping or posting fails: what was mapped is undone and the region goes
\* back; the block layer retries the request or fails it.
QueueRqFails(r) ==
    /\ st[r] = "idle" /\ queue = "live" /\ starts[r] < MaxStarts
    /\ starts' = [starts EXCEPT ![r] = @ + 1]
    /\ st' \in {st, [st EXCEPT ![r] = "failed"]}
    /\ ref' = [ref EXCEPT ![r] = 2]
    /\ UNCHANGED <<mr, pool, hca, queue, ends, errors>>

-----------------------------------------------------------------------------
(* The adapter and the target (external) *)

\* The target has executed the command; it may invalidate the region it was
\* given together with the response.
Respond(r) ==
    /\ queue # "drained" /\ answer[r] = "owed"
    /\ \/ answer' = [answer EXCEPT ![r] = "plain"] /\ UNCHANGED valid
       \/ /\ mr[r] # None /\ mr[r] \in valid
          /\ answer' = [answer EXCEPT ![r] = "invalidated"] /\ valid' = valid \ {mr[r]}
    /\ UNCHANGED <<st, ref, mr, pool, wr, queue, ends, errors, starts>>

-----------------------------------------------------------------------------
(* Completions *)

SendDone(r) ==
    /\ "send" \in wr[r] /\ queue # "drained"
    /\ wr' = [wr EXCEPT ![r] = @ \ {"send"}]
    /\ \/ DecAndEnd(r) /\ UNCHANGED <<queue, errors>>
       \/ Error /\ UNCHANGED <<st, ref, ends>>
    /\ UNCHANGED <<mr, pool, valid, answer, starts>>

\* Mutant: the response of a request that waits for its invalidation also
\* counts.
RecvDone_Falls(r) ==
    /\ answer[r] \in {"plain", "invalidated"} /\ queue # "drained"
    /\ answer' = [answer EXCEPT ![r] = "none"]
    /\ wr' = IF answer[r] = "plain" /\ mr[r] # None
             THEN [wr EXCEPT ![r] = @ \cup {"inv"}] ELSE wr
    /\ DecAndEnd(r)
    /\ UNCHANGED <<mr, pool, valid, queue, errors, starts>>
\* nvme_rdma_recv_done and nvme_rdma_process_nvme_rsp: a region the target has
\* not invalidated is invalidated here, and that completion ends the request.
RecvDone(r) ==
    /\ answer[r] \in {"plain", "invalidated"} /\ queue # "drained"
    /\ answer' = [answer EXCEPT ![r] = "none"]
    /\ \/ /\ answer[r] = "invalidated" \/ mr[r] = None
          /\ DecAndEnd(r) /\ UNCHANGED <<wr, queue, errors>>
       \/ /\ answer[r] = "plain" /\ mr[r] # None
          /\ \/ wr' = [wr EXCEPT ![r] = @ \cup {"inv"}] /\ UNCHANGED <<queue, errors>>
             \/ Error /\ UNCHANGED wr
          /\ UNCHANGED <<st, ref, ends>>
    /\ UNCHANGED <<mr, pool, valid, starts>>

\* nvme_rdma_inv_rkey_done
InvRkeyDone(r) ==
    /\ "inv" \in wr[r] /\ queue # "drained"
    /\ wr' = [wr EXCEPT ![r] = @ \ {"inv"}]
    /\ \/ DecAndEnd(r) /\ valid' = valid \ {mr[r]} /\ UNCHANGED <<queue, errors>>
       \/ Error /\ UNCHANGED <<st, ref, ends, valid>>
    /\ UNCHANGED <<mr, pool, answer, starts>>

\* nvme_rdma_memreg_done reports only failures, as does a broken connection.
WrError ==
    /\ queue = "live" /\ Error
    /\ UNCHANGED <<st, ref, mr, pool, hca, ends, starts>>

\* nvme_rdma_complete_rq: the region goes back and the data is unmapped.
CompleteRq(r) ==
    /\ st[r] = "ended"
    /\ st' = [st EXCEPT ![r] = "idle"]
    /\ pool' = IF mr[r] # None THEN pool \cup {mr[r]} ELSE pool
    /\ mr' = [mr EXCEPT ![r] = None]
    /\ UNCHANGED <<ref, hca, queue, ends, errors, starts>>

-----------------------------------------------------------------------------
(* The part of a teardown a queue sees *)

\* nvme_rdma_stop_queue, after nvme_stop_queues: disconnect and drain, every
\* posted work request is flushed and what the target sends is dropped.
StopQueue ==
    /\ queue = "recovering"
    /\ queue' = "drained"
    /\ wr' = [r \in Req |-> {}] /\ answer' = [r \in Req |-> "none"]
    /\ UNCHANGED <<st, ref, mr, pool, valid, ends, errors, starts>>

\* nvme_cancel_request for what is started and not yet ended.
CancelRequest(r) ==
    /\ queue = "drained" /\ st[r] = "started"
    /\ st' = [st EXCEPT ![r] = "ended"] /\ ends' = [ends EXCEPT ![r] = @ + 1]
    /\ UNCHANGED <<ref, mr, pool, hca, queue, errors, starts>>

\* blk_mq_tagset_wait_completed_request, then the queue is destroyed, its pool
\* with it, and made again.
Reconnect ==
    /\ queue = "drained" /\ \A r \in Req : st[r] \notin {"started", "ended"}
    /\ queue' = "live" /\ pool' = MR /\ valid' = {}
    /\ UNCHANGED <<st, ref, mr, wr, answer, ends, errors, starts>>

Next ==
    \/ \E r \in Req : QueueRq(r) \/ QueueRqFails(r) \/ Respond(r) \/ SendDone(r)
                        \/ RecvDone(r) \/ InvRkeyDone(r) \/ CompleteRq(r) \/ CancelRequest(r)
    \/ WrError \/ StopQueue \/ Reconnect

Spec == Init /\ [][Next]_vars

-----------------------------------------------------------------------------
(* Properties *)

TypeOK ==
    /\ st \in [Req -> {"idle", "started", "ended", "failed"}] /\ ref \in [Req -> 0 .. 2]
    /\ mr \in [Req -> MR \cup {None}] /\ pool \subseteq MR /\ valid \subseteq MR
    /\ queue \in {"live", "recovering", "drained"}

\* "send and recv completions" (nvme_rdma_map_data): a request ends once, and
\* only when the adapter and the target are done with its memory: none of its
\* work requests is posted and its region cannot be accessed any more, unless
\* the queue pair is dead.  Regions in the pool are invalid likewise.
EndsWhenUnused ==
    /\ \A r \in Req : ends[r] <= 1
    /\ queue # "drained"
          => /\ \A r \in Req : st[r] # "started" => wr[r] = {} /\ mr[r] \notin valid
             /\ pool \cap valid = {}
=============================================================================
