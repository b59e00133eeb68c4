------------------------------ MODULE RdmaConn ------------------------------
(***************************************************************************)
(* How an NVMe/RDMA queue gets and loses its connection: alloc_queue waits *)
(* for a chain of connection-manager events, each handled on the manager's *)
(* own thread, and may give up at any point of it.  Queues on the same     *)
(* RDMA device share one reference-counted nvme_rdma_device.               *)
(*                                                                         *)
(* A caller and a handler are programs: sequences of the calls they still  *)
(* have to make.                                                           *)
(***************************************************************************)
EXTENDS Integers, Sequences, FiniteSets

CONSTANTS
    Queues,         \* the queues of a controller
    Dev,            \* nvme_rdma_device objects, bounded
    MaxAttempts     \* bound: calls of alloc_queue per queue

NoDev == "none"

ASSUME ConnAssumption == IsFiniteSet(Queues) /\ NoDev \notin Dev /\ MaxAttempts \in Nat

VARIABLES
    caller,         \* program of alloc_queue or free_queue
    handler,        \* program of nvme_rdma_cm_handler
    cm,             \* what the manager works on: addr, route, connect; up; or idle
    cm_error,       \* queue->cm_error: "timedout", "ok", "err"
    done,           \* cm_done is complete
    id,             \* the cm_id exists
    ready,          \* NVME_RDMA_Q_TR_READY
    allocated,      \* NVME_RDMA_Q_ALLOCATED
    ib,             \* the queue's qp, cq, response ring and MR pool exist
    dev,            \* the device the queue holds a reference to
    refs, list,     \* reference counts; device_list
    fault,          \* history: something was released that did not exist
    attempts

conn == <<cm, cm_error, done, id>>
device == <<refs, list>>
connVars == <<caller, handler, conn, ready, allocated, ib, dev, device, fault, attempts>>

ConnInit ==
    /\ caller = [q \in Queues |-> <<>>] /\ handler = caller
    /\ cm = [q \in Queues |-> "idle"] /\ cm_error = [q \in Queues |-> "ok"]
    /\ done = [q \in Queues |-> FALSE] /\ id = done /\ ready = done /\ allocated = done
    /\ ib = done /\ dev = [q \in Queues |-> NoDev]
    /\ refs = [d \in Dev |-> 0] /\ list = {} /\ fault = FALSE
    /\ attempts = [q \in Queues |-> 0]

\* The two threads that run programs: t = "caller" or "handler".
Thread == {"caller", "handler"}
Prog(q, t) == IF t = "caller" THEN caller[q] ELSE handler[q]
At(q, t, op) == Prog(q, t) # <<>> /\ Head(Prog(q, t)) = op
Goto(q, t, p) ==
    IF t = "caller" THEN caller' = [caller EXCEPT ![q] = p] /\ UNCHANGED handler
                    ELSE handler' = [handler EXCEPT ![q] = p] /\ UNCHANGED caller
Proceed(q, t) == Goto(q, t, Tail(Prog(q, t)))

-----------------------------------------------------------------------------
(* The device *)

\* nvme_rdma_find_get_device, under device_list_mutex: a listed device that is
\* not about to go, or a new one, or none.
FindGetDevice(q) ==
    /\ At(q, "handler", "getDevice")
    /\ \/ \E d \in list :
             /\ refs[d] > 0
             /\ refs' = [refs EXCEPT ![d] = @ + 1] /\ dev' = [dev EXCEPT ![q] = d]
             /\ Proceed(q, "handler") /\ UNCHANGED list
       \/ /\ \A d \in list : refs[d] = 0
          /\ \E d \in Dev \ list :
                /\ refs[d] = 0
                /\ refs' = [refs EXCEPT ![d] = 1] /\ dev' = [dev EXCEPT ![q] = d]
                /\ list' = list \cup {d}
          /\ Proceed(q, "handler")
       \/ /\ \A d \in list : refs[d] = 0
          /\ Goto(q, "handler", <<"failed">>) /\ UNCHANGED <<dev, device>>
    /\ UNCHANGED <<conn, ready, allocated, ib, fault, attempts>>

\* nvme_rdma_dev_put; the last one unlinks and frees the device afterwards.
DevPut(q, t) ==
    /\ At(q, t, "put")
    /\ fault' = (fault \/ refs[dev[q]] = 0)
    /\ refs' = [refs EXCEPT ![dev[q]] = @ - 1]
    /\ \/ /\ refs[dev[q]] = 1
          /\ Goto(q, t, <<"freeDevice">> \o Tail(Prog(q, t))) /\ UNCHANGED dev
       \/ refs[dev[q]] > 1 /\ Proceed(q, t) /\ dev' = [dev EXCEPT ![q] = NoDev]
    /\ UNCHANGED <<conn, ready, allocated, ib, list, attempts>>
FreeDev(q, t) ==
    /\ At(q, t, "freeDevice")
    /\ fault' = (fault \/ refs[dev[q]] # 0)
    /\ list' = list \ {dev[q]} /\ dev' = [dev EXCEPT ![q] = NoDev]
    /\ Proceed(q, t)
    /\ UNCHANGED <<conn, ready, allocated, ib, refs, attempts>>

-----------------------------------------------------------------------------
(* The transport resources of a queue *)

\* nvme_rdma_create_queue_ib after the device: cq, qp, ring and MR pool; one
\* that fails takes back those before it and the device.
CreateQueueIb(q) ==
    /\ At(q, "handler", "createIb")
    /\ \/ /\ ib' = [ib EXCEPT ![q] = TRUE] /\ ready' = [ready EXCEPT ![q] = TRUE]
          /\ fault' = (fault \/ ib[q])
          /\ Proceed(q, "handler")
       \/ Goto(q, "handler", <<"put", "failed">>) /\ UNCHANGED <<ib, ready, fault>>
    /\ UNCHANGED <<conn, allocated, dev, device, attempts>>

\* Mutant: destroys without testing and clearing TR_READY.
DestroyQueueIb_Again(q, t) ==
    /\ At(q, t, "destroyIb")
    /\ ib' = [ib EXCEPT ![q] = FALSE] /\ fault' = (fault \/ ~ib[q])
    /\ Goto(q, t, <<"put">> \o Tail(Prog(q, t)))
    /\ UNCHANGED <<conn, ready, allocated, dev, device, attempts>>
\* nvme_rdma_destroy_queue_ib: once, whoever comes first.
DestroyQueueIb(q, t) ==
    /\ At(q, t, "destroyIb")
    /\ ready' = [ready EXCEPT ![q] = FALSE]
    /\ \/ /\ ready[q]
          /\ ib' = [ib EXCEPT ![q] = FALSE] /\ fault' = (fault \/ ~ib[q])
          /\ Goto(q, t, <<"put">> \o Tail(Prog(q, t)))
       \/ ~ready[q] /\ Proceed(q, t) /\ UNCHANGED <<ib, fault>>
    /\ UNCHANGED <<conn, allocated, dev, device, attempts>>

-----------------------------------------------------------------------------
(* nvme_rdma_cm_handler *)

\* The manager reports what became of the address, the route or the connect.
CmEvent(q) ==
    /\ handler[q] = <<>> /\ id[q]
    /\ \/ /\ cm[q] = "addr"
          /\ \E p \in {<<"getDevice", "createIb", "resolveRoute">>, <<"failed">>} :
                handler' = [handler EXCEPT ![q] = p]
       \/ /\ cm[q] = "route"
          /\ \E p \in {<<"connect">>, <<"destroyIb", "failed">>} :
                handler' = [handler EXCEPT ![q] = p]
       \/ /\ cm[q] = "connect"
          /\ \E p \in {<<"postRecv">>, <<"destroyIb", "failed">>} :
                handler' = [handler EXCEPT ![q] = p]
    /\ cm' = [cm EXCEPT ![q] = "idle"]
    /\ UNCHANGED <<caller, cm_error, done, id, ready, allocated, ib, dev, device, fault,
                   attempts>>

\* rdma_resolve_route and rdma_connect: the next event, or destroy and fail.
NextStage(q) ==
    /\ At(q, "handler", "resolveRoute") \/ At(q, "handler", "connect")
    /\ \/ /\ cm' = [cm EXCEPT ![q] = IF At(q, "handler", "connect") THEN "connect" ELSE "route"]
          /\ Proceed(q, "handler")
       \/ Goto(q, "handler", <<"destroyIb", "failed">>) /\ UNCHANGED cm
    /\ UNCHANGED <<cm_error, done, id, ready, allocated, ib, dev, device, fault, attempts>>

\* nvme_rdma_conn_established posts the receives; cm_done either way.
ConnEstablished(q) ==
    /\ At(q, "handler", "postRecv")
    /\ fault' = (fault \/ ~ib[q])
    /\ \/ /\ cm' = [cm EXCEPT ![q] = "up"] /\ cm_error' = [cm_error EXCEPT ![q] = "ok"]
          /\ done' = [done EXCEPT ![q] = TRUE]
          /\ Proceed(q, "handler")
       \/ /\ Goto(q, "handler", <<"destroyIb", "failed">>)
          /\ UNCHANGED <<cm, cm_error, done>>
    /\ UNCHANGED <<id, ready, allocated, ib, dev, device, attempts>>

CmFailed(q) ==
    /\ At(q, "handler", "failed")
    /\ cm_error' = [cm_error EXCEPT ![q] = "err"] /\ done' = [done EXCEPT ![q] = TRUE]
    /\ Proceed(q, "handler")
    /\ UNCHANGED <<cm, id, ready, allocated, ib, dev, device, fault, attempts>>

-----------------------------------------------------------------------------
(* nvme_rdma_alloc_queue and nvme_rdma_free_queue *)

AllocQueue(q) ==
    /\ caller[q] = <<>> /\ ~allocated[q] /\ attempts[q] < MaxAttempts
    /\ attempts' = [attempts EXCEPT ![q] = @ + 1]
    /\ done' = [done EXCEPT ![q] = FALSE]
    /\ \/ id' = [id EXCEPT ![q] = TRUE] /\ Goto(q, "caller", <<"resolveAddr">>)
       \/ UNCHANGED <<id, caller, handler>>
    /\ UNCHANGED <<cm, cm_error, ready, allocated, ib, dev, device, fault>>

OutDestroyCmId == <<"destroyId", "destroyIb">>
ResolveAddr(q) ==
    /\ At(q, "caller", "resolveAddr")
    /\ cm_error' = [cm_error EXCEPT ![q] = "timedout"]
    /\ \/ cm' = [cm EXCEPT ![q] = "addr"] /\ Goto(q, "caller", <<"wait">>)
       \/ Goto(q, "caller", OutDestroyCmId) /\ UNCHANGED cm
    /\ UNCHANGED <<done, id, ready, allocated, ib, dev, device, fault, attempts>>

\* nvme_rdma_wait_for_cm: the completion, a signal or the timeout.
WaitForCm(q) ==
    /\ At(q, "caller", "wait")
    /\ \/ /\ done[q] /\ cm_error[q] = "ok"
          /\ allocated' = [allocated EXCEPT ![q] = TRUE] /\ Proceed(q, "caller")
       \/ /\ ~done[q] \/ cm_error[q] # "ok"
          /\ Goto(q, "caller", OutDestroyCmId) /\ UNCHANGED allocated
    /\ UNCHANGED <<conn, ready, ib, dev, device, fault, attempts>>

\* rdma_destroy_id (external): no event after it, a running handler ends first.
DestroyId(q) ==
    /\ At(q, "caller", "destroyId") /\ handler[q] = <<>>
    /\ id' = [id EXCEPT ![q] = FALSE] /\ cm' = [cm EXCEPT ![q] = "idle"]
    /\ fault' = (fault \/ ~id[q])
    /\ Proceed(q, "caller")
    /\ UNCHANGED <<cm_error, done, ready, allocated, ib, dev, device, attempts>>

FreeQueue(q) ==
    /\ caller[q] = <<>> /\ allocated[q]
    /\ allocated' = [allocated EXCEPT ![q] = FALSE]
    /\ Goto(q, "caller", <<"destroyIb", "destroyId">>)
    /\ UNCHANGED <<conn, ready, ib, dev, device, fault, attempts>>

ConnNext ==
    \E q \in Queues :
        \/ FindGetDevice(q) \/ CreateQueueIb(q) \/ CmEvent(q) \/ NextStage(q)
        \/ ConnEstablished(q) \/ CmFailed(q) \/ AllocQueue(q) \/ ResolveAddr(q)
        \/ WaitForCm(q) \/ DestroyId(q) \/ FreeQueue(q)
        \/ \E t \in Thread : DevPut(q, t) \/ FreeDev(q, t) \/ DestroyQueueIb(q, t)

ConnSpec == ConnInit /\ [][ConnNext]_connVars

-----------------------------------------------------------------------------
(* Properties *)

\* Nothing of a queue is released twice or used after its release, although
\* handler and caller both release it; a queue that is not being set up or torn
\* down has all of its resources or none; and a device lives exactly as long as
\* queues that hold it.
ReleasedOnce ==
    /\ ~fault
    /\ \A q \in Queues :
          caller[q] = <<>> /\ handler[q] = <<>>
            => /\ ib[q] = allocated[q] /\ id[q] = allocated[q]
               /\ (dev[q] # NoDev) = allocated[q]
    /\ \A d \in Dev : refs[d] > 0 => d \in list /\ \E q \in Queues : dev[q] = d
=============================================================================
