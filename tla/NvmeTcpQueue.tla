---------------------------- MODULE NvmeTcpQueue ----------------------------
(***************************************************************************)
(* The send side of one NVMe/TCP host queue (drivers/nvme/host/tcp.c):     *)
(* submitters put requests on send_list and ring a doorbell, at once or    *)
(* delayed by an hrtimer; io_work takes the requests off, packs their PDUs *)
(* and pages into a caravan, and hands the caravan to the TCP socket.      *)
(*                                                                         *)
(* Every step below is one access to state that another context can see    *)
(* (the lock, nr_req, timer_set, the hrtimer, the work item, the socket).  *)
(* Only io_work touches the caravan, so packing a piece is one step.       *)
(***************************************************************************)
EXTENDS Naturals, FiniteSets, Sequences

CONSTANTS
    Req,              \* the requests (tags) of the queue
    Kinds,            \* the kinds of request submitted, a subset of KindSet
    MaxPages,         \* bound on the data pages of one request
    AggregationSize,  \* I10_AGGREGATION_SIZE
    CaravanCapacity,  \* I10_CARAVAN_CAPACITY, in units of length
    MaxIovs,          \* I10_MAX_AGGREGATION_SIZE * 2
    MaxMapped,        \* I10_MAX_AGGREGATION_SIZE
    PduLen, PageLen,  \* length of a PDU header (a digest too), of a data page
    SndBuf,           \* sk_sndbuf
    ShortSends,       \* skb overhead may leave room for a part of a caravan only
    Legacy,           \* i10_host_legacy_path: admin, latency or timer too short
    DataDigest,       \* queue->data_digest
    SameCpu,          \* every submitter runs on io_cpu: no request is steered here
    SendErrors        \* errors, besides -EAGAIN for lack of room, of a send

IO == "io"            \* nvme_tcp_handle_r2t calls queue_request from io_work
NULL == "NULL"        \* queue->request when there is none

KindSet == [nodelay : BOOLEAN, inline : 0 .. MaxPages, solicited : 0 .. MaxPages]

ASSUME QueueAssumption ==
    /\ IsFiniteSet(Req) /\ IO \notin Req /\ NULL \notin Req
    /\ MaxPages \in Nat /\ Kinds \subseteq KindSet
    /\ AggregationSize \in Nat \ {0}
    /\ CaravanCapacity \in Nat \ {0}
    /\ MaxIovs \in Nat \ {0} /\ MaxMapped \in Nat \ {0}
    /\ PduLen \in Nat \ {0} /\ PageLen \in Nat \ {0}
    /\ SndBuf \in Nat \ {0} /\ ShortSends \in BOOLEAN
    /\ Legacy \in BOOLEAN /\ DataDigest \in BOOLEAN /\ SameCpu \in BOOLEAN
    /\ SendErrors \subseteq {"EPIPE", "ENOMEM"}

Ctx == Req \cup {IO}

VARIABLES
    kind,           \* what each request is, fixed before it is submitted
    pc,             \* where each context is in nvme_tcp_queue_request
    r2t,            \* the request io_work is queueing again for its data
    send_list,      \* queue->send_list
    nr_req,         \* queue->nr_req
    timer_set,      \* queue->timer_set
    timer,          \* the hrtimer: "off", "armed", or a point of its callback
    timer_cpu,      \* the CPU it was started on and fires on: io_cpu or another
    work,           \* io_work is pending on the workqueue
    io,             \* where io_work is
    pending,        \* io_work's local of that name
    todo,           \* pieces of queue->request still to be packed or sent
    caravan,        \* queue->caravan_iovs[0 .. nr_iovs - 1]
    nr_mapped,      \* queue->nr_mapped
    caravan_len,    \* queue->caravan_len
    send_now,       \* queue->send_now
    nr_caravan_req, \* queue->nr_caravan_req
    sent_part,      \* of the piece at hand, the length the socket already took
    wmem,           \* sk_wmem_queued
    nospace,        \* SOCK_NOSPACE
    error,          \* the error a send returned, or "none"
    wire,           \* pieces in the order in which the socket took them
    rx,             \* PDUs from the controller not yet read
    replies,        \* PDUs the controller sent in answer to each request
    completed,      \* requests ended by a response
    failed,         \* arguments nvme_tcp_fail_request was called with
    log             \* history: pieces in the order in which they were queued

submitVars == <<kind, pc, r2t, send_list, nr_req, log>>
bellVars == <<timer_set, timer, timer_cpu, work>>
packVars == <<todo, caravan, nr_mapped, caravan_len, send_now, nr_caravan_req>>
sockVars == <<sent_part, wmem, nospace, error, wire>>
peerVars == <<rx, replies, completed>>
vars == <<submitVars, bellVars, io, pending, packVars, sockVars, peerVars, failed>>

-----------------------------------------------------------------------------
(* Requests and their pieces *)

Parts == {"cmd", "h2c", "data", "ddgst"}
Piece == Req \X Parts \X (0 .. MaxPages)
Entry == Req \X {"cmd", "h2c"}

PagesOf(e) == IF e[2] = "cmd" THEN kind[e[1]].inline ELSE kind[e[1]].solicited

\* What one pass through the states of req->state hands out, in order.
Pieces(e) ==
    <<<<e[1], e[2], 0>>>>
      \o [i \in 1 .. PagesOf(e) |-> <<e[1], "data", i>>]
      \o IF DataDigest /\ PagesOf(e) > 0 THEN <<<<e[1], "ddgst", 0>>>> ELSE <<>>

\* Neither i10_host_legacy_path nor i10_host_is_nodelay_path: tested when a
\* request is queued, and again when it is fetched.
Delayed(r) == ~Legacy /\ ~kind[r].nodelay
DelayedAtFetch_Any(r) == ~Legacy
DelayedAtFetch(r) == Delayed(r)

LenOf(p) == IF p[2] = "data" THEN PageLen ELSE PduLen

\* Sent by itself, not in a caravan.
Direct_NoDelay(p) == Legacy \/ p[2] = "ddgst" \/ kind[p[1]].nodelay
Direct(p) == Legacy \/ p[2] = "ddgst"

request == IF todo = <<>> THEN NULL ELSE Head(todo)[1]
hrtimer_active == timer # "off"
InCallback == timer \in {"cb_clear_set", "cb_ring", "cb_return"}
\* i10_host_doorbell_timeout is an interrupt: what else its CPU runs waits.
Interrupted(c) == InCallback /\ timer_cpu = "io" /\ (c = IO \/ SameCpu)
At(c, l) == pc[c] = l /\ ~Interrupted(c)
IoAt(l) == io = l /\ ~Interrupted(IO)
LockFree == \A c \in Ctx : pc[c] # "start_timer"
Elements(s) == {s[i] : i \in DOMAIN s}
EntryOf(c) == IF c = IO THEN <<r2t, "h2c">> ELSE <<c, "cmd">>

Init ==
    /\ kind \in [Req -> Kinds]
    /\ pc = [c \in Ctx |-> IF c = IO THEN "return" ELSE "enter"]
    /\ r2t = NULL
    /\ send_list = <<>> /\ nr_req = 0
    /\ timer_set = 0 /\ timer = "off" /\ timer_cpu = "io"
    /\ work = FALSE
    /\ io = "idle" /\ pending = FALSE
    /\ todo = <<>> /\ caravan = <<>> /\ nr_mapped = 0 /\ caravan_len = 0
    /\ send_now = FALSE /\ nr_caravan_req = 0
    /\ sent_part = 0 /\ wmem = 0 /\ nospace = FALSE /\ error = "none"
    /\ wire = <<>> /\ rx = <<>> /\ replies = [r \in Req |-> 0]
    /\ completed = {} /\ failed = {} /\ log = <<>>

-----------------------------------------------------------------------------
(* nvme_tcp_queue_request, run by a submitter or, for an R2T, by io_work *)

Goto(c, l) == pc' = [pc EXCEPT ![c] = l]

\* nr_req is 1 after its increment, and the timer is not active.
ArmsTimer_Second == nr_req = 1 /\ ~hrtimer_active
ArmsTimer == nr_req = 0 /\ ~hrtimer_active

\* The locked section up to hrtimer_start.  The lock stays held at
\* "start_timer"; on every other path the section ends here.
Enqueue(c) ==
    LET e == EntryOf(c)
    IN  /\ At(c, "enter") /\ LockFree
        /\ send_list' = Append(send_list, e)
        /\ log' = log \o Pieces(e)
        /\ \/ /\ Delayed(e[1])
              /\ nr_req' = nr_req + 1
              /\ timer' = IF ArmsTimer THEN "armed" ELSE timer
              /\ timer_cpu' = IF ~ArmsTimer THEN timer_cpu
                              ELSE IF c = IO \/ SameCpu THEN "io" ELSE "other"
              /\ Goto(c, IF ArmsTimer THEN "start_timer" ELSE "aggregate")
           \/ /\ ~Delayed(e[1])
              /\ Goto(c, "check_timer")
              /\ UNCHANGED <<nr_req, timer, timer_cpu>>
        /\ UNCHANGED <<kind, r2t, timer_set, work, io, pending, packVars,
                       sockVars, peerVars, failed>>

\* atomic_inc(&queue->timer_set), then the lock is dropped.  The holder of
\* the lock stays on its CPU, the one its timer may interrupt.
CountTimer(c) ==
    /\ At(c, "start_timer") /\ ~InCallback
    /\ timer_set' = timer_set + 1
    /\ Goto(c, "aggregate")
    /\ UNCHANGED <<kind, r2t, send_list, nr_req, log, timer, timer_cpu, work, io,
                   pending, packVars, sockVars, peerVars, failed>>

\* Without the lock: is the aggregation size reached?
AggregateReached_Above == nr_req > AggregationSize
AggregateReached == nr_req >= AggregationSize

CheckAggregate(c) ==
    /\ At(c, "aggregate")
    /\ Goto(c, IF AggregateReached THEN "check_timer" ELSE "return")
    /\ UNCHANGED <<kind, r2t, send_list, nr_req, log, bellVars, io, pending,
                   packVars, sockVars, peerVars, failed>>

CheckTimer(c) ==
    /\ At(c, "check_timer")
    /\ Goto(c, IF hrtimer_active THEN "cancel_timer" ELSE "clear_set")
    /\ UNCHANGED <<kind, r2t, send_list, nr_req, log, bellVars, io, pending,
                   packVars, sockVars, peerVars, failed>>

\* hrtimer_cancel waits for a callback that is running.
CancelTimer(c) ==
    /\ At(c, "cancel_timer") /\ timer \in {"off", "armed"}
    /\ timer' = "off"
    /\ Goto(c, "clear_set")
    /\ UNCHANGED <<kind, r2t, send_list, nr_req, log, timer_set, timer_cpu, work, io,
                   pending, packVars, sockVars, peerVars, failed>>

ClearTimerSet(c) ==
    /\ At(c, "clear_set")
    /\ timer_set' = 0
    /\ Goto(c, "ring")
    /\ UNCHANGED <<kind, r2t, send_list, nr_req, log, timer, timer_cpu, work, io,
                   pending, packVars, sockVars, peerVars, failed>>

RingDoorbell_Idle(c) ==
    /\ At(c, "ring")
    /\ work' = (work \/ io = "idle")
    /\ Goto(c, "return")
    /\ UNCHANGED <<kind, r2t, send_list, nr_req, log, timer_set, timer, timer_cpu, io,
                   pending, packVars, sockVars, peerVars, failed>>

RingDoorbell(c) ==
    /\ At(c, "ring")
    /\ work' = TRUE
    /\ Goto(c, "return")
    /\ UNCHANGED <<kind, r2t, send_list, nr_req, log, timer_set, timer, timer_cpu, io,
                   pending, packVars, sockVars, peerVars, failed>>

QueueRequest(c) ==
    \/ Enqueue(c) \/ CountTimer(c) \/ CheckAggregate(c) \/ CheckTimer(c)
    \/ CancelTimer(c) \/ ClearTimerSet(c) \/ RingDoorbell(c)

-----------------------------------------------------------------------------
(* i10_host_doorbell_timeout: hrtimer_active holds until it has returned.  *)

envVars == <<submitVars, timer_cpu, io, pending, packVars, sockVars, peerVars, failed>>

TimerFires ==
    /\ timer = "armed"
    /\ timer' = "cb_clear_set"
    /\ UNCHANGED <<timer_set, work, envVars>>

CallbackClearsSet ==
    /\ timer = "cb_clear_set"
    /\ timer' = "cb_ring" /\ timer_set' = 0
    /\ UNCHANGED <<work, envVars>>

CallbackRings_Armed ==
    /\ timer = "cb_ring"
    /\ timer' = "cb_return" /\ work' = (work \/ timer_set > 0)
    /\ UNCHANGED <<timer_set, envVars>>

CallbackRings ==
    /\ timer = "cb_ring"
    /\ timer' = "cb_return" /\ work' = TRUE
    /\ UNCHANGED <<timer_set, envVars>>

CallbackReturns ==
    /\ timer = "cb_return"
    /\ timer' = "off"
    /\ UNCHANGED <<timer_set, work, envVars>>

Timer == TimerFires \/ CallbackClearsSet \/ CallbackRings \/ CallbackReturns

-----------------------------------------------------------------------------
(* nvme_tcp_io_work *)

StartWork ==
    /\ IoAt("idle") /\ work
    /\ work' = FALSE
    /\ io' = "fetch" /\ pending' = FALSE
    /\ UNCHANGED <<submitVars, timer_set, timer, timer_cpu, packVars, sockVars, peerVars, failed>>

\* nvme_tcp_try_send with a request at hand goes straight on.
KeepRequest ==
    /\ IoAt("fetch") /\ todo # <<>>
    /\ io' = IF send_now THEN "send" ELSE "pack"
    /\ UNCHANGED <<submitVars, bellVars, pending, packVars, sockVars, peerVars, failed>>

FetchRequest ==
    LET e == Head(send_list)
    IN  /\ IoAt("fetch") /\ todo = <<>> /\ LockFree
        /\ send_list # <<>>
        /\ send_list' = Tail(send_list)
        /\ todo' = Pieces(e)
        /\ nr_caravan_req' = IF DelayedAtFetch(e[1]) THEN nr_caravan_req + 1
                                                     ELSE nr_caravan_req
        /\ io' = IF send_now THEN "send" ELSE "pack"
        /\ UNCHANGED <<kind, pc, r2t, nr_req, log, bellVars, pending, caravan,
                       nr_mapped, caravan_len, send_now, sockVars, peerVars, failed>>

\* The list is empty: no timer means nothing is worth waiting for.
CaravanDue == (timer_set = 0 \/ ~hrtimer_active) /\ caravan_len > 0

CloseCaravan ==
    /\ IoAt("fetch") /\ todo = <<>> /\ LockFree
    /\ send_list = <<>> /\ CaravanDue
    /\ nr_req' = nr_req - nr_caravan_req
    /\ nr_caravan_req' = 0
    /\ timer_set' = 0
    /\ send_now' = TRUE
    /\ io' = "send"
    /\ UNCHANGED <<kind, pc, r2t, send_list, log, timer, timer_cpu, work, pending, todo,
                   caravan, nr_mapped, caravan_len, sockVars, peerVars, failed>>

FetchNothing ==
    /\ IoAt("fetch") /\ todo = <<>> /\ LockFree
    /\ send_list = <<>> /\ ~CaravanDue
    /\ io' = IF caravan_len > 0 /\ send_now THEN "send" ELSE "recv"
    /\ UNCHANGED <<submitVars, bellVars, pending, packVars, sockVars, peerVars, failed>>

\* A send ended with an error other than lack of room: io_work fails
\* queue->request, unless the peer closed the connection, and returns.
SendFails(e) ==
    /\ error' = e
    /\ failed' = IF e = "EPIPE" THEN failed ELSE failed \cup {request}
    /\ todo' = <<>> /\ sent_part' = 0
    /\ io' = "idle"
    /\ UNCHANGED <<submitVars, bellVars, pending, caravan, nr_mapped, caravan_len,
                   send_now, nr_caravan_req, wmem, nospace, wire, peerVars>>

SendError == IF error = "EPIPE" THEN {"EPIPE"}
             ELSE IF error = "none" THEN SendErrors ELSE {}

SendCaravan ==
    /\ IoAt("send") /\ wmem + caravan_len <= SndBuf
    /\ error # "EPIPE"
    /\ \E n \in (IF ShortSends THEN 1 .. Len(caravan) ELSE {Len(caravan)}) :
          /\ wire' = wire \o SubSeq(caravan, 1, n)
          /\ wmem' = IF n = Len(caravan) THEN wmem + caravan_len ELSE SndBuf
    /\ caravan' = <<>> /\ nr_mapped' = 0 /\ caravan_len' = 0 /\ send_now' = FALSE
    /\ io' = IF todo = <<>> THEN "recv" ELSE "pack"
    /\ UNCHANGED <<submitVars, bellVars, pending, todo, nr_caravan_req, sent_part,
                   nospace, error, peerVars, failed>>

CaravanFails ==
    /\ IoAt("send") /\ wmem + caravan_len <= SndBuf
    /\ \E e \in SendError : SendFails(e)

\* nvme_tcp_sndbuf_nospace is tested first, the flag set after it.
NoRoom ==
    /\ IoAt("send") /\ wmem + caravan_len > SndBuf
    /\ io' = "set_nospace"
    /\ UNCHANGED <<submitVars, bellVars, pending, packVars, sockVars, peerVars, failed>>

SetNoSpace ==
    /\ IoAt("set_nospace")
    /\ nospace' = TRUE
    /\ io' = "recv"
    /\ UNCHANGED <<submitVars, bellVars, pending, packVars, sent_part, wmem, error,
                   wire, peerVars, failed>>

\* i10_host_is_caravan_full
CaravanFull_Above ==
    \/ caravan_len > CaravanCapacity
    \/ Len(caravan) > MaxIovs
    \/ nr_mapped > MaxMapped

CaravanFull ==
    \/ caravan_len >= CaravanCapacity
    \/ Len(caravan) >= MaxIovs
    \/ nr_mapped >= MaxMapped

\* nvme_tcp_try_send returns 1 when the request is done, else goes on to
\* the next state of the request in the same call.
PieceDone_NoDigest ==
    LET rest == IF Len(todo) = 2 /\ todo[2][2] = "ddgst" THEN <<>> ELSE Tail(todo)
    IN  /\ todo' = rest
        /\ io' = IF rest = <<>> THEN "recv" ELSE "pack"
        /\ pending' = IF rest = <<>> THEN TRUE ELSE pending

PieceDone_GoOn ==
    /\ todo' = Tail(todo)
    /\ io' = "pack"
    /\ UNCHANGED pending

PieceDone ==
    /\ todo' = Tail(todo)
    /\ io' = IF Tail(todo) = <<>> THEN "recv" ELSE "pack"
    /\ pending' = IF Tail(todo) = <<>> THEN TRUE ELSE pending

PackPiece ==
    LET p == Head(todo)
    IN  /\ IoAt("pack") /\ ~Direct(p) /\ ~CaravanFull
        /\ caravan' = Append(caravan, p)
        /\ nr_mapped' = IF p[2] = "data" THEN nr_mapped + 1 ELSE nr_mapped
        /\ caravan_len' = caravan_len + LenOf(p)
        /\ send_now' = (send_now \/ (p[2] = "cmd" /\ kind[p[1]].nodelay))
        /\ PieceDone
        /\ UNCHANGED <<submitVars, bellVars, nr_caravan_req, sockVars, peerVars, failed>>

PackFull ==
    /\ IoAt("pack") /\ ~Direct(Head(todo)) /\ CaravanFull
    /\ send_now' = TRUE
    /\ io' = "recv" /\ pending' = TRUE
    /\ UNCHANGED <<submitVars, bellVars, todo, caravan, nr_mapped, caravan_len,
                   nr_caravan_req, sockVars, peerVars, failed>>

\* kernel_sendpage, or kernel_sendmsg for a digest, takes the whole piece.
SendPiece ==
    LET p == Head(todo)
        left == LenOf(p) - sent_part
    IN  /\ IoAt("pack") /\ Direct(p) /\ error # "EPIPE"
        /\ wmem + left <= SndBuf
        /\ wire' = Append(wire, p)
        /\ wmem' = wmem + left /\ sent_part' = 0
        /\ PieceDone
        /\ UNCHANGED <<submitVars, bellVars, caravan, nr_mapped, caravan_len, send_now,
                       nr_caravan_req, nospace, error, peerVars, failed>>

\* It takes a part, or nothing (-EAGAIN).  The socket sets SOCK_NOSPACE
\* under its own lock.  Only nvme_tcp_try_send_data tries again at once.
SendPart ==
    LET p == Head(todo)
        left == LenOf(p) - sent_part
    IN  /\ IoAt("pack") /\ Direct(p) /\ error # "EPIPE"
        /\ wmem + left > SndBuf
        /\ sent_part' = sent_part + (SndBuf - wmem)
        /\ wmem' = SndBuf /\ nospace' = TRUE
        /\ io' = IF p[2] = "data" /\ wmem < SndBuf THEN "pack" ELSE "recv"
        /\ UNCHANGED <<submitVars, bellVars, pending, packVars, error, wire, peerVars,
                       failed>>

PieceFails ==
    /\ IoAt("pack") /\ Direct(Head(todo))
    /\ \E e \in SendError : SendFails(e)

\* nvme_tcp_try_recv: a response ends its request.
RecvResponse ==
    /\ IoAt("recv") /\ pc[IO] = "return"
    /\ rx # <<>> /\ Head(rx)[2] = "rsp"
    /\ completed' = completed \cup {Head(rx)[1]}
    /\ rx' = Tail(rx) /\ pending' = TRUE
    /\ UNCHANGED <<submitVars, bellVars, io, packVars, sockVars, replies, failed>>

\* nvme_tcp_handle_r2t: io_work itself runs nvme_tcp_queue_request.
RecvR2T ==
    /\ IoAt("recv") /\ pc[IO] = "return"
    /\ rx # <<>> /\ Head(rx)[2] = "r2t"
    /\ r2t' = Head(rx)[1] /\ Goto(IO, "enter")
    /\ rx' = Tail(rx) /\ pending' = TRUE
    /\ UNCHANGED <<kind, send_list, nr_req, log, bellVars, io, packVars, sockVars,
                   replies, completed, failed>>

\* Nothing left to read: return, or go round again while the quota lasts.
EndRound ==
    /\ IoAt("recv") /\ pc[IO] = "return" /\ rx = <<>>
    /\ pending' = FALSE
    /\ \/ /\ ~pending
          /\ io' = "idle" /\ UNCHANGED work
       \/ /\ pending
          /\ io' = "fetch" /\ UNCHANGED work
       \/ /\ pending
          /\ io' = "idle" /\ work' = TRUE
    /\ UNCHANGED <<submitVars, timer_set, timer, timer_cpu, packVars, sockVars, peerVars, failed>>

TrySend ==
    \/ KeepRequest \/ FetchRequest \/ CloseCaravan \/ FetchNothing
    \/ SendCaravan \/ CaravanFails \/ NoRoom \/ SetNoSpace
    \/ PackPiece \/ PackFull \/ SendPiece \/ SendPart \/ PieceFails

IoWork == StartWork \/ TrySend \/ RecvResponse \/ RecvR2T \/ EndRound

-----------------------------------------------------------------------------
(* The socket and the controller at its other end *)

\* An acknowledgement frees send buffer; with SOCK_NOSPACE set it runs
\* nvme_tcp_write_space, which wants a third of the buffer to be free.
\* While any caravan would fit, an acknowledgement shows nowhere: wait.
Ack ==
    /\ wmem > 0
    /\ nospace \/ wmem + CaravanCapacity + PduLen + PageLen > SndBuf
    /\ \E w \in 0 .. wmem - 1 :
          LET wakes == nospace /\ SndBuf - w >= w \div 2
          IN  /\ wmem' = w
              /\ nospace' = (nospace /\ ~wakes)
              /\ work' = (work \/ wakes)
    /\ UNCHANGED <<submitVars, timer_set, timer, timer_cpu, io, pending, packVars, sent_part,
                   error, wire, peerVars, failed>>

OnWire(e) == Elements(Pieces(e)) \subseteq Elements(wire)

\* The controller answers what it received whole; nvme_tcp_data_ready
\* queues io_work.
Reply(r) ==
    /\ \/ replies[r] = 0 /\ OnWire(<<r, "cmd">>)
       \/ replies[r] = 1 /\ kind[r].solicited > 0 /\ OnWire(<<r, "h2c">>)
    /\ replies' = [replies EXCEPT ![r] = @ + 1]
    /\ rx' = Append(rx, <<r, IF replies[r] = 0 /\ kind[r].solicited > 0
                             THEN "r2t" ELSE "rsp">>)
    /\ work' = TRUE
    /\ UNCHANGED <<submitVars, timer_set, timer, timer_cpu, io, pending, packVars, sockVars,
                   completed, failed>>

Next ==
    \/ \E c \in Ctx : QueueRequest(c)
    \/ Timer
    \/ IoWork
    \/ Ack
    \/ \E r \in Req : Reply(r)

Spec == Init /\ [][Next]_vars

\* The kernel runs a queued work item, a started timer, and the rest of a
\* call it has entered; a submitter need never enter one.
Fairness ==
    /\ \A c \in Ctx : WF_vars((c = IO \/ pc[c] # "enter") /\ QueueRequest(c))
    /\ WF_vars(Timer)
    /\ WF_vars(IoWork)

FairSpec == Spec /\ Fairness

-----------------------------------------------------------------------------
(* Properties *)

TypeOK ==
    /\ kind \in [Req -> Kinds]
    /\ pc \in [Ctx -> {"enter", "start_timer", "aggregate", "check_timer",
                       "cancel_timer", "clear_set", "ring", "return"}]
    /\ r2t \in Req \cup {NULL}
    /\ pc[IO] # "return" => r2t \in Req
    /\ send_list \in Seq(Entry) /\ nr_req \in Nat
    /\ timer_set \in Nat /\ work \in BOOLEAN
    /\ timer \in {"off", "armed", "cb_clear_set", "cb_ring", "cb_return"}
    /\ timer_cpu \in {"io", "other"}
    /\ io \in {"idle", "fetch", "send", "set_nospace", "pack", "recv"}
    /\ pending \in BOOLEAN
    /\ todo \in Seq(Piece) /\ caravan \in Seq(Piece)
    /\ io = "pack" => todo # <<>>
    /\ nr_mapped \in Nat /\ caravan_len \in Nat
    /\ send_now \in BOOLEAN /\ nr_caravan_req \in Nat
    /\ sent_part \in Nat /\ wmem \in 0 .. SndBuf
    /\ nospace \in BOOLEAN
    /\ error \in SendErrors \cup {"none"}
    /\ wire \in Seq(Piece) /\ log \in Seq(Piece)
    /\ rx \in Seq(Req \X {"r2t", "rsp"})
    /\ replies \in [Req -> Nat]
    /\ completed \subseteq Req /\ failed \subseteq Req \cup {NULL}

DelayedAt(s) == {i \in DOMAIN s : Delayed(s[i][1])}
DelayedIn(s) == Cardinality(DelayedAt(s))

\* nr_req, which decides whether a submitter starts the timer or rings the
\* doorbell, counts the delayed requests on send_list and those fetched
\* since the last accounting (nvme_tcp_queue_request, nvme_tcp_try_send).
ReqAccounting == nr_req = DelayedIn(send_list) + nr_caravan_req

\* The fixed arrays caravan_iovs and caravan_mapped are never overrun, and
\* a caravan exceeds I10_CARAVAN_CAPACITY by less than one piece
\* (i10_host_is_caravan_full is tested before each append).
CaravanFits ==
    /\ Len(caravan) <= MaxIovs
    /\ nr_mapped <= MaxMapped
    /\ caravan_len < CaravanCapacity + PduLen + PageLen

Ringing(c) == pc[c] \in {"check_timer", "cancel_timer", "clear_set", "ring"}

\* io_work will look at send_list again before it goes idle, or waits for
\* nvme_tcp_write_space or for error recovery.
WillFetch ==
    \/ work
    \/ io \in {"fetch", "set_nospace"}
    \/ io \in {"send", "pack"} /\ todo # <<>>
    \/ io = "recv" /\ pending
    \/ nospace
    \/ error # "none"

\* The doorbell is never lost for a request that must not wait, nor once
\* the aggregation size is reached: whatever the interleaving, io_work is
\* still going to look at send_list, or a submitter is about to ring.
DoorbellRung ==
    /\ (\E i \in DOMAIN send_list : ~Delayed(send_list[i][1]))
          => WillFetch \/ \E c \in Ctx : Ringing(c)
    /\ DelayedIn(send_list) >= AggregationSize
          => WillFetch \/ \E c \in Ctx : Ringing(c) \/ pc[c] \in {"start_timer", "aggregate"}

\* A request that was queued and not handed to the socket is waited for by
\* something: the doorbell timer, io_work, a submitter that will ring, or
\* nvme_tcp_write_space.  Its delay is then bounded by the timer.
DelayBounded ==
    send_list # <<>> \/ todo # <<>> \/ caravan # <<>>
        => \/ work \/ io # "idle" \/ nospace
           \/ timer \in {"armed", "cb_clear_set", "cb_ring"}
           \/ \E c \in Ctx : Ringing(c)

\* Where every submitter runs on io_cpu and every request is of the kind that
\* may wait, none is forgotten: nvme_tcp_queue_request starts the timer for
\* the first request only, and the later ones ride on it.
NoneForgotten ==
    (SameCpu /\ error = "none" /\ \A r \in Req : Delayed(r)) => DelayBounded

\* The comment in nvme_tcp_io_work: a send that failed fails "the request".
\* So there is one to fail, and what is left of it is not sent any more.
FailsTheRequest ==
    /\ NULL \notin failed
    /\ \A p \in Elements(caravan) : p[1] \notin failed

\* The no-delay path: once queued, a command that may not be delayed gets to
\* the socket, whatever the timer and the other submitters do.
NoDelaySent ==
    \A r \in Req : ~Delayed(r) /\ pc[r] # "enter" ~> OnWire(<<r, "cmd">>)

\* Nothing queued stays behind: again and again all of it is with the
\* socket, without help from a response or from a later request.  Only a
\* broken connection, which error recovery tears down, is excused.
EventuallySent ==
    []<>(error = "EPIPE" \/ (send_list = <<>> /\ todo = <<>> /\ caravan = <<>>))

\* What the send side promises: a FIFO byte stream of the queued pieces.
Channel == INSTANCE FifoChannel WITH accepted <- log, delivered <- wire
FifoStream == Channel!Spec
=============================================================================
