------------------------------ MODULE I10Queue ------------------------------
(***************************************************************************)
(* A queue of the i10 host driver (i10.c, the predecessor of the blk-      *)
(* switch queue of tcp.c): delayed doorbells with a plain request counter  *)
(* and one timer, caravans, and one io_work that packs, sends and          *)
(* receives.  Without data digests.                                        *)
(***************************************************************************)
EXTENDS Integers, Sequences, SequencesExt, FiniteSets

CONSTANTS
    Req,            \* requests
    Kind,           \* Kind[r]: "read", "nodelay", "inline" or "r2t" (a write)
    DataLen,        \* pieces of data of a write
    Submitter,      \* CPUs that submit to this queue
    By,             \* By[r]: the one that submits r
    Agg,            \* I10_AGGREGATION_SIZE
    Cap,            \* I10_CARAVAN_CAPACITY, in pieces
    SndBuf,         \* socket buffer, in pieces
    SameCpu,        \* io_work, the timer and the submitters share a CPU
    Legacies,       \* values of legacy to consider
    MaxFail         \* bound: kernel_sendmsg fails

None == "none"
IO == "io"
Actor == Submitter \cup {IO}

VARIABLES
    legacy,         \* the doorbell delay is below I10_MIN_DOORBELL_TIMEOUT
    send_list, nr_req,
    timer,          \* doorbell_timer: "off", "on", "run" (in its callback)
    work,           \* io_work is queued
    io, pending,    \* io_work: its place, and its local
    request, stage, \* queue->request; the send state of every request
    caravan, mapped, send_now,
    wire, last,     \* pieces in the socket, and the last one the target read
    nospace,        \* SOCK_NOSPACE
    rsp,            \* answers under way
    pc, at, loaded, \* queue_request of an actor: place, request, counter read
    state,          \* state[r]: new, open, done
    fails

doorbell == <<send_list, nr_req, timer, work>>
car == <<caravan, mapped, send_now>>
sock == <<wire, last, nospace, rsp>>
call == <<pc, at, loaded>>
vars == <<legacy, doorbell, io, pending, request, stage, car, sock, call, state, fails>>

Init ==
    /\ legacy \in Legacies
    /\ send_list = <<>> /\ nr_req = 0 /\ timer = "off" /\ work = FALSE
    /\ io = "idle" /\ pending = FALSE /\ request = None
    /\ stage = [r \in Req |-> <<"cmd", 0>>]
    /\ caravan = <<>> /\ mapped = 0 /\ send_now = FALSE
    /\ wire = <<>> /\ last = <<None, None, 0>> /\ nospace = FALSE /\ rsp = <<>>
    /\ pc = [a \in Actor |-> "ret"] /\ at = [a \in Actor |-> None]
    /\ loaded = [a \in Actor |-> 0]
    /\ state = [r \in Req |-> "new"] /\ fails = 0

-----------------------------------------------------------------------------
(* i10_host_queue_request *)

NoDelay(r) == legacy \/ Kind[r] = "nodelay"
Call(a, r) == pc' = [pc EXCEPT ![a] = "add"] /\ at' = [at EXCEPT ![a] = r]
Go(a, place) == pc' = [pc EXCEPT ![a] = place]
Return(a) == Go(a, "ret") /\ at' = [at EXCEPT ![a] = None] /\ loaded' = [loaded EXCEPT ![a] = 0]

\* queue_rq for a new request.
QueueRq(s) ==
    /\ pc[s] = "ret" /\ fails = 0
    /\ \E r \in Req :
          /\ By[r] = s /\ state[r] = "new"
          /\ state' = [state EXCEPT ![r] = "open"] /\ Call(s, r)
    /\ UNCHANGED <<doorbell, io, pending, request, stage, car, sock, loaded, fails, legacy>>
AddToList(a) ==
    /\ pc[a] = "add"
    /\ send_list' = Append(send_list, at[a])
    /\ Go(a, IF NoDelay(at[a]) THEN "ring" ELSE "load")
    /\ UNCHANGED <<nr_req, timer, work, io, pending, request, stage, car, sock, at, loaded,
                   state, fails, legacy>>
\* nr_req++ is not atomic.
LoadNrReq(a) ==
    /\ pc[a] = "load"
    /\ loaded' = [loaded EXCEPT ![a] = nr_req] /\ Go(a, "store")
    /\ UNCHANGED <<doorbell, io, pending, request, stage, car, sock, at, state, fails, legacy>>
StoreNrReq(a) ==
    /\ pc[a] = "store"
    /\ nr_req' = loaded[a] + 1 /\ Go(a, "test")
    /\ UNCHANGED <<send_list, timer, work, io, pending, request, stage, car, sock, at, loaded,
                   state, fails, legacy>>
\* Mutant: a timer only for every second request.
TestDoorbell_Late(a) ==
    /\ pc[a] = "test"
    /\ \/ timer = "off" /\ nr_req = 2 /\ timer' = "on" /\ Return(a)
       \/ /\ ~(timer = "off" /\ nr_req = 2) /\ nr_req >= Agg
          /\ Go(a, "ring") /\ UNCHANGED <<timer, at, loaded>>
       \/ /\ ~(timer = "off" /\ nr_req = 2) /\ nr_req < Agg
          /\ Return(a) /\ UNCHANGED timer
    /\ UNCHANGED <<send_list, nr_req, work, io, pending, request, stage, car, sock, state, fails, legacy>>
\* The first request starts the timer, the last of a batch rings.
TestDoorbell(a) ==
    /\ pc[a] = "test"
    /\ \/ timer = "off" /\ nr_req = 1 /\ timer' = "on" /\ Return(a)
       \/ /\ ~(timer = "off" /\ nr_req = 1) /\ nr_req >= Agg
          /\ Go(a, "ring") /\ UNCHANGED <<timer, at, loaded>>
       \/ /\ ~(timer = "off" /\ nr_req = 1) /\ nr_req < Agg
          /\ Return(a) /\ UNCHANGED timer
    /\ UNCHANGED <<send_list, nr_req, work, io, pending, request, stage, car, sock, state, fails, legacy>>
\* Ring now: hrtimer_cancel waits for a running callback.
Ring(a) ==
    /\ pc[a] = "ring" /\ timer # "run"
    /\ timer' = "off" /\ work' = TRUE /\ Return(a)
    /\ UNCHANGED <<send_list, nr_req, io, pending, request, stage, car, sock, state, fails, legacy>>

\* i10_host_doorbell_timeout; the timer is active until it has returned.
TimerFires ==
    /\ timer = "on" /\ timer' = "run" /\ work' = TRUE
    /\ UNCHANGED <<send_list, nr_req, io, pending, request, stage, car, sock, call, state,
                   fails, legacy>>
TimerReturns ==
    /\ timer = "run" /\ timer' = "off"
    /\ UNCHANGED <<send_list, nr_req, work, io, pending, request, stage, car, sock, call,
                   state, fails, legacy>>

-----------------------------------------------------------------------------
(* i10_host_io_work *)

StartIoWork ==
    /\ io = "idle" /\ work /\ work' = FALSE /\ io' = "fetch" /\ pending' = FALSE
    /\ UNCHANGED <<send_list, nr_req, timer, request, stage, car, sock, call, state, fails, legacy>>

\* i10_host_try_send, first part: a request, or a caravan to send.
Fetch ==
    /\ io = "fetch"
    /\ \/ /\ request = None /\ send_list # <<>>
          /\ request' = Head(send_list) /\ send_list' = Tail(send_list) /\ io' = "caravan"
       \/ /\ request = None /\ send_list = <<>>
          /\ io' = IF caravan = <<>> THEN "recv" ELSE "caravan"
          /\ UNCHANGED <<request, send_list>>
       \/ request # None /\ io' = "caravan" /\ UNCHANGED <<request, send_list>>
    /\ UNCHANGED <<nr_req, timer, work, pending, stage, car, sock, call, state, fails, legacy>>

SendCaravanNow == send_now \/ (timer = "off" /\ request = None /\ caravan # <<>>)
Wmem == Len(wire)

\* i10_host_try_send, second part.
SendCaravan ==
    /\ io = "caravan" /\ SendCaravanNow /\ SndBuf - Wmem >= Len(caravan)
    /\ wire' = wire \o caravan
    /\ nr_req' = 0 /\ caravan' = <<>> /\ mapped' = 0 /\ send_now' = FALSE
    /\ io' = IF request # None THEN "pack" ELSE "recv"
    /\ UNCHANGED <<send_list, timer, work, pending, request, stage, last, nospace, rsp, call,
                   state, fails, legacy>>
NoSpace ==
    /\ io = "caravan" /\ SendCaravanNow /\ SndBuf - Wmem < Len(caravan)
    /\ nospace' = TRUE /\ io' = "recv"
    /\ UNCHANGED <<doorbell, pending, request, stage, car, wire, last, rsp, call, state, fails, legacy>>
KeepCaravan ==
    /\ io = "caravan" /\ ~SendCaravanNow
    /\ io' = IF request # None THEN "pack" ELSE "recv"
    /\ UNCHANGED <<doorbell, pending, request, stage, car, sock, call, state, fails, legacy>>
\* kernel_sendmsg fails: the connection is lost.
SendFails ==
    /\ io = "caravan" /\ SendCaravanNow /\ fails < MaxFail
    /\ fails' = fails + 1 /\ io' = "idle" /\ request' = None
    /\ UNCHANGED <<doorbell, pending, stage, car, sock, call, state, legacy>>

Full == Len(caravan) >= Cap \/ Len(caravan) >= 2 * Agg \/ mapped >= Agg
\* What follows piece p of r: its data, or nothing.
After(r) ==
    CASE stage[r][1] = "cmd" /\ Kind[r] = "inline"         -> <<"data", 1>>
      [] stage[r][1] = "h2c"                               -> <<"data", 1>>
      [] stage[r][1] = "data" /\ stage[r][2] < DataLen     -> <<"data", stage[r][2] + 1>>
      [] OTHER                                             -> <<"sent", 0>>
Piece(r) == <<r, stage[r][1], stage[r][2]>>

\* i10_host_try_send_cmd_pdu, _data_pdu and _data: a full caravan goes first.
PackFull ==
    /\ io = "pack" /\ ~legacy /\ Full
    /\ send_now' = TRUE /\ io' = "recv" /\ pending' = TRUE
    /\ UNCHANGED <<doorbell, request, stage, caravan, mapped, sock, call, state, fails, legacy>>
Pack ==
    /\ io = "pack" /\ ~legacy /\ ~Full
    /\ caravan' = Append(caravan, Piece(request))
    /\ mapped' = IF stage[request][1] = "data" THEN mapped + 1 ELSE mapped
    /\ send_now' = (send_now \/ (stage[request][1] = "cmd" /\ Kind[request] = "nodelay"))
    /\ stage' = [stage EXCEPT ![request] = After(request)]
    /\ IF After(request)[1] = "sent"
       THEN request' = None /\ io' = "recv" /\ pending' = TRUE
       ELSE UNCHANGED <<request, io, pending>>
    /\ UNCHANGED <<doorbell, sock, call, state, fails, legacy>>
\* The legacy path writes to the socket, as far as there is room.
SendLegacy ==
    /\ io = "pack" /\ legacy /\ Wmem < SndBuf
    /\ wire' = Append(wire, Piece(request))
    /\ stage' = [stage EXCEPT ![request] = After(request)]
    /\ IF After(request)[1] = "sent"
       THEN request' = None /\ io' = "recv" /\ pending' = TRUE
       ELSE UNCHANGED <<request, io, pending>>
    /\ UNCHANGED <<doorbell, car, last, nospace, rsp, call, state, fails, legacy>>
SendLegacyAgain ==
    /\ io = "pack" /\ legacy /\ Wmem >= SndBuf
    /\ nospace' = TRUE /\ io' = "recv"
    /\ UNCHANGED <<doorbell, pending, request, stage, car, wire, last, rsp, call, state, fails, legacy>>

\* i10_host_try_recv: responses end requests, an R2T queues its request again.
Recv ==
    /\ io = "recv" /\ pc[IO] = "ret" /\ rsp # <<>>
    /\ LET r == Head(rsp)
       IN \/ /\ Kind[r] = "r2t" /\ stage[r][1] = "sent" /\ state[r] = "open"
             /\ state' = [state EXCEPT ![r] = "r2t"]
             /\ stage' = [stage EXCEPT ![r] = <<"h2c", 0>>] /\ Call(IO, r)
          \/ /\ Kind[r] # "r2t" \/ state[r] = "r2t"
             /\ state' = [state EXCEPT ![r] = "done"] /\ UNCHANGED <<stage, pc, at>>
    /\ rsp' = Tail(rsp) /\ pending' = TRUE
    /\ UNCHANGED <<doorbell, io, request, car, wire, last, nospace, loaded, fails, legacy>>
\* Once more, or later if the time is up, or nothing is left to do.
LoopIoWork ==
    /\ io = "recv" /\ pc[IO] = "ret" /\ rsp = <<>>
    /\ \/ pending /\ io' = "fetch" /\ UNCHANGED work
       \/ pending /\ io' = "idle" /\ work' = TRUE
       \/ ~pending /\ io' = "idle" /\ UNCHANGED work
    /\ pending' = FALSE
    /\ UNCHANGED <<send_list, nr_req, timer, request, stage, car, sock, call, state, fails, legacy>>

-----------------------------------------------------------------------------
(* The socket and the target, external *)

\* The target reads a piece; the last one of a command or of its data is
\* answered.  i10_host_data_ready queues io_work.
TargetReads ==
    /\ wire # <<>> /\ wire' = Tail(wire) /\ last' = Head(wire)
    /\ LET p == Head(wire)
           end == \/ p[2] = "cmd" /\ Kind[p[1]] # "inline"
                  \/ p[2] = "data" /\ p[3] = DataLen
       IN /\ rsp' = IF end THEN Append(rsp, p[1]) ELSE rsp
          /\ work' = (work \/ end)
    /\ UNCHANGED <<send_list, nr_req, timer, io, pending, request, stage, car, nospace,
                   call, state, fails, legacy>>
\* i10_host_write_space, once a third of the buffer is free.
WriteSpace ==
    /\ nospace /\ 3 * Wmem <= 2 * SndBuf
    /\ nospace' = FALSE /\ work' = TRUE
    /\ UNCHANGED <<send_list, nr_req, timer, io, pending, request, stage, car, wire, last,
                   rsp, call, state, fails, legacy>>

QueueRequest(a) == AddToList(a) \/ LoadNrReq(a) \/ StoreNrReq(a) \/ TestDoorbell(a) \/ Ring(a)
IoWork ==
    \/ StartIoWork \/ Fetch \/ SendCaravan \/ NoSpace \/ KeepCaravan \/ SendFails
    \/ PackFull \/ Pack \/ SendLegacy \/ SendLegacyAgain \/ Recv \/ LoopIoWork
Timer == TimerFires \/ TimerReturns
Socket == TargetReads \/ WriteSpace

\* On one CPU the callback of the timer is not interrupted by the rest.
Runs == SameCpu => timer # "run"

Next ==
    \/ Runs /\ \E s \in Submitter : QueueRq(s)
    \/ Runs /\ \E a \in Actor : QueueRequest(a)
    \/ Runs /\ IoWork
    \/ Timer \/ Socket

Spec == Init /\ [][Next]_vars

\* The CPUs, the timer, the worker and the target make progress.
Fairness ==
    /\ \A a \in Actor : WF_vars(Runs /\ QueueRequest(a))
    /\ WF_vars(Runs /\ IoWork) /\ WF_vars(Timer) /\ WF_vars(TargetReads) /\ WF_vars(WriteSpace)
FairSpec == Spec /\ Fairness

-----------------------------------------------------------------------------
(* Properties *)

\* The pieces reach the socket in order: the data of a command follows its
\* header at once, block by block, however often the caravan was full.
StreamWhole ==
    LET s == <<last>> \o wire \o caravan
    IN \A k \in 2 .. Len(s) :
          s[k][2] = "data" =>
              /\ s[k - 1][1] = s[k][1]
              /\ IF s[k][3] = 1 THEN s[k - 1][2] # "data" ELSE s[k - 1][3] = s[k][3] - 1

\* No doorbell is lost for good: every request is answered in the
\* end, unless the connection breaks, although the counter and the timer are not locked.
EveryRequestAnswered == <>[](fails > 0 \/ \A r \in Req : state[r] \in {"new", "done"})
=============================================================================
