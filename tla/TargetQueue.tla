---------------------------- MODULE TargetQueue ----------------------------
(***************************************************************************)
(* A queue of the NVMe/TCP target (target/tcp.c): io_work receives         *)
(* commands and their data, the backend completes them on other CPUs, and  *)
(* io_work answers, in caravans or directly.  Closing the connection       *)
(* releases the queue while all of this may be under way.  The host, the   *)
(* backend and TCP are external; a PDU header, a page of data and a digest *)
(* are one piece each.                                                     *)
(***************************************************************************)
EXTENDS Integers, Sequences, SequencesExt, FiniteSets

CONSTANTS
    Id,             \* command ids the host uses
    Kinds,          \* "read", "inline", "write", "badread", "badinline"
    DataLen,        \* pieces of data of a command
    Modes,          \* <<aggregated, data digest>> combinations
    Cap,            \* I10_CARAVAN_CAPACITY, in pieces
    SndBuf,         \* socket send buffer, in pieces
    MaxIssue,       \* bound: commands the host issues
    MaxBad,         \* bound: corrupted data digests
    MaxClose        \* bound: the host closes the connection

None == -1
Connect == 0                              \* queue->connect
Slot == 0 .. 2 * Cardinality(Id)
Free == [id |-> None, kind |-> "free", err |-> FALSE]

VARIABLES
    mode,
    state,          \* queue->state
    rcv, cur, got,  \* rcv_state, queue->cmd, its rbytes_done
    cmd, free,      \* the command in a slot; free_list
    exec,           \* slots the backend works on
    resp,           \* resp_send_list followed by resp_list
    snd, stage,     \* snd_cmd and the piece it sends next
    caravan, ccmds, send_now,
    out, nospace,   \* pieces in the send buffer; SOCK_NOSPACE
    in, tx,         \* pieces received by TCP; pieces the host is to send
    last, host,     \* last piece the host read; "idle" or "wait" of an id
    work, io, pending, ret,     \* io_work
    rel, barrier,   \* release_work, and what its flush_work waits for
    closed, fatal, issued, bad

rcvd == <<rcv, cur, got, in>>
slots == <<cmd, free>>
sendv == <<snd, stage, caravan, ccmds, send_now>>
sock == <<out, nospace>>
hostv == <<tx, last, host, issued, bad>>
iow == <<work, io, pending, ret>>
life == <<state, rel, barrier, closed, fatal>>
vars == <<mode, rcvd, slots, exec, resp, sendv, sock, hostv, iow, life>>

Aggregated == mode[1]
Digest == mode[2]
Bool == {TRUE, FALSE}

Init ==
    /\ mode \in Modes
    /\ state = "CONNECTING" /\ rcv = "pdu" /\ cur = None /\ got = 0
    /\ cmd = [s \in Slot |-> Free] /\ free = <<Connect>> /\ exec = {} /\ resp = <<>>
    /\ snd = None /\ stage = <<"rsp", 0>> /\ caravan = <<>> /\ ccmds = {} /\ send_now = FALSE
    /\ out = <<>> /\ nospace = FALSE /\ in = <<>>
    /\ tx = <<[t |-> "icreq"], [t |-> "cmd", id |-> 0, kind |-> "connect"]>>
    /\ last = <<"none", 0, 0>> /\ host = [i \in Id \cup {0} |-> IF i = 0 THEN "wait" ELSE "idle"]
    /\ work = TRUE /\ io = "idle" /\ pending = FALSE /\ ret = "none"
    /\ rel = "no" /\ barrier = 0 /\ closed = FALSE /\ fatal = FALSE
    /\ issued = 0 /\ bad = 0

-----------------------------------------------------------------------------
(* The host and its half of the connection, external *)

DataUnits == [k \in 1 .. DataLen |-> [t |-> "data"]]
DdgstUnits(ok) == IF Digest THEN <<[t |-> "ddgst", ok |-> ok]>> ELSE <<>>

\* The host issues a command under a free id.
HostIssues ==
    /\ ~closed /\ host[0] = "idle" /\ issued < MaxIssue
    /\ \E i \in Id, k \in Kinds, ok \in {TRUE, bad = MaxBad} :
          /\ ok \/ (Digest /\ k = "inline")
          /\ host[i] = "idle" /\ host' = [host EXCEPT ![i] = "wait"]
          /\ tx' = tx \o <<[t |-> "cmd", id |-> i, kind |-> k]>>
                      \o IF k \in {"inline", "badinline"} THEN DataUnits \o DdgstUnits(ok) ELSE <<>>
          /\ bad' = IF ok THEN bad ELSE bad + 1
    /\ issued' = issued + 1
    /\ UNCHANGED <<mode, rcvd, slots, exec, resp, sendv, sock, last, iow, life>>
\* A piece arrives: nvmet_tcp_data_ready queues io_work.
DataReady ==
    /\ ~closed /\ tx # <<>> /\ in' = Append(in, Head(tx)) /\ tx' = Tail(tx)
    /\ work' = TRUE
    /\ UNCHANGED <<mode, rcv, cur, got, slots, exec, resp, sendv, sock, last, host, issued, bad, io,
                   pending, ret, life>>
\* The host reads a piece; an R2T makes it send the data.
HostReads ==
    /\ out # <<>> /\ ~closed
    /\ LET u == Head(out)
       IN /\ last' = u /\ out' = Tail(out)
          /\ host' = IF u[1] = "rsp" THEN [host EXCEPT ![u[2]] = "idle"] ELSE host
          /\ tx' = IF u[1] = "r2t"
                   THEN tx \o <<[t |-> "h2c", ttag |-> u[3]]>> \o DataUnits \o DdgstUnits(TRUE)
                   ELSE tx
    /\ UNCHANGED <<mode, rcvd, slots, exec, resp, sendv, nospace, issued, bad, iow, life>>
\* nvmet_tcp_write_space, once a third of the buffer is free.
WriteSpace ==
    /\ nospace /\ rel = "no" /\ state = "LIVE" /\ 3 * Len(out) <= 2 * SndBuf
    /\ nospace' = FALSE /\ work' = TRUE
    /\ UNCHANGED <<mode, rcvd, slots, exec, resp, sendv, out, hostv, io, pending, ret, life>>

-----------------------------------------------------------------------------
(* The backend *)

\* nvmet_tcp_queue_response.
QueueResponse(s) == resp' = Append(resp, s) /\ work' = TRUE

\* A command is completed; a read may fail.  The connect command has
\* nvmet_tcp_install_queue allocate the commands of the queue.
Complete(s) ==
    /\ s \in exec /\ exec' = exec \ {s}
    /\ \E err \in {FALSE, cmd[s].kind = "read"} : cmd' = [cmd EXCEPT ![s].err = err]
    /\ free' = IF s = Connect
               THEN free \o [k \in 1 .. 2 * Cardinality(Id) |-> k] ELSE free
    /\ QueueResponse(s)
    /\ UNCHANGED <<mode, rcvd, sendv, sock, hostv, io, pending, ret, life>>

-----------------------------------------------------------------------------
(* nvmet_tcp_io_work and nvmet_tcp_io_work_lat: receive *)

StartIoWork ==
    /\ io = "idle" /\ work /\ rel # "freed"
    /\ work' = FALSE /\ io' = "recv" /\ pending' = FALSE
    /\ UNCHANGED <<mode, rcvd, slots, exec, resp, sendv, sock, hostv, ret, life>>

\* nvmet_tcp_try_recv goes on until its budget is used up.
RecvMore == \/ io' = "recv" /\ UNCHANGED pending
            \/ io' = "send" /\ pending' = TRUE
PrepareReceivePdu == rcv' = "pdu" /\ cur' = None /\ got' = 0

\* Nothing to read, or RECV_ERR.  At the end of the stream the data state
\* does not notice, and reports progress.
RecvNothing ==
    /\ io = "recv" /\ (in = <<>> \/ rcv = "err")
    /\ io' = "send"
    /\ pending' = (pending \/ (rcv = "data" /\ closed))
    /\ UNCHANGED <<mode, rcvd, slots, exec, resp, sendv, sock, hostv, work, ret, life>>
\* nvmet_tcp_handle_icreq.
HandleIcreq ==
    /\ io = "recv" /\ rcv = "pdu" /\ in # <<>> /\ Head(in).t = "icreq"
    /\ in' = Tail(in) /\ state' = IF state = "CONNECTING" THEN "LIVE" ELSE state
    /\ PrepareReceivePdu /\ RecvMore
    /\ UNCHANGED <<mode, slots, exec, resp, sendv, sock, hostv, work, ret, rel, barrier, closed,
                   fatal>>
\* nvmet_tcp_handle_h2c_data_pdu.
HandleH2cData ==
    /\ io = "recv" /\ rcv = "pdu" /\ in # <<>> /\ Head(in).t = "h2c"
    /\ in' = Tail(in) /\ rcv' = "data" /\ cur' = Head(in).ttag /\ got' = 0
    /\ io' = "recv"
    /\ UNCHANGED <<mode, slots, exec, resp, sendv, sock, hostv, work, pending, ret, life>>
\* nvmet_tcp_done_recv_pdu: a command takes a slot.  A failed nvmet_req_init
\* has queued its response; the inline data of a failed write is still read.
DoneRecvCmd ==
    /\ io = "recv" /\ rcv = "pdu" /\ in # <<>> /\ Head(in).t = "cmd" /\ free # <<>>
    /\ LET u == Head(in)
           s == Head(free)
           failed == u.kind \in {"badread", "badinline"} \/ rel \in {"destroy", "cancel"}
       IN /\ cmd' = [cmd EXCEPT ![s] = [id |-> u.id, kind |-> u.kind, err |-> failed]]
          /\ exec' = IF ~failed /\ u.kind \in {"read", "connect"} THEN exec \cup {s} ELSE exec
          /\ IF failed \/ u.kind = "write" THEN QueueResponse(s) ELSE UNCHANGED <<resp, work>>
          /\ IF u.kind \in {"inline", "badinline"}
             THEN rcv' = "data" /\ cur' = s /\ got' = 0
             ELSE PrepareReceivePdu
          /\ \/ failed /\ io' = "send" /\ UNCHANGED pending
             \/ ~failed /\ u.kind = "inline" /\ io' = "recv" /\ UNCHANGED pending
             \/ ~failed /\ u.kind # "inline" /\ RecvMore
    /\ in' = Tail(in) /\ free' = Tail(free)
    /\ UNCHANGED <<mode, sendv, sock, hostv, ret, life>>
\* nvmet_tcp_fatal_error, and io_work returns.
Fail == /\ rcv' = "err" /\ cur' = None /\ got' = 0 /\ fatal' = TRUE /\ io' = "idle"
        /\ barrier' = IF barrier > 0 THEN barrier - 1 ELSE 0
\* The last data of a command: it is executed, or its digest is read.
DataComplete ==
    IF cmd[cur].err \/ ~Digest
    THEN /\ exec' = IF cmd[cur].err THEN exec ELSE exec \cup {cur}
         /\ PrepareReceivePdu /\ RecvMore
    ELSE rcv' = "ddgst" /\ io' = "recv" /\ UNCHANGED <<cur, got, exec, pending>>
\* nvmet_tcp_try_recv_data.
TryRecvData ==
    /\ io = "recv" /\ rcv = "data" /\ in # <<>> /\ in' = Tail(in)
    /\ IF got + 1 < DataLen
       THEN got' = got + 1 /\ UNCHANGED <<rcv, cur, exec, io, pending>>
       ELSE DataComplete
    /\ UNCHANGED <<mode, slots, resp, sendv, sock, hostv, work, ret, life>>
\* nvmet_tcp_try_recv_ddgst.
TryRecvDdgst ==
    /\ io = "recv" /\ rcv = "ddgst" /\ in # <<>> /\ Head(in).ok
    /\ in' = Tail(in) /\ exec' = exec \cup {cur} /\ PrepareReceivePdu /\ RecvMore
    /\ UNCHANGED <<mode, slots, resp, sendv, sock, hostv, work, ret, life>>
\* The data of the command are freed, the command stays taken.
DdgstError ==
    /\ io = "recv" /\ rcv = "ddgst" /\ in # <<>> /\ ~Head(in).ok
    /\ in' = Tail(in) /\ Fail
    /\ UNCHANGED <<mode, slots, exec, resp, sendv, sock, hostv, work, pending, ret, state, rel,
                   closed>>

-----------------------------------------------------------------------------
(* io_work: send *)

\* nvmet_tcp_fetch_cmd: data first, then R2T, then the response.  A queue that
\* is disconnecting forgets the command it was sending.
FetchCmd ==
    /\ io = "send" /\ (snd = None \/ state = "DISCONNECTING")
    /\ IF resp = <<>>
       THEN snd' = None /\ io' = "flush" /\ ret' = "none" /\ UNCHANGED <<resp, stage>>
       ELSE LET s == Head(resp)
            IN /\ snd' = s /\ resp' = Tail(resp) /\ io' = "one" /\ UNCHANGED ret
               /\ stage' = CASE cmd[s].kind = "read" /\ ~cmd[s].err -> <<"c2h", 0>>
                             [] cmd[s].kind = "write" /\ ~cmd[s].err -> <<"r2t", 0>>
                             [] OTHER                               -> <<"rsp", 0>>
    /\ UNCHANGED <<mode, rcvd, slots, exec, caravan, ccmds, send_now, sock, hostv, work, pending,
                   life>>
ResumeCmd ==
    /\ io = "send" /\ snd # None /\ state # "DISCONNECTING" /\ io' = "one"
    /\ UNCHANGED <<mode, rcvd, slots, exec, resp, sendv, sock, hostv, work, pending, ret, life>>

\* What follows a piece of a command.
After ==
    CASE stage[1] = "c2h"                        -> <<"data", 1>>
      [] stage[1] = "data" /\ stage[2] < DataLen -> <<"data", stage[2] + 1>>
      [] stage[1] = "data" /\ Digest             -> <<"ddgst", 0>>
      [] stage[1] \in {"data", "ddgst"}          -> <<"rsp", 0>>
      [] OTHER                                   -> <<"done", 0>>
\* A piece on the wire: an R2T carries the slot as its tag.
Piece == <<stage[1], cmd[snd].id, IF stage[1] = "r2t" THEN snd ELSE stage[2]>>
\* An R2T sent waits for its data: the slot is now a write with data to come.
Advance ==
    /\ stage' = After
    /\ IF After[1] = "done" THEN snd' = None /\ io' = "flush" /\ ret' = "more"
                            ELSE UNCHANGED <<snd, io, ret>>
\* nvmet_tcp_put_cmd; the connect command does not go back to the free list.
PutCmds(S) ==
    /\ cmd' = [s \in Slot |-> IF s \in S THEN Free ELSE cmd[s]]
    /\ free' = free \o SetToSeq(S \ {Connect})
Full == Len(caravan) >= Cap
InCaravan == Aggregated /\ snd # Connect /\ stage[1] # "ddgst"

\* Mutant: a piece that finds the caravan full is skipped.
PackFull_Skips ==
    /\ io = "one" /\ InCaravan /\ Full
    /\ send_now' = TRUE /\ io' = "flush" /\ ret' = "more"
    /\ stage' = IF After[1] = "done" THEN stage ELSE After
    /\ UNCHANGED <<mode, rcvd, slots, exec, resp, snd, caravan, ccmds, sock, hostv, work,
                   pending, life>>
\* nvmet_try_send_data_pdu, _data, _r2t and _response into the caravan.
PackFull ==
    /\ io = "one" /\ InCaravan /\ Full
    /\ send_now' = TRUE /\ io' = "flush" /\ ret' = "more"
    /\ UNCHANGED <<mode, rcvd, slots, exec, resp, snd, stage, caravan, ccmds, sock, hostv, work,
                   pending, life>>
\* Mutant: the command is given back when its response is packed.
Pack_Puts ==
    /\ io = "one" /\ InCaravan /\ ~Full
    /\ caravan' = Append(caravan, [slot |-> snd, piece |-> Piece])
    /\ IF stage[1] = "rsp" THEN PutCmds({snd}) ELSE UNCHANGED slots
    /\ Advance
    /\ UNCHANGED <<mode, rcvd, exec, resp, ccmds, send_now, sock, hostv, work, pending, life>>
Pack ==
    /\ io = "one" /\ InCaravan /\ ~Full
    /\ caravan' = Append(caravan, [slot |-> snd, piece |-> Piece])
    /\ ccmds' = IF stage[1] = "rsp" THEN ccmds \cup {snd} ELSE ccmds
    /\ cmd' = IF stage[1] = "r2t" THEN [cmd EXCEPT ![snd].kind = "inline"] ELSE cmd
    /\ Advance
    /\ UNCHANGED <<mode, rcvd, free, exec, resp, send_now, sock, hostv, work, pending, life>>
\* The same without aggregation: into the socket, while there is room.
SendDirect ==
    /\ io = "one" /\ ~InCaravan /\ ~closed /\ Len(out) < SndBuf
    /\ out' = Append(out, Piece)
    /\ IF stage[1] = "rsp" THEN PutCmds({snd})
       ELSE /\ cmd' = IF stage[1] = "r2t" THEN [cmd EXCEPT ![snd].kind = "inline"] ELSE cmd
            /\ UNCHANGED free
    /\ Advance
    /\ UNCHANGED <<mode, rcvd, exec, resp, caravan, ccmds, send_now, nospace, hostv, work, pending,
                   life>>
SendAgain ==
    /\ io = "one" /\ ~InCaravan /\ ~closed /\ Len(out) >= SndBuf
    /\ nospace' = TRUE /\ io' = "flush" /\ ret' = "none"
    /\ UNCHANGED <<mode, rcvd, slots, exec, resp, sendv, out, hostv, work, pending, life>>
\* -EPIPE: io_work shuts the socket down and returns.
SendBroken ==
    /\ io = "one" /\ ~InCaravan /\ closed
    /\ io' = "idle" /\ barrier' = IF barrier > 0 THEN barrier - 1 ELSE 0
    /\ UNCHANGED <<mode, rcvd, slots, exec, resp, sendv, sock, hostv, work, pending, ret, state,
                   rel, closed, fatal>>

\* nvmet_tcp_try_send after a command: the caravan goes out when it is full,
\* when nothing is left to send or when the budget is used up.
SendNow(lastOne) == caravan # <<>> /\ (send_now \/ ret = "none" \/ lastOne)
Loop(lastOne) ==
    IF ret = "more" /\ ~lastOne THEN io' = "send" /\ UNCHANGED pending
    ELSE io' = "end" /\ pending' = (pending \/ ret = "more")
FlushCaravan ==
    /\ io = "flush"
    /\ \E lastOne \in Bool :
          /\ SendNow(lastOne) /\ Loop(lastOne)
          /\ closed \/ SndBuf - Len(out) >= Len(caravan)
    /\ out' = IF closed THEN out ELSE out \o [k \in 1 .. Len(caravan) |-> caravan[k].piece]
    /\ PutCmds(ccmds)
    /\ caravan' = <<>> /\ ccmds' = {} /\ send_now' = FALSE
    /\ UNCHANGED <<mode, rcvd, exec, resp, snd, stage, nospace, hostv, work, ret, life>>
NoSpace ==
    /\ io = "flush" /\ ~closed /\ SndBuf - Len(out) < Len(caravan)
    /\ \E lastOne \in Bool : SendNow(lastOne)
    /\ nospace' = TRUE /\ io' = "end"
    /\ UNCHANGED <<mode, rcvd, slots, exec, resp, sendv, out, hostv, work, pending, ret, life>>
KeepCaravan ==
    /\ io = "flush" /\ \E lastOne \in Bool : ~SendNow(lastOne) /\ Loop(lastOne)
    /\ UNCHANGED <<mode, rcvd, slots, exec, resp, sendv, sock, hostv, work, ret, life>>
\* Once more, or queued again when the budget is used up, or done.
EndIoWork ==
    /\ io = "end"
    /\ \/ pending /\ io' = "recv" /\ UNCHANGED <<work, barrier>>
       \/ /\ io' = "idle" /\ work' = (work \/ pending)
          /\ barrier' = IF barrier > 0 THEN barrier - 1 ELSE 0
    /\ pending' = FALSE
    /\ UNCHANGED <<mode, rcvd, slots, exec, resp, sendv, sock, hostv, ret, state, rel, closed,
                   fatal>>

-----------------------------------------------------------------------------
(* Disconnect and release *)

\* The host closes, or nvmet_ctrl_fatal_error has delete_ctrl shut the socket
\* down: nvmet_tcp_state_change schedules the release.
StateChange ==
    /\ ~closed /\ (fatal \/ MaxClose > 0) /\ state = "LIVE"
    /\ closed' = TRUE /\ tx' = <<>> /\ out' = <<>>
    /\ state' = "DISCONNECTING" /\ rel' = "flush"
    /\ barrier' = (IF work THEN 1 ELSE 0) + (IF io # "idle" THEN 1 ELSE 0)
    /\ UNCHANGED <<mode, rcvd, slots, exec, resp, sendv, nospace, last, host, issued, bad, iow,
                   fatal>>
\* nvmet_tcp_release_queue_work: flush_work, then nvmet_sq_destroy waits for
\* the backend, then cancel_work_sync, then everything is freed.
FlushWork ==
    /\ rel = "flush" /\ barrier = 0 /\ rel' = "destroy"
    /\ UNCHANGED <<mode, rcvd, slots, exec, resp, sendv, sock, hostv, iow, state, barrier, closed,
                   fatal>>
\* Mutant: the commands the backend still has are not waited for.
SqDestroy_NoWait ==
    /\ rel = "destroy" /\ rel' = "cancel"
    /\ UNCHANGED <<mode, rcvd, slots, exec, resp, sendv, sock, hostv, iow, state, barrier, closed,
                   fatal>>
SqDestroy ==
    /\ rel = "destroy" /\ exec = {} /\ rel' = "cancel"
    /\ UNCHANGED <<mode, rcvd, slots, exec, resp, sendv, sock, hostv, iow, state, barrier, closed,
                   fatal>>
CancelWork ==
    /\ rel = "cancel" /\ io = "idle" /\ work' = FALSE /\ rel' = "freed"
    /\ UNCHANGED <<mode, rcvd, slots, exec, resp, sendv, sock, hostv, io, pending, ret, state,
                   barrier, closed, fatal>>

TryRecv ==
    \/ RecvNothing \/ HandleIcreq \/ HandleH2cData \/ DoneRecvCmd
    \/ TryRecvData \/ TryRecvDdgst \/ DdgstError
TrySend ==
    \/ FetchCmd \/ ResumeCmd \/ PackFull \/ Pack \/ SendDirect \/ SendAgain \/ SendBroken
    \/ FlushCaravan \/ NoSpace \/ KeepCaravan
IoWork == StartIoWork \/ TryRecv \/ TrySend \/ EndIoWork
Release == FlushWork \/ SqDestroy \/ CancelWork

Next ==
    \/ HostIssues \/ DataReady \/ HostReads \/ WriteSpace
    \/ \E s \in Slot : Complete(s)
    \/ IoWork \/ StateChange \/ Release

Spec == Init /\ [][Next]_vars

\* The network, the host, the backend and the workers make progress.
Fairness ==
    /\ WF_vars(DataReady) /\ WF_vars(HostReads) /\ WF_vars(WriteSpace)
    /\ \A s \in Slot : WF_vars(Complete(s))
    /\ WF_vars(IoWork) /\ WF_vars(Release)
FairSpec == Spec /\ Fairness

-----------------------------------------------------------------------------
(* A queue of the i10 target (target/i10.c), which target/tcp.c was made   *)
(* from: the same receive and send paths, always aggregated except on the  *)
(* admin queue, one io_work and no steering: a queue stays on the core it  *)
(* was accepted on.                                                        *)

\* Digests are left to the admin queue, which does not aggregate.
I10Modes(adminQueue) == {<<~a, d>> : a \in adminQueue, d \in adminQueue} \ {<<TRUE, TRUE>>}

I10Init == Init
I10QueueResponse(s) == Complete(s)
I10HandleIcreq == HandleIcreq
I10HandleH2cDataPdu == HandleH2cData
I10DoneRecvPdu == DoneRecvCmd
I10TryRecvPdu == RecvNothing
I10TryRecvData == TryRecvData
I10TryRecvDdgst == TryRecvDdgst \/ DdgstError
I10FetchCmd == FetchCmd \/ ResumeCmd
I10PackPiece == PackFull \/ Pack
I10SendPiece == SendDirect \/ SendAgain \/ SendBroken
I10TrySend == FlushCaravan \/ NoSpace \/ KeepCaravan
I10IoWork ==
    \/ StartIoWork \/ I10TryRecvPdu \/ I10HandleIcreq \/ I10HandleH2cDataPdu
    \/ I10DoneRecvPdu \/ I10TryRecvData \/ I10TryRecvDdgst
    \/ I10FetchCmd \/ I10PackPiece \/ I10SendPiece \/ I10TrySend \/ EndIoWork
I10DataReady == DataReady
I10WriteSpace == WriteSpace
I10StateChange == StateChange
I10ReleaseQueueWork == FlushWork \/ SqDestroy \/ CancelWork

I10Next ==
    \/ HostIssues \/ HostReads \/ I10DataReady \/ I10WriteSpace
    \/ \E s \in Slot : I10QueueResponse(s)
    \/ I10IoWork \/ I10StateChange \/ I10ReleaseQueueWork

-----------------------------------------------------------------------------
(* Properties *)

\* What a caravan points to stays: the pages and PDUs of a packed piece belong
\* to a command that still has its slot, until the caravan is sent.
CaravanPinned ==
    \A k \in 1 .. Len(caravan) :
        cmd[caravan[k].slot].id = caravan[k].piece[2]

\* The host reads whole PDUs: data follows its header without a gap, however
\* often the caravan was full, and an id is answered once, after its data.
TargetStreamWhole ==
    LET s == <<last>> \o out \o [k \in 1 .. Len(caravan) |-> caravan[k].piece]
        rsps(i) == Cardinality({k \in 2 .. Len(s) : s[k][1] = "rsp" /\ s[k][2] = i})
    IN ~closed =>
       /\ \A k \in 2 .. Len(s) :
             /\ s[k][1] = "data" => /\ s[k - 1][2] = s[k][2]
                                    /\ s[k - 1][1] \in {"c2h", "data"} /\ s[k - 1][3] = s[k][3] - 1
             /\ s[k - 1][1] = "c2h" => s[k][1] = "data"
             /\ s[k - 1][1] = "data" /\ s[k - 1][3] < DataLen => s[k][1] = "data"
       /\ \A i \in Id : rsps(i) <= IF host[i] = "wait" THEN 1 ELSE 0

\* "This should never happen": with two slots for every command the host may
\* have outstanding, a command finds a free one, although slots held
\* by a caravan come back only when it is sent.
SlotsSuffice == rcv = "pdu" /\ in # <<>> /\ Head(in).t = "cmd" /\ ~closed => free # <<>>

\* The queue is freed when nothing can reach it: no io_work queued or running
\* and no command left in the backend whose completion would queue it.
ReleasedAtRest == rel = "freed" => io = "idle" /\ ~work /\ exec = {}

\* No answer is stranded in a caravan or behind a full socket buffer: every
\* command is answered in the end, unless the connection is closed.
TargetAnswers == <>[](closed \/ \A i \in Id : host[i] = "idle")
=============================================================================
