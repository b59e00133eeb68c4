---------------------------- MODULE NvmeTcpRecv ----------------------------
(***************************************************************************)
(* The receive side of an NVMe/TCP queue: io_work hands socket buffers cut *)
(* anywhere in the byte stream to nvme_tcp_recv_skb, which finds the PDUs  *)
(* in it with three counters and applies them to the requests.             *)
(*                                                                         *)
(* The stream is a sequence of units: two for a header, one per block of   *)
(* data, one for a data digest.  A header unit carries its PDU, a data     *)
(* unit the request and index it was sent for, a digest unit what it was   *)
(* computed over.  The network damages up to MaxBad units.                 *)
(***************************************************************************)
EXTENDS Integers, Sequences, SequencesExt, FiniteSets

CONSTANTS
    Len_,           \* Len_[r]: blocks of data of request r, read or written
    Write,          \* the requests that write
    Digests,        \* the pairs <<hdr_digest, data_digest>> to consider
    MaxSkb,         \* bound: units of a socket buffer
    MaxWire,        \* bound: the target sends only while fewer units are under way
    MaxAgain,       \* bound: runs of io_work between an error and the end of the queue
    MaxBad,         \* bound: units damaged on the way
    Rogue           \* PDUs a faulty target may slip in, one at most

Tag == DOMAIN Len_
HdrLen == 2
NoTag == 0          \* a command_id without a request

VARIABLES
    hdr_digest, data_digest,
    wire,           \* units sent by the target and not in a buffer yet
    whole, skb,     \* the buffer at hand, and what recv_skb has left of it
    pdu,            \* queue->pdu: units copied so far
    pdu_remaining, data_remaining, ddgst_remaining,
    hash,           \* units hashed since crypto_ahash_init
    rd_enabled, recovering, stopped,
    got,            \* got[r]: units copied to the buffers of r
    h2c,            \* h2c[r]: blocks r was told to send
    ended,          \* ended[r]: how often r was ended
    left, phase,    \* the target: data of r still to send or ask for; its state
    bad, rogue, again \* damaged units, rogue PDUs, reads after an error

rctx == <<pdu, pdu_remaining, data_remaining, ddgst_remaining, hash>>
target == <<left, phase, bad, rogue>>
config == <<hdr_digest, data_digest>>
vars == <<config, wire, whole, skb, rctx, rd_enabled, recovering, stopped, got, h2c, ended,
          again, target>>

\* A PDU: type, tag, number of blocks, offset, DATA_SUCCESS, DATA_LAST, and
\* whether the digest flags are the ones agreed on.
Pdu(type, r, n, off, success, last) ==
    [type |-> type, tag |-> r, n |-> n, off |-> off, success |-> success, last |-> last,
     flags |-> TRUE]
Header(p, i) == [u |-> "h", p |-> p, i |-> i, bad |-> FALSE]
Block(r, i) == [u |-> "d", r |-> r, i |-> i, bad |-> FALSE]
Digest(d) == [u |-> "g", d |-> d, bad |-> FALSE]
Blocks(p) == [k \in 1 .. p.n |-> Block(p.tag, p.off + k)]
Units(p) ==
    <<Header(p, 1), Header(p, 2)>>
      \o (IF p.type = "c2h" THEN Blocks(p) ELSE <<>>)
      \o (IF p.type = "c2h" /\ data_digest THEN <<Digest(Blocks(p))>> ELSE <<>>)

\* The header the host reads: garbage if the units are not one whole header,
\* the tag of another request if it is damaged.
Garbage == [Pdu("?", NoTag, 0, 0, FALSE, FALSE) EXCEPT !.flags = FALSE]
Read(us) ==
    IF Len(us) = HdrLen /\ us[1].u = "h" /\ us[2].u = "h" /\ us[1].p = us[2].p
       /\ us[1].i = 1 /\ us[2].i = 2
    THEN IF us[1].bad \/ us[2].bad
         THEN [us[1].p EXCEPT !.tag = (@ % Cardinality(Tag)) + 1] ELSE us[1].p
    ELSE Garbage

Init ==
    /\ (\E d \in Digests : hdr_digest = d[1] /\ data_digest = d[2]) /\ again = 0
    /\ wire = <<>> /\ whole = <<>> /\ skb = <<>> /\ pdu = <<>> /\ hash = <<>>
    /\ pdu_remaining = HdrLen /\ data_remaining = -1 /\ ddgst_remaining = 0
    /\ rd_enabled = TRUE /\ recovering = FALSE /\ stopped = FALSE
    /\ got = [r \in Tag |-> <<>>] /\ h2c = [r \in Tag |-> 0] /\ ended = [r \in Tag |-> 0]
    /\ left = Len_ /\ phase = [r \in Tag |-> "open"] /\ bad = 0 /\ rogue = 0

-----------------------------------------------------------------------------
(* The target, external: data of a read in any number of PDUs, R2Ts of a   *)
(* write one by one, then the response, or DATA_SUCCESS in its place.      *)

Send(p) == Len(wire) < MaxWire /\ wire' = wire \o Units(p)
HostUnchanged ==
    UNCHANGED <<config, whole, skb, rctx, rd_enabled, recovering, stopped, got, h2c, ended, again>>

SendData(r) ==
    /\ phase[r] = "open" /\ r \notin Write /\ left[r] > 0
    /\ \E n \in 1 .. left[r], success \in BOOLEAN :
          /\ success => n = left[r]
          /\ Send(Pdu("c2h", r, n, Len_[r] - left[r], success, n = left[r]))
          /\ left' = [left EXCEPT ![r] = @ - n]
          /\ phase' = IF success THEN [phase EXCEPT ![r] = "done"] ELSE phase
    /\ HostUnchanged /\ UNCHANGED <<bad, rogue>>
SendR2t(r) ==
    /\ phase[r] = "open" /\ r \in Write /\ left[r] > 0 /\ h2c[r] = Len_[r] - left[r]
    /\ \E n \in 1 .. left[r] :
          /\ Send(Pdu("r2t", r, n, Len_[r] - left[r], FALSE, FALSE))
          /\ left' = [left EXCEPT ![r] = @ - n]
    /\ HostUnchanged /\ UNCHANGED <<phase, bad, rogue>>
SendRsp(r) ==
    /\ phase[r] = "open" /\ left[r] = 0 /\ (r \in Write => h2c[r] = Len_[r])
    /\ Send(Pdu("rsp", r, 0, 0, FALSE, FALSE))
    /\ phase' = [phase EXCEPT ![r] = "done"]
    /\ HostUnchanged /\ UNCHANGED <<left, bad, rogue>>
SendRogue ==
    /\ rogue = 0 /\ rogue' = 1
    /\ \E p \in Rogue : (p.flags \/ hdr_digest) /\ Send(p)
    /\ HostUnchanged /\ UNCHANGED <<left, phase, bad>>
Damage ==
    /\ hdr_digest /\ data_digest /\ bad < MaxBad /\ bad' = bad + 1
    /\ \E k \in DOMAIN wire : ~wire[k].bad /\ wire' = [wire EXCEPT ![k].bad = TRUE]
    /\ HostUnchanged /\ UNCHANGED <<left, phase, rogue>>

-----------------------------------------------------------------------------
(* The host *)

HeadOf(s, n) == SubSeq(s, 1, n)
Drop(s, n) == SubSeq(s, n + 1, Len(s))
Least(a, b) == IF a < b THEN a ELSE b

\* nvme_tcp_try_recv: the next buffer, or, after an error, the same one again:
\* read_sock keeps what the actor did not accept, and nothing here looks at
\* rd_enabled.
TryRecv ==
    /\ skb = <<>> /\ ~stopped
    /\ \/ /\ whole = <<>> /\ wire # <<>>
          /\ \E n \in 1 .. Least(MaxSkb, Len(wire)) :
                /\ whole' = HeadOf(wire, n) /\ skb' = HeadOf(wire, n) /\ wire' = Drop(wire, n)
          /\ UNCHANGED again
       \/ /\ whole # <<>> /\ again < MaxAgain
          /\ skb' = whole /\ again' = again + 1 /\ UNCHANGED <<whole, wire>>
    /\ UNCHANGED <<config, rctx, rd_enabled, recovering, stopped, got, h2c, ended, target>>

\* What recv_skb makes of a result: on an error it stops with the buffer.
Advance(n) ==
    /\ skb' = Drop(skb, n)
    /\ whole' = IF n = Len(skb) THEN <<>> ELSE whole
    /\ UNCHANGED <<rd_enabled, recovering>>
Error ==
    /\ skb' = <<>> /\ rd_enabled' = FALSE /\ recovering' = TRUE
    /\ UNCHANGED whole

RecvState ==
    IF pdu_remaining > 0 THEN "pdu" ELSE IF ddgst_remaining > 0 THEN "ddgst" ELSE "data"

\* Mutant: the digest counter keeps its value.
InitRecvCtx_KeepsDdgst ==
    /\ pdu_remaining' = HdrLen /\ pdu' = <<>>
    /\ data_remaining' = -1 /\ ddgst_remaining' = ddgst_remaining
InitRecvCtx ==
    /\ pdu_remaining' = HdrLen /\ pdu' = <<>>
    /\ data_remaining' = -1 /\ ddgst_remaining' = 0

\* nvme_tcp_verify_hdgst: the flag, then the digest over the header.
VerifyHdgst(us) == Read(us).flags /\ ~(\E k \in DOMAIN us : us[k].bad)
\* nvme_tcp_check_ddgst.
CheckDdgst(p) == p.type = "c2h" => p.flags

\* nvme_tcp_handle_c2h_data, handle_comp with process_nvme_cqe, handle_r2t with
\* setup_h2c_data_pdu: whether they accept.
AcceptC2h(p) ==
    p.tag \in Tag /\ Len_[p.tag] > 0 /\ (p.success => p.last)
AcceptRsp(p) == p.tag \in Tag
AcceptR2t(p) ==
    p.tag \in Tag /\ h2c[p.tag] + p.n <= Len_[p.tag] /\ p.off >= h2c[p.tag]

\* nvme_tcp_recv_pdu: a part of the header, or the end of it, and then what
\* the PDU asks for.
RecvPdu ==
    /\ skb # <<>> /\ RecvState = "pdu"
    /\ LET n == Least(Len(skb), pdu_remaining)
           us == pdu \o HeadOf(skb, n)
           p == Read(us)
           intact == (hdr_digest => VerifyHdgst(us)) /\ (data_digest => CheckDdgst(p))
       IN \/ /\ n < pdu_remaining
             /\ pdu_remaining' = pdu_remaining - n /\ pdu' = us
             /\ Advance(n)
             /\ UNCHANGED <<data_remaining, ddgst_remaining, hash, h2c, ended>>
          \/ /\ n = pdu_remaining /\ (~intact \/ p.type \notin {"c2h", "rsp", "r2t"})
             /\ pdu_remaining' = 0 /\ pdu' = us
             /\ Error
             /\ UNCHANGED <<data_remaining, ddgst_remaining, hash, h2c, ended>>
          \/ /\ n = pdu_remaining /\ intact /\ p.type = "c2h"
             /\ pdu_remaining' = 0 /\ pdu' = us /\ hash' = <<>>
             /\ \/ AcceptC2h(p) /\ data_remaining' = p.n /\ Advance(n)
                \/ ~AcceptC2h(p) /\ data_remaining' \in {data_remaining, p.n} /\ Error
             /\ UNCHANGED <<ddgst_remaining, h2c, ended>>
          \/ /\ n = pdu_remaining /\ intact /\ p.type = "rsp"
             /\ InitRecvCtx
             /\ \/ AcceptRsp(p) /\ ended' = [ended EXCEPT ![p.tag] = @ + 1] /\ Advance(n)
                \/ ~AcceptRsp(p) /\ Error /\ UNCHANGED ended
             /\ UNCHANGED <<hash, h2c>>
          \/ /\ n = pdu_remaining /\ intact /\ p.type = "r2t"
             /\ InitRecvCtx
             /\ \/ AcceptR2t(p) /\ h2c' = [h2c EXCEPT ![p.tag] = @ + p.n] /\ Advance(n)
                \/ ~AcceptR2t(p) /\ Error /\ UNCHANGED h2c
             /\ UNCHANGED <<hash, ended>>
    /\ UNCHANGED <<config, wire, stopped, got, again, target>>

\* The end of a data PDU: DATA_SUCCESS stands for the response.
EndOfPdu(p) ==
    /\ ended' = IF p.success THEN [ended EXCEPT ![p.tag] = @ + 1] ELSE ended
    /\ InitRecvCtx

\* Mutant: the request is ended as soon as the data is there.
DataDone_Early(p) ==
    IF data_digest
    THEN /\ ddgst_remaining' = 1
         /\ ended' = IF p.success THEN [ended EXCEPT ![p.tag] = @ + 1] ELSE ended
         /\ UNCHANGED <<pdu, pdu_remaining>>
    ELSE EndOfPdu(p)
\* All blocks of the PDU are there: the digest comes next, or the end.
DataDone(p) ==
    IF data_digest
    THEN ddgst_remaining' = 1 /\ UNCHANGED <<ended, pdu, pdu_remaining>>
    ELSE EndOfPdu(p)

\* nvme_tcp_recv_data: what is there of the data goes to the request, if it has
\* room.  After an error in a header data_remaining is still -1, no limit.
RecvData ==
    /\ skb # <<>> /\ RecvState = "data"
    /\ LET p == Read(pdu)
           most == IF data_remaining < 0 THEN Len(skb) ELSE Least(Len(skb), data_remaining)
           room == IF p.tag \in Tag /\ p.tag \notin Write THEN Len_[p.tag] - Len(got[p.tag]) ELSE 0
           n == Least(most, room)
       IN \/ /\ p.tag \notin Tag
             /\ Error /\ UNCHANGED <<rctx, got, ended>>
          \/ /\ p.tag \in Tag /\ most > room
             /\ got' = [got EXCEPT ![p.tag] = @ \o HeadOf(skb, n)]
             /\ hash' = hash \o HeadOf(skb, n)
             /\ InitRecvCtx /\ Error /\ UNCHANGED ended
          \/ /\ p.tag \in Tag /\ most <= room
             /\ got' = [got EXCEPT ![p.tag] = @ \o HeadOf(skb, n)]
             /\ hash' = hash \o HeadOf(skb, n)
             /\ Advance(n)
             /\ \/ /\ n = data_remaining /\ data_remaining' = (IF data_digest THEN 0 ELSE -1)
                   /\ DataDone(p)
                \/ /\ n # data_remaining
                   /\ data_remaining' = IF data_remaining < 0 THEN -1 ELSE data_remaining - n
                   /\ UNCHANGED <<pdu, pdu_remaining, ddgst_remaining, ended>>
    /\ UNCHANGED <<config, wire, stopped, h2c, again, target>>

\* nvme_tcp_recv_ddgst.
RecvDdgst ==
    /\ skb # <<>> /\ RecvState = "ddgst"
    /\ LET g == Head(skb)
       IN \/ /\ g.u = "g" /\ ~g.bad /\ g.d = hash
             /\ EndOfPdu(Read(pdu)) /\ Advance(1)
          \/ /\ ~(g.u = "g" /\ ~g.bad /\ g.d = hash)
             /\ ddgst_remaining' = 0 /\ Error
             /\ UNCHANGED <<pdu, pdu_remaining, data_remaining, ended>>
    /\ UNCHANGED <<config, wire, hash, stopped, got, h2c, again, target>>

\* err_work stops the queue: no io_work any more.
StopQueue ==
    /\ recovering /\ skb = <<>> /\ ~stopped /\ stopped' = TRUE
    /\ UNCHANGED <<config, wire, whole, skb, rctx, rd_enabled, recovering, got, h2c, ended, again,
                   target>>

Next ==
    \/ \E r \in Tag : SendData(r) \/ SendR2t(r) \/ SendRsp(r)
    \/ SendRogue \/ Damage
    \/ TryRecv \/ RecvPdu \/ RecvData \/ RecvDdgst \/ StopQueue

Spec == Init /\ [][Next]_vars

-----------------------------------------------------------------------------
(* The receive side of an i10 host queue: i10.c has its own copy of every  *)
(* function of tcp.c's receive path, with the same counters, checks and    *)
(* errors, so each step is the one above.  Only the start of a read        *)
(* differs: i10_host_try_recv is called from the io_work that also packs   *)
(* caravans, after each batch it sends (see I10Queue).                     *)

\* i10_host_try_recv hands io_work's next buffer to i10_host_recv_skb.
I10TryRecv == TryRecv
\* A header with its digests, and the PDU's handler.
I10RecvPdu == RecvPdu
\* The data of a C2H PDU, and its digest.
I10RecvData == RecvData
I10RecvDdgst == RecvDdgst
\* i10_host_error_recovery has the queue stopped by err_work.
I10StopQueue == StopQueue

I10Next ==
    \/ SendRogue \/ Damage
    \/ \E r \in Tag : SendData(r) \/ SendR2t(r) \/ SendRsp(r)
    \/ I10TryRecv \/ I10RecvPdu \/ I10RecvData \/ I10RecvDdgst \/ I10StopQueue

-----------------------------------------------------------------------------
(* Properties, up to the first error of recv_skb *)

\* The counters always say what comes next in the stream, wherever the buffers
\* were cut: header units are read as header, data as data of the request
\* the header names, digests as digests.
StreamInSync ==
    (rd_enabled /\ skb # <<>>) =>
        CASE RecvState = "pdu"   -> Head(skb).u = "h" /\ Head(skb).i = HdrLen + 1 - pdu_remaining
          [] RecvState = "ddgst" -> Head(skb).u = "g"
          [] RecvState = "data"  -> data_remaining > 0 => Head(skb).u = "d"

\* A request is ended once at most, and then its buffers hold exactly its data,
\* in order and undamaged, or all its data has been asked for.
EndedIntact ==
    rd_enabled => \A r \in Tag : ended[r] > 0 =>
        /\ ended[r] = 1
        /\ r \in Write => h2c[r] = Len_[r]
        /\ r \notin Write => got[r] = [k \in 1 .. Len_[r] |-> Block(r, k)]

=============================================================================
