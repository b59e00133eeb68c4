-------------------------------- MODULE RtTcp --------------------------------
(***************************************************************************)
(* TCP between two Caladan runtimes: one dials, the other listens.  A step *)
(* is what one handler does under the connection's lock; segments may be   *)
(* lost, repeated and reordered at will.  Sequence numbers wrap at W.  A   *)
(* handler reads snd_nxt before it takes the lock, so a segment may be     *)
(* handled with a value that is out of date.                               *)
(***************************************************************************)
EXTENDS Integers, Sequences, FiniteSets, SequencesExt, FiniteSetsExt

CONSTANTS
    W,              \* 2^32
    ISS,            \* initial sequence number of each end
    TCP_WIN, TCP_MSS, TCP_OOO_MAX_SIZE,
    Bytes,          \* bound: bytes each end writes
    MaxSegs,        \* bound: segments sent in all
    Stale           \* may a handler be late?

End == {1, 2}       \* 1 dials
Other(e) == 3 - e
None == [sn |-> 0, fl |-> {}, len |-> 0, pos |-> 0, ack |-> 0, win |-> 0]

VARIABLES conn, net, hand
vars == <<conn, net, hand>>

lt(a, b) == ((a - b) % W) >= W \div 2
lte(a, b) == a = b \/ lt(a, b)
gt(a, b) == lt(b, a)
Before(st) == st \in {"SYN_SENT", "SYN_RECEIVED"}       \* < TCP_STATE_ESTABLISHED

-----------------------------------------------------------------------------
(* Sending.  A result r has the connection, r.c, and the segments sent, r.out. *)

\* tcp_push_tcphdr; pos is the place of the first byte in the stream.
Seg(c, sn, fl, len, pos) ==
    [sn |-> sn, fl |-> fl, len |-> len, pos |-> pos, ack |-> c.rcv_nxt, win |-> c.rcv_wnd]
Ack(c) == Seg(c, c.snd_nxt, {"A"}, 0, 0)                                    \* tcp_tx_ack
Rst(sn) == [None EXCEPT !.sn = sn, !.fl = {"R"}]                            \* tcp_tx_raw_rst
RstAck(ack) == [None EXCEPT !.fl = {"R", "A"}, !.ack = ack]                 \* tcp_tx_raw_rst_ack
Keep(c) == [c |-> c, out |-> {}]
And(r, S) == [r EXCEPT !.out = @ \cup S]

\* tcp_tx_ctl and tcp_tx_send: the segment is kept until it is acknowledged.
Transmit(c, fl, len) ==
    LET s == Seg(c, c.snd_nxt, fl, len, c.wrote)
        end == (c.snd_nxt + len + (IF {"S", "F"} \cap fl # {} THEN 1 ELSE 0)) % W
    IN [c |-> [c EXCEPT !.snd_nxt = end, !.wrote = @ + len,
                        !.txq = Append(@, [sn |-> s.sn, end |-> end, fl |-> fl, len |-> len, pos |-> s.pos])],
        out |-> {s}]
\* tcp_conn_ack
Acked(c) ==
    LET left == {i \in DOMAIN c.txq : gt(c.txq[i].end, c.snd_una)}
    IN [c EXCEPT !.txq = IF left = {} THEN <<>> ELSE SubSeq(@, Min(left), Len(@))]
\* tcp_tx_retransmit_one: what is acknowledged already is not sent again.
Again(c, q) ==
    LET cut == IF lt(q.sn, c.snd_una) THEN (c.snd_una - q.sn) % W ELSE 0
    IN Seg(c, (q.sn + cut) % W, q.fl, Max({q.len - cut, 0}), q.pos + cut)

\* tcp_conn_fail
Fail(c) == [c EXCEPT !.st = "CLOSED", !.tx_closed = TRUE, !.rx_closed = TRUE,
                     !.txq = <<>>, !.ooo = <<>>, !.rxn = 0, !.failed = TRUE]

\* The window a segment offers: one byte is kept for FIN, one for a RST.
Window(m) == IF m.win > 1 THEN m.win - 2 ELSE 0
TakeWindow(c, m) == [c EXCEPT !.snd_wnd = Window(m), !.snd_wl1 = m.sn, !.snd_wl2 = m.ack]
is_snd_full(c) == lte((c.snd_una + c.snd_wnd) % W, c.snd_nxt)

-----------------------------------------------------------------------------
(* Receiving *)

is_acceptable(c, len, sn) ==
    LET in(x) == lte(c.rcv_nxt, x) /\ lt(x, (c.rcv_nxt + c.rcv_wnd) % W)
    IN CASE len = 0 /\ c.rcv_wnd = 0 -> sn = c.rcv_nxt
         [] len = 0 /\ c.rcv_wnd > 0 -> in(sn)
         [] len > 0 /\ c.rcv_wnd = 0 -> FALSE
         [] OTHER -> in(sn) \/ in((sn + len - 1) % W)

\* tcp_rx_append_text, of m with its end; rxn counts the bytes to be read, took all
\* that were ever appended.
AppendText(c, m) ==
    LET head == (c.rcv_nxt - m.sn) % W
        over == (m.end - (c.rcv_nxt + c.rcv_wnd)) % W
        tail == IF lt((c.rcv_nxt + c.rcv_wnd) % W, m.end) THEN over ELSE 0
        text == Max({m.len - head - tail, 0})
        eats == (m.end - tail - c.rcv_nxt) % W
    IN [c EXCEPT !.rcv_nxt = (@ + eats) % W, !.rcv_wnd = @ - eats,
                 !.rcv_wnd_full = @ \/ c.rcv_wnd - eats <= TCP_MSS,
                 !.rxn = @ + text, !.took = @ + text,
                 !.fin = @ \/ "F" \in m.fl,
                 !.spoilt = @ \/ tail > 0 \/ m.pos + head # c.took]

\* The loop at the end of tcp_rx_text over the out-of-order queue.
\* Mutant: what is still out of order is taken too.
RECURSIVE Drain_Eager(_)
Drain_Eager(c) ==
    IF c.ooo = <<>> THEN c
    ELSE Drain_Eager(IF lte(Head(c.ooo).end, c.rcv_nxt) THEN [c EXCEPT !.ooo = Tail(@)]
                     ELSE AppendText([c EXCEPT !.ooo = Tail(@)], Head(c.ooo)))
RECURSIVE Drain(_)
Drain(c) ==
    IF c.ooo = <<>> THEN c
    ELSE LET top == Head(c.ooo)
             rest == [c EXCEPT !.ooo = Tail(@)]
         IN CASE lte(top.end, c.rcv_nxt) -> Drain(rest)
              [] lte(top.sn, c.rcv_nxt) /\ gt(top.end, c.rcv_nxt) -> Drain(AppendText(rest, top))
              [] OTHER -> c
\* Where an out-of-order segment goes; nowhere when another covers it.
Place(c, m) ==
    LET after == {i \in DOMAIN c.ooo : gt(m.end, c.ooo[i].end)}
        i == IF after = {} THEN 0 ELSE Max(after)
        covered == \E j \in DOMAIN c.ooo : j > i /\ ~lt(m.sn, c.ooo[j].sn)
    IN IF covered \/ Len(c.ooo) >= TCP_OOO_MAX_SIZE THEN c.ooo ELSE InsertAt(c.ooo, i + 1, m)
tcp_rx_text(c, m) ==
    IF c.rcv_wnd = 0 THEN c
    ELSE Drain(IF lte(m.sn, c.rcv_nxt) THEN AppendText(c, m) ELSE [c EXCEPT !.ooo = Place(c, m)])

\* The fast path of tcp_rx_conn, of the next segment in order.
IsFast(c, m, nxt) ==
    /\ m.fl = {"A", "P"} /\ m.len > 0 /\ ~gt(m.ack, nxt)
    /\ c.st = "ESTABLISHED" /\ ~is_snd_full(c)
    /\ m.sn = c.rcv_nxt /\ c.ooo = <<>> /\ c.rcv_wnd >= m.len
NewWindow(c, m) ==
    IF lt(c.snd_wl1, m.sn) \/ (c.snd_wl1 = m.sn /\ lte(c.snd_wl2, m.ack))
    THEN TakeWindow(c, m) ELSE c
RxFast(c, m) ==
    LET a == NewWindow(Acked([c EXCEPT !.snd_una = m.ack]), m)
    IN [a EXCEPT !.rcv_nxt = (@ + m.len) % W, !.rcv_wnd = @ - m.len,
                 !.rcv_wnd_full = a.rcv_wnd - m.len <= TCP_MSS,
                 !.rxn = @ + m.len, !.took = @ + m.len, !.ack_delayed = TRUE,
                 !.spoilt = @ \/ m.pos # a.took]

\* __tcp_rx_conn in TCP_STATE_SYN_SENT
RxSynSent(c, m, nxt) ==
    LET acks == "A" \in m.fl
        a == [c EXCEPT !.rcv_nxt = (m.sn + 1) % W, !.snd_una = IF acks THEN m.ack ELSE @]
    IN CASE acks /\ (lte(m.ack, c.iss) \/ gt(m.ack, nxt)) -> And(Keep(c), {RstAck((m.sn + m.len) % W)})
         [] acks /\ "R" \in m.fl /\ lte(c.snd_una, m.ack) /\ lte(m.ack, nxt) -> Keep(Fail(c))
         [] ~acks /\ "R" \in m.fl -> Keep(c)
         [] "S" \notin m.fl -> Keep(c)
         [] gt(a.snd_una, c.iss) ->
               LET b == [TakeWindow(Acked(a), m) EXCEPT !.st = "ESTABLISHED"] IN And(Keep(b), {Ack(b)})
         [] OTHER -> LET r == Transmit(a, {"S", "A"}, 0) IN [r EXCEPT !.c.st = "SYN_RECEIVED"]

\* Step 5: the acknowledgement, the window, and the states it ends.
RxAck(c, m, nxt) ==
    LET a == IF lte(c.snd_una, m.ack) THEN Acked([c EXCEPT !.snd_una = m.ack]) ELSE c
        b == NewWindow(a, m)
        done == b.snd_una = nxt
    IN CASE done /\ b.st = "FIN_WAIT1" -> [b EXCEPT !.st = "FIN_WAIT2"]
         [] done /\ b.st = "CLOSING" -> [b EXCEPT !.st = "TIME_WAIT"]
         [] done /\ b.st = "LAST_ACK" -> [b EXCEPT !.st = "CLOSED"]
         [] OTHER -> b
\* Step 7: the text, with FIN as its last octet.
HasText(c, len) == len > 0 /\ c.st \in {"ESTABLISHED", "FIN_WAIT1", "FIN_WAIT2"}
RxText(c, m, len) ==
    IF HasText(c, len)
    THEN [tcp_rx_text(c, [sn |-> m.sn, end |-> (m.sn + len) % W, len |-> m.len, pos |-> m.pos, fl |-> m.fl])
            EXCEPT !.ack_delayed = TRUE]
    ELSE c
\* Step 8: FIN.
RxFin(c, m) ==
    IF "F" \notin m.fl THEN c
    ELSE [c EXCEPT !.st = CASE @ = "ESTABLISHED" -> "CLOSE_WAIT"
                            [] @ = "FIN_WAIT1" -> "CLOSING"
                            [] @ = "FIN_WAIT2" -> "TIME_WAIT"
                            [] OTHER -> @]

\* __tcp_rx_conn
RxSlow(c, m, nxt) ==
    LET len == m.len + (IF "F" \in m.fl THEN 1 ELSE 0)
        open == IF c.st = "SYN_RECEIVED" THEN [TakeWindow(c, m) EXCEPT !.st = "ESTABLISHED"] ELSE c
        a == RxAck(open, m, nxt)
        t == RxText(a, m, len)
        f == RxFin(t, m)
        acknow == (HasText(a, len) /\ t.ooo # <<>>) \/ (t.st = "FIN_WAIT2" /\ f.st = "TIME_WAIT")
        late == {RstAck((m.sn + len) % W)}
        reply(S) == IF "R" \in m.fl THEN {} ELSE S
    IN IF c.st = "CLOSED" THEN And(Keep(c), reply(late))
       ELSE IF c.st = "SYN_SENT" THEN RxSynSent(c, m, nxt)
       ELSE IF ~is_acceptable(c, len, m.sn) THEN And(Keep(c), reply({Ack(c)}))
       ELSE IF "R" \in m.fl THEN Keep(Fail(c))
       ELSE IF "S" \in m.fl THEN And(Keep(Fail(c)), IF "A" \in m.fl THEN {Rst(m.ack)} ELSE late)
       ELSE IF "A" \notin m.fl THEN Keep(c)
       ELSE IF c.st = "SYN_RECEIVED" /\ ~(lte(c.snd_una, m.ack) /\ lte(m.ack, nxt)) THEN And(Keep(c), {Rst(m.ack)})
       ELSE IF gt(m.ack, nxt) THEN And(Keep(c), {Ack(c)})
       ELSE IF a.st = "CLOSED" THEN Keep(a)
       ELSE And(Keep(f), IF acknow THEN {Ack(f)} ELSE {})

\* tcp_rx_listener, and tcp_rx_closed once the connection is gone
RxListen(c, m) ==
    CASE m.fl = {"S"} ->
           LET r == Transmit([c EXCEPT !.rcv_nxt = (m.sn + 1) % W], {"S", "A"}, 0)
           IN [r EXCEPT !.c.st = "SYN_RECEIVED"]
      [] "R" \in m.fl -> Keep(c)
      [] OTHER -> And(Keep(c), IF "A" \in m.fl THEN {Rst(m.ack)} ELSE {})
RxClosed(c, m) ==
    And(Keep(c), CASE "R" \in m.fl -> {}
                   [] "A" \in m.fl -> {Rst(m.ack)}
                   [] OTHER -> {RstAck((m.sn + m.len) % W)})
Receive(c, m, nxt) ==
    CASE c.st = "LISTEN" -> RxListen(c, m)
      [] c.st = "GONE" -> RxClosed(c, m)
      [] OTHER -> IF IsFast(c, m, nxt) THEN Keep(RxFast(c, m)) ELSE RxSlow(c, m, nxt)

-----------------------------------------------------------------------------
(* The steps *)

\* tcp_conn_alloc; end 1 has dialled.
Alloc(e) == [st |-> "LISTEN", iss |-> ISS[e], snd_una |-> ISS[e], snd_nxt |-> ISS[e], snd_wnd |-> 0,
             snd_wl1 |-> 0, snd_wl2 |-> 0, rcv_nxt |-> 0, rcv_wnd |-> TCP_WIN, rcv_wnd_full |-> FALSE,
             txq |-> <<>>, ooo |-> <<>>, rxn |-> 0, fin |-> FALSE, ack_delayed |-> FALSE,
             tx_closed |-> FALSE, rx_closed |-> FALSE, failed |-> FALSE,
             wrote |-> 0, took |-> 0, spoilt |-> FALSE]
Dial == LET r == Transmit(Alloc(1), {"S"}, 0) IN [r EXCEPT !.c.st = "SYN_SENT"]

Init ==
    /\ conn = <<Dial.c, Alloc(2)>>
    /\ net = [e \in End |-> IF e = 1 THEN Dial.out ELSE {}]
    /\ hand = [e \in End |-> <<>>]

Does(e, r) ==
    /\ conn' = [conn EXCEPT ![e] = r.c]
    /\ net' = [net EXCEPT ![e] = @ \cup r.out]
    /\ \A d \in End : Cardinality(net'[d]) <= MaxSegs

\* A handler has its segment and has read snd_nxt; that is of consequence only
\* while the application may still send.
RxStart(e) ==
    \E m \in net[Other(e)] :
        /\ Stale /\ hand[e] = <<>> /\ ~conn[e].tx_closed /\ conn[e].st # "LISTEN"
        /\ hand' = [hand EXCEPT ![e] = <<m, conn[e].snd_nxt>>]
        /\ UNCHANGED <<conn, net>>
RxFinish(e) ==
    /\ hand[e] # <<>>
    /\ Does(e, Receive(conn[e], hand[e][1], hand[e][2]))
    /\ hand' = [hand EXCEPT ![e] = <<>>]
Rx(e) ==
    /\ \E m \in net[Other(e)] : Does(e, Receive(conn[e], m, conn[e].snd_nxt))
    /\ UNCHANGED hand

\* tcp_write, of n bytes that the window has room for
Write(e) ==
    LET c == conn[e] IN
    /\ ~c.tx_closed /\ ~Before(c.st) /\ c.st \notin {"LISTEN", "GONE"} /\ ~is_snd_full(c)
    /\ \E n \in 1 .. Min({(c.snd_una + c.snd_wnd - c.snd_nxt) % W, TCP_MSS, Bytes[e] - c.wrote}) :
           LET r == Transmit(c, {"A", "P"}, n) IN Does(e, [r EXCEPT !.c.ack_delayed = FALSE])
    /\ UNCHANGED hand

\* tcp_read, of n bytes; FIN ends the stream.
Read(e) ==
    LET c == conn[e] IN
    /\ ~c.rx_closed /\ (c.rxn > 0 \/ c.fin)
    /\ \E n \in {1, c.rxn} :
         LET wnd == c.rcv_wnd + n
             update == c.rcv_wnd_full /\ wnd >= TCP_MSS * 2
             d == [c EXCEPT !.rxn = @ - n, !.rcv_wnd = wnd, !.rx_closed = c.fin /\ n = c.rxn,
                            !.rcv_wnd_full = @ /\ ~update]
         IN n <= c.rxn /\ Does(e, [c |-> d, out |-> IF update THEN {Ack(d)} ELSE {}])
    /\ UNCHANGED hand

\* tcp_conn_shutdown_tx
ShutdownTx(e) ==
    LET c == conn[e]
        r == Transmit(c, {"F", "A"}, 0)
    IN /\ ~c.tx_closed /\ c.st \in {"ESTABLISHED", "CLOSE_WAIT"}
       /\ Does(e, [r EXCEPT !.c.tx_closed = TRUE,
                            !.c.st = IF c.st = "ESTABLISHED" THEN "FIN_WAIT1" ELSE "LAST_ACK"])
       /\ UNCHANGED hand

\* tcp_abort
Abort(e) ==
    /\ conn[e].st \notin {"LISTEN", "CLOSED", "GONE"}
    /\ Does(e, [c |-> Fail(conn[e]), out |-> {Rst(conn[e].snd_nxt)}])
    /\ UNCHANGED hand

\* tcp_handle_timeouts: one that is too old, a delayed acknowledgement, and a
\* retransmission, by the timer or after three repeated acknowledgements
Expire(e) ==
    LET c == conn[e] IN
    /\ \/ Before(c.st) /\ Does(e, Keep(Fail(c)))
       \/ c.st = "TIME_WAIT" /\ Does(e, Keep([c EXCEPT !.st = "CLOSED"]))
    /\ UNCHANGED hand
Timeout(e) ==
    LET c == conn[e] IN
    /\ c.st \notin {"LISTEN", "CLOSED", "GONE"}
    /\ c.ack_delayed \/ c.ooo # <<>>
    /\ Does(e, [c |-> [c EXCEPT !.ack_delayed = FALSE], out |-> {Ack(c)}])
    /\ UNCHANGED hand
Retransmit(e) ==
    /\ \E i \in DOMAIN conn[e].txq : Does(e, And(Keep(conn[e]), {Again(conn[e], conn[e].txq[i])}))
    /\ UNCHANGED hand

\* tcp_close and the last reference: the connection leaves the table.
Release(e) ==
    /\ conn[e].st = "CLOSED" /\ hand[e] = <<>>
    /\ Does(e, Keep([conn[e] EXCEPT !.st = "GONE", !.tx_closed = TRUE, !.rx_closed = TRUE]))
    /\ UNCHANGED hand

Next ==
    \E e \in End :
        \/ RxStart(e) \/ RxFinish(e) \/ Rx(e) \/ Write(e) \/ Read(e) \/ ShutdownTx(e)
        \/ Abort(e) \/ Expire(e) \/ Timeout(e) \/ Retransmit(e) \/ Release(e)
Spec == Init /\ [][Next]_vars

-----------------------------------------------------------------------------
\* What is appended to a receive queue is what the other end wrote, in order,
\* nothing twice, nothing missing, nothing cut off by the window.
StreamIntact == \A e \in End : ~conn[e].spoilt /\ conn[e].took <= conn[Other(e)].wrote
\* What an end believes acknowledged, the other has received.
AckedIsReceived ==
    \A e \in End : LET c == conn[e]
                       d == conn[Other(e)]
                   IN ~Before(c.st) /\ c.st # "LISTEN" =>
                         LET acked == (c.snd_una - c.iss - 1) % W
                         IN acked < W \div 2 => acked <= d.took + (IF d.fin THEN 1 ELSE 0)
\* A receive queue never holds more than the window that was offered.
QueueBounded == \A e \in End : conn[e].rxn <= TCP_WIN /\ conn[e].rcv_wnd >= 0
TcpSound == StreamIntact /\ AckedIsReceived /\ QueueBounded

\* snd_una is the largest acknowledgement seen.
UnaLargest == [][\A e \in End : conn[e].st = "ESTABLISHED" => ~lt(conn'[e].snd_una, conn[e].snd_una)]_vars
\* A connection whose peer closed has received all the peer wrote before.
FinInOrder ==
    \A e \in End : conn[e].st \in {"CLOSE_WAIT", "LAST_ACK", "CLOSING", "TIME_WAIT"} => conn[e].fin
=============================================================================
