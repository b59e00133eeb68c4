----------------------------- MODULE RtTcpConn -----------------------------
(***************************************************************************)
(* The life of one TCP connection of a Caladan runtime: who holds it, who  *)
(* waits for it and when it is freed.  The application dials or accepts,   *)
(* reads, writes, shuts down and closes; packets come in; tcp_worker sees  *)
(* timeouts and spawns threads that retransmit.  Every section under the   *)
(* connection's lock is one step.  tx_exclusive lets a writer send without *)
(* the lock.  What the segments hold is the matter of RtTcp.               *)
(***************************************************************************)
EXTENDS Integers, FiniteSets

CONSTANTS
    MaxQ,           \* bound: segments in a queue
    Rtx,            \* names of the threads that may retransmit
    Hasty,          \* may the application shut down before the handshake ends?
    Scarce          \* may buffers run out for a FIN that comes too late?

Threads == {"app", "writer"} \cup Rtx

VARIABLES
    state,          \* c->pcb.state
    ref,            \* c->ref
    txx, rxx,       \* tx_exclusive, rx_exclusive
    txc, rxc,       \* tx_closed, rx_closed
    txq, unacked,   \* length of txq; how many of them are not acknowledged
    full,           \* is_snd_full
    rxq, fin,       \* length of rxq; is its last a FIN
    tx_wq, rx_wq,   \* threads that sleep
    pc,             \* what each thread does
    listed,         \* is it in the listen queue
    destroyed, freed,
    trouble         \* assertions and warnings met

pcb == <<state, ref, destroyed>>
tx == <<txx, txc, txq, unacked, full, tx_wq>>
rx == <<rxx, rxc, rxq, fin, rx_wq>>
vars == <<pcb, tx, rx, pc, listed, freed, trouble>>

Before == state \in {"SYN_SENT", "SYN_RECEIVED"}

-----------------------------------------------------------------------------
\* tcp_conn_set_state and tcp_conn_put together: n references are dropped, and the
\* last one destroys the connection.
Becomes(s, n) ==
    /\ state' = s
    /\ ref' = ref - n
    /\ destroyed' = destroyed + (IF n > 0 /\ ref = n THEN 1 ELSE 0)

\* tcp_conn_fail
Fail ==
    /\ Becomes("CLOSED", 1)
    /\ txc' = TRUE /\ rxc' = TRUE /\ UNCHANGED <<txx, rxx>>
    /\ tx_wq' = IF ~txc \/ Before THEN {} ELSE tx_wq
    /\ rx_wq' = IF ~rxc THEN {} ELSE rx_wq
    /\ IF txx THEN UNCHANGED <<txq, unacked>> ELSE txq' = 0 /\ unacked' = 0
    /\ rxq' = IF rxx THEN rxq ELSE 0
    /\ UNCHANGED <<full, fin>>

\* tcp_dial, up to its wait; tcp_rx_listener and the end of tcp_queue_recv
Init ==
    /\ listed \in BOOLEAN
    /\ state = (IF listed THEN "SYN_RECEIVED" ELSE "SYN_SENT")
    /\ ref = 2 /\ txx = FALSE /\ rxx = FALSE /\ txc = FALSE /\ rxc = FALSE
    /\ txq = 1 /\ unacked = 1 /\ full = TRUE /\ rxq = 0 /\ fin = FALSE
    /\ tx_wq = (IF listed THEN {} ELSE {"app"}) /\ rx_wq = {}
    /\ pc = [t \in Threads \cup {"reader"} |-> IF t # "app" THEN "idle" ELSE IF listed THEN "listen" ELSE "dial"]
    /\ destroyed = 0 /\ freed = FALSE /\ trouble = {}

Go(t, p) == pc' = [pc EXCEPT ![t] = p]
Live == ~freed
Steps == UNCHANGED <<listed, freed, trouble>>

-----------------------------------------------------------------------------
(* tcp_rx_conn: what a segment does, by its effect *)

Trim(n) == unacked' = n /\ txq' = IF txx THEN txq ELSE n      \* tcp_conn_ack
\* the handshake ends: set_state wakes the senders
RxEstablished ==
    /\ Live /\ Before
    /\ Becomes("ESTABLISHED", 0) /\ Trim(0)
    /\ full' \in BOOLEAN /\ tx_wq' = {}
    /\ UNCHANGED <<txx, txc, rx, pc>> /\ Steps
\* an acknowledgement of all but n segments; the last may be our FIN
RxAck ==
    /\ Live /\ ~Before /\ state # "CLOSED"
    /\ \E n \in 0 .. unacked :
         /\ Trim(n)
         /\ CASE n = 0 /\ state = "FIN_WAIT1" -> Becomes("FIN_WAIT2", 0)
              [] n = 0 /\ state = "CLOSING" -> Becomes("TIME_WAIT", 0)
              [] n = 0 /\ state = "LAST_ACK" -> Becomes("CLOSED", 1)
              [] OTHER -> UNCHANGED pcb
    /\ full' \in {full, FALSE}
    /\ tx_wq' = IF full /\ ~full' THEN {} ELSE tx_wq
    /\ UNCHANGED <<txx, txc, rx, pc>> /\ Steps
\* text, with or without FIN; one reader is woken
RxText ==
    /\ Live /\ state \in {"ESTABLISHED", "FIN_WAIT1", "FIN_WAIT2"} /\ rxq < MaxQ /\ ~fin
    /\ rxq' = rxq + 1 /\ rx_wq' = {}
    /\ \/ fin' = FALSE /\ UNCHANGED pcb
       \/ /\ fin' = TRUE
          /\ Becomes(CASE state = "ESTABLISHED" -> "CLOSE_WAIT" [] state = "FIN_WAIT1" -> "CLOSING"
                       [] state = "FIN_WAIT2" -> "TIME_WAIT", 0)
    /\ UNCHANGED <<tx, rxx, rxc, pc>> /\ Steps
RxRst ==
    /\ Live /\ state # "CLOSED"
    /\ Fail
    /\ UNCHANGED pc /\ Steps

-----------------------------------------------------------------------------
(* tcp_worker: tcp_handle_timeouts *)

ConnectTimeout == Live /\ Before /\ Fail /\ UNCHANGED pc /\ Steps
TimeWaitTimeout ==
    /\ Live /\ state = "TIME_WAIT"
    /\ Becomes("CLOSED", 1)
    /\ UNCHANGED <<tx, rx, pc>> /\ Steps
RetransmitTimeout ==
    /\ Live /\ state # "CLOSED" /\ ~txx /\ txq > 0
    /\ \E i \in Rtx : pc[i] = "idle" /\ Go(i, "spawned")
    /\ ref' = ref + 1
    /\ UNCHANGED <<state, destroyed, tx, rx>> /\ Steps

(* tcp_retransmit.  A thread is not an RCU reader: the reference is all it has. *)

Retransmit(i) ==
    /\ pc[i] = "spawned" /\ i \notin tx_wq
    /\ \/ txx /\ state # "CLOSED" /\ tx_wq' = tx_wq \cup {i} /\ UNCHANGED <<pcb, txx, pc>>
       \/ ~txx /\ state # "CLOSED" /\ txx' = TRUE /\ Go(i, "resend") /\ UNCHANGED <<pcb, tx_wq>>
       \/ state = "CLOSED" /\ Becomes("CLOSED", 1) /\ Go(i, "idle") /\ UNCHANGED <<txx, tx_wq>>
    /\ UNCHANGED <<txc, txq, unacked, full, rx>> /\ Steps
\* tcp_write_finish
\* Mutant: it wakes nobody.
Finish_Silent ==
    /\ txx' = FALSE
    /\ txq' = (IF state = "CLOSED" THEN 0 ELSE unacked)
    /\ unacked' = txq'
    /\ UNCHANGED <<txc, full, tx_wq>>
Finish ==
    /\ txx' = FALSE /\ tx_wq' = {}
    /\ txq' = (IF state = "CLOSED" THEN 0 ELSE unacked)
    /\ unacked' = txq'
    /\ UNCHANGED <<txc, full>>
RetransmitDone(i) ==
    /\ pc[i] = "resend"
    /\ Finish
    /\ Go(i, "put")
    /\ UNCHANGED <<pcb, rx>> /\ Steps
RetransmitPut(i) ==
    /\ pc[i] = "put"
    /\ Becomes(state, 1)
    /\ Go(i, "idle")
    /\ UNCHANGED <<tx, rx>> /\ Steps

-----------------------------------------------------------------------------
(* The application.  Only the last user may close; no thread sleeps then. *)

Quiet == pc["writer"] = "idle" /\ pc["reader"] = "idle"

\* tcp_dial after its wait
Dialled ==
    /\ pc["app"] = "dial" /\ "app" \notin tx_wq
    /\ \/ txc /\ Go("app", "gone") /\ destroyed' = destroyed + 1 /\ UNCHANGED <<state, ref>>
       \/ ~txc /\ ~Before /\ Go("app", "open") /\ UNCHANGED pcb
    /\ UNCHANGED <<tx, rx>> /\ Steps
\* tcp_accept, and tcp_qclose with the connection still queued
Accept ==
    /\ pc["app"] = "listen"
    /\ listed' = FALSE /\ Go("app", "open")
    /\ UNCHANGED <<pcb, tx, rx, freed, trouble>>
QueueClose ==
    /\ pc["app"] = "listen"
    /\ listed' = FALSE /\ Go("app", "gone")
    /\ destroyed' = destroyed + 1
    /\ UNCHANGED <<state, ref, tx, rx, freed, trouble>>

\* tcp_writev
Blocked == Before \/ txx \/ full
WriteWait ==
    /\ pc["writer"] \in {"idle", "wait"} /\ "writer" \notin tx_wq
    /\ pc["writer"] = "idle" => pc["app"] = "open"
    /\ \/ txc /\ Go("writer", "idle") /\ UNCHANGED <<txx, tx_wq>>
       \/ ~txc /\ Blocked /\ Go("writer", "wait") /\ tx_wq' = tx_wq \cup {"writer"} /\ UNCHANGED txx
       \/ ~txc /\ ~Blocked /\ Go("writer", "send") /\ txx' = TRUE /\ UNCHANGED tx_wq
    /\ UNCHANGED <<pcb, txc, txq, unacked, full, rx>> /\ Steps
\* tcp_tx_send: out of buffers, or one more segment
WriteSend ==
    /\ pc["writer"] = "send"
    /\ \/ UNCHANGED <<txq, unacked, full>>
       \/ txq < MaxQ /\ txq' = txq + 1 /\ unacked' = unacked + 1 /\ full' \in BOOLEAN
    /\ Go("writer", "finish")
    /\ UNCHANGED <<pcb, txx, txc, tx_wq, rx>> /\ Steps
WriteFinish ==
    /\ pc["writer"] = "finish"
    /\ Finish
    /\ Go("writer", "idle")
    /\ UNCHANGED <<pcb, rx>> /\ Steps
\* tcp_write keeps the lock.
Write ==
    /\ pc["writer"] = "idle" /\ pc["app"] = "open" /\ ~txc /\ ~Blocked /\ txq < MaxQ
    /\ txq' = txq + 1 /\ unacked' = unacked + 1 /\ full' \in BOOLEAN
    /\ UNCHANGED <<pcb, txx, txc, tx_wq, rx, pc>> /\ Steps

\* tcp_read: a buffer read in part stays in the queue; FIN closes the direction.
ReadWait ==
    /\ pc["reader"] \in {"idle", "wait"} /\ "reader" \notin rx_wq
    /\ pc["reader"] = "idle" => pc["app"] = "open"
    /\ \/ rxc /\ Go("reader", "idle") /\ UNCHANGED rx
       \/ ~rxc /\ (rxx \/ rxq = 0) /\ Go("reader", "wait") /\ rx_wq' = {"reader"} /\ UNCHANGED <<rxx, rxc, rxq, fin>>
       \/ /\ ~rxc /\ ~rxx /\ rxq > 0
          /\ \/ Go("reader", "copy") /\ rxx' = TRUE /\ ~(fin /\ rxq = 1) /\ UNCHANGED <<rxq, rxc>>
             \/ Go("reader", "idle") /\ rxq' = rxq - 1 /\ rxc' = (fin /\ rxq = 1) /\ UNCHANGED rxx
          /\ rx_wq' = {} /\ UNCHANGED fin
    /\ UNCHANGED <<pcb, tx>> /\ Steps
ReadFinish ==
    /\ pc["reader"] = "copy"
    /\ rxx' = FALSE /\ rx_wq' = {} /\ Go("reader", "idle")
    /\ UNCHANGED <<pcb, tx, rxc, rxq, fin>> /\ Steps

\* tcp_conn_shutdown_tx, called by t, waits for the writer and then sends FIN, whatever
\* has become of the connection meanwhile.
Enter(t) ==
    \/ pc["app"] = t
    \/ pc["app"] = "open" /\ ~txc /\ (Before => Hasty)
ShutdownTx(t, done) ==
    /\ Enter(t) /\ "app" \notin tx_wq
    /\ IF txx THEN tx_wq' = tx_wq \cup {"app"} /\ Go("app", t) /\ UNCHANGED <<pcb, txc, txq, unacked, trouble>>
       ELSE /\ txq' = txq + 1 /\ unacked' = unacked + 1
            /\ txc' = TRUE /\ tx_wq' = {} /\ Go("app", done)
            /\ CASE state = "ESTABLISHED" -> Becomes("FIN_WAIT1", 0) /\ UNCHANGED trouble
                 [] state = "CLOSE_WAIT" -> Becomes("LAST_ACK", 0) /\ UNCHANGED trouble
                 [] OTHER -> UNCHANGED pcb /\ trouble' = trouble \cup {IF Before THEN "assert" ELSE "WARN"}
    /\ UNCHANGED <<txx, full, listed, freed>>

\* tcp_shutdown(SHUT_WR), tcp_shutdown(SHUT_RD)
Shutdown == ShutdownTx("shutdown", "open") /\ UNCHANGED rx
ShutdownRx ==
    /\ pc["app"] = "open" /\ ~rxc
    /\ rxc' = TRUE /\ rx_wq' = {}
    /\ UNCHANGED <<pcb, tx, rxx, rxq, fin, pc>> /\ Steps

\* tcp_abort
Abort ==
    /\ pc["app"] = "open" /\ state # "CLOSED"
    /\ Fail
    /\ Go("app", "abort") /\ Steps
AbortGo ==
    /\ pc["app"] = "abort" /\ "app" \notin tx_wq
    /\ IF txx THEN tx_wq' = tx_wq \cup {"app"} /\ UNCHANGED pc ELSE UNCHANGED tx_wq /\ Go("app", "open")
    /\ UNCHANGED <<pcb, txx, txc, txq, unacked, full, rx>> /\ Steps

\* tcp_close: FIN unless the direction is closed already, then the reference
Close ==
    /\ Quiet
    /\ \/ /\ ShutdownTx("close", "put")
          /\ IF pc'["app"] = "put" THEN rxc' = TRUE ELSE UNCHANGED rxc
          /\ UNCHANGED <<rxx, rxq, fin, rx_wq>>
       \/ /\ pc["app"] = "open" /\ txc
          /\ Go("app", "put") /\ rxc' = TRUE
          /\ UNCHANGED <<pcb, tx, rxx, rxq, fin, rx_wq>> /\ Steps
CloseFail ==                                    \* no buffer for FIN
    /\ Quiet /\ Enter("close") /\ ~txx /\ "app" \notin tx_wq
    /\ state = "CLOSED" => Scarce
    /\ Fail
    /\ Go("app", "put") /\ Steps
ClosePut ==
    /\ pc["app"] = "put"
    /\ Becomes(state, 1)
    /\ Go("app", "gone")
    /\ UNCHANGED <<tx, rx>> /\ Steps

\* tcp_conn_release, after an RCU period
Release ==
    /\ destroyed > 0 /\ ~freed
    /\ freed' = TRUE
    /\ UNCHANGED <<pcb, tx, rx, pc, listed, trouble>>

Next ==
    \/ RxEstablished \/ RxAck \/ RxText \/ RxRst
    \/ ConnectTimeout \/ TimeWaitTimeout \/ RetransmitTimeout
    \/ \E i \in Rtx : Retransmit(i) \/ RetransmitDone(i) \/ RetransmitPut(i)
    \/ Dialled \/ Accept \/ QueueClose
    \/ WriteWait \/ WriteSend \/ WriteFinish \/ Write \/ ReadWait \/ ReadFinish
    \/ Shutdown \/ ShutdownRx \/ Abort \/ AbortGo
    \/ Close \/ CloseFail \/ ClosePut \/ Release
Spec == Init /\ [][Next]_vars

-----------------------------------------------------------------------------
\* The application, the state machine and every thread that retransmits have one
\* reference each, and the connection is destroyed once, when it is closed.
Holders == (IF pc["app"] = "gone" THEN 0 ELSE 1) + (IF state = "CLOSED" THEN 0 ELSE 1)
           + Cardinality({i \in Rtx : pc[i] # "idle"})
RefsRight ==
    /\ destroyed <= 1
    /\ destroyed = 0 => ref = Holders /\ (ref > 0)
    /\ ref = 0 => state = "CLOSED"
\* Nobody sleeps once what it waits for has come.
NoneStranded ==
    /\ "writer" \in tx_wq => ~txc /\ Blocked
    /\ tx_wq \cap Rtx # {} \/ ("app" \in tx_wq /\ pc["app"] # "dial") => txx
    /\ "app" \in tx_wq /\ pc["app"] = "dial" => ~txc /\ Before
    /\ rx_wq # {} => ~rxc /\ (rxx \/ rxq = 0)
\* The sender that has exclusive access is there, and only one.
OneSender ==
    Cardinality({t \in Threads : pc[t] \in {"send", "finish", "resend"}}) = IF txx THEN 1 ELSE 0
ConnSound == RefsRight /\ NoneStranded /\ OneSender

\* A thread that retransmits holds a reference: the connection it works on is there.
HeldWhileResent == \A i \in Rtx : pc[i] # "idle" => ~freed
\* tcp_conn_shutdown_tx is only called once the connection is established.
ShutdownEstablished == "assert" \notin trouble
\* The state a shutdown finds is one of those it knows: its WARN is never met.
NoWarning == trouble = {}
=============================================================================
