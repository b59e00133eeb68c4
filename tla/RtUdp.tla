-------------------------------- MODULE RtUdp --------------------------------
(***************************************************************************)
(* A UDP socket of a Caladan runtime: its queues, its place in the table   *)
(* of transport entries, and the moment it is freed.  Handlers find the    *)
(* socket in the table under RCU and may still run after it has left the   *)
(* table.  With directpath a worker also removes the socket's hardware     *)
(* flow, for which register_flow has taken a reference.                    *)
(***************************************************************************)
EXTENDS Integers, FiniteSets

CONSTANTS
    Reader, Writer,     \* threads
    InCap, OutCap,      \* inq_cap, outq_cap
    MaxRecv             \* bound: datagrams that come in

VARIABLES
    direct,             \* cfg_directpath_enabled, of a socket that listens
    table,              \* is the entry in trans_tbl
    shutdown,
    inq, inq_wq,        \* datagrams queued; readers asleep
    outq_len, outq_wq, outq_free,
    flight,             \* datagrams given to the network
    handling,           \* a handler has found the socket
    pc,                 \* writers, and "app" that closes
    ref, released, freed,
    flow,               \* the hardware flow: "in", "leaving", "out"
    recvd               \* counts towards MaxRecv

in == <<inq, inq_wq>>
out == <<outq_len, outq_wq, outq_free, flight>>
life == <<ref, released, freed, flow>>
vars == <<direct, table, shutdown, in, out, life, handling, pc, recvd>>

\* udp_init_conn, and udp_dial or udp_listen
Init ==
    /\ direct \in BOOLEAN
    /\ table = TRUE /\ shutdown = FALSE
    /\ inq = 0 /\ inq_wq = {} /\ outq_len = 0 /\ outq_wq = {} /\ outq_free = FALSE /\ flight = 0
    /\ handling = FALSE /\ recvd = 0
    /\ pc = [t \in Writer \cup {"app"} |-> "open"]
    /\ ref = (IF direct THEN 2 ELSE 1) /\ released = 0 /\ freed = FALSE
    /\ flow = (IF direct THEN "in" ELSE "out")

\* udp_conn_put
Put == ref' = ref - 1 /\ released' = released + (IF ref = 1 THEN 1 ELSE 0)
Open == pc["app"] = "open" /\ ~freed

-----------------------------------------------------------------------------
(* Ingress: net_rx_trans, of a packet whose socket trans_lookup finds.  What  *)
(* trans_error looks up is the tuple of an egress packet, through a network    *)
(* offset that no egress path sets: it finds no socket, and inq_err stays 0.   *)

Lookup ==
    /\ table /\ ~handling /\ recvd < MaxRecv
    /\ handling' = TRUE /\ recvd' = recvd + 1
    /\ UNCHANGED <<direct, table, shutdown, in, out, life, pc>>
\* udp_conn_recv: dropped when the queue is full or shut down
udp_conn_recv ==
    /\ handling
    /\ handling' = FALSE
    /\ IF inq >= InCap \/ shutdown THEN UNCHANGED <<inq, inq_wq>>
       ELSE /\ inq' = inq + 1
            /\ \/ inq_wq = {} /\ inq_wq' = {}
               \/ \E t \in inq_wq : inq_wq' = inq_wq \ {t}
    /\ UNCHANGED <<direct, table, shutdown, out, life, pc, recvd>>

\* udp_read_from
udp_read_from(t) ==
    /\ Open /\ t \notin inq_wq
    /\ \/ inq = 0 /\ ~shutdown /\ inq_wq' = inq_wq \cup {t} /\ UNCHANGED inq
       \/ inq > 0 /\ inq' = inq - 1 /\ UNCHANGED inq_wq
    /\ UNCHANGED <<direct, table, shutdown, out, life, handling, pc, recvd>>

-----------------------------------------------------------------------------
(* Egress *)

\* udp_write_to: a place in the queue, then a buffer, then the network
WriteWait(t) ==
    /\ pc[t] = "open" /\ Open /\ t \notin outq_wq /\ ~shutdown
    /\ IF outq_len >= OutCap THEN outq_wq' = outq_wq \cup {t} /\ UNCHANGED <<outq_len, pc>>
       ELSE outq_len' = outq_len + 1 /\ pc' = [pc EXCEPT ![t] = "send"] /\ UNCHANGED outq_wq
    /\ UNCHANGED <<direct, table, shutdown, in, outq_free, flight, life, handling, recvd>>
WriteSend(t) ==
    /\ pc[t] = "send"
    /\ pc' = [pc EXCEPT ![t] = "open"]
    /\ flight' = flight + 1
    /\ UNCHANGED <<direct, table, shutdown, in, outq_len, outq_wq, outq_free, life, handling, recvd>>
WriteFails(t) ==                        \* net_tx_alloc_mbuf or udp_send_raw: outq_len stays
    /\ pc[t] = "send"
    /\ pc' = [pc EXCEPT ![t] = "open"]
    /\ UNCHANGED <<direct, table, shutdown, in, out, life, handling, recvd>>

\* udp_tx_release_mbuf
\* Mutant: it looks at outq_free only.
udp_tx_release_mbuf_Any ==
    /\ flight > 0
    /\ flight' = flight - 1 /\ outq_len' = outq_len - 1
    /\ outq_wq' \in (IF shutdown \/ outq_wq = {} THEN {outq_wq} ELSE {outq_wq \ {t} : t \in outq_wq})
    /\ IF outq_free THEN Put ELSE UNCHANGED <<ref, released>>
    /\ UNCHANGED <<direct, table, shutdown, in, outq_free, freed, flow, handling, pc, recvd>>
udp_tx_release_mbuf ==
    /\ flight > 0
    /\ flight' = flight - 1 /\ outq_len' = outq_len - 1
    /\ outq_wq' \in (IF shutdown \/ outq_wq = {} THEN {outq_wq} ELSE {outq_wq \ {t} : t \in outq_wq})
    /\ IF outq_free /\ outq_len' = 0 THEN Put ELSE UNCHANGED <<ref, released>>
    /\ UNCHANGED <<direct, table, shutdown, in, outq_free, freed, flow, handling, pc, recvd>>

-----------------------------------------------------------------------------
(* The end *)

\* __udp_shutdown, then the wake-ups of udp_shutdown
Shutdown ==
    /\ Open /\ ~shutdown
    /\ shutdown' = TRUE /\ table' = FALSE
    /\ pc' = [pc EXCEPT !["app"] = "wake"]
    /\ UNCHANGED <<direct, in, out, life, handling, recvd>>
ShutdownWake ==
    /\ pc["app"] = "wake"
    /\ inq_wq' = {}
    /\ outq_wq' = {}
    /\ pc' = [pc EXCEPT !["app"] = "open"]
    /\ UNCHANGED <<direct, table, shutdown, inq, outq_len, outq_free, flight, life, handling, recvd>>

\* udp_close, by the last user: nobody reads or writes
Close ==
    /\ Open /\ inq_wq = {} /\ outq_wq = {} /\ \A t \in Writer : pc[t] = "open"
    /\ shutdown' = TRUE /\ table' = FALSE /\ inq' = 0
    /\ outq_free' = TRUE
    /\ pc' = [pc EXCEPT !["app"] = IF outq_len = 0 THEN "put" ELSE "closed"]
    /\ flow' = IF flow = "in" THEN "leaving" ELSE flow
    /\ UNCHANGED <<direct, inq_wq, outq_len, outq_wq, flight, ref, released, freed, handling, recvd>>
ClosePut ==
    /\ pc["app"] = "put"
    /\ Put
    /\ pc' = [pc EXCEPT !["app"] = "closed"]
    /\ UNCHANGED <<direct, table, shutdown, in, out, freed, flow, handling, recvd>>
\* flow_registration_worker: it calls the release function itself.
DeregisterFlow ==
    /\ flow = "leaving"
    /\ flow' = "out" /\ released' = released + 1
    /\ UNCHANGED <<direct, table, shutdown, in, out, ref, freed, handling, pc, recvd>>
\* udp_finish_release_conn, once no handler is running
Free ==
    /\ released > 0 /\ ~freed /\ ~handling
    /\ freed' = TRUE
    /\ UNCHANGED <<direct, table, shutdown, in, out, ref, released, flow, handling, pc, recvd>>

Next ==
    \/ Lookup \/ udp_conn_recv
    \/ \E t \in Reader : udp_read_from(t)
    \/ \E t \in Writer : WriteWait(t) \/ WriteSend(t) \/ WriteFails(t)
    \/ udp_tx_release_mbuf \/ Shutdown \/ ShutdownWake \/ Close \/ ClosePut \/ DeregisterFlow \/ Free
Spec == Init /\ [][Next]_vars

-----------------------------------------------------------------------------
\* Nobody sleeps on a socket that has been shut down, or with room to write;
\* a datagram that is queued finds a reader.
NoneStranded ==
    /\ shutdown /\ pc["app"] # "wake" => inq_wq = {} /\ outq_wq = {}
    /\ inq_wq # {} /\ inq > 0 => Cardinality(inq_wq) + inq <= Cardinality(Reader)
    /\ outq_wq # {} /\ ~shutdown => outq_len + Cardinality({t \in Writer : pc[t] = "open"} \ outq_wq) >= OutCap
\* Queues stay within their bounds, and what is in flight has its place.
PlacesRight ==
    /\ inq <= InCap /\ outq_len <= OutCap
    /\ outq_len >= flight + Cardinality({t \in Writer : pc[t] = "send"})
\* A socket is released once, when it has left the table and nothing of it is queued;
\* without a hardware flow, nothing of it is in flight either.
ReleasedOnce ==
    /\ released <= 1
    /\ released = 1 => ~table /\ inq = 0 /\ inq_wq = {} /\ outq_wq = {}
    /\ released = 1 /\ ~direct => flight = 0 /\ outq_len = 0
UdpSound == NoneStranded /\ PlacesRight /\ ReleasedOnce

\* Every place taken in the transmit queue is in use.
PlacesReturned == outq_len = flight + Cardinality({t \in Writer : pc[t] = "send"})
\* A socket that is freed has no datagram in flight whose completion will touch it.
FreedUnused == freed => flight = 0
=============================================================================
