------------------------------- MODULE RtNetTx -------------------------------
(***************************************************************************)
(* The transmit side of a Caladan runtime: buffers of the transmit pool,   *)
(* address resolution for one next hop (arp.c), and the queues of each     *)
(* kthread to the IOKernel with their overflow (core.c).  Threads of two   *)
(* kthreads send, receive ARP packets and age the entry concurrently; the  *)
(* entry is read under RCU first and again under arp_lock.                 *)
(***************************************************************************)
EXTENDS Integers, Sequences, FiniteSets, SequencesExt

CONSTANTS
    K,                  \* kthreads
    Mbuf,               \* buffers of net_tx_buf_mp
    Ring,               \* size of txpktq
    ARP_RETRIES

None == [state |-> "none", tries_left |-> 0, q |-> <<>>]
Probing == [state |-> "probing", tries_left |-> ARP_RETRIES, q |-> <<>>]
Static == [Probing EXCEPT !.state = "static"]

VARIABLES
    pool,               \* buffers that are free
    entry,              \* arp_tbl
    over, ring,         \* txpktq_overflow, txpktq
    at,                 \* where the thread on each kthread is
    mine,               \* the buffer of its own packet, <<>> or <<m>>
    newe,               \* it has an entry to insert
    todo, then          \* buffers it gives to net_tx_raw, and where it goes next

vars == <<pool, entry, over, ring, at, mine, newe, todo, then>>
mem == <<over, ring>>

Init ==
    /\ pool = Mbuf /\ entry \in {None, Static}    \* arp_init, arp_init_late
    /\ over = [k \in K |-> <<>>] /\ ring = [k \in K |-> <<>>]
    /\ at = [k \in K |-> "idle"] /\ mine = [k \in K |-> <<>>] /\ newe = [k \in K |-> FALSE]
    /\ todo = [k \in K |-> <<>>] /\ then = [k \in K |-> "idle"]

\* The thread on k gives the buffers s to net_tx_raw one after the other, then goes to x.
Raw(k, s, x) ==
    /\ todo' = [todo EXCEPT ![k] = s] /\ then' = [then EXCEPT ![k] = IF s = <<>> THEN "idle" ELSE x]
    /\ at' = [at EXCEPT ![k] = IF s = <<>> THEN x ELSE "raw"]
\* arp_send: nothing is sent when there is no buffer
arp_send(free, k, x) ==
    IF free = {} THEN pool' = free /\ Raw(k, <<>>, x)
    ELSE \E m \in free : pool' = free \ {m} /\ Raw(k, <<m>>, x)

-----------------------------------------------------------------------------
(* net_tx_ip *)

Send(k) ==                              \* net_tx_alloc_mbuf by a transport protocol
    /\ at[k] = "idle"
    /\ \E m \in pool : pool' = pool \ {m} /\ mine' = [mine EXCEPT ![k] = <<m>>]
    /\ at' = [at EXCEPT ![k] = "lookup"]
    /\ UNCHANGED <<entry, mem, newe, todo, then>>

\* arp_lookup, hot path: under rcu_read_lock
LookupHot(k) ==
    /\ at[k] = "lookup"
    /\ \/ /\ entry.state \notin {"none", "probing"}
          /\ Raw(k, mine[k], "idle") /\ mine' = [mine EXCEPT ![k] = <<>>]
          /\ UNCHANGED <<pool, newe>>
       \/ /\ entry.state = "probing"
          /\ at' = [at EXCEPT ![k] = "cold"]
          /\ UNCHANGED <<pool, mine, newe, todo, then>>
       \/ /\ entry.state = "none"
          /\ arp_send(pool, k, "cold")
          /\ newe' = [newe EXCEPT ![k] = TRUE]
          /\ UNCHANGED mine
       \/ /\ entry.state = "none"       \* create_entry fails: the caller frees
          /\ arp_send(pool, k, "free")
          /\ UNCHANGED <<mine, newe>>
    /\ UNCHANGED <<entry, mem>>
FreeMine(k) ==
    /\ at[k] = "free"
    /\ pool' = pool \cup ToSet(mine[k])
    /\ mine' = [mine EXCEPT ![k] = <<>>] /\ at' = [at EXCEPT ![k] = "idle"]
    /\ UNCHANGED <<entry, mem, newe, todo, then>>

\* arp_lookup, cold path: under arp_lock
\* Mutant: the state is not looked at again.
LookupCold_Once(k) ==
    /\ at[k] = "cold"
    /\ mine' = [mine EXCEPT ![k] = <<>>] /\ newe' = [newe EXCEPT ![k] = FALSE]
    /\ LET e == IF entry.state = "none" /\ newe[k] THEN Probing ELSE entry IN
       IF e.state # "none" THEN /\ entry' = [e EXCEPT !.q = @ \o mine[k]]
                                /\ at' = [at EXCEPT ![k] = "idle"] /\ UNCHANGED <<pool, todo, then>>
       ELSE /\ pool' = pool \cup ToSet(mine[k])
            /\ at' = [at EXCEPT ![k] = "idle"] /\ UNCHANGED <<entry, todo, then>>
    /\ UNCHANGED mem
LookupCold(k) ==
    /\ at[k] = "cold"
    /\ mine' = [mine EXCEPT ![k] = <<>>] /\ newe' = [newe EXCEPT ![k] = FALSE]
    /\ LET e == IF entry.state = "none" /\ newe[k] THEN Probing ELSE entry IN
       \/ /\ e.state \notin {"none", "probing"}
          /\ Raw(k, mine[k], "idle") /\ UNCHANGED <<pool, entry>>
       \/ /\ e.state = "probing"
          /\ entry' = [e EXCEPT !.q = @ \o mine[k]]
          /\ at' = [at EXCEPT ![k] = "idle"] /\ UNCHANGED <<pool, todo, then>>
       \/ /\ e.state = "none"           \* removed meanwhile: taken as unreachable
          /\ pool' = pool \cup ToSet(mine[k])
          /\ at' = [at EXCEPT ![k] = "idle"] /\ UNCHANGED <<entry, todo, then>>
    /\ UNCHANGED mem

-----------------------------------------------------------------------------
(* The entry *)

\* net_rx_arp: arp_update, then the packets that waited, then a reply to a request
RxArp(k) ==
    /\ at[k] = "idle"
    /\ \/ entry.state # "static" /\ entry' = [Probing EXCEPT !.state = "valid"]
       \/ entry.state \in {"none", "static"} /\ entry' = entry    \* create_entry fails; left alone
    /\ \/ Raw(k, entry.q, "idle") \/ Raw(k, entry.q, "reply")
    /\ UNCHANGED <<pool, mem, mine, newe>>
RxArpReply(k) ==
    /\ at[k] = "reply"
    /\ arp_send(pool, k, "idle")
    /\ UNCHANGED <<entry, mem, mine, newe>>
\* arp_worker: arp_age_entry of an entry whose time is over, delete_entry at the last try
Age(k) ==
    /\ at[k] = "idle" /\ entry.state \notin {"none", "static"}
    /\ IF entry.state # "valid" /\ entry.tries_left = 0
       THEN /\ pool' = pool \cup ToSet(entry.q)
            /\ entry' = None
            /\ UNCHANGED <<at, todo, then>>
       ELSE /\ entry' = IF entry.state = "valid" THEN [Probing EXCEPT !.state = "reprobing"]
                        ELSE [entry EXCEPT !.tries_left = @ - 1]
            /\ arp_send(pool, k, "idle")
    /\ UNCHANGED <<mem, mine, newe>>

-----------------------------------------------------------------------------
(* net_tx_raw and net_tx_drain_overflow on kthread k, net_tx_iokernel of one packet *)

Full(k) == Len(ring[k]) >= Ring
DrainSend(k) ==                         \* the head is sent before it is unlinked
    /\ at[k] = "raw" /\ over[k] # <<>> /\ ~Full(k)
    /\ ring' = [ring EXCEPT ![k] = Append(@, Head(over[k]))]
    /\ at' = [at EXCEPT ![k] = "pop"]
    /\ UNCHANGED <<pool, entry, over, mine, newe, todo, then>>
DrainPop(k) ==                          \* and may stop when the kthread is to be preempted
    /\ at[k] = "pop"
    /\ over' = [over EXCEPT ![k] = Tail(@)]
    /\ \E x \in {"raw", "tx"} : at' = [at EXCEPT ![k] = x]
    /\ UNCHANGED <<pool, entry, ring, mine, newe, todo, then>>
DrainEnd(k) ==
    /\ at[k] = "raw" /\ (over[k] = <<>> \/ Full(k))
    /\ at' = [at EXCEPT ![k] = "tx"]
    /\ UNCHANGED <<pool, entry, mem, mine, newe, todo, then>>
Tx(k) ==
    /\ at[k] = "tx"
    /\ IF Full(k) THEN over' = [over EXCEPT ![k] = Append(@, Head(todo[k]))] /\ UNCHANGED ring
       ELSE ring' = [ring EXCEPT ![k] = Append(@, Head(todo[k]))] /\ UNCHANGED over
    /\ Raw(k, Tail(todo[k]), then[k])
    /\ UNCHANGED <<pool, entry, mine, newe>>

\* The IOKernel sends the packet, and the completion is handled by some kthread.
Complete(k) ==
    /\ ring[k] # <<>>
    /\ ring' = [ring EXCEPT ![k] = Tail(@)]
    /\ pool' = pool \cup {Head(ring[k])}
    /\ UNCHANGED <<entry, over, at, mine, newe, todo, then>>

Next == \E k \in K :
    \/ Send(k) \/ LookupHot(k) \/ FreeMine(k) \/ LookupCold(k) \/ RxArp(k) \/ RxArpReply(k) \/ Age(k)
    \/ DrainSend(k) \/ DrainPop(k) \/ DrainEnd(k) \/ Tx(k) \/ Complete(k)
Spec == Init /\ [][Next]_vars

-----------------------------------------------------------------------------
\* Packets wait for an address only at an entry that is being probed: whatever arp_lookup
\* queues is sent by arp_update or freed by delete_entry.
WaitersProbed == entry.q # <<>> => entry.state = "probing"
\* A buffer is in one place: free, with a thread, waiting for an address, or queued
\* (the head of an overflow queue that has been sent but not yet unlinked not counted twice).
OnePlace ==
    LET Linked(k) == IF at[k] = "pop" THEN Tail(over[k]) ELSE over[k]
        Times(m, s) == Cardinality({i \in DOMAIN s : s[i] = m})
        On(m, k) == Times(m, mine[k]) + Times(m, todo[k]) + Times(m, Linked(k)) + Times(m, ring[k])
    IN \A m \in Mbuf :
         (IF m \in pool THEN 1 ELSE 0) + Times(m, entry.q) + FoldLeft(LAMBDA n, k : n + On(m, k), 0, SetToSeq(K)) = 1
NetTxSound == WaitersProbed /\ OnePlace

\* The head of an overflow queue is unlinked before its buffer is reused.
UnlinkedFirst == \A k \in K : at[k] = "pop" => Head(over[k]) \in ToSet(ring[k])
=============================================================================
