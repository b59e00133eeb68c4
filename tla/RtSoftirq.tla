------------------------------ MODULE RtSoftirq ------------------------------
(***************************************************************************)
(* High-priority events of a Caladan runtime (softirq.c): packets and      *)
(* transmit completions from the IOKernel, and completions of the NVMe     *)
(* queue of each kthread (storage.c).  A softirq gathers work of a kthread *)
(* under that kthread's lock, its own or a stolen one, and handles it      *)
(* later as a uthread; several are in flight.  Ingress goes through        *)
(* net_rx_one (core.c, icmp.c) to the transport table (transport.c).       *)
(* Timers are in RtTimer, the flow of a connection in RtTcp and RtUdp.     *)
(***************************************************************************)
EXTENDS Integers, Sequences, FiniteSets, SequencesExt

CONSTANTS
    K, W,               \* kthreads; softirqs in flight
    Hdr, Egress,        \* ingress buffers of the IOKernel; packets it transmits
    Th,                 \* uthreads that use storage
    None,
    Bufs,               \* storage request buffers
    Budget, MaxBudget   \* RUNTIME_SOFTIRQ_*_BUDGET, SOFTIRQ_MAX_BUDGET

NoWork == [at |-> "none", recv |-> <<>>, compl |-> <<>>, storage |-> {}, l4 |-> <<>>]

VARIABLES
    rxq,                \* per kthread: commands of the IOKernel
    owned,              \* ingress buffers that the IOKernel has
    sent,               \* packets being transmitted
    work,               \* per softirq: the work it has gathered
    lock, outstanding,  \* per kthread: storage_q
    flight, done,       \* requests with the device; completions it has posted
    state, queue,       \* per thread, with the kthread whose queue it uses
    bufs                \* storage buffers that are free

net == <<rxq, owned, sent>>
storage == <<lock, outstanding, flight, done, state, queue, bufs>>
vars == <<net, work, storage>>

Init ==
    /\ rxq = [k \in K |-> <<>>] /\ owned = Hdr /\ sent = Egress
    /\ work = [w \in W |-> NoWork]
    /\ lock = [k \in K |-> None] /\ outstanding = [k \in K |-> 0]
    /\ flight = [k \in K |-> {}] /\ done = [k \in K |-> {}]
    /\ state = [t \in Th |-> "idle"] /\ queue = [t \in Th |-> None] /\ bufs = Bufs

-----------------------------------------------------------------------------
(* The IOKernel and the device *)

IokRecv(k, h) == /\ h \in owned /\ owned' = owned \ {h}
                 /\ rxq' = [rxq EXCEPT ![k] = Append(@, <<"recv", h>>)]
                 /\ UNCHANGED <<sent, work, storage>>
IokComplete(k, m) == /\ m \in sent /\ sent' = sent \ {m}
                     /\ rxq' = [rxq EXCEPT ![k] = Append(@, <<"compl", m>>)]
                     /\ UNCHANGED <<owned, work, storage>>
DeviceDone(k, t) == /\ t \in flight[k]
                    /\ flight' = [flight EXCEPT ![k] = @ \ {t}] /\ done' = [done EXCEPT ![k] = @ \cup {t}]
                    /\ UNCHANGED <<net, work, lock, outstanding, state, queue, bufs>>

-----------------------------------------------------------------------------
(* storage_write and storage_read *)

\* They take a buffer and the queue's lock and submit; when the device takes no
\* more, the buffer is given back and -EIO returned.
Submit(t, k) ==
    /\ state[t] = "idle" /\ bufs > 0 /\ lock[k] = None
    /\ flight' = [flight EXCEPT ![k] = @ \cup {t}]
    /\ outstanding' = [outstanding EXCEPT ![k] = @ + 1]
    /\ lock' = [lock EXCEPT ![k] = t]
    /\ state' = [state EXCEPT ![t] = "parking"] /\ queue' = [queue EXCEPT ![t] = k]
    /\ bufs' = bufs - 1
    /\ UNCHANGED <<net, work, done>>
\* thread_park_and_unlock_np
Park(t) ==
    /\ state[t] = "parking"
    /\ state' = [state EXCEPT ![t] = "sleeping"]
    /\ lock' = [lock EXCEPT ![queue[t]] = None]
    /\ UNCHANGED <<net, work, outstanding, flight, done, queue, bufs>>
\* It runs again: the data is copied and the buffer given back.
Return(t) ==
    /\ state[t] = "runnable"
    /\ state' = [state EXCEPT ![t] = "idle"] /\ queue' = [queue EXCEPT ![t] = None]
    /\ bufs' = bufs + 1
    /\ UNCHANGED <<net, work, lock, outstanding, flight, done>>

-----------------------------------------------------------------------------
(* softirq_gather_work of kthread k, by softirq w *)

real_budget == IF Budget < MaxBudget THEN Budget ELSE MaxBudget
Of(q, cmd) == LET is(c) == c[1] = cmd IN SelectSeq(q, is)
Names(q) == [i \in DOMAIN q |-> q[i][2]]

\* How many commands it may take: it stops at the budget, and where the
\* kthread is to be preempted.
Gatherable(q) == {n \in 0 .. Len(q) :
    \A j \in 0 .. n - 1 : LET s == SubSeq(q, 1, j) IN
        Len(Of(s, "recv")) < real_budget /\ Len(Of(s, "compl")) < MaxBudget}

\* storage_proc_completions: the threads S to wake.
\* Mutant: the queue is polled whether or not its lock is free.
storage_proc_completions_Unlocked(k, S) ==
    /\ S \subseteq done[k] /\ Cardinality(S) <= real_budget
    /\ outstanding' = [outstanding EXCEPT ![k] = @ - Cardinality(S)]
    /\ done' = [done EXCEPT ![k] = @ \ S]
storage_proc_completions(k, S) ==
    /\ IF lock[k] = None THEN S \subseteq done[k] /\ Cardinality(S) <= real_budget ELSE S = {}
    /\ outstanding' = [outstanding EXCEPT ![k] = @ - Cardinality(S)]
    /\ done' = [done EXCEPT ![k] = @ \ S]

Gather(w, k) ==
    /\ work[w].at = "none" /\ (rxq[k] # <<>> \/ done[k] # {})     \* softirq_work_available
    /\ \E n \in Gatherable(rxq[k]), S \in SUBSET done[k] :
        LET q == SubSeq(rxq[k], 1, n) IN
        /\ rxq' = [rxq EXCEPT ![k] = SubSeq(@, n + 1, Len(@))]
        /\ storage_proc_completions(k, S)
        /\ work' = [work EXCEPT ![w] = [NoWork EXCEPT !.at = "compl", !.recv = Names(Of(q, "recv")),
                                                      !.compl = Names(Of(q, "compl")), !.storage = S]]
    /\ UNCHANGED <<owned, sent, lock, flight, state, queue, bufs>>

-----------------------------------------------------------------------------
(* softirq_fn *)

\* mbuf_free of what was transmitted; the buffer is used for another packet.
Completions(w) ==
    /\ work[w].at = "compl"
    /\ sent' = sent \cup ToSet(work[w].compl)
    /\ work' = [work EXCEPT ![w].at = "storage", ![w].compl = <<>>]
    /\ UNCHANGED <<rxq, owned, storage>>
\* thread_ready of the threads whose request is done
Wake(w) ==
    /\ work[w].at = "storage"
    /\ state' = [t \in Th |-> IF t \in work[w].storage THEN "runnable" ELSE state[t]]
    /\ work' = [work EXCEPT ![w].at = "recv", ![w].storage = {}]
    /\ UNCHANGED <<net, lock, outstanding, flight, done, queue, bufs>>
\* net_rx_alloc_mbuf: the payload is copied unless there is no memory; either way
\* the buffer goes back to the IOKernel (net_rx_send_completion).
net_rx_alloc_mbuf(h) == owned' = owned \cup {h}
\* net_rx_one: what is for the transport layer is kept, the rest (ARP, ICMP, what
\* is dropped) is consumed.
net_rx_one(l4, h) == {l4, Append(l4, h)}
\* net_rx_softirq, one packet
Receive(w) ==
    /\ work[w].at = "recv" /\ work[w].recv # <<>>
    /\ LET h == Head(work[w].recv) IN
       /\ net_rx_alloc_mbuf(h)
       /\ \E s \in net_rx_one(work[w].l4, h) : work' = [work EXCEPT ![w].recv = Tail(@), ![w].l4 = s]
    /\ UNCHANGED <<rxq, sent, storage>>
\* net_rx_trans, one packet: the handler of the entry found takes it, or it is freed.
Deliver(w) ==
    /\ work[w].at = "recv" /\ work[w].recv = <<>> /\ work[w].l4 # <<>>
    /\ work' = [work EXCEPT ![w].l4 = Tail(@)]
    /\ UNCHANGED <<rxq, owned, sent, storage>>
End(w) ==
    /\ work[w].at = "recv" /\ work[w].recv = <<>> /\ work[w].l4 = <<>>
    /\ work' = [work EXCEPT ![w] = NoWork]
    /\ UNCHANGED <<net, storage>>

Next ==
    \/ \E k \in K : \/ \E h \in Hdr : IokRecv(k, h)
                    \/ \E m \in Egress : IokComplete(k, m)
                    \/ \E t \in Th : DeviceDone(k, t) \/ Submit(t, k)
                    \/ \E w \in W : Gather(w, k)
    \/ \E t \in Th : Park(t) \/ Return(t)
    \/ \E w \in W : Completions(w) \/ Wake(w) \/ Receive(w) \/ Deliver(w) \/ End(w)

Spec == Init /\ [][Next]_vars

-----------------------------------------------------------------------------
Waits(t) == {<<"flight", k>> : k \in {j \in K : t \in flight[j]}}
            \cup {<<"done", k>> : k \in {j \in K : t \in done[j]}}
            \cup {<<"work", w>> : w \in {v \in W : t \in work[v].storage}}

\* A thread that waits for the device is woken by one completion and only when
\* it sleeps, as thread_ready asserts; no other thread is.
WokenOnce ==
    \A t \in Th :
        /\ Cardinality(Waits(t)) = IF state[t] \in {"parking", "sleeping"} THEN 1 ELSE 0
        /\ (\E w \in W : t \in work[w].storage) => state[t] = "sleeping"
\* The queue's count is that of the requests the device has, which decides
\* whether a kthread expects work soon (storage_pending_completions).
CountsRequests ==
    \A k \in K : outstanding[k] = Cardinality(flight[k] \cup done[k])
\* The arrays of a softirq hold what it gathers.
WithinArrays ==
    \A w \in W : /\ Len(work[w].recv) + Len(work[w].l4) <= MaxBudget
                 /\ Len(work[w].compl) <= MaxBudget /\ Cardinality(work[w].storage) <= MaxBudget
\* An ingress buffer is with the IOKernel, in one queue or in one softirq; a
\* storage buffer is free or used by one request.
BuffersPlaced ==
    /\ \A h \in Hdr :
        (IF h \in owned THEN 1 ELSE 0) + Cardinality({<<k, i>> \in K \X (1 .. Cardinality(Hdr) + Cardinality(Egress)) :
                                                        i <= Len(rxq[k]) /\ rxq[k][i] = <<"recv", h>>})
        + Cardinality({w \in W : Contains(work[w].recv, h)}) = 1
    /\ bufs + Cardinality({t \in Th : state[t] # "idle"}) = Bufs

\* Events are handled once, by one softirq.
SoftirqSound == WokenOnce /\ CountsRequests /\ WithinArrays /\ BuffersPlaced
=============================================================================
