------------------------------ MODULE MCCaladan ------------------------------
(***************************************************************************)
(* Instances of the modules of the Caladan runtime and of its IOKernel for *)
(* TLC.  A behaviour is one of one part: the state space is the sum of     *)
(* those of the parts.  The parts share the variables v1, v2, ...; what a  *)
(* part does not need is 0 in it.  K, T and W stand for whatever a part    *)
(* has two or three of that are all alike.                                 *)
(***************************************************************************)
EXTENDS RtRcu, IokPolicy, TLC

CONSTANTS K, T, W, Nobody

VARIABLES part,
    v1, v2, v3, v4, v5, v6, v7, v8, v9, v10, v11, v12, v13, v14, v15, v16, v17, v18, v19, v20,
    v21, v22

vars == <<part, rcuVars, policyVars, v1, v2, v3, v4, v5, v6, v7, v8, v9, v10, v11, v12, v13, v14, v15, v16, v17,
          v18, v19, v20, v21, v22>>

-----------------------------------------------------------------------------
(* The instances *)

\* Two kthreads, rings of one place: three threads, and two with softirqs.
Sched == INSTANCE RtSched WITH None <- Nobody, Size <- 1, Budget <- 0, pc <- v1, cur <- v2, next <- v3,
    tried <- v4, lock <- v5, head <- v6, tail <- v7, rq <- v8, rq_overflow <- v9,
    parked <- v10, len <- v11, gen <- v12, ready <- v13, seen <- v14, ret <- v15,
    softirq <- v16, state <- v17, busy <- v18, waiting <- v19
Events == INSTANCE RtSched WITH None <- Nobody, T <- W, Size <- 1, Budget <- 1, pc <- v1, cur <- v2,
    next <- v3, tried <- v4, lock <- v5, head <- v6, tail <- v7, rq <- v8, rq_overflow <- v9,
    parked <- v10, len <- v11, gen <- v12, ready <- v13, seen <- v14, ret <- v15,
    softirq <- v16, state <- v17, busy <- v18, waiting <- v19
Sync == INSTANCE RtSync WITH Th <- T, Objects <- {"mutex", "cv", "rw", "wg", "barrier"},
    MaxPhase <- 2, obj <- v1, pc <- v2, held <- v3, count <- v4, lock <- v5, waiters <- v6,
    readers <- v7, cvwaiters <- v8, flag <- v9, tmp <- v10, resume <- v11, phase <- v12
\* Six entries, the least that fill a gap in one subtree with an entry of another;
\* four that also fire.
Heap == INSTANCE RtTimer WITH N <- 6, D <- 2, Deadlines <- {1, 2}, MaxTime <- 0, Budget <- 1,
    CancelFired <- FALSE, timers <- v1, timern <- v2, idx <- v3, deadline <- v4, armed <- v5,
    now <- v6, next <- v7, firing <- v8, left <- v9, lied <- v10
Timer == INSTANCE RtTimer WITH N <- 4, D <- 2, Deadlines <- {1, 2}, MaxTime <- 2, Budget <- 1,
    CancelFired <- FALSE, timers <- v1, timern <- v2, idx <- v3, deadline <- v4, armed <- v5,
    now <- v6, next <- v7, firing <- v8, left <- v9, lied <- v10
Kmod == INSTANCE Ksched WITH None <- Nobody, Core <- K, Task <- W, MaxGen <- 3, cur_th <- v1,
    pending_th <- v2, pending <- v3, idle <- v4, wait <- v5, active <- v6, intrs <- v7,
    gen <- v8, tid <- v9, sig <- v10, busy <- v11, last_gen <- v12, plast <- v13,
    pbusy <- v14, running <- v15, ipi <- v16, pc <- v17, at <- v18, signalled <- v19,
    preempt <- v20, strayed <- v21
\* RtRcu: two kthreads, two objects, counters that wrap at four.  IokPolicy: two
\* cores on each of two sockets, one of them not to be allocated; a process that
\* may have as many cores as there are.
MCCores == 1 .. 4
MCAllowed == 1 .. 3
MCSibling == <<2, 1, 4, 3>>
MCSocket == <<0, 0, 1, 1>>
MCPreferred == <<0, 1>>
MCGuaranteed == <<1, 1>>
MCMax == <<2, 3>>
MCPriority == <<1, 2>>
\* A process with two kthreads that transmits; two processes that receive.
DpOut == INSTANCE IokDataplane WITH P <- {1}, Of <- <<1, 1>>, Guaranteed <- <<1>>, Cores <- 1,
    Q <- 1, Ring <- 1, Bufs <- 2, Burst <- 2, Pool <- 1, Mbuf <- {}, client <- v1,
    removed <- v2, mapped <- v3, nr_guaranteed <- v4, c2d <- v5, dp <- v6, clients <- v7,
    kill <- v8, up <- v9, run <- v10, egress <- v11, txpktq <- v12, rxq <- v13, held <- v14,
    txcmdq <- v15, pkts <- v16, n_bufs <- v17, tx <- v18, nic <- v19, overflows <- v20,
    refcnt <- v21, astray <- v22
DpIn == INSTANCE IokDataplane WITH P <- {1, 2}, Of <- <<1, 2>>, Guaranteed <- <<1, 1>>,
    Cores <- 2, Q <- 2, Ring <- 1, Bufs <- 0, Burst <- 2, Pool <- 1, Mbuf <- {1},
    client <- v1, removed <- v2, mapped <- v3, nr_guaranteed <- v4, c2d <- v5, dp <- v6,
    clients <- v7, kill <- v8, up <- v9, run <- v10, egress <- v11, txpktq <- v12, rxq <- v13,
    held <- v14, txcmdq <- v15, pkts <- v16, n_bufs <- v17, tx <- v18, nic <- v19,
    overflows <- v20, refcnt <- v21, astray <- v22
\* Sequence numbers that wrap around, three segments, two out of order.
Tcp == INSTANCE RtTcp WITH W <- 16, ISS <- <<14, 13>>, TCP_WIN <- 3, TCP_MSS <- 2,
    TCP_OOO_MAX_SIZE <- 2, Bytes <- <<2, 1>>, MaxSegs <- 3, Stale <- TRUE, conn <- v1,
    net <- v2, hand <- v3
Conn == INSTANCE RtTcpConn WITH MaxQ <- 2, Rtx <- {"r1"}, Hasty <- FALSE, Scarce <- FALSE,
    state <- v1, ref <- v2, txx <- v3, rxx <- v4, txc <- v5, rxc <- v6, txq <- v7,
    unacked <- v8, full <- v9, rxq <- v10, fin <- v11, tx_wq <- v12, rx_wq <- v13, pc <- v14,
    listed <- v15, destroyed <- v16, freed <- v17, trouble <- v18
Udp == INSTANCE RtUdp WITH Reader <- {"a", "b"}, Writer <- {"w", "v"}, InCap <- 2,
    OutCap <- 2, MaxRecv <- 3, direct <- v1, table <- v2, shutdown <- v3, inq <- v4,
    inq_wq <- v5, outq_len <- v6, outq_wq <- v7, outq_free <- v8, flight <- v9,
    handling <- v10, pc <- v11, ref <- v12, released <- v13, freed <- v14, flow <- v15,
    recvd <- v16
NetTx == INSTANCE RtNetTx WITH Mbuf <- T, Ring <- 1, ARP_RETRIES <- 2, pool <- v1,
    entry <- v2, over <- v3, ring <- v4, at <- v5, mine <- v6, newe <- v7, todo <- v8,
    then <- v9
\* Three pages of two items, magazines of two.
Alloc == INSTANCE BaseAlloc WITH None <- Nobody, T <- K, Page <- T, NrElems <- 2, Thresh <- 1,
    MagSize <- 2, kind <- v1, pc <- v2, got <- v3, loaded <- v4, rounds <- v5, previous <- v6, shared <- v7,
    cur <- v8, full <- v9, partial <- v10, free <- v11, fresh <- v12, avail <- v13,
    idx <- v14, lost <- v15, held <- v16
\* Two softirqs, two threads that use storage.
Softirq == INSTANCE RtSoftirq WITH None <- Nobody, Hdr <- {"h1"}, Egress <- {"m1"},
    Th <- {"t1", "t2"}, Bufs <- 2, Budget <- 1, MaxBudget <- 1, rxq <- v1, owned <- v2, sent <- v3, work <- v4,
    lock <- v5, outstanding <- v6, flight <- v7, done <- v8, state <- v9, queue <- v10,
    bufs <- v11

-----------------------------------------------------------------------------
(* The parts.  Unused(n): the variables from the n-th on. *)

Unused22 == /\ v22 = 0
Unused20 == /\ v20 = 0 /\ v21 = 0 /\ Unused22
Unused19 == /\ v19 = 0 /\ Unused20
Unused17 == /\ v17 = 0 /\ v18 = 0 /\ Unused19
Unused15 == /\ v15 = 0 /\ v16 = 0 /\ Unused17
Unused13 == /\ v13 = 0 /\ v14 = 0 /\ Unused15
Unused12 == /\ v12 = 0 /\ Unused13
Unused11 == /\ v11 = 0 /\ Unused12
Unused10 == /\ v10 = 0 /\ Unused11
Unused4 == /\ v4 = 0 /\ v5 = 0 /\ v6 = 0 /\ v7 = 0 /\ v8 = 0 /\ v9 = 0 /\ Unused10
from22 == <<v22>>
from20 == <<v20, v21, from22>>
from19 == <<v19, from20>>
from17 == <<v17, v18, from19>>
from15 == <<v15, v16, from17>>
from13 == <<v13, v14, from15>>
from12 == <<v12, from13>>
from11 == <<v11, from12>>
from10 == <<v10, from11>>
from4 == <<v4, v5, v6, v7, v8, v9, from10>>
Unused1 == /\ v1 = 0 /\ v2 = 0 /\ v3 = 0 /\ Unused4
from1 == <<v1, v2, v3, from4>>
\* RtRcu and IokPolicy have variables of their own.  In the other parts nobody reads,
\* and nobody has a core.
NoRcu ==
    /\ reading = [k \in ks |-> NoObj] /\ nrks = 0 /\ gen = 0 /\ ptr = 0 /\ state = 0
    /\ pc = 0 /\ head = 0 /\ last = 0 /\ i = 0
NoPolicy ==
    /\ attached = {} /\ congested = <<>> /\ edge = Cores /\ warned = FALSE
    /\ cur = [c \in Cores |-> NoProc] /\ pend = cur
    /\ policy = 0 /\ cores = 0 /\ threads_active = 0 /\ idle_cores = 0 /\ waking = 0
    /\ passing = 0 /\ wait = 0 /\ idle = 0

Init ==
    \/ part = "rcu" /\ RcuInit /\ NoPolicy /\ Unused1
    \/ part = "policy" /\ PolicyInit /\ NoRcu /\ Unused1
    \/ /\ NoRcu /\ NoPolicy
       /\ \/ part = "sched" /\ Sched!Init /\ Unused20
          \/ part = "events" /\ Events!Init /\ Unused20
          \/ part = "sync" /\ Sync!Init /\ Unused13
          \/ part = "heap" /\ Heap!Init /\ Unused11
          \/ part = "timer" /\ Timer!Init /\ Unused11
          \/ part = "ksched" /\ Kmod!Init /\ Unused22
          \/ part = "egress" /\ DpOut!Init
          \/ part = "ingress" /\ DpIn!Init
          \/ part = "tcp" /\ Tcp!Init /\ Unused4
          \/ part = "conn" /\ Conn!Init /\ Unused19
          \/ part = "udp" /\ Udp!Init /\ Unused17
          \/ part = "nettx" /\ NetTx!Init /\ Unused10
          \/ part = "alloc" /\ Alloc!Init /\ Unused17
          \/ part = "softirq" /\ Softirq!Init /\ Unused12

Next ==
    /\ part' = part
    /\ \/ part = "rcu" /\ RcuNext /\ UNCHANGED policyVars /\ UNCHANGED from1
       \/ part = "policy" /\ PolicyNext /\ UNCHANGED rcuVars /\ UNCHANGED from1
       \/ /\ UNCHANGED rcuVars /\ UNCHANGED policyVars
          /\ \/ part = "sched" /\ Sched!Next /\ UNCHANGED from20
             \/ part = "events" /\ Events!Next /\ UNCHANGED from20
             \/ part = "sync" /\ Sync!Next /\ UNCHANGED from13
             \/ part = "heap" /\ Heap!Next /\ UNCHANGED from11
             \/ part = "timer" /\ Timer!Next /\ UNCHANGED from11
             \/ part = "ksched" /\ Kmod!Next /\ UNCHANGED from22
             \/ part = "egress" /\ DpOut!Next
             \/ part = "ingress" /\ DpIn!Next
             \/ part = "tcp" /\ Tcp!Next /\ UNCHANGED from4
             \/ part = "conn" /\ Conn!Next /\ UNCHANGED from19
             \/ part = "udp" /\ Udp!Next /\ UNCHANGED from17
             \/ part = "nettx" /\ NetTx!Next /\ UNCHANGED from10
             \/ part = "alloc" /\ Alloc!Next /\ UNCHANGED from17
             \/ part = "softirq" /\ Softirq!Next /\ UNCHANGED from12

Spec == Init /\ [][Next]_vars

\* W is a part of T.  Where a part has W its functions are over all of W, so that only
\* the permutations that keep W relate two of its states.
Sym == Permutations(K) \cup Permutations(T)

-----------------------------------------------------------------------------
\* RtSched, Ksched, RtSync, RtTimer: a runnable thread is queued once, a stack used
\* once, a core has the kthread that the IOKernel means it to have; locks exclude,
\* nobody sleeps through a wake-up, timers fire in order.
SchedulingSound ==
    /\ part = "sched" => Sched!SchedSound
    /\ part = "events" => Events!SchedSound
    /\ part = "ksched" => Kmod!KschedSound
    /\ part = "sync" => Sync!SyncSound
    /\ part = "heap" => Heap!TimersSound
    /\ part = "timer" => Timer!TimersSound

\* RtTcp, RtTcpConn, RtUdp, RtNetTx, IokDataplane: streams arrive intact, nobody waits for ever on
\* a connection, references and buffers are where they should be.
NetSound ==
    /\ part = "tcp" => Tcp!TcpSound
    /\ part = "conn" => Conn!ConnSound
    /\ part = "udp" => Udp!UdpSound
    /\ part = "nettx" => NetTx!NetTxSound
    /\ part = "egress" => DpOut!DataplaneSound
    /\ part = "ingress" => DpIn!DataplaneSound

\* BaseAlloc, RtSoftirq: an item is in one place, a request is answered once.
MemorySound ==
    /\ part = "alloc" => Alloc!AllocSound
    /\ part = "softirq" => Softirq!SoftirqSound
=============================================================================
