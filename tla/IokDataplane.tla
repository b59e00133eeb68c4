---------------------------- MODULE IokDataplane ----------------------------
(***************************************************************************)
(* The Caladan iokernel's clients and its dataplane.  A control thread     *)
(* registers and destroys processes and talks to the dataplane thread over *)
(* two rings; the dataplane counts references to a process: one for the    *)
(* registration, one for every kthread that has a core, one for every      *)
(* polled kthread and one for every packet on its way out.  Packets go     *)
(* from a kthread's queue through a burst to the NIC and come back as      *)
(* completions; received packets go to a kthread by a flow table and come  *)
(* back as commands.  Which kthread gets a core is any choice (IokPolicy   *)
(* and Ksched say which).                                                  *)
(***************************************************************************)
EXTENDS Integers, FiniteSets, Sequences, SequencesExt, FiniteSetsExt

CONSTANTS
    P, Of,              \* processes; the process of each kthread 1 .. Len(Of)
    Guaranteed, Cores,  \* cores guaranteed to each process; cores there are
    Q,                  \* slots of a ring between control and dataplane
    Ring,               \* slots of a kthread's queues
    Bufs,               \* egress buffers of a runtime
    Burst, Pool,        \* IOKERNEL_TX_BURST_SIZE; mbufs for egress
    Mbuf                \* ingress mbufs

VARIABLES
    client, removed, mapped, nr_guaranteed, c2d,        \* the control thread
    dp,                                                 \* the dataplane's tables
    clients, kill,
    up, run, egress, txpktq, rxq, held, txcmdq,         \* the runtimes
    pkts, n_bufs, tx, nic, overflows, refcnt,           \* packets
    astray          \* "released", "uninit": a packet was prepared for a process that
                    \* had no reference, from a header that was never read; not followed

ctlvars == <<client, removed, mapped, nr_guaranteed, c2d>>
runvars == <<up, run, egress, txpktq, held, txcmdq>>
txvars == <<pkts, n_bufs, tx, nic>>
vars == <<ctlvars, dp, clients, kill, runvars, rxq, txvars, overflows, refcnt, astray>>

Th == 1 .. Len(Of)
ThreadsOf(p) == {t \in Th : Of[t] = p}
None == 0
Done == 0           \* a completion in an rxq; the rest are mbufs
Wild == 0           \* a packet whose header was lost with tx_burst's stack frame
Zero == [p \in P |-> 0]
Count(s, e) == Cardinality({i \in DOMAIN s : s[i] = e})

Init ==
    /\ client = {} /\ removed = {} /\ mapped = {} /\ nr_guaranteed = 0 /\ c2d = <<>>
    /\ dp = [ref |-> Zero, act |-> [p \in P |-> <<>>], at |-> [t \in Th |-> None],
             ts |-> <<>>, idx |-> [t \in Th |-> None], flow |-> [t \in Th |-> None], d2c |-> <<>>]
    /\ clients = {} /\ kill = {}
    /\ up = {} /\ run = {} /\ egress = Zero /\ txpktq = [t \in Th |-> 0]
    /\ rxq = [t \in Th |-> <<>>] /\ held = [p \in P |-> {}] /\ txcmdq = [t \in Th |-> <<>>]
    /\ pkts = <<>> /\ n_bufs = 0 /\ tx = [at |-> "idle", i |-> 0, pos |-> 0] /\ nic = <<>>
    /\ overflows = Zero /\ refcnt = [m \in Mbuf |-> 0] /\ astray = "no"

-----------------------------------------------------------------------------
(* References, the polling array and the active threads *)

\* proc_get, proc_put and proc_release; a full ring loses the message.
Get(d, p) == [d EXCEPT !.ref[p] = @ + 1]
Put(d, p) ==
    [d EXCEPT !.ref[p] = @ - 1,
              !.d2c = IF d.ref[p] = 1 /\ Len(@) < Q THEN Append(@, p) ELSE @]

\* The last element takes the place of the i-th.
SwapOut(s, i) == SubSeq(ReplaceAt(s, i, Last(s)), 1, Len(s) - 1)

poll_thread(d, t) ==
    IF d.idx[t] # None THEN d
    ELSE [Get(d, Of[t]) EXCEPT !.ts = Append(@, t), !.idx[t] = Len(d.ts) + 1]
\* Mutant: the thread that takes the place keeps its old index.
unpoll_thread_Stale(d, t) ==
    IF d.idx[t] = None THEN d
    ELSE Put([d EXCEPT !.ts = SwapOut(@, d.idx[t]), !.idx[t] = None], Of[t])
unpoll_thread(d, t) ==
    IF d.idx[t] = None THEN d
    ELSE Put([d EXCEPT !.ts = SwapOut(@, d.idx[t]),
                       !.idx = [@ EXCEPT ![Last(d.ts)] = d.idx[t], ![t] = None]], Of[t])

\* An active thread has its own slot, the rest of the slots go round.
sched_steer_flows(d, p) ==
    LET a == d.act[p]
        nth(t) == Cardinality({u \in ThreadsOf(p) : u < t /\ \A i \in DOMAIN a : a[i] # u})
    IN IF a = <<>> THEN d
       ELSE [d EXCEPT !.flow = [t \in Th |-> CASE Of[t] # p -> d.flow[t]
                                               [] \E i \in DOMAIN a : a[i] = t -> t
                                               [] OTHER -> a[(nth(t) % Len(a)) + 1]]]

Active(d, t) == Count(d.act[Of[t]], t) > 0
\* sched_run_on_core takes a reference for the core and enables the thread.
Enable(d, t) ==
    LET p == Of[t]
        on == [Get(d, p) EXCEPT !.at[t] = Len(d.act[p]) + 1, !.act[p] = Append(@, t)]
    IN poll_thread(sched_steer_flows(on, p), t)
\* sched_disable_kthread, then the core's reference goes.
Disable(d, t) ==
    LET p == Of[t]
        i == d.at[t]
        off == [d EXCEPT !.act[p] = SwapOut(@, i),
                         !.at = [@ EXCEPT ![Last(d.act[p])] = i, ![t] = None]]
        steered == sched_steer_flows(off, p)
    IN Put(IF txpktq[t] = 0 THEN unpoll_thread(steered, t) ELSE steered, p)

Started(d) == {t \in Th : Active(d, t) /\ ~Active(dp, t) /\ Of[t] \in up}

-----------------------------------------------------------------------------
(* The control thread *)

\* Is there a slot?  If so the message is sent.
SendControl(cmd, p) == c2d' = IF Len(c2d) < Q THEN Append(c2d, <<cmd, p>>) ELSE c2d

\* control_create_proc maps the memory of a runtime that starts, with its queues.
CreateProc(p) ==
    /\ p \notin mapped /\ Guaranteed[p] + nr_guaranteed <= Cores
    /\ nr_guaranteed' = nr_guaranteed + Guaranteed[p]
    /\ mapped' = mapped \cup {p} /\ dp' = [dp EXCEPT !.ref[p] = 1] /\ kill' = kill \ {p}
    /\ overflows' = [overflows EXCEPT ![p] = 0]
    /\ txpktq' = [t \in Th |-> IF Of[t] = p THEN 0 ELSE txpktq[t]]
    /\ rxq' = [t \in Th |-> IF Of[t] = p THEN <<>> ELSE rxq[t]]
    /\ txcmdq' = [t \in Th |-> IF Of[t] = p THEN <<>> ELSE txcmdq[t]]
\* control_add_client; a process that cannot be registered leaves nothing behind.
AddClient(p) ==
    /\ p \notin up /\ Len(c2d) < Q /\ CreateProc(p) /\ SendControl("add", p)
    /\ \A i \in DOMAIN pkts : pkts[i] # Wild => Of[pkts[i]] # p     \* a name is not used again yet
    /\ client' = client \cup {p} /\ up' = up \cup {p}
    /\ egress' = [egress EXCEPT ![p] = Bufs] /\ held' = [held EXCEPT ![p] = {}]
    /\ UNCHANGED <<removed, clients, run, refcnt>> /\ UNCHANGED txvars

\* control_instruct_dataplane_to_remove_client: the socket of a runtime is closed.
Hangup(p) ==
    /\ p \in client \ (removed \cup up) /\ removed' = removed \cup {p}
    /\ SendControl("remove", p)
    /\ UNCHANGED <<client, mapped, nr_guaranteed, dp, clients, kill, rxq, overflows, refcnt>>
    /\ UNCHANGED runvars /\ UNCHANGED txvars

\* control_remove_client and control_destroy_proc
RemoveClient ==
    /\ dp.d2c # <<>> /\ dp' = [dp EXCEPT !.d2c = Tail(@)]
    /\ LET p == Head(dp.d2c)
       IN /\ client' = client \ {p} /\ removed' = removed \ {p} /\ mapped' = mapped \ {p}
          /\ nr_guaranteed' = nr_guaranteed - (IF p \in client THEN Guaranteed[p] ELSE 0)
    /\ UNCHANGED <<c2d, clients, kill, rxq, overflows, refcnt>>
    /\ UNCHANGED runvars /\ UNCHANGED txvars

-----------------------------------------------------------------------------
(* The runtimes *)

Exit(p) ==
    /\ p \in up /\ up' = up \ {p} /\ run' = run \ ThreadsOf(p)
    /\ UNCHANGED <<dp, clients, kill, egress, txpktq, rxq, held, txcmdq, overflows, refcnt>>
    /\ UNCHANGED ctlvars /\ UNCHANGED txvars
Park(t) ==
    /\ t \in run /\ run' = run \ {t}
    /\ UNCHANGED <<dp, clients, kill, up, egress, txpktq, rxq, held, txcmdq, overflows, refcnt>>
    /\ UNCHANGED ctlvars /\ UNCHANGED txvars
\* net_tx_raw
Xmit(t) ==
    /\ t \in run /\ egress[Of[t]] > 0 /\ txpktq[t] < Ring
    /\ egress' = [egress EXCEPT ![Of[t]] = @ - 1] /\ txpktq' = [txpktq EXCEPT ![t] = @ + 1]
    /\ UNCHANGED <<dp, clients, kill, up, run, rxq, held, txcmdq, overflows, refcnt>>
    /\ UNCHANGED ctlvars /\ UNCHANGED txvars
\* A kthread takes a message off its queue, or off that of another.
Recv(t, u) ==
    /\ t \in run /\ Of[u] = Of[t] /\ rxq[u] # <<>> /\ rxq' = [rxq EXCEPT ![u] = Tail(@)]
    /\ IF Head(rxq[u]) = Done THEN egress' = [egress EXCEPT ![Of[t]] = @ + 1] /\ UNCHANGED held
       ELSE held' = [held EXCEPT ![Of[t]] = @ \cup {Head(rxq[u])}] /\ UNCHANGED egress
    /\ UNCHANGED <<dp, clients, kill, up, run, txpktq, txcmdq, overflows, refcnt>>
    /\ UNCHANGED ctlvars /\ UNCHANGED txvars
\* net_rx_send_completion
Complete(t, m) ==
    /\ t \in run /\ m \in held[Of[t]] /\ Len(txcmdq[t]) < Ring
    /\ held' = [held EXCEPT ![Of[t]] = @ \ {m}] /\ txcmdq' = [txcmdq EXCEPT ![t] = Append(@, m)]
    /\ UNCHANGED <<dp, clients, kill, up, run, egress, txpktq, rxq, overflows, refcnt>>
    /\ UNCHANGED ctlvars /\ UNCHANGED txvars

-----------------------------------------------------------------------------
(* The dataplane thread: clients and cores *)

\* dp_clients_add_client and dp_clients_remove_client
RxControl ==
    /\ tx.at = "idle" /\ c2d # <<>> /\ c2d' = Tail(c2d)
    /\ LET p == Head(c2d)[2]
       IN IF Head(c2d)[1] = "add"
          THEN clients' = clients \cup {p} /\ UNCHANGED <<kill, dp>>
          ELSE IF p \in clients
          THEN clients' = clients \ {p} /\ kill' = kill \cup {p} /\ dp' = Put(dp, p)
          ELSE UNCHANGED <<clients, kill, dp>>
    /\ UNCHANGED <<client, removed, mapped, nr_guaranteed, rxq, overflows, refcnt>>
    /\ UNCHANGED runvars /\ UNCHANGED txvars

CoreGiven(t) ==
    /\ tx.at = "idle" /\ Of[t] \in clients /\ ~Active(dp, t)
    /\ dp' = Enable(dp, t) /\ run' = run \cup Started(dp')
    /\ UNCHANGED <<clients, kill, up, egress, txpktq, rxq, held, txcmdq, overflows, refcnt>>
    /\ UNCHANGED ctlvars /\ UNCHANGED txvars
CoreTaken(t) ==
    /\ tx.at = "idle" /\ Active(dp, t) /\ dp' = Disable(dp, t)
    /\ UNCHANGED <<clients, kill, rxq, overflows, refcnt>>
    /\ UNCHANGED ctlvars /\ UNCHANGED txvars /\ UNCHANGED runvars

-----------------------------------------------------------------------------
(* The dataplane thread: packets *)

\* rx_send_to_runtime, for message e to every process of S: the flow table says
\* which thread when one is active, after an attempt to get a core for the process
\* when none is.  The tables and rings it may leave behind, with the number of
\* processes that were told.
SendToRuntime(S, e) ==
    {LET d == FoldSet(LAMBDA p, acc : Enable(acc, pick[p]), dp, grow)
         to == {IF d.act[p] # <<>> THEN d.flow[pick[p]] ELSE pick[p] : p \in S}
         ok == {t \in to : Len(rxq[t]) < Ring}
     IN [dp |-> d, n |-> Cardinality(ok),
         rxq |-> [t \in Th |-> IF t \in ok THEN Append(rxq[t], e) ELSE rxq[t]]] :
       pick \in {f \in [S -> Th] : \A p \in S : Of[f[p]] = p},
       grow \in SUBSET {p \in S : dp.act[p] = <<>>}}
\* The rings and cores after outcome o.
Sent(o) == rxq' = o.rxq /\ run' = run \cup Started(o.dp)

\* rx_one_pkt: for one process, or for all when there is any.
RxOnePkt(m, S) ==
    /\ tx.at = "idle" /\ refcnt[m] = 0 /\ S # {}
    /\ \E o \in SendToRuntime(S, m) : Sent(o) /\ dp' = o.dp /\ refcnt' = [refcnt EXCEPT ![m] = o.n]
    /\ UNCHANGED <<clients, kill, up, egress, txpktq, held, txcmdq, overflows>>
    /\ UNCHANGED ctlvars /\ UNCHANGED txvars

\* commands_rx, for one thread that is polled.
CommandsRx(t) ==
    /\ tx.at = "idle" /\ dp.idx[t] # None /\ txcmdq[t] # <<>>
    /\ refcnt' = [refcnt EXCEPT ![Head(txcmdq[t])] = @ - 1]
    /\ txcmdq' = [txcmdq EXCEPT ![t] = Tail(@)]
    /\ UNCHANGED <<dp, clients, kill, up, run, egress, txpktq, rxq, held, overflows>>
    /\ UNCHANGED ctlvars /\ UNCHANGED txvars

\* tx_send_completion, when the NIC is done with a packet; the mbuf goes back to
\* the pool in any case.
Overflow(d, p) ==
    IF overflows[p] = Bufs THEN dp' = d /\ UNCHANGED overflows
    ELSE overflows' = [overflows EXCEPT ![p] = @ + 1] /\ dp' = Put(d, p)
TxSendCompletion ==
    /\ tx.at = "idle" /\ nic # <<>> /\ nic' = Tail(nic)
    /\ LET t == Head(nic)
           p == Of[t]
       IN \/ p \in kill /\ dp' = Put(dp, p) /\ UNCHANGED <<rxq, overflows, run>>
          \/ /\ p \notin kill /\ Active(dp, t) /\ UNCHANGED run
             /\ IF Len(rxq[t]) < Ring
                THEN rxq' = [rxq EXCEPT ![t] = Append(@, Done)] /\ dp' = Put(dp, p)
                     /\ UNCHANGED overflows
                ELSE Overflow(dp, p) /\ UNCHANGED rxq
          \/ /\ p \notin kill /\ ~Active(dp, t)
             /\ \E o \in SendToRuntime({p}, Done) :
                   /\ Sent(o)
                   /\ IF o.n = 1 THEN dp' = Put(o.dp, p) /\ UNCHANGED overflows
                      ELSE Overflow(o.dp, p)
    /\ UNCHANGED <<clients, kill, up, egress, txpktq, held, txcmdq, pkts, n_bufs, tx, refcnt>>
    /\ UNCHANGED ctlvars
\* tx_drain_completions
DrainOverflow(p) ==
    /\ tx.at = "idle" /\ p \in clients /\ overflows[p] > 0
    /\ \E o \in SendToRuntime({p}, Done) :
           Sent(o) /\ dp' = o.dp /\ overflows' = [overflows EXCEPT ![p] = @ - o.n]
    /\ UNCHANGED <<clients, kill, up, egress, txpktq, held, txcmdq, refcnt>>
    /\ UNCHANGED ctlvars /\ UNCHANGED txvars

\* tx_burst, one polled thread after the other (tx_drain_queue) from any position;
\* a thread that is not active and has no more packets is polled no longer.
TxStart ==
    /\ tx.at = "idle" /\ (pkts # <<>> \/ \E t \in Th : dp.idx[t] # None /\ (txpktq[t] > 0 \/ ~Active(dp, t)))
    /\ \E pos \in 1 .. Max({1, Len(dp.ts)}) : tx' = [at |-> "pull", i |-> 0, pos |-> pos]
    /\ UNCHANGED <<dp, clients, kill, rxq, pkts, n_bufs, nic, overflows, refcnt>>
    /\ UNCHANGED ctlvars /\ UNCHANGED runvars
TxDrain ==
    /\ tx.at = "pull" /\ tx.i < Len(dp.ts) /\ Len(pkts) < Burst
    /\ LET t == dp.ts[((tx.pos + tx.i) % Len(dp.ts)) + 1]
           room == Burst - Len(pkts)
           n == Min({txpktq[t], room})
       IN /\ pkts' = pkts \o [i \in 1 .. n |-> t] /\ txpktq' = [txpktq EXCEPT ![t] = @ - n]
          /\ dp' = IF n < room /\ ~Active(dp, t) THEN unpoll_thread(dp, t) ELSE dp
    /\ tx' = [tx EXCEPT !.i = @ + 1]
    /\ UNCHANGED <<clients, kill, up, run, egress, rxq, held, txcmdq, n_bufs, nic, overflows, refcnt>>
    /\ UNCHANGED ctlvars
\* The rest of tx_burst: no mbufs, or every new packet is prepared
\* (tx_prepare_tx_mbuf) and the NIC takes as many as it has room for.
Unprepared == {i \in DOMAIN pkts : i > n_bufs}
tx_prepare_tx_mbuf(d, S) == FoldSet(LAMBDA i, acc : Get(acc, Of[pkts[i]]), d, S)
TxFill ==
    /\ tx.at = "pull" /\ (tx.i >= Len(dp.ts) \/ Len(pkts) >= Burst)
    /\ tx' = [at |-> "idle", i |-> 0, pos |-> 0]
    /\ \/ /\ Cardinality(Unprepared) > Pool - n_bufs - Len(nic)
          /\ pkts' = [i \in DOMAIN pkts |-> IF i > n_bufs THEN Wild ELSE pkts[i]]
          /\ UNCHANGED <<dp, n_bufs, nic, astray>>
       \/ /\ Cardinality(Unprepared) <= Pool - n_bufs - Len(nic)
          /\ IF \E i \in Unprepared : pkts[i] = Wild
             THEN astray' = "uninit" /\ UNCHANGED <<dp, pkts, n_bufs, nic>>
             ELSE /\ astray' = IF \E i \in Unprepared : dp.ref[Of[pkts[i]]] = 0 THEN "released" ELSE "no"
                  /\ dp' = tx_prepare_tx_mbuf(dp, Unprepared)
                  /\ \E k \in 0 .. Len(pkts) :
                        /\ nic' = nic \o SubSeq(pkts, 1, k) /\ pkts' = SubSeq(pkts, k + 1, Len(pkts))
                        /\ n_bufs' = Len(pkts')
    /\ UNCHANGED <<clients, kill, rxq, overflows, refcnt>>
    /\ UNCHANGED ctlvars /\ UNCHANGED runvars

Step ==
    \/ RemoveClient \/ RxControl \/ TxSendCompletion \/ TxStart \/ TxDrain
    \/ \E p \in P : AddClient(p) \/ Hangup(p) \/ Exit(p) \/ DrainOverflow(p)
    \/ \E t \in Th : \/ Park(t) \/ Xmit(t) \/ CoreGiven(t) \/ CoreTaken(t) \/ CommandsRx(t)
                     \/ \E u \in Th : Recv(t, u)
                     \/ \E m \in Mbuf : Complete(t, m)
    \/ \E m \in Mbuf : RxOnePkt(m, clients) \/ \E p \in clients : RxOnePkt(m, {p})
Next == astray = "no" /\ (TxFill \/ (Step /\ UNCHANGED astray))

Spec == Init /\ [][Next]_vars

-----------------------------------------------------------------------------
(* Properties *)

OnTheWay(p) ==      \* prepared packets of p
    Cardinality({i \in 1 .. n_bufs : Of[pkts[i]] = p}) + Cardinality({i \in DOMAIN nic : Of[nic[i]] = p})
Registered(p) == p \in clients \/ \E i \in DOMAIN c2d : c2d[i] = <<"add", p>>
Holders(p) ==
    Len(dp.act[p]) + Cardinality({t \in ThreadsOf(p) : dp.idx[t] # None}) + OnTheWay(p)

\* A process goes when nobody needs it, and not before: its count is the number of
\* those who do, it is handed to the control thread once, at zero, and what the
\* control thread has destroyed is in none of the dataplane's tables.
RefsRight ==
    astray = "no" =>
        /\ \A p \in mapped : dp.ref[p] = Holders(p) + (IF Registered(p) THEN 1 ELSE 0)
        /\ \A p \in P : /\ Count(dp.d2c, p) <= 1
                        /\ (Count(dp.d2c, p) = 1 => p \in mapped /\ dp.ref[p] = 0)
                        /\ (p \notin mapped => Holders(p) = 0 /\ p \notin clients)
        /\ nr_guaranteed = MapThenSumSet(LAMBDA p : Guaranteed[p], mapped) /\ nr_guaranteed <= Cores

\* The tables the dataplane walks agree with the threads: each thread is where its
\* index says, and a packet goes to an active thread when there is one.
TablesRight ==
    /\ \A t \in Th : dp.idx[t] # None => dp.idx[t] \in DOMAIN dp.ts /\ dp.ts[dp.idx[t]] = t
    /\ \A i \in DOMAIN dp.ts : dp.idx[dp.ts[i]] = i
    /\ \A p \in P : \A i \in DOMAIN dp.act[p] : dp.at[dp.act[p][i]] = i
    /\ \A t \in Th : dp.act[Of[t]] # <<>> => Active(dp, dp.flow[t])

\* No egress buffer of a live runtime gets lost, though its kthread may be idle and
\* its queue full when the packet is done; and no ingress buffer is free while a
\* runtime has it, though all of them may have the same one.
BuffersKept ==
    astray = "no" =>
        /\ \A p \in clients \cap up :
              egress[p] + overflows[p] + OnTheWay(p)
                + MapThenSumSet(LAMBDA t : txpktq[t] + Count(rxq[t], Done), ThreadsOf(p))
                + Cardinality({i \in Unprepared : pkts[i] # Wild /\ Of[pkts[i]] = p})
              = Bufs \/ \E i \in DOMAIN pkts : pkts[i] = Wild
        /\ \A m \in Mbuf :
              Cardinality({p \in P : m \in held[p]})
                + MapThenSumSet(LAMBDA t : Count(rxq[t], m) + Count(txcmdq[t], m), Th) <= refcnt[m]

DataplaneSound == RefsRight /\ TablesRight /\ BuffersKept

\* "reference count @p so it doesn't get freed before the completion"
HeldUntilCompletion == astray # "released"
=============================================================================
