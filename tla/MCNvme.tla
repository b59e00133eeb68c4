------------------------------- MODULE MCNvme -------------------------------
(***************************************************************************)
(* Instances of the NVMe modules, host and target, for TLC.  A behaviour   *)
(* is one of one part, the variables of the other modules are 0 in it: the *)
(* state space is the sum of those of the parts.  RdmaRequest, RdmaConn    *)
(* and NvmetConfig are extended, not instantiated, and wait in their       *)
(* initial states.  Nvme.cfg gives their constants: two requests, each     *)
(* started twice, one registering memory and one inline; two queues on two *)
(* devices, each connected twice; one port and two subsystems.             *)
(***************************************************************************)
EXTENDS Integers, Sequences, FiniteSets, RdmaRequest, RdmaConn, NvmetConfig

VARIABLES
    part,
    \* NvmeTcpCtrl, I10Ctrl, RdmaCtrl
    state, count, alloc, live, async, sets, quiesced, nr_hw, req, cmd, work, prog,
    nr_reconnects, c_fault, c_errors, resets, hung,
    \* NvmeTcpRecv
    hdr_digest, data_digest, wire, whole, skb, pdu, pdu_remaining, data_remaining,
    ddgst_remaining, hash, rd_enabled, recovering, stopped, r_got, h2c, ended, left, phase,
    r_bad, rogue, again,
    \* I10Queue
    legacy, send_list, nr_req, timer, h_work, h_io, h_pending, request, h_stage, h_caravan,
    mapped, h_send_now, h_wire, h_last, h_nospace, rsp, h_pc, at, loaded, h_state, fails,
    \* QueueAlloc
    driver, digest, pc, todo, held, a_allocated, bogus, a_attempts,
    \* TargetQueue
    mode, t_state, rcv, cur, got, t_cmd, free, exec, resp, snd, stage, caravan, ccmds,
    send_now, out, nospace, in, tx, last, host, t_work, io, pending, ret, rel, barrier,
    closed, fatal, issued, bad

ctrlVars == <<state, count, alloc, live, async, sets, quiesced, nr_hw, req, cmd, work, prog,
              nr_reconnects, c_fault, c_errors, resets, hung>>
recvVars == <<hdr_digest, data_digest, wire, whole, skb, pdu, pdu_remaining, data_remaining,
              ddgst_remaining, hash, rd_enabled, recovering, stopped, r_got, h2c, ended, left,
              phase, r_bad, rogue, again>>
i10Vars == <<legacy, send_list, nr_req, timer, h_work, h_io, h_pending, request, h_stage,
             h_caravan, mapped, h_send_now, h_wire, h_last, h_nospace, rsp, h_pc, at, loaded,
             h_state, fails>>
allocVars == <<driver, digest, pc, todo, held, a_allocated, bogus, a_attempts>>
targetVars == <<mode, t_state, rcv, cur, got, t_cmd, free, exec, resp, snd, stage, caravan,
                ccmds, send_now, out, nospace, in, tx, last, host, t_work, io, pending, ret,
                rel, barrier, closed, fatal, issued, bad>>
mcVars == <<part, ctrlVars, recvVars, i10Vars, allocVars, connVars, vars, targetVars,
          configVars>>

-----------------------------------------------------------------------------
(* The instances *)

\* Two I/O queues, one request, one error, one reset, one reconnect; without
\* and with a command that is never answered or an icdoff.
Tcp == INSTANCE NvmeTcpCtrl WITH errors <- c_errors, fault <- c_fault, NrIo <- 2, Grants <- {2},
    Req <- {"r1"}, MaxReconnects <- 1, MaxErrors <- 1, MaxResets <- 1, MaxHung <- 0, Icdoff <- {FALSE}
TcpHung == INSTANCE NvmeTcpCtrl WITH errors <- c_errors, fault <- c_fault, NrIo <- 2, Grants <- {0, 2},
    Req <- {"r1"}, MaxReconnects <- 1, MaxErrors <- 1, MaxResets <- 1, MaxHung <- 1, Icdoff <- {TRUE, FALSE}
I10 == INSTANCE I10Ctrl WITH errors <- c_errors, fault <- c_fault, NrIo <- 2, Grants <- {2},
    Req <- {"r1"}, MaxReconnects <- 1, MaxErrors <- 1, MaxResets <- 1, MaxHung <- 1, Icdoff <- {TRUE, FALSE}
Rdma == INSTANCE RdmaCtrl WITH errors <- c_errors, fault <- c_fault, NrIo <- 2, Grants <- {2},
    Req <- {"r1"}, MaxReconnects <- 1, MaxErrors <- 1, MaxResets <- 1, MaxHung <- 1, Icdoff <- {TRUE, FALSE},
    DeleteIn <- {"LIVE", "RESETTING"}
\* Deleted at any time, which the driver does not always survive.
RdmaDelete == INSTANCE RdmaCtrl WITH errors <- c_errors, fault <- c_fault, NrIo <- 2, Grants <- {2},
    Req <- {"r1"}, MaxReconnects <- 1, MaxErrors <- 1, MaxResets <- 0, MaxHung <- 0, Icdoff <- {FALSE},
    DeleteIn <- {"LIVE", "RESETTING", "CONNECTING"}

\* A read and a write of two blocks, with and without digests, in every cut.
\* The faulty PDUs: more data than asked for, a bad offset, flags that
\* contradict each other, an early or unknown response, a R2T too long or out
\* of order, an unknown type.
P(t, tag, n, off, success, lst, f) == [type |-> t, tag |-> tag, n |-> n, off |-> off,
    success |-> success, last |-> lst, flags |-> f]
RoguePdus ==
    {P("c2h", 0, 1, 0, FALSE, TRUE, TRUE), P("c2h", 1, 2, 1, FALSE, TRUE, TRUE),
     P("c2h", 1, 1, 0, TRUE, FALSE, TRUE), P("rsp", 0, 0, 0, FALSE, FALSE, TRUE),
     P("rsp", 2, 0, 0, FALSE, FALSE, FALSE), P("r2t", 2, 3, 0, FALSE, FALSE, TRUE),
     P("r2t", 2, 1, -1, FALSE, FALSE, TRUE), P("x", 1, 0, 0, FALSE, FALSE, TRUE)}
Recv == INSTANCE NvmeTcpRecv WITH got <- r_got, bad <- r_bad, Len_ <- <<2, 1>>, Write <- {2},
    Digests <- {<<TRUE, TRUE>>, <<FALSE, FALSE>>}, MaxSkb <- 3, MaxWire <- 2, MaxAgain <- 1,
    MaxBad <- 1, Rogue <- RoguePdus
RecvI10 == INSTANCE NvmeTcpRecv WITH got <- r_got, bad <- r_bad, Len_ <- <<2, 1>>, Write <- {2},
    Digests <- {<<TRUE, TRUE>>}, MaxSkb <- 2, MaxWire <- 3, MaxAgain <- 0,
    MaxBad <- 1, Rogue <- {P("c2h", 1, 2, 1, FALSE, TRUE, TRUE)}

\* A write with inline data and one with R2T; a caravan of two pieces in a
\* socket buffer of three.
I10Q == INSTANCE I10Queue WITH work <- h_work, io <- h_io, pending <- h_pending,
    stage <- h_stage, caravan <- h_caravan, send_now <- h_send_now, wire <- h_wire,
    last <- h_last, nospace <- h_nospace, pc <- h_pc, state <- h_state,
    Req <- {"a", "b"}, Kind <- [a |-> "inline", b |-> "r2t"], DataLen <- 2,
    Submitter <- {"s1"}, By <- [r \in {"a", "b"} |-> "s1"], Agg <- 2, Cap <- 2, SndBuf <- 3,
    SameCpu <- TRUE, Legacies <- {TRUE, FALSE}, MaxFail <- 1

\* Every step of the host's allocation may fail; on the target those before
\* the crypto and the commands of a queue are set up.
AllocHost == INSTANCE QueueAlloc WITH allocated <- a_allocated, attempts <- a_attempts,
    Drivers <- {"tcp", "i10"}, MaxAttempts <- 2,
    Faulty <- {"sock", "options", "bind", "crypto", "pdu", "connect", "icreq", "icresp", "exchange",
               "iovs", "mapped"}
AllocTarget == INSTANCE QueueAlloc WITH allocated <- a_allocated, attempts <- a_attempts,
    MaxAttempts <- 2,
    Drivers <- {"nvmet", "nvmet_i10", "port", "port_i10", "init_tcp", "init_i10", "init_rdma",
                "init_nvmet", "init_nvmet_i10", "ring", "rq_map"},
    Faulty <- {"iovs", "mapped", "newsock", "queue", "cmds", "ida", "cmd_pdu", "rsp_pdu",
               "data_pdu", "r2t_pdu", "sq", "callbacks", "port", "addr", "lsock", "options",
               "bind", "listen", "wq", "wq_lat", "ib", "register", "ring", "data1", "dma1", "data2",
               "dma2", "tags", "rqs", "static_rqs", "page1", "rq1", "page2", "rq2"}

\* RdmaRequest!Kind.
RqKind == [a |-> "fr", b |-> "inline"]

\* Commands of every kind on an open queue; reads on one that is closed.
Open == INSTANCE TargetQueue WITH state <- t_state, cmd <- t_cmd, work <- t_work,
    Id <- {1, 2}, Kinds <- {"read", "inline", "write", "badread"}, DataLen <- 2,
    Modes <- {<<TRUE, FALSE>>, <<FALSE, FALSE>>, <<FALSE, TRUE>>}, Cap <- 2, SndBuf <- 3,
    MaxIssue <- 2, MaxBad <- 1, MaxClose <- 0
Close == INSTANCE TargetQueue WITH state <- t_state, cmd <- t_cmd, work <- t_work,
    Id <- {1, 2}, Kinds <- {"read", "badread"}, DataLen <- 2,
    Modes <- {<<TRUE, FALSE>>, <<FALSE, FALSE>>}, Cap <- 2, SndBuf <- 3, MaxIssue <- 2,
    MaxBad <- 0, MaxClose <- 1
OpenI10 == INSTANCE TargetQueue WITH state <- t_state, cmd <- t_cmd, work <- t_work,
    Id <- {1, 2}, Kinds <- {"read", "write", "badread"}, DataLen <- 2, Cap <- 2, SndBuf <- 3,
    MaxIssue <- 2, MaxBad <- 1, MaxClose <- 0,
    Modes <- Open!I10Modes({TRUE, FALSE})

-----------------------------------------------------------------------------
(* The parts *)

NoCtrl ==
    /\ state = 0 /\ count = 0 /\ alloc = 0 /\ live = 0 /\ async = 0 /\ sets = 0
    /\ quiesced = 0 /\ nr_hw = 0 /\ req = 0 /\ cmd = 0 /\ work = 0 /\ prog = 0
    /\ nr_reconnects = 0 /\ c_fault = 0 /\ c_errors = 0 /\ resets = 0 /\ hung = 0
NoRecv ==
    /\ hdr_digest = 0 /\ data_digest = 0 /\ wire = 0 /\ whole = 0 /\ skb = 0 /\ pdu = 0
    /\ pdu_remaining = 0 /\ data_remaining = 0 /\ ddgst_remaining = 0 /\ hash = 0
    /\ rd_enabled = 0 /\ recovering = 0 /\ stopped = 0 /\ r_got = 0 /\ h2c = 0 /\ ended = 0
    /\ left = 0 /\ phase = 0 /\ r_bad = 0 /\ rogue = 0 /\ again = 0
NoI10 ==
    /\ legacy = 0 /\ send_list = 0 /\ nr_req = 0 /\ timer = 0 /\ h_work = 0 /\ h_io = 0
    /\ h_pending = 0 /\ request = 0 /\ h_stage = 0 /\ h_caravan = 0 /\ mapped = 0
    /\ h_send_now = 0 /\ h_wire = 0 /\ h_last = 0 /\ h_nospace = 0 /\ rsp = 0 /\ h_pc = 0
    /\ at = 0 /\ loaded = 0 /\ h_state = 0 /\ fails = 0
NoAlloc ==
    /\ driver = 0 /\ digest = 0 /\ pc = 0 /\ todo = 0 /\ held = 0 /\ a_allocated = 0
    /\ bogus = 0 /\ a_attempts = 0
NoTarget ==
    /\ mode = 0 /\ t_state = 0 /\ rcv = 0 /\ cur = 0 /\ got = 0 /\ t_cmd = 0 /\ free = 0
    /\ exec = 0 /\ resp = 0 /\ snd = 0 /\ stage = 0 /\ caravan = 0 /\ ccmds = 0
    /\ send_now = 0 /\ out = 0 /\ nospace = 0 /\ in = 0 /\ tx = 0 /\ last = 0 /\ host = 0
    /\ t_work = 0 /\ io = 0 /\ pending = 0 /\ ret = 0 /\ rel = 0 /\ barrier = 0
    /\ closed = 0 /\ fatal = 0 /\ issued = 0 /\ bad = 0

MCInit ==
    /\ Init /\ ConnInit /\ ConfigInit
    /\ \/ /\ \/ part = "tcp" /\ Tcp!Init
             \/ part = "tcp_hung" /\ TcpHung!Init
             \/ part = "i10" /\ I10!Init
             \/ part = "rdma" /\ Rdma!Init
             \/ part = "rdma_delete" /\ RdmaDelete!Init
          /\ NoRecv /\ NoI10 /\ NoAlloc /\ NoTarget
       \/ /\ \/ part = "recv" /\ Recv!Init
             \/ part = "recv_i10" /\ RecvI10!Init
          /\ NoCtrl /\ NoI10 /\ NoAlloc /\ NoTarget
       \/ /\ part = "i10_queue" /\ I10Q!Init
          /\ NoCtrl /\ NoRecv /\ NoAlloc /\ NoTarget
       \/ /\ \/ part = "alloc_host" /\ AllocHost!Init
             \/ part = "alloc_target" /\ AllocTarget!Init
          /\ NoCtrl /\ NoRecv /\ NoI10 /\ NoTarget
       \/ /\ \/ part = "open" /\ Open!Init
             \/ part = "close" /\ Close!Init
             \/ part = "open_i10" /\ OpenI10!I10Init
          /\ NoCtrl /\ NoRecv /\ NoI10 /\ NoAlloc
       \/ /\ part \in {"rq", "conn", "config"}
          /\ NoCtrl /\ NoRecv /\ NoI10 /\ NoAlloc /\ NoTarget

MCNext ==
    /\ part' = part
    /\ \/ /\ \/ part = "tcp" /\ Tcp!Next
             \/ part = "tcp_hung" /\ TcpHung!Next
             \/ part = "i10" /\ I10!Next
             \/ part = "rdma" /\ Rdma!Next
             \/ part = "rdma_delete" /\ RdmaDelete!Next
          /\ UNCHANGED <<recvVars, i10Vars, allocVars, connVars, vars, targetVars, configVars>>
       \/ /\ \/ part = "recv" /\ Recv!Next
             \/ part = "recv_i10" /\ RecvI10!I10Next
          /\ UNCHANGED <<ctrlVars, i10Vars, allocVars, connVars, vars, targetVars, configVars>>
       \/ /\ part = "i10_queue" /\ I10Q!Next
          /\ UNCHANGED <<ctrlVars, recvVars, allocVars, connVars, vars, targetVars, configVars>>
       \/ /\ \/ part = "alloc_host" /\ AllocHost!Next
             \/ part = "alloc_target" /\ AllocTarget!Next
          /\ UNCHANGED <<ctrlVars, recvVars, i10Vars, connVars, vars, targetVars, configVars>>
       \/ /\ part = "conn" /\ ConnNext
          /\ UNCHANGED <<ctrlVars, recvVars, i10Vars, allocVars, vars, targetVars, configVars>>
       \/ /\ part = "rq" /\ Next
          /\ UNCHANGED <<ctrlVars, recvVars, i10Vars, allocVars, connVars, targetVars, configVars>>
       \/ /\ \/ part = "open" /\ Open!Next
             \/ part = "close" /\ Close!Next
             \/ part = "open_i10" /\ OpenI10!I10Next
          /\ UNCHANGED <<ctrlVars, recvVars, i10Vars, allocVars, connVars, vars, configVars>>
       \/ /\ part = "config" /\ ConfigNext
          /\ UNCHANGED <<ctrlVars, recvVars, i10Vars, allocVars, connVars, vars, targetVars>>

MCSpec == MCInit /\ [][MCNext]_mcVars

-----------------------------------------------------------------------------
\* NvmeTcpCtrl: no worker or request touches what another one has freed.
NoUseAfterFree == part = "tcp" => Tcp!NoUseAfterFree

\* NvmeTcpCtrl: a teardown leaves no request on the wire.
HandledBeforeConnecting ==
    [][part = "tcp" /\ state # "CONNECTING" /\ state' = "CONNECTING"
          => req["r1"] \notin {"ready", "sent", "lost"}]_mcVars

\* The three drivers: a live controller has all its queues, connected (and its
\* variables have their types).
LiveIsConnected ==
    /\ part \in {"tcp", "tcp_hung", "i10", "rdma", "rdma_delete"} => Tcp!TypeOK
    /\ part \in {"tcp", "tcp_hung"} => Tcp!LiveIsConnected
    /\ part = "i10" => I10!LiveIsConnected
    /\ part = "rdma" => Rdma!LiveIsAllocated

\* Both receivers: the counters always say what comes next in the stream, and a
\* request ends once, with all its data, undamaged.
ReceivedIntact ==
    part \in {"recv", "recv_i10"} => Recv!StreamInSync /\ Recv!EndedIntact

\* I10Queue, TargetQueue: PDUs reach the socket whole and in order, however
\* often the caravan was full or the socket took nothing.
StreamsWhole ==
    /\ part = "i10_queue" => I10Q!StreamWhole
    /\ part \in {"open", "close", "open_i10"} => Open!TargetStreamWhole

\* QueueAlloc: every failure and every teardown releases exactly what is held.
NothingLeaks ==
    /\ part = "alloc_host" => AllocHost!NothingLeaks
    /\ part = "alloc_target" => AllocTarget!NothingLeaks

\* TargetQueue: what a caravan points to belongs to a command that has its slot,
\* a command finds a free slot although caravans hold theirs until they are sent,
\* and a queue is freed when nothing can reach it any more.
NothingDangles ==
    /\ part \in {"open", "close", "open_i10"} => Open!CaravanPinned /\ Open!SlotsSuffice
    /\ part = "close" => Close!ReleasedAtRest
=============================================================================
