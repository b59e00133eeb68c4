----------------------------- MODULE QueueAlloc -----------------------------
(***************************************************************************)
(* Building a queue step by step, in the two host drivers and in the two   *)
(* targets, a ring of receive buffers in rdma.c and a tag map in blk-mq.c, *)
(* opening a target's port and loading the modules: a step may fail, and   *)
(* the goto-label it jumps to releases what was acquired so far.  The      *)
(* drivers acquire the caravan arrays at different places and release them *)
(* differently.                                                            *)
(***************************************************************************)
EXTENDS Integers, Sequences, SequencesExt

CONSTANT
    Drivers,        \* "tcp", "i10", "nvmet", "nvmet_i10"; "port..." and "init..." of each;
                    \* "ring", "rq_map"
    Faulty,         \* steps that may fail
    MaxAttempts     \* bound: attempts to allocate the queue

VARIABLES
    driver, digest, \* digest: header or data digests are on
    pc,             \* "idle", "alloc", "unwind", "up", "free"
    todo,           \* steps still to take, or resources still to release
    held,           \* resources held
    allocated,      \* Q_ALLOCATED
    bogus,          \* history: something not held was released
    attempts

vars == <<driver, digest, pc, todo, held, allocated, bogus, attempts>>

\* Steps of an allocation.  Options, bind, listen, the address and connecting
\* take nothing, the crypto only with digests; "put_x" releases x.
Crypto == IF digest THEN <<"crypto">> ELSE <<>>
\* nvme_tcp_init_connection: the exchange is that of ICReq and ICResp with the
\* checks of the answer.
Handshake == <<"icreq", "icresp", "exchange", "put_icresp", "put_icreq">>
HandshakeGoto(s) ==
    CASE s = "icresp" -> <<"icreq">> [] s = "exchange" -> <<"icresp", "icreq">> [] OTHER -> <<>>
I10Handshake == Handshake
TcpSteps ==
    <<"iovs", "mapped", "sock", "options", "bind">> \o Crypto \o <<"pdu", "connect">> \o Handshake
I10Steps ==
    <<"sock", "options", "bind", "iovs", "mapped">> \o Crypto \o <<"pdu", "connect">> \o I10Handshake

\* The label of a failed step: what is released from there on.
Connecting(s) == s \in {"connect", "icreq", "icresp", "exchange"}
TcpGoto(s) ==
    CASE s = "sock"      -> <<>>
      [] Connecting(s)   -> HandshakeGoto(s) \o <<"pdu">> \o Crypto \o <<"sock">>
      [] s = "pdu"       -> Crypto \o <<"sock">>
      [] OTHER           -> <<"sock">>
\* Mutant: a crypto failure jumps past the arrays.
I10Goto_Crypto(s) ==
    CASE s = "sock"      -> <<>>
      [] Connecting(s)   -> HandshakeGoto(s) \o <<"pdu">> \o Crypto \o <<"mapped", "iovs", "sock">>
      [] s = "pdu"       -> Crypto \o <<"mapped", "iovs", "sock">>
      [] s = "mapped"    -> <<"iovs", "sock">>
      [] OTHER           -> <<"sock">>
I10Goto(s) ==
    CASE s = "sock"      -> <<>>
      [] Connecting(s)   -> HandshakeGoto(s) \o <<"pdu">> \o Crypto \o <<"mapped", "iovs", "sock">>
      [] s = "pdu"       -> Crypto \o <<"mapped", "iovs", "sock">>
      [] s = "crypto"    -> <<"mapped", "iovs", "sock">>
      [] s = "mapped"    -> <<"iovs", "sock">>
      [] OTHER           -> <<"sock">>
TcpFree == Crypto \o <<"sock", "pdu", "iovs", "mapped">>
I10Free == TcpFree

\* The targets: nvmet_tcp_accept_work, nvmet_tcp_alloc_queue with the PDUs of
\* nvmet_tcp_alloc_cmd and nvmet_tcp_set_queue_sock; later, at the first
\* command, the crypto of nvmet_tcp_handle_icreq and nvmet_tcp_install_queue.
NvmetPdus == <<"cmd_pdu", "rsp_pdu", "data_pdu", "r2t_pdu">>
NvmetSetSock == <<"list", "callbacks">>
NvmetAlloc ==
    <<"newsock", "queue", "iovs", "cmds", "mapped", "ida">> \o NvmetPdus \o <<"sq">> \o NvmetSetSock
NvmetInstall == Crypto \o <<"cmdarr">>
NvmetI10Pdus == NvmetPdus
NvmetI10SetSock == NvmetSetSock
NvmetI10Alloc ==
    <<"newsock", "queue", "iovs", "cmds", "mapped", "ida">> \o NvmetI10Pdus \o <<"sq">> \o NvmetI10SetSock
\* nvmet_tcp_release_queue_work; only i10.c frees the caravan arrays.
NvmetRelease ==
    <<"list", "callbacks", "sq", "newsock", "cmdarr">> \o Reverse(NvmetPdus) \o Crypto \o <<"ida", "queue">>
NvmetI10Release ==
    <<"list", "callbacks", "sq", "newsock", "cmdarr">> \o Reverse(NvmetPdus) \o Crypto
      \o <<"ida", "iovs", "cmds", "mapped", "queue">>
\* The labels undo the steps before the failed one; a failure after the queue is
\* set up ends the connection instead, and with it the queue.
NvmetGoto(s) ==
    IF s \in {"crypto", "cmdarr"}
    THEN IF driver = "nvmet" THEN NvmetRelease ELSE NvmetI10Release
    ELSE LET n == CHOOSE k \in 1 .. Len(NvmetAlloc) : NvmetAlloc[k] = s
         IN Reverse(SubSeq(NvmetAlloc, 1, n - 1))

\* nvme_rdma_alloc_ring: for each entry the buffer and its DMA mapping, released
\* in the opposite order by nvme_rdma_alloc_qe and nvme_rdma_free_ring.
RingSteps == <<"ring", "data1", "dma1", "data2", "dma2">>
RingGoto(s) ==
    LET n == CHOOSE k \in 1 .. Len(RingSteps) : RingSteps[k] = s
    IN Reverse(SubSeq(RingSteps, 1, n - 1))
RingFree == <<"dma1", "data1", "dma2", "data2", "ring">>

\* __blk_mq_alloc_rq_map: blk_mq_alloc_rq_map, then the requests of
\* blk_mq_alloc_rqs, here one to a page, each set up by init_request.
MapArrays == <<"tags", "rqs", "static_rqs">>
RqMapSteps == MapArrays \o <<"page1", "rq1", "page2", "rq2">>
\* blk_mq_free_rqs (the requests that were set up, then the pages) and
\* blk_mq_free_rq_map of a map that was built from the steps in done.
RqMapFree(done) ==
    LET of(names) == LET in(s) == s \in names IN SelectSeq(done, in)
    IN of({"rq1", "rq2"}) \o of({"page1", "page2"}) \o of({"rqs"}) \o of({"static_rqs"}) \o of({"tags"})
RqMapGoto(s) ==
    LET n == CHOOSE k \in 1 .. Len(RqMapSteps) : RqMapSteps[k] = s
    IN RqMapFree(SubSeq(RqMapSteps, 1, n - 1))

\* nvmet_tcp_add_port and nvmet_tcp_remove_port.
PortSteps == <<"port", "addr", "lsock", "options", "bind", "listen">>
I10PortSteps == PortSteps
PortGoto(s) ==
    CASE s = "port" -> <<>> [] s \in {"addr", "lsock"} -> <<"port">> [] OTHER -> <<"lsock", "port">>
PortRemove == <<"lsock", "port">>
I10PortRemove == PortRemove

\* Loading and unloading the modules; a second work queue has no label, and the
\* host drivers do not look at the result of nvmf_register_transport.
TcpInit == <<"wq", "wq_lat", "registered">>
TcpExit == <<"registered", "wq", "wq_lat">>
I10Init == <<"wq", "registered">>
I10Exit == <<"registered", "wq">>
RdmaInit == <<"ib", "register">>
RdmaInitGoto(s) == IF s = "register" THEN <<"ib">> ELSE <<>>
RdmaExit == <<"register", "ib">>
NvmetInit == <<"wq", "wq_lat", "register">>
NvmetInitGoto(s) == IF s = "register" THEN <<"wq", "wq_lat">> ELSE <<>>
NvmetExit == <<"register", "wq", "wq_lat">>
NvmetI10Init == <<"wq", "register">>
NvmetI10InitGoto(s) == IF s = "register" THEN <<"wq">> ELSE <<>>
NvmetI10Exit == <<"register", "wq">>

Target == driver \in {"nvmet", "nvmet_i10"}
Steps ==
    CASE driver = "tcp"            -> TcpSteps
      [] driver = "i10"            -> I10Steps
      [] driver = "nvmet"          -> NvmetAlloc \o NvmetInstall
      [] driver = "nvmet_i10"      -> NvmetI10Alloc \o NvmetInstall
      [] driver = "port"           -> PortSteps
      [] driver = "port_i10"       -> I10PortSteps
      [] driver = "init_tcp"       -> TcpInit
      [] driver = "init_i10"       -> I10Init
      [] driver = "init_rdma"      -> RdmaInit
      [] driver = "init_nvmet"     -> NvmetInit
      [] driver = "init_nvmet_i10" -> NvmetI10Init
      [] driver = "ring"           -> RingSteps
      [] driver = "rq_map"         -> RqMapSteps
Goto(s) ==
    CASE driver = "tcp"                      -> TcpGoto(s)
      [] driver = "i10"                      -> I10Goto(s)
      [] Target                              -> NvmetGoto(s)
      [] driver \in {"port", "port_i10"}     -> PortGoto(s)
      [] driver \in {"init_tcp", "init_i10"} -> <<>>
      [] driver = "init_rdma"                -> RdmaInitGoto(s)
      [] driver = "init_nvmet"               -> NvmetInitGoto(s)
      [] driver = "init_nvmet_i10"           -> NvmetI10InitGoto(s)
      [] driver = "ring"                     -> RingGoto(s)
      [] driver = "rq_map"                   -> RqMapGoto(s)
Teardown ==
    CASE driver = "tcp"            -> TcpFree
      [] driver = "i10"            -> I10Free
      [] driver = "nvmet"          -> NvmetRelease
      [] driver = "nvmet_i10"      -> NvmetI10Release
      [] driver = "port"           -> PortRemove
      [] driver = "port_i10"       -> I10PortRemove
      [] driver = "init_tcp"       -> TcpExit
      [] driver = "init_i10"       -> I10Exit
      [] driver = "init_rdma"      -> RdmaExit
      [] driver = "init_nvmet"     -> NvmetExit
      [] driver = "init_nvmet_i10" -> NvmetI10Exit
      [] driver = "ring"           -> RingFree
      [] driver = "rq_map"         -> RqMapFree(RqMapSteps)
Takes(s) == s \notin {"options", "bind", "connect", "exchange", "addr", "listen"}
Puts == [put_icresp |-> "icresp", put_icreq |-> "icreq"]

Init ==
    /\ driver \in Drivers /\ digest \in BOOLEAN /\ pc = "idle" /\ todo = <<>>
    /\ held = {} /\ allocated = FALSE /\ bogus = FALSE /\ attempts = 0

AllocQueue ==
    /\ pc = "idle" /\ attempts < MaxAttempts
    /\ pc' = "alloc" /\ attempts' = attempts + 1
    /\ todo' = Steps
    /\ UNCHANGED <<driver, digest, held, allocated, bogus>>
AllocStep ==
    /\ pc = "alloc" /\ todo # <<>>
    /\ todo' = Tail(todo)
    /\ held' = CASE Head(todo) \in DOMAIN Puts -> held \ {Puts[Head(todo)]}
                 [] ~Takes(Head(todo))         -> held
                 [] OTHER                      -> held \cup {Head(todo)}
    /\ UNCHANGED <<driver, digest, pc, allocated, bogus, attempts>>
AllocFails ==
    /\ pc = "alloc" /\ todo # <<>> /\ Head(todo) \in Faulty
    /\ pc' = "unwind"
    /\ todo' = Goto(Head(todo))
    /\ UNCHANGED <<driver, digest, held, allocated, bogus, attempts>>
\* ALLOCATED and the callbacks of the socket.
AllocDone ==
    /\ pc = "alloc" /\ todo = <<>>
    /\ pc' = "up" /\ allocated' = TRUE
    /\ UNCHANGED <<driver, digest, todo, held, bogus, attempts>>

\* nvme_tcp_free_queue, the release of a target's queue, remove_port, exit.
FreeQueue ==
    /\ pc = "up" /\ allocated
    /\ pc' = "unwind" /\ allocated' = FALSE
    /\ todo' = Teardown
    /\ UNCHANGED <<driver, digest, held, bogus, attempts>>
Release ==
    /\ pc = "unwind" /\ todo # <<>>
    /\ bogus' = (bogus \/ Head(todo) \notin held)
    /\ held' = held \ {Head(todo)} /\ todo' = Tail(todo)
    /\ UNCHANGED <<driver, digest, pc, allocated, attempts>>
Unwound ==
    /\ pc = "unwind" /\ todo = <<>>
    /\ pc' = "idle"
    /\ UNCHANGED <<driver, digest, todo, held, allocated, bogus, attempts>>

Next ==
    \/ AllocQueue \/ AllocStep \/ AllocFails \/ AllocDone \/ FreeQueue \/ Release \/ Unwound

Spec == Init /\ [][Next]_vars

\* However far an allocation gets, the label it jumps to releases exactly what
\* is held, in both i10 drivers; in tcp.c no label, and in the target's tcp.c
\* no release, frees the caravan arrays, and a failed init keeps a work queue.
NothingLeaks ==
    /\ pc = "idle" => held \subseteq
          CASE driver = "tcp"   -> {"iovs", "mapped"}
            [] driver = "nvmet" -> {"iovs", "cmds", "mapped"}
            [] driver \in {"init_tcp", "init_nvmet"} -> {"wq"}
            [] OTHER            -> {}
    /\ driver # "tcp" => ~bogus
=============================================================================
