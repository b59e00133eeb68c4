---------------------------- MODULE NvmeTcpCtrl ----------------------------
(***************************************************************************)
(* The controller of the NVMe/TCP host driver: creation, error recovery,   *)
(* reconnect, reset, deletion and the timeout handler, each on a worker of *)
(* its own, over the queues they set up and tear down.                     *)
(*                                                                         *)
(* A worker's program is the sequence of calls it still has to make, with  *)
(* the functions of the driver unfolded into it: a call that fails         *)
(* replaces the rest by the goto-chain of its function.  Commands of a     *)
(* setup are synchronous, so one is under way at most.                     *)
(***************************************************************************)
EXTENDS Integers, Sequences

CONSTANTS
    NrIo,           \* I/O queues asked for
    Grants,         \* numbers of them the target may grant
    Req,            \* I/O requests
    MaxReconnects,  \* opts->max_reconnects
    MaxErrors,      \* bound: connection errors
    MaxResets,      \* bound: resets asked for by the user
    MaxHung,        \* bound: commands and requests that are never answered
    Icdoff          \* {FALSE}, or BOOLEAN: the target may report an icdoff

Queue == 0 .. NrIo
Worker == {"create", "connect", "err", "reset", "delete", "timeout"}

VARIABLES
    state,          \* ctrl->state; "GONE" after nvme_tcp_free_ctrl
    count,          \* ctrl->queue_count
    alloc, live,    \* NVME_TCP_Q_ALLOCATED, NVME_TCP_Q_LIVE
    async,          \* async_req.pdu is allocated
    sets,           \* request queues and tag sets that exist: "admin", "io"
    quiesced,       \* quiesced ones: "admin", "io" (the namespaces' queues)
    nr_hw,          \* hardware queues of the I/O tag set
    req,            \* I/O request: none, queued, ready (inside queue_rq), sent, lost
    cmd,            \* the command of a setup: none, sent, lost, ok, err
    work,           \* work items queued
    prog,           \* prog[w]: what the worker still has to do
    nr_reconnects,
    fault,          \* history: a freed queue was used or an allocated one lost
    errors, resets, hung

flags == <<alloc, live, async>>
block == <<sets, nr_hw, quiesced>>
bounds == <<errors, resets, hung>>
vars == <<state, count, flags, block, req, cmd, work, prog, nr_reconnects, fault,
          bounds>>

S(op, q, k) == [op |-> op, q |-> q, k |-> k]
Do(op) == <<S(op, 0, "")>>
On(op, q) == <<S(op, q, "")>>
\* op for the queues of a loop, upwards or downwards.
Up(op, n) == [i \in 1 .. n |-> S(op, i, "")]
Down(op, n) == [i \in 1 .. n |-> S(op, n + 1 - i, "")]
Cmd(k, q) == <<S("send", q, k), S("wait", q, k)>>

-----------------------------------------------------------------------------
(* The functions of the driver as programs.  new: called from create_ctrl, *)
(* which also makes the request queues and tag sets; remove: undoes that.  *)

If(c, p) == IF c THEN p ELSE <<>>

FreeAdminQueue == Do("testAsync") \o On("free", 0)
DestroyAdminQueue(remove) ==
    On("stop", 0) \o If(remove, Do("dropAdmin")) \o FreeAdminQueue
DestroyIoQueues(remove) ==
    Up("stop", count - 1) \o If(remove, Do("dropIo")) \o Up("free", count - 1)

TeardownAdminQueue(remove) ==
    Do("quiesceAdmin") \o On("stop", 0) \o Do("cancelAdmin")
      \o If(remove, Do("unquiesceAdmin")) \o DestroyAdminQueue(remove)
\* Mutant: the requests are left to the target.
TeardownIoQueues_NoCancel(remove) ==
    If(count > 1, Do("quiesceIo") \o If(remove, Do("unquiesceIo")) \o DestroyIoQueues(remove))
TeardownIoQueues(remove) ==
    If(count > 1,
       Do("quiesceIo") \o Up("stop", count - 1) \o Do("cancelIo")
         \o If(remove, Do("unquiesceIo")) \o DestroyIoQueues(remove))

ConfigureAdminQueue(new) ==
    On("alloc", 0) \o Do("allocAsync") \o If(new, Do("makeAdmin"))
      \o Cmd("connect", 0) \o Cmd("enable", 0) \o Do("unquiesceAdmin")
      \o Cmd("identify", 0)
StartIoQueues(n) ==
    [i \in 1 .. 2 * n |-> S(IF i % 2 = 1 THEN "send" ELSE "wait", (i + 1) \div 2, "connect")]
\* The rest of nvme_tcp_configure_io_queues, n queues being granted.
ConfigureIoQueues(n, new) ==
    Up("alloc", n) \o (IF new THEN Do("makeIo") ELSE Do("updateNr")) \o StartIoQueues(n)
SetupCtrl(new) ==
    ConfigureAdminQueue(new) \o Do("icdoff") \o If(count > 1, Cmd("count", 0))
      \o Do("goLive")

\* The goto-chains: what is left to do when step s of a setup has failed.
OutCleanupAdmin(new) == If(new, Do("dropAdmin")) \o FreeAdminQueue
DestroyAdmin(new) == On("stop", 0) \o DestroyAdminQueue(new)
Unwind(s, new) ==
    CASE s.op = "alloc" /\ s.q = 0      -> <<>>
      [] s.op = "allocAsync"            -> On("free", 0)
      [] s.op = "makeAdmin"             -> FreeAdminQueue
      [] s.k = "connect" /\ s.q = 0     -> On("startFails", 0) \o OutCleanupAdmin(new)
      [] s.k \in {"enable", "identify"} -> On("stop", 0) \o OutCleanupAdmin(new)
      [] s.k = "count"                  -> DestroyAdmin(new)
      [] s.op = "alloc" /\ s.q > 0      -> Down("free", s.q - 1) \o DestroyAdmin(new)
      [] s.op = "makeIo"                -> Up("free", count - 1) \o DestroyAdmin(new)
      [] s.k = "connect" /\ s.q > 0     -> On("startFails", s.q) \o Down("stop", s.q - 1)
                                             \o If(new, Do("dropIo")) \o Up("free", count - 1)
                                             \o DestroyAdmin(new)
      [] s.op = "goLive"                -> If(count > 1, DestroyIoQueues(new))
                                             \o DestroyAdmin(new)

\* What the callers of nvme_tcp_setup_ctrl do with an error, and with 0.
SetupFailed(w) ==
    CASE w = "create"  -> Do("freeCtrl")
      [] w = "connect" -> Do("reconnectOrRemove")
      [] w = "reset"   -> Do("countAttempt") \o Do("reconnectOrRemove")
SetupDone(w) == If(w = "connect", Do("clearAttempts"))

ErrorRecoveryWork ==
    TeardownIoQueues(FALSE) \o Do("unquiesceIo") \o TeardownAdminQueue(FALSE)
      \o Do("unquiesceAdmin") \o Do("goConnecting") \o Do("reconnectOrRemove")
TeardownCtrl(shutdown) ==
    Do("cancelErr") \o Do("cancelConnect") \o On("tearIo", IF shutdown THEN 1 ELSE 0)
      \o Do("quiesceAdmin") \o Cmd("disable", 0) \o TeardownAdminQueue(shutdown)
ResetCtrlWork == TeardownCtrl(FALSE) \o Do("goConnecting") \o Do("setup")
DeleteCtrlWork ==
    Do("flushReset") \o Do("removeNs") \o TeardownCtrl(TRUE) \o Do("freeCtrl")
ReconnectCtrlWork == Do("countAttempt") \o Do("setup")
TimeoutTeardown == Do("flushErr") \o On("tearIo", 0) \o TeardownAdminQueue(FALSE)

-----------------------------------------------------------------------------
Init ==
    /\ state = "CONNECTING" /\ count = NrIo + 1
    /\ alloc = [q \in Queue |-> FALSE] /\ live = alloc /\ async = FALSE
    /\ sets = {} /\ nr_hw = 0 /\ quiesced = {} /\ req = [r \in Req |-> "none"]
    /\ cmd = "none" /\ work = {} /\ nr_reconnects = 0 /\ fault = FALSE
    /\ prog = [w \in Worker |-> IF w = "create" THEN Do("setup") ELSE <<>>]
    /\ errors = 0 /\ resets = 0 /\ hung = 0

\* nvme_change_ctrl_state: the changes the core allows.
MayChange(to) ==
    CASE to = "LIVE"       -> state \in {"NEW", "RESETTING", "CONNECTING"}
      [] to = "RESETTING"  -> state \in {"NEW", "LIVE"}
      [] to = "CONNECTING" -> state \in {"NEW", "RESETTING"}
      [] to = "DELETING"   -> state \in {"LIVE", "RESETTING", "CONNECTING"}
\* nvmf_check_ready: outside LIVE only the driver's own commands.
CheckReady(k, q) ==
    \/ state = "LIVE"
    \/ k # "io" /\ live[q]
    \/ k = "connect" /\ state \in {"NEW", "CONNECTING"}

At(w, op) == prog[w] # <<>> /\ Head(prog[w]).op = op
Step(w) == Head(prog[w])
Goto(w, p) == prog' = [prog EXCEPT ![w] = p]
Proceed(w) == Goto(w, Tail(prog[w]))
\* A step of a setup fails: its goto-chain, then what the caller does.
Fails(w) == Goto(w, Unwind(Step(w), w = "create") \o SetupFailed(w))

-----------------------------------------------------------------------------
(* Queues *)

\* nvme_tcp_alloc_queue: sockets, digests, the connection and its handshake;
\* on any error everything is undone.
AllocQueue(w) ==
    /\ At(w, "alloc")
    /\ \/ /\ alloc' = [alloc EXCEPT ![Step(w).q] = TRUE]
          /\ fault' = (fault \/ alloc[Step(w).q])
          /\ Proceed(w)
       \/ Fails(w) /\ UNCHANGED <<alloc, fault>>
    /\ UNCHANGED <<state, count, live, async, block, req, cmd, work, nr_reconnects,
                   bounds>>

\* nvme_tcp_free_queue: once, whoever comes first.
FreeQueue(w) ==
    /\ At(w, "free")
    /\ alloc' = [alloc EXCEPT ![Step(w).q] = FALSE]
    /\ Proceed(w)
    /\ UNCHANGED <<state, count, live, async, block, req, cmd, work, nr_reconnects,
                   fault, bounds>>

\* Mutant: only the test for LIVE is dropped.
StopQueue_Again(w) ==
    /\ At(w, "stop")
    /\ live' = [live EXCEPT ![Step(w).q] = FALSE]
    /\ Goto(w, On("shut", Step(w).q) \o Tail(prog[w]))
    /\ UNCHANGED <<state, count, alloc, async, block, req, cmd, work, nr_reconnects,
                   fault, bounds>>
\* nvme_tcp_stop_queue clears LIVE and, if it was set, shuts the socket, puts
\* the callbacks back and waits for io_work: all on queue->sock.
StopQueue(w) ==
    /\ At(w, "stop")
    /\ live' = [live EXCEPT ![Step(w).q] = FALSE]
    /\ Goto(w, If(live[Step(w).q], On("shut", Step(w).q)) \o Tail(prog[w]))
    /\ UNCHANGED <<state, count, alloc, async, block, req, cmd, work, nr_reconnects,
                   fault, bounds>>
StopQueueSock(w) ==
    /\ At(w, "shut")
    /\ fault' = (fault \/ ~alloc[Step(w).q])
    /\ Proceed(w)
    /\ UNCHANGED <<state, count, flags, block, req, cmd, work, nr_reconnects, bounds>>
\* The error path of nvme_tcp_start_queue.
StartFails(w) ==
    /\ At(w, "startFails")
    /\ Goto(w, If(alloc[Step(w).q], On("shut", Step(w).q)) \o Tail(prog[w]))
    /\ UNCHANGED <<state, count, flags, block, req, cmd, work, nr_reconnects, fault,
                   bounds>>

\* nvme_tcp_alloc_async_req, and its release: tested, then freed.
AllocAsync(w) ==
    /\ At(w, "allocAsync")
    /\ \/ async' = TRUE /\ Proceed(w)
       \/ Fails(w) /\ UNCHANGED async
    /\ UNCHANGED <<state, count, alloc, live, block, req, cmd, work, nr_reconnects,
                   fault, bounds>>
TestAsync(w) ==
    /\ At(w, "testAsync")
    /\ Goto(w, If(async, Do("freeAsync")) \o Tail(prog[w]))
    /\ UNCHANGED <<state, count, flags, block, req, cmd, work, nr_reconnects, fault,
                   bounds>>
FreeAsync(w) ==
    /\ At(w, "freeAsync")
    /\ fault' = (fault \/ ~async) /\ async' = FALSE
    /\ Proceed(w)
    /\ UNCHANGED <<state, count, alloc, live, block, req, cmd, work, nr_reconnects,
                   bounds>>

\* Tag sets and request queues of a new controller, and their removal.
MakeSet(w) ==
    /\ At(w, "makeAdmin") \/ At(w, "makeIo")
    /\ \/ /\ At(w, "makeIo") => count > 1
          /\ sets' = sets \cup {IF At(w, "makeIo") THEN "io" ELSE "admin"}
          /\ nr_hw' = IF At(w, "makeIo") THEN count - 1 ELSE nr_hw
          /\ Proceed(w)
       \/ Fails(w) /\ UNCHANGED <<sets, nr_hw>>
    /\ UNCHANGED <<state, count, flags, quiesced, req, cmd, work, nr_reconnects, fault,
                   bounds>>
DropSet(w) ==
    /\ At(w, "dropAdmin") \/ At(w, "dropIo")
    /\ LET s == IF At(w, "dropIo") THEN "io" ELSE "admin"
       IN  sets' = sets \ {s} /\ fault' = (fault \/ s \notin sets)
    /\ Proceed(w)
    /\ UNCHANGED <<state, count, flags, nr_hw, quiesced, req, cmd, work, nr_reconnects,
                   bounds>>

\* blk_mq_update_nr_hw_queues: another number of hardware queues means freezing
\* the namespaces' queues, which waits for every request inside.
UpdateNrHwQueues(w) ==
    /\ At(w, "updateNr")
    /\ (count > 1 /\ nr_hw # count - 1) => \A r \in Req : req[r] = "none"
    /\ nr_hw' = IF count > 1 THEN count - 1 ELSE nr_hw
    /\ Proceed(w)
    /\ UNCHANGED <<state, count, flags, sets, quiesced, req, cmd, work, nr_reconnects,
                   fault, bounds>>

\* blk_mq_quiesce_queue and nvme_stop_queues: nobody is in queue_rq afterwards.
Quiesce(w) ==
    /\ At(w, "quiesceAdmin") \/ At(w, "quiesceIo")
    /\ quiesced' = quiesced \cup {IF At(w, "quiesceIo") THEN "io" ELSE "admin"}
    /\ At(w, "quiesceIo") => \A r \in Req : req[r] # "ready"
    /\ Proceed(w)
    /\ UNCHANGED <<state, count, flags, sets, nr_hw, req, cmd, work, nr_reconnects, fault,
                   bounds>>
Unquiesce(w) ==
    /\ At(w, "unquiesceAdmin") \/ At(w, "unquiesceIo")
    /\ quiesced' = quiesced \ {IF At(w, "unquiesceIo") THEN "io" ELSE "admin"}
    /\ Proceed(w)
    /\ UNCHANGED <<state, count, flags, sets, nr_hw, req, cmd, work, nr_reconnects, fault,
                   bounds>>

\* nvme_cancel_request for all of a tag set: an I/O request goes back to the
\* block layer, a command of a setup fails.
OnIoSet == \E v \in Worker : prog[v] # <<>> /\ Step(v).op = "wait" /\ Step(v).q > 0
Cancel(w) ==
    /\ At(w, "cancelAdmin") \/ At(w, "cancelIo")
    /\ req' = IF At(w, "cancelIo")
              THEN [r \in Req |-> IF req[r] \in {"sent", "lost"} THEN "queued" ELSE req[r]]
              ELSE req
    /\ cmd' = IF cmd \in {"sent", "lost"} /\ (At(w, "cancelIo") <=> OnIoSet)
              THEN "err" ELSE cmd
    /\ Proceed(w)
    /\ UNCHANGED <<state, count, flags, block, work, nr_reconnects, fault, bounds>>

-----------------------------------------------------------------------------
(* Commands and states *)

\* The caller of a setup enters it.
Setup(w) ==
    /\ At(w, "setup")
    /\ Goto(w, SetupCtrl(w = "create") \o SetupDone(w))
    /\ UNCHANGED <<state, count, flags, block, req, cmd, work, nr_reconnects, fault,
                   bounds>>

\* queue_rq for a command of a setup: refused if the queue is not ready.
\* Connect and property commands go through fabrics_q and connect_q, which
\* nobody quiesces, the others through admin_q.
SendCmd(w) ==
    /\ At(w, "send")
    /\ Step(w).k \in {"identify", "count"} => "admin" \notin quiesced
    /\ \/ /\ CheckReady(Step(w).k, Step(w).q)
          /\ cmd' = "sent" /\ fault' = (fault \/ ~alloc[Step(w).q])
          /\ Proceed(w)
       \/ /\ ~CheckReady(Step(w).k, Step(w).q)
          /\ cmd' = "err" /\ Proceed(w) /\ UNCHANGED fault
    /\ UNCHANGED <<state, count, flags, block, req, work, nr_reconnects, bounds>>

\* The target answers, well or badly; a dead connection never does.
Answer ==
    /\ cmd = "sent"
    /\ cmd' \in {"ok", "err"}
    /\ UNCHANGED <<state, count, flags, block, req, work, prog, nr_reconnects, fault,
                   bounds>>
Lose ==
    /\ hung < MaxHung /\ hung' = hung + 1
    /\ \/ cmd = "sent" /\ cmd' = "lost" /\ UNCHANGED req
       \/ /\ \E r \in Req : req[r] = "sent" /\ req' = [req EXCEPT ![r] = "lost"]
          /\ UNCHANGED cmd
    /\ UNCHANGED <<state, count, flags, block, work, prog, nr_reconnects, fault,
                   errors, resets>>

\* Mutant: the admin queue is counted twice.
QueueCount_Twice(n) == n + 2
\* queue_count when n I/O queues are granted.
QueueCount(n) == n + 1
\* The result: LIVE for a connect command, the number of queues for the one
\* that asks for it; nobody looks at the result of a shutdown.
CmdDone(w) ==
    /\ At(w, "wait") /\ cmd \in {"ok", "err"}
    /\ cmd' = "none"
    /\ \/ /\ cmd = "ok" /\ Step(w).k = "connect"
          /\ live' = [live EXCEPT ![Step(w).q] = TRUE]
          /\ Proceed(w) /\ UNCHANGED count
       \/ /\ cmd = "ok" /\ Step(w).k = "count"
          /\ \E n \in Grants :
                /\ count' = QueueCount(n)
                /\ Goto(w, ConfigureIoQueues(n, w = "create") \o Tail(prog[w]))
          /\ UNCHANGED live
       \/ /\ (cmd = "ok" /\ Step(w).k \in {"enable", "identify"}) \/ Step(w).k = "disable"
          /\ Proceed(w) /\ UNCHANGED <<count, live>>
       \/ /\ cmd = "err" /\ Step(w).k # "disable"
          /\ Fails(w) /\ UNCHANGED <<count, live>>
    /\ UNCHANGED <<state, alloc, async, block, req, work, nr_reconnects, fault, bounds>>

\* An icdoff is refused, but ret is still 0: the caller believes in success.
CheckIcdoff(w) ==
    /\ At(w, "icdoff")
    /\ \E bad \in Icdoff :
          Goto(w, IF bad THEN DestroyAdmin(w = "create") \o SetupDone(w) ELSE Tail(prog[w]))
    /\ UNCHANGED <<state, count, flags, block, req, cmd, work, nr_reconnects, fault,
                   bounds>>

\* The setup is complete: LIVE, and nvme_start_ctrl starts the namespaces.
GoLive(w) ==
    /\ At(w, "goLive")
    /\ \/ /\ MayChange("LIVE")
          /\ state' = "LIVE" /\ quiesced' = quiesced \ {"io"}
          /\ Proceed(w)
       \/ ~MayChange("LIVE") /\ Fails(w) /\ UNCHANGED <<state, quiesced>>
    /\ UNCHANGED <<count, flags, sets, nr_hw, req, cmd, work, nr_reconnects, fault, bounds>>

\* Everything is torn down: CONNECTING, or nothing more if it is being deleted.
GoConnecting(w) ==
    /\ At(w, "goConnecting")
    /\ \/ MayChange("CONNECTING") /\ state' = "CONNECTING" /\ Proceed(w)
       \/ ~MayChange("CONNECTING") /\ Goto(w, <<>>) /\ UNCHANGED state
    /\ UNCHANGED <<count, flags, block, req, cmd, work, nr_reconnects, fault, bounds>>

CountAttempt(w) ==
    /\ At(w, "countAttempt") \/ At(w, "clearAttempts")
    /\ nr_reconnects' = IF At(w, "countAttempt") THEN nr_reconnects + 1 ELSE 0
    /\ Proceed(w)
    /\ UNCHANGED <<state, count, flags, block, req, cmd, work, fault, bounds>>

\* Mutant: another attempt however many there were.
ReconnectOrRemove_Once(w) ==
    /\ At(w, "reconnectOrRemove")
    /\ \/ /\ state = "CONNECTING" /\ nr_reconnects < MaxReconnects
          /\ work' = work \cup {"connect"} /\ UNCHANGED state
       \/ /\ ~(state = "CONNECTING" /\ nr_reconnects < MaxReconnects)
          /\ UNCHANGED <<state, work>>
    /\ Proceed(w)
    /\ UNCHANGED <<count, flags, block, req, cmd, nr_reconnects, fault, bounds>>
\* nvme_tcp_reconnect_or_remove: another attempt after a while, or deletion.
ReconnectOrRemove(w) ==
    /\ At(w, "reconnectOrRemove")
    /\ \/ /\ state = "CONNECTING" /\ nr_reconnects < MaxReconnects
          /\ work' = work \cup {"connect"} /\ UNCHANGED state
       \/ /\ state = "CONNECTING" /\ nr_reconnects >= MaxReconnects
          /\ state' = "DELETING" /\ work' = work \cup {"delete"}
       \/ state # "CONNECTING" /\ UNCHANGED <<state, work>>
    /\ Proceed(w)
    /\ UNCHANGED <<count, flags, block, req, cmd, nr_reconnects, fault, bounds>>

\* cancel_work_sync, cancel_delayed_work_sync, flush_work: the item is not
\* queued any more and its worker has finished.
CancelWork(w) ==
    /\ \E v \in {"err", "connect", "reset"} :
          /\ \/ v = "err" /\ (At(w, "cancelErr") \/ At(w, "flushErr"))
             \/ v = "connect" /\ At(w, "cancelConnect")
             \/ v = "reset" /\ At(w, "flushReset")
          /\ prog[v] = <<>>
          /\ (At(w, "flushErr") \/ At(w, "flushReset")) => v \notin work
          /\ work' = work \ {v}
    /\ Proceed(w)
    /\ UNCHANGED <<state, count, flags, block, req, cmd, nr_reconnects, fault, bounds>>

\* Teardown of the I/O queues where queue_count is read late.
TearIo(w) ==
    /\ At(w, "tearIo")
    /\ Goto(w, TeardownIoQueues(Step(w).q = 1) \o Tail(prog[w]))
    /\ UNCHANGED <<state, count, flags, block, req, cmd, work, nr_reconnects, fault,
                   bounds>>

\* nvme_remove_namespaces: no new requests, those inside the driver finish.
RemoveNamespaces(w) ==
    /\ At(w, "removeNs") /\ \A r \in Req : req[r] \in {"none", "queued"}
    /\ req' = [r \in Req |-> "none"]
    /\ Proceed(w)
    /\ UNCHANGED <<state, count, flags, block, cmd, work, nr_reconnects, fault, bounds>>

\* nvme_uninit_ctrl and the last reference: nvme_tcp_free_ctrl.
FreeCtrl(w) ==
    /\ At(w, "freeCtrl")
    /\ state' = "GONE" /\ Proceed(w)
    /\ fault' = (fault \/ async \/ (\E q \in Queue : alloc[q]) \/ sets # {})
    /\ UNCHANGED <<count, flags, block, req, cmd, work, nr_reconnects, bounds>>

-----------------------------------------------------------------------------
(* Work items, requests, errors, the user *)

\* A queued work item gets its worker.
RunWork(w) ==
    /\ w \in work /\ prog[w] = <<>>
    /\ work' = work \ {w}
    /\ Goto(w, CASE w = "err"     -> ErrorRecoveryWork
                 [] w = "connect" -> ReconnectCtrlWork
                 [] w = "reset"   -> ResetCtrlWork
                 [] w = "delete"  -> DeleteCtrlWork)
    /\ UNCHANGED <<state, count, flags, block, req, cmd, nr_reconnects, fault, bounds>>

\* A request of a namespace: to queue_rq unless the queues are quiesced, to the
\* wire if the controller is ready, back again otherwise.
Removing == \E w \in Worker : At(w, "removeNs") \/ At(w, "updateNr")
SubmitIo(r) ==
    /\ req[r] = "none" /\ "io" \in sets /\ ~Removing /\ prog["create"] = <<>>
    /\ state \in {"LIVE", "RESETTING", "CONNECTING"}
    /\ req' = [req EXCEPT ![r] = "queued"]
    /\ UNCHANGED <<state, count, flags, block, cmd, work, prog, nr_reconnects, fault,
                   bounds>>
QueueRq(r) ==
    /\ req[r] = "queued" /\ "io" \notin quiesced /\ count > 1
    /\ CheckReady("io", 1)
    /\ req' = [req EXCEPT ![r] = "ready"]
    /\ UNCHANGED <<state, count, flags, block, cmd, work, prog, nr_reconnects, fault,
                   bounds>>
StartRequest(r) ==
    /\ req[r] = "ready"
    /\ req' = [req EXCEPT ![r] = "sent"] /\ fault' = (fault \/ ~alloc[1])
    /\ UNCHANGED <<state, count, flags, block, cmd, work, prog, nr_reconnects, bounds>>
Complete(r) ==
    /\ req[r] = "sent" /\ live[1]
    /\ req' = [req EXCEPT ![r] = "none"]
    /\ UNCHANGED <<state, count, flags, block, cmd, work, prog, nr_reconnects, fault,
                   bounds>>

\* nvme_tcp_error_recovery, for a broken connection, a protocol error or a
\* digest error: only the first one counts.
ErrorRecovery ==
    /\ errors < MaxErrors /\ (\E q \in Queue : live[q]) /\ errors' = errors + 1
    /\ \/ MayChange("RESETTING") /\ state' = "RESETTING" /\ work' = work \cup {"err"}
       \/ ~MayChange("RESETTING") /\ UNCHANGED <<state, work>>
    /\ UNCHANGED <<count, flags, block, req, cmd, prog, nr_reconnects, fault, resets, hung>>

\* nvme_tcp_timeout, for an I/O request or a command of a setup.  During a
\* reset the timer is only restarted.
Timeout ==
    /\ cmd = "lost" \/ \E r \in Req : req[r] = "lost"
    /\ prog["timeout"] = <<>>
    /\ \/ /\ state = "LIVE"
          /\ state' = "RESETTING" /\ work' = work \cup {"err"} /\ UNCHANGED prog
       \/ /\ state \in {"CONNECTING", "DELETING"}
          /\ Goto("timeout", TimeoutTeardown) /\ UNCHANGED <<state, work>>
    /\ UNCHANGED <<count, flags, block, req, cmd, nr_reconnects, fault, bounds>>

\* nvme_reset_ctrl and nvme_delete_ctrl from sysfs, once the controller exists.
ResetCtrl ==
    /\ resets < MaxResets /\ prog["create"] = <<>> /\ MayChange("RESETTING")
    /\ resets' = resets + 1 /\ state' = "RESETTING" /\ work' = work \cup {"reset"}
    /\ UNCHANGED <<count, flags, block, req, cmd, prog, nr_reconnects, fault, errors, hung>>
DeleteCtrl ==
    /\ prog["create"] = <<>> /\ MayChange("DELETING")
    /\ state' = "DELETING" /\ work' = work \cup {"delete"}
    /\ UNCHANGED <<count, flags, block, req, cmd, prog, nr_reconnects, fault, bounds>>

WorkerStep(w) ==
    \/ AllocQueue(w) \/ FreeQueue(w) \/ StopQueue(w) \/ StopQueueSock(w) \/ StartFails(w)
    \/ AllocAsync(w) \/ TestAsync(w) \/ FreeAsync(w) \/ MakeSet(w) \/ DropSet(w)
    \/ UpdateNrHwQueues(w) \/ Quiesce(w) \/ Unquiesce(w) \/ Cancel(w) \/ Setup(w)
    \/ SendCmd(w) \/ CmdDone(w) \/ CheckIcdoff(w) \/ GoLive(w) \/ GoConnecting(w)
    \/ CountAttempt(w) \/ ReconnectOrRemove(w) \/ CancelWork(w) \/ TearIo(w)
    \/ RemoveNamespaces(w) \/ FreeCtrl(w) \/ RunWork(w)

Request(r) == SubmitIo(r) \/ QueueRq(r) \/ StartRequest(r) \/ Complete(r)

Next ==
    \/ \E w \in Worker : WorkerStep(w)
    \/ \E r \in Req : Request(r)
    \/ Answer \/ Lose \/ ErrorRecovery \/ Timeout \/ ResetCtrl \/ DeleteCtrl

Spec == Init /\ [][Next]_vars

\* Workers run, timers fire, queue_rq returns; the target answers what it does
\* not lose.
Fairness ==
    /\ \A w \in Worker : WF_vars(WorkerStep(w))
    /\ \A r \in Req : WF_vars(StartRequest(r))
    /\ WF_vars(Answer) /\ WF_vars(Timeout)
FairSpec == Spec /\ Fairness

-----------------------------------------------------------------------------
(* Properties *)

TypeOK ==
    /\ state \in {"LIVE", "RESETTING", "CONNECTING", "DELETING", "GONE"}
    /\ count \in 1 .. NrIo + 1 /\ alloc \in [Queue -> BOOLEAN] /\ live \in [Queue -> BOOLEAN]
    /\ sets \subseteq {"admin", "io"} /\ quiesced \subseteq {"admin", "io"}
    /\ req \in [Req -> {"none", "queued", "ready", "sent", "lost"}]
    /\ cmd \in {"none", "sent", "lost", "ok", "err"} /\ work \subseteq Worker

\* No worker and no request touches a queue, a socket or a request queue that
\* another one has freed, none is freed twice, and none is left behind when the
\* controller goes.
NoUseAfterFree == ~fault

\* "Any timed out commands would be handled before entering the connecting
\* state" (nvme_tcp_timeout): when a teardown ends no request is on the wire.
HandledBeforeConnecting ==
    [][(state # "CONNECTING" /\ state' = "CONNECTING")
          => \A r \in Req : req[r] \notin {"ready", "sent", "lost"}]_vars

\* A live controller has all its queues connected.
LiveIsConnected == state = "LIVE" => \A q \in 0 .. count - 1 : alloc[q] /\ live[q]

\* "Any timed out commands would be handled before entering the connecting
\* state": a command that nobody answers is ended by somebody in the end.
TimedOutIsHandled == (cmd = "lost") ~> (cmd # "lost")

\* After an error or a reset the controller is connected again or removed,
\* whatever fails on the way (unless the workers have corrupted each other).
Settles == (state \in {"RESETTING", "CONNECTING"}) ~> (state \in {"LIVE", "GONE"} \/ fault)
=============================================================================
