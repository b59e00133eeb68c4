------------------------------ MODULE RdmaCtrl ------------------------------
(***************************************************************************)
(* The controller of the NVMe/RDMA host driver.  It has the workers and    *)
(* the steps of NvmeTcpCtrl; its programs differ in where a queue is       *)
(* stopped: destroying the admin or the I/O queues frees them and leaves   *)
(* stopping them to the caller, which not every caller does.               *)
(***************************************************************************)
EXTENDS Integers, Sequences

CONSTANTS NrIo, Grants, Req, MaxReconnects, MaxErrors, MaxResets, MaxHung,
          Icdoff,       \* {FALSE}, or BOOLEAN: icdoff set or keyed SGLs missing
          DeleteIn      \* the states in which the controller may be deleted

VARIABLES state, count, alloc, live, async, sets, quiesced, nr_hw, req, cmd, work, prog,
          nr_reconnects, fault, errors, resets, hung

T == INSTANCE NvmeTcpCtrl
flags == <<alloc, live, async>>
block == <<sets, nr_hw, quiesced>>
bounds == <<errors, resets, hung>>
vars == <<state, count, flags, block, req, cmd, work, prog, nr_reconnects, fault, bounds>>

Init == T!Init

-----------------------------------------------------------------------------
(* The functions of rdma.c *)

DestroyAdminQueue(remove) ==
    T!If(remove, T!Do("dropAdmin")) \o T!Do("testAsync") \o T!On("free", 0)
DestroyIoQueues(remove) == T!If(remove, T!Do("dropIo")) \o T!Up("free", count - 1)

TeardownAdminQueue(remove) ==
    T!Do("quiesceAdmin") \o T!On("stop", 0) \o T!Do("cancelAdmin")
      \o T!If(remove, T!Do("unquiesceAdmin")) \o DestroyAdminQueue(remove)
TeardownIoQueues(remove) ==
    T!If(count > 1,
         T!Do("quiesceIo") \o T!Up("stop", count - 1) \o T!Do("cancelIo")
           \o T!If(remove, T!Do("unquiesceIo")) \o DestroyIoQueues(remove))

ConfigureAdminQueue(new) == T!ConfigureAdminQueue(new)
ConfigureIoQueues(n, new) ==
    T!Up("alloc", n) \o T!Do(IF new THEN "makeIo" ELSE "updateNr") \o T!StartIoQueues(n)
SetupCtrl(new) ==
    ConfigureAdminQueue(new) \o T!Do("icdoff") \o T!If(count > 1, T!Cmd("count", 0))
      \o T!Do("goLive")

\* destroy_admin of nvme_rdma_setup_ctrl, and the goto-chains that end in it.
DestroyAdmin(new) == T!On("stop", 0) \o DestroyAdminQueue(new)
Unwind(s, new) ==
    CASE s.k = "count"              -> DestroyAdmin(new)
      [] s.op = "alloc" /\ s.q > 0  -> T!Down("free", s.q - 1) \o DestroyAdmin(new)
      [] s.op = "makeIo"            -> T!Up("free", count - 1) \o DestroyAdmin(new)
      [] s.k = "connect" /\ s.q > 0 -> T!On("startFails", s.q) \o T!Down("stop", s.q - 1)
                                         \o DestroyIoQueues(new) \o DestroyAdmin(new)
      [] s.op = "goLive"            -> T!If(count > 1, DestroyIoQueues(new))
                                         \o DestroyAdmin(new)
      [] OTHER                      -> T!Unwind(s, new)
Fails(w) == T!Goto(w, Unwind(T!Step(w), w = "create") \o T!SetupFailed(w))

ErrorRecoveryWork ==
    TeardownIoQueues(FALSE) \o T!Do("unquiesceIo") \o TeardownAdminQueue(FALSE)
      \o T!Do("unquiesceAdmin") \o T!Do("goConnecting") \o T!Do("reconnectOrRemove")
ShutdownCtrl(shutdown) ==
    T!Do("cancelErr") \o T!Do("cancelConnect") \o T!On("tearIo", IF shutdown THEN 1 ELSE 0)
      \o T!Do("quiesceAdmin") \o T!Cmd("disable", 0) \o TeardownAdminQueue(shutdown)
ResetCtrlWork == ShutdownCtrl(FALSE) \o T!Do("goConnecting") \o T!Do("setup")
DeleteCtrlWork ==
    T!Do("flushReset") \o T!Do("removeNs") \o ShutdownCtrl(TRUE) \o T!Do("freeCtrl")
ReconnectCtrlWork == T!ReconnectCtrlWork
TimeoutTeardown == T!Do("flushErr") \o T!On("tearIo", 0) \o TeardownAdminQueue(FALSE)

-----------------------------------------------------------------------------
(* Steps that only the functions called, not their order, tell apart.       *)

FreeQueue(w) == T!FreeQueue(w)
\* rdma_disconnect and ib_drain_qp, on the cm_id and the qp of the queue.
StopQueue(w) == T!StopQueue(w) \/ T!StopQueueSock(w)
StartFails(w) == T!StartFails(w)
FreeAsyncQe(w) == T!TestAsync(w) \/ T!FreeAsync(w)
DropSet(w) == T!DropSet(w)
Requests(w) == T!UpdateNrHwQueues(w) \/ T!Quiesce(w) \/ T!Unquiesce(w) \/ T!Cancel(w)
ReconnectOrRemove(w) == T!ReconnectOrRemove(w) \/ T!CountAttempt(w)
FreeCtrl(w) == T!RemoveNamespaces(w) \/ T!FreeCtrl(w)

-----------------------------------------------------------------------------
(* Steps with an error path of rdma.c *)

AllocQueue(w) ==
    /\ T!At(w, "alloc")
    /\ \/ /\ alloc' = [alloc EXCEPT ![T!Step(w).q] = TRUE]
          /\ fault' = (fault \/ alloc[T!Step(w).q])
          /\ T!Proceed(w)
       \/ Fails(w) /\ UNCHANGED <<alloc, fault>>
    /\ UNCHANGED <<state, count, live, async, block, req, cmd, work, nr_reconnects, bounds>>

AllocAsyncQe(w) ==
    /\ T!At(w, "allocAsync")
    /\ \/ async' = TRUE /\ T!Proceed(w)
       \/ Fails(w) /\ UNCHANGED async
    /\ UNCHANGED <<state, count, alloc, live, block, req, cmd, work, nr_reconnects, fault,
                   bounds>>

AllocTagset(w) ==
    /\ T!At(w, "makeAdmin") \/ T!At(w, "makeIo")
    /\ \/ /\ T!At(w, "makeIo") => count > 1
          /\ sets' = sets \cup {IF T!At(w, "makeIo") THEN "io" ELSE "admin"}
          /\ nr_hw' = IF T!At(w, "makeIo") THEN count - 1 ELSE nr_hw
          /\ T!Proceed(w)
       \/ Fails(w) /\ UNCHANGED <<sets, nr_hw>>
    /\ UNCHANGED <<state, count, flags, quiesced, req, cmd, work, nr_reconnects, fault,
                   bounds>>

Setup(w) ==
    /\ T!At(w, "setup")
    /\ T!Goto(w, SetupCtrl(w = "create") \o T!SetupDone(w))
    /\ UNCHANGED <<state, count, flags, block, req, cmd, work, nr_reconnects, fault, bounds>>

CmdDone(w) ==
    /\ T!At(w, "wait") /\ cmd \in {"ok", "err"}
    /\ cmd' = "none"
    /\ \/ /\ cmd = "ok" /\ T!Step(w).k = "connect"
          /\ live' = [live EXCEPT ![T!Step(w).q] = TRUE]
          /\ T!Proceed(w) /\ UNCHANGED count
       \/ /\ cmd = "ok" /\ T!Step(w).k = "count"
          /\ \E n \in Grants :
                /\ count' = n + 1
                /\ T!Goto(w, ConfigureIoQueues(n, w = "create") \o Tail(prog[w]))
          /\ UNCHANGED live
       \/ /\ (cmd = "ok" /\ T!Step(w).k \in {"enable", "identify"}) \/ T!Step(w).k = "disable"
          /\ T!Proceed(w) /\ UNCHANGED <<count, live>>
       \/ /\ cmd = "err" /\ T!Step(w).k # "disable"
          /\ Fails(w) /\ UNCHANGED <<count, live>>
    /\ UNCHANGED <<state, alloc, async, block, req, work, nr_reconnects, fault, bounds>>

\* icdoff set, or keyed SGLs missing: refused with ret still 0.
CheckIcdoff(w) ==
    /\ T!At(w, "icdoff")
    /\ \E bad \in Icdoff :
          T!Goto(w, IF bad THEN DestroyAdmin(w = "create") \o T!SetupDone(w) ELSE Tail(prog[w]))
    /\ UNCHANGED <<state, count, flags, block, req, cmd, work, nr_reconnects, fault, bounds>>

GoLive(w) ==
    /\ T!At(w, "goLive")
    /\ \/ /\ T!MayChange("LIVE")
          /\ state' = "LIVE" /\ quiesced' = quiesced \ {"io"}
          /\ T!Proceed(w)
       \/ ~T!MayChange("LIVE") /\ Fails(w) /\ UNCHANGED <<state, quiesced>>
    /\ UNCHANGED <<count, flags, sets, nr_hw, req, cmd, work, nr_reconnects, fault, bounds>>

TearIo(w) ==
    /\ T!At(w, "tearIo")
    /\ T!Goto(w, TeardownIoQueues(T!Step(w).q = 1) \o Tail(prog[w]))
    /\ UNCHANGED <<state, count, flags, block, req, cmd, work, nr_reconnects, fault, bounds>>

RunWork(w) ==
    /\ w \in work /\ prog[w] = <<>>
    /\ work' = work \ {w}
    /\ T!Goto(w, CASE w = "err"     -> ErrorRecoveryWork
                   [] w = "connect" -> ReconnectCtrlWork
                   [] w = "reset"   -> ResetCtrlWork
                   [] w = "delete"  -> DeleteCtrlWork)
    /\ UNCHANGED <<state, count, flags, block, req, cmd, nr_reconnects, fault, bounds>>

-----------------------------------------------------------------------------
\* Work requests that fail and connections that go.
ErrorRecovery == T!ErrorRecovery
Timeout ==
    /\ cmd = "lost" \/ \E r \in Req : req[r] = "lost"
    /\ prog["timeout"] = <<>>
    /\ \/ /\ state = "LIVE"
          /\ state' = "RESETTING" /\ work' = work \cup {"err"} /\ UNCHANGED prog
       \/ /\ state \in {"CONNECTING", "DELETING"}
          /\ T!Goto("timeout", TimeoutTeardown) /\ UNCHANGED <<state, work>>
    /\ UNCHANGED <<count, flags, block, req, cmd, nr_reconnects, fault, bounds>>
QueueRq(r) == T!Request(r)

\* nvme_delete_ctrl: from sysfs, when the device goes and when the module does.
RemoveOne == state \in DeleteIn /\ T!DeleteCtrl

WorkerStep(w) ==
    \/ AllocQueue(w) \/ FreeQueue(w) \/ StopQueue(w) \/ StartFails(w) \/ AllocAsyncQe(w)
    \/ FreeAsyncQe(w) \/ AllocTagset(w) \/ DropSet(w) \/ Requests(w) \/ Setup(w) \/ CmdDone(w)
    \/ CheckIcdoff(w) \/ GoLive(w) \/ ReconnectOrRemove(w) \/ FreeCtrl(w) \/ TearIo(w)
    \/ RunWork(w) \/ T!SendCmd(w) \/ T!GoConnecting(w) \/ T!CancelWork(w)

Next ==
    \/ \E w \in T!Worker : WorkerStep(w)
    \/ \E r \in Req : QueueRq(r)
    \/ T!Answer \/ T!Lose \/ ErrorRecovery \/ Timeout \/ T!ResetCtrl \/ RemoveOne

Spec == Init /\ [][Next]_vars

-----------------------------------------------------------------------------
(* Properties *)

\* "state change failure is ok if we're in DELETING state"
\* (nvme_rdma_setup_ctrl): a queue whose resources are gone is not marked LIVE,
\* the mark on which the next teardown disconnects and drains it.
LiveIsAllocated == \A q \in T!Queue : live[q] => alloc[q]
=============================================================================
