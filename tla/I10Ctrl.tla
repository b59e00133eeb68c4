------------------------------ MODULE I10Ctrl ------------------------------
(***************************************************************************)
(* The controller of the i10 host driver.  Its queues differ from those of *)
(* NVMe/TCP (I10Queue), its controller does not: i10.c has its own copy of *)
(* every function, so the steps are those of NvmeTcpCtrl and the programs  *)
(* of the workers are put together here from i10.c's functions.            *)
(***************************************************************************)
EXTENDS Integers, Sequences

CONSTANTS NrIo, Grants, Req, MaxReconnects, MaxErrors, MaxResets, MaxHung, Icdoff

VARIABLES state, count, alloc, live, async, sets, quiesced, nr_hw, req, cmd, work, prog,
          nr_reconnects, fault, errors, resets, hung

T == INSTANCE NvmeTcpCtrl
flags == <<alloc, live, async>>
block == <<sets, nr_hw, quiesced>>
bounds == <<errors, resets, hung>>
vars == <<state, count, flags, block, req, cmd, work, prog, nr_reconnects, fault, bounds>>

Init == T!Init

-----------------------------------------------------------------------------
(* The functions of i10.c *)

ConfigureAdminQueue(new) == T!ConfigureAdminQueue(new)
SetupCtrl(new) ==
    ConfigureAdminQueue(new) \o T!Do("icdoff") \o T!If(count > 1, T!Cmd("count", 0))
      \o T!Do("goLive")

DestroyAdminQueue(remove) == T!DestroyAdminQueue(remove)
DestroyIoQueues(remove) == T!DestroyIoQueues(remove)
TeardownAdminQueue(remove) ==
    T!Do("quiesceAdmin") \o T!On("stop", 0) \o T!Do("cancelAdmin")
      \o T!If(remove, T!Do("unquiesceAdmin")) \o DestroyAdminQueue(remove)
TeardownIoQueues(remove) ==
    T!If(count > 1,
         T!Do("quiesceIo") \o T!Up("stop", count - 1) \o T!Do("cancelIo")
           \o T!If(remove, T!Do("unquiesceIo")) \o DestroyIoQueues(remove))

\* Mutant: reconnects first, tears down afterwards.
ErrorRecoveryWork_Late ==
    T!Do("goConnecting") \o T!Do("reconnectOrRemove") \o TeardownIoQueues(FALSE)
      \o T!Do("unquiesceIo") \o TeardownAdminQueue(FALSE) \o T!Do("unquiesceAdmin")
ErrorRecoveryWork ==
    TeardownIoQueues(FALSE) \o T!Do("unquiesceIo") \o TeardownAdminQueue(FALSE)
      \o T!Do("unquiesceAdmin") \o T!Do("goConnecting") \o T!Do("reconnectOrRemove")
TeardownCtrl(shutdown) ==
    T!Do("cancelErr") \o T!Do("cancelConnect") \o T!On("tearIo", IF shutdown THEN 1 ELSE 0)
      \o T!Do("quiesceAdmin") \o T!Cmd("disable", 0) \o TeardownAdminQueue(shutdown)
ResetCtrlWork == TeardownCtrl(FALSE) \o T!Do("goConnecting") \o T!Do("setup")
DeleteCtrlWork ==
    T!Do("flushReset") \o T!Do("removeNs") \o TeardownCtrl(TRUE) \o T!Do("freeCtrl")
ReconnectCtrlWork == T!ReconnectCtrlWork
TimeoutTeardown == T!Do("flushErr") \o T!On("tearIo", 0) \o TeardownAdminQueue(FALSE)

-----------------------------------------------------------------------------
(* Steps *)

AllocQueue(w) == T!AllocQueue(w)
FreeQueue(w) == T!FreeQueue(w)
StopQueue(w) == T!StopQueue(w) \/ T!StopQueueSock(w)
StartFails(w) == T!StartFails(w)
AsyncReq(w) == T!AllocAsync(w) \/ T!TestAsync(w) \/ T!FreeAsync(w)
TagSet(w) == T!MakeSet(w) \/ T!DropSet(w) \/ T!UpdateNrHwQueues(w)
Requests(w) == T!Quiesce(w) \/ T!Unquiesce(w) \/ T!Cancel(w)
CmdDone(w) == T!SendCmd(w) \/ T!CmdDone(w)
ReconnectOrRemove(w) == T!ReconnectOrRemove(w) \/ T!CountAttempt(w)
FreeCtrl(w) == T!RemoveNamespaces(w) \/ T!FreeCtrl(w)

Setup(w) ==
    /\ T!At(w, "setup")
    /\ T!Goto(w, SetupCtrl(w = "create") \o T!SetupDone(w))
    /\ UNCHANGED <<state, count, flags, block, req, cmd, work, nr_reconnects, fault,
                   bounds>>
FinishSetup(w) == T!CheckIcdoff(w) \/ T!GoLive(w)

TearIo(w) ==
    /\ T!At(w, "tearIo")
    /\ T!Goto(w, TeardownIoQueues(T!Step(w).q = 1) \o Tail(prog[w]))
    /\ UNCHANGED <<state, count, flags, block, req, cmd, work, nr_reconnects, fault,
                   bounds>>

RunWork(w) ==
    /\ w \in work /\ prog[w] = <<>>
    /\ work' = work \ {w}
    /\ T!Goto(w, CASE w = "err"     -> ErrorRecoveryWork
                   [] w = "connect" -> ReconnectCtrlWork
                   [] w = "reset"   -> ResetCtrlWork
                   [] w = "delete"  -> DeleteCtrlWork)
    /\ UNCHANGED <<state, count, flags, block, req, cmd, nr_reconnects, fault, bounds>>

ErrorRecovery == T!ErrorRecovery
Timeout ==
    /\ cmd = "lost" \/ \E r \in Req : req[r] = "lost"
    /\ prog["timeout"] = <<>>
    /\ \/ /\ state = "LIVE"
          /\ state' = "RESETTING" /\ work' = work \cup {"err"} /\ UNCHANGED prog
       \/ /\ state \in {"CONNECTING", "DELETING"}
          /\ T!Goto("timeout", TimeoutTeardown) /\ UNCHANGED <<state, work>>
    /\ UNCHANGED <<count, flags, block, req, cmd, nr_reconnects, fault, bounds>>
QueueRq(r) == T!Request(r)

WorkerStep(w) ==
    \/ AllocQueue(w) \/ FreeQueue(w) \/ StopQueue(w) \/ StartFails(w) \/ AsyncReq(w)
    \/ TagSet(w) \/ Requests(w) \/ CmdDone(w) \/ ReconnectOrRemove(w) \/ FreeCtrl(w)
    \/ Setup(w) \/ FinishSetup(w) \/ TearIo(w) \/ RunWork(w)
    \/ T!GoConnecting(w) \/ T!CancelWork(w)

Next ==
    \/ \E w \in T!Worker : WorkerStep(w)
    \/ \E r \in Req : QueueRq(r)
    \/ T!Answer \/ T!Lose \/ ErrorRecovery \/ Timeout \/ T!ResetCtrl \/ T!DeleteCtrl

Spec == Init /\ [][Next]_vars

-----------------------------------------------------------------------------
(* Properties *)

\* A live i10 controller has all its queues connected, whatever order errors,
\* reconnects, resets and deletion come in (i10_host_setup_ctrl against
\* i10_host_error_recovery_work and i10_host_teardown_ctrl).
LiveIsConnected == T!LiveIsConnected
=============================================================================
