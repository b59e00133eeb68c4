--------------------------- MODULE RdmaConnProofs ---------------------------
(***************************************************************************)
(* What holds of the queues of the NVMe/RDMA host driver for any queues,   *)
(* devices and attempts: ReleasedOnce of RdmaConn.                         *)
(***************************************************************************)
EXTENDS RdmaConn, FiniteSetTheorems, SequenceTheorems, TLAPS

-----------------------------------------------------------------------------
(* Connections and devices *)

Call == {"resolveAddr", "wait", "destroyId", "destroyIb", "put", "freeDevice", "getDevice",
         "createIb", "resolveRoute", "connect", "postRecv", "failed"}

Program == Seq(Call)
Cm == {"idle", "addr", "route", "connect", "up"}
CmError == {"ok", "err", "timedout"}

ConnTypes ==
    /\ caller \in [Queues -> Program] /\ handler \in [Queues -> Program]
    /\ cm \in [Queues -> Cm]
    /\ cm_error \in [Queues -> CmError]
    /\ done \in [Queues -> BOOLEAN] /\ id \in [Queues -> BOOLEAN]
    /\ ready \in [Queues -> BOOLEAN] /\ allocated \in [Queues -> BOOLEAN]
    /\ ib \in [Queues -> BOOLEAN] /\ dev \in [Queues -> Dev \cup {NoDev}]

(* What a queue holds: nothing, a device only, or everything. *)
Bare(q) == ~ib[q] /\ ~ready[q] /\ dev[q] = NoDev
Half(q) == ~ib[q] /\ ~ready[q] /\ dev[q] \in Dev
Full(q) == ib[q] /\ ready[q] /\ dev[q] \in Dev

(* What the handler is about to do, and what the queue holds meanwhile. *)
Handling(q) ==
    \/ /\ handler[q] \in {<<"getDevice", "createIb", "resolveRoute">>, <<"failed">>}
       /\ Bare(q)
    \/ /\ handler[q] \in {<<"createIb", "resolveRoute">>, <<"put", "failed">>,
                          <<"freeDevice", "failed">>}
       /\ Half(q)
    \/ /\ handler[q] \in {<<"resolveRoute">>, <<"connect">>, <<"postRecv">>,
                          <<"destroyIb", "failed">>}
       /\ Full(q)

(* While the connection manager works, or has worked, for a queue. *)
Connecting(q) ==
    \/ /\ handler[q] = <<>>
       /\ \/ cm[q] = "addr" /\ Bare(q) /\ ~done[q]
          \/ cm[q] \in {"route", "connect"} /\ Full(q) /\ ~done[q]
          \/ cm[q] = "up" /\ Full(q)
          \/ cm[q] = "idle" /\ Bare(q)
             /\ (caller[q] = <<"wait">> => done[q] /\ cm_error[q] = "err")
    \/ cm[q] = "idle" /\ ~done[q] /\ Handling(q)

(* Where a queue is in its life: the handler runs only while alloc_queue   *)
(* waits for it, or has given up and is about to destroy the cm_id.        *)
Phase(q) ==
    \/ /\ caller[q] \in {<<"wait">>, <<"destroyId", "destroyIb">>}
       /\ id[q] /\ ~allocated[q] /\ Connecting(q)
    \/ /\ handler[q] = <<>> /\ ~allocated[q] /\ ~id[q] /\ cm[q] = "idle"
       /\ \/ caller[q] = <<>> /\ Bare(q)
          \/ caller[q] = <<"destroyIb">> /\ (Bare(q) \/ Full(q))
          \/ caller[q] \in {<<"put">>, <<"freeDevice">>} /\ Half(q)
    \/ /\ handler[q] = <<>> /\ ~allocated[q] /\ id[q]
       /\ \/ caller[q] = <<"resolveAddr">> /\ Bare(q) /\ ~done[q] /\ cm[q] = "idle"
          \/ caller[q] = <<"destroyIb", "destroyId">> /\ Full(q) /\ cm[q] = "up"
          \/ caller[q] \in {<<"put", "destroyId">>, <<"freeDevice", "destroyId">>}
             /\ Half(q) /\ cm[q] = "up"
          \/ caller[q] = <<"destroyId">> /\ Bare(q) /\ cm[q] = "up"
    \/ /\ caller[q] = <<>> /\ handler[q] = <<>> /\ allocated[q] /\ id[q] /\ cm[q] = "up"
       /\ Full(q)

(* A reference is counted until the last one turns to freeing the device,  *)
(* which nobody can find any more and nobody else frees.                   *)
Frees(p) == p # <<>> /\ Head(p) = "freeDevice"
Freeing(q) == Frees(caller[q]) \/ Frees(handler[q])
Holders(d) == {q \in Queues : dev[q] = d /\ ~Freeing(q)}
DeviceInv ==
    /\ refs \in [Dev -> Nat] /\ list \subseteq Dev
    /\ \A d \in Dev : refs[d] = Cardinality(Holders(d))
    /\ \A q \in Queues : dev[q] # NoDev => dev[q] \in list
    /\ \A q \in Queues : Freeing(q) => dev[q] # NoDev /\ refs[dev[q]] = 0
    /\ \A q, p \in Queues : Freeing(q) /\ Freeing(p) /\ dev[q] = dev[p] => q = p

ConnInv == ConnTypes /\ (\A q \in Queues : Phase(q)) /\ DeviceInv /\ fault = FALSE

-----------------------------------------------------------------------------
(* Programs *)

(* The first call of a program, and what is left after it. *)
LEMMA OneCall ==
    ASSUME NEW a \in Call
    PROVE  /\ <<a>> \in Seq(Call) /\ <<a>> # <<>> /\ Head(<<a>>) = a /\ Tail(<<a>>) = <<>>
           /\ <<a>> \o <<>> = <<a>>
  BY DEF Call
(* The same of two calls. *)
LEMMA TwoCalls ==
    ASSUME NEW a \in Call, NEW b \in Call
    PROVE  /\ <<a, b>> \in Seq(Call) /\ <<a, b>> # <<>>
           /\ Head(<<a, b>>) = a /\ Tail(<<a, b>>) = <<b>>
           /\ <<a>> \o <<b>> = <<a, b>>
<1> DEFINE s == <<a>> \o <<b>>
           t == <<a, b>>
<1>1. <<a>> \in Seq(Call) /\ <<b>> \in Seq(Call) /\ t \in Seq(Call)
  OBVIOUS
<1>2. /\ Len(s) = 2 /\ Len(t) = 2
      /\ s[1] = a /\ s[2] = b /\ t[1] = a /\ t[2] = b
  OBVIOUS
<1>3. s \in Seq(Call)
  BY <1>1
<1>4. t # <<>> /\ Head(t) = a
  OBVIOUS
<1>5. Tail(t) = <<b>>
  OBVIOUS
<1> HIDE DEF s, t
<1>6. \A i \in 1 .. Len(s) : s[i] = t[i]
  BY <1>2
<1>7. s = t
  BY <1>1, <1>2, <1>3, <1>6, SeqEqual, Zenon
<1> QED
  BY <1>1, <1>4, <1>5, <1>7, Zenon DEF s, t
(* The one program of three calls, that of a resolved address. *)
LEMMA ThreeCalls ==
    LET p == <<"getDevice", "createIb", "resolveRoute">>
    IN  /\ p \in Seq(Call) /\ p # <<>> /\ Head(p) = "getDevice"
        /\ Tail(p) = <<"createIb", "resolveRoute">>
  BY DEF Call

(* The programs the driver runs. *)
LEMMA Programs ==
    /\ <<"wait">> \in Program /\ <<"wait">> # <<>>
    /\ Head(<<"wait">>) = "wait" /\ Tail(<<"wait">>) = <<>>
    /\ <<"destroyIb">> \in Program /\ <<"destroyIb">> # <<>>
    /\ Head(<<"destroyIb">>) = "destroyIb" /\ Tail(<<"destroyIb">>) = <<>>
    /\ <<"put">> \in Program /\ <<"put">> # <<>>
    /\ Head(<<"put">>) = "put" /\ Tail(<<"put">>) = <<>>
    /\ <<"freeDevice">> \in Program /\ <<"freeDevice">> # <<>>
    /\ Head(<<"freeDevice">>) = "freeDevice" /\ Tail(<<"freeDevice">>) = <<>>
    /\ <<"resolveAddr">> \in Program /\ <<"resolveAddr">> # <<>>
    /\ Head(<<"resolveAddr">>) = "resolveAddr" /\ Tail(<<"resolveAddr">>) = <<>>
    /\ <<"destroyId">> \in Program /\ <<"destroyId">> # <<>>
    /\ Head(<<"destroyId">>) = "destroyId" /\ Tail(<<"destroyId">>) = <<>>
    /\ <<"failed">> \in Program /\ <<"failed">> # <<>>
    /\ Head(<<"failed">>) = "failed" /\ Tail(<<"failed">>) = <<>>
    /\ <<"resolveRoute">> \in Program /\ <<"resolveRoute">> # <<>>
    /\ Head(<<"resolveRoute">>) = "resolveRoute" /\ Tail(<<"resolveRoute">>) = <<>>
    /\ <<"connect">> \in Program /\ <<"connect">> # <<>>
    /\ Head(<<"connect">>) = "connect" /\ Tail(<<"connect">>) = <<>>
    /\ <<"postRecv">> \in Program /\ <<"postRecv">> # <<>>
    /\ Head(<<"postRecv">>) = "postRecv" /\ Tail(<<"postRecv">>) = <<>>
    /\ <<"destroyId", "destroyIb">> \in Program /\ <<"destroyId", "destroyIb">> # <<>>
    /\ Head(<<"destroyId", "destroyIb">>) = "destroyId" /\ Tail(<<"destroyId", "destroyIb">>) = <<"destroyIb">>
    /\ <<"destroyIb", "destroyId">> \in Program /\ <<"destroyIb", "destroyId">> # <<>>
    /\ Head(<<"destroyIb", "destroyId">>) = "destroyIb" /\ Tail(<<"destroyIb", "destroyId">>) = <<"destroyId">>
    /\ <<"put", "destroyId">> \in Program /\ <<"put", "destroyId">> # <<>>
    /\ Head(<<"put", "destroyId">>) = "put" /\ Tail(<<"put", "destroyId">>) = <<"destroyId">>
    /\ <<"freeDevice", "destroyId">> \in Program /\ <<"freeDevice", "destroyId">> # <<>>
    /\ Head(<<"freeDevice", "destroyId">>) = "freeDevice" /\ Tail(<<"freeDevice", "destroyId">>) = <<"destroyId">>
    /\ <<"createIb", "resolveRoute">> \in Program /\ <<"createIb", "resolveRoute">> # <<>>
    /\ Head(<<"createIb", "resolveRoute">>) = "createIb" /\ Tail(<<"createIb", "resolveRoute">>) = <<"resolveRoute">>
    /\ <<"put", "failed">> \in Program /\ <<"put", "failed">> # <<>>
    /\ Head(<<"put", "failed">>) = "put" /\ Tail(<<"put", "failed">>) = <<"failed">>
    /\ <<"freeDevice", "failed">> \in Program /\ <<"freeDevice", "failed">> # <<>>
    /\ Head(<<"freeDevice", "failed">>) = "freeDevice" /\ Tail(<<"freeDevice", "failed">>) = <<"failed">>
    /\ <<"destroyIb", "failed">> \in Program /\ <<"destroyIb", "failed">> # <<>>
    /\ Head(<<"destroyIb", "failed">>) = "destroyIb" /\ Tail(<<"destroyIb", "failed">>) = <<"failed">>
    /\ <<"getDevice", "createIb", "resolveRoute">> \in Program /\ <<"getDevice", "createIb", "resolveRoute">> # <<>>
    /\ Head(<<"getDevice", "createIb", "resolveRoute">>) = "getDevice" /\ Tail(<<"getDevice", "createIb", "resolveRoute">>) = <<"createIb", "resolveRoute">>
    /\ <<"put">> \o <<>> = <<"put">> /\ <<"freeDevice">> \o <<>> = <<"freeDevice">>
    /\ <<"put">> \o <<"destroyId">> = <<"put", "destroyId">>
    /\ <<"put">> \o <<"failed">> = <<"put", "failed">>
    /\ <<"freeDevice">> \o <<"destroyId">> = <<"freeDevice", "destroyId">>
    /\ <<"freeDevice">> \o <<"failed">> = <<"freeDevice", "failed">>
  BY OneCall, TwoCalls, ThreeCalls DEF Call, Program

-----------------------------------------------------------------------------
(* Steps *)

(* A step of ConnNext is a step of one queue, and leaves the others alone. *)
QueueStep(q) ==
    \/ FindGetDevice(q) \/ CreateQueueIb(q) \/ CmEvent(q) \/ NextStage(q)
    \/ ConnEstablished(q) \/ CmFailed(q) \/ AllocQueue(q) \/ ResolveAddr(q)
    \/ WaitForCm(q) \/ DestroyId(q) \/ FreeQueue(q)
    \/ \E t \in Thread : DevPut(q, t) \/ FreeDev(q, t) \/ DestroyQueueIb(q, t)
Same(p) ==
    /\ caller'[p] = caller[p] /\ handler'[p] = handler[p] /\ cm'[p] = cm[p]
    /\ cm_error'[p] = cm_error[p] /\ done'[p] = done[p] /\ id'[p] = id[p]
    /\ ready'[p] = ready[p] /\ allocated'[p] = allocated[p] /\ ib'[p] = ib[p]
    /\ dev'[p] = dev[p]

(* f becomes g, in the entry of queue q only. *)
Moves(q, f, g, S) == g \in [Queues -> S] /\ \A p \in Queues \ {q} : g[p] = f[p]

(* So does an assignment, *)
LEMMA MovesSet ==
    ASSUME NEW S, NEW f \in [Queues -> S], NEW q \in Queues, NEW v \in S, NEW g,
           g = [f EXCEPT ![q] = v]
    PROVE  Moves(q, f, g, S) /\ g[q] = v
  BY Zenon DEF Moves
(* and so does a flag that is set, cleared or left alone. *)
LEMMA FlagMoves ==
    ASSUME NEW f \in [Queues -> BOOLEAN], NEW q \in Queues, NEW g,
           g = f \/ g = [f EXCEPT ![q] = TRUE] \/ g = [f EXCEPT ![q] = FALSE]
    PROVE  Moves(q, f, g, BOOLEAN)
<1>1. CASE g = f
  BY <1>1, Zenon DEF Moves
<1>2. CASE g = [f EXCEPT ![q] = TRUE]
  BY <1>2, MovesSet, Zenon
<1>3. CASE g = [f EXCEPT ![q] = FALSE]
  BY <1>3, MovesSet, Zenon
<1> QED
  BY <1>1, <1>2, <1>3, Zenon

(* A thread goes on with the program w, the other and other queues stay.   *)
LEMMA GotoKeeps ==
    ASSUME ConnTypes, NEW q \in Queues, NEW t, NEW w \in Program, Goto(q, t, w)
    PROVE  /\ caller' \in [Queues -> Program] /\ handler' \in [Queues -> Program]
           /\ \A p \in Queues \ {q} : caller'[p] = caller[p] /\ handler'[p] = handler[p]
           /\ t = "caller" => caller'[q] = w /\ handler' = handler
           /\ t = "handler" => handler'[q] = w /\ caller' = caller
<1>1. CASE t = "caller"
  BY <1>1, Zenon DEF Goto, ConnTypes
<1>2. CASE t # "caller"
  BY <1>2, Zenon DEF Goto, ConnTypes
<1> QED
  BY <1>1, <1>2, Zenon
(* What is left of a program is a program. *)
LEMMA ProceedKeeps ==
    ASSUME ConnTypes, NEW q \in Queues, NEW t, NEW op, At(q, t, op)
    PROVE  /\ Tail(Prog(q, t)) \in Program
           /\ <<"put">> \o Tail(Prog(q, t)) \in Program
           /\ <<"freeDevice">> \o Tail(Prog(q, t)) \in Program
<1>1. Prog(q, t) \in Program
  BY Zenon DEF Prog, ConnTypes
<1>2. Tail(Prog(q, t)) \in Program
  BY <1>1 DEF At, Program
<1> QED
  BY <1>2, Programs DEF Program

(* A step of a queue keeps the types and leaves the other queues alone. *)
LEMMA OwnSteps ==
    ASSUME ConnTypes, list \subseteq Dev, NEW q \in Queues, QueueStep(q)
    PROVE  ConnTypes' /\ \A p \in Queues \ {q} : Same(p)
<1> USE DEF ConnTypes
<1>1. CASE FindGetDevice(q)
  <2>1. At(q, "handler", "getDevice")
    BY <1>1, Zenon DEF FindGetDevice
  <2>2. PICK w \in Program : Goto(q, "handler", w)
    BY <1>1, <2>1, ProceedKeeps, Programs, Zenon DEF FindGetDevice, Proceed
  <2>3. dev' = dev \/ \E d \in Dev : dev' = [dev EXCEPT ![q] = d]
    BY <1>1, Zenon DEF FindGetDevice
  <2> QED
    BY <1>1, <2>2, <2>3, GotoKeeps DEF FindGetDevice, conn, Same
<1>2. CASE CreateQueueIb(q)
  <2>1. At(q, "handler", "createIb")
    BY <1>2, Zenon DEF CreateQueueIb
  <2>2. PICK w \in Program : Goto(q, "handler", w)
    BY <1>2, <2>1, ProceedKeeps, Programs, Zenon DEF CreateQueueIb, Proceed
  <2>3. /\ caller' \in [Queues -> Program] /\ handler' \in [Queues -> Program]
        /\ \A p \in Queues \ {q} : caller'[p] = caller[p] /\ handler'[p] = handler[p]
    BY <2>2, GotoKeeps, Zenon
  <2>4. /\ Moves(q, done, done', BOOLEAN) /\ Moves(q, id, id', BOOLEAN)
        /\ Moves(q, ready, ready', BOOLEAN) /\ Moves(q, allocated, allocated', BOOLEAN)
        /\ Moves(q, ib, ib', BOOLEAN)
    BY <1>2, FlagMoves, Zenon DEF CreateQueueIb, conn
  <2>5. /\ Moves(q, cm, cm', Cm) /\ Moves(q, cm_error, cm_error', CmError)
        /\ Moves(q, dev, dev', Dev \cup {NoDev})
    BY <1>2, Zenon DEF CreateQueueIb, conn, Moves, Cm, CmError
  <2> QED
    BY <2>3, <2>4, <2>5, Zenon DEF Moves, Same
<1>4. CASE NextStage(q)
  <2>1. At(q, "handler", "resolveRoute") \/ At(q, "handler", "connect")
    BY <1>4, Zenon DEF NextStage
  <2>2. PICK w \in Program : Goto(q, "handler", w)
    BY <1>4, <2>1, ProceedKeeps, Programs, Zenon DEF NextStage, Proceed
  <2>3. /\ caller' \in [Queues -> Program] /\ handler' \in [Queues -> Program]
        /\ \A p \in Queues \ {q} : caller'[p] = caller[p] /\ handler'[p] = handler[p]
    BY <2>2, GotoKeeps, Zenon
  <2>4. /\ Moves(q, done, done', BOOLEAN) /\ Moves(q, id, id', BOOLEAN)
        /\ Moves(q, ready, ready', BOOLEAN) /\ Moves(q, allocated, allocated', BOOLEAN)
        /\ Moves(q, ib, ib', BOOLEAN)
    BY <1>4, FlagMoves, Zenon DEF NextStage, conn
  <2>5. /\ Moves(q, cm, cm', Cm) /\ Moves(q, cm_error, cm_error', CmError)
        /\ Moves(q, dev, dev', Dev \cup {NoDev})
    BY <1>4, Zenon DEF NextStage, conn, Moves, Cm, CmError
  <2> QED
    BY <2>3, <2>4, <2>5, Zenon DEF Moves, Same
<1>5. CASE ConnEstablished(q)
  <2>1. At(q, "handler", "postRecv")
    BY <1>5, Zenon DEF ConnEstablished
  <2>2. PICK w \in Program : Goto(q, "handler", w)
    BY <1>5, <2>1, ProceedKeeps, Programs, Zenon DEF ConnEstablished, Proceed
  <2>3. /\ caller' \in [Queues -> Program] /\ handler' \in [Queues -> Program]
        /\ \A p \in Queues \ {q} : caller'[p] = caller[p] /\ handler'[p] = handler[p]
    BY <2>2, GotoKeeps, Zenon
  <2>4. /\ Moves(q, done, done', BOOLEAN) /\ Moves(q, id, id', BOOLEAN)
        /\ Moves(q, ready, ready', BOOLEAN) /\ Moves(q, allocated, allocated', BOOLEAN)
        /\ Moves(q, ib, ib', BOOLEAN)
    BY <1>5, FlagMoves, Zenon DEF ConnEstablished, conn
  <2>5. /\ Moves(q, cm, cm', Cm) /\ Moves(q, cm_error, cm_error', CmError)
        /\ Moves(q, dev, dev', Dev \cup {NoDev})
    BY <1>5, Zenon DEF ConnEstablished, conn, Moves, Cm, CmError
  <2> QED
    BY <2>3, <2>4, <2>5, Zenon DEF Moves, Same
<1>6. CASE CmFailed(q)
  <2>1. At(q, "handler", "failed")
    BY <1>6, Zenon DEF CmFailed
  <2>2. PICK w \in Program : Goto(q, "handler", w)
    BY <1>6, <2>1, ProceedKeeps, Programs, Zenon DEF CmFailed, Proceed
  <2>3. /\ caller' \in [Queues -> Program] /\ handler' \in [Queues -> Program]
        /\ \A p \in Queues \ {q} : caller'[p] = caller[p] /\ handler'[p] = handler[p]
    BY <2>2, GotoKeeps, Zenon
  <2>4. /\ Moves(q, done, done', BOOLEAN) /\ Moves(q, id, id', BOOLEAN)
        /\ Moves(q, ready, ready', BOOLEAN) /\ Moves(q, allocated, allocated', BOOLEAN)
        /\ Moves(q, ib, ib', BOOLEAN)
    BY <1>6, FlagMoves, Zenon DEF CmFailed, conn
  <2>5. /\ Moves(q, cm, cm', Cm) /\ Moves(q, cm_error, cm_error', CmError)
        /\ Moves(q, dev, dev', Dev \cup {NoDev})
    BY <1>6, Zenon DEF CmFailed, conn, Moves, Cm, CmError
  <2> QED
    BY <2>3, <2>4, <2>5, Zenon DEF Moves, Same
<1>8. CASE ResolveAddr(q)
  <2>1. At(q, "caller", "resolveAddr")
    BY <1>8, Zenon DEF ResolveAddr
  <2>2. PICK w \in Program : Goto(q, "caller", w)
    BY <1>8, <2>1, ProceedKeeps, Programs, Zenon DEF ResolveAddr, Proceed, OutDestroyCmId
  <2>3. /\ caller' \in [Queues -> Program] /\ handler' \in [Queues -> Program]
        /\ \A p \in Queues \ {q} : caller'[p] = caller[p] /\ handler'[p] = handler[p]
    BY <2>2, GotoKeeps, Zenon
  <2>4. /\ Moves(q, done, done', BOOLEAN) /\ Moves(q, id, id', BOOLEAN)
        /\ Moves(q, ready, ready', BOOLEAN) /\ Moves(q, allocated, allocated', BOOLEAN)
        /\ Moves(q, ib, ib', BOOLEAN)
    BY <1>8, FlagMoves, Zenon DEF ResolveAddr, conn
  <2>5. /\ Moves(q, cm, cm', Cm) /\ Moves(q, cm_error, cm_error', CmError)
        /\ Moves(q, dev, dev', Dev \cup {NoDev})
    BY <1>8, Zenon DEF ResolveAddr, conn, Moves, Cm, CmError
  <2> QED
    BY <2>3, <2>4, <2>5, Zenon DEF Moves, Same
<1>9. CASE WaitForCm(q)
  <2>1. At(q, "caller", "wait")
    BY <1>9, Zenon DEF WaitForCm
  <2>2. PICK w \in Program : Goto(q, "caller", w)
    BY <1>9, <2>1, ProceedKeeps, Programs, Zenon DEF WaitForCm, Proceed, OutDestroyCmId
  <2>3. /\ caller' \in [Queues -> Program] /\ handler' \in [Queues -> Program]
        /\ \A p \in Queues \ {q} : caller'[p] = caller[p] /\ handler'[p] = handler[p]
    BY <2>2, GotoKeeps, Zenon
  <2>4. /\ Moves(q, done, done', BOOLEAN) /\ Moves(q, id, id', BOOLEAN)
        /\ Moves(q, ready, ready', BOOLEAN) /\ Moves(q, allocated, allocated', BOOLEAN)
        /\ Moves(q, ib, ib', BOOLEAN)
    BY <1>9, FlagMoves, Zenon DEF WaitForCm, conn
  <2>5. /\ Moves(q, cm, cm', Cm) /\ Moves(q, cm_error, cm_error', CmError)
        /\ Moves(q, dev, dev', Dev \cup {NoDev})
    BY <1>9, Zenon DEF WaitForCm, conn, Moves, Cm, CmError
  <2> QED
    BY <2>3, <2>4, <2>5, Zenon DEF Moves, Same
<1>10. CASE DestroyId(q)
  <2>1. At(q, "caller", "destroyId")
    BY <1>10, Zenon DEF DestroyId
  <2>2. PICK w \in Program : Goto(q, "caller", w)
    BY <1>10, <2>1, ProceedKeeps, Programs, Zenon DEF DestroyId, Proceed
  <2>3. /\ caller' \in [Queues -> Program] /\ handler' \in [Queues -> Program]
        /\ \A p \in Queues \ {q} : caller'[p] = caller[p] /\ handler'[p] = handler[p]
    BY <2>2, GotoKeeps, Zenon
  <2>4. /\ Moves(q, done, done', BOOLEAN) /\ Moves(q, id, id', BOOLEAN)
        /\ Moves(q, ready, ready', BOOLEAN) /\ Moves(q, allocated, allocated', BOOLEAN)
        /\ Moves(q, ib, ib', BOOLEAN)
    BY <1>10, FlagMoves, Zenon DEF DestroyId, conn
  <2>5. /\ Moves(q, cm, cm', Cm) /\ Moves(q, cm_error, cm_error', CmError)
        /\ Moves(q, dev, dev', Dev \cup {NoDev})
    BY <1>10, Zenon DEF DestroyId, conn, Moves, Cm, CmError
  <2> QED
    BY <2>3, <2>4, <2>5, Zenon DEF Moves, Same
<1>11. CASE FreeQueue(q)
  <2>2. PICK w \in Program : Goto(q, "caller", w)
    BY <1>11, ProceedKeeps, Programs, Zenon DEF FreeQueue, Proceed
  <2>3. /\ caller' \in [Queues -> Program] /\ handler' \in [Queues -> Program]
        /\ \A p \in Queues \ {q} : caller'[p] = caller[p] /\ handler'[p] = handler[p]
    BY <2>2, GotoKeeps, Zenon
  <2>4. /\ Moves(q, done, done', BOOLEAN) /\ Moves(q, id, id', BOOLEAN)
        /\ Moves(q, ready, ready', BOOLEAN) /\ Moves(q, allocated, allocated', BOOLEAN)
        /\ Moves(q, ib, ib', BOOLEAN)
    BY <1>11, FlagMoves, Zenon DEF FreeQueue, conn
  <2>5. /\ Moves(q, cm, cm', Cm) /\ Moves(q, cm_error, cm_error', CmError)
        /\ Moves(q, dev, dev', Dev \cup {NoDev})
    BY <1>11, Zenon DEF FreeQueue, conn, Moves, Cm, CmError
  <2> QED
    BY <2>3, <2>4, <2>5, Zenon DEF Moves, Same
<1>3. CASE CmEvent(q)
  <2> DEFINE R == {<<"getDevice", "createIb", "resolveRoute">>, <<"failed">>, <<"connect">>,
                   <<"destroyIb", "failed">>, <<"postRecv">>}
  <2>1. R \subseteq Program
    BY Programs, Zenon
  <2>2. \E w \in R : handler' = [handler EXCEPT ![q] = w]
    BY <1>3, Zenon DEF CmEvent
  <2> HIDE DEF R
  <2>3. PICK w \in Program : handler' = [handler EXCEPT ![q] = w]
    BY <2>1, <2>2, Zenon
  <2>4. Moves(q, cm, cm', Cm)
    BY <1>3, Zenon DEF CmEvent, Moves, Cm
  <2>5. UNCHANGED <<caller, cm_error, done, id, ready, allocated, ib, dev>>
    BY <1>3, Zenon DEF CmEvent
  <2> QED
    BY <2>3, <2>4, <2>5, Zenon DEF Moves, Same
<1>7. CASE AllocQueue(q)
  <2>1. \/ Goto(q, "caller", <<"resolveAddr">>)
        \/ UNCHANGED <<caller, handler>>
    BY <1>7, Zenon DEF AllocQueue
  <2>2. /\ caller' \in [Queues -> Program] /\ handler' \in [Queues -> Program]
        /\ \A p \in Queues \ {q} : caller'[p] = caller[p] /\ handler'[p] = handler[p]
    <3>1. CASE Goto(q, "caller", <<"resolveAddr">>)
      BY <3>1, GotoKeeps, Programs, Zenon
    <3>2. CASE UNCHANGED <<caller, handler>>
      BY <3>2, Zenon
    <3> QED
      BY <2>1, <3>1, <3>2, Zenon
  <2>3. /\ Moves(q, done, done', BOOLEAN) /\ Moves(q, id, id', BOOLEAN)
    BY <1>7, FlagMoves, Zenon DEF AllocQueue
  <2> QED
    BY <1>7, <2>2, <2>3, Zenon DEF AllocQueue, Moves, Same
<1>12. ASSUME NEW t \in Thread, DevPut(q, t)
       PROVE  ConnTypes' /\ \A p \in Queues \ {q} : Same(p)
  <2>1. At(q, t, "put")
    BY <1>12, Zenon DEF DevPut
  <2>2. PICK w \in Program : Goto(q, t, w)
    BY <1>12, <2>1, ProceedKeeps, Zenon DEF DevPut, Proceed
  <2>3. /\ caller' \in [Queues -> Program] /\ handler' \in [Queues -> Program]
        /\ \A p \in Queues \ {q} : caller'[p] = caller[p] /\ handler'[p] = handler[p]
    BY <2>2, GotoKeeps, Zenon
  <2>4. /\ Moves(q, done, done', BOOLEAN) /\ Moves(q, id, id', BOOLEAN)
        /\ Moves(q, ready, ready', BOOLEAN) /\ Moves(q, allocated, allocated', BOOLEAN)
        /\ Moves(q, ib, ib', BOOLEAN)
    BY <1>12, FlagMoves, Zenon DEF DevPut, conn
  <2>5. /\ Moves(q, cm, cm', Cm) /\ Moves(q, cm_error, cm_error', CmError)
        /\ Moves(q, dev, dev', Dev \cup {NoDev})
    BY <1>12, Zenon DEF DevPut, conn, Moves, Cm, CmError
  <2> QED
    BY <2>3, <2>4, <2>5, Zenon DEF Moves, Same
<1>13. ASSUME NEW t \in Thread, FreeDev(q, t)
       PROVE  ConnTypes' /\ \A p \in Queues \ {q} : Same(p)
  <2>1. At(q, t, "freeDevice")
    BY <1>13, Zenon DEF FreeDev
  <2>2. PICK w \in Program : Goto(q, t, w)
    BY <1>13, <2>1, ProceedKeeps, Zenon DEF FreeDev, Proceed
  <2>3. /\ caller' \in [Queues -> Program] /\ handler' \in [Queues -> Program]
        /\ \A p \in Queues \ {q} : caller'[p] = caller[p] /\ handler'[p] = handler[p]
    BY <2>2, GotoKeeps, Zenon
  <2>4. /\ Moves(q, done, done', BOOLEAN) /\ Moves(q, id, id', BOOLEAN)
        /\ Moves(q, ready, ready', BOOLEAN) /\ Moves(q, allocated, allocated', BOOLEAN)
        /\ Moves(q, ib, ib', BOOLEAN)
    BY <1>13, FlagMoves, Zenon DEF FreeDev, conn
  <2>5. /\ Moves(q, cm, cm', Cm) /\ Moves(q, cm_error, cm_error', CmError)
        /\ Moves(q, dev, dev', Dev \cup {NoDev})
    BY <1>13, Zenon DEF FreeDev, conn, Moves, Cm, CmError
  <2> QED
    BY <2>3, <2>4, <2>5, Zenon DEF Moves, Same
<1>14. ASSUME NEW t \in Thread, DestroyQueueIb(q, t)
       PROVE  ConnTypes' /\ \A p \in Queues \ {q} : Same(p)
  <2>1. At(q, t, "destroyIb")
    BY <1>14, Zenon DEF DestroyQueueIb
  <2>2. PICK w \in Program : Goto(q, t, w)
    BY <1>14, <2>1, ProceedKeeps, Zenon DEF DestroyQueueIb, Proceed
  <2>3. /\ caller' \in [Queues -> Program] /\ handler' \in [Queues -> Program]
        /\ \A p \in Queues \ {q} : caller'[p] = caller[p] /\ handler'[p] = handler[p]
    BY <2>2, GotoKeeps, Zenon
  <2>4. /\ Moves(q, done, done', BOOLEAN) /\ Moves(q, id, id', BOOLEAN)
        /\ Moves(q, ready, ready', BOOLEAN) /\ Moves(q, allocated, allocated', BOOLEAN)
        /\ Moves(q, ib, ib', BOOLEAN)
    BY <1>14, FlagMoves, Zenon DEF DestroyQueueIb, conn
  <2>5. /\ Moves(q, cm, cm', Cm) /\ Moves(q, cm_error, cm_error', CmError)
        /\ Moves(q, dev, dev', Dev \cup {NoDev})
    BY <1>14, Zenon DEF DestroyQueueIb, conn, Moves, Cm, CmError
  <2> QED
    BY <2>3, <2>4, <2>5, Zenon DEF Moves, Same
<1> HIDE DEF ConnTypes
<1> QED
  BY <1>1, <1>2, <1>3, <1>4, <1>5, <1>6, <1>7, <1>8, <1>9, <1>10, <1>11, <1>12, <1>13, <1>14,
     Zenon
     DEF QueueStep

(* The programs about to free a device, and those that are not. *)
LEMMA WhoFrees ==
    /\ Frees(<<"freeDevice">>)
    /\ Frees(<<"freeDevice", "destroyId">>)
    /\ Frees(<<"freeDevice", "failed">>)
    /\ ~Frees(<<>>)
    /\ ~Frees(<<"wait">>)
    /\ ~Frees(<<"destroyIb">>)
    /\ ~Frees(<<"put">>)
    /\ ~Frees(<<"resolveAddr">>)
    /\ ~Frees(<<"destroyId">>)
    /\ ~Frees(<<"failed">>)
    /\ ~Frees(<<"resolveRoute">>)
    /\ ~Frees(<<"connect">>)
    /\ ~Frees(<<"postRecv">>)
    /\ ~Frees(<<"destroyId", "destroyIb">>)
    /\ ~Frees(<<"destroyIb", "destroyId">>)
    /\ ~Frees(<<"put", "destroyId">>)
    /\ ~Frees(<<"createIb", "resolveRoute">>)
    /\ ~Frees(<<"put", "failed">>)
    /\ ~Frees(<<"destroyIb", "failed">>)
    /\ ~Frees(<<"getDevice", "createIb", "resolveRoute">>)
  BY Programs, Zenon DEF Frees

(* What is known of a queue whose handler runs. *)
LEMMA HandlerPhase ==
    ASSUME NEW q \in Queues, Phase(q), handler[q] # <<>>
    PROVE  /\ caller[q] \in {<<"wait">>, <<"destroyId", "destroyIb">>}
           /\ id[q] /\ ~allocated[q] /\ cm[q] = "idle" /\ ~done[q] /\ Handling(q)
  BY Zenon DEF Phase, Connecting

(* A step of the queue outside the books of the devices. *)
Quiet(q) == UNCHANGED <<dev, refs, list>> /\ (Freeing(q)' <=> Freeing(q))

(* nvme_rdma_create_queue_ib finds a device and nothing else. *)
LEMMA CreateQueueIbStep ==
    ASSUME ConnTypes, NEW q \in Queues, Phase(q), fault = FALSE, CreateQueueIb(q)
    PROVE  Phase(q)' /\ fault' = FALSE /\ Quiet(q)
<1>1. handler[q] # <<>> /\ Head(handler[q]) = "createIb"
  BY Zenon DEF CreateQueueIb, At, Prog
<1>2. /\ caller[q] \in {<<"wait">>, <<"destroyId", "destroyIb">>}
      /\ id[q] /\ ~allocated[q] /\ cm[q] = "idle" /\ ~done[q] /\ Handling(q)
  BY <1>1, HandlerPhase, Zenon
<1>3. handler[q] = <<"createIb", "resolveRoute">> /\ Half(q)
  BY <1>1, <1>2, Programs, Zenon DEF Handling
<1>4. UNCHANGED <<caller, cm, cm_error, done, id, allocated, dev, refs, list>>
  BY Zenon DEF CreateQueueIb, conn, device, Proceed, Goto
<1>5. \/ handler'[q] = <<"resolveRoute">> /\ ib'[q] /\ ready'[q]
      \/ handler'[q] = <<"put", "failed">> /\ UNCHANGED <<ib, ready>>
  BY <1>3, Programs DEF CreateQueueIb, Proceed, Goto, Prog, ConnTypes
<1>6. fault' = FALSE
  BY <1>3, Zenon DEF CreateQueueIb, Half
<1>7. Handling(q)'
  BY <1>3, <1>4, <1>5, Zenon DEF Handling, Half, Full
<1>8. Phase(q)'
  BY <1>2, <1>4, <1>7, Zenon DEF Phase, Connecting
<1>9. ~Freeing(q) /\ ~Freeing(q)'
  BY <1>2, <1>3, <1>4, <1>5, WhoFrees, Zenon DEF Freeing
<1> QED
  BY <1>4, <1>6, <1>8, <1>9, Zenon DEF Quiet

(* An event starts the handler with what the stage before it left. *)
LEMMA CmEventStep ==
    ASSUME ConnTypes, NEW q \in Queues, Phase(q), fault = FALSE, CmEvent(q)
    PROVE  Phase(q)' /\ fault' = FALSE /\ Quiet(q)
<1>1. handler[q] = <<>> /\ id[q] /\ cm[q] \in {"addr", "route", "connect"}
  BY Zenon DEF CmEvent
<1>2. /\ caller[q] \in {<<"wait">>, <<"destroyId", "destroyIb">>}
      /\ ~allocated[q] /\ ~done[q]
      /\ cm[q] = "addr" => Bare(q)
      /\ cm[q] # "addr" => Full(q)
  BY <1>1, WhoFrees, Zenon DEF Phase, Connecting, Handling, Frees
<1>3. UNCHANGED <<caller, cm_error, done, id, ready, allocated, ib, dev, refs, list, fault>>
  BY Zenon DEF CmEvent, device
<1>4. /\ cm'[q] = "idle"
      /\ cm[q] = "addr" => handler'[q] \in {<<"getDevice", "createIb", "resolveRoute">>,
                                            <<"failed">>}
      /\ cm[q] # "addr" => handler'[q] \in {<<"connect">>, <<"postRecv">>,
                                            <<"destroyIb", "failed">>}
  BY Zenon DEF CmEvent, ConnTypes
<1>5. Handling(q)'
  BY <1>2, <1>3, <1>4, Zenon DEF Handling, Bare, Full
<1>6. Phase(q)'
  BY <1>1, <1>2, <1>3, <1>4, <1>5, Zenon DEF Phase, Connecting
<1>7. ~Freeing(q) /\ ~Freeing(q)'
  BY <1>1, <1>2, <1>3, <1>4, WhoFrees, Zenon DEF Freeing
<1> QED
  BY <1>3, <1>6, <1>7, Zenon DEF Quiet

(* The next stage is asked for with everything in place, or it is undone. *)
LEMMA NextStageStep ==
    ASSUME ConnTypes, NEW q \in Queues, Phase(q), fault = FALSE, NextStage(q)
    PROVE  Phase(q)' /\ fault' = FALSE /\ Quiet(q)
<1>1. handler[q] # <<>> /\ Head(handler[q]) \in {"resolveRoute", "connect"}
  BY Zenon DEF NextStage, At, Prog
<1>2. /\ caller[q] \in {<<"wait">>, <<"destroyId", "destroyIb">>}
      /\ id[q] /\ ~allocated[q] /\ cm[q] = "idle" /\ ~done[q] /\ Handling(q)
  BY <1>1, HandlerPhase, Zenon
<1>3. handler[q] \in {<<"resolveRoute">>, <<"connect">>} /\ Full(q)
  BY <1>1, <1>2, Programs, Zenon DEF Handling
<1>4. UNCHANGED <<caller, cm_error, done, id, ready, allocated, ib, dev, refs, list, fault>>
  BY Zenon DEF NextStage, device, Proceed, Goto
<1>5. \/ handler'[q] = <<>> /\ cm'[q] \in {"route", "connect"}
      \/ handler'[q] = <<"destroyIb", "failed">> /\ cm' = cm
  <2>1. CASE Proceed(q, "handler") /\ \E v \in {"route", "connect"} : cm' = [cm EXCEPT ![q] = v]
    <3>1. handler'[q] = Tail(handler[q])
      BY <2>1, Zenon DEF Proceed, Goto, Prog, ConnTypes
    <3>2. handler'[q] = <<>>
      BY <1>3, <3>1, Programs, Zenon
    <3>3. cm'[q] \in {"route", "connect"}
      BY <2>1, Zenon DEF ConnTypes
    <3> QED
      BY <3>2, <3>3, Zenon
  <2>2. CASE Goto(q, "handler", <<"destroyIb", "failed">>) /\ cm' = cm
    BY <2>2, Zenon DEF Goto, ConnTypes
  <2> QED
    BY <2>1, <2>2, Zenon DEF NextStage
<1>6. Phase(q)'
  BY <1>2, <1>3, <1>4, <1>5, Zenon DEF Phase, Connecting, Handling, Full
<1>7. ~Freeing(q) /\ ~Freeing(q)'
  BY <1>2, <1>3, <1>4, <1>5, WhoFrees, Zenon DEF Freeing
<1> QED
  BY <1>4, <1>6, <1>7, Zenon DEF Quiet

(* nvme_rdma_conn_established has a queue pair to post to. *)
LEMMA ConnEstablishedStep ==
    ASSUME ConnTypes, NEW q \in Queues, Phase(q), fault = FALSE, ConnEstablished(q)
    PROVE  Phase(q)' /\ fault' = FALSE /\ Quiet(q)
<1>1. handler[q] # <<>> /\ Head(handler[q]) = "postRecv"
  BY Zenon DEF ConnEstablished, At, Prog
<1>2. /\ caller[q] \in {<<"wait">>, <<"destroyId", "destroyIb">>}
      /\ id[q] /\ ~allocated[q] /\ cm[q] = "idle" /\ ~done[q] /\ Handling(q)
  BY <1>1, HandlerPhase, Zenon
<1>3. handler[q] = <<"postRecv">> /\ Full(q)
  BY <1>1, <1>2, Programs, Zenon DEF Handling
<1>4. UNCHANGED <<caller, id, ready, allocated, ib, dev, refs, list>>
  BY Zenon DEF ConnEstablished, device, Proceed, Goto
<1>5. \/ handler'[q] = <<>> /\ cm'[q] = "up"
      \/ handler'[q] = <<"destroyIb", "failed">> /\ UNCHANGED <<cm, done>>
  BY <1>3, Programs, SMTT(30) DEF ConnEstablished, Proceed, Goto, Prog, ConnTypes
<1>6. fault' = FALSE
  BY <1>3, Zenon DEF ConnEstablished, Full
<1>7. Phase(q)'
  BY <1>2, <1>3, <1>4, <1>5, Zenon DEF Phase, Connecting, Handling, Full
<1>8. ~Freeing(q) /\ ~Freeing(q)'
  BY <1>2, <1>3, <1>4, <1>5, WhoFrees, Zenon DEF Freeing
<1> QED
  BY <1>4, <1>6, <1>7, <1>8, Zenon DEF Quiet

(* cm_done reports a failure when nothing is left. *)
LEMMA CmFailedStep ==
    ASSUME ConnTypes, NEW q \in Queues, Phase(q), fault = FALSE, CmFailed(q)
    PROVE  Phase(q)' /\ fault' = FALSE /\ Quiet(q)
<1>1. handler[q] # <<>> /\ Head(handler[q]) = "failed"
  BY Zenon DEF CmFailed, At, Prog
<1>2. /\ caller[q] \in {<<"wait">>, <<"destroyId", "destroyIb">>}
      /\ id[q] /\ ~allocated[q] /\ cm[q] = "idle" /\ ~done[q] /\ Handling(q)
  BY <1>1, HandlerPhase, Zenon
<1>3. handler[q] = <<"failed">> /\ Bare(q)
  BY <1>1, <1>2, Programs, Zenon DEF Handling
<1>4. UNCHANGED <<caller, cm, id, ready, allocated, ib, dev, refs, list, fault>>
  BY Zenon DEF CmFailed, device, Proceed, Goto
<1>5. handler'[q] = <<>> /\ cm_error'[q] = "err" /\ done'[q]
  BY <1>3, Programs DEF CmFailed, Proceed, Goto, Prog, ConnTypes
<1>6. Phase(q)'
  BY <1>2, <1>3, <1>4, <1>5, Zenon DEF Phase, Connecting, Bare
<1>7. ~Freeing(q) /\ ~Freeing(q)'
  BY <1>2, <1>3, <1>4, <1>5, WhoFrees, Zenon DEF Freeing
<1> QED
  BY <1>4, <1>6, <1>7, Zenon DEF Quiet

(* nvme_rdma_alloc_queue starts from nothing. *)
LEMMA AllocQueueStep ==
    ASSUME ConnTypes, NEW q \in Queues, Phase(q), fault = FALSE, AllocQueue(q)
    PROVE  Phase(q)' /\ fault' = FALSE /\ Quiet(q)
<1>1. caller[q] = <<>> /\ ~allocated[q]
  BY Zenon DEF AllocQueue
<1>2. handler[q] = <<>> /\ ~id[q] /\ cm[q] = "idle" /\ Bare(q)
  BY <1>1, Programs, Zenon DEF Phase
<1>3. UNCHANGED <<handler, cm, ready, allocated, ib, dev, refs, list, fault>>
  BY Zenon DEF AllocQueue, device, Goto
<1>4. /\ ~done'[q]
      /\ \/ id'[q] /\ caller'[q] = <<"resolveAddr">>
         \/ UNCHANGED <<id, caller>>
  BY Programs, Zenon DEF AllocQueue, Goto, ConnTypes
<1>5. Phase(q)'
  BY <1>1, <1>2, <1>3, <1>4, Zenon DEF Phase, Bare
<1>6. ~Freeing(q) /\ ~Freeing(q)'
  BY <1>1, <1>2, <1>3, <1>4, WhoFrees, Zenon DEF Freeing
<1> QED
  BY <1>3, <1>5, <1>6, Zenon DEF Quiet

(* rdma_resolve_addr starts the events, or the cm_id goes. *)
LEMMA ResolveAddrStep ==
    ASSUME ConnTypes, NEW q \in Queues, Phase(q), fault = FALSE, ResolveAddr(q)
    PROVE  Phase(q)' /\ fault' = FALSE /\ Quiet(q)
<1>1. caller[q] # <<>> /\ Head(caller[q]) = "resolveAddr"
  BY Zenon DEF ResolveAddr, At, Prog
<1>2. /\ caller[q] = <<"resolveAddr">> /\ handler[q] = <<>>
      /\ id[q] /\ ~allocated[q] /\ cm[q] = "idle" /\ ~done[q] /\ Bare(q)
  BY <1>1, Programs, Zenon DEF Phase
<1>3. UNCHANGED <<handler, done, id, ready, allocated, ib, dev, refs, list, fault>>
  BY Zenon DEF ResolveAddr, device, Goto
<1>4. \/ cm'[q] = "addr" /\ caller'[q] = <<"wait">>
      \/ cm' = cm /\ caller'[q] = <<"destroyId", "destroyIb">>
  BY Programs, Zenon DEF ResolveAddr, OutDestroyCmId, Goto, ConnTypes
<1>5. Phase(q)'
  BY <1>2, <1>3, <1>4, Programs, Zenon DEF Phase, Connecting, Bare
<1>6. ~Freeing(q) /\ ~Freeing(q)'
  BY <1>2, <1>3, <1>4, WhoFrees, Zenon DEF Freeing
<1> QED
  BY <1>3, <1>5, <1>6, Zenon DEF Quiet

(* nvme_rdma_wait_for_cm succeeds only with everything in place; when it   *)
(* gives up the handler may still be running.                              *)
LEMMA WaitForCmStep ==
    ASSUME ConnTypes, NEW q \in Queues, Phase(q), fault = FALSE, WaitForCm(q)
    PROVE  Phase(q)' /\ fault' = FALSE /\ Quiet(q)
<1>1. caller[q] # <<>> /\ Head(caller[q]) = "wait"
  BY Zenon DEF WaitForCm, At, Prog
<1>2. caller[q] = <<"wait">> /\ id[q] /\ ~allocated[q] /\ Connecting(q)
  BY <1>1, Programs, Zenon DEF Phase
<1>3. UNCHANGED <<handler, cm, cm_error, done, id, ready, ib, dev, refs, list, fault>>
  BY Zenon DEF WaitForCm, conn, device, Proceed, Goto
<1>4. \/ done[q] /\ cm_error[q] = "ok" /\ allocated'[q] /\ caller'[q] = <<>>
      \/ allocated' = allocated /\ caller'[q] = <<"destroyId", "destroyIb">>
  BY <1>2, Programs, SMTT(30) DEF WaitForCm, OutDestroyCmId, Proceed, Goto, Prog, ConnTypes
<1>5. Phase(q)'
  <2>1. CASE done[q] /\ cm_error[q] = "ok" /\ allocated'[q] /\ caller'[q] = <<>>
    <3>1. handler[q] = <<>> /\ cm[q] = "up" /\ Full(q)
      BY <1>2, <2>1, Zenon DEF Connecting
    <3> QED
      BY <1>2, <1>3, <2>1, <3>1, Zenon DEF Phase, Full
  <2>2. CASE allocated' = allocated /\ caller'[q] = <<"destroyId", "destroyIb">>
    <3>1. Connecting(q)'
      BY <1>2, <1>3, <2>2, Programs, Zenon DEF Connecting, Handling, Bare, Half, Full
    <3> QED
      BY <1>2, <1>3, <2>2, <3>1, Zenon DEF Phase
  <2> QED
    BY <1>4, <2>1, <2>2, Zenon
<1>6. Freeing(q)' <=> Freeing(q)
  BY <1>2, <1>3, <1>4, WhoFrees, Zenon DEF Freeing
<1> QED
  BY <1>3, <1>5, <1>6, Zenon DEF Quiet

(* rdma_destroy_id waits for the handler, which has left all or nothing. *)
LEMMA DestroyIdStep ==
    ASSUME ConnTypes, NEW q \in Queues, Phase(q), fault = FALSE, DestroyId(q)
    PROVE  Phase(q)' /\ fault' = FALSE /\ Quiet(q)
<1>1. caller[q] # <<>> /\ Head(caller[q]) = "destroyId" /\ handler[q] = <<>>
  BY Zenon DEF DestroyId, At, Prog
<1>2. /\ id[q] /\ ~allocated[q]
      /\ \/ caller[q] = <<"destroyId", "destroyIb">> /\ (Bare(q) \/ Full(q))
         \/ caller[q] = <<"destroyId">> /\ Bare(q)
  BY <1>1, Programs, Zenon DEF Phase, Connecting, Handling
<1>3. UNCHANGED <<handler, done, ready, allocated, ib, dev, refs, list>>
  BY Zenon DEF DestroyId, device, Proceed, Goto
<1>4. /\ ~id'[q] /\ cm'[q] = "idle"
      /\ caller[q] = <<"destroyId", "destroyIb">> => caller'[q] = <<"destroyIb">>
      /\ caller[q] = <<"destroyId">> => caller'[q] = <<>>
  <2>1. caller'[q] = Tail(caller[q])
    BY Zenon DEF DestroyId, Proceed, Goto, Prog, ConnTypes
  <2>2. ~id'[q] /\ cm'[q] = "idle"
    BY Zenon DEF DestroyId, ConnTypes
  <2> QED
    BY <2>1, <2>2, Programs, Zenon
<1>5. fault' = FALSE
  BY <1>2, Zenon DEF DestroyId
<1>6. Phase(q)'
  BY <1>1, <1>2, <1>3, <1>4, Zenon DEF Phase, Bare, Full
<1>7. ~Freeing(q) /\ ~Freeing(q)'
  BY <1>1, <1>2, <1>3, <1>4, WhoFrees, Zenon DEF Freeing
<1> QED
  BY <1>3, <1>5, <1>6, <1>7, Zenon DEF Quiet

(* nvme_rdma_free_queue starts with everything in place. *)
LEMMA FreeQueueStep ==
    ASSUME ConnTypes, NEW q \in Queues, Phase(q), fault = FALSE, FreeQueue(q)
    PROVE  Phase(q)' /\ fault' = FALSE /\ Quiet(q)
<1>1. caller[q] = <<>> /\ allocated[q]
  BY Zenon DEF FreeQueue
<1>2. handler[q] = <<>> /\ id[q] /\ cm[q] = "up" /\ Full(q)
  BY <1>1, Zenon DEF Phase
<1>3. UNCHANGED <<handler, cm, done, id, ready, ib, dev, refs, list, fault>>
  BY Zenon DEF FreeQueue, conn, device, Goto
<1>4. ~allocated'[q] /\ caller'[q] = <<"destroyIb", "destroyId">>
  BY Zenon DEF FreeQueue, Goto, ConnTypes
<1>5. Phase(q)'
  BY <1>2, <1>3, <1>4, Zenon DEF Phase, Full
<1>6. ~Freeing(q) /\ ~Freeing(q)'
  BY <1>1, <1>2, <1>3, <1>4, WhoFrees, Zenon DEF Freeing
<1> QED
  BY <1>3, <1>5, <1>6, Zenon DEF Quiet

(* TR_READY lets one of handler and caller destroy what there is. *)
LEMMA DestroyQueueIbStep ==
    ASSUME ConnTypes, NEW q \in Queues, Phase(q), fault = FALSE,
           NEW t \in Thread, DestroyQueueIb(q, t)
    PROVE  Phase(q)' /\ fault' = FALSE /\ Quiet(q)
<1>1. Prog(q, t) # <<>> /\ Head(Prog(q, t)) = "destroyIb"
  BY Zenon DEF DestroyQueueIb, At
<1>2. UNCHANGED <<cm, cm_error, done, id, allocated, dev, refs, list>>
  BY Zenon DEF DestroyQueueIb, conn, device
<1>3. /\ ~ready'[q]
      /\ \/ ready[q] /\ ~ib'[q] /\ Goto(q, t, <<"put">> \o Tail(Prog(q, t)))
         \/ ~ready[q] /\ ib' = ib /\ Goto(q, t, Tail(Prog(q, t)))
  BY Zenon DEF DestroyQueueIb, Proceed, ConnTypes
<1>4. CASE t = "caller"
  <2>1. /\ handler[q] = <<>> /\ ~allocated[q]
        /\ \/ caller[q] = <<"destroyIb">> /\ ~id[q] /\ cm[q] = "idle" /\ (Bare(q) \/ Full(q))
           \/ caller[q] = <<"destroyIb", "destroyId">> /\ id[q] /\ cm[q] = "up" /\ Full(q)
    BY <1>1, <1>4, Programs, Zenon DEF Phase, Prog
  <2>2. /\ handler' = handler
        /\ caller[q] = <<"destroyIb">> =>
              caller'[q] = IF ready[q] THEN <<"put">> ELSE <<>>
        /\ caller[q] = <<"destroyIb", "destroyId">> => caller'[q] = <<"put", "destroyId">>
    <3>1. /\ handler' = handler
          /\ ready[q] => caller'[q] = <<"put">> \o Tail(caller[q])
          /\ ~ready[q] => caller'[q] = Tail(caller[q])
      BY <1>3, <1>4, Zenon DEF Goto, Prog, ConnTypes
    <3>2. CASE caller[q] = <<"destroyIb">>
      BY <3>1, <3>2, Programs, SMTT(30)
    <3>3. CASE caller[q] = <<"destroyIb", "destroyId">>
      BY <2>1, <3>1, <3>3, Programs DEF Full
    <3> QED
      BY <2>1, <3>1, <3>2, <3>3, Zenon
  <2>3. Phase(q)'
    BY <1>2, <1>3, <2>1, <2>2, Zenon DEF Phase, Bare, Half, Full
  <2>4. ~Freeing(q) /\ ~Freeing(q)'
    BY <2>1, <2>2, WhoFrees, Zenon DEF Freeing
  <2>5. fault' = FALSE
    BY <2>1, Zenon DEF DestroyQueueIb, Bare, Full
  <2> QED
    BY <1>2, <2>3, <2>4, <2>5, Zenon DEF Quiet
<1>5. CASE t = "handler"
  <2>1. /\ caller[q] \in {<<"wait">>, <<"destroyId", "destroyIb">>}
        /\ id[q] /\ ~allocated[q] /\ cm[q] = "idle" /\ ~done[q] /\ Handling(q)
    BY <1>1, <1>5, HandlerPhase, Zenon DEF Prog
  <2>2. handler[q] = <<"destroyIb", "failed">> /\ Full(q)
    BY <1>1, <1>5, <2>1, Programs, Zenon DEF Handling, Prog
  <2>3. caller' = caller /\ handler'[q] = <<"put", "failed">>
    BY <1>3, <1>5, <2>2, Programs DEF Goto, Prog, ConnTypes, Full
  <2>4. Phase(q)'
    BY <1>2, <1>3, <2>1, <2>2, <2>3, Zenon DEF Phase, Connecting, Handling, Half, Full
  <2>5. ~Freeing(q) /\ ~Freeing(q)'
    BY <2>1, <2>2, <2>3, WhoFrees, Zenon DEF Freeing
  <2>6. fault' = FALSE
    BY <2>2, Zenon DEF DestroyQueueIb, Full
  <2> QED
    BY <1>2, <2>4, <2>5, <2>6, Zenon DEF Quiet
<1> QED
  BY <1>4, <1>5, Zenon DEF Thread

(* A queue takes a reference to a device, gives it back, or frees the device. *)
Takes(q, d) ==
    /\ d \in Dev /\ ~Freeing(q) /\ ~Freeing(q)'
    /\ dev[q] = NoDev /\ dev' = [dev EXCEPT ![q] = d]
    /\ refs' = [refs EXCEPT ![d] = @ + 1] /\ list' = list \cup {d}
    /\ d \in list => refs[d] > 0
    /\ d \notin list => refs[d] = 0
Drops(q, d) ==
    /\ d \in Dev /\ dev[q] = d /\ ~Freeing(q)
    /\ refs' = [refs EXCEPT ![d] = @ - 1] /\ list' = list
    /\ \/ refs[d] = 1 /\ dev' = dev /\ Freeing(q)'
       \/ refs[d] > 1 /\ dev' = [dev EXCEPT ![q] = NoDev] /\ ~Freeing(q)'
Forgets(q, d) ==
    /\ d \in Dev /\ dev[q] = d /\ Freeing(q) /\ ~Freeing(q)'
    /\ refs' = refs /\ list' = list \ {d} /\ dev' = [dev EXCEPT ![q] = NoDev]

(* nvme_rdma_find_get_device takes a reference for a queue that has none. *)
LEMMA FindGetDeviceStep ==
    ASSUME ConnTypes, DeviceInv, NEW q \in Queues, Phase(q), fault = FALSE, FindGetDevice(q)
    PROVE  Phase(q)' /\ fault' = FALSE /\ (Quiet(q) \/ \E d \in Dev : Takes(q, d))
<1>1. handler[q] # <<>> /\ Head(handler[q]) = "getDevice"
  BY Zenon DEF FindGetDevice, At, Prog
<1>2. /\ caller[q] \in {<<"wait">>, <<"destroyId", "destroyIb">>}
      /\ id[q] /\ ~allocated[q] /\ cm[q] = "idle" /\ ~done[q] /\ Handling(q)
  BY <1>1, HandlerPhase, Zenon
<1>3. handler[q] = <<"getDevice", "createIb", "resolveRoute">> /\ Bare(q)
  BY <1>1, <1>2, Programs, Zenon DEF Handling
<1>4. UNCHANGED <<caller, cm, cm_error, done, id, ready, allocated, ib, fault>>
  BY Zenon DEF FindGetDevice, conn, Proceed, Goto
<1>5. CASE Goto(q, "handler", <<"failed">>) /\ UNCHANGED <<dev, refs, list>>
  <2>1. handler'[q] = <<"failed">>
    BY <1>5, Zenon DEF Goto, ConnTypes
  <2>2. Handling(q)'
    BY <1>3, <1>4, <1>5, <2>1, Zenon DEF Handling, Bare
  <2>3. Phase(q)'
    BY <1>2, <1>4, <2>2, Zenon DEF Phase, Connecting
  <2>4. ~Freeing(q) /\ ~Freeing(q)'
    BY <1>2, <1>3, <1>4, <2>1, WhoFrees, Zenon DEF Freeing
  <2> QED
    BY <1>4, <1>5, <2>3, <2>4, Zenon DEF Quiet
<1>6. ASSUME NEW d \in Dev, Proceed(q, "handler"), dev' = [dev EXCEPT ![q] = d],
             refs' = [refs EXCEPT ![d] = @ + 1], list' = list \cup {d},
             d \in list => refs[d] > 0, d \notin list => refs[d] = 0
      PROVE  Phase(q)' /\ fault' = FALSE /\ Takes(q, d)
  <2>1. handler'[q] = Tail(handler[q]) /\ dev'[q] = d
    BY <1>6, Zenon DEF Proceed, Goto, Prog, ConnTypes
  <2>2. handler'[q] = <<"createIb", "resolveRoute">>
    BY <1>3, <2>1, Programs, Zenon
  <2>3. Handling(q)'
    BY <1>3, <1>4, <2>1, <2>2, Zenon DEF Handling, Bare, Half
  <2>4. Phase(q)'
    BY <1>2, <1>4, <2>3, Zenon DEF Phase, Connecting
  <2>5. ~Freeing(q) /\ ~Freeing(q)'
    BY <1>2, <1>3, <1>4, <2>2, WhoFrees, Zenon DEF Freeing
  <2> QED
    BY <1>3, <1>4, <1>6, <2>4, <2>5, Zenon DEF Takes, Bare
<1>7. CASE \E d \in list :
             /\ refs[d] > 0
             /\ refs' = [refs EXCEPT ![d] = @ + 1] /\ dev' = [dev EXCEPT ![q] = d]
             /\ Proceed(q, "handler") /\ UNCHANGED list
  <2>1. PICK d \in list :
             /\ refs[d] > 0
             /\ refs' = [refs EXCEPT ![d] = @ + 1] /\ dev' = [dev EXCEPT ![q] = d]
             /\ Proceed(q, "handler") /\ UNCHANGED list
    BY <1>7, Zenon
  <2>2. d \in Dev /\ list' = list \cup {d}
    BY <2>1, Zenon DEF DeviceInv
  <2> QED
    BY <1>6, <2>1, <2>2, Zenon
<1>8. CASE /\ Proceed(q, "handler")
           /\ \E d \in Dev \ list :
                /\ refs[d] = 0
                /\ refs' = [refs EXCEPT ![d] = 1] /\ dev' = [dev EXCEPT ![q] = d]
                /\ list' = list \cup {d}
  <2>1. PICK d \in Dev \ list :
                /\ refs[d] = 0
                /\ refs' = [refs EXCEPT ![d] = 1] /\ dev' = [dev EXCEPT ![q] = d]
                /\ list' = list \cup {d}
    BY <1>8, Zenon
  <2>2. refs' = [refs EXCEPT ![d] = @ + 1]
    BY <2>1 DEF DeviceInv
  <2> QED
    BY <1>6, <1>8, <2>1, <2>2, Zenon
<1> QED
  BY <1>5, <1>7, <1>8, Zenon DEF FindGetDevice, device

(* nvme_rdma_dev_put gives back a reference the queue has. *)
LEMMA DevPutStep ==
    ASSUME ConnTypes, NEW q \in Queues, Phase(q), fault = FALSE, NEW t \in Thread, DevPut(q, t),
           dev[q] \in Dev /\ ~Freeing(q) => refs[dev[q]] # 0
    PROVE  Phase(q)' /\ fault' = FALSE /\ Drops(q, dev[q])
<1>1. Prog(q, t) # <<>> /\ Head(Prog(q, t)) = "put"
  BY Zenon DEF DevPut, At
<1>2. UNCHANGED <<cm, cm_error, done, id, ready, allocated, ib, list>>
  BY Zenon DEF DevPut, conn
<1> DEFINE Last == /\ refs[dev[q]] = 1 /\ dev' = dev
                   /\ Goto(q, t, <<"freeDevice">> \o Tail(Prog(q, t)))
           More == /\ refs[dev[q]] > 1 /\ dev' = [dev EXCEPT ![q] = NoDev]
                   /\ Goto(q, t, Tail(Prog(q, t)))
<1>3. Last \/ More
  BY Zenon DEF DevPut, Proceed
<1>4. CASE t = "caller"
  <2>1. /\ handler[q] = <<>> /\ ~allocated[q] /\ Half(q)
        /\ \/ caller[q] = <<"put">> /\ ~id[q] /\ cm[q] = "idle"
           \/ caller[q] = <<"put", "destroyId">> /\ id[q] /\ cm[q] = "up"
    BY <1>1, <1>4, Programs, Zenon DEF Phase, Prog
  <2>2. ~Freeing(q)
    BY <2>1, WhoFrees, Zenon DEF Freeing
  <2>3. fault' = FALSE
    BY <2>1, <2>2, Zenon DEF DevPut, Half
  <2>4. CASE Last
    <3>1. /\ handler' = handler
          /\ caller'[q] = <<"freeDevice">> \o Tail(caller[q])
      BY <1>4, <2>4, Zenon DEF Goto, Prog, ConnTypes
    <3>2. /\ caller[q] = <<"put">> => caller'[q] = <<"freeDevice">>
          /\ caller[q] = <<"put", "destroyId">> => caller'[q] = <<"freeDevice", "destroyId">>
      BY <3>1, Programs, Zenon
    <3>3. Phase(q)'
      BY <1>2, <2>1, <2>4, <3>1, <3>2, Zenon DEF Phase, Half
    <3>4. Freeing(q)'
      BY <2>1, <3>2, WhoFrees, Zenon DEF Freeing
    <3> QED
      BY <1>2, <2>1, <2>2, <2>3, <2>4, <3>3, <3>4, Zenon DEF Drops, Half, DevPut
  <2>5. CASE More
    <3>1. handler' = handler /\ caller'[q] = Tail(caller[q]) /\ dev'[q] = NoDev
      BY <1>4, <2>5, Zenon DEF Goto, Prog, ConnTypes
    <3>2. /\ caller[q] = <<"put">> => caller'[q] = <<>>
          /\ caller[q] = <<"put", "destroyId">> => caller'[q] = <<"destroyId">>
      BY <3>1, Programs, Zenon
    <3>3. Phase(q)'
      BY <1>2, <2>1, <3>1, <3>2, Zenon DEF Phase, Half, Bare
    <3>4. ~Freeing(q)'
      BY <2>1, <3>1, <3>2, WhoFrees, Zenon DEF Freeing
    <3> QED
      BY <1>2, <2>1, <2>2, <2>3, <2>5, <3>3, <3>4, Zenon DEF Drops, Half, DevPut
  <2> QED
    BY <1>3, <2>4, <2>5, Zenon
<1>5. CASE t = "handler"
  <2>1. /\ caller[q] \in {<<"wait">>, <<"destroyId", "destroyIb">>}
        /\ id[q] /\ ~allocated[q] /\ cm[q] = "idle" /\ ~done[q] /\ Handling(q)
    BY <1>1, <1>5, HandlerPhase, Zenon DEF Prog
  <2>2. handler[q] = <<"put", "failed">> /\ Half(q)
    BY <1>1, <1>5, <2>1, Programs, Zenon DEF Handling, Prog
  <2>3. ~Freeing(q)
    BY <2>1, <2>2, WhoFrees, Zenon DEF Freeing
  <2>4. fault' = FALSE
    BY <2>2, <2>3, Zenon DEF DevPut, Half
  <2>5. CASE Last
    <3>1. /\ caller' = caller
          /\ handler'[q] = <<"freeDevice">> \o Tail(handler[q])
      BY <1>5, <2>5, Zenon DEF Goto, Prog, ConnTypes
    <3>2. handler'[q] = <<"freeDevice", "failed">>
      BY <2>2, <3>1, Programs, Zenon
    <3>3. Phase(q)'
      BY <1>2, <2>1, <2>2, <2>5, <3>1, <3>2, Zenon DEF Phase, Connecting, Handling, Half
    <3>4. Freeing(q)'
      BY <3>2, WhoFrees, Zenon DEF Freeing
    <3> QED
      BY <1>2, <2>2, <2>3, <2>4, <2>5, <3>3, <3>4, Zenon DEF Drops, Half, DevPut
  <2>6. CASE More
    <3>1. caller' = caller /\ handler'[q] = Tail(handler[q]) /\ dev'[q] = NoDev
      BY <1>5, <2>6, Zenon DEF Goto, Prog, ConnTypes
    <3>2. handler'[q] = <<"failed">>
      BY <2>2, <3>1, Programs, Zenon
    <3>3. Phase(q)'
      BY <1>2, <2>1, <2>2, <3>1, <3>2, Zenon DEF Phase, Connecting, Handling, Half, Bare
    <3>4. ~Freeing(q)'
      BY <2>1, <3>1, <3>2, WhoFrees, Zenon DEF Freeing
    <3> QED
      BY <1>2, <2>2, <2>3, <2>4, <2>6, <3>3, <3>4, Zenon DEF Drops, Half, DevPut
  <2> QED
    BY <1>3, <2>5, <2>6, Zenon
<1> QED
  BY <1>4, <1>5, Zenon DEF Thread

(* nvme_rdma_free_dev frees a device without references. *)
LEMMA FreeDevStep ==
    ASSUME ConnTypes, NEW q \in Queues, Phase(q), fault = FALSE, NEW t \in Thread, FreeDev(q, t),
           Freeing(q) => refs[dev[q]] = 0
    PROVE  Phase(q)' /\ fault' = FALSE /\ Forgets(q, dev[q])
<1>1. Prog(q, t) # <<>> /\ Head(Prog(q, t)) = "freeDevice"
  BY Zenon DEF FreeDev, At
<1>2. /\ UNCHANGED <<cm, cm_error, done, id, ready, allocated, ib, refs>>
      /\ dev' = [dev EXCEPT ![q] = NoDev] /\ dev'[q] = NoDev /\ list' = list \ {dev[q]}
  BY Zenon DEF FreeDev, conn, ConnTypes
<1>3. Freeing(q) /\ fault' = FALSE
  BY <1>1, Zenon DEF Freeing, Frees, Prog, FreeDev
<1>4. CASE t = "caller"
  <2>1. /\ handler[q] = <<>> /\ ~allocated[q] /\ Half(q)
        /\ \/ caller[q] = <<"freeDevice">> /\ ~id[q] /\ cm[q] = "idle"
           \/ caller[q] = <<"freeDevice", "destroyId">> /\ id[q] /\ cm[q] = "up"
    BY <1>1, <1>4, Programs, Zenon DEF Phase, Prog
  <2>2. handler' = handler /\ caller'[q] = Tail(caller[q])
    BY <1>4, Zenon DEF FreeDev, Proceed, Goto, Prog, ConnTypes
  <2>3. /\ caller[q] = <<"freeDevice">> => caller'[q] = <<>>
        /\ caller[q] = <<"freeDevice", "destroyId">> => caller'[q] = <<"destroyId">>
    BY <2>2, Programs, Zenon
  <2>4. Phase(q)'
    BY <1>2, <2>1, <2>2, <2>3, Zenon DEF Phase, Half, Bare
  <2>5. ~Freeing(q)'
    BY <2>1, <2>2, <2>3, WhoFrees, Zenon DEF Freeing
  <2> QED
    BY <1>2, <1>3, <2>1, <2>4, <2>5, Zenon DEF Forgets, Half
<1>5. CASE t = "handler"
  <2>1. /\ caller[q] \in {<<"wait">>, <<"destroyId", "destroyIb">>}
        /\ id[q] /\ ~allocated[q] /\ cm[q] = "idle" /\ ~done[q] /\ Handling(q)
    BY <1>1, <1>5, HandlerPhase, Zenon DEF Prog
  <2>2. handler[q] = <<"freeDevice", "failed">> /\ Half(q)
    BY <1>1, <1>5, <2>1, Programs, Zenon DEF Handling, Prog
  <2>3. caller' = caller /\ handler'[q] = Tail(handler[q])
    BY <1>5, Zenon DEF FreeDev, Proceed, Goto, Prog, ConnTypes
  <2>4. handler'[q] = <<"failed">>
    BY <2>2, <2>3, Programs, Zenon
  <2>5. Phase(q)'
    BY <1>2, <2>1, <2>2, <2>3, <2>4, Zenon DEF Phase, Connecting, Handling, Half, Bare
  <2>6. ~Freeing(q)'
    BY <2>1, <2>3, <2>4, WhoFrees, Zenon DEF Freeing
  <2> QED
    BY <1>2, <1>3, <2>2, <2>5, <2>6, Zenon DEF Forgets, Half
<1> QED
  BY <1>4, <1>5, Zenon DEF Thread

-----------------------------------------------------------------------------
(* The books of the devices *)

(* The queues that hold a device are finitely many. *)
LEMMA HoldersCount ==
    ASSUME NEW d
    PROVE  /\ IsFiniteSet(Holders(d)) /\ Cardinality(Holders(d)) \in Nat
           /\ Cardinality(Holders(d)) = 0 <=> Holders(d) = {}
  BY ConnAssumption, FS_Subset, FS_CardinalityType, FS_EmptySet, Zenon DEF Holders

(* The other queues free what they did free. *)
LEMMA FreeingKept ==
    ASSUME NEW q, \A p \in Queues \ {q} : Same(p)
    PROVE  \A p \in Queues \ {q} : (Freeing(p)' <=> Freeing(p)) /\ dev'[p] = dev[p]
  BY Zenon DEF Same, Freeing

(* The books stay right: nothing happens, *)
LEMMA DeviceQuiet ==
    ASSUME DeviceInv, NEW q \in Queues, Quiet(q), \A p \in Queues \ {q} : Same(p)
    PROVE  DeviceInv'
<1>1. \A p \in Queues : Freeing(p)' <=> Freeing(p)
  BY FreeingKept, Zenon DEF Quiet
<1>2. UNCHANGED <<dev, refs, list>>
  BY Zenon DEF Quiet
<1>3. ASSUME NEW d \in Dev PROVE Holders(d)' = Holders(d)
  BY <1>1, <1>2, Zenon DEF Holders
<1>4. \A d \in Dev : refs'[d] = Cardinality(Holders(d)')
  BY <1>2, <1>3, Zenon DEF DeviceInv
<1> QED
  BY <1>1, <1>2, <1>4, Zenon DEF DeviceInv

(* a reference is taken, *)
LEMMA DeviceTakes ==
    ASSUME ConnTypes, DeviceInv, NEW q \in Queues, NEW d \in Dev, Takes(q, d),
           \A p \in Queues \ {q} : Same(p)
    PROVE  DeviceInv'
<1>1. /\ \A p \in Queues \ {q} : (Freeing(p)' <=> Freeing(p)) /\ dev'[p] = dev[p]
      /\ ~Freeing(q) /\ ~Freeing(q)' /\ dev[q] = NoDev /\ dev'[q] = d
  BY FreeingKept, Zenon DEF Takes, ConnTypes
<1>2. /\ refs' \in [Dev -> Nat] /\ refs'[d] = refs[d] + 1
      /\ \A e \in Dev \ {d} : refs'[e] = refs[e]
      /\ list' = list \cup {d} /\ list' \subseteq Dev
  BY DEF Takes, DeviceInv
<1>3. Holders(d)' = Holders(d) \cup {q} /\ q \notin Holders(d)
  BY <1>1, ConnAssumption, Zenon DEF Holders
<1>4. \A e \in Dev \ {d} : Holders(e)' = Holders(e)
  BY <1>1, ConnAssumption, Zenon DEF Holders
<1>5. \A e \in Dev : refs'[e] = Cardinality(Holders(e)')
  <2>1. Cardinality(Holders(d) \cup {q}) = Cardinality(Holders(d)) + 1
    BY <1>3, HoldersCount, FS_AddElement, Zenon
  <2>2. refs'[d] = Cardinality(Holders(d)')
    BY <1>2, <1>3, <2>1, Zenon DEF DeviceInv
  <2> QED
    BY <1>2, <1>4, <2>2, Zenon DEF DeviceInv
<1>6. \A p \in Queues : dev'[p] # NoDev => dev'[p] \in list'
  BY <1>1, <1>2, Zenon DEF DeviceInv
<1>7. ASSUME NEW p \in Queues, Freeing(p)'
      PROVE  p # q /\ dev'[p] # NoDev /\ refs'[dev'[p]] = 0
  <2>1. p # q /\ dev[p] # NoDev /\ refs[dev[p]] = 0 /\ dev[p] \in list /\ dev'[p] = dev[p]
    BY <1>1, <1>7, Zenon DEF DeviceInv
  <2>2. dev[p] # d
    BY <2>1, SMTT(30) DEF Takes
  <2> QED
    BY <1>2, <2>1, <2>2, Zenon DEF ConnTypes
<1>8. \A p, r \in Queues : Freeing(p)' /\ Freeing(r)' /\ dev'[p] = dev'[r] => p = r
  BY <1>1, Zenon DEF DeviceInv
<1> QED
  BY <1>2, <1>5, <1>6, <1>7, <1>8, Zenon DEF DeviceInv

(* (a queue that holds a device is counted) *)
LEMMA Held1 ==
    ASSUME DeviceInv, NEW q \in Queues, dev[q] \in Dev, ~Freeing(q)
    PROVE  refs[dev[q]] # 0
<1>1. q \in Holders(dev[q])
  BY Zenon DEF Holders
<1> QED
  BY <1>1, HoldersCount, Zenon DEF DeviceInv

(* given back, *)
LEMMA DeviceDrops ==
    ASSUME ConnTypes, DeviceInv, NEW q \in Queues, NEW d \in Dev, Drops(q, d),
           \A p \in Queues \ {q} : Same(p)
    PROVE  DeviceInv'
<1>1. /\ \A p \in Queues \ {q} : (Freeing(p)' <=> Freeing(p)) /\ dev'[p] = dev[p]
      /\ ~Freeing(q) /\ dev[q] = d
  BY FreeingKept, Zenon DEF Drops
<1>2. \/ refs[d] = 1 /\ dev'[q] = d /\ Freeing(q)'
      \/ refs[d] > 1 /\ dev'[q] = NoDev /\ ~Freeing(q)'
  BY Zenon DEF Drops, ConnTypes
<1>3. /\ refs' \in [Dev -> Nat] /\ refs'[d] = refs[d] - 1 /\ refs[d] > 0
      /\ \A e \in Dev \ {d} : refs'[e] = refs[e]
      /\ list' = list
  BY SMTT(30) DEF Drops, DeviceInv
<1>4. Holders(d)' = Holders(d) \ {q} /\ q \in Holders(d)
  BY <1>1, <1>2, ConnAssumption, Zenon DEF Holders
<1>5. \A e \in Dev \ {d} : Holders(e)' = Holders(e)
  BY <1>1, <1>2, ConnAssumption, Zenon DEF Holders
<1>6. \A e \in Dev : refs'[e] = Cardinality(Holders(e)')
  <2>1. Cardinality(Holders(d) \ {q}) = Cardinality(Holders(d)) - 1
    BY <1>4, HoldersCount, FS_RemoveElement, Zenon
  <2>2. refs'[d] = Cardinality(Holders(d)')
    BY <1>3, <1>4, <2>1, Zenon DEF DeviceInv
  <2> QED
    BY <1>3, <1>5, <2>2, Zenon DEF DeviceInv
<1>7. \A p \in Queues : dev'[p] # NoDev => dev'[p] \in list'
  BY <1>1, <1>2, <1>3, ConnAssumption, Zenon DEF DeviceInv
<1>8. ASSUME NEW p \in Queues, p # q, Freeing(p)'
      PROVE  dev'[p] # NoDev /\ dev'[p] # d /\ refs'[dev'[p]] = 0
  <2>1. dev[p] # NoDev /\ refs[dev[p]] = 0 /\ dev'[p] = dev[p]
    BY <1>1, <1>8, Zenon DEF DeviceInv
  <2>2. dev[p] # d
    BY <1>3, <2>1, SMTT(30)
  <2> QED
    BY <1>3, <2>1, <2>2, Zenon DEF ConnTypes
<1>9. Freeing(q)' => dev'[q] = d /\ d # NoDev /\ refs'[d] = 0
  BY <1>2, <1>3, ConnAssumption, SMTT(30)
<1>10. \A p, r \in Queues : Freeing(p)' /\ Freeing(r)' /\ dev'[p] = dev'[r] => p = r
  BY <1>1, <1>8, <1>9, Zenon DEF DeviceInv
<1> QED
  BY <1>3, <1>6, <1>7, <1>8, <1>9, <1>10, Zenon DEF DeviceInv

(* or the device is freed, which only the last holder had. *)
LEMMA DeviceForgets ==
    ASSUME ConnTypes, DeviceInv, NEW q \in Queues, NEW d \in Dev, Forgets(q, d),
           \A p \in Queues \ {q} : Same(p)
    PROVE  DeviceInv'
<1>1. /\ \A p \in Queues \ {q} : (Freeing(p)' <=> Freeing(p)) /\ dev'[p] = dev[p]
      /\ Freeing(q) /\ ~Freeing(q)' /\ dev[q] = d /\ dev'[q] = NoDev
      /\ refs' = refs /\ list' = list \ {d}
  BY FreeingKept, Zenon DEF Forgets, ConnTypes
<1>2. \A e \in Dev : Holders(e)' = Holders(e)
  BY <1>1, ConnAssumption, Zenon DEF Holders
<1>3. \A e \in Dev : refs'[e] = Cardinality(Holders(e)')
  BY <1>1, <1>2, Zenon DEF DeviceInv
<1>4. \A p \in Queues \ {q} : dev[p] # d
  <2>1. refs[d] = 0
    BY <1>1, Zenon DEF DeviceInv
  <2> QED
    BY <1>1, <2>1, Held1, Zenon DEF DeviceInv
<1>5. \A p \in Queues : dev'[p] # NoDev => dev'[p] \in list'
  BY <1>1, <1>4, Zenon DEF DeviceInv
<1>6. \A p \in Queues : Freeing(p)' => p # q
  BY <1>1, Zenon
<1> QED
  BY <1>1, <1>3, <1>5, <1>6 DEF DeviceInv

-----------------------------------------------------------------------------
(* Everything of a queue is released once *)

(* No queue has anything at first, *)
LEMMA ConnStarts == ConnInit => ConnInv
<1> SUFFICES ASSUME ConnInit PROVE ConnInv
  BY Zenon
<1>1. <<>> \in Program
  BY DEF Program
<1>2. ConnTypes
  BY <1>1, Zenon DEF ConnInit, ConnTypes, Cm, CmError
<1>3. \A q \in Queues : Phase(q)
  BY Zenon DEF ConnInit, Phase, Bare
<1>4. \A q \in Queues : ~Freeing(q) /\ dev[q] = NoDev
  BY WhoFrees, Zenon DEF ConnInit, Freeing
<1>5. \A d \in Dev : Holders(d) = {}
  BY <1>4, ConnAssumption, Zenon DEF Holders
<1>6. \A d \in Dev : refs[d] = Cardinality(Holders(d))
  BY <1>5, FS_EmptySet, Zenon DEF ConnInit
<1>7. refs \in [Dev -> Nat] /\ list \subseteq Dev /\ fault = FALSE
  BY Zenon DEF ConnInit
<1> QED
  BY <1>2, <1>3, <1>4, <1>6, <1>7, Zenon DEF ConnInv, DeviceInv

(* every step of a queue keeps the invariant, *)
LEMMA ConnKept ==
    ASSUME ConnInv, NEW q \in Queues, QueueStep(q)
    PROVE  ConnInv'
<1>1. ConnTypes /\ DeviceInv /\ Phase(q) /\ fault = FALSE /\ list \subseteq Dev
  BY Zenon DEF ConnInv, DeviceInv
<1>2. ConnTypes' /\ \A p \in Queues \ {q} : Same(p)
  BY <1>1, OwnSteps, Zenon
<1>3. ASSUME NEW p \in Queues \ {q} PROVE Phase(p)'
  <2>1. Same(p) /\ Phase(p)
    BY <1>2, Zenon DEF ConnInv
  <2> QED
    BY <2>1, Zenon DEF Same, Phase, Connecting, Handling, Bare, Half, Full
<1>4. Phase(q)' /\ fault' = FALSE /\ DeviceInv'
  <2>1. CASE FindGetDevice(q)
    BY <1>1, <1>2, <2>1, FindGetDeviceStep, DeviceQuiet, DeviceTakes, Zenon
  <2>2. CASE CreateQueueIb(q)
    BY <1>1, <1>2, <2>2, CreateQueueIbStep, DeviceQuiet, Zenon
  <2>3. CASE CmEvent(q)
    BY <1>1, <1>2, <2>3, CmEventStep, DeviceQuiet, Zenon
  <2>4. CASE NextStage(q)
    BY <1>1, <1>2, <2>4, NextStageStep, DeviceQuiet, Zenon
  <2>5. CASE ConnEstablished(q)
    BY <1>1, <1>2, <2>5, ConnEstablishedStep, DeviceQuiet, Zenon
  <2>6. CASE CmFailed(q)
    BY <1>1, <1>2, <2>6, CmFailedStep, DeviceQuiet, Zenon
  <2>7. CASE AllocQueue(q)
    BY <1>1, <1>2, <2>7, AllocQueueStep, DeviceQuiet, Zenon
  <2>8. CASE ResolveAddr(q)
    BY <1>1, <1>2, <2>8, ResolveAddrStep, DeviceQuiet, Zenon
  <2>9. CASE WaitForCm(q)
    BY <1>1, <1>2, <2>9, WaitForCmStep, DeviceQuiet, Zenon
  <2>10. CASE DestroyId(q)
    BY <1>1, <1>2, <2>10, DestroyIdStep, DeviceQuiet, Zenon
  <2>11. CASE FreeQueue(q)
    BY <1>1, <1>2, <2>11, FreeQueueStep, DeviceQuiet, Zenon
  <2>12. ASSUME NEW t \in Thread, DevPut(q, t) PROVE Phase(q)' /\ fault' = FALSE /\ DeviceInv'
    <3>1. Phase(q)' /\ fault' = FALSE /\ Drops(q, dev[q])
      BY <1>1, <2>12, DevPutStep, Held1, Zenon
    <3>2. dev[q] \in Dev
      BY <3>1, Zenon DEF Drops
    <3> QED
      BY <1>1, <1>2, <3>1, <3>2, DeviceDrops, Zenon
  <2>13. ASSUME NEW t \in Thread, FreeDev(q, t) PROVE Phase(q)' /\ fault' = FALSE /\ DeviceInv'
    <3>1. Freeing(q) => refs[dev[q]] = 0
      BY <1>1, Zenon DEF DeviceInv
    <3>2. Phase(q)' /\ fault' = FALSE /\ Forgets(q, dev[q])
      BY <1>1, <2>13, <3>1, FreeDevStep, Zenon
    <3>3. dev[q] \in Dev
      BY <3>2, Zenon DEF Forgets
    <3> QED
      BY <1>1, <1>2, <3>2, <3>3, DeviceForgets, Zenon
  <2>14. ASSUME NEW t \in Thread, DestroyQueueIb(q, t)
         PROVE  Phase(q)' /\ fault' = FALSE /\ DeviceInv'
    BY <1>1, <1>2, <2>14, DestroyQueueIbStep, DeviceQuiet, Zenon
  <2> QED
    BY <2>1, <2>2, <2>3, <2>4, <2>5, <2>6, <2>7, <2>8, <2>9, <2>10, <2>11, <2>12, <2>13, <2>14,
       Zenon
       DEF QueueStep
<1> QED
  BY <1>2, <1>3, <1>4, Zenon DEF ConnInv

(* as does none, *)
LEMMA ConnStutters == ConnInv /\ UNCHANGED connVars => ConnInv'
<1> SUFFICES ASSUME ConnInv, UNCHANGED connVars PROVE ConnInv'
  BY Zenon
<1>1. UNCHANGED <<caller, handler, cm, cm_error, done, id, ready, allocated, ib, dev, refs, list,
                  fault>>
  BY Zenon DEF connVars, conn, device
<1>2. ConnTypes'
  BY <1>1, Zenon DEF ConnInv, ConnTypes
<1>3. ASSUME NEW q \in Queues PROVE Phase(q)'
  <2>1. Same(q) /\ Phase(q)
    BY <1>1, Zenon DEF Same, ConnInv
  <2> QED
    BY <2>1, Zenon DEF Same, Phase, Connecting, Handling, Bare, Half, Full
<1>4. \A q \in Queues : Freeing(q)' <=> Freeing(q)
  BY <1>1, Zenon DEF Freeing
<1>5. \A d \in Dev : Holders(d)' = Holders(d)
  BY <1>1, <1>4, Zenon DEF Holders
<1>6. DeviceInv'
  BY <1>1, <1>4, <1>5, Zenon DEF ConnInv, DeviceInv
<1> QED
  BY <1>1, <1>2, <1>3, <1>6, Zenon DEF ConnInv

(* and it says that all is released once. *)
LEMMA ConnMeans == ConnInv => ReleasedOnce
<1> SUFFICES ASSUME ConnInv PROVE ReleasedOnce
  BY Zenon
<1>1. ASSUME NEW q \in Queues, caller[q] = <<>>, handler[q] = <<>>
      PROVE  /\ ib[q] = allocated[q] /\ id[q] = allocated[q]
             /\ (dev[q] # NoDev) = allocated[q]
  <2>1. \/ ~allocated[q] /\ ~id[q] /\ Bare(q)
        \/ allocated[q] /\ id[q] /\ Full(q)
    BY <1>1, Programs, Zenon DEF ConnInv, Phase
  <2>2. /\ ib[q] \in BOOLEAN /\ id[q] \in BOOLEAN /\ allocated[q] \in BOOLEAN
    BY Zenon DEF ConnInv, ConnTypes
  <2>3. (ib[q] <=> allocated[q]) /\ (id[q] <=> allocated[q]) /\ ((dev[q] # NoDev) <=> allocated[q])
    BY <2>1, ConnAssumption, Zenon DEF Bare, Full
  <2> QED
    BY <2>2, <2>3, Zenon
<1>2. ASSUME NEW d \in Dev, refs[d] > 0 PROVE d \in list /\ \E q \in Queues : dev[q] = d
  <2>1. Holders(d) # {}
    BY <1>2, HoldersCount DEF ConnInv, DeviceInv
  <2>2. PICK q \in Queues : dev[q] = d
    BY <2>1, Zenon DEF Holders
  <2> QED
    BY <2>2, ConnAssumption, Zenon DEF ConnInv, DeviceInv
<1> QED
  BY <1>1, <1>2, Zenon DEF ConnInv, ReleasedOnce

(* Whenever nvme_rdma_alloc_queue gives up and whatever the connection     *)
(* manager's handler is doing then, a queue pair, a cm_id and a device are *)
(* released once, after their last use, and none stays behind: for any     *)
(* number of queues, devices and attempts.                                 *)
THEOREM ReleasedCorrect == ConnSpec => []ReleasedOnce
<1>1. ConnInv /\ [ConnNext]_connVars => ConnInv'
  BY ConnKept, ConnStutters, Zenon DEF ConnNext, QueueStep
<1> QED
  BY ConnStarts, <1>1, ConnMeans, PTL DEF ConnSpec
=============================================================================
