------------------------- MODULE NvmeTcpQueueProofs -------------------------
(***************************************************************************)
(* Theorems about NvmeTcpQueue, for every set of requests and every value  *)
(* of the aggregation, caravan and socket limits.                          *)
(***************************************************************************)
EXTENDS NvmeTcpQueue, FiniteSetTheorems, SequenceTheorems, TLAPS

USE DEF IO, NULL, Ctx

(* A request has between 0 and MaxPages data pages in either phase. *)
LEMMA PagesType ==
    ASSUME NEW e \in Entry, kind \in [Req -> Kinds]
    PROVE  PagesOf(e) \in 0 .. MaxPages
BY QueueAssumption DEF PagesOf, Entry, KindSet

(* The pieces of an entry are a non-empty sequence of pieces. *)
LEMMA PiecesType ==
    ASSUME NEW e \in Entry, kind \in [Req -> Kinds]
    PROVE  Pieces(e) \in Seq(Piece) /\ Pieces(e) # <<>>
<1> DEFINE n == PagesOf(e)
           hd == <<<<e[1], e[2], 0>>>>
           body == [i \in 1 .. n |-> <<e[1], "data", i>>]
           tl == IF DataDigest /\ n > 0 THEN <<<<e[1], "ddgst", 0>>>> ELSE <<>>
<1>1. n \in 0 .. MaxPages /\ MaxPages \in Nat
  BY PagesType, QueueAssumption, Zenon
<1>2. hd \in Seq(Piece) /\ Len(hd) = 1
  BY <1>1 DEF Entry, Piece, Parts
<1>3. body \in Seq(Piece)
  BY <1>1 DEF Entry, Piece, Parts
<1>4. tl \in Seq(Piece)
  <2>1. <<e[1], "ddgst", 0>> \in Piece
    BY <1>1 DEF Entry, Piece, Parts
  <2> QED
    BY <2>1
<1>5. Pieces(e) = hd \o body \o tl
  BY Zenon DEF Pieces
<1> HIDE DEF hd, body, tl, n
<1>6. hd \o body \in Seq(Piece) /\ Len(hd \o body) = 1 + Len(body)
  BY <1>2, <1>3, ConcatProperties
<1>7. hd \o body \o tl \in Seq(Piece) /\ Len(hd \o body \o tl) = 1 + Len(body) + Len(tl)
  BY <1>6, <1>4, ConcatProperties, Zenon
<1> QED
  BY <1>7, <1>5, <1>3, <1>4

(* The first of them is the command or H2C data PDU. *)
LEMMA PiecesHead ==
    ASSUME NEW e \in Entry, kind \in [Req -> Kinds]
    PROVE  Pieces(e) # <<>> /\ Head(Pieces(e)) = <<e[1], e[2], 0>>
<1> DEFINE body == [i \in 1 .. PagesOf(e) |-> <<e[1], "data", i>>]
           tl == IF DataDigest /\ PagesOf(e) > 0 THEN <<<<e[1], "ddgst", 0>>>> ELSE <<>>
           hd == <<e[1], e[2], 0>>
<1>1. PagesOf(e) \in 0 .. MaxPages /\ MaxPages \in Nat
  BY PagesType, QueueAssumption, Zenon
<1>2. hd \in Piece /\ <<e[1], "ddgst", 0>> \in Piece
  BY <1>1 DEF Entry, Piece, Parts
<1>a. body \in Seq(Piece)
  BY <1>1 DEF Entry, Piece, Parts
<1>3. tl \in Seq(Piece)
  BY <1>2
<1>4. Pieces(e) = <<hd>> \o body \o tl
  BY Zenon DEF Pieces
<1> HIDE DEF body, tl, hd
<1>5. <<hd>> \o body \in Seq(Piece) /\ Len(<<hd>> \o body) > 0 /\ (<<hd>> \o body)[1] = hd
  BY <1>2, <1>a
<1>6. Len(<<hd>> \o body \o tl) > 0 /\ (<<hd>> \o body \o tl)[1] = hd
  BY <1>3, <1>5
<1> QED
  BY <1>4, <1>5, <1>3, <1>6 DEF hd

-----------------------------------------------------------------------------
(* Counting the delayed requests of a list. *)

(* The positions of the delayed requests form a finite set. *)
LEMMA CountType ==
    ASSUME NEW s \in Seq(Entry)
    PROVE  IsFiniteSet(DelayedAt(s)) /\ DelayedIn(s) \in Nat
<1>1. IsFiniteSet(1 .. Len(s)) /\ DOMAIN s = 1 .. Len(s)
  BY FS_Interval
<1>2. DelayedAt(s) \in SUBSET (1 .. Len(s))
  BY <1>1, Zenon DEF DelayedAt
<1> QED
  BY <1>1, <1>2, FS_Subset, FS_CardinalityType, Zenon DEF DelayedIn

(* The empty list counts nothing. *)
LEMMA CountEmpty == DelayedIn(<<>>) = 0
<1>1. DelayedAt(<<>>) = {}
  BY DEF DelayedAt
<1> QED
  BY <1>1, FS_EmptySet, Zenon DEF DelayedIn

(* list_add_tail of a delayed request adds one. *)
LEMMA CountAppend ==
    ASSUME NEW s \in Seq(Entry), NEW e \in Entry
    PROVE  DelayedIn(Append(s, e)) =
              DelayedIn(s) + IF Delayed(e[1]) THEN 1 ELSE 0
<1> DEFINE n == Len(s) + 1
<1>1. /\ n \in Nat /\ DOMAIN s = 1 .. Len(s) /\ DOMAIN Append(s, e) = 1 .. n
      /\ Append(s, e)[n] = e /\ \A i \in 1 .. Len(s) : Append(s, e)[i] = s[i]
  OBVIOUS
<1>2. IsFiniteSet(DelayedAt(s)) /\ n \notin DelayedAt(s) /\ DelayedIn(s) \in Nat
  <2>1. n \notin 1 .. Len(s)
    BY <1>1
  <2> QED
    BY <2>1, <1>1, CountType, Zenon DEF DelayedAt
<1>3. CASE Delayed(e[1])
  <2>1. DelayedAt(Append(s, e)) = DelayedAt(s) \cup {n}
    BY <1>1, <1>3 DEF DelayedAt
  <2> QED
    BY <2>1, <1>2, <1>3, FS_AddElement, Zenon DEF DelayedIn
<1>4. CASE ~Delayed(e[1])
  <2>1. DelayedAt(Append(s, e)) = DelayedAt(s)
    BY <1>1, <1>4 DEF DelayedAt
  <2> QED
    BY <2>1, <1>2, <1>4 DEF DelayedIn
<1> QED
  BY <1>3, <1>4, Zenon

(* list_del of the first request subtracts one if it is delayed. *)
LEMMA CountTail ==
    ASSUME NEW s \in Seq(Entry), s # <<>>
    PROVE  DelayedIn(s) =
              DelayedIn(Tail(s)) + IF Delayed(Head(s)[1]) THEN 1 ELSE 0
<1> DEFINE U == {i \in 2 .. Len(s) : Delayed(s[i][1])}
           T == DelayedAt(Tail(s))
           f == [i \in T |-> i + 1]
<1>1. /\ DOMAIN s = 1 .. Len(s) /\ Len(s) \in Nat \ {0} /\ Head(s) = s[1]
      /\ Tail(s) \in Seq(Entry) /\ DOMAIN Tail(s) = 1 .. Len(s) - 1
  OBVIOUS
<1>2. \A i \in 1 .. Len(s) - 1 : Tail(s)[i] = s[i + 1]
  BY <1>1, HeadTailProperties, Zenon
<1>3. IsFiniteSet(T) /\ DelayedIn(Tail(s)) \in Nat
  BY <1>1, CountType, Zenon
<1>4. T = {i \in 1 .. Len(s) - 1 : Delayed(s[i + 1][1])}
  BY <1>1, <1>2, Zenon DEF DelayedAt
<1>5. f \in [T -> U] /\ \A i, j \in T : f[i] = f[j] => i = j
  BY <1>1, <1>4
<1>6. ASSUME NEW u \in U PROVE \E i \in T : f[i] = u
  <2>1. u - 1 \in 1 .. Len(s) - 1 /\ (u - 1) + 1 = u
    BY <1>1
  <2>2. u - 1 \in T
    BY <2>1, <1>4, Zenon
  <2> QED
    BY <2>1, <2>2, Zenon
<1> HIDE DEF f, T, U
<1>7. ExistsBijection(T, U)
  BY <1>5, <1>6, Zenon
     DEF ExistsBijection, Bijection, Injection, Surjection, IsInjective
<1>8. IsFiniteSet(U) /\ Cardinality(U) = Cardinality(T) /\ 1 \notin U
  BY <1>7, <1>3, FS_Bijection DEF U
<1>9. CASE Delayed(s[1][1])
  <2>1. DelayedAt(s) = U \cup {1}
    BY <1>1, <1>9 DEF U, DelayedAt
  <2> QED
    BY <2>1, <1>1, <1>3, <1>8, <1>9, FS_AddElement, Zenon DEF DelayedIn, T
<1>10. CASE ~Delayed(s[1][1])
  <2>1. DelayedAt(s) = U
    BY <1>1, <1>10 DEF U, DelayedAt
  <2> QED
    BY <2>1, <1>1, <1>3, <1>8, <1>10 DEF DelayedIn, T
<1> QED
  BY <1>9, <1>10, Zenon

-----------------------------------------------------------------------------
(* Types.  The part of a piece the socket already took is less than the    *)
(* piece, and only a piece sent by itself can be partly sent.              *)

PartInv == sent_part > 0 => /\ todo # <<>> /\ Direct(Head(todo))
                            /\ sent_part < LenOf(Head(todo))

TypeInv == TypeOK /\ PartInv

(* The initial state is well typed. *)
LEMMA TypeInit == Init => TypeInv
<1> SUFFICES ASSUME Init PROVE TypeInv
  BY Zenon
<1>1. pc \in [Ctx -> {"enter", "return"}] /\ pc[IO] = "return"
  BY Zenon DEF Init
<1>2. replies \in [Req -> Nat] /\ wmem \in 0 .. SndBuf
  BY QueueAssumption DEF Init
<1>3. /\ <<>> \in Seq(Entry) /\ <<>> \in Seq(Piece)
      /\ <<>> \in Seq(Req \X {"r2t", "rsp"})
  OBVIOUS
<1>4. TypeOK
  BY <1>1, <1>2, <1>3, Zenon DEF Init, TypeOK
<1>5. PartInv
  BY DEF Init, PartInv
<1> QED
  BY <1>4, <1>5, Zenon DEF TypeInv

(* Every step of nvme_tcp_queue_request, the timer, io_work and the socket *)
(* preserves the types.                                                    *)
LEMMA TypeNext == TypeInv /\ ReqAccounting /\ [Next]_vars => TypeInv'
<1> SUFFICES ASSUME TypeInv, ReqAccounting, [Next]_vars PROVE TypeInv'
  BY Zenon
<1> USE QueueAssumption DEF TypeInv, TypeOK, PartInv
<1>1. ASSUME NEW c \in Ctx, Enqueue(c) PROVE TypeInv'
  <2>1. EntryOf(c) \in Entry
    BY <1>1, Zenon DEF Enqueue, At, EntryOf, Entry
  <2>2. Append(send_list, EntryOf(c)) \in Seq(Entry)
    BY <2>1
  <2>3. log \o Pieces(EntryOf(c)) \in Seq(Piece)
    BY <2>1, PiecesType, ConcatProperties, Zenon
  <2>4. pc' \in [Ctx -> {"enter", "start_timer", "aggregate", "check_timer",
                         "cancel_timer", "clear_set", "ring", "return"}]
        /\ (pc'[IO] # "return" => r2t' \in Req)
    BY <1>1 DEF Enqueue, At, Goto
  <2>5. nr_req' \in Nat /\ timer' \in {timer, "armed"} /\ timer_cpu' \in {"io", "other"}
    BY <1>1 DEF Enqueue
  <2>6. TypeOK'
    BY <1>1, <2>2, <2>3, <2>4, <2>5, SMTT(60), Zenon
    DEF Enqueue, packVars, sockVars, peerVars, LenOf, Direct
  <2>7. PartInv'
    BY <1>1, <2>2, <2>3, <2>4, <2>5, Zenon
    DEF Enqueue, packVars, sockVars, peerVars, LenOf, Direct
  <2> QED
    BY <2>6, <2>7, Zenon
<1>2. ASSUME NEW c \in Ctx, CountTimer(c) PROVE TypeInv'
  BY <1>2
  DEF CountTimer, At, Goto, bellVars, packVars, sockVars, peerVars, LenOf, Direct
<1>3. ASSUME NEW c \in Ctx, CheckAggregate(c) PROVE TypeInv'
  BY <1>3
  DEF CheckAggregate, At, Goto, bellVars, packVars, sockVars, peerVars, LenOf, Direct
<1>4. ASSUME NEW c \in Ctx, CheckTimer(c) PROVE TypeInv'
  BY <1>4
  DEF CheckTimer, At, Goto, bellVars, packVars, sockVars, peerVars, LenOf, Direct
<1>5. ASSUME NEW c \in Ctx, CancelTimer(c) PROVE TypeInv'
  BY <1>5
  DEF CancelTimer, At, Goto, bellVars, packVars, sockVars, peerVars, LenOf, Direct
<1>6. ASSUME NEW c \in Ctx, ClearTimerSet(c) PROVE TypeInv'
  BY <1>6
  DEF ClearTimerSet, At, Goto, bellVars, packVars, sockVars, peerVars, LenOf, Direct
<1>7. ASSUME NEW c \in Ctx, RingDoorbell(c) PROVE TypeInv'
  BY <1>7
  DEF RingDoorbell, At, Goto, bellVars, packVars, sockVars, peerVars, LenOf, Direct
<1>8. CASE TimerFires
  BY <1>8
  DEF TimerFires, envVars, submitVars, packVars, sockVars, peerVars, LenOf, Direct
<1>9. CASE CallbackClearsSet
  BY <1>9
  DEF CallbackClearsSet, envVars, submitVars, packVars, sockVars, peerVars, LenOf, Direct
<1>10. CASE CallbackRings
  BY <1>10
  DEF CallbackRings, envVars, submitVars, packVars, sockVars, peerVars, LenOf, Direct
<1>11. CASE CallbackReturns
  BY <1>11
  DEF CallbackReturns, envVars, submitVars, packVars, sockVars, peerVars, LenOf, Direct
<1>12. CASE StartWork
  BY <1>12, ZenonT(40)
  DEF StartWork, IoAt, submitVars, bellVars, packVars, sockVars, peerVars, LenOf, Direct
<1>13. CASE KeepRequest
  BY <1>13
  DEF KeepRequest, IoAt, submitVars, bellVars, packVars, sockVars, peerVars, LenOf, Direct
<1>14. CASE FetchRequest
  <2>1. Head(send_list) \in Entry /\ Tail(send_list) \in Seq(Entry)
    BY <1>14 DEF FetchRequest
  <2>2. Pieces(Head(send_list)) \in Seq(Piece) /\ Pieces(Head(send_list)) # <<>>
    BY <2>1, PiecesType, Zenon
  <2>3. sent_part = 0
    BY <1>14 DEF FetchRequest
  <2> QED
    BY <1>14, <2>1, <2>2, <2>3
    DEF FetchRequest, bellVars, sockVars, peerVars
<1>15. CASE CloseCaravan
  <2>1. nr_req - nr_caravan_req \in Nat
    BY CountType DEF ReqAccounting
  <2> QED
    BY <1>15, <2>1
    DEF CloseCaravan, sockVars, peerVars, LenOf, Direct
<1>16. CASE FetchNothing
  BY <1>16
  DEF FetchNothing, IoAt, submitVars, bellVars, packVars, sockVars, peerVars, LenOf, Direct
<1>17. CASE SendCaravan
  <2>1. PICK n \in (IF ShortSends THEN 1 .. Len(caravan) ELSE {Len(caravan)}) :
           /\ wire' = wire \o SubSeq(caravan, 1, n)
           /\ wmem' = IF n = Len(caravan) THEN wmem + caravan_len ELSE SndBuf
    BY <1>17, Zenon DEF SendCaravan
  <2>2. n \in 0 .. Len(caravan)
    OBVIOUS
  <2>3. SubSeq(caravan, 1, n) \in Seq(Piece)
    BY <2>2, SubSeqProperties
  <2>4. wire' \in Seq(Piece)
    BY <2>1, <2>3, ConcatProperties, Zenon
  <2>5. wmem' \in 0 .. SndBuf
    BY <1>17, <2>1 DEF SendCaravan
  <2>6. caravan' = <<>> /\ nr_mapped' = 0 /\ caravan_len' = 0 /\ send_now' = FALSE
    BY <1>17, Zenon DEF SendCaravan
  <2>7. io' \in {"recv", "pack"} /\ (io' = "pack" => todo # <<>>)
    BY <1>17, Zenon DEF SendCaravan
  <2>8. UNCHANGED <<submitVars, bellVars, pending, todo, nr_caravan_req, sent_part,
                    nospace, error, peerVars, failed>>
    BY <1>17, Zenon DEF SendCaravan
  <2>9. TypeOK'
    <3>1. /\ caravan' \in Seq(Piece) /\ nr_mapped' \in Nat /\ caravan_len' \in Nat
      BY <2>6
    <3>2. send_now' \in BOOLEAN
      BY <2>6, Zenon
    <3> QED
      BY <2>4, <2>5, <2>7, <2>8, <3>1, <3>2, SMTT(60), Zenon DEF submitVars, bellVars, peerVars
  <2>10. PartInv'
    BY <2>8, Zenon DEF submitVars, LenOf, Direct
  <2> QED
    BY <2>9, <2>10, Zenon
<1>18. CASE CaravanFails
  <2>1. PICK e \in SendError : SendFails(e)
    BY <1>18, Zenon DEF CaravanFails
  <2>2. e \in SendErrors \cup {"none"}
    BY <2>1, Zenon DEF SendError
  <2>3. request \in Req \cup {NULL}
    BY DEF request, Piece
  <2> QED
    BY <2>1, <2>2, <2>3
    DEF SendFails, submitVars, bellVars, peerVars
<1>19. CASE NoRoom
  BY <1>19
  DEF NoRoom, IoAt, submitVars, bellVars, packVars, sockVars, peerVars, LenOf, Direct
<1>20. CASE SetNoSpace
  BY <1>20
  DEF SetNoSpace, IoAt, submitVars, bellVars, packVars, sockVars, peerVars, LenOf, Direct
<1>21. CASE PackPiece
  <2>1. Head(todo) \in Piece /\ Tail(todo) \in Seq(Piece)
    BY <1>21 DEF PackPiece, IoAt
  <2>2. Append(caravan, Head(todo)) \in Seq(Piece) /\ LenOf(Head(todo)) \in Nat
    BY <2>1 DEF LenOf
  <2>3. sent_part = 0
    BY <1>21 DEF PackPiece
  <2>4. send_now' \in BOOLEAN
    BY <1>21, Zenon DEF PackPiece
  <2>7. /\ todo' \in Seq(Piece) /\ io' \in {"recv", "pack"}
        /\ (io' = "pack" => todo' # <<>>) /\ pending' \in BOOLEAN
    BY <1>21, <2>1, Zenon DEF PackPiece, PieceDone
  <2>8. /\ caravan' \in Seq(Piece) /\ nr_mapped' \in Nat /\ caravan_len' \in Nat
        /\ UNCHANGED <<submitVars, bellVars, nr_caravan_req, sockVars, peerVars, failed>>
    BY <1>21, <2>2, SMTT(30) DEF PackPiece
  <2>5. TypeOK'
    BY <2>4, <2>7, <2>8, SMTT(60), Zenon
    DEF submitVars, bellVars, sockVars, peerVars
  <2>6. PartInv'
    BY <1>21, <2>1, <2>2, <2>3, <2>4, Zenon
    DEF PackPiece, PieceDone, submitVars, bellVars, sockVars, peerVars
  <2> QED
    BY <2>5, <2>6, Zenon
<1>22. CASE PackFull
  BY <1>22
  DEF PackFull, IoAt, submitVars, bellVars, packVars, sockVars, peerVars, LenOf, Direct
<1>23. CASE SendPiece
  <2>1. Head(todo) \in Piece /\ Tail(todo) \in Seq(Piece)
    BY <1>23 DEF SendPiece, IoAt
  <2>2. Append(wire, Head(todo)) \in Seq(Piece)
    BY <2>1
  <2>3. LenOf(Head(todo)) - sent_part \in Nat
    BY DEF LenOf
  <2>4. wmem' \in 0 .. SndBuf
    BY <1>23, <2>3 DEF SendPiece
  <2>a. io' \in {"recv", "pack"} /\ (io' = "pack" => todo' # <<>>) /\ pending' \in BOOLEAN
    BY <1>23, Zenon DEF SendPiece, PieceDone
  <2>b. todo' \in Seq(Piece) /\ wire' \in Seq(Piece) /\ sent_part' \in Nat
    BY <1>23, <2>1, <2>2, Zenon DEF SendPiece, PieceDone
  <2>c. UNCHANGED <<submitVars, bellVars, caravan, nr_mapped, caravan_len, send_now,
                    nr_caravan_req, nospace, error, peerVars, failed>>
    BY <1>23, Zenon DEF SendPiece
  <2>5. TypeOK'
    BY <2>4, <2>a, <2>b, <2>c
    DEF submitVars, bellVars, peerVars
  <2>6. PartInv'
    BY <1>23, <2>1, <2>2, <2>4
    DEF SendPiece, PieceDone, submitVars, bellVars, peerVars
  <2> QED
    BY <2>5, <2>6, Zenon
<1>24. CASE SendPart
  BY <1>24
  DEF SendPart, IoAt, submitVars, bellVars, packVars, sockVars, peerVars, LenOf, Direct
<1>25. CASE PieceFails
  <2>1. PICK e \in SendError : SendFails(e)
    BY <1>25, Zenon DEF PieceFails
  <2>2. e \in SendErrors \cup {"none"}
    BY <2>1, Zenon DEF SendError
  <2>3. request \in Req \cup {NULL}
    BY DEF request, Piece
  <2> QED
    BY <2>1, <2>2, <2>3
    DEF SendFails, submitVars, bellVars, peerVars
<1>26. CASE RecvResponse
  BY <1>26, SMTT(60), Zenon
  DEF RecvResponse, IoAt, submitVars, bellVars, packVars, sockVars, peerVars, LenOf, Direct
<1>27. CASE RecvR2T
  <2>1. Head(rx)[1] \in Req /\ Tail(rx) \in Seq(Req \X {"r2t", "rsp"})
    BY <1>27, SMTT(30) DEF RecvR2T
  <2>2. r2t' \in Req /\ rx' \in Seq(Req \X {"r2t", "rsp"}) /\ pending' \in BOOLEAN
        /\ pc' = [pc EXCEPT ![IO] = "enter"]
    BY <1>27, <2>1, Zenon DEF RecvR2T, Goto
  <2>3. UNCHANGED <<kind, send_list, nr_req, log, bellVars, io, packVars, sockVars,
                    replies, completed, failed>>
    BY <1>27, Zenon DEF RecvR2T
  <2> QED
    BY <2>2, <2>3
    DEF bellVars, packVars, sockVars, LenOf, Direct
<1>28. CASE EndRound
  <2>1. io' \in {"idle", "fetch"} /\ work' \in BOOLEAN /\ pending' \in BOOLEAN
    BY <1>28, Zenon DEF EndRound
  <2> QED
    BY <1>28, <2>1
    DEF EndRound, submitVars, packVars, sockVars, peerVars, LenOf, Direct
<1>29. CASE Ack
  <2>1. wmem' \in 0 .. SndBuf /\ nospace' \in BOOLEAN /\ work' \in BOOLEAN
    BY <1>29 DEF Ack
  <2>2. UNCHANGED <<submitVars, timer_set, timer, timer_cpu, io, pending, packVars, sent_part,
                    error, wire, peerVars, failed>>
    BY <1>29, Zenon DEF Ack
  <2> QED
    BY <2>1, <2>2
    DEF submitVars, packVars, peerVars, LenOf, Direct
<1>30. ASSUME NEW r \in Req, Reply(r) PROVE TypeInv'
  <2>1. work' \in BOOLEAN /\ replies' \in [Req -> Nat] /\ rx' \in Seq(Req \X {"r2t", "rsp"})
    BY <1>30 DEF Reply
  <2>2. UNCHANGED <<submitVars, timer_set, timer, timer_cpu, io, pending, packVars, sockVars,
                    completed, failed>>
    BY <1>30, Zenon DEF Reply
  <2> QED
    BY <2>1, <2>2
    DEF submitVars, packVars, sockVars, LenOf, Direct
<1>31. CASE UNCHANGED vars
  BY <1>31
  DEF vars, submitVars, bellVars, packVars, sockVars, peerVars, LenOf, Direct
<1> QED
  BY <1>1, <1>2, <1>3, <1>4, <1>5, <1>6, <1>7, <1>8, <1>9, <1>10, <1>11,
     <1>12, <1>13, <1>14, <1>15, <1>16, <1>17, <1>18, <1>19, <1>20, <1>21,
     <1>22, <1>23, <1>24, <1>25, <1>26, <1>27, <1>28, <1>29, <1>30, <1>31, Zenon
  DEF Next, QueueRequest, Timer, IoWork, TrySend

-----------------------------------------------------------------------------
(* nr_req and the requests it counts *)

(* kind never changes, so the count of a list is a function of the list. *)
LEMMA CountPrime ==
    ASSUME kind' = kind
    PROVE  DelayedIn(send_list)' = DelayedIn(send_list')
<1>1. DelayedAt(send_list)' = DelayedAt(send_list')
  BY Zenon DEF DelayedAt, Delayed
<1> QED
  BY <1>1, Zenon DEF DelayedIn

(* What a request is never changes. *)
LEMMA KindFixed == [Next]_vars => kind' = kind
  BY Zenon DEF Next, vars, QueueRequest, Timer, IoWork, TrySend, submitVars, envVars,
         Enqueue, CountTimer, CheckAggregate, CheckTimer, CancelTimer, ClearTimerSet,
         RingDoorbell, TimerFires, CallbackClearsSet, CallbackRings, CallbackReturns,
         StartWork, KeepRequest, FetchRequest, CloseCaravan, FetchNothing, SendCaravan,
         CaravanFails, NoRoom, SetNoSpace, PackPiece, PackFull, SendPiece, SendPart,
         PieceFails, SendFails, RecvResponse, RecvR2T, EndRound, Ack, Reply

(* Only nvme_tcp_queue_request and the two ends of the fetch touch what    *)
(* the accounting is about.                                                *)
LEMMA OtherSteps ==
    [Next]_vars => \/ UNCHANGED <<send_list, nr_req, nr_caravan_req>>
                   \/ \E c \in Ctx : Enqueue(c)
                   \/ FetchRequest
                   \/ CloseCaravan
  BY Zenon DEF Next, vars, QueueRequest, Timer, IoWork, TrySend, submitVars, envVars, packVars,
         CountTimer, CheckAggregate, CheckTimer, CancelTimer, ClearTimerSet,
         RingDoorbell, TimerFires, CallbackClearsSet, CallbackRings, CallbackReturns,
         StartWork, KeepRequest, FetchNothing, SendCaravan,
         CaravanFails, NoRoom, SetNoSpace, PackPiece, PackFull, SendPiece, SendPart,
         PieceFails, SendFails, RecvResponse, RecvR2T, EndRound, Ack, Reply

(* The accounting is kept by every step. *)
LEMMA AccountingNext == TypeInv /\ ReqAccounting /\ [Next]_vars => ReqAccounting'
<1> SUFFICES ASSUME TypeInv, ReqAccounting, [Next]_vars PROVE ReqAccounting'
  BY Zenon
<1> USE QueueAssumption
<1>1. DelayedIn(send_list)' = DelayedIn(send_list')
  BY KindFixed, CountPrime, Zenon
<1>2. /\ send_list \in Seq(Entry) /\ nr_req \in Nat /\ nr_caravan_req \in Nat
      /\ DelayedIn(send_list) \in Nat
  BY CountType, Zenon DEF TypeInv, TypeOK
<1>3. CASE UNCHANGED <<send_list, nr_req, nr_caravan_req>>
  BY <1>1, <1>3, Zenon DEF ReqAccounting
<1>4. ASSUME NEW c \in Ctx, Enqueue(c) PROVE ReqAccounting'
  <2>1. EntryOf(c) \in Entry
    BY <1>4, Zenon DEF TypeInv, TypeOK, Enqueue, At, EntryOf, Entry
  <2>2. send_list' = Append(send_list, EntryOf(c)) /\ nr_caravan_req' = nr_caravan_req
    BY <1>4, Zenon DEF Enqueue, packVars
  <2>3. nr_req' = nr_req + IF Delayed(EntryOf(c)[1]) THEN 1 ELSE 0
    BY <1>4, <1>2 DEF Enqueue
  <2>4. DelayedIn(send_list') = DelayedIn(send_list)
                                  + IF Delayed(EntryOf(c)[1]) THEN 1 ELSE 0
    BY <1>2, <2>1, <2>2, CountAppend, Zenon
  <2> QED
    BY <1>1, <1>2, <2>2, <2>3, <2>4 DEF ReqAccounting
<1>5. CASE FetchRequest
  <2>1. send_list # <<>> /\ send_list' = Tail(send_list) /\ nr_req' = nr_req
    BY <1>5, Zenon DEF FetchRequest
  <2>2. nr_caravan_req' = nr_caravan_req + IF Delayed(Head(send_list)[1]) THEN 1 ELSE 0
    BY <1>5, <1>2 DEF FetchRequest, DelayedAtFetch
  <2>3. DelayedIn(send_list) = DelayedIn(Tail(send_list))
                                 + IF Delayed(Head(send_list)[1]) THEN 1 ELSE 0
    BY <1>2, <2>1, CountTail, Zenon
  <2>4. DelayedIn(Tail(send_list)) \in Nat
    <3>1. Tail(send_list) \in Seq(Entry)
      BY <1>2, <2>1
    <3> QED
      BY <3>1, CountType, Zenon
  <2> QED
    BY <1>1, <1>2, <2>1, <2>2, <2>3, <2>4 DEF ReqAccounting
<1>6. CASE CloseCaravan
  <2>1. send_list' = <<>> /\ nr_req' = nr_req - nr_caravan_req /\ nr_caravan_req' = 0
        /\ send_list = <<>>
    BY <1>6, Zenon DEF CloseCaravan
  <2> QED
    BY <1>1, <1>2, <2>1, CountEmpty DEF ReqAccounting
<1> QED
  BY <1>3, <1>4, <1>5, <1>6, OtherSteps, Zenon

-----------------------------------------------------------------------------
(* The inductive invariant: types and accounting need each other, because  *)
(* nr_req - nr_caravan_req is a natural number only by the accounting.     *)

IInv == TypeInv /\ ReqAccounting

(* The inductive invariant holds in every reachable state. *)
LEMMA Inductive == Spec => []IInv
<1>1. Init => IInv
  <2>1. Init => send_list = <<>> /\ nr_req = 0 /\ nr_caravan_req = 0
    BY Zenon DEF Init
  <2> QED
    BY <2>1, TypeInit, CountEmpty DEF IInv, ReqAccounting
<1>2. IInv /\ [Next]_vars => IInv'
  BY TypeNext, AccountingNext, Zenon DEF IInv
<1> QED
  BY <1>1, <1>2, PTL DEF Spec

(* The queue's state stays well typed, for any requests, sizes and errors. *)
THEOREM TypeCorrect == Spec => []TypeOK
<1>1. IInv => TypeOK
  BY Zenon DEF IInv, TypeInv
<1> QED
  BY <1>1, Inductive, PTL

(* nr_req always counts exactly the delayed requests that are queued or    *)
(* were fetched since the last accounting: no interleaving of submitters,  *)
(* timer and io_work makes it drift.                                       *)
THEOREM AccountingCorrect == Spec => []ReqAccounting
<1>1. IInv => ReqAccounting
  BY Zenon DEF IInv
<1> QED
  BY <1>1, Inductive, PTL

-----------------------------------------------------------------------------
(* The caravan's arrays *)

(* Only packing a piece and sending the caravan change it. *)
LEMMA CaravanSteps ==
    [Next]_vars => \/ UNCHANGED <<caravan, nr_mapped, caravan_len>>
                   \/ PackPiece
                   \/ SendCaravan
  BY Zenon DEF Next, vars, QueueRequest, Timer, IoWork, TrySend, submitVars, envVars, packVars,
         Enqueue, CountTimer, CheckAggregate, CheckTimer, CancelTimer, ClearTimerSet,
         RingDoorbell, TimerFires, CallbackClearsSet, CallbackRings, CallbackReturns,
         StartWork, KeepRequest, FetchRequest, CloseCaravan, FetchNothing,
         CaravanFails, NoRoom, SetNoSpace, PackFull, SendPiece, SendPart,
         PieceFails, SendFails, RecvResponse, RecvR2T, EndRound, Ack, Reply

(* Every append finds the caravan not full, so it stays within its bounds. *)
LEMMA CaravanNext == TypeInv /\ CaravanFits /\ [Next]_vars => CaravanFits'
<1> SUFFICES ASSUME TypeInv, CaravanFits, [Next]_vars PROVE CaravanFits'
  BY Zenon
<1> USE QueueAssumption
<1>1. CASE UNCHANGED <<caravan, nr_mapped, caravan_len>>
  BY <1>1, Zenon DEF CaravanFits
<1>2. CASE PackPiece
  <2>1. /\ caravan \in Seq(Piece) /\ nr_mapped \in Nat /\ caravan_len \in Nat
        /\ caravan_len < CaravanCapacity /\ Len(caravan) < MaxIovs /\ nr_mapped < MaxMapped
    BY <1>2, SMTT(30) DEF TypeInv, TypeOK, PackPiece, CaravanFull
  <2>2. Head(todo) \in Piece
    BY <1>2 DEF TypeInv, TypeOK, PackPiece, IoAt
  <2>3. /\ Len(caravan') = Len(caravan) + 1
        /\ nr_mapped' \in {nr_mapped, nr_mapped + 1}
        /\ caravan_len' \in {caravan_len + PduLen, caravan_len + PageLen}
    <3>1. caravan' = Append(caravan, Head(todo)) /\ caravan_len' = caravan_len + LenOf(Head(todo))
          /\ nr_mapped' \in {nr_mapped, nr_mapped + 1}
      BY <1>2, Zenon DEF PackPiece
    <3>2. LenOf(Head(todo)) \in {PduLen, PageLen}
      BY Zenon DEF LenOf
    <3> QED
      BY <2>1, <2>2, <3>1, <3>2
  <2> QED
    BY <2>1, <2>3 DEF CaravanFits
<1>3. CASE SendCaravan
  <2>1. caravan' = <<>> /\ nr_mapped' = 0 /\ caravan_len' = 0
    BY <1>3, Zenon DEF SendCaravan
  <2> QED
    BY <2>1 DEF CaravanFits
<1> QED
  BY <1>1, <1>2, <1>3, CaravanSteps, Zenon

(* caravan_iovs and caravan_mapped are never overrun, whatever the sizes   *)
(* of the caravan, of the PDUs and of the pages.                           *)
THEOREM CaravanCorrect == Spec => []CaravanFits
<1>1. Init => CaravanFits
  BY QueueAssumption DEF Init, CaravanFits
<1>2. IInv => TypeInv
  BY Zenon DEF IInv
<1> QED
  BY <1>1, <1>2, CaravanNext, Inductive, PTL DEF Spec

-----------------------------------------------------------------------------
(* No doorbell is lost *)

(* io_work, once it is going to look at send_list, is not diverted before  *)
(* it has found it empty: the work item, the quota, the error paths and the socket's      *)
(* callback all lead back to the list.                                     *)
LEMMA LookKept ==
    TypeInv /\ [Next]_vars /\ WillFetch => WillFetch' \/ CloseCaravan \/ FetchNothing
<1> SUFFICES ASSUME TypeInv, [Next]_vars, WillFetch PROVE WillFetch' \/ CloseCaravan \/ FetchNothing
  BY Zenon
<1> USE QueueAssumption
<1>1. ASSUME NEW c \in Ctx, QueueRequest(c) PROVE WillFetch'
  BY <1>1, Zenon DEF QueueRequest, Enqueue, CountTimer, CheckAggregate, CheckTimer, CancelTimer,
     ClearTimerSet, RingDoorbell, bellVars, packVars, sockVars, WillFetch
<1>2. CASE Timer
  BY <1>2, Zenon DEF Timer, TimerFires, CallbackClearsSet, CallbackRings, CallbackReturns,
     envVars, packVars, sockVars, WillFetch
<1>3. CASE StartWork
  BY <1>3, Zenon DEF StartWork, WillFetch
<1>4. CASE KeepRequest \/ NoRoom \/ SetNoSpace
  BY <1>4, Zenon
     DEF KeepRequest, NoRoom, SetNoSpace, IoAt, bellVars, packVars, sockVars, WillFetch
<1>5. CASE FetchRequest
  <2>1. Pieces(Head(send_list)) # <<>>
    <3>1. Head(send_list) \in Entry
      BY <1>5 DEF FetchRequest, TypeInv, TypeOK
    <3> QED
      BY <3>1, PiecesType, Zenon DEF TypeInv, TypeOK
  <2> QED
    BY <1>5, <2>1, Zenon DEF FetchRequest, WillFetch
<1>7. CASE SendCaravan
  <2>1. /\ io = "send" /\ io' = IF todo = <<>> THEN "recv" ELSE "pack"
        /\ UNCHANGED <<bellVars, todo, nospace, error>>
    BY <1>7, Zenon DEF SendCaravan, IoAt
  <2> QED
    BY <2>1, Zenon DEF bellVars, WillFetch
<1>8. CASE CaravanFails \/ PieceFails
  <2>1. PICK e \in SendError : SendFails(e)
    BY <1>8, Zenon DEF CaravanFails, PieceFails
  <2>2. e # "none"
    BY <2>1, Zenon DEF SendError
  <2> QED
    BY <2>1, <2>2, Zenon DEF SendFails, WillFetch
<1>9. CASE PackPiece \/ SendPiece
  <2>1. PieceDone /\ UNCHANGED <<bellVars, nospace, error>>
    BY <1>9, Zenon DEF PackPiece, SendPiece, sockVars
  <2>2. Tail(todo) = <<>> => io' = "recv" /\ pending'
    BY <2>1, Zenon DEF PieceDone
  <2>3. Tail(todo) # <<>> => io' = "pack" /\ todo' # <<>>
    BY <2>1, Zenon DEF PieceDone
  <2> QED
    BY <2>2, <2>3, Zenon DEF WillFetch
<1>10. CASE PackFull \/ RecvResponse \/ RecvR2T
  BY <1>10, Zenon DEF PackFull, RecvResponse, RecvR2T, IoAt, WillFetch
<1>11. CASE SendPart
  BY <1>11, Zenon DEF SendPart, WillFetch
<1>12. CASE EndRound
  BY <1>12 DEF EndRound, IoAt, sockVars, WillFetch
<1>13. CASE Ack
  <2>1. UNCHANGED <<io, pending, todo, error>>
    BY <1>13, Zenon DEF Ack, packVars
  <2>2. (work => work') /\ (nospace => nospace' \/ work')
    BY <1>13, Zenon DEF Ack
  <2> QED
    BY <2>1, <2>2, Zenon DEF WillFetch
<1>14. ASSUME NEW r \in Req, Reply(r) PROVE WillFetch'
  BY <1>14, Zenon DEF Reply, WillFetch
<1>15. CASE UNCHANGED vars
  BY <1>15, Zenon DEF vars, bellVars, packVars, sockVars, WillFetch
<1> QED
  BY <1>1, <1>2, <1>3, <1>4, <1>5, <1>7, <1>8, <1>9, <1>10, <1>11, <1>12, <1>13,
     <1>14, <1>15, Zenon DEF Next, IoWork, TrySend

(* So nothing is on send_list when it stops looking. *)
LEMMA FetchKept ==
    TypeInv /\ [Next]_vars /\ WillFetch => WillFetch' \/ send_list' = <<>>
<1>1. CloseCaravan => send_list' = <<>>
  BY Zenon DEF CloseCaravan
<1>2. FetchNothing => send_list' = <<>>
  BY Zenon DEF FetchNothing, submitVars
<1> QED
  BY LookKept, <1>1, <1>2, Zenon

(* A context's place in nvme_tcp_queue_request changes by its own steps,   *)
(* or when io_work enters the function for an R2T.                         *)
LEMMA PcSteps ==
    [Next]_vars => \/ UNCHANGED pc
                   \/ \E d \in Ctx : QueueRequest(d)
                   \/ RecvR2T
  BY Zenon DEF Next, vars, Timer, IoWork, TrySend, submitVars, envVars,
         TimerFires, CallbackClearsSet, CallbackRings, CallbackReturns,
         StartWork, KeepRequest, FetchRequest, CloseCaravan, FetchNothing, SendCaravan,
         CaravanFails, NoRoom, SetNoSpace, PackPiece, PackFull, SendPiece, SendPart,
         PieceFails, SendFails, RecvResponse, EndRound, Ack, Reply

(* A submitter that is going to ring does ring. *)
LEMMA RingKept ==
    ASSUME TypeInv, [Next]_vars, NEW c \in Ctx, Ringing(c)
    PROVE  Ringing(c)' \/ WillFetch'
<1> USE DEF TypeInv, TypeOK, Ringing
<1>1. CASE UNCHANGED pc
  BY <1>1, Zenon
<1>2. ASSUME NEW d \in Ctx, QueueRequest(d) PROVE Ringing(c)' \/ WillFetch'
  BY <1>2, Zenon DEF QueueRequest, Enqueue, CountTimer, CheckAggregate, CheckTimer, CancelTimer,
     ClearTimerSet, RingDoorbell, At, Goto, WillFetch
<1>3. CASE RecvR2T
  BY <1>3, Zenon DEF RecvR2T, Goto
<1> QED
  BY <1>1, <1>2, <1>3, PcSteps, Zenon

Counting(c) == pc[c] \in {"start_timer", "aggregate"}

(* A submitter that has counted its request and finds the aggregation size *)
(* reached is going to ring.                                               *)
LEMMA CountKept ==
    ASSUME TypeInv, [Next]_vars, NEW c \in Ctx, Counting(c), nr_req >= AggregationSize
    PROVE  Counting(c)' \/ Ringing(c)'
<1> USE DEF TypeInv, TypeOK, Ringing, Counting
<1>1. CASE UNCHANGED pc
  BY <1>1, Zenon
<1>2. ASSUME NEW d \in Ctx, QueueRequest(d) PROVE Counting(c)' \/ Ringing(c)'
  BY <1>2, Zenon DEF QueueRequest, Enqueue, CountTimer, CheckAggregate, CheckTimer, CancelTimer,
     ClearTimerSet, RingDoorbell, At, Goto, AggregateReached
<1>3. CASE RecvR2T
  BY <1>3, Zenon DEF RecvR2T, Goto
<1> QED
  BY <1>1, <1>2, <1>3, PcSteps, Zenon

(* What a step adds to send_list is the entry of the context it enqueues;  *)
(* every other step leaves the list alone or shortens it.                  *)
LEMMA ListSteps ==
    TypeInv /\ [Next]_vars
      => \/ \E c \in Ctx : Enqueue(c)
         \/ /\ send_list' \in Seq(Entry)
            /\ DelayedIn(send_list') <= DelayedIn(send_list)
            /\ \A i \in DOMAIN send_list' :
                  \E j \in DOMAIN send_list : send_list'[i] = send_list[j]
<1> SUFFICES ASSUME TypeInv, [Next]_vars, ~\E c \in Ctx : Enqueue(c)
             PROVE  /\ send_list' \in Seq(Entry)
                    /\ DelayedIn(send_list') <= DelayedIn(send_list)
                    /\ \A i \in DOMAIN send_list' :
                          \E j \in DOMAIN send_list : send_list'[i] = send_list[j]
  BY Zenon
<1>1. send_list \in Seq(Entry) /\ DelayedIn(send_list) \in Nat
  BY CountType, Zenon DEF TypeInv, TypeOK
<1>2. CASE send_list' = send_list
  BY <1>1, <1>2
<1>3. CASE FetchRequest
  <2>1. send_list # <<>> /\ send_list' = Tail(send_list)
    BY <1>3, Zenon DEF FetchRequest
  <2>2. Tail(send_list) \in Seq(Entry) /\ Len(Tail(send_list)) = Len(send_list) - 1
    BY <1>1, <2>1
  <2>3. DelayedIn(Tail(send_list)) \in Nat
    BY <2>2, CountType, Zenon
  <2>4. DelayedIn(send_list) = DelayedIn(Tail(send_list))
                                 + IF Delayed(Head(send_list)[1]) THEN 1 ELSE 0
    BY <1>1, <2>1, CountTail, Zenon
  <2>5. ASSUME NEW i \in DOMAIN Tail(send_list)
        PROVE  \E j \in DOMAIN send_list : Tail(send_list)[i] = send_list[j]
    <3>1. i \in 1 .. Len(send_list) - 1 /\ Tail(send_list)[i] = send_list[i + 1]
      BY <1>1, <2>1, <2>2, HeadTailProperties
    <3>2. i + 1 \in DOMAIN send_list
      BY <1>1, <3>1
    <3> QED
      BY <3>1, <3>2, Zenon
  <2> QED
    BY <2>1, <2>2, <2>3, <2>4, <2>5
<1>4. CASE CloseCaravan
  BY <1>1, <1>4 DEF CloseCaravan
<1> QED
  BY <1>2, <1>3, <1>4, OtherSteps, Zenon

(* The doorbell property is inductive together with types and accounting. *)
LEMMA DoorbellNext == IInv /\ DoorbellRung /\ [Next]_vars => DoorbellRung'
<1> SUFFICES ASSUME IInv, DoorbellRung, [Next]_vars PROVE DoorbellRung'
  BY Zenon
<1> DEFINE Rings == \E c \in Ctx : Ringing(c)
           Counts == \E c \in Ctx : Ringing(c) \/ pc[c] \in {"start_timer", "aggregate"}
<1> USE QueueAssumption
<1>1. TypeInv /\ ReqAccounting /\ kind' = kind
  BY KindFixed, Zenon DEF IInv
<1>2. DelayedIn(send_list)' = DelayedIn(send_list')
  BY <1>1, CountPrime, Zenon
<1>3. \A r : Delayed(r)' = Delayed(r)
  BY <1>1, Zenon DEF Delayed
<1>4. DelayedIn(send_list) \in Nat /\ nr_caravan_req \in Nat
      /\ nr_req >= DelayedIn(send_list)
  BY <1>1, CountType, SMTT(30) DEF TypeInv, TypeOK, ReqAccounting
<1>5. CASE send_list' = <<>>
  <2>1. DelayedIn(send_list)' = 0
    BY <1>2, <1>5, CountEmpty, Zenon
  <2> QED
    BY <1>5, <2>1 DEF DoorbellRung
<1>6. ASSUME NEW c \in Ctx, Enqueue(c) PROVE DoorbellRung'
  <2>1. send_list \in Seq(Entry) /\ EntryOf(c) \in Entry
    BY <1>1, <1>6, Zenon DEF TypeInv, TypeOK, Enqueue, At, EntryOf, Entry
  <2>2. send_list' = Append(send_list, EntryOf(c)) /\ send_list' # <<>>
    BY <1>6, <2>1 DEF Enqueue
  <2>3. CASE ~Delayed(EntryOf(c)[1])
    <3>1. pc'[c] = "check_timer"
      BY <1>1, <1>6, <2>3, Zenon DEF Enqueue, Goto, TypeInv, TypeOK
    <3>2. Rings' /\ Counts'
      BY <3>1, Zenon DEF Ringing
    <3> QED
      BY <3>2, Zenon DEF DoorbellRung
  <2>4. CASE Delayed(EntryOf(c)[1])
    <3>1. pc'[c] \in {"start_timer", "aggregate"}
      BY <1>1, <1>6, <2>4, Zenon DEF Enqueue, Goto, TypeInv, TypeOK
    <3>2. Counts'
      BY <3>1, Zenon
    <3>3. ASSUME \E i \in DOMAIN send_list' : ~Delayed(send_list'[i][1])
          PROVE  \E i \in DOMAIN send_list : ~Delayed(send_list[i][1])
      <4>1. PICK i \in DOMAIN send_list' : ~Delayed(send_list'[i][1])
        BY <3>3, Zenon
      <4>2. i \in DOMAIN send_list => send_list'[i] = send_list[i]
        BY <2>1, <2>2
      <4>3. i \notin DOMAIN send_list => send_list'[i] = EntryOf(c)
        BY <2>1, <2>2, <4>1
      <4>4. i \in DOMAIN send_list
        BY <2>4, <4>1, <4>3, Zenon
      <4> QED
        BY <4>1, <4>2, <4>4, Zenon
    <3>4. (\E i \in DOMAIN send_list : ~Delayed(send_list[i][1])) => WillFetch \/ Rings
      BY Zenon DEF DoorbellRung
    <3>5. WillFetch \/ Rings => WillFetch' \/ Rings'
      BY <1>1, <2>2, FetchKept, RingKept, Zenon
    <3> QED
      BY <1>3, <3>2, <3>3, <3>4, <3>5, Zenon DEF DoorbellRung
  <2> QED
    BY <2>3, <2>4, Zenon
<1>7. ASSUME send_list' # <<>>, ~\E c \in Ctx : Enqueue(c) PROVE DoorbellRung'
  <2>1. /\ DelayedIn(send_list') <= DelayedIn(send_list)
        /\ DelayedIn(send_list') \in Nat
        /\ \A i \in DOMAIN send_list' :
              \E j \in DOMAIN send_list : send_list'[i] = send_list[j]
    BY <1>1, <1>7, ListSteps, CountType, Zenon
  <2>2. ASSUME \E i \in DOMAIN send_list' : ~Delayed(send_list'[i][1])
        PROVE  WillFetch' \/ Rings'
    <3>1. WillFetch \/ Rings
      BY <2>1, <2>2, Zenon DEF DoorbellRung
    <3> QED
      BY <1>1, <1>7, <3>1, FetchKept, RingKept, Zenon
  <2>3. ASSUME DelayedIn(send_list') >= AggregationSize
        PROVE  WillFetch' \/ Counts'
    <3>1. DelayedIn(send_list) >= AggregationSize /\ nr_req >= AggregationSize
      <4>1. nr_req \in Nat /\ AggregationSize \in Nat
        BY <1>1, QueueAssumption, Zenon DEF TypeInv, TypeOK
      <4> QED
        BY <1>4, <2>1, <2>3, <4>1, SMTT(30)
    <3>2. WillFetch \/ Counts
      BY <3>1, Zenon DEF DoorbellRung
    <3> QED
      BY <1>1, <1>7, <3>1, <3>2, FetchKept, RingKept, CountKept, Zenon DEF Counting
  <2> QED
    BY <1>2, <1>3, <2>2, <2>3, Zenon DEF DoorbellRung
<1> QED
  BY <1>5, <1>6, <1>7, Zenon

(* The doorbell is never lost for a request that must not wait, nor once   *)
(* AggregationSize delayed requests are queued: nvme_tcp_queue_request     *)
(* reads nr_req without the lock, and still io_work is on its way to       *)
(* send_list or some submitter is about to ring, in every interleaving.    *)
THEOREM DoorbellCorrect == Spec => []DoorbellRung
<1>1. Init => DoorbellRung
  <2>1. Init => DelayedIn(send_list) = 0 /\ send_list = <<>>
    BY CountEmpty, Zenon DEF Init
  <2> QED
    BY <2>1, QueueAssumption DEF DoorbellRung
<1> QED
  BY <1>1, DoorbellNext, Inductive, PTL DEF Spec

-----------------------------------------------------------------------------
(* No request is forgotten where all of them may be delayed and are        *)
(* submitted on io_cpu.                                                    *)

(* Somebody other than io_work is going to wake it. *)
Waits ==
    \/ work \/ nospace
    \/ timer \in {"armed", "cb_clear_set", "cb_ring"}
    \/ \E c \in Ctx : Ringing(c)

WillLook == WillFetch \/ Waits

AllDelayed == SameCpu /\ error = "none" /\ \A r \in Req : Delayed(r)

(* The timer is started on io_cpu, so its callback keeps everybody else    *)
(* out: nobody finds hrtimer_active true and the callback past its ring.   *)
OneCpu == SameCpu => timer_cpu = "io"

(* Who comes back for the list, the request at hand, the requests not yet  *)
(* subtracted from nr_req, and the caravan.                                *)
Covered ==
    /\ send_list # <<>> => WillLook
    /\ todo # <<>> => WillFetch
    /\ nr_caravan_req > 0 => WillLook
    /\ caravan # <<>> => caravan_len > 0 /\ (WillLook \/ io = "send")

(* Why nr_req is not above zero on an empty queue: a caravan that goes     *)
(* without the accounting leaves a request at hand, and a digest, which    *)
(* overtakes the caravan, leaves the caravan.                              *)
Held ==
    /\ nr_caravan_req > 0 /\ todo = <<>> => caravan # <<>>
    /\ io = "send" => send_now
    /\ io = "pack" => ~send_now
    /\ send_now /\ todo = <<>> => nr_caravan_req = 0
    /\ send_now /\ todo # <<>> => ~Direct(Head(todo))
    /\ todo # <<>> /\ Direct(Head(todo)) => caravan # <<>>

CoverInv == OneCpu /\ (AllDelayed => Covered /\ Held)

(* The timer is started by a submitter, cancelled by one, or runs. *)
LEMMA TimerSteps ==
    [Next]_vars => \/ UNCHANGED timer
                   \/ \E c \in Ctx : Enqueue(c)
                   \/ \E c \in Ctx : CancelTimer(c)
                   \/ Timer
<1> SUFFICES ASSUME [Next]_vars
             PROVE  \/ UNCHANGED timer \/ Timer
                    \/ \E c \in Ctx : Enqueue(c) \/ CancelTimer(c)
  BY Zenon
<1>1. ASSUME NEW c \in Ctx, QueueRequest(c)
      PROVE  UNCHANGED timer \/ Enqueue(c) \/ CancelTimer(c)
  BY <1>1, Zenon
     DEF QueueRequest, CountTimer, CheckAggregate, CheckTimer, ClearTimerSet, RingDoorbell,
     bellVars
<1>2. CASE IoWork
  BY <1>2, Zenon DEF IoWork, TrySend, bellVars, StartWork, KeepRequest, FetchRequest,
     CloseCaravan, FetchNothing,
     SendCaravan, CaravanFails, NoRoom, SetNoSpace, PackPiece, PackFull, SendPiece, SendPart,
     PieceFails, SendFails, RecvResponse, RecvR2T, EndRound
<1>3. CASE Ack \/ \E r \in Req : Reply(r)
  BY <1>3, Zenon DEF Ack, Reply
<1>4. CASE UNCHANGED vars
  BY <1>4, Zenon DEF vars, bellVars
<1> QED
  BY <1>1, <1>2, <1>3, <1>4, Zenon DEF Next

(* Whoever is going to wake io_work stays going to, until it is awake. *)
LEMMA WaitsKept == TypeInv /\ [Next]_vars /\ Waits => WillLook'
<1> SUFFICES ASSUME TypeInv, [Next]_vars, Waits PROVE WillLook'
  BY Zenon
<1>1. CASE work \/ nospace
  BY <1>1, LookKept, Zenon
     DEF WillFetch, WillLook, Waits, CloseCaravan, FetchNothing, bellVars, sockVars
<1>2. CASE \E c \in Ctx : Ringing(c)
  BY <1>2, RingKept, Zenon DEF WillLook, Waits
<1>3. CASE timer \in {"armed", "cb_clear_set", "cb_ring"}
  <2>1. CASE UNCHANGED timer
    BY <1>3, <2>1, Zenon DEF WillLook, Waits
  <2>2. CASE \E c \in Ctx : Enqueue(c)
    BY <1>3, <2>2, Zenon DEF Enqueue, ArmsTimer, hrtimer_active, WillLook, Waits
  <2>3. ASSUME NEW c \in Ctx, CancelTimer(c) PROVE WillLook'
    BY <2>3, Zenon DEF CancelTimer, Goto, TypeInv, TypeOK, Ringing, WillLook, Waits
  <2>4. CASE Timer
    BY <1>3, <2>4, Zenon DEF Timer, TimerFires, CallbackClearsSet, CallbackRings, CallbackReturns,
       WillLook, Waits
  <2> QED
    BY <2>1, <2>2, <2>3, <2>4, TimerSteps, Zenon
<1> QED
  BY <1>1, <1>2, <1>3, Zenon DEF Waits

(* A connection once broken stays broken, and only a submitter starts the timer. *)
LEMMA ErrorSteps ==
    [Next]_vars => /\ error' = error \/ error' # "none"
                   /\ timer_cpu' = timer_cpu \/ \E c \in Ctx : Enqueue(c)
<1>1. SendError \subseteq {"EPIPE", "ENOMEM"}
  BY QueueAssumption, Zenon DEF SendError
<1> SUFFICES ASSUME [Next]_vars
             PROVE  /\ error' = error \/ error' # "none"
                    /\ timer_cpu' = timer_cpu \/ \E c \in Ctx : Enqueue(c)
  BY Zenon
<1>2. ASSUME NEW c \in Ctx, QueueRequest(c)
      PROVE  error' = error /\ (timer_cpu' = timer_cpu \/ Enqueue(c))
  BY <1>2, Zenon DEF QueueRequest, Enqueue, CountTimer, CheckAggregate, CheckTimer, CancelTimer,
     ClearTimerSet, RingDoorbell, bellVars, sockVars
<1>3. CASE Timer
  BY <1>3, Zenon
     DEF Timer, TimerFires, CallbackClearsSet, CallbackRings, CallbackReturns, envVars,
     sockVars
<1>4. IoWork => timer_cpu' = timer_cpu
  BY Zenon DEF IoWork, TrySend, bellVars, StartWork, KeepRequest, FetchRequest, CloseCaravan,
     FetchNothing,
     SendCaravan, CaravanFails, NoRoom, SetNoSpace, PackPiece, PackFull, SendPiece, SendPart,
     PieceFails, SendFails, RecvResponse, RecvR2T, EndRound
<1>5. IoWork => error' = error \/ error' \in SendError
  BY Zenon DEF IoWork, TrySend, sockVars, StartWork, KeepRequest, FetchRequest, CloseCaravan,
     FetchNothing,
     SendCaravan, CaravanFails, NoRoom, SetNoSpace, PackPiece, PackFull, SendPiece, SendPart,
     PieceFails, SendFails, RecvResponse, RecvR2T, EndRound
<1>6. CASE Ack \/ \E r \in Req : Reply(r)
  BY <1>6, Zenon DEF Ack, Reply, sockVars
<1>7. CASE UNCHANGED vars
  BY <1>7, Zenon DEF vars, bellVars, sockVars
<1> QED
  BY <1>1, <1>2, <1>3, <1>4, <1>5, <1>6, <1>7, Zenon DEF Next

(* Steps of submitters past the list, of the timer, the socket and the     *)
(* controller leave the list, the request at hand and the caravan alone.   *)
LEMMA OutsideSteps ==
    [Next]_vars => \/ UNCHANGED <<send_list, packVars, io>>
                   \/ \E c \in Ctx : Enqueue(c)
                   \/ IoWork
<1> SUFFICES ASSUME [Next]_vars
             PROVE  \/ UNCHANGED <<send_list, packVars, io>>
                    \/ \E c \in Ctx : Enqueue(c)
                    \/ IoWork
  BY Zenon
<1>1. ASSUME NEW c \in Ctx, QueueRequest(c)
      PROVE  UNCHANGED <<send_list, packVars, io>> \/ Enqueue(c)
  BY <1>1, Zenon
     DEF QueueRequest, CountTimer, CheckAggregate, CheckTimer, CancelTimer, ClearTimerSet,
     RingDoorbell, packVars
<1>2. CASE Timer
  BY <1>2, Zenon
     DEF Timer, TimerFires, CallbackClearsSet, CallbackRings, CallbackReturns, envVars,
     submitVars, packVars
<1>3. CASE Ack
  BY <1>3, Zenon DEF Ack, submitVars, packVars
<1>4. ASSUME NEW r \in Req, Reply(r) PROVE UNCHANGED <<send_list, packVars, io>>
  BY <1>4, Zenon DEF Reply, submitVars, packVars
<1>5. CASE UNCHANGED vars
  BY <1>5, Zenon DEF vars, submitVars, packVars
<1> QED
  BY <1>1, <1>2, <1>3, <1>4, <1>5, Zenon DEF Next

(* A queued request is always waited for: the first of a batch starts the  *)
(* timer, a later one is only added where somebody is coming back.         *)
LEMMA CoverNext == IInv /\ CoverInv /\ [Next]_vars => CoverInv'
<1> SUFFICES ASSUME IInv, CoverInv, [Next]_vars PROVE CoverInv'
  BY Zenon
<1> USE QueueAssumption
<1>1. TypeInv /\ ReqAccounting /\ kind' = kind
  BY KindFixed, Zenon DEF IInv
<1>2. OneCpu'
  <2>1. CASE timer_cpu' = timer_cpu
    BY <2>1, Zenon DEF CoverInv, OneCpu
  <2>2. ASSUME NEW c \in Ctx, Enqueue(c) PROVE OneCpu'
    BY <2>2, Zenon DEF CoverInv, OneCpu, Enqueue
  <2> QED
    BY <2>1, <2>2, ErrorSteps, Zenon
<1>3. SUFFICES ASSUME AllDelayed' PROVE Covered' /\ Held'
  BY <1>2, Zenon DEF CoverInv
<1>4. AllDelayed /\ error' = "none" /\ timer_cpu = "io"
  BY <1>1, <1>3, ErrorSteps, Zenon DEF AllDelayed, Delayed, CoverInv, OneCpu
<1>5. Covered /\ Held
  BY <1>4, Zenon DEF CoverInv
<1>6. \A c \in Ctx : Interrupted(c) <=> InCallback
  BY <1>4, Zenon DEF Interrupted, AllDelayed
<1>7. \A r \in Req : ~Legacy /\ ~kind[r].nodelay
  BY <1>4, Zenon DEF AllDelayed, Delayed
<1>8. /\ WillFetch => WillFetch' \/ CloseCaravan \/ FetchNothing
      /\ WillLook => WillLook' \/ CloseCaravan \/ FetchNothing
      /\ Waits => WillLook'
  BY <1>1, LookKept, WaitsKept, Zenon DEF WillLook
<1>9. ASSUME WillFetch', caravan' # <<>> => caravan_len' > 0
      PROVE  Covered'
  BY <1>9, Zenon DEF Covered, WillLook
<1>10. CASE UNCHANGED <<send_list, packVars, io>>
  <2>1. ~CloseCaravan /\ ~FetchNothing
    BY <1>10, Zenon DEF CloseCaravan, FetchNothing, IoAt
  <2>2. Held'
    BY <1>5, <1>10, Zenon DEF Held, Direct, packVars
  <2> QED
    BY <1>5, <1>8, <1>10, <2>1, <2>2, Zenon DEF Covered, packVars
<1>11. ASSUME NEW c \in Ctx, Enqueue(c) PROVE Covered' /\ Held'
  <2>1. /\ send_list' = Append(send_list, EntryOf(c)) /\ At(c, "enter")
        /\ UNCHANGED <<packVars, io>>
    BY <1>11, Zenon DEF Enqueue
  <2>2. EntryOf(c) \in Entry /\ send_list \in Seq(Entry)
    BY <1>1, <2>1, Zenon DEF TypeInv, TypeOK, At, EntryOf, Entry
  <2>3. ~CloseCaravan /\ ~FetchNothing
    BY <2>1, Zenon DEF CloseCaravan, FetchNothing, IoAt
  <2>4. Held'
    BY <1>5, <2>1, Zenon DEF Held, Direct, packVars
  <2>5. ~InCallback /\ Delayed(EntryOf(c)[1])
    BY <1>4, <1>6, <2>1, <2>2, Zenon DEF At, Entry, AllDelayed
  <2>6. WillLook'
    <3>1. CASE hrtimer_active \/ ArmsTimer
      <4>1. timer' = "armed"
        BY <1>1, <1>11, <2>5, <3>1, Zenon
        DEF Enqueue, hrtimer_active, InCallback, ArmsTimer, TypeInv, TypeOK
      <4> QED
        BY <4>1, Zenon DEF WillLook, Waits
    <3>2. CASE nr_req # 0
      <4>1. send_list # <<>> \/ nr_caravan_req > 0
        BY <1>1, <3>2, CountEmpty, SMTT(30) DEF ReqAccounting, TypeInv, TypeOK
      <4> QED
        BY <1>5, <1>8, <2>3, <4>1, Zenon DEF Covered
    <3> QED
      BY <3>1, <3>2, Zenon DEF ArmsTimer
  <2> QED
    BY <1>5, <1>8, <2>1, <2>3, <2>4, <2>6, Zenon DEF Covered, packVars
<1>12. CASE StartWork
  <2>1. io' = "fetch" /\ UNCHANGED packVars
    BY <1>12, Zenon DEF StartWork
  <2>2. Held'
    BY <1>5, <2>1, Zenon DEF Held, Direct, packVars
  <2> QED
    BY <1>5, <1>9, <2>1, <2>2, Zenon DEF WillFetch, Covered, packVars
<1>13. CASE KeepRequest
  <2>1. /\ io' = (IF send_now THEN "send" ELSE "pack")
        /\ todo # <<>> /\ UNCHANGED packVars
    BY <1>13, Zenon DEF KeepRequest
  <2>2. Held'
    BY <1>5, <2>1, Zenon DEF Held, Direct, packVars
  <2> QED
    BY <1>5, <1>9, <2>1, <2>2, Zenon DEF WillFetch, Covered, packVars
<1>14. CASE FetchRequest
  <2>1. /\ send_list # <<>> /\ todo' = Pieces(Head(send_list))
        /\ io' = (IF send_now THEN "send" ELSE "pack")
        /\ UNCHANGED <<caravan, caravan_len, send_now>>
    BY <1>14, Zenon DEF FetchRequest
  <2>2. Head(send_list) \in Entry
    BY <1>1, <2>1, SMTT(30) DEF TypeInv, TypeOK
  <2>3. todo' # <<>> /\ Head(todo') = <<Head(send_list)[1], Head(send_list)[2], 0>>
    BY <1>1, <2>1, <2>2, PiecesHead, Zenon DEF TypeInv, TypeOK
  <2>4. ~Direct(Head(todo'))
    BY <1>7, <2>2, <2>3 DEF Direct, Entry
  <2>5. Held'
    BY <2>1, <2>3, <2>4 DEF Held, Direct
  <2> QED
    BY <1>5, <1>9, <2>1, <2>3, <2>5, Zenon DEF WillFetch, Covered
<1>15. CASE CloseCaravan
  <2>1. /\ todo = <<>> /\ send_list = <<>> /\ io' = "send" /\ send_now' = TRUE
        /\ nr_caravan_req' = 0 /\ UNCHANGED <<todo, send_list, caravan, caravan_len>>
    BY <1>15, Zenon DEF CloseCaravan
  <2> QED
    BY <1>5, <2>1 DEF Held, Covered
<1>16. CASE FetchNothing
  <2>1. /\ io = "fetch" /\ todo = <<>> /\ send_list = <<>> /\ ~CaravanDue /\ ~InCallback
        /\ io' = (IF caravan_len > 0 /\ send_now THEN "send" ELSE "recv")
        /\ UNCHANGED <<packVars, send_list, timer>>
    BY <1>6, <1>16, SMTT(30) DEF FetchNothing, IoAt, submitVars, bellVars
  <2>2. Held'
    BY <1>5, <2>1, SMTT(30) DEF Held, Direct, packVars
  <2>3. caravan # <<>> => WillLook'
    <3>1. SUFFICES ASSUME caravan # <<>> PROVE timer = "armed"
      BY <2>1, SMTT(30) DEF WillLook, Waits
    <3>2. hrtimer_active
      BY <1>5, <2>1, <3>1, SMTT(30) DEF Covered, CaravanDue
    <3> QED
      BY <1>1, <2>1, <3>2, SMTT(30) DEF hrtimer_active, InCallback, TypeInv, TypeOK
  <2> QED
    BY <1>5, <2>1, <2>2, <2>3, SMTT(30) DEF Covered, Held, packVars
<1>17. CASE SendCaravan
  <2>1. /\ io = "send" /\ io' = (IF todo = <<>> THEN "recv" ELSE "pack")
        /\ caravan' = <<>> /\ send_now' = FALSE
        /\ UNCHANGED <<send_list, todo, nr_caravan_req>>
    BY <1>17, Zenon DEF SendCaravan, IoAt, submitVars
  <2>2. ~CloseCaravan /\ ~FetchNothing
    BY <2>1, SMTT(30) DEF CloseCaravan, FetchNothing, IoAt
  <2>3. nr_caravan_req > 0 => todo # <<>> /\ WillFetch'
    BY <1>1, <1>5, <2>1, SMTT(30) DEF Held, WillFetch, TypeInv, TypeOK
  <2>4. Held'
    BY <1>1, <1>5, <2>1, <2>3, SMTT(30) DEF Held, Direct
  <2> QED
    BY <1>5, <1>8, <2>1, <2>2, <2>3, <2>4 DEF Covered, WillLook
<1>18. CASE CaravanFails \/ PieceFails
  <2>1. PICK e \in SendError : SendFails(e)
    BY <1>18, SMTT(30) DEF CaravanFails, PieceFails
  <2> QED
    BY <1>4, <2>1 DEF SendFails, SendError
<1>19. CASE NoRoom \/ SetNoSpace
  <2>1. /\ io \in {"send", "set_nospace"}
        /\ \/ io' = "set_nospace"
           \/ io' = "recv" /\ nospace'
        /\ UNCHANGED packVars
    BY <1>19, SMTT(30) DEF NoRoom, SetNoSpace, IoAt
  <2>2. Held'
    BY <1>5, <2>1, SMTT(30) DEF Held, Direct, packVars
  <2> QED
    BY <1>5, <1>9, <2>1, <2>2, SMTT(30) DEF WillFetch, Covered, packVars
<1>20. CASE PackPiece
  <2>1. /\ io = "pack" /\ todo \in Seq(Piece) /\ todo # <<>>
    BY <1>1, <1>20, Zenon DEF PackPiece, IoAt, TypeInv, TypeOK
  <2>2. Head(todo) \in Piece /\ ~send_now
    BY <1>5, <2>1 DEF Held
  <2>3. send_now' = (send_now \/ (Head(todo)[2] = "cmd" /\ kind[Head(todo)[1]].nodelay))
    BY <1>20, Zenon DEF PackPiece
  <2>4. ~send_now'
    BY <1>7, <2>2, <2>3, SMTT(30) DEF Piece
  <2>5. caravan' # <<>> /\ caravan_len' > 0
    <3>1. /\ caravan' = Append(caravan, Head(todo))
          /\ caravan_len' = caravan_len + LenOf(Head(todo))
      BY <1>20 DEF PackPiece
    <3>2. LenOf(Head(todo)) \in Nat \ {0}
      BY DEF LenOf
    <3> QED
      BY <1>1, <3>1, <3>2, SMTT(30) DEF TypeInv, TypeOK
  <2>6. WillFetch' /\ io' # "send"
    BY <1>20, Zenon DEF PackPiece, PieceDone, WillFetch
  <2>7. Held'
    BY <2>4, <2>5, <2>6 DEF Held
  <2> QED
    BY <1>9, <2>5, <2>6, <2>7
<1>21. CASE PackFull
  <2>1. /\ ~Direct(Head(todo)) /\ io' = "recv" /\ pending' = TRUE
        /\ UNCHANGED <<todo, caravan, caravan_len, nr_caravan_req>>
    BY <1>21, Zenon DEF PackFull
  <2>2. todo # <<>>
    BY <1>1, <1>21, SMTT(30) DEF PackFull, IoAt, TypeInv, TypeOK
  <2>3. Held'
    BY <2>1, <2>2, SMTT(30) DEF Held, Direct
  <2> QED
    BY <1>5, <1>9, <2>1, <2>3, Zenon DEF WillFetch, Covered
<1>22. CASE SendPiece
  <2>1. /\ io = "pack" /\ todo # <<>> /\ Direct(Head(todo))
        /\ UNCHANGED <<caravan, caravan_len, send_now>>
    BY <1>1, <1>22, Zenon DEF SendPiece, IoAt, TypeInv, TypeOK
  <2>2. caravan' # <<>> /\ ~send_now' /\ caravan_len' > 0
    BY <1>5, <2>1, SMTT(30) DEF Held, Covered
  <2>3. WillFetch' /\ io' # "send"
    BY <1>22, SMTT(30) DEF SendPiece, PieceDone, WillFetch
  <2>4. Held'
    BY <2>2, <2>3, SMTT(30) DEF Held
  <2> QED
    BY <1>9, <2>2, <2>3, <2>4
<1>23. CASE SendPart
  <2>1. /\ io = "pack" /\ io' \in {"pack", "recv"} /\ nospace' = TRUE /\ UNCHANGED packVars
    BY <1>23, Zenon DEF SendPart, IoAt
  <2>2. Held'
    BY <1>5, <2>1 DEF Held, Direct, packVars
  <2> QED
    BY <1>5, <1>9, <2>1, <2>2 DEF WillFetch, Covered, packVars
<1>24. CASE RecvResponse \/ RecvR2T
  <2>1. io = "recv" /\ pending' = TRUE /\ UNCHANGED <<packVars, io>>
    BY <1>24, Zenon DEF RecvResponse, RecvR2T, IoAt
  <2>2. Held'
    BY <1>5, <2>1, SMTT(30) DEF Held, Direct, packVars
  <2> QED
    BY <1>5, <1>9, <2>1, <2>2, Zenon DEF WillFetch, Covered, packVars
<1>25. CASE EndRound
  <2>1. io = "recv" /\ io' \in {"idle", "fetch"} /\ UNCHANGED <<packVars, send_list>>
    BY <1>25, SMTT(30) DEF EndRound, IoAt, submitVars
  <2>2. ~CloseCaravan /\ ~FetchNothing
    BY <2>1, SMTT(30) DEF CloseCaravan, FetchNothing, IoAt
  <2>3. Held'
    BY <1>5, <2>1 DEF Held, Direct, packVars
  <2> QED
    BY <1>5, <1>8, <2>1, <2>2, <2>3, SMTT(30) DEF Covered, packVars
<1> QED
  BY <1>10, <1>11, <1>12, <1>13, <1>14, <1>15, <1>16, <1>17, <1>18, <1>19, <1>20, <1>21,
     <1>22, <1>23, <1>24, <1>25, OutsideSteps, Zenon DEF IoWork, TrySend

(* Where every submitter runs on io_cpu and may wait, no request is left   *)
(* without a timer, a doorbell or a running io_work: hrtimer_start for the *)
(* first request of a batch covers those that find nr_req above one.       *)
THEOREM ForgottenCorrect == Spec => []NoneForgotten
<1>1. Init => CoverInv
  BY SMTT(30) DEF Init, CoverInv, OneCpu, Covered, Held
<1>2. CoverInv => NoneForgotten
  BY DEF CoverInv, Covered, AllDelayed, NoneForgotten, DelayBounded, WillLook, Waits, WillFetch
<1> QED
  BY <1>1, <1>2, CoverNext, Inductive, PTL DEF Spec
=============================================================================
