------------------------- MODULE NvmeTcpFifoProofs -------------------------
(***************************************************************************)
(* The send side of NvmeTcpQueue implements FifoChannel, for every set of  *)
(* requests and every value of the limits.                                 *)
(***************************************************************************)
EXTENDS NvmeTcpQueueProofs

USE DEF IO, NULL, Ctx

(* The peer may close the connection, but no send takes a part of a        *)
(* caravan or fails and is forgotten, and digests are used on the legacy   *)
(* path only: otherwise the stream is broken, as the runs of QueueFailed   *)
(* and QueueDigest show.                                                   *)
Lossless ==
    /\ ShortSends = FALSE
    /\ DataDigest => Legacy
    /\ SendErrors \subseteq {"EPIPE"}

(* The pieces s are in the log l, right after the first n. *)
Follows(s, n, l) ==
    /\ n + Len(s) <= Len(l)
    /\ \A i \in 1 .. Len(s) : l[n + i] = s[i]

(* What io_work has fetched, in the order in which it is sent. *)
Fetched == wire \o caravan \o todo

(* Pieces, as a function of what the requests are. *)
PiecesOf(kd, e) ==
    LET n == IF e[2] = "cmd" THEN kd[e[1]].inline ELSE kd[e[1]].solicited
    IN  <<<<e[1], e[2], 0>>>>
          \o [i \in 1 .. n |-> <<e[1], "data", i>>]
          \o IF DataDigest /\ n > 0 THEN <<<<e[1], "ddgst", 0>>>> ELSE <<>>

(* The entries of list are the rest of the log l after its first n pieces: *)
(* off[k] is where the k-th one ends.                                      *)
Chain(off, n, list, l, kd) ==
    /\ off \in [0 .. Len(list) -> 0 .. Len(l)]
    /\ off[0] = n /\ off[Len(list)] = Len(l)
    /\ \A k \in 1 .. Len(list) :
          /\ off[k] = off[k - 1] + Len(PiecesOf(kd, list[k]))
          /\ Follows(PiecesOf(kd, list[k]), off[k - 1], l)

(* As long as no send has failed, the log is what is on the wire, in the   *)
(* caravan, at hand and on send_list, in that order.                       *)
InOrder ==
    /\ Follows(Fetched, 0, log)
    /\ \E off \in [0 .. Len(send_list) -> 0 .. Len(log)] :
          Chain(off, Len(Fetched), send_list, log, kind)

(* On the legacy path the caravan is not used, on the other one every      *)
(* piece goes through it.                                                  *)
OnePath ==
    /\ Legacy => caravan = <<>>
    /\ ~Legacy => \A i \in DOMAIN todo : ~Direct(todo[i])

FifoInv ==
    /\ OnePath
    /\ Follows(wire, 0, log)
    /\ error = "none" => InOrder

(* Seven kinds of step touch the stream. *)
LEMMA StreamSteps ==
    [Next]_vars => \/ UNCHANGED <<wire, caravan, todo, send_list, log, error>>
                   \/ \E c \in Ctx : Enqueue(c)
                   \/ FetchRequest
                   \/ PackPiece
                   \/ SendPiece
                   \/ SendCaravan
                   \/ \E e \in SendError : SendFails(e)
  BY Zenon DEF Next, vars, QueueRequest, Timer, IoWork, TrySend, submitVars, envVars, packVars,
         sockVars, CountTimer, CheckAggregate, CheckTimer, CancelTimer, ClearTimerSet,
         RingDoorbell, TimerFires, CallbackClearsSet, CallbackRings, CallbackReturns,
         StartWork, KeepRequest, CloseCaravan, FetchNothing,
         CaravanFails, NoRoom, SetNoSpace, PackFull, SendPart,
         PieceFails, RecvResponse, RecvR2T, EndRound, Ack, Reply

(* The two definitions of the pieces agree. *)
LEMMA PiecesSame == \A e : Pieces(e) = PiecesOf(kind, e)
  BY DEF Pieces, PiecesOf, PagesOf

(* Moving a piece from the front of one sequence to the end of another     *)
(* leaves their concatenation as it is.                                    *)
LEMMA MovePiece ==
    ASSUME NEW S, NEW s \in Seq(S), NEW t \in Seq(S), t # <<>>
    PROVE  Append(s, Head(t)) \o Tail(t) = s \o t
<1>1. /\ Head(t) \in S /\ Head(t) = t[1] /\ Tail(t) \in Seq(S) /\ Len(Tail(t)) = Len(t) - 1
      /\ \A i \in 1 .. Len(t) - 1 : Tail(t)[i] = t[i + 1]
      /\ Len(t) \in Nat \ {0} /\ Len(s) \in Nat
  BY HeadTailProperties, EmptySeq, LenProperties, SMTT(30)
<1>2. /\ Append(s, Head(t)) \in Seq(S) /\ Len(Append(s, Head(t))) = Len(s) + 1
      /\ \A i \in 1 .. Len(s) : Append(s, Head(t))[i] = s[i]
      /\ Append(s, Head(t))[Len(s) + 1] = t[1]
  BY <1>1, AppendProperties, SMTT(30)
<1> DEFINE a == Append(s, Head(t))
           b == Tail(t)
<1> HIDE DEF a, b
<1>3. a \in Seq(S) /\ b \in Seq(S) /\ Len(a) = Len(s) + 1 /\ Len(b) = Len(t) - 1
  BY <1>1, <1>2, SMTT(30) DEF a, b
<1>4. /\ a \o b \in Seq(S) /\ Len(a \o b) = Len(s) + Len(t)
      /\ \A i \in 1 .. Len(s) + Len(t) :
            (a \o b)[i] = IF i <= Len(s) + 1 THEN a[i] ELSE b[i - (Len(s) + 1)]
  <2>1. Len(a) + Len(b) = Len(s) + Len(t)
    BY <1>1, <1>3, SMTT(30)
  <2>2. /\ a \o b \in Seq(S) /\ Len(a \o b) = Len(a) + Len(b)
        /\ \A i \in 1 .. Len(a) + Len(b) :
              (a \o b)[i] = IF i <= Len(a) THEN a[i] ELSE b[i - Len(a)]
    BY <1>3, ConcatProperties, Zenon
  <2> QED
    BY <1>3, <2>1, <2>2
<1>5. /\ s \o t \in Seq(S) /\ Len(s \o t) = Len(s) + Len(t)
      /\ \A i \in 1 .. Len(s) + Len(t) :
            (s \o t)[i] = IF i <= Len(s) THEN s[i] ELSE t[i - Len(s)]
  BY ConcatProperties
<1>6. ASSUME NEW i \in 1 .. Len(s) + Len(t) PROVE (a \o b)[i] = (s \o t)[i]
  <2>1. CASE i <= Len(s)
    BY <1>1, <1>2, <1>4, <1>5, <2>1, SMTT(30) DEF a
  <2>2. CASE i = Len(s) + 1
    <3>1. (s \o t)[i] = t[i - Len(s)] /\ i - Len(s) = 1
      BY <1>1, <1>5, <2>2, SMTT(30)
    <3> QED
      BY <1>1, <1>2, <1>4, <2>2, <3>1, SMTT(30) DEF a
  <2>3. CASE i > Len(s) + 1
    <3>1. i - (Len(s) + 1) \in 1 .. Len(t) - 1 /\ (i - (Len(s) + 1)) + 1 = i - Len(s)
      BY <1>1, <2>3
    <3>2. b[i - (Len(s) + 1)] = t[i - Len(s)]
      BY <1>1, <3>1 DEF b
    <3> QED
      BY <1>1, <1>4, <1>5, <2>3, <3>2
  <2>4. i <= Len(s) \/ i = Len(s) + 1 \/ i > Len(s) + 1
    BY <1>1, SMTT(30)
  <2> QED
    BY <2>1, <2>2, <2>3, <2>4, Zenon
<1>7. a \o b = s \o t
  BY <1>4, <1>5, <1>6, SeqEqual
<1> QED
  BY <1>7, SMTT(30) DEF a, b

(* A sequence and what follows it in the log. *)
LEMMA FollowsConcat ==
    ASSUME NEW S, NEW s \in Seq(S), NEW t \in Seq(S), NEW l \in Seq(S), NEW n \in Nat
    PROVE  Follows(s \o t, n, l) <=> Follows(s, n, l) /\ Follows(t, n + Len(s), l)
<1>1. Len(s) \in Nat /\ Len(t) \in Nat /\ Len(l) \in Nat
  BY LenProperties, SMTT(30)
<1>2. /\ Len(s \o t) = Len(s) + Len(t)
      /\ \A i \in 1 .. Len(s) + Len(t) :
            (s \o t)[i] = IF i <= Len(s) THEN s[i] ELSE t[i - Len(s)]
  BY ConcatProperties, SMTT(30)
<1> DEFINE u == s \o t
<1>3. /\ Len(u) = Len(s) + Len(t)
      /\ \A i \in 1 .. Len(s) : u[i] = s[i]
      /\ \A i \in 1 .. Len(t) : u[Len(s) + i] = t[i]
  <2>1. ASSUME NEW i \in 1 .. Len(t) PROVE u[Len(s) + i] = t[i]
    <3>1. Len(s) + i \in 1 .. Len(s) + Len(t) /\ ~(Len(s) + i <= Len(s))
          /\ (Len(s) + i) - Len(s) = i
      BY <1>1, SMTT(30)
    <3> QED
      BY <1>2, <3>1
  <2> QED
    BY <1>1, <1>2, <2>1, SMTT(30)
<1> HIDE DEF u
<1>4. ASSUME Follows(u, n, l) PROVE Follows(s, n, l) /\ Follows(t, n + Len(s), l)
  <2>1. Follows(s, n, l)
    <3>1. n + Len(s) <= Len(l)
      BY <1>1, <1>3, <1>4, SMTT(30) DEF Follows
    <3>2. ASSUME NEW i \in 1 .. Len(s) PROVE l[n + i] = s[i]
      <4>1. i \in 1 .. Len(u)
        BY <1>1, <1>3, SMTT(30)
      <4> QED
        BY <1>3, <1>4, <4>1, SMTT(30) DEF Follows
    <3> QED
      BY <3>1, <3>2, SMTT(30) DEF Follows
  <2>2. (n + Len(s)) + Len(t) <= Len(l)
    BY <1>1, <1>3, <1>4, SMTT(30) DEF Follows
  <2>3. ASSUME NEW i \in 1 .. Len(t) PROVE l[(n + Len(s)) + i] = t[i]
    <3>1. Len(s) + i \in 1 .. Len(u) /\ n + (Len(s) + i) = (n + Len(s)) + i
      BY <1>1, <1>3, SMTT(30)
    <3> QED
      BY <1>3, <1>4, <3>1, SMTT(30) DEF Follows
  <2> QED
    BY <2>1, <2>2, <2>3, SMTT(30) DEF Follows
<1>5. ASSUME Follows(s, n, l), Follows(t, n + Len(s), l) PROVE Follows(u, n, l)
  <2>1. n + Len(u) <= Len(l)
    BY <1>1, <1>3, <1>5, SMTT(30) DEF Follows
  <2>2. ASSUME NEW i \in 1 .. Len(u) PROVE l[n + i] = u[i]
    <3>1. CASE i <= Len(s)
      BY <1>1, <1>3, <1>5, <3>1, SMTT(30) DEF Follows
    <3>2. CASE i > Len(s)
      <4>1. i - Len(s) \in 1 .. Len(t) /\ Len(s) + (i - Len(s)) = i
            /\ (n + Len(s)) + (i - Len(s)) = n + i
        BY <1>1, <1>3, <3>2
      <4> QED
        BY <1>3, <1>5, <4>1, Zenon DEF Follows
    <3> QED
      BY <1>1, <1>3, <3>1, <3>2, SMTT(30)
  <2> QED
    BY <2>1, <2>2, SMTT(30) DEF Follows
<1> QED
  BY <1>4, <1>5 DEF u

(* What is in the log stays there when more is queued. *)
LEMMA FollowsGrows ==
    ASSUME NEW S, NEW s \in Seq(S), NEW l \in Seq(S), NEW m \in Seq(S), NEW n \in Nat,
           Follows(s, n, l)
    PROVE  Follows(s, n, l \o m)
<1>1. Len(s) \in Nat /\ Len(m) \in Nat /\ Len(l) \in Nat
  BY LenProperties, SMTT(30)
<1>2. /\ Len(l \o m) = Len(l) + Len(m)
      /\ \A i \in 1 .. Len(l) + Len(m) :
            (l \o m)[i] = IF i <= Len(l) THEN l[i] ELSE m[i - Len(l)]
  BY ConcatProperties, SMTT(30)
<1> DEFINE u == l \o m
<1>3. Len(u) = Len(l) + Len(m) /\ \A i \in 1 .. Len(l) : u[i] = l[i]
  BY <1>1, <1>2, SMTT(30)
<1> HIDE DEF u
<1>4. n + Len(s) <= Len(u)
  BY <1>1, <1>3, SMTT(30) DEF Follows
<1>5. ASSUME NEW i \in 1 .. Len(s) PROVE u[n + i] = s[i]
  <2>1. n + i \in 1 .. Len(l)
    BY <1>1 DEF Follows
  <2> QED
    BY <1>3, <2>1, SMTT(30) DEF Follows
<1> QED
  BY <1>4, <1>5 DEF u, Follows

(* The pieces just queued are the end of the log. *)
LEMMA FollowsEnd ==
    ASSUME NEW S, NEW l \in Seq(S), NEW m \in Seq(S)
    PROVE  Follows(m, Len(l), l \o m) /\ Follows(l, 0, l \o m)
<1>1. Len(m) \in Nat /\ Len(l) \in Nat
  BY LenProperties, SMTT(30)
<1>2. Follows(l \o m, 0, l \o m) /\ l \o m \in Seq(S)
  <2>1. l \o m \in Seq(S)
    BY ConcatProperties
  <2>2. Len(l \o m) \in Nat
    BY <2>1, LenProperties
  <2> QED
    BY <2>1, <2>2, SMTT(30) DEF Follows
<1>3. Follows(l, 0, l \o m) /\ Follows(m, 0 + Len(l), l \o m)
  BY <1>2, FollowsConcat, Zenon
<1>4. 0 + Len(l) = Len(l)
  BY <1>1
<1> QED
  BY <1>3, <1>4

-----------------------------------------------------------------------------
(* The steps of the stream, one lemma each *)

(* Queueing a request appends its entry to send_list and its pieces to the *)
(* log.                                                                    *)
LEMMA EnqueueKeeps ==
    ASSUME TypeInv, FifoInv, [Next]_vars, NEW c \in Ctx, Enqueue(c)
    PROVE  FifoInv'
<1> DEFINE e == EntryOf(c)
           ps == PiecesOf(kind, e)
<1>1. /\ e \in Entry /\ ps \in Seq(Piece) /\ Len(ps) \in Nat
      /\ send_list' = Append(send_list, e) /\ log' = log \o ps
      /\ UNCHANGED <<wire, caravan, todo, error, kind>>
  <2>1. e \in Entry
    <3>1. pc[IO] # "return" => r2t \in Req
      BY DEF TypeInv, TypeOK
    <3>2. c # IO => c \in Req
      OBVIOUS
    <3>3. c = IO => pc[IO] # "return"
      BY SMTT(30) DEF Enqueue, At
    <3> QED
      BY <3>1, <3>2, <3>3, SMTT(30) DEF EntryOf, Entry
  <2>2. ps \in Seq(Piece)
    BY <2>1, PiecesType, PiecesSame DEF TypeInv, TypeOK
  <2>3. send_list' = Append(send_list, e) /\ log' = log \o ps
        /\ UNCHANGED <<wire, caravan, todo, error, kind>>
    BY PiecesSame, Zenon DEF Enqueue, packVars, sockVars
  <2> QED
    BY <2>1, <2>2, <2>3, LenProperties
<1>2. /\ wire \in Seq(Piece) /\ caravan \in Seq(Piece) /\ todo \in Seq(Piece)
      /\ log \in Seq(Piece) /\ send_list \in Seq(Entry)
      /\ Len(log) \in Nat /\ Len(send_list) \in Nat
  BY LenProperties, SMTT(30) DEF TypeInv, TypeOK
<1>3. Fetched \in Seq(Piece) /\ Fetched' = Fetched
  <2>1. Fetched \in Seq(Piece)
    BY <1>2, ConcatProperties, Zenon DEF Fetched
  <2> QED
    BY <1>1, <2>1, Zenon DEF Fetched
<1> HIDE DEF e, ps
<1>4. OnePath'
  BY <1>1, SMTT(30) DEF FifoInv, OnePath, Direct
<1>5. Follows(wire, 0, log)'
  <2>1. Follows(wire, 0, log \o ps)
    BY <1>1, <1>2, FollowsGrows, SMTT(30) DEF FifoInv
  <2>2. wire' = wire /\ log' = log \o ps
    BY <1>1, Zenon
  <2> QED
    BY <2>1, <2>2, Zenon DEF Follows
<1>6. ASSUME error = "none" PROVE InOrder'
  <2>1. Follows(Fetched, 0, log) /\ InOrder
    BY <1>6, SMTT(30) DEF FifoInv, InOrder
  <2>2. Follows(Fetched, 0, log \o ps)
    BY <1>1, <1>2, <1>3, <2>1, FollowsGrows
  <2>3. PICK off \in [0 .. Len(send_list) -> 0 .. Len(log)] :
           Chain(off, Len(Fetched), send_list, log, kind)
    BY <2>1, SMTT(30) DEF InOrder
  <2> DEFINE n == Len(send_list)
             new == [k \in 0 .. n + 1 |-> IF k <= n THEN off[k] ELSE Len(log) + Len(ps)]
             list == Append(send_list, e)
             l == log \o ps
  <2>4. /\ Len(list) = n + 1 /\ \A k \in 1 .. n : list[k] = send_list[k]
        /\ list[n + 1] = e
    BY <1>1, <1>2, AppendProperties, SMTT(30)
  <2>5. Len(l) = Len(log) + Len(ps)
    BY <1>1, <1>2, ConcatProperties, SMTT(30)
  <2> HIDE DEF list, l
  <2>6. new \in [0 .. n + 1 -> 0 .. Len(l)]
    BY <1>1, <1>2, <2>5, SMTT(30)
  <2>7. /\ off[0] = Len(Fetched) /\ off[n] = Len(log)
        /\ \A k \in 1 .. n : off[k] = off[k - 1] + Len(PiecesOf(kind, send_list[k]))
                             /\ Follows(PiecesOf(kind, send_list[k]), off[k - 1], log)
    BY <2>3, SMTT(30) DEF Chain
  <2>8. new[0] = Len(Fetched) /\ new[n + 1] = Len(l)
        /\ \A k \in 0 .. n : new[k] = off[k]
    BY <1>1, <1>2, <2>5, <2>7, SMTT(30)
  <2> HIDE DEF new
  <2>9. ASSUME NEW k \in 1 .. n + 1
        PROVE  new[k] = new[k - 1] + Len(PiecesOf(kind, list[k])) /\ Follows(PiecesOf(kind, list[k]), new[k - 1], l)
    <3>1. CASE k \in 1 .. n
      <4>1. new[k] = off[k] /\ new[k - 1] = off[k - 1] /\ list[k] = send_list[k]
            /\ off[k - 1] \in Nat
        BY <1>2, <2>4, <2>8, <3>1
      <4>2. send_list[k] \in Entry
        BY <1>2, <3>1, ElementOfSeq
      <4>3. PiecesOf(kind, send_list[k]) \in Seq(Piece)
        BY <4>2, PiecesType, PiecesSame DEF TypeInv, TypeOK
      <4>4. Follows(PiecesOf(kind, send_list[k]), off[k - 1], l)
        BY <1>1, <1>2, <2>7, <3>1, <4>1, <4>3, FollowsGrows, Zenon DEF l
      <4> QED
        BY <2>7, <3>1, <4>1, <4>4, Zenon
    <3>2. CASE k = n + 1
      <4>1. k - 1 = n /\ n \in 0 .. n
        BY <1>2, <3>2
      <4>3. new[k - 1] = Len(log) /\ list[k] = e
        BY <2>4, <2>7, <2>8, <3>2, <4>1, Zenon
      <4>2. Follows(ps, Len(log), l)
        BY <1>1, <1>2, FollowsEnd DEF l
      <4> QED
        BY <2>5, <2>8, <3>2, <4>2, <4>3 DEF ps
    <3> QED
      BY <1>2, <3>1, <3>2
  <2>10. Chain(new, Len(Fetched), list, l, kind)
    BY <2>4, <2>6, <2>8, <2>9, Zenon DEF Chain
  <2>11. PICK g : g = new
    OBVIOUS
  <2>12. Chain(g, Len(Fetched), send_list, log, kind)'
    <3>1. Chain(g, Len(Fetched), list, l, kind)
      BY <2>10, <2>11, SMTT(30)
    <3> QED
      BY <1>1, <1>3, <3>1, Zenon DEF Chain, Follows, list, l
  <2>13. g \in [0 .. Len(send_list') -> 0 .. Len(log')]
    BY <1>1, <2>4, <2>6, <2>11, SMTT(30) DEF list, l
  <2>14. Follows(Fetched, 0, log)'
    BY <1>1, <1>3, <2>2, SMTT(30) DEF Follows
  <2> QED
    BY <2>12, <2>13, <2>14, SMTT(30) DEF InOrder
<1> QED
  BY <1>1, <1>4, <1>5, <1>6 DEF FifoInv

(* A step that moves pieces within what io_work has fetched keeps the      *)
(* order.                                                                  *)
LEMMA InOrderKept ==
    ASSUME InOrder, UNCHANGED <<log, send_list, kind>>, Fetched' = Fetched
    PROVE  InOrder'
<1>1. PICK off \in [0 .. Len(send_list) -> 0 .. Len(log)] :
           Chain(off, Len(Fetched), send_list, log, kind)
  BY SMTT(30) DEF InOrder
<1>2. Chain(off, Len(Fetched), send_list, log, kind)'
  BY <1>1, SMTT(30) DEF Chain, Follows
<1>3. Follows(Fetched, 0, log)'
  BY DEF InOrder, Follows
<1>4. off \in [0 .. Len(send_list') -> 0 .. Len(log')]
  BY <1>1, SMTT(30)
<1> QED
  BY <1>2, <1>3, <1>4 DEF InOrder

(* Without data digests every piece of a request goes into a caravan. *)
LEMMA NoDigest ==
    ASSUME NEW e \in Entry, kind \in [Req -> Kinds], DataDigest = FALSE
    PROVE  \A i \in DOMAIN Pieces(e) : Pieces(e)[i][2] # "ddgst"
<1> DEFINE n == PagesOf(e)
           hd == <<<<e[1], e[2], 0>>>>
           body == [i \in 1 .. n |-> <<e[1], "data", i>>]
           P == Req \X {"cmd", "h2c", "data"} \X (0 .. MaxPages)
<1>1. n \in 0 .. MaxPages /\ MaxPages \in Nat
  BY PagesType, QueueAssumption
<1>2. hd \in Seq(P)
  BY <1>1 DEF Entry
<1>3. body \in Seq(P)
  BY <1>1 DEF Entry
<1>4. Pieces(e) = hd \o body \o <<>>
  BY Zenon DEF Pieces
<1> HIDE DEF hd, body, n, P
<1>5. Pieces(e) \in Seq(P)
  <2>1. hd \o body \in Seq(P)
    BY <1>2, <1>3, ConcatProperties
  <2>2. (hd \o body) \o <<>> \in Seq(P)
    BY <2>1, ConcatEmptySeq
  <2> QED
    BY <1>4, <2>2
<1>6. \A i \in DOMAIN Pieces(e) : Pieces(e)[i] \in P
  BY <1>5, LenProperties, ElementOfSeq, SMTT(30)
<1>7. \A p \in P : p[2] # "ddgst"
  BY SMTT(30) DEF P
<1> QED
  BY <1>6, <1>7, SMTT(30)

(* Fetching a request moves it from send_list to what io_work has fetched. *)
LEMMA FetchKeeps ==
    ASSUME Lossless, TypeInv, FifoInv, FetchRequest
    PROVE  FifoInv'
<1> DEFINE e == Head(send_list)
           ps == PiecesOf(kind, e)
<1>1. /\ send_list \in Seq(Entry) /\ send_list # <<>> /\ e \in Entry /\ e = send_list[1]
      /\ Len(send_list) \in Nat \ {0} /\ todo = <<>>
  <2>1. send_list \in Seq(Entry) /\ send_list # <<>> /\ todo = <<>>
    BY SMTT(30) DEF FetchRequest, TypeInv, TypeOK
  <2> QED
    BY <2>1, HeadTailProperties, EmptySeq, SMTT(30)
<1>2. ps \in Seq(Piece) /\ ps = Pieces(e) /\ Len(ps) \in Nat
  BY <1>1, PiecesType, PiecesSame, LenProperties DEF TypeInv, TypeOK
<1>3. /\ send_list' = Tail(send_list) /\ todo' = ps
      /\ UNCHANGED <<wire, caravan, log, error, kind>>
  <2>1. todo' = Pieces(e) /\ send_list' = Tail(send_list)
        /\ UNCHANGED <<wire, caravan, log, error, kind>>
    BY Zenon DEF FetchRequest, sockVars
  <2> QED
    BY <1>2, <2>1
<1>4. /\ wire \in Seq(Piece) /\ caravan \in Seq(Piece) /\ log \in Seq(Piece)
      /\ Len(log) \in Nat
  BY LenProperties, SMTT(30) DEF TypeInv, TypeOK
<1>5. OnePath'
  <2>1. ~Legacy => \A i \in DOMAIN todo' : todo'[i][2] # "ddgst"
    <3>1. ~Legacy => DataDigest = FALSE
      BY QueueAssumption, SMTT(30) DEF Lossless
    <3>2. kind \in [Req -> Kinds]
      BY SMTT(30) DEF TypeInv, TypeOK
    <3> QED
      BY <1>1, <1>2, <1>3, <3>1, <3>2, NoDigest, Zenon
  <2>2. Legacy => caravan' = <<>>
    BY <1>3, SMTT(30) DEF FifoInv, OnePath
  <2> QED
    BY <2>1, <2>2 DEF OnePath, Direct
<1>6. Follows(wire, 0, log)'
  BY <1>3 DEF FifoInv, Follows
<1>7. ASSUME error = "none" PROVE InOrder'
  <2>1. InOrder
    BY <1>7 DEF FifoInv
  <2>2. PICK off \in [0 .. Len(send_list) -> 0 .. Len(log)] :
           Chain(off, Len(Fetched), send_list, log, kind)
    BY <2>1, SMTT(30) DEF InOrder
  <2>3. wire \o caravan \in Seq(Piece)
    BY <1>4, ConcatProperties
  <2>4. Fetched = wire \o caravan /\ Fetched \in Seq(Piece)
    BY <1>1, <2>3, ConcatEmptySeq DEF Fetched
  <2>5. Fetched' = Fetched \o ps
    BY <1>3, <2>4, SMTT(30) DEF Fetched
  <2> DEFINE n == Len(send_list)
  <2>6. /\ off[0] = Len(Fetched) /\ off[n] = Len(log)
        /\ \A k \in 1 .. n : off[k] = off[k - 1] + Len(PiecesOf(kind, send_list[k]))
                             /\ Follows(PiecesOf(kind, send_list[k]), off[k - 1], log)
    BY <2>2 DEF Chain
  <2>7. off[1] = Len(Fetched) + Len(ps) /\ Follows(ps, Len(Fetched), log)
    <3>1. 1 \in 1 .. n /\ 1 - 1 = 0
      BY <1>1, SMTT(30)
    <3>2. /\ off[1] = off[1 - 1] + Len(PiecesOf(kind, send_list[1]))
          /\ Follows(PiecesOf(kind, send_list[1]), off[1 - 1], log)
      BY <2>6, <3>1, SMTT(30)
    <3>3. PiecesOf(kind, send_list[1]) = ps /\ off[1 - 1] = Len(Fetched)
      BY <1>1, <2>6, <3>1
    <3> HIDE DEF ps
    <3> QED
      BY <3>2, <3>3
  <2>8. Follows(Fetched \o ps, 0, log)
    <3>1. 0 + Len(Fetched) = Len(Fetched) /\ Follows(Fetched, 0, log) /\ 0 \in Nat
      BY <2>1, <2>4, LenProperties DEF InOrder
    <3>2. ps \in Seq(Piece) /\ log \in Seq(Piece) /\ Fetched \in Seq(Piece)
      BY <1>2, <1>4, <2>4
    <3> HIDE DEF ps
    <3>3. Follows(ps, 0 + Len(Fetched), log)
      BY <2>7, <3>1
    <3> QED
      BY <3>1, <3>2, <3>3, FollowsConcat, Zenon
  <2>9. Len(Fetched \o ps) = Len(Fetched) + Len(ps)
    BY <1>2, <2>4, ConcatProperties, Zenon
  <2>10. /\ Tail(send_list) \in Seq(Entry) /\ Len(Tail(send_list)) = n - 1
         /\ \A k \in 1 .. n - 1 : Tail(send_list)[k] = send_list[k + 1]
    BY <1>1, HeadTailProperties
  <2>11. PICK g : g = [k \in 0 .. n - 1 |-> off[k + 1]]
    OBVIOUS
  <2>12. g \in [0 .. n - 1 -> 0 .. Len(log)] /\ \A k \in 0 .. n - 1 : g[k] = off[k + 1]
    BY <1>1, <2>11, SMTT(30)
  <2>13. g[0] = Len(Fetched \o ps) /\ g[n - 1] = Len(log)
    <3>1. 0 \in 0 .. n - 1 /\ n - 1 \in 0 .. n - 1 /\ 0 + 1 = 1 /\ (n - 1) + 1 = n
      BY <1>1
    <3> QED
      BY <2>6, <2>7, <2>9, <2>12, <3>1
  <2>14. ASSUME NEW k \in 1 .. n - 1
         PROVE  /\ g[k] = g[k - 1] + Len(PiecesOf(kind, Tail(send_list)[k]))
                /\ Follows(PiecesOf(kind, Tail(send_list)[k]), g[k - 1], log)
    <3>1. /\ k \in 0 .. n - 1 /\ k - 1 \in 0 .. n - 1 /\ (k - 1) + 1 = k
          /\ (k + 1) - 1 = k /\ k + 1 \in 1 .. n
      BY <1>1, SMTT(30)
    <3>2. g[k] = off[k + 1] /\ g[k - 1] = off[k] /\ Tail(send_list)[k] = send_list[k + 1]
      BY <2>10, <2>12, <3>1, SMTT(30)
    <3>3. /\ off[k + 1] = off[(k + 1) - 1] + Len(PiecesOf(kind, send_list[k + 1]))
          /\ Follows(PiecesOf(kind, send_list[k + 1]), off[(k + 1) - 1], log)
      BY <2>6, <3>1
    <3> QED
      BY <3>1, <3>2, <3>3, Zenon
  <2>15. Chain(g, Len(Fetched \o ps), Tail(send_list), log, kind)
    BY <2>10, <2>12, <2>13, <2>14, Zenon DEF Chain
  <2>16. Chain(g, Len(Fetched), send_list, log, kind)'
    BY <1>3, <2>5, <2>15, Zenon DEF Chain, Follows
  <2>17. g \in [0 .. Len(send_list') -> 0 .. Len(log')]
    BY <1>3, <2>10, <2>12
  <2>18. Follows(Fetched, 0, log)'
    BY <1>3, <2>5, <2>8, Zenon DEF Follows
  <2> QED
    BY <2>16, <2>17, <2>18 DEF InOrder
<1> QED
  BY <1>3, <1>5, <1>6, <1>7 DEF FifoInv

(* Packing a piece moves it from the request at hand to the caravan. *)
LEMMA PackKeeps ==
    ASSUME TypeInv, FifoInv, [Next]_vars, PackPiece
    PROVE  FifoInv'
<1>1. /\ todo \in Seq(Piece) /\ todo # <<>> /\ caravan \in Seq(Piece) /\ wire \in Seq(Piece)
      /\ Head(todo) = todo[1] /\ 1 \in DOMAIN todo /\ Tail(todo) \in Seq(Piece)
  <2>1. todo \in Seq(Piece) /\ todo # <<>> /\ caravan \in Seq(Piece) /\ wire \in Seq(Piece)
    BY DEF TypeInv, TypeOK, PackPiece, IoAt
  <2> QED
    BY <2>1, SMTT(30)
<1>2. /\ caravan' = Append(caravan, Head(todo)) /\ todo' = Tail(todo)
      /\ UNCHANGED <<wire, send_list, log, error, kind>>
  BY Zenon DEF PackPiece, PieceDone, submitVars, sockVars
<1>3. OnePath'
  <2>1. ~Legacy
    BY QueueAssumption DEF PackPiece, Direct
  <2>2. \A i \in DOMAIN Tail(todo) : i + 1 \in DOMAIN todo /\ Tail(todo)[i] = todo[i + 1]
    BY <1>1, SMTT(30)
  <2>3. \A i \in DOMAIN todo : todo[i][2] # "ddgst"
    BY <2>1, SMTT(30) DEF FifoInv, OnePath, Direct
  <2>4. \A i \in DOMAIN todo' : todo'[i][2] # "ddgst"
    BY <1>2, <2>2, <2>3
  <2> QED
    BY <2>1, <2>4, SMTT(30) DEF OnePath, Direct
<1>4. Follows(wire, 0, log)'
  BY <1>2 DEF FifoInv, Follows
<1>5. Fetched' = Fetched
  <2>1. /\ wire \o caravan \in Seq(Piece) /\ Append(caravan, Head(todo)) \in Seq(Piece)
        /\ Head(todo) \in Piece /\ <<Head(todo)>> \in Seq(Piece)
    BY <1>1, ConcatProperties, HeadTailProperties
  <2>2. Append(caravan, Head(todo)) = caravan \o <<Head(todo)>>
    BY <1>1, <2>1, AppendIsConcat
  <2>3. wire \o Append(caravan, Head(todo)) = (wire \o caravan) \o <<Head(todo)>>
    BY <1>1, <2>1, <2>2, ConcatAssociative
  <2>4. (wire \o caravan) \o <<Head(todo)>> = Append(wire \o caravan, Head(todo))
    BY <2>1, AppendIsConcat
  <2>5. Append(wire \o caravan, Head(todo)) \o Tail(todo) = (wire \o caravan) \o todo
    BY <1>1, <2>1, MovePiece, Zenon
  <2> QED
    BY <1>2, <2>3, <2>4, <2>5, Zenon DEF Fetched
<1>6. error = "none" => InOrder'
  BY <1>2, <1>5, InOrderKept DEF FifoInv
<1> QED
  BY <1>2, <1>3, <1>4, <1>6 DEF FifoInv

(* A send that does not fail finds the connection open. *)
LEMMA OpenToSend ==
    ASSUME Lossless, TypeInv, error # "EPIPE"
    PROVE  error = "none"
  BY DEF Lossless, TypeInv, TypeOK

(* On the legacy path a piece goes from the request at hand to the wire. *)
LEMMA SendPieceKeeps ==
    ASSUME Lossless, TypeInv, FifoInv, SendPiece
    PROVE  FifoInv' /\ Fetched' = Fetched
<1>1. todo \in Seq(Piece) /\ todo # <<>> /\ wire \in Seq(Piece) /\ log \in Seq(Piece)
  BY Zenon DEF TypeInv, TypeOK, SendPiece, IoAt
<1>2. /\ wire' = Append(wire, Head(todo)) /\ todo' = Tail(todo) /\ error # "EPIPE"
      /\ Direct(Head(todo)) /\ UNCHANGED <<caravan, send_list, log, error, kind>>
  BY Zenon DEF SendPiece, PieceDone, submitVars
<1>3. Legacy /\ caravan = <<>>
  <2>1. Head(todo) = todo[1] /\ 1 \in DOMAIN todo
    BY <1>1, SMTT(30)
  <2> QED
    BY <1>2, <2>1 DEF FifoInv, OnePath
<1>4. OnePath'
  BY <1>2, <1>3 DEF OnePath
<1>5. error = "none" /\ InOrder
  BY <1>2, OpenToSend, SMTT(30) DEF FifoInv
<1>6. wire' \in Seq(Piece) /\ Tail(todo) \in Seq(Piece)
  BY <1>1, <1>2, HeadTailProperties, AppendProperties, SMTT(30)
<1>7. Fetched' = wire' \o Tail(todo) /\ Fetched = wire \o todo
  BY <1>1, <1>2, <1>3, <1>6, ConcatEmptySeq, SMTT(30) DEF Fetched
<1>8. Fetched' = Fetched
  BY <1>1, <1>2, <1>7, MovePiece, Zenon
<1>9. InOrder'
  BY <1>2, <1>5, <1>8, InOrderKept
<1>10. Follows(wire', 0, log)
  <2>1. Follows(wire' \o Tail(todo), 0, log)
    BY <1>5, <1>7, <1>8, Zenon DEF InOrder
  <2>2. 0 \in Nat
    OBVIOUS
  <2> QED
    BY <1>1, <1>6, <2>1, <2>2, FollowsConcat, Zenon
<1>11. Follows(wire, 0, log)'
  BY <1>2, <1>10 DEF Follows
<1> QED
  BY <1>4, <1>8, <1>9, <1>11 DEF FifoInv

(* A caravan goes to the wire as a whole. *)
LEMMA SendCaravanKeeps ==
    ASSUME Lossless, TypeInv, FifoInv, SendCaravan
    PROVE  FifoInv' /\ wire' = wire \o caravan
<1>1. /\ todo \in Seq(Piece) /\ wire \in Seq(Piece) /\ caravan \in Seq(Piece)
      /\ log \in Seq(Piece)
  BY DEF TypeInv, TypeOK
<1>2. /\ caravan' = <<>> /\ error # "EPIPE"
      /\ UNCHANGED <<todo, send_list, log, error, kind>>
  BY Zenon DEF SendCaravan, submitVars
<1>3. wire' = wire \o caravan
  <2>1. wire' = wire \o SubSeq(caravan, 1, Len(caravan))
    BY SMTT(30) DEF SendCaravan, Lossless
  <2> QED
    BY <1>1, <2>1, SubSeqFull, SMTT(30)
<1>4. OnePath'
  BY <1>2 DEF FifoInv, OnePath, Direct
<1>5. error = "none" /\ InOrder
  BY <1>2, OpenToSend, SMTT(30) DEF FifoInv
<1>6. wire \o caravan \in Seq(Piece)
  BY <1>1, ConcatProperties
<1>7. Fetched' = Fetched
  BY <1>2, <1>3, <1>6, ConcatEmptySeq, SMTT(30) DEF Fetched
<1>8. InOrder'
  BY <1>2, <1>5, <1>7, InOrderKept
<1>9. Follows(wire \o caravan, 0, log)
  <2>1. Follows((wire \o caravan) \o todo, 0, log)
    BY <1>5, SMTT(30) DEF InOrder, Fetched
  <2>2. 0 \in Nat
    OBVIOUS
  <2> QED
    BY <1>1, <1>6, <2>1, <2>2, FollowsConcat, Zenon
<1>10. Follows(wire, 0, log)'
  BY <1>2, <1>3, <1>9, SMTT(30) DEF Follows
<1> QED
  BY <1>3, <1>4, <1>8, <1>10, SMTT(30) DEF FifoInv

(* A send that failed sends nothing, and nothing is sent after it. *)
LEMMA FailKeeps ==
    ASSUME Lossless, TypeInv, FifoInv, NEW e \in SendError, SendFails(e)
    PROVE  FifoInv'
<1>1. e # "none"
  BY DEF SendError, Lossless
<1>2. error' = e /\ todo' = <<>> /\ UNCHANGED <<wire, caravan, log, kind>>
  BY Zenon DEF SendFails, submitVars
<1>3. OnePath'
  BY <1>2, SMTT(30) DEF FifoInv, OnePath
<1>4. Follows(wire, 0, log)'
  BY <1>2 DEF FifoInv, Follows
<1> QED
  BY <1>1, <1>2, <1>3, <1>4 DEF FifoInv

(* Every step keeps the order of the stream. *)
LEMMA FifoNext ==
    ASSUME Lossless
    PROVE  TypeInv /\ FifoInv /\ [Next]_vars => FifoInv'
<1> SUFFICES ASSUME TypeInv, FifoInv, [Next]_vars PROVE FifoInv'
  OBVIOUS
<1>1. CASE UNCHANGED <<wire, caravan, todo, send_list, log, error>>
  <2>1. kind' = kind
    BY KindFixed
  <2>2. Fetched' = Fetched
    BY <1>1 DEF Fetched
  <2>3. InOrder => InOrder'
    BY <1>1, <2>1, <2>2, InOrderKept
  <2>4. OnePath' /\ Follows(wire, 0, log)'
    BY <1>1, Zenon DEF FifoInv, OnePath, Follows
  <2> QED
    BY <1>1, <2>3, <2>4 DEF FifoInv
<1>2. ASSUME NEW c \in Ctx, Enqueue(c) PROVE FifoInv'
  BY <1>2, EnqueueKeeps
<1>3. CASE FetchRequest
  BY <1>3, FetchKeeps
<1>4. CASE PackPiece
  BY <1>4, PackKeeps
<1>5. CASE SendPiece
  BY <1>5, SendPieceKeeps
<1>6. CASE SendCaravan
  BY <1>6, SendCaravanKeeps
<1>7. ASSUME NEW e \in SendError, SendFails(e) PROVE FifoInv'
  BY <1>7, FailKeeps
<1> QED
  BY <1>1, <1>2, <1>3, <1>4, <1>5, <1>6, <1>7, StreamSteps, Zenon

(* A sequence that the log begins with is what the log begins with. *)
LEMMA FollowsPrefix ==
    ASSUME NEW S, NEW s \in Seq(S), NEW l \in Seq(S), Follows(s, 0, l)
    PROVE  s = SubSeq(l, 1, Len(s)) /\ Len(s) <= Len(l)
<1>1. Len(s) \in Nat /\ Len(l) \in Nat /\ Len(s) <= Len(l)
  BY LenProperties, SMTT(30) DEF Follows
<1>2. \A i \in 1 .. Len(s) : l[i] = s[i]
  BY <1>1, SMTT(30) DEF Follows
<1>3. /\ SubSeq(l, 1, Len(s)) \in Seq(S) /\ Len(SubSeq(l, 1, Len(s))) = Len(s)
      /\ \A i \in 1 .. Len(s) : SubSeq(l, 1, Len(s))[i] = l[i]
  BY <1>1, SMTT(30)
<1>4. \A i \in 1 .. Len(s) : s[i] = SubSeq(l, 1, Len(s))[i]
  BY <1>2, <1>3, SMTT(30)
<1> HIDE DEF Follows
<1>5. s = SubSeq(l, 1, Len(s))
  BY <1>3, <1>4, SeqEqual
<1> QED
  BY <1>1, <1>5, SMTT(30)

(* A step of the queue accepts pieces, delivers some, or is none of the    *)
(* channel's business.                                                     *)
LEMMA FifoSteps ==
    ASSUME Lossless
    PROVE  TypeInv /\ FifoInv /\ FifoInv' /\ [Next]_vars => [Channel!Next]_<<log, wire>>
<1> SUFFICES ASSUME TypeInv, FifoInv, FifoInv', [Next]_vars
             PROVE  [Channel!Next]_<<log, wire>>
  OBVIOUS
<1>0. /\ wire \in Seq(Piece) /\ log \in Seq(Piece) /\ caravan \in Seq(Piece)
      /\ todo \in Seq(Piece)
  BY DEF TypeInv, TypeOK
<1>1. CASE UNCHANGED <<wire, caravan, todo, send_list, log, error>>
  BY <1>1
<1>2. ASSUME NEW c \in Ctx, Enqueue(c) PROVE Channel!Next
  <2>1. PICK ps : ps = Pieces(EntryOf(c))
    OBVIOUS
  <2>2. EntryOf(c) \in Entry /\ kind \in [Req -> Kinds]
    BY <1>2, Zenon DEF TypeInv, TypeOK, Enqueue, At, EntryOf, Entry
  <2>3. ps \in Seq(Piece) /\ ps # <<>> /\ Len(ps) \in Nat
    BY <2>1, <2>2, PiecesType, LenProperties, SMTT(30)
  <2>4. log' = log \o ps /\ wire' = wire
    BY <1>2, <2>1, SMTT(30) DEF Enqueue, sockVars
  <2>5. /\ log' \in Seq(Piece) /\ Len(log') = Len(log) + Len(ps) /\ Len(log) \in Nat
    BY <1>0, <2>3, <2>4, ConcatProperties, LenProperties
  <2>6. Len(log') > Len(log)
    BY <2>3, <2>5, EmptySeq, SMTT(30)
  <2>7. Follows(log, 0, log \o ps)
    BY <1>0, <2>3, FollowsEnd, SMTT(30)
  <2>8. log = SubSeq(log \o ps, 1, Len(log))
    BY <1>0, <2>4, <2>5, <2>7, FollowsPrefix
  <2> QED
    BY <2>4, <2>6, <2>8 DEF Channel!Next, Channel!Accept
<1>3. ASSUME wire' \in Seq(Piece), log' = log, Len(wire') > Len(wire) PROVE Channel!Next
  <2>1. Follows(wire', 0, log)
    BY <1>3 DEF FifoInv, Follows
  <2>2. wire' = SubSeq(log, 1, Len(wire')) /\ Len(wire') <= Len(log)
    BY <1>0, <1>3, <2>1, FollowsPrefix
  <2>3. Len(wire') \in Len(wire) + 1 .. Len(log)
    BY <1>0, <1>3, <2>2, LenProperties
  <2> QED
    BY <1>3, <2>2, <2>3, Zenon DEF Channel!Next, Channel!Deliver
<1>4. CASE SendPiece
  <2>1. wire' = Append(wire, Head(todo)) /\ log' = log
    BY <1>4, Zenon DEF SendPiece, PieceDone, submitVars
  <2>2. todo # <<>>
    BY <1>4, Zenon DEF SendPiece, IoAt, TypeInv, TypeOK
  <2>3. wire' \in Seq(Piece) /\ Len(wire') = Len(wire) + 1
    BY <1>0, <2>1, <2>2, HeadTailProperties, AppendProperties
  <2> QED
    BY <1>0, <1>3, <2>1, <2>3, LenProperties
<1>5. CASE SendCaravan
  <2>1. wire' = wire \o caravan /\ log' = log
    BY <1>5, SendCaravanKeeps, Zenon DEF SendCaravan, submitVars
  <2>2. wire' \in Seq(Piece) /\ Len(wire') = Len(wire) + Len(caravan)
    BY <1>0, <2>1, ConcatProperties
  <2>3. CASE caravan = <<>>
    BY <1>0, <2>1, <2>3, ConcatEmptySeq
  <2>4. CASE caravan # <<>>
    <3>1. Len(caravan) \in Nat /\ Len(caravan) # 0 /\ Len(wire) \in Nat
      BY <1>0, <2>4, EmptySeq, LenProperties
    <3> QED
      BY <1>3, <2>1, <2>2, <3>1
  <2> QED
    BY <2>3, <2>4
<1>6. CASE FetchRequest \/ PackPiece \/ \E e \in SendError : SendFails(e)
  <2>1. UNCHANGED <<log, wire>>
    BY <1>6, Zenon DEF FetchRequest, PackPiece, PieceDone, SendFails, submitVars, sockVars
  <2> QED
    BY <2>1
<1> QED
  BY <1>1, <1>2, <1>4, <1>5, <1>6, StreamSteps, Zenon

(* The send side implements a FIFO channel: however submitters, timer and  *)
(* io_work interleave, and whenever the peer closes, what reached the      *)
(* socket is the beginning of what was queued, piece by piece.             *)
THEOREM FifoCorrect == Lossless => (Spec => FifoStream)
<1> SUFFICES ASSUME Lossless PROVE Spec => FifoStream
  OBVIOUS
<1>1. Init => FifoInv /\ Channel!Init
  <2> SUFFICES ASSUME Init PROVE FifoInv /\ Channel!Init
    OBVIOUS
  <2>1. /\ wire = <<>> /\ caravan = <<>> /\ todo = <<>> /\ send_list = <<>> /\ log = <<>>
    BY DEF Init
  <2>2. Fetched = <<>>
    BY <2>1 DEF Fetched
  <2>3. Follows(<<>>, 0, <<>>)
    BY DEF Follows
  <2>4. Chain([k \in 0 .. 0 |-> 0], 0, <<>>, <<>>, kind)
    BY SMTT(30) DEF Chain
  <2>5. InOrder
    <3>1. [k \in 0 .. 0 |-> 0] \in [0 .. Len(send_list) -> 0 .. Len(log)]
      BY <2>1
    <3>2. Len(Fetched) = 0
      BY <2>2
    <3> QED
      BY <2>1, <2>2, <2>3, <2>4, <3>1, <3>2 DEF InOrder
  <2> QED
    BY <2>1, <2>3, <2>5 DEF FifoInv, OnePath, Channel!Init
<1>2. TypeInv /\ FifoInv /\ [Next]_vars => FifoInv'
  BY FifoNext
<1>3. TypeInv /\ FifoInv /\ FifoInv' /\ [Next]_vars => [Channel!Next]_<<log, wire>>
  BY FifoSteps
<1>4. IInv => TypeInv
  BY DEF IInv
<1> QED
  BY <1>1, <1>2, <1>3, <1>4, Inductive, PTL DEF Spec, FifoStream, Channel!Spec
=============================================================================
