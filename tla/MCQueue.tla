------------------------------ MODULE MCQueue ------------------------------
(***************************************************************************)
(* NvmeTcpQueue for TLC.  A behaviour of the run is one of one part: the   *)
(* state space is the sum of those of the parts.  All parts have the same  *)
(* requests and aggregation size, so that the properties of NvmeTcpQueue   *)
(* are read with the constants of the configuration in every part.         *)
(***************************************************************************)
EXTENDS NvmeTcpQueue, TLC

VARIABLE part

Kind(nodelay, inline, solicited) ==
    [nodelay |-> nodelay, inline |-> inline, solicited |-> solicited]

Read == Kind(FALSE, 0, 0)          \* a command PDU only, may be delayed
Write == Kind(FALSE, 1, 0)         \* in-capsule data
LargeWrite == Kind(FALSE, 0, 1)    \* data asked for by an R2T
Flush == Kind(TRUE, 0, 0)          \* no bio data: must not be delayed
FuaWrite == Kind(TRUE, 2, 0)       \* a flag outside I10_ALLOWED_FLAGS
FuaLarge == Kind(TRUE, 0, 1)       \* the same, with data asked for by an R2T

Reads == {Read}
DelayedKinds == {Read, Write}
LiveKinds == {LargeWrite, Flush, FuaWrite}
AllKinds == {Read, Write, LargeWrite, Flush, FuaWrite, FuaLarge}

\* A write with in-capsule data and one with data asked for by an R2T, against
\* full arrays, a full socket and a broken connection.
Data == INSTANCE NvmeTcpQueue WITH SndBuf <- 5, SameCpu <- FALSE
\* Submitters on CPUs of their own.
Mixed == INSTANCE NvmeTcpQueue WITH SameCpu <- FALSE
\* The legacy path with digests and a socket smaller than a request.
Old == INSTANCE NvmeTcpQueue WITH SndBuf <- 2, Legacy <- TRUE, DataDigest <- TRUE,
    SameCpu <- FALSE

\* Two requests of the kinds a and b; a third, a Read, is never submitted.
Submits(a, b) ==
    /\ \A k \in {a, b, Read} : \E r \in Req : kind[r] = k
    /\ \A r \in Req : kind[r] \in {a, b, Read}
ReadsStayOut == \A r \in Req : kind[r] = Read => pc'[r] = "enter"

ConnectionHolds == error' = "none"

MCInit ==
    \* Two requests that may be delayed and one that may not.
    \/ part = "mixed" /\ Mixed!Init /\ \E f \in Req : \A r \in Req :
          kind[r] = IF r = f THEN Flush ELSE Read
    \/ part = "data" /\ Data!Init /\ Submits(LargeWrite, FuaWrite)
    \* Requests that may be delayed only, all submitted on io_cpu.
    \/ part = "delay" /\ Init /\ \A r \in Req : kind[r] = Read
    \/ part = "legacy" /\ Old!Init /\ Submits(FuaLarge, FuaWrite)

MCNext ==
    /\ part' = part
    /\ \/ part = "mixed" /\ Mixed!Next /\ ConnectionHolds
       \/ part = "data" /\ Data!Next /\ ReadsStayOut
       \/ part = "delay" /\ Next /\ ConnectionHolds
       \/ part = "legacy" /\ Old!Next /\ ReadsStayOut

MCSpec == MCInit /\ [][MCNext]_<<part, vars>>

\* One behaviour space, that of the constants of the configuration.
OneSpec == part = "one" /\ Init /\ [][Next /\ part' = part]_<<part, vars>>

Symmetry == Permutations(Req)

-----------------------------------------------------------------------------
(* Progress: on the caravan path with the constants of the configuration,  *)
(* and on the legacy path.                                                 *)

LiveOld == INSTANCE NvmeTcpQueue WITH AggregationSize <- 2, SndBuf <- 2, Legacy <- TRUE,
    DataDigest <- TRUE, SameCpu <- FALSE, SendErrors <- {"EPIPE"}

\* The kinds of the two requests; that they change places makes no difference.
Are(a, b) == kind["r1"] = a /\ kind["r2"] = b

LiveInit ==
    \/ /\ part = "queue" /\ Init
       /\ Are(Flush, Flush) \/ Are(Flush, LargeWrite) \/ Are(LargeWrite, LargeWrite)
    \/ /\ part = "legacy" /\ LiveOld!Init
       /\ Are(FuaWrite, FuaWrite) \/ Are(FuaWrite, LargeWrite)

LiveNext ==
    /\ part' = part
    /\ \/ part = "queue" /\ Next
       \/ part = "legacy" /\ LiveOld!Next

\* As in NvmeTcpQueue; on the legacy path the target also reads on.
QueueFairness ==
    /\ \A c \in Req \cup {IO} :
          WF_vars(part = "queue" /\ (c = IO \/ pc[c] # "enter") /\ QueueRequest(c))
    /\ WF_vars(part = "queue" /\ Timer)
    /\ WF_vars(part = "queue" /\ IoWork)
LegacyFairness ==
    /\ \A c \in Req \cup {IO} :
          WF_vars(part = "legacy" /\ (c = IO \/ pc[c] # "enter") /\ LiveOld!QueueRequest(c))
    /\ WF_vars(part = "legacy" /\ LiveOld!Timer)
    /\ WF_vars(part = "legacy" /\ LiveOld!IoWork)
    /\ WF_vars(part = "legacy" /\ LiveOld!Ack)

LiveSpec == LiveInit /\ [][LiveNext]_<<part, vars>> /\ QueueFairness /\ LegacyFairness

-----------------------------------------------------------------------------
\* A no-delay command gets to the socket whatever the timer does.
NoDelayServed == part = "queue" => NoDelaySent
=============================================================================
