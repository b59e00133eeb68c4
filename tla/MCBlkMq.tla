------------------------------ MODULE MCBlkMq ------------------------------
(***************************************************************************)
(* Instances of the blk-mq modules for TLC.  A behaviour is one of one     *)
(* part: the state space is the sum of those of the parts.  BlkDispatch    *)
(* and BlkMap are extended, not instantiated, for the part with a          *)
(* scheduler and one driver tag and the part in which a hctx can always be *)
(* allocated; the configuration gives their constants.                     *)
(***************************************************************************)
EXTENDS Integers, FiniteSets, BlkDispatch, BlkMap

VARIABLE part

mcVars == <<part, vars, mapVars>>

\* Three CPUs on two nodes.
MCNodeOf == [c \in 0 .. 2 |-> c % 2]

\* Tags shared with another queue; no scheduler.
Shrd == INSTANCE BlkDispatch WITH NrTags <- 1, Elevator <- TRUE, Shared <- TRUE,
          Results <- {"resource"}, MaxRefused <- 1, MaxPauses <- 1
Direct == INSTANCE BlkDispatch WITH NrTags <- 1, Elevator <- FALSE, Shared <- FALSE,
          Results <- {"resource", "dev_resource", "error"}, MaxRefused <- 2,
          MaxPauses <- 2

\* A hctx for a new index may fail to be allocated.
Unmap == INSTANCE BlkMap WITH GrowFails <- TRUE, MaxUpdates <- 3

MCInit ==
    /\ part \in {"elevator", "shared", "direct", "map", "unmap"}
    /\ Init
    /\ MapInit

MCNext ==
    /\ part' = part
    /\ \/ part = "elevator" /\ Next /\ UNCHANGED mapVars
       \/ part = "shared" /\ Shrd!Next /\ UNCHANGED mapVars
       \/ part = "direct" /\ Direct!Next /\ UNCHANGED mapVars
       \/ part = "map" /\ MapNext /\ UNCHANGED vars
       \/ part = "unmap" /\ Unmap!MapNext /\ UNCHANGED vars

\* NoStall, QuiesceBlocks, EveryCpuMapped and MapMatchesQueues are those of
\* BlkDispatch and BlkMap, whatever the part.
MCSpec == MCInit /\ [][MCNext]_mcVars
=============================================================================
