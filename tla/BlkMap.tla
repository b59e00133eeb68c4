------------------------------- MODULE BlkMap -------------------------------
(***************************************************************************)
(* Tag sets and the mapping of CPUs to hardware queues in blk-mq.c: a tag  *)
(* set shared by several queues is allocated, queues join and leave it,    *)
(* and blk_mq_update_nr_hw_queues changes the number of hardware queues of *)
(* all of them while they are frozen.  Any allocation may fail on the way. *)
(*                                                                         *)
(* One queue map (nr_maps = 1).  A tag map is a number, new for every      *)
(* allocation, 0 for NULL: a stale pointer shows as a stale number.        *)
(***************************************************************************)
EXTENDS Integers, FiniteSets

CONSTANTS
    Queue,          \* request queues
    NrCpus,         \* nr_cpu_ids
    NodeOf,         \* NodeOf[c]: NUMA node of a CPU
    Depths,         \* queue depths asked for
    Reserved,       \* set->reserved_tags
    GrowFails,      \* a hctx for a new index may fail to be allocated
    MaxUpdates      \* bound: calls of blk_mq_update_nr_hw_queues

ASSUME MapAssumption ==
    /\ NrCpus \in Nat \ {0} /\ Reserved \in Nat /\ MaxUpdates \in Nat
    /\ Depths \subseteq Nat /\ GrowFails \in BOOLEAN

Cpu == 0 .. NrCpus - 1
Idx == 0 .. NrCpus - 1
Node == {NodeOf[c] : c \in Cpu}
SetNode == NodeOf[0]        \* set->numa_node

VARIABLES
    nr_hw_queues,   \* set->nr_hw_queues; 0: no tag set
    map_nr,         \* set->map[HCTX_TYPE_DEFAULT].nr_queues
    mq_map,         \* set->map[HCTX_TYPE_DEFAULT].mq_map
    set_tags,       \* set->tags
    last_tags,      \* the last number given to a tag map
    queue_depth,    \* set->queue_depth
    set_shared,     \* BLK_MQ_F_TAG_SHARED in set->flags
    members,        \* set->tag_list
    q_nr,           \* q->nr_hw_queues
    hctxs,          \* q->queue_hw_ctx: {} or {[node, tags, shared]}
    unused,         \* q->unused_hctx_list: the flags of dead hctxs, by node
    ctx_map,        \* the hctx index behind ctx->hctxs[HCTX_TYPE_DEFAULT]
    upd,            \* blk_mq_update_nr_hw_queues: place and locals
    updates

setVars == <<nr_hw_queues, map_nr, mq_map, set_tags, last_tags, queue_depth>>
qVars == <<q_nr, hctxs, unused, ctx_map>>
mapVars == <<setVars, set_shared, members, qVars, upd, updates>>

NoUpd == [pc |-> "idle", prev |-> 0, todo |-> {}]

MapInit ==
    /\ nr_hw_queues = 0 /\ map_nr = 0 /\ mq_map = [c \in Cpu |-> 0]
    /\ set_tags = [i \in Idx |-> 0] /\ last_tags = 0 /\ queue_depth = 0
    /\ set_shared = FALSE /\ members = {}
    /\ q_nr = [q \in Queue |-> 0]
    /\ hctxs = [q \in Queue |-> [i \in Idx |-> {}]]
    /\ unused = [q \in Queue |-> [n \in Node |-> {}]]
    /\ ctx_map = [q \in Queue |-> [c \in Cpu |-> 0]]
    /\ upd = NoUpd /\ updates = 0

-----------------------------------------------------------------------------
(* The tag set *)

\* blk_mq_map_queues spreads the CPUs over the queues it is told of.
MapQueues(n) == [c \in Cpu |-> c % n]

\* blk_mq_hw_queue_to_node: the node of a CPU of the queue, if it has one.
HwQueueToNode(map, i) ==
    LET mapped == {c \in Cpu : map[c] = i}
    IN  IF mapped = {} THEN -1
        ELSE NodeOf[CHOOSE c \in mapped : \A d \in mapped : c <= d]

\* blk_mq_alloc_rq_maps: as long as memory is short, with half the depth.
Halved(d, k) == d \div (2 ^ k)

\* blk_mq_alloc_tag_set: no more queues than CPUs, a map for each of them.
\* With too little memory left for the reserved tags nothing is kept.
AllocTagSet ==
    /\ nr_hw_queues = 0 /\ members = {} /\ updates < MaxUpdates
    /\ \E n \in 1 .. NrCpus + 1, d \in Depths, k \in 0 .. 2 :
          /\ d >= Reserved + 1
          /\ LET nr == IF n > NrCpus THEN NrCpus ELSE n
             IN  \/ /\ Halved(d, k) >= Reserved + 1
                    /\ nr_hw_queues' = nr /\ map_nr' = nr
                    /\ mq_map' = MapQueues(nr)
                    /\ set_tags' = [i \in Idx |-> IF i < nr THEN last_tags + 1 + i ELSE 0]
                    /\ last_tags' = last_tags + nr
                    /\ queue_depth' = Halved(d, k)
                 \/ /\ Halved(d, k) < Reserved + 1
                    /\ UNCHANGED setVars
    /\ updates' = updates + 1
    /\ UNCHANGED <<set_shared, members, qVars, upd>>

\* blk_mq_free_tag_set.
FreeTagSet ==
    /\ nr_hw_queues > 0 /\ members = {} /\ upd.pc = "idle"
    /\ nr_hw_queues' = 0 /\ map_nr' = 0 /\ queue_depth' = 0
    /\ mq_map' = [c \in Cpu |-> 0] /\ set_tags' = [i \in Idx |-> 0]
    /\ UNCHANGED <<last_tags, set_shared, members, qVars, upd, updates>>

-----------------------------------------------------------------------------
(* Building the hardware queues of one request queue *)

\* blk_mq_alloc_and_init_hctx: a dead hctx of the node, with the flags it had,
\* or a new one, whose flags are the set's without BLK_MQ_F_TAG_SHARED.
NewHctx(q, node) ==
    LET n == IF node = -1 THEN SetNode ELSE node
    IN  [node |-> n, tags |-> 0, shared |-> node # -1 /\ TRUE \in unused[q][n]]
Exists(hs, i) == hs[i] # {}
The(S) == CHOOSE x \in S : TRUE

\* blk_mq_realloc_hw_ctxs.  fails: the indices whose allocation fails, if it
\* is tried.  An index keeps a hctx that sits on the right node, or whose
\* replacement cannot be allocated; without any hctx the loop stops there.
Stays(q, i) == Exists(hctxs[q], i) /\ The(hctxs[q][i]).node = HwQueueToNode(mq_map, i)
StopsAt(q, fails) ==
    {i \in Idx : i < nr_hw_queues /\ i \in fails /\ ~Exists(hctxs[q], i)}
Reached(q, fails) ==
    IF StopsAt(q, fails) = {} THEN nr_hw_queues
    ELSE CHOOSE i \in StopsAt(q, fails) : \A j \in StopsAt(q, fails) : i <= j
\* The hctxs from here on are given up: the new ones if the growth failed,
\* the surplus otherwise.
GivenUp(q, fails) ==
    LET i == Reached(q, fails)
    IN  IF i # nr_hw_queues THEN q_nr[q] .. i - 1 ELSE i .. q_nr[q] - 1
\* Mutant: the queue takes the number of hctxs it got, whether or not all.
NewQNr_Reached(q, fails) == Reached(q, fails)
NewQNr(q, fails) == IF Reached(q, fails) = nr_hw_queues THEN nr_hw_queues ELSE q_nr[q]

Realloced(q, fails) ==
    [i \in Idx |->
        IF i \in GivenUp(q, fails) THEN {}
        ELSE IF i >= Reached(q, fails) \/ Stays(q, i) \/ i \in fails THEN hctxs[q][i]
        ELSE {NewHctx(q, HwQueueToNode(mq_map, i))}]
Dead(q, hs) ==
    [n \in Node |-> unused[q][n] \cup
        {h.shared : h \in {g \in UNION {hctxs[q][i] : i \in Idx} : g.node = n
                          /\ \E i \in Idx : g \in hctxs[q][i] /\ hs[i] # {g}}}]

\* The maps of hctxs that are given up are freed with them.
TagsLeft(q, fails) ==
    [i \in Idx |->
        IF /\ i \in GivenUp(q, fails)
           /\ \E h \in hctxs[q][i] : h.tags # 0
        THEN 0 ELSE set_tags[i]]

\* blk_mq_map_swqueue, for the hctxs hs and the tag maps ts.  noMem: the CPUs
\* at whose turn a map cannot be allocated.  A CPU whose queue has no map then
\* goes to queue 0; queues left without a CPU lose theirs, except queue 0.
Remapped(ts, noMem) ==
    [c \in Cpu |->
        IF /\ ts[mq_map[c]] = 0 /\ c \in noMem
           /\ \A d \in 0 .. c - 1 : mq_map[d] = mq_map[c] => d \in noMem
        THEN 0 ELSE mq_map[c]]
Unmapped(map, i) == i # 0 /\ \A c \in Cpu : map[c] # i
MappedTags(ts, map, n) ==
    [i \in Idx |->
        IF i < n /\ Unmapped(map, i) THEN 0
        ELSE IF ts[i] = 0 /\ \E c \in Cpu : map[c] = i THEN last_tags + 1 + i
        ELSE ts[i]]
WithTags(hs, ts, map, n) ==
    [i \in Idx |->
        {[h EXCEPT !.tags = IF i < n /\ (\E c \in Cpu : map[c] = i) THEN ts[i] ELSE 0]
            : h \in hs[i]}]

MapSwqueue(q, hs, ts, n) ==
    \E noMem \in SUBSET Cpu :
        LET map == Remapped(ts, noMem)
            new == MappedTags(ts, map, n)
        IN  /\ mq_map' = map /\ set_tags' = new
            /\ last_tags' = last_tags + NrCpus
            /\ ctx_map' = [ctx_map EXCEPT ![q] = map]
            /\ hctxs' = [hctxs EXCEPT ![q] = WithTags(hs, new, map, n)]

Flagged(hs, s) == [i \in Idx |-> {[h EXCEPT !.shared = s] : h \in hs[i]}]

\* blk_mq_init_allocated_queue: hctxs, joining the tag set (which becomes
\* shared with the second queue, in every hctx of the first too), mapping.
InitQueue(q) ==
    /\ nr_hw_queues > 0 /\ q \notin members /\ q_nr[q] = 0 /\ upd.pc = "idle"
    /\ updates < MaxUpdates /\ updates' = updates + 1
    /\ \E fails \in SUBSET Idx :
          \/ /\ NewQNr(q, fails) = 0
             /\ UNCHANGED <<setVars, set_shared, members, q_nr, hctxs, ctx_map>>
          \/ /\ NewQNr(q, fails) > 0
             /\ q_nr' = [q_nr EXCEPT ![q] = NewQNr(q, fails)]
             /\ members' = members \cup {q}
             /\ set_shared' = (set_shared \/ members # {})
             /\ LET hs == Flagged(Realloced(q, fails), set_shared')
                    others == [p \in Queue |-> IF p \in members /\ ~set_shared
                                                 THEN Flagged(hctxs[p], set_shared')
                                                 ELSE hctxs[p]]
                IN  \E noMem \in SUBSET Cpu :
                      LET map == Remapped(set_tags, noMem)
                          new == MappedTags(set_tags, map, nr_hw_queues)
                      IN  /\ mq_map' = map /\ set_tags' = new
                          /\ last_tags' = last_tags + NrCpus
                          /\ ctx_map' = [ctx_map EXCEPT ![q] = map]
                          /\ hctxs' = [others EXCEPT ![q] =
                                          WithTags(hs, new, map, nr_hw_queues)]
             /\ UNCHANGED <<nr_hw_queues, map_nr, queue_depth>>
    /\ UNCHANGED <<upd, unused>>

\* blk_mq_exit_queue: the queue leaves the set; a single one left over is no
\* longer shared.
ExitQueue(q) ==
    /\ q \in members /\ upd.pc = "idle"
    /\ members' = members \ {q}
    /\ set_shared' = (set_shared /\ Cardinality(members) # 2)
    /\ hctxs' = [p \in Queue |->
                    IF p = q THEN [i \in Idx |-> {}]
                    ELSE IF Cardinality(members) = 2 THEN Flagged(hctxs[p], FALSE)
                    ELSE hctxs[p]]
    /\ q_nr' = [q_nr EXCEPT ![q] = 0]
    /\ unused' = [unused EXCEPT ![q] = [n \in Node |-> {}]]
    /\ UNCHANGED <<setVars, ctx_map, upd, updates>>

-----------------------------------------------------------------------------
(* blk_mq_update_nr_hw_queues *)

\* All queues are frozen, their schedulers switched off (if that fails,
\* nothing else is done) and the CPUs mapped anew.
UpdateStart(n) ==
    /\ nr_hw_queues > 0 /\ upd.pc = "idle" /\ updates < MaxUpdates
    /\ LET nr == IF n > NrCpus THEN NrCpus ELSE n
       IN  /\ nr >= 1 /\ nr # nr_hw_queues
           /\ nr_hw_queues' = nr /\ map_nr' = nr
           /\ mq_map' = MapQueues(nr)
           /\ upd' = [pc |-> "queues", prev |-> nr_hw_queues, todo |-> members]
    /\ updates' = updates + 1
    /\ UNCHANGED <<set_tags, last_tags, queue_depth, set_shared, members, qVars>>

\* One queue of the list, in any order: its hctxs, then its mapping.
UpdateQueue(q) ==
    /\ upd.pc = "queues" /\ q \in upd.todo
    /\ \E fails \in SUBSET Idx :
          /\ NewQNr(q, fails) = nr_hw_queues
          /\ unused' = [unused EXCEPT ![q] = Dead(q, Realloced(q, fails))]
          /\ q_nr' = [q_nr EXCEPT ![q] = nr_hw_queues]
          /\ MapSwqueue(q, Realloced(q, fails), TagsLeft(q, fails), nr_hw_queues)
    /\ upd' = [upd EXCEPT !.todo = @ \ {q}]
    /\ UNCHANGED <<nr_hw_queues, map_nr, queue_depth, set_shared, members, updates>>

\* A queue could not grow: back to the previous number for all of them.  The
\* CPUs are mapped with blk_mq_map_queues, and the list starts again.
Fallback(q) ==
    /\ upd.pc = "queues" /\ q \in upd.todo
    /\ \E fails \in SUBSET Idx :
          /\ GrowFails
          /\ NewQNr(q, fails) # nr_hw_queues
          /\ q_nr' = [q_nr EXCEPT ![q] = NewQNr(q, fails)]
          /\ hctxs' = [hctxs EXCEPT ![q] = Realloced(q, fails)]
          /\ unused' = [unused EXCEPT ![q] = Dead(q, Realloced(q, fails))]
          /\ set_tags' = TagsLeft(q, fails)
    /\ nr_hw_queues' = upd.prev
    /\ mq_map' = MapQueues(map_nr)
    /\ upd' = [upd EXCEPT !.todo = members]
    /\ UNCHANGED <<map_nr, last_tags, queue_depth, set_shared, members, ctx_map, updates>>

\* Schedulers back, queues unfrozen.
UpdateEnd ==
    /\ upd.pc = "queues" /\ upd.todo = {}
    /\ upd' = NoUpd
    /\ UNCHANGED <<setVars, set_shared, members, qVars, updates>>

MapNext ==
    \/ AllocTagSet \/ FreeTagSet
    \/ \E q \in Queue : InitQueue(q) \/ ExitQueue(q) \/ UpdateQueue(q) \/ Fallback(q)
    \/ \E n \in 1 .. NrCpus + 1 : UpdateStart(n)
    \/ UpdateEnd

MapSpec == MapInit /\ [][MapNext]_mapVars

-----------------------------------------------------------------------------
(* Properties *)

MapTypeOK ==
    /\ nr_hw_queues \in 0 .. NrCpus /\ map_nr \in 0 .. NrCpus
    /\ mq_map \in [Cpu -> Idx] /\ set_tags \in [Idx -> Nat] /\ members \subseteq Queue
    /\ \A q \in Queue : q_nr[q] \in 0 .. NrCpus /\ ctx_map[q] \in [Cpu -> Idx]
    /\ \A q \in Queue, i \in Idx : Cardinality(hctxs[q][i]) <= 1
    /\ upd.pc \in {"idle", "queues"} /\ upd.todo \subseteq members

\* "blk_mq_map_queues() and multiple .map_queues() implementations expect that
\* set->map[HCTX_TYPE_DEFAULT].nr_queues is set to the number of hardware
\* queues" (blk_mq_update_queue_map).
MapMatchesQueues == nr_hw_queues > 0 => map_nr = nr_hw_queues

\* Whatever allocations failed, a queue that is not being updated sends every
\* CPU to a hardware queue that exists and whose tags are the set's live map
\* (WARN_ON(!hctx->tags) in blk_mq_map_swqueue; "hctx[0] which is guaranteed
\* to always have tags allocated").  The one exception is a set whose last
\* update fell back, where MapMatchesQueues fails.
EveryCpuMapped ==
    (upd.pc = "idle" /\ MapMatchesQueues) => \A q \in members, c \in Cpu :
        LET i == ctx_map[q][c]
        IN  /\ i < q_nr[q] /\ q_nr[q] = nr_hw_queues
            /\ \E h \in hctxs[q][i] : h.tags # 0 /\ h.tags = set_tags[i]

\* A hardware queue counts its active requests against the other queues of
\* the set exactly when there are others: a queue that believes it is alone
\* waits for a restart that no completion of its own brings
\* (blk_mq_mark_tag_wait).
SharedFlagRight ==
    \A q \in members, i \in Idx : \A h \in hctxs[q][i] :
        (upd.pc = "idle" /\ i < q_nr[q]) => h.shared = (Cardinality(members) > 1)
=============================================================================
