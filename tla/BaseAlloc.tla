------------------------------ MODULE BaseAlloc ------------------------------
(***************************************************************************)
(* The allocators of Caladan's base library: thread-local caches of        *)
(* magazines (tcache.c, smalloc.c) over a slab (slab.c) of one NUMA node   *)
(* and the large pages below it (page.c), or over a memory pool            *)
(* (mempool.c).  Threads interleave between the critical sections of the   *)
(* shared magazines, of the slab or pool and of the page lists.  Which of  *)
(* several free items is taken next is left open.                          *)
(***************************************************************************)
EXTENDS Integers, FiniteSets, Sequences, SequencesExt

CONSTANTS
    T,                  \* threads
    Page, None,
    NrElems,            \* items of a page (nr_elems)
    Thresh,             \* SLAB_PARTIAL_THRESH
    MagSize             \* items of a magazine

Item == Page \X (1 .. NrElems)
Of(p) == {i \in Item : i[1] = p}

VARIABLES
    kind,               \* what backs the cache: "slab" or "pool"
    pc, got,            \* per thread; items of a magazine in the making or being freed
    loaded, rounds, previous,
    shared,             \* the magazines of the tcache
    cur, full, partial, free,   \* slab_node: cur_pg, lists, free items per page
    fresh,              \* items of the current page that were never given out
    avail, idx, lost,   \* lgpage_node: freed pages, pages not yet used, pages lost
    held                \* items the program has

cache == <<loaded, rounds, previous>>
node == <<cur, full, partial, free, fresh>>
pages == <<avail, idx, lost>>
vars == <<kind, pc, got, cache, shared, node, pages, held>>

\* mempool_populate, slab_create, page_init, tcache_init_perthread
Init ==
    /\ kind \in {"slab", "pool"}
    /\ pc = [t \in T |-> "run"] /\ got = [t \in T |-> {}]
    /\ loaded = [t \in T |-> {}] /\ rounds = [t \in T |-> 0] /\ previous = [t \in T |-> {}]
    /\ shared = {} /\ held = {}
    /\ cur = None /\ full = {} /\ partial = <<>>
    /\ free = [p \in Page |-> IF kind = "pool" THEN Of(p) ELSE {}] /\ fresh = {}
    /\ avail = {} /\ idx = (IF kind = "pool" THEN {} ELSE Page) /\ lost = {}

Go(t, x) == pc' = [pc EXCEPT ![t] = x]
Set(f, t, x) == [f EXCEPT ![t] = x]

-----------------------------------------------------------------------------
(* The slab and the pool; a state of the node is s, a record *)

Node == [cur |-> cur, full |-> full, partial |-> partial, free |-> free, fresh |-> fresh]
Becomes(s) == cur' = s.cur /\ full' = s.full /\ partial' = s.partial /\ free' = s.free /\ fresh' = s.fresh
Count(s, p) == Cardinality(s.free[p]) + (IF p = s.cur THEN Cardinality(s.fresh) ELSE 0)

\* __slab_node_alloc needs another page; lgpage_alloc_on_node gives np, or None.
NeedsPage(s) == s.cur = None \/ Count(s, s.cur) = 0
NextPage(s, np) ==
    LET out == [s EXCEPT !.full = @ \cup ({s.cur} \ {None})] IN
    IF out.partial # <<>> THEN [out EXCEPT !.cur = Head(out.partial), !.partial = Tail(@)]
    ELSE [out EXCEPT !.cur = np, !.fresh = IF np = None THEN {} ELSE Of(np)]
\* The items it may give from the current page: freed ones before fresh ones.
Givable(s) == IF s.free[s.cur] # {} THEN s.free[s.cur] ELSE s.fresh
Without(s, i) == [s EXCEPT !.free[i[1]] = @ \ {i}, !.fresh = @ \ {i}]

\* slab_node_free: the page it is taken from may become partial, or go.
\* Mutant: the current page is treated like any other.
slab_node_free_Cur(s, i) ==
    LET p == i[1]
        in == [s EXCEPT !.free[p] = @ \cup {i}]
    IN IF Count(in, p) = NrElems
       THEN [in EXCEPT !.partial = Remove(@, p), !.full = @ \ {p}, !.free[p] = {}]
       ELSE IF Count(in, p) = Thresh THEN [in EXCEPT !.full = @ \ {p}, !.partial = <<p>> \o @]
       ELSE in
slab_node_free(s, i) ==
    LET p == i[1]
        in == [s EXCEPT !.free[p] = @ \cup {i}]
    IN IF p = s.cur THEN in
       ELSE IF Count(in, p) = Thresh THEN [in EXCEPT !.full = @ \ {p}, !.partial = <<p>> \o @]
       ELSE IF Count(in, p) = NrElems THEN [in EXCEPT !.partial = Remove(@, p), !.free[p] = {}]
       ELSE in

\* slab_node_free with the page_put of a page that has become free: lgpage_free.
NodeFree(i) ==
    LET s == slab_node_free(Node, i)
        p == i[1]
        gone == p # cur /\ p \notin s.full \cup ToSet(s.partial)
    IN /\ Becomes(s) /\ avail' = (IF gone THEN avail \cup {p} ELSE avail) /\ UNCHANGED <<idx, lost>>

\* lgpage_alloc_on_node: a page given back, else one never used; lgpage_create
\* may fail, and then the page is on no list any more.
PageAlloc(np) ==
    LET from == IF avail # {} THEN avail ELSE idx IN
    \/ from = {} /\ np = None /\ UNCHANGED pages
    \/ \E p \in from : /\ avail' = avail \ {p} /\ idx' = idx \ {p}
                       /\ \/ np = p /\ lost' = lost
                          \/ np = None /\ lost' = lost \cup {p}

\* __slab_node_alloc: item i, or None.
NodeAlloc(i) ==
    \E np \in Page \cup {None} :
        LET s == IF NeedsPage(Node) THEN NextPage(Node, np) ELSE Node IN
        /\ IF NeedsPage(Node) /\ partial = <<>> THEN PageAlloc(np) ELSE np = None /\ UNCHANGED pages
        /\ \/ s.cur = None /\ i = None /\ Becomes(s)
           \/ s.cur # None /\ i \in Givable(s) /\ Becomes(Without(s, i))

\* mempool_alloc and mempool_free
PoolAlloc(i) ==
    /\ IF \A p \in Page : free[p] = {} THEN i = None ELSE i # None /\ i \in free[i[1]]
    /\ free' = [p \in Page |-> free[p] \ {i}] /\ UNCHANGED <<cur, full, partial, fresh, pages>>
PoolFree(S) == /\ free' = [p \in Page |-> free[p] \cup (S \cap Of(p))]
               /\ UNCHANGED <<cur, full, partial, fresh, pages>>

\* page_lock, or the pool's lock, is free: it is held over a whole magazine.
Unlocked == \A t \in T : pc[t] # "fill"

-----------------------------------------------------------------------------
(* The thread-local cache *)

\* Rounds of a magazine m that has just been loaded: one item is given out.
Reload(t, m) ==
    /\ \E i \in m : loaded' = Set(loaded, t, m \ {i}) /\ held' = held \cup {i}
    /\ rounds' = Set(rounds, t, MagSize - 1)

\* tcache_alloc, and the first case of __tcache_alloc
Alloc(t) ==
    /\ pc[t] = "run"
    /\ \/ rounds[t] # 0
          /\ \E i \in loaded[t] : loaded' = Set(loaded, t, loaded[t] \ {i}) /\ held' = held \cup {i}
          /\ rounds' = Set(rounds, t, rounds[t] - 1) /\ UNCHANGED <<pc, previous>>
       \/ rounds[t] = 0 /\ previous[t] # {}
          /\ Reload(t, previous[t]) /\ previous' = Set(previous, t, {}) /\ UNCHANGED pc
       \/ rounds[t] = 0 /\ previous[t] = {} /\ Go(t, "grab") /\ UNCHANGED <<cache, held>>
    /\ UNCHANGED <<kind, got, shared, node, pages>>

\* The second case: a magazine of the shared ones.
AllocShared(t) ==
    /\ pc[t] = "grab"
    /\ \/ \E m \in shared : shared' = shared \ {m} /\ Reload(t, m) /\ Go(t, "run")
       \/ shared = {} /\ Go(t, "mag") /\ UNCHANGED <<shared, loaded, rounds, held>>
    /\ UNCHANGED <<kind, got, previous, node, pages>>

\* The third case, tcache_alloc_mag: it takes the lock of what backs the cache.
MagLock(t) ==
    /\ pc[t] = "mag" /\ Unlocked /\ Go(t, "fill")
    /\ UNCHANGED <<kind, got, cache, shared, node, pages, held>>

\* An item of slab_tcache_alloc or mempool_tcache_alloc; the last one ends it.
MagItem(t) ==
    /\ pc[t] = "fill"
    /\ \E i \in Item \cup {None} :
        /\ IF kind = "slab" THEN NodeAlloc(i) ELSE PoolAlloc(i)
        /\ \/ i = None /\ Go(t, "unwind") /\ UNCHANGED <<got, loaded, rounds, held>>
           \/ i # None /\ LET g == got[t] \cup {i} IN
              IF Cardinality(g) < MagSize
              THEN got' = Set(got, t, g) /\ UNCHANGED <<pc, loaded, rounds, held>>
              ELSE got' = Set(got, t, {}) /\ Reload(t, g) /\ Go(t, "run")
    /\ UNCHANGED <<kind, previous, shared>>

\* Items go back, one critical section each for a slab, one for all for a pool:
\* after a failed allocation (it returns NULL), and for tcache_reclaim.
GiveBack(t) ==
    /\ pc[t] = "unwind" /\ Unlocked
    /\ \/ got[t] = {} /\ Go(t, "run") /\ UNCHANGED <<got, node, pages>>
       \/ kind = "slab" /\ \E i \in got[t] : NodeFree(i) /\ got' = Set(got, t, got[t] \ {i}) /\ UNCHANGED pc
       \/ kind = "pool" /\ PoolFree(got[t]) /\ got' = Set(got, t, {}) /\ Go(t, "run")
    /\ UNCHANGED <<kind, cache, shared, held>>

\* tcache_free and __tcache_free; the program gives up item i.
Free(t, i) ==
    /\ pc[t] = "run" /\ i \in held /\ held' = held \ {i}
    /\ IF rounds[t] < MagSize
       THEN loaded' = Set(loaded, t, loaded[t] \cup {i}) /\ rounds' = Set(rounds, t, rounds[t] + 1)
            /\ UNCHANGED <<previous, shared>>
       ELSE /\ loaded' = Set(loaded, t, {i}) /\ rounds' = Set(rounds, t, 1)
            /\ previous' = Set(previous, t, loaded[t])
            /\ shared' = IF previous[t] = {} THEN shared ELSE shared \cup {previous[t]}
    /\ UNCHANGED <<kind, pc, got, node, pages>>

\* tcache_reclaim
Reclaim(t) ==
    /\ pc[t] = "run" /\ shared # {}
    /\ shared' = {} /\ got' = Set(got, t, UNION shared) /\ Go(t, "unwind")
    /\ UNCHANGED <<kind, cache, node, pages, held>>

\* slab_alloc_on_node and slab_free, past the cache (smpage_alloc_on_node)
SlabAlloc(t) ==
    /\ kind = "slab" /\ pc[t] = "run" /\ Unlocked
    /\ \E i \in Item \cup {None} : NodeAlloc(i) /\ held' = held \cup ({i} \ {None})
    /\ UNCHANGED <<kind, pc, got, cache, shared>>
SlabFree(t, i) ==
    /\ kind = "slab" /\ pc[t] = "run" /\ Unlocked
    /\ i \in held /\ NodeFree(i) /\ held' = held \ {i}
    /\ UNCHANGED <<kind, pc, got, cache, shared>>

Next == \E t \in T :
    \/ Alloc(t) \/ AllocShared(t) \/ MagLock(t) \/ MagItem(t) \/ GiveBack(t) \/ Reclaim(t) \/ SlabAlloc(t)
    \/ \E i \in Item : Free(t, i) \/ SlabFree(t, i)

Spec == Init /\ [][Next]_vars

-----------------------------------------------------------------------------
\* Magazines are full when they change hands, as tcache_free_mag asserts, and a
\* thread's count of rounds is right, as __tcache_alloc and __tcache_free assert.
MagazinesWhole ==
    /\ \A t \in T : /\ rounds[t] = Cardinality(loaded[t]) /\ rounds[t] <= MagSize
                    /\ previous[t] # {} => Cardinality(previous[t]) = MagSize
    /\ \A m \in shared : Cardinality(m) = MagSize

\* An item is in one place: with the program, in one magazine, on its way
\* between, or free in its page; a page that went back to page.c has none out.
Places(i) ==
    {<<"held">> : x \in held \cap {i}} \cup {<<"fresh">> : x \in fresh \cap {i}}
    \cup {<<"free">> : x \in free[i[1]] \cap {i}}
    \cup {<<"page">> : x \in (avail \cup idx \cup lost) \cap {i[1]}}
    \cup UNION {{<<"loaded", t>> : x \in loaded[t] \cap {i}} \cup {<<"previous", t>> : x \in previous[t] \cap {i}}
                \cup {<<"got", t>> : x \in got[t] \cap {i}} : t \in T}
    \cup {<<"shared", m>> : m \in {n \in shared : i \in n}}
ItemsOnce == \A i \in Item : Cardinality(Places(i)) = 1

\* A page of the slab is the current one or on the list its free items call
\* for: full below the threshold, partial from there.
PagesListed ==
    kind = "slab" => \A p \in Page :
        /\ Cardinality({n \in 1 .. 4 : p \in <<{cur}, full, ToSet(partial), avail \cup idx \cup lost>>[n]}) = 1
        /\ (p \in full => Count(Node, p) < Thresh)
        /\ (p \in ToSet(partial) => Count(Node, p) \in Thresh .. NrElems - 1)

\* The allocators never give an item twice nor a page with items in use.
AllocSound == MagazinesWhole /\ ItemsOnce /\ PagesListed
=============================================================================
