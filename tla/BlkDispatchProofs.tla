------------------------- MODULE BlkDispatchProofs -------------------------
(***************************************************************************)
(* Theorems about BlkDispatch, for any requests, numbers of tags, with and *)
(* without a scheduler or shared tags.                                     *)
(***************************************************************************)
EXTENDS BlkDispatch, FiniteSetTheorems, TLAPS

-----------------------------------------------------------------------------
(* The inductive invariant *)

RunRec ==
    [pc : {"idle", "pull", "tag", "mark", "retry", "queue", "splice", "check", "end"},
     list : SUBSET Req, rq : SUBSET Req,
     ret : {"ok", "resource", "dev_resource", "error"}, no_tag : BOOLEAN,
     more : BOOLEAN]

Types ==
    /\ where \in [Req -> {"new", "plug", "ctx", "dispatch", "list", "issue",
                          "listed", "drv", "put", "restart", "done"}]
    /\ tagged \in SUBSET Req /\ IsFiniteSet(tagged)
    /\ Cardinality(tagged) + foreign <= NrTags
    /\ woken \in Nat /\ foreign \in {0, 1} /\ refused \in 0 .. MaxRefused
    /\ restart \in BOOLEAN /\ waiting \in BOOLEAN /\ stopped \in BOOLEAN
    /\ quiesced \in BOOLEAN
    /\ pend \in [Runner -> BOOLEAN] /\ issue \in SUBSET Req
    /\ run \in [Runner -> RunRec]
    /\ quiescer \in {"run", "sync", "quiet"}

(* A run that has requests on its list and is not about to put them back. *)
Busy(w) == run[w].pc \in {"tag", "mark", "retry", "queue"}

(* Who has what: the list of a run is its own, and not empty until it is   *)
(* worked off or put back; a request issued directly is on no list.        *)
Lists ==
    /\ \A w \in Runner :
          /\ run[w].list \subseteq On("list")
          /\ run[w].list = {} <=> run[w].pc \in {"idle", "pull", "check", "end"}
          /\ run[w].pc \in {"mark", "retry", "queue"} => \E r \in run[w].list : run[w].rq = {r}
    /\ run["work"].list \cap run["sync"].list = {}
    /\ \A r \in issue : where[r] \in {"issue", "listed"}

(* A driver tag is with a request that will be completed or is on the list *)
(* of a run that will try it; a run that looks for a tag has none.         *)
Tags ==
    /\ \A r \in tagged : \/ where[r] \in {"drv", "put"}
                         \/ \E w \in Runner : Busy(w) /\ r \in run[w].list
    /\ \A w \in Runner : run[w].pc \in {"mark", "retry"} => run[w].list \cap tagged = {}
    /\ foreign > 0 => Shared

(* Whoever waits for a tag will be woken, unless it is about to look       *)
(* again.                                                                  *)
Wakes ==
    waiting => /\ Shared
               /\ \/ \E w \in Runner : run[w].pc = "retry"
                  \/ tagged # {} \/ foreign > 0 \/ woken > 0

(* quiesced is the quiescer's; after its grace period nothing runs.        *)
Quiet ==
    /\ quiesced <=> quiescer # "run"
    /\ quiescer = "sync" => Running \subseteq readers
    /\ quiescer = "quiet" => Running = {}

(* There is a request in one of these places. *)
Some(places) == \E r \in Req : where[r] \in places

(* The queue will be run, or the one who paused it runs it. *)
Sure == (\E w \in Runner : pend[w]) \/ stopped \/ quiescer # "run"

(* A request will be completed, and its completion looks at SCHED_RESTART. *)
Completes == Some({"drv", "put", "restart"}) \/ \E w \in Runner : Busy(w)

(* Run v will ask for another one, unless it is waiting for a tag. *)
Again(v) == run[v].ret = "resource" \/ run[v].no_tag

(* With SCHED_RESTART set, run w may leave its requests behind. *)
Covered(w) ==
    \/ Completes
    \/ /\ Some({"dispatch"})
       /\ \/ Sure \/ waiting
          \/ \E v \in Runner \ {w} : run[v].pc = "check" /\ Again(v)
    \/ \E v \in Runner \ {w} : run[v].pc = "splice" /\ Again(v)

CtxRun ==
    Some({"ctx"}) =>
        \/ Sure \/ Some({"dispatch"})
        \/ \E w \in Runner : \/ run[w].pc \in {"pull", "splice"}
                             \/ (Busy(w) \/ run[w].pc = "end") /\ run[w].more
DispatchRun ==
    Some({"dispatch"}) =>
        \/ Sure
        \/ restart /\ (Completes \/ waiting)
        \/ \E w \in Runner : run[w].pc \in {"splice", "check"}
LeftCovered ==
    \A w \in Runner :
        (run[w].pc \in {"splice", "check"} /\ restart /\ ~Again(w)) => Covered(w)

Runs == CtxRun /\ DispatchRun /\ LeftCovered

IInv == Types /\ Lists /\ Tags /\ Wakes /\ Quiet /\ Runs
-----------------------------------------------------------------------------
(* Types *)

USE DEF Runner

(* RunHwQueue and its like only add runs.                                  *)
LEMMA PendAdded ==
    ASSUME pend \in [Runner -> BOOLEAN], NEW w \in Runner, NEW B
    PROVE  /\ [pend EXCEPT ![w] = @ \/ B] \in [Runner -> BOOLEAN]
           /\ [pend EXCEPT ![w] = FALSE] \in [Runner -> BOOLEAN]
           /\ [pend EXCEPT ![w] = TRUE] \in [Runner -> BOOLEAN]
  <1>1. (pend[w] \/ B) \in BOOLEAN
    BY Zenon
  <1> QED
    BY <1>1, Zenon

(* A step of a run changes that run only.                                  *)
LEMMA StepRun ==
    ASSUME Types, NEW w \in Runner, NEW rec \in RunRec, Step(w, rec)
    PROVE  /\ run' \in [Runner -> RunRec] /\ run'[w] = rec
           /\ \A v \in Runner \ {w} : run'[v] = run[v]
  BY Zenon DEF Types, Step

(* The same for any record.                                                *)
LEMMA StepAt ==
    ASSUME Types, NEW w \in Runner, NEW rec, Step(w, rec)
    PROVE  run'[w] = rec /\ \A v \in Runner \ {w} : run'[v] = run[v]
  BY Zenon DEF Types, Step

(* Moving requests to a place keeps every request in a place.              *)
LEMMA MoveType ==
    ASSUME Types, NEW S,
           NEW p \in {"new", "plug", "ctx", "dispatch", "list", "issue", "listed", "drv",
                      "put", "restart", "done"}
    PROVE  Move(S, p) \in [Req -> {"new", "plug", "ctx", "dispatch", "list", "issue",
                                   "listed", "drv", "put", "restart", "done"}]
  BY Zenon DEF Types, Move

(* Taking a free tag, and giving tags back, keep within the tags there     *)
(* are.                                                                    *)
LEMMA TagsCounted ==
    ASSUME Types, NEW r \in Req, NEW S
    PROVE  /\ FreeTag => /\ IsFiniteSet(tagged \cup {r})
                         /\ Cardinality(tagged \cup {r}) + foreign <= NrTags
           /\ IsFiniteSet(tagged \ S)
           /\ Cardinality(tagged \ S) + foreign <= NrTags
           /\ Cardinality(tagged) \in Nat
           /\ Cardinality(tagged \cap S) \in Nat
           /\ tagged \cap S # {} => Cardinality(tagged \cap S) > 0
  <1>1. /\ IsFiniteSet(tagged) /\ Cardinality(tagged) \in Nat /\ foreign \in {0, 1}
        /\ Cardinality(tagged) + foreign <= NrTags
    BY FS_CardinalityType, Zenon DEF Types
  <1>2. /\ IsFiniteSet(tagged \cup {r})
        /\ Cardinality(tagged \cup {r}) \in {Cardinality(tagged), Cardinality(tagged) + 1}
    BY <1>1, FS_AddElement, Zenon
  <1>3. /\ IsFiniteSet(tagged \ S) /\ Cardinality(tagged \ S) \in Nat
        /\ Cardinality(tagged \ S) <= Cardinality(tagged)
    BY <1>1, FS_Subset, FS_CardinalityType, tagged \ S \subseteq tagged, Zenon
  <1>4. IsFiniteSet(tagged \cap S) /\ Cardinality(tagged \cap S) \in Nat
    BY <1>1, FS_Subset, FS_CardinalityType, tagged \cap S \subseteq tagged, Zenon
  <1>5. tagged \cap S # {} => Cardinality(tagged \cap S) # 0
    BY <1>4, FS_EmptySet, Zenon
  <1> QED
    BY <1>1, <1>2, <1>3, <1>4, <1>5, DispatchAssumption DEF FreeTag

(* The runs, whichever step one of them takes.                             *)
LEMMA RunType ==
    ASSUME Types, NEW w \in Runner, RunStep(w)
    PROVE  run' \in [Runner -> RunRec]
  <1> DEFINE Pcs == {"idle", "pull", "tag", "mark", "retry", "queue", "splice", "check", "end"}
  <1>1. /\ run[w] \in RunRec /\ run \in [Runner -> RunRec]
        /\ \A p : On(p) \subseteq Req
    BY Zenon DEF Types, On
  <1>2. \A pc \in Pcs, L \in SUBSET Req, m \in BOOLEAN :
           [Idle EXCEPT !.pc = pc, !.list = L, !.more = m] \in RunRec
    BY Zenon DEF Idle, RunRec
  <1>3. /\ Idle \in RunRec
        /\ \A m \in BOOLEAN : [Idle EXCEPT !.pc = "pull", !.more = m] \in RunRec
    BY Zenon DEF Idle, RunRec
  <1>4. ASSUME NEW pc \in Pcs, NEW L \in SUBSET Req, NEW q \in SUBSET Req,
               NEW ret \in {"ok", "resource", "dev_resource", "error"}, NEW b \in BOOLEAN
        PROVE
           /\ [run[w] EXCEPT !.pc = pc] \in RunRec
           /\ [run[w] EXCEPT !.pc = pc, !.rq = q] \in RunRec
           /\ [run[w] EXCEPT !.pc = pc, !.no_tag = b] \in RunRec
           /\ [run[w] EXCEPT !.pc = pc, !.list = L, !.rq = q] \in RunRec
           /\ [run[w] EXCEPT !.pc = pc, !.rq = q, !.ret = ret] \in RunRec
           /\ [run[w] EXCEPT !.pc = pc, !.list = L, !.rq = q, !.ret = ret] \in RunRec
    <2>1. /\ [run[w] EXCEPT !.pc = pc] \in RunRec
          /\ [run[w] EXCEPT !.pc = pc, !.rq = q] \in RunRec
      BY <1>1, Zenon DEF RunRec
    <2>2. /\ [run[w] EXCEPT !.pc = pc, !.no_tag = b] \in RunRec
          /\ [run[w] EXCEPT !.pc = pc, !.list = L, !.rq = q] \in RunRec
      BY <1>1, Zenon DEF RunRec
    <2>3. [run[w] EXCEPT !.pc = pc, !.rq = q, !.ret = ret] \in RunRec
      BY <1>1, Zenon DEF RunRec
    <2>4. [run[w] EXCEPT !.pc = pc, !.list = L, !.rq = q, !.ret = ret] \in RunRec
      BY <1>1, Zenon DEF RunRec
    <2> QED
      BY <2>1, <2>2, <2>3, <2>4, Zenon
  <1>5. CASE RunStart(w)
    BY <1>1, <1>2, <1>3, <1>5, StepRun, DispatchAssumption, Zenon DEF RunStart
  <1>6. CASE RunPull(w)
    <2>1. ASSUME NEW S \in SUBSET Req
          PROVE  [run[w] EXCEPT !.pc = "tag", !.list = S, !.more = @ \/ S # On("ctx")] \in RunRec
      <3>1. (run[w].more \/ S # On("ctx")) \in BOOLEAN
        BY Zenon
      <3> QED
        BY <1>1, <3>1, Zenon DEF RunRec
    <2>2. CASE run' = [run EXCEPT ![w] = Idle]
      BY <1>1, <1>3, <2>2, Zenon
    <2>3. CASE \E S \in {On("ctx")} \cup {{r} : r \in On("ctx")} :
                 Step(w, [run[w] EXCEPT !.pc = "tag", !.list = S, !.more = @ \/ S # On("ctx")])
      <3>1. PICK S \in SUBSET Req :
               Step(w, [run[w] EXCEPT !.pc = "tag", !.list = S, !.more = @ \/ S # On("ctx")])
        BY <1>1, <2>3, Zenon
      <3> QED
        BY <2>1, <3>1, StepRun, Zenon
    <2> QED
      BY <1>6, <2>2, <2>3, Zenon DEF RunPull, Step
  <1>7. CASE RunTag(w)
    <2>1. PICK r \in run[w].list :
             \/ Step(w, [run[w] EXCEPT !.pc = "queue", !.rq = {r}])
             \/ Step(w, [run[w] EXCEPT !.pc = "mark", !.rq = {r}])
      BY <1>7, Zenon DEF RunTag
    <2>2. {r} \in SUBSET Req
      BY <1>1, Zenon DEF RunRec
    <2> QED
      BY <1>4, <2>1, <2>2, StepRun, Zenon
  <1>8. CASE RunMark(w)
    BY <1>4, <1>8, StepRun, Zenon DEF RunMark
  <1>9. CASE RunRetry(w)
    BY <1>4, <1>9, StepRun, DispatchAssumption, Zenon DEF RunRetry
  <1>10. CASE RunQueue(w)
    <2>1. PICK r \in run[w].rq, ret \in {"ok", "resource", "dev_resource", "error"},
               pc \in {"end", "tag"} :
             \/ Step(w, [run[w] EXCEPT !.pc = pc, !.list = run[w].list \ {r}, !.rq = {},
                                       !.ret = ret])
             \/ Step(w, [run[w] EXCEPT !.pc = "splice", !.rq = {}, !.ret = ret])
      BY <1>10, Zenon DEF RunQueue
    <2>2. run[w].list \ {r} \in SUBSET Req
      BY <1>1, Zenon DEF RunRec
    <2> QED
      BY <1>4, <2>1, <2>2, StepRun, Zenon
  <1>11. CASE RunSplice(w)
    BY <1>4, <1>11, StepRun, Zenon DEF RunSplice
  <1>12. CASE RunCheck(w)
    BY <1>3, <1>12, StepRun, Zenon DEF RunCheck
  <1>13. CASE RunEnd(w)
    BY <1>3, <1>13, StepRun, Zenon DEF RunEnd
  <1> QED
    BY <1>5, <1>6, <1>7, <1>8, <1>9, <1>10, <1>11, <1>12, <1>13, Zenon DEF RunStep

(* Every step keeps the types, and as many tags as there are.              *)
LEMMA TypesNext ==
    ASSUME Types, [Next]_vars
    PROVE  Types'
  <1> DEFINE Places == {"new", "plug", "ctx", "dispatch", "list", "issue", "listed", "drv",
                        "put", "restart", "done"}
             Ran == run' \in [Runner -> RunRec]
             Pended == pend' \in [Runner -> BOOLEAN]
             Moved == where' \in [Req -> Places]
             Tagged == /\ tagged' \in SUBSET Req /\ IsFiniteSet(tagged')
                       /\ Cardinality(tagged') + foreign' <= NrTags
                       /\ foreign' \in {0, 1}
  <1>1. /\ where \in [Req -> Places] /\ pend \in [Runner -> BOOLEAN]
        /\ run \in [Runner -> RunRec]
        /\ woken \in Nat /\ refused \in Nat /\ MaxRefused \in Nat
        /\ \A S, p : p \in Places => Move(S, p) \in [Req -> Places]
    BY MoveType, DispatchAssumption DEF Types
  <1>2. ASSUME NEW w \in Runner, RunHwQueue(w)
        PROVE  Pended
    BY <1>1, <1>2, PendAdded, Zenon DEF RunHwQueue
  <1>a. \A S : Woken(S) \in Nat
    <2> TAKE S
    <2>1. CASE Req = {}
      <3>1. tagged \cap S = {} /\ Cardinality({}) = 0
        BY <2>1, FS_EmptySet, Zenon DEF Types
      <3> QED
        BY <1>1, <3>1 DEF Woken
    <2>2. CASE Req # {}
      <3>1. PICK r \in Req : TRUE
        BY <2>2, Zenon
      <3>2. Cardinality(tagged \cap S) \in Nat
        BY TagsCounted, Zenon
      <3> QED
        BY <1>1, <3>2 DEF Woken
    <2> QED
      BY <2>1, <2>2, Zenon
  <1>3. Pended
    <2>1. CASE pend' = pend
      BY <1>1, <2>1, Zenon
    <2>2. ASSUME NEW w \in Runner, RunStep(w)
          PROVE  Pended
      BY <1>1, <1>2, <2>1, <2>2, PendAdded, Zenon DEF RunStep, RunStart, RunPull, RunTag, RunMark,
         RunRetry, RunQueue, RunSplice, RunCheck, RunEnd
    <2>3. CASE StopHwQueue \/ StartHwQueue \/ UnquiesceQueue
      BY <1>1, <2>3, PendAdded, Zenon DEF StopHwQueue, StartHwQueue, UnquiesceQueue
    <2>4. ASSUME NEW r \in Req, Insert(r) \/ Plug(r) \/ TryIssueDirectly(r) \/ IssueDirectly(r)
                                \/ PutTag(r) \/ SchedRestart(r)
          PROVE  Pended
      BY <1>2, <2>1, <2>4, Zenon DEF Insert, Plug, TryIssueDirectly, IssueDirectly, PutTag,
         SchedRestart
    <2>5. CASE FlushPlugList \/ HctxNotifyDead \/ DispatchWake
      BY <1>2, <2>1, <2>5, Zenon DEF FlushPlugList, HctxNotifyDead, DispatchWake
    <2> HIDE DEF Pended
    <2> QED
      BY <2>1, <2>2, <2>3, <2>4, <2>5, Zenon DEF Next, vars, ForeignGet, ForeignPut, QuiesceQueue,
         Synchronize
  <1>4. Ran
    <2>1. CASE \E w \in Runner : RunStep(w)
      BY <2>1, RunType, Zenon
    <2>2. CASE run' = run
      BY <1>1, <2>2, Zenon
    <2> QED
      BY <2>1, <2>2, Zenon DEF Next, vars, Insert, Plug, FlushPlugList, TryIssueDirectly,
       IssueDirectly, PutTag, SchedRestart, HctxNotifyDead, DispatchWake, ForeignGet,
       ForeignPut, StopHwQueue, StartHwQueue, QuiesceQueue, Synchronize, UnquiesceQueue
  <1>5. Moved
    <2>1. ASSUME NEW r \in Req, IssueDirectly(r)
          PROVE  Moved
      BY <1>1, <2>1 DEF IssueDirectly, Accept
    <2>2. ASSUME NEW w \in Runner, RunQueue(w)
          PROVE  Moved
      BY <1>1, <2>2 DEF RunQueue, Accept
    <2>3. ASSUME NEW r \in Req, TryIssueDirectly(r)
          PROVE  Moved
      BY <1>1, <2>3 DEF TryIssueDirectly
    <2>5. ASSUME NEW w \in Runner, RunPull(w)
          PROVE  Moved
      <3>1. where' = where \/ \E S : where' = Move(S, "list")
        BY <2>5, Zenon DEF RunPull
      <3> QED
        BY <1>1, <3>1
    <2>6. ASSUME NEW w \in Runner, RunStart(w) \/ RunSplice(w)
          PROVE  Moved
      BY <1>1, <2>6 DEF RunStart, RunSplice
    <2>7. ASSUME NEW r \in Req, Insert(r) \/ Plug(r) \/ PutTag(r) \/ SchedRestart(r)
          PROVE  Moved
      BY <1>1, <2>7 DEF Insert, Plug, PutTag, SchedRestart
    <2>8. CASE FlushPlugList \/ HctxNotifyDead
      BY <1>1, <2>8 DEF FlushPlugList, HctxNotifyDead
    <2>9. CASE where' = where
      BY <1>1, <2>9, Zenon
    <2> HIDE DEF Moved
    <2> QED
      BY <2>1, <2>2, <2>3, <2>5, <2>6, <2>7, <2>8, <2>9, Zenon DEF Next, vars, DispatchWake,
       ForeignGet, ForeignPut, RunStep, RunTag, RunMark, RunRetry, RunCheck, RunEnd,
       StopHwQueue, StartHwQueue, QuiesceQueue, Synchronize, UnquiesceQueue
  <1>6. Tagged
    <2>1. /\ tagged \in SUBSET Req /\ IsFiniteSet(tagged)
          /\ Cardinality(tagged) + foreign <= NrTags /\ foreign \in {0, 1}
          /\ \A w \in Runner : run[w].list \subseteq Req /\ run[w].rq \subseteq Req
      BY Zenon DEF Types, RunRec
    <2>2. CASE \E r \in Req : FreeTag /\ tagged' = tagged \cup {r} /\ foreign' = foreign
      BY <2>1, <2>2, TagsCounted, Zenon
    <2>3. CASE \E S : tagged' = tagged \ S /\ foreign' = foreign
      BY <2>1, <2>3, TagsCounted, Zenon
    <2>4. CASE tagged' = tagged /\ foreign' = foreign
      BY <2>1, <2>4, Zenon
    <2>5. CASE ForeignGet \/ ForeignPut
      <3>1. Cardinality(tagged) \in Nat /\ NrTags \in Nat
        BY <2>1, FS_CardinalityType, DispatchAssumption, Zenon
      <3> QED
        BY <2>1, <2>5, <3>1 DEF ForeignGet, ForeignPut, FreeTag
    <2>6. ASSUME NEW w \in Runner, RunQueue(w)
          PROVE  Tagged
      <3> PICK r \in run[w].rq :
             \/ (\E nxt \in run[w].list \ {r} : FreeTag /\ tagged' = tagged \cup {nxt})
             \/ tagged' = tagged \/ tagged' = tagged \ run[w].list
        BY <2>6, Zenon DEF RunQueue
      <3> QED
        BY <2>1, <2>2, <2>3, <2>4, <2>6, Zenon DEF RunQueue
    <2>7. ASSUME NEW w \in Runner, RunTag(w) \/ RunRetry(w)
          PROVE  Tagged
      BY <2>1, <2>2, <2>4, <2>7, Zenon DEF RunTag, RunRetry
    <2>8. ASSUME NEW r \in Req, PutTag(r)
          PROVE  Tagged
      BY <2>3, <2>8, Zenon DEF PutTag
    <2> QED
      BY <2>4, <2>5, <2>6, <2>7, <2>8, Zenon DEF Next, vars, tagVars, Insert, Plug, FlushPlugList,
       TryIssueDirectly, IssueDirectly, SchedRestart, HctxNotifyDead, DispatchWake,
       RunStep, RunStart, RunPull, RunMark, RunSplice, RunCheck, RunEnd,
       StopHwQueue, StartHwQueue, QuiesceQueue, Synchronize, UnquiesceQueue
  <1>7. /\ restart' \in BOOLEAN /\ waiting' \in BOOLEAN /\ stopped' \in BOOLEAN
        /\ quiesced' \in BOOLEAN /\ quiescer' \in {"run", "sync", "quiet"}
    <2>1. \/ restart' = restart \/ restart' = TRUE \/ restart' = FALSE
      BY Zenon DEF Next, vars, Insert, Plug, FlushPlugList, TryIssueDirectly,
       IssueDirectly, PutTag, SchedRestart, HctxNotifyDead, DispatchWake, ForeignGet,
       ForeignPut, RunStep, RunStart, RunPull, RunTag, RunMark, RunRetry, RunQueue,
       RunSplice, RunCheck, RunEnd, StopHwQueue, StartHwQueue, QuiesceQueue, Synchronize,
       UnquiesceQueue
    <2>2. \/ waiting' = waiting \/ waiting' = TRUE \/ waiting' = FALSE
      BY Zenon DEF tagVars, Next, vars, Insert, Plug, FlushPlugList, TryIssueDirectly,
       IssueDirectly, PutTag, SchedRestart, HctxNotifyDead, DispatchWake, ForeignGet,
       ForeignPut, RunStep, RunStart, RunPull, RunTag, RunMark, RunRetry, RunQueue,
       RunSplice, RunCheck, RunEnd, StopHwQueue, StartHwQueue, QuiesceQueue, Synchronize,
       UnquiesceQueue
    <2>3. \/ UNCHANGED <<stopped, quiesced, quiescer>>
          \/ StopHwQueue \/ StartHwQueue \/ QuiesceQueue \/ Synchronize \/ UnquiesceQueue
      BY Zenon DEF pauseVars, Next, vars, Insert, Plug, FlushPlugList, TryIssueDirectly,
       IssueDirectly, PutTag, SchedRestart, HctxNotifyDead, DispatchWake, ForeignGet,
       ForeignPut, RunStep, RunStart, RunPull, RunTag, RunMark, RunRetry, RunQueue,
       RunSplice, RunCheck, RunEnd
    <2> QED
      BY <2>1, <2>2, <2>3, Zenon DEF Types, StopHwQueue, StartHwQueue, QuiesceQueue,
         Synchronize, UnquiesceQueue
  <1>8. issue' \in SUBSET Req
    BY Zenon DEF Types, Next, vars, Insert, Plug, FlushPlugList, TryIssueDirectly,
       IssueDirectly, PutTag, SchedRestart, HctxNotifyDead, DispatchWake, ForeignGet,
       ForeignPut, RunStep, RunStart, RunPull, RunTag, RunMark, RunRetry, RunQueue,
       RunSplice, RunCheck, RunEnd, StopHwQueue, StartHwQueue, QuiesceQueue, Synchronize,
       UnquiesceQueue
  <1>9. woken' \in Nat
    <2>1. \/ woken' = woken \/ woken' = woken + 1 \/ (woken > 0 /\ woken' = woken - 1)
          \/ \E S : woken' = Woken(S)
      BY Zenon DEF tagVars, Next, vars, Insert, Plug, FlushPlugList, TryIssueDirectly,
       IssueDirectly, PutTag, SchedRestart, HctxNotifyDead, DispatchWake, ForeignGet,
       ForeignPut, RunStep, RunStart, RunPull, RunTag, RunMark, RunRetry, RunQueue,
       RunSplice, RunCheck, RunEnd, StopHwQueue, StartHwQueue, QuiesceQueue, Synchronize,
       UnquiesceQueue
    <2> QED
      BY <1>1, <1>a, <2>1
  <1>10. refused' \in 0 .. MaxRefused
    <2>1. refused \in 0 .. MaxRefused
      BY Zenon DEF Types
    <2>2. CASE refused < MaxRefused /\ refused' = refused + 1
      BY <1>1, <2>1, <2>2
    <2>3. CASE refused' = refused
      BY <2>1, <2>3, Zenon
    <2> QED
      BY <2>2, <2>3, Zenon
         DEF Accept, Refuse, Next, vars, Insert, Plug, FlushPlugList, TryIssueDirectly,
       IssueDirectly, PutTag, SchedRestart, HctxNotifyDead, DispatchWake, ForeignGet,
       ForeignPut, RunStep, RunStart, RunPull, RunTag, RunMark, RunRetry, RunQueue,
       RunSplice, RunCheck, RunEnd, StopHwQueue, StartHwQueue, QuiesceQueue, Synchronize,
       UnquiesceQueue
  <1> HIDE DEF Places
  <1> QED
    BY <1>3, <1>4, <1>5, <1>6, <1>7, <1>8, <1>9, <1>10, Zenon DEF Types, Places

-----------------------------------------------------------------------------
(* The steps of a run *)

Rest == Lists /\ Tags /\ Wakes /\ Quiet /\ Runs

(* blk_mq_run_hw_queue with something pending leaves a run asked for, or   *)
(* somebody who has paused the queue and will run it.                      *)
LEMMA RunAsked ==
    ASSUME Types, Quiet, NEW w \in Runner, RunHwQueue(w)
    PROVE  /\ HasPending => pend'[w] \/ stopped \/ quiescer # "run"
           /\ \A v \in Runner : pend[v] => pend'[v]
  BY Zenon DEF Types, Quiet, RunHwQueue

(* blk_mq_run_work_fn: a run begins.                                       *)
LEMMA StartNext ==
    ASSUME IInv, Types', NEW w \in Runner, RunStart(w)
    PROVE  Rest'
  <1>1. PICK v \in Runner : v # w /\ \A u \in Runner : u \in {v, w}
    BY Zenon
  <1>2. CASE stopped \/ quiesced
    <2>1. /\ UNCHANGED <<where, run, restart, tagged, foreign, woken, waiting, issue, stopped,
                         quiesced, quiescer, readers>>
      BY <1>2, Zenon DEF RunStart, tagVars, pauseVars
    <2>2. Sure'
      BY <1>2, <2>1, Zenon DEF Sure, Quiet, IInv
    <2>3. (Lists /\ Tags /\ Wakes /\ Quiet)'
      BY <2>1 DEF IInv, Lists, Tags, Wakes, Quiet, On, Busy, Running
    <2>4. Runs'
      BY <2>1, <2>2 DEF IInv, Runs, CtxRun, DispatchRun, LeftCovered, Covered, Completes,
            Some, Again, Busy
    <2> QED
      BY <2>3, <2>4, Zenon DEF Rest
  <1>3. CASE ~(stopped \/ quiesced) /\ On("dispatch") # {}
    <2>1. /\ run'[w].pc = "tag" /\ run'[w].list = On("dispatch") /\ run'[w].more = TRUE
          /\ run'[v] = run[v] /\ run[w].pc = "idle"
          /\ where' = Move(On("dispatch"), "list") /\ restart' = TRUE
      <3>1. /\ Step(w, [Idle EXCEPT !.pc = "tag", !.list = On("dispatch"), !.more = TRUE])
            /\ run[w].pc = "idle" /\ where' = Move(On("dispatch"), "list") /\ restart' = TRUE
        BY <1>3, Zenon DEF RunStart
      <3>2. run'[w] = [Idle EXCEPT !.pc = "tag", !.list = On("dispatch"), !.more = TRUE]
        BY <3>1, StepAt, Zenon DEF IInv
      <3>3. run'[v] = run[v]
        BY <1>1, <3>1, StepAt, Zenon DEF IInv
      <3> QED
        BY <3>1, <3>2, <3>3, Zenon DEF Idle
    <2>2. UNCHANGED <<tagged, foreign, woken, waiting, issue, stopped, quiesced, quiescer,
                      readers>>
      BY Zenon DEF RunStart, tagVars, pauseVars
    <2>3. Lists'
      BY <1>1, <1>3, <2>1, <2>2 DEF IInv, Types, Lists, On, Move
    <2>4. Tags' /\ Wakes'
      BY <1>1, <2>1, <2>2 DEF IInv, Types, Tags, Wakes, Lists, On, Move, Busy
    <2>5. Quiet'
      BY <1>1, <1>3, <2>1, <2>2, Zenon DEF IInv, Types, Quiet, Running
    <2>6. Completes' /\ Busy(w)'
      BY <2>1, Zenon DEF Completes, Busy
    <2>7. Runs'
      BY <2>1, <2>6, Zenon DEF Runs, CtxRun, DispatchRun, LeftCovered, Covered
    <2> QED
      BY <2>3, <2>4, <2>5, <2>7, Zenon DEF Rest
  <1>4. CASE ~(stopped \/ quiesced) /\ On("dispatch") = {}
    <2>1. /\ run'[w].pc = "pull" /\ run'[w].list = {}
          /\ run'[v] = run[v] /\ run[w].pc = "idle"
          /\ UNCHANGED <<where, restart>>
      <3>1. /\ Step(w, [Idle EXCEPT !.pc = "pull", !.more = Elevator])
            /\ run[w].pc = "idle" /\ UNCHANGED <<where, restart>>
        BY <1>4, Zenon DEF RunStart
      <3>2. run'[w] = [Idle EXCEPT !.pc = "pull", !.more = Elevator]
        BY <3>1, StepAt, Zenon DEF IInv
      <3>3. run'[v] = run[v]
        BY <1>1, <3>1, StepAt, Zenon DEF IInv
      <3> QED
        BY <3>1, <3>2, <3>3, Zenon DEF Idle
    <2>2. UNCHANGED <<tagged, foreign, woken, waiting, issue, stopped, quiesced, quiescer,
                      readers>>
      BY Zenon DEF RunStart, tagVars, pauseVars
    <2>3. Lists'
      BY <1>1, <2>1, <2>2 DEF IInv, Types, Lists, On
    <2>4. Tags' /\ Wakes'
      BY <1>1, <2>1, <2>2 DEF IInv, Types, Tags, Wakes, Busy
    <2>5. Quiet'
      BY <1>1, <1>4, <2>1, <2>2, Zenon DEF IInv, Types, Quiet, Running
    <2>6. ~Some({"dispatch"}) /\ ~Some({"dispatch"})'
      BY <1>4, <2>1, Zenon DEF Some, On
    <2>7. CtxRun' /\ DispatchRun'
      BY <2>1, <2>6, Zenon DEF CtxRun, DispatchRun
    <2>8. LeftCovered'
      BY <1>1, <2>1, <2>6 DEF IInv, Runs, LeftCovered, Covered, Completes, Some, Again, Busy
    <2> QED
      BY <2>3, <2>4, <2>5, <2>7, <2>8, Zenon DEF Rest, Runs
  <1> QED
    BY <1>2, <1>3, <1>4, Zenon DEF RunStart

(* Which other run there is, and whose the lists are.                      *)
LEMMA OtherRun ==
    ASSUME Lists, NEW w \in Runner
    PROVE  \E v \in Runner : /\ v # w /\ \A u \in Runner : u \in {v, w}
                             /\ run[v].list \cap run[w].list = {}
  BY Zenon DEF Lists

(* Runs that end, and nothing paused or resumed.                           *)
LEMMA QuietKept ==
    ASSUME Quiet, UNCHANGED <<issue, stopped, quiesced, quiescer, readers>>,
           \A u \in Runner : run[u].pc = "idle" => run'[u].pc = "idle"
    PROVE  Quiet'
  BY Zenon DEF Quiet, Running

(* A run takes requests from the software queues.                          *)
LEMMA PullNext ==
    ASSUME IInv, Types', NEW w \in Runner, RunPull(w)
    PROVE  Rest'
  <1>1. PICK v \in Runner : /\ v # w /\ \A u \in Runner : u \in {v, w}
                            /\ run[v].list \cap run[w].list = {}
    BY OtherRun, Zenon DEF IInv
  <1>2. /\ UNCHANGED <<restart, tagged, foreign, woken, waiting, pend, issue, stopped, quiesced,
                       quiescer, readers>>
        /\ run[w].pc = "pull"
    BY Zenon DEF RunPull, tagVars, pauseVars
  <1>3. CASE On("ctx") = {} /\ Step(w, Idle) /\ UNCHANGED where
    <2>1. run'[w].pc = "idle" /\ run'[w].list = {} /\ run'[v] = run[v]
      <3>1. run'[w] = Idle /\ run'[v] = run[v]
        BY <1>1, <1>3, StepAt, Zenon DEF IInv
      <3> QED
        BY <3>1 DEF Idle
    <2>2. Lists'
      BY <1>1, <1>2, <1>3, <2>1 DEF IInv, Lists, On
    <2>3. Tags' /\ Wakes'
      BY <1>1, <1>2, <1>3, <2>1, Zenon DEF IInv, Tags, Wakes, Busy
    <2>4. Quiet'
      BY <1>1, <1>2, <2>1, QuietKept, Zenon DEF IInv
    <2>5. ~Some({"ctx"})'
      BY <1>3, Zenon DEF Some, On
    <2>6. CtxRun' /\ DispatchRun' /\ LeftCovered'
      BY <1>1, <1>2, <1>3, <2>1, <2>5 DEF IInv, Runs, CtxRun, DispatchRun, LeftCovered,
         Covered, Completes, Some, Again, Busy, Sure
    <2> QED
      BY <2>2, <2>3, <2>4, <2>6, Zenon DEF Rest, Runs
  <1>4. CASE ~(On("ctx") = {} /\ Step(w, Idle) /\ UNCHANGED where)
    <2>1. PICK S \in {On("ctx")} \cup {{r} : r \in On("ctx")} :
             /\ S # {} /\ where' = Move(S, "list")
             /\ Step(w, [run[w] EXCEPT !.pc = "tag", !.list = S,
                                       !.more = @ \/ S # On("ctx")])
      BY <1>4, Zenon DEF RunPull
    <2>2. S \subseteq On("ctx")
      BY <2>1, Zenon
    <2>3. run'[w].pc = "tag" /\ run'[w].list = S /\ run'[v] = run[v]
          /\ (S # On("ctx") => run'[w].more)
      <3>1. run'[w] = [run[w] EXCEPT !.pc = "tag", !.list = S, !.more = @ \/ S # On("ctx")]
        BY <2>1, StepAt, Zenon DEF IInv
      <3>2. run[w] \in RunRec
        BY Zenon DEF IInv, Types
      <3>3. run'[v] = run[v]
        BY <1>1, <2>1, StepAt, Zenon DEF IInv
      <3>4. run'[w].pc = "tag" /\ run'[w].list = S
        BY <3>1, <3>2, Zenon DEF RunRec
      <3>5. run'[w].more = (run[w].more \/ S # On("ctx"))
        BY <3>1, <3>2, Zenon DEF RunRec
      <3> QED
        BY <3>3, <3>4, <3>5, Zenon
    <2>4. Lists'
      BY <1>1, <1>2, <2>1, <2>2, <2>3 DEF IInv, Types, Lists, On, Move
    <2>5. Tags' /\ Wakes'
      BY <1>1, <1>2, <2>1, <2>2, <2>3 DEF IInv, Types, Tags, Wakes, Lists, Busy, On, Move
    <2>6. Quiet'
      BY <1>1, <1>2, <2>3, QuietKept, Zenon DEF IInv
    <2>7. Completes' /\ Busy(w)'
      BY <2>3, Zenon DEF Completes, Busy
    <2>8. CtxRun'
      BY <2>1, <2>3, <2>7, Zenon DEF CtxRun, Some, On, Move
    <2>9. DispatchRun'
      BY <1>1, <1>2, <2>1, <2>2, <2>3, <2>7, Zenon DEF IInv, Runs, DispatchRun, Some, On, Move, Sure
    <2>10. LeftCovered'
      BY <2>7, Zenon DEF LeftCovered, Covered
    <2> QED
      BY <2>4, <2>5, <2>6, <2>8, <2>9, <2>10, Zenon DEF Rest, Runs
  <1> QED
    BY <1>3, <1>4, Zenon

(* blk_mq_get_driver_tag, first attempt.                                   *)
LEMMA TagNext ==
    ASSUME IInv, Types', NEW w \in Runner, RunTag(w)
    PROVE  Rest'
  <1>1. PICK v \in Runner : /\ v # w /\ \A u \in Runner : u \in {v, w}
                            /\ run[v].list \cap run[w].list = {}
    BY OtherRun, Zenon DEF IInv
  <1>2. /\ UNCHANGED <<where, restart, foreign, woken, waiting, pend, issue, stopped, quiesced,
                       quiescer, readers>>
        /\ run[w].pc = "tag"
    BY Zenon DEF RunTag, pauseVars
  <1>3. PICK r \in run[w].list, pc \in {"queue", "mark"} :
           /\ Step(w, [run[w] EXCEPT !.pc = pc, !.rq = {r}])
           /\ \/ tagged' = tagged \/ (pc = "queue" /\ tagged' = tagged \cup {r})
           /\ pc = "mark" => tagged' = tagged /\ run[w].list \cap tagged = {}
    BY Zenon DEF RunTag, HasTag
  <1>4. /\ run'[w].pc = pc /\ run'[w].rq = {r} /\ run'[w].list = run[w].list
        /\ run'[w].more = run[w].more /\ run'[v] = run[v]
    <2>1. run'[w] = [run[w] EXCEPT !.pc = pc, !.rq = {r}]
      BY <1>3, StepAt, Zenon DEF IInv
    <2>2. run[w] \in RunRec
      BY Zenon DEF IInv, Types
    <2>3. run'[v] = run[v]
      BY <1>1, <1>3, StepAt, Zenon DEF IInv
    <2> QED
      BY <2>1, <2>2, <2>3, Zenon DEF RunRec
  <1>5. Lists'
    BY <1>1, <1>2, <1>3, <1>4 DEF IInv, Lists, On
  <1>6. Tags' /\ Wakes'
    BY <1>1, <1>2, <1>3, <1>4 DEF IInv, Types, Tags, Wakes, Busy
  <1>7. Quiet'
    BY <1>1, <1>2, <1>3, <1>4, QuietKept, Zenon DEF IInv
  <1>8. Runs'
    BY <1>1, <1>2, <1>3, <1>4 DEF IInv, Runs, CtxRun, DispatchRun, LeftCovered,
         Covered, Completes, Some, Again, Busy, Sure
  <1> QED
    BY <1>5, <1>6, <1>7, <1>8, Zenon DEF Rest

(* blk_mq_mark_tag_wait, up to the second attempt.                         *)
LEMMA MarkNext ==
    ASSUME IInv, Types', NEW w \in Runner, RunMark(w)
    PROVE  Rest'
  <1>1. PICK v \in Runner : /\ v # w /\ \A u \in Runner : u \in {v, w}
                            /\ run[v].list \cap run[w].list = {}
    BY OtherRun, Zenon DEF IInv
  <1>2. /\ UNCHANGED <<where, tagged, foreign, woken, pend, issue, stopped, quiesced,
                       quiescer, readers>>
        /\ run[w].pc = "mark" /\ run[w] \in RunRec
    BY Zenon DEF RunMark, pauseVars, IInv, Types
  <1>3. CASE Step(w, [run[w] EXCEPT !.pc = "retry"])
    <2>1. /\ run'[w].pc = "retry" /\ run'[w].list = run[w].list /\ run'[w].rq = run[w].rq
          /\ run'[w].more = run[w].more /\ run'[v] = run[v]
      <3>1. run'[w] = [run[w] EXCEPT !.pc = "retry"]
        BY <1>3, StepAt, Zenon DEF IInv
      <3>2. run'[v] = run[v]
        BY <1>1, <1>3, StepAt, Zenon DEF IInv
      <3> QED
        BY <1>2, <3>1, <3>2, Zenon DEF RunRec
    <2>2. (restart => restart') /\ (waiting => waiting') /\ (waiting' => waiting \/ Shared)
      BY DEF RunMark
    <2>3. Lists'
      BY <1>1, <1>2, <2>1, SMTT(30) DEF IInv, Lists, On
    <2>4. Tags' /\ Wakes'
      BY <1>1, <1>2, <2>1, <2>2 DEF IInv, Tags, Wakes, Busy
    <2>5. Quiet'
      BY <1>1, <1>2, <2>1, QuietKept, Zenon DEF IInv
    <2>6. Completes' /\ Busy(w)'
      BY <2>1, Zenon DEF Completes, Busy
    <2>7. Runs'
      BY <1>1, <1>2, <2>1, <2>2, <2>6 DEF IInv, Runs, CtxRun, DispatchRun, LeftCovered, Covered,
         Some, Busy, Sure
    <2> QED
      BY <2>3, <2>4, <2>5, <2>7, Zenon DEF Rest
  <1>4. CASE Step(w, [run[w] EXCEPT !.pc = "splice", !.no_tag = TRUE])
    <2>1. /\ run'[w].pc = "splice" /\ run'[w].list = run[w].list /\ run'[w].no_tag = TRUE
          /\ run'[v] = run[v]
      <3>1. run'[w] = [run[w] EXCEPT !.pc = "splice", !.no_tag = TRUE]
        BY <1>4, StepAt, Zenon DEF IInv
      <3>2. run'[v] = run[v]
        BY <1>1, <1>4, StepAt, Zenon DEF IInv
      <3> QED
        BY <1>2, <3>1, <3>2, Zenon DEF RunRec
    <2>2. waiting' = waiting
      <3>1. [run[w] EXCEPT !.pc = "retry"].pc = "retry"
        BY <1>2, Zenon DEF RunRec
      <3>2. CASE Step(w, [run[w] EXCEPT !.pc = "retry"])
        BY <2>1, <3>1, <3>2, StepAt, Zenon DEF IInv
      <3> QED
        BY <3>2, Zenon DEF RunMark
    <2>3. Lists'
      BY <1>1, <1>2, <2>1 DEF IInv, Lists, On
    <2>4. Tags' /\ Wakes'
      BY <1>1, <1>2, <2>1, <2>2 DEF IInv, Tags, Wakes, Busy
    <2>5. Quiet'
      BY <1>1, <1>2, <2>1, QuietKept, Zenon DEF IInv
    <2>6. Runs'
      BY <1>1, <1>2, <2>1, Zenon DEF Runs, CtxRun, DispatchRun, LeftCovered, Covered, Again
    <2> QED
      BY <2>3, <2>4, <2>5, <2>6, Zenon DEF Rest
  <1> QED
    BY <1>3, <1>4, Zenon DEF RunMark

(* The second attempt to get a tag, after the waiter is in place.          *)
LEMMA RetryNext ==
    ASSUME IInv, Types', NEW w \in Runner, RunRetry(w)
    PROVE  Rest'
  <1>1. PICK v \in Runner : /\ v # w /\ \A u \in Runner : u \in {v, w}
                            /\ run[v].list \cap run[w].list = {}
    BY OtherRun, Zenon DEF IInv
  <1>2. /\ UNCHANGED <<where, foreign, woken, restart, pend, issue, stopped, quiesced, quiescer,
                       readers>>
        /\ run[w].pc = "retry" /\ run[w] \in RunRec
    BY Zenon DEF RunRetry, pauseVars, IInv, Types
  <1>3. CASE \E r \in run[w].rq : /\ tagged' = tagged \cup {r} /\ waiting' = FALSE
                                  /\ Step(w, [run[w] EXCEPT !.pc = "queue"])
    <2>1. PICK r \in run[w].rq : /\ tagged' = tagged \cup {r} /\ waiting' = FALSE
                                 /\ Step(w, [run[w] EXCEPT !.pc = "queue"])
      BY <1>3, Zenon
    <2>2. /\ run'[w].pc = "queue" /\ run'[w].list = run[w].list /\ run'[w].rq = run[w].rq
          /\ run'[w].more = run[w].more /\ run'[v] = run[v] /\ r \in run[w].list
      <3>1. run'[w] = [run[w] EXCEPT !.pc = "queue"]
        BY <2>1, StepAt, Zenon DEF IInv
      <3>2. run'[v] = run[v]
        BY <1>1, <2>1, StepAt, Zenon DEF IInv
      <3>3. r \in run[w].list
        BY <1>2, <2>1, Zenon DEF IInv, Lists
      <3> QED
        BY <1>2, <3>1, <3>2, <3>3, Zenon DEF RunRec
    <2>3. Lists'
      BY <1>1, <1>2, <2>2 DEF IInv, Lists, On
    <2>4. Tags' /\ Wakes'
      BY <1>1, <1>2, <2>1, <2>2 DEF IInv, Tags, Wakes, Busy
    <2>5. Quiet'
      BY <1>1, <1>2, <2>2, QuietKept, Zenon DEF IInv
    <2>6. Completes' /\ Busy(w)'
      BY <2>2, Zenon DEF Completes, Busy
    <2>7. Runs'
      BY <1>1, <1>2, <2>2, <2>6 DEF IInv, Runs, CtxRun, DispatchRun, LeftCovered, Covered,
         Some, Busy, Sure
    <2> QED
      BY <2>3, <2>4, <2>5, <2>7, Zenon DEF Rest
  <1>4. CASE /\ ~FreeTag /\ UNCHANGED <<tagged, waiting>>
             /\ Step(w, [run[w] EXCEPT !.pc = "splice", !.no_tag = Shared])
    <2>1. /\ run'[w].pc = "splice" /\ run'[w].list = run[w].list /\ run'[w].no_tag = Shared
          /\ run'[v] = run[v]
      <3>1. run'[w] = [run[w] EXCEPT !.pc = "splice", !.no_tag = Shared]
        BY <1>4, StepAt, Zenon DEF IInv
      <3>2. run'[v] = run[v]
        BY <1>1, <1>4, StepAt, Zenon DEF IInv
      <3> QED
        BY <1>2, <3>1, <3>2, Zenon DEF RunRec
    <2>2. tagged # {} \/ foreign > 0
      <3>1. SUFFICES ASSUME tagged = {}
                     PROVE  foreign > 0
        BY Zenon
      <3>2. Cardinality(tagged) = 0
        BY <3>1, FS_EmptySet, Zenon
      <3> QED
        BY <1>4, <3>2, DispatchAssumption DEF FreeTag, IInv, Types
    <2>3. run[w].list \cap tagged = {}
      BY <1>2, Zenon DEF IInv, Tags
    <2>4. Lists'
      BY <1>1, <1>2, <2>1 DEF IInv, Lists, On
    <2>5. Tags' /\ Wakes'
      BY <1>1, <1>2, <1>4, <2>1, <2>2, <2>3, Zenon DEF IInv, Tags, Wakes, Busy
    <2>6. Quiet'
      BY <1>1, <1>2, <2>1, QuietKept, Zenon DEF IInv
    <2>7. ~Shared => Completes'
      <3>1. SUFFICES ASSUME ~Shared
                     PROVE  Completes'
        BY Zenon
      <3>2. PICK t \in tagged : TRUE
        BY <2>2, <3>1, Zenon DEF IInv, Tags
      <3>3. CASE where[t] \in {"drv", "put"}
        BY <1>2, <3>2, <3>3, Zenon DEF IInv, Types, Completes, Some
      <3>4. CASE \E u \in Runner : Busy(u) /\ t \in run[u].list
        BY <1>1, <2>1, <2>3, <3>2, <3>4, Zenon DEF Completes, Busy
      <3> QED
        BY <3>2, <3>3, <3>4, Zenon DEF IInv, Tags
    <2>8. Runs'
      BY <1>1, <2>1, <2>7, Zenon DEF Runs, CtxRun, DispatchRun, LeftCovered, Covered, Again
    <2> QED
      BY <2>4, <2>5, <2>6, <2>8, Zenon DEF Rest
  <1> QED
    BY <1>3, <1>4, Zenon DEF RunRetry

(* queue_rq: the driver takes the request or refuses it.                   *)
LEMMA QueueNext ==
    ASSUME IInv, Types', NEW w \in Runner, RunQueue(w)
    PROVE  Rest'
  <1>1. PICK v \in Runner : /\ v # w /\ \A u \in Runner : u \in {v, w}
                            /\ run[v].list \cap run[w].list = {}
    BY OtherRun, Zenon DEF IInv
  <1>2. /\ UNCHANGED <<foreign, waiting, restart, pend, issue, stopped, quiesced, quiescer,
                       readers>>
        /\ run[w].pc = "queue" /\ run[w] \in RunRec
    BY Zenon DEF RunQueue, pauseVars, IInv, Types
  <1>3. PICK r \in run[w].rq :
           \/ \E place \in {"drv", "put"}, ret \in {"ok", "error"} :
                 /\ where' = Move({r}, place) /\ woken' = woken
                 /\ Step(w, [run[w] EXCEPT !.pc = IF run[w].list \ {r} = {} THEN "end" ELSE "tag",
                                           !.list = run[w].list \ {r}, !.rq = {},
                                           !.ret = ret])
                 /\ \/ tagged' = tagged
                    \/ \E nxt \in run[w].list \ {r} : tagged' = tagged \cup {nxt}
           \/ \E ret \in {"resource", "dev_resource"} :
                 /\ ret = "dev_resource" => On("drv") # {}
                 /\ Step(w, [run[w] EXCEPT !.pc = "splice", !.rq = {}, !.ret = ret])
                 /\ tagged' = tagged \ run[w].list /\ woken' = Woken(run[w].list)
                 /\ where' = where
    BY Zenon DEF RunQueue, Accept, Refuse
  <1>4. r \in run[w].list /\ where[r] = "list" /\ r \in Req
    BY <1>2, <1>3 DEF IInv, Lists, On
  <1>5. ASSUME NEW place \in {"drv", "put"}, NEW ret \in {"ok", "error"},
               where' = Move({r}, place), woken' = woken,
               Step(w, [run[w] EXCEPT !.pc = IF run[w].list \ {r} = {} THEN "end" ELSE "tag",
                                      !.list = run[w].list \ {r}, !.rq = {}, !.ret = ret]),
               \/ tagged' = tagged
               \/ \E nxt \in run[w].list \ {r} : tagged' = tagged \cup {nxt}
        PROVE  Rest'
    <2>1. /\ run'[w].pc = (IF run[w].list \ {r} = {} THEN "end" ELSE "tag")
          /\ run'[w].list = run[w].list \ {r} /\ run'[w].more = run[w].more
          /\ run'[v] = run[v]
      <3>1. run'[w] = [run[w] EXCEPT !.pc = IF run[w].list \ {r} = {} THEN "end" ELSE "tag",
                                     !.list = run[w].list \ {r}, !.rq = {}, !.ret = ret]
        BY <1>5, StepAt DEF IInv
      <3>2. run'[v] = run[v]
        BY <1>1, <1>5, StepAt, Zenon DEF IInv
      <3> QED
        BY <1>2, <3>1, <3>2, Zenon DEF RunRec
    <2>2. where'[r] = place /\ \A q \in Req \ {r} : where'[q] = where[q]
      BY <1>4, <1>5, Zenon DEF Move
    <2>3. Lists'
      BY <1>1, <1>2, <1>4, <2>1, <2>2 DEF IInv, Types, Lists, On
    <2>4. Tags'
      <3>1. \A t \in tagged' : t \in tagged \/ t \in run[w].list \ {r}
        BY <1>5, Zenon
      <3>2. ASSUME NEW t \in tagged'
            PROVE  \/ where'[t] \in {"drv", "put"}
                   \/ \E u \in Runner : Busy(u)' /\ t \in run'[u].list
        <4>1. CASE t \in run[w].list \ {r}
          BY <2>1, <4>1, Zenon DEF Busy
        <4>2. CASE t = r
          BY <2>2, <4>2, Zenon
        <4>3. CASE t \in tagged /\ t \notin run[w].list
          <5>1. t \in Req /\ where'[t] = where[t]
            BY <1>4, <2>2, <4>3, Zenon DEF IInv, Types
          <5> QED
            BY <1>1, <2>1, <4>3, <5>1, Zenon DEF IInv, Tags, Busy
        <4> QED
          BY <1>4, <3>1, <4>1, <4>2, <4>3, Zenon
      <3>3. \A u \in Runner : run'[u].pc \in {"mark", "retry"} => run'[u].list \cap tagged' = {}
        BY <1>1, <2>1, <3>1, Zenon DEF IInv, Tags
      <3>4. foreign' > 0 => Shared
        BY <1>2, Zenon DEF IInv, Tags
      <3> QED
        BY <3>2, <3>3, <3>4, Zenon DEF Tags
    <2>5. Wakes'
      BY <1>1, <1>2, <1>5, <2>1, Zenon DEF IInv, Wakes
    <2>6. Quiet'
      BY <1>1, <1>2, <2>1, QuietKept, Zenon DEF IInv
    <2>7. Completes'
      BY <1>4, <2>2, Zenon DEF Completes, Some
    <2>8. CtxRun'
      BY <1>1, <1>2, <1>4, <2>1, <2>2, SMTT(30) DEF IInv, Types, Runs, CtxRun, Some, Busy, Sure
    <2>9. DispatchRun' /\ LeftCovered'
      BY <1>1, <1>2, <1>4, <2>1, <2>2, <2>7, Zenon DEF IInv, Types, Runs, DispatchRun, LeftCovered,
         Covered, Some, Sure
    <2> QED
      BY <2>3, <2>4, <2>5, <2>6, <2>8, <2>9, Zenon DEF Rest, Runs
  <1>6. ASSUME NEW ret \in {"resource", "dev_resource"},
               ret = "dev_resource" => On("drv") # {},
               Step(w, [run[w] EXCEPT !.pc = "splice", !.rq = {}, !.ret = ret]),
               tagged' = tagged \ run[w].list, woken' = Woken(run[w].list), where' = where
        PROVE  Rest'
    <2>1. /\ run'[w].pc = "splice" /\ run'[w].list = run[w].list /\ run'[w].ret = ret
          /\ run'[v] = run[v]
      <3>1. run'[w] = [run[w] EXCEPT !.pc = "splice", !.rq = {}, !.ret = ret]
        BY <1>6, StepAt, Zenon DEF IInv
      <3>2. run'[v] = run[v]
        BY <1>1, <1>6, StepAt, Zenon DEF IInv
      <3> QED
        BY <1>2, <3>1, <3>2, Zenon DEF RunRec
    <2>2. Lists'
      BY <1>1, <1>2, <1>6, <2>1 DEF IInv, Lists, On
    <2>3. Tags'
      BY <1>1, <1>2, <1>6, <2>1, Zenon DEF IInv, Tags, Busy
    <2>4. Wakes'
      <3>1. /\ (Shared /\ tagged \cap run[w].list # {}) => woken' > 0
            /\ woken > 0 => woken' > 0
        <4>1. /\ Cardinality(tagged \cap run[w].list) \in Nat /\ woken \in Nat
              /\ tagged \cap run[w].list # {} => Cardinality(tagged \cap run[w].list) > 0
          BY <1>4, TagsCounted, Zenon DEF IInv, Types
        <4> QED
          BY <1>6, <4>1 DEF Woken
      <3>2. tagged \cap run[w].list = {} => tagged' = tagged
        BY <1>6, Zenon
      <3> QED
        BY <1>1, <1>2, <2>1, <3>1, <3>2, Zenon DEF IInv, Wakes
    <2>5. Quiet'
      BY <1>1, <1>2, <2>1, QuietKept, Zenon DEF IInv
    <2>6. ret = "dev_resource" => Completes'
      BY <1>6, Zenon DEF Completes, Some, On
    <2>7. Runs'
      BY <1>1, <1>6, <2>1, <2>6, Zenon DEF Runs, CtxRun, DispatchRun, LeftCovered, Covered, Again
    <2> QED
      BY <2>2, <2>3, <2>4, <2>5, <2>7, Zenon DEF Rest
  <1> QED
    BY <1>3, <1>5, <1>6, Zenon

(* What was not dispatched goes back to the dispatch list.                 *)
LEMMA SpliceNext ==
    ASSUME IInv, Types', NEW w \in Runner, RunSplice(w)
    PROVE  Rest'
  <1>1. PICK v \in Runner : /\ v # w /\ \A u \in Runner : u \in {v, w}
                            /\ run[v].list \cap run[w].list = {}
    BY OtherRun, Zenon DEF IInv
  <1>2. /\ UNCHANGED <<tagged, foreign, woken, waiting, restart, pend, issue, stopped, quiesced,
                       quiescer, readers>>
        /\ run[w].pc = "splice" /\ run[w] \in RunRec /\ where' = Move(run[w].list, "dispatch")
    BY Zenon DEF RunSplice, tagVars, pauseVars, IInv, Types
  <1>3. /\ run'[w].pc = "check" /\ run'[w].list = {} /\ run'[w].ret = run[w].ret
        /\ run'[w].no_tag = run[w].no_tag /\ run'[v] = run[v]
    <2>1. Step(w, [run[w] EXCEPT !.pc = "check", !.list = {}, !.rq = {}])
      BY Zenon DEF RunSplice
    <2>2. run'[w] = [run[w] EXCEPT !.pc = "check", !.list = {}, !.rq = {}]
      BY <2>1, StepAt, Zenon DEF IInv
    <2>3. run'[v] = run[v]
      BY <1>1, <2>1, StepAt, Zenon DEF IInv
    <2> QED
      BY <1>2, <2>2, <2>3, Zenon DEF RunRec
  <1>4. /\ \A q \in run[w].list : q \in Req /\ where[q] = "list" /\ where'[q] = "dispatch"
        /\ \A q \in Req \ run[w].list : where'[q] = where[q]
        /\ run[w].list # {}
    BY <1>2, Zenon DEF IInv, Types, Lists, On, Move
  <1>5. Lists'
    BY <1>1, <1>2, <1>3, <1>4, SMTT(30) DEF IInv, Types, Lists, On
  <1>6. Tags' /\ Wakes'
    BY <1>1, <1>2, <1>3, <1>4 DEF IInv, Types, Tags, Wakes, Busy
  <1>7. Quiet'
    BY <1>1, <1>2, <1>3, QuietKept, Zenon DEF IInv
  <1>8. Some({"dispatch"})'
    BY <1>4, Zenon DEF Some
  <1>9. Completes => Completes'
    BY <1>1, <1>2, <1>3, <1>4, Zenon DEF Completes, Some, Busy
  <1>10. CtxRun' /\ DispatchRun'
    BY <1>3, <1>8, Zenon DEF CtxRun, DispatchRun
  <1>11. LeftCovered'
    BY <1>1, <1>2, <1>3, <1>8, <1>9 DEF IInv, Runs, LeftCovered, Covered, Again, Sure
  <1> QED
    BY <1>5, <1>6, <1>7, <1>10, <1>11, Zenon DEF Rest, Runs

(* Who leaves requests behind asks for another run or is covered.          *)
LEMMA CheckNext ==
    ASSUME IInv, Types', NEW w \in Runner, RunCheck(w)
    PROVE  Rest'
  <1>1. PICK v \in Runner : /\ v # w /\ \A u \in Runner : u \in {v, w}
                            /\ run[v].list \cap run[w].list = {}
    BY OtherRun, Zenon DEF IInv
  <1>2. /\ UNCHANGED <<where, tagged, foreign, woken, waiting, restart, issue, stopped, quiesced,
                       quiescer, readers>>
        /\ run[w].pc = "check" /\ run[w] \in RunRec
    BY Zenon DEF RunCheck, tagVars, pauseVars, IInv, Types
  <1>3. run'[w].pc = "idle" /\ run'[w].list = {} /\ run'[v] = run[v]
    <2>1. Step(w, Idle)
      BY Zenon DEF RunCheck
    <2>2. run'[w] = Idle /\ run'[v] = run[v]
      BY <1>1, <2>1, StepAt, Zenon DEF IInv
    <2> QED
      BY <2>2 DEF Idle
  <1>4. \A u \in Runner : pend[u] => pend'[u]
    BY RunAsked, Zenon DEF RunCheck, IInv, Types
  <1>5. ASSUME Some({"dispatch"})
        PROVE  \/ Sure' \/ (restart /\ ~Again(w)) \/ (restart /\ waiting)
    <2>2. CASE RunHwQueue("work")
      <3>1. HasPending
        BY <1>2, <1>5, Zenon DEF HasPending, Some
      <3> QED
        BY <1>2, <2>2, <3>1, RunAsked, Zenon DEF IInv, Sure
    <2>3. CASE pend' = [pend EXCEPT !["work"] = @ \/ ~stopped]
      BY <1>2, <2>3, Zenon DEF IInv, Types, Sure
    <2>4. CASE restart /\ ~(run[w].no_tag /\ ~waiting) /\ run[w].ret # "resource"
      BY <2>4, Zenon DEF Again
    <2> QED
      BY <2>2, <2>3, <2>4, Zenon DEF RunCheck
  <1>6. Sure => Sure'
    BY <1>2, <1>4, Zenon DEF Sure
  <1>7. Lists'
    BY <1>1, <1>2, <1>3 DEF IInv, Lists, On
  <1>8. Tags' /\ Wakes'
    BY <1>1, <1>2, <1>3, Zenon DEF IInv, Tags, Wakes, Busy
  <1>9. Quiet'
    BY <1>1, <1>2, <1>3, QuietKept, Zenon DEF IInv
  <1>10. Completes' <=> Completes
    BY <1>1, <1>2, <1>3, Zenon DEF Completes, Some, Busy
  <1>11. \A S : Some(S)' <=> Some(S)
    BY <1>2, Zenon DEF Some
  <1>12. CtxRun'
    BY <1>1, <1>2, <1>3, <1>6, <1>11, Zenon DEF IInv, Runs, CtxRun, Busy
  <1>13. DispatchRun'
    BY <1>1, <1>2, <1>3, <1>5, <1>6, <1>10, <1>11, Zenon
       DEF IInv, Runs, DispatchRun, LeftCovered,
       Covered
  <1>14. LeftCovered'
    BY <1>1, <1>2, <1>3, <1>5, <1>6, <1>10, <1>11 DEF IInv, Runs, LeftCovered, Covered, Again
  <1> QED
    BY <1>7, <1>8, <1>9, <1>12, <1>13, <1>14, Zenon DEF Rest, Runs

(* A run ends or goes on with the software queues.                         *)
LEMMA EndNext ==
    ASSUME IInv, Types', NEW w \in Runner, RunEnd(w)
    PROVE  Rest'
  <1>1. PICK v \in Runner : /\ v # w /\ \A u \in Runner : u \in {v, w}
                            /\ run[v].list \cap run[w].list = {}
    BY OtherRun, Zenon DEF IInv
  <1>2. /\ UNCHANGED <<where, tagged, foreign, woken, waiting, restart, pend, issue, stopped,
                       quiesced, quiescer, readers>>
        /\ run[w].pc = "end" /\ run[w] \in RunRec
    BY Zenon DEF RunEnd, tagVars, pauseVars, IInv, Types
  <1>3. /\ run'[w].pc \in {"pull", "idle"} /\ (run[w].more => run'[w].pc = "pull")
        /\ run'[w].list = {} /\ run'[v] = run[v]
    <2>1. Step(w, IF run[w].more THEN [Idle EXCEPT !.pc = "pull", !.more = TRUE] ELSE Idle)
      BY Zenon DEF RunEnd
    <2>2. /\ run'[w] = IF run[w].more THEN [Idle EXCEPT !.pc = "pull", !.more = TRUE] ELSE Idle
          /\ run'[v] = run[v]
      BY <1>1, <2>1, StepAt, Zenon DEF IInv
    <2> QED
      BY <2>2 DEF Idle
  <1>4. Lists'
    BY <1>1, <1>2, <1>3 DEF IInv, Lists, On
  <1>5. Tags' /\ Wakes'
    BY <1>1, <1>2, <1>3, Zenon DEF IInv, Tags, Wakes, Busy
  <1>6. Quiet'
    BY <1>1, <1>2, <1>3, QuietKept, Zenon DEF IInv
  <1>7. (Completes' <=> Completes) /\ (Sure' <=> Sure)
    BY <1>1, <1>2, <1>3, Zenon DEF Completes, Some, Busy, Sure
  <1>8. CtxRun'
    BY <1>1, <1>2, <1>3, <1>7, Zenon DEF IInv, Runs, CtxRun, Some, Busy
  <1>9. DispatchRun'
    BY <1>1, <1>2, <1>3, <1>7, Zenon DEF IInv, Runs, DispatchRun, Some
  <1>10. LeftCovered'
    BY <1>1, <1>2, <1>3, <1>7, Zenon DEF IInv, Runs, LeftCovered, Covered, Some, Again
  <1> QED
    BY <1>4, <1>5, <1>6, <1>8, <1>9, <1>10, Zenon DEF Rest, Runs

-----------------------------------------------------------------------------
(* The other steps *)

(* Steps that bring requests to the lists: they leave the runs, the tags   *)
(* and the pauses alone, and whatever reaches a list comes with a run.     *)
LEMMA SubmitNext ==
    ASSUME IInv, Types',
           UNCHANGED <<run, tagged, foreign, woken, waiting, restart, stopped, quiesced,
                       quiescer, readers>>,
           \A q \in Req : where[q] \in {"list", "drv", "put", "restart", "dispatch"}
                           => where'[q] = where[q],
           \A u \in Runner : pend[u] => pend'[u],
           \A q \in issue' : where'[q] \in {"issue", "listed"},
           issue # {} \/ issue' = {} \/ ~quiesced,
           \/ Sure'
           \/ \A q \in Req : where'[q] \in {"ctx", "dispatch"} => where'[q] = where[q]
    PROVE  Rest'
  <1>1. Lists'
    BY SMTT(30) DEF IInv, Types, Lists, On
  <1>2. Tags' /\ Wakes'
    BY Zenon DEF IInv, Types, Tags, Wakes, Busy
  <1>3. Quiet'
    BY Zenon DEF IInv, Quiet, Running
  <1>4. Sure => Sure'
    BY Zenon DEF Sure
  <1>5. Completes => Completes'
    BY Zenon DEF Completes, Some, Busy
  <1>6. Some({"dispatch"}) => Some({"dispatch"})'
    BY Zenon DEF Some
  <1>7. LeftCovered'
    <2>1. ASSUME NEW w \in Runner, Covered(w)
          PROVE  Covered(w)'
      BY <1>4, <1>5, <1>6, <2>1, Zenon DEF Covered, Again
    <2> QED
      BY <2>1, Zenon DEF IInv, Runs, LeftCovered, Again
  <1>8. CtxRun' /\ DispatchRun'
    <2>1. CASE Sure'
      BY <2>1, Zenon DEF CtxRun, DispatchRun
    <2>2. CASE \A q \in Req : where'[q] \in {"ctx", "dispatch"} => where'[q] = where[q]
      <3>1. /\ Some({"ctx"})' => Some({"ctx"})
            /\ Some({"dispatch"})' => Some({"dispatch"})
        BY <2>2, Zenon DEF Some
      <3>2. CtxRun'
        BY <1>4, <1>6, <3>1, Zenon DEF IInv, Runs, CtxRun, Busy
      <3>3. DispatchRun'
        BY <1>4, <1>5, <3>1, Zenon DEF IInv, Runs, DispatchRun
      <3> QED
        BY <3>2, <3>3, Zenon
    <2> QED
      BY <2>1, <2>2, Zenon
  <1> QED
    BY <1>1, <1>2, <1>3, <1>7, <1>8, Zenon DEF Rest, Runs

(* Insertion, plugging, direct issue and requests of a dying CPU.          *)
LEMMA SubmissionNext ==
    ASSUME IInv, Types',
           \/ FlushPlugList \/ HctxNotifyDead
           \/ \E r \in Req : Insert(r) \/ Plug(r) \/ TryIssueDirectly(r) \/ IssueDirectly(r)
    PROVE  Rest'
  <1>1. /\ Types /\ Quiet /\ where \in [Req -> {"new", "plug", "ctx", "dispatch", "list", "issue",
                          "listed", "drv", "put", "restart", "done"}]
        /\ \A q \in issue : q \in Req /\ where[q] \in {"issue", "listed"}
    BY Zenon DEF IInv, Types, Lists
  <1>2. UNCHANGED <<run, tagged, foreign, woken, waiting, restart, stopped, quiesced, quiescer,
                    readers>>
    BY Zenon DEF FlushPlugList, HctxNotifyDead, Insert, Plug, TryIssueDirectly, IssueDirectly,
       tagVars,
       pauseVars
  <1>3. ASSUME NEW w \in Runner, RunHwQueue(w)
        PROVE  (\A u \in Runner : pend[u] => pend'[u]) /\ (HasPending => Sure')
    BY <1>1, <1>2, <1>3, RunAsked, Zenon DEF Sure
  <1>4. CASE FlushPlugList
    BY <1>1, <1>2, <1>3, <1>4, SubmitNext, Zenon DEF FlushPlugList, HasPending, On, Move
  <1>5. CASE HctxNotifyDead
    BY <1>1, <1>2, <1>3, <1>5, SubmitNext, Zenon DEF HctxNotifyDead, HasPending, On, Move
  <1>6. ASSUME NEW r \in Req, Insert(r)
        PROVE  Rest'
    BY <1>1, <1>2, <1>3, <1>6, SubmitNext, Zenon DEF Insert, HasPending, Move
  <1>7. ASSUME NEW r \in Req, Plug(r)
        PROVE  Rest'
    BY <1>1, <1>2, <1>7, SubmitNext, Zenon DEF Plug, Move
  <1>8. ASSUME NEW r \in Req, TryIssueDirectly(r)
        PROVE  Rest'
    <2>1. \A q \in Req \ {r} : where'[q] = where[q]
      BY <1>8, Zenon DEF TryIssueDirectly, Move
    <2>2. CASE stopped \/ quiesced
      BY <1>1, <1>2, <1>8, <2>1, <2>2, SubmitNext, Zenon DEF TryIssueDirectly, Sure, Quiet
    <2>3. CASE ~(stopped \/ quiesced) /\ Elevator
      BY <1>1, <1>2, <1>3, <1>8, <2>1, <2>3, SubmitNext, Zenon
         DEF TryIssueDirectly, Move, HasPending
    <2>4. CASE ~(stopped \/ quiesced) /\ ~Elevator
      BY <1>1, <1>2, <1>8, <2>1, <2>4, SubmitNext, Zenon DEF TryIssueDirectly, Move
    <2> QED
      BY <2>2, <2>3, <2>4, Zenon
  <1>9. ASSUME NEW r \in Req, IssueDirectly(r)
        PROVE  Rest'
    <2>1. r \in issue /\ issue' = {} /\ where[r] \in {"issue", "listed"}
      BY <1>1, <1>9, Zenon DEF IssueDirectly
    <2>2. CASE pend' = pend /\ \E p \in {"drv", "put"} : where' = Move({r}, p)
      BY <1>1, <1>2, <2>1, <2>2, SubmitNext, Zenon DEF Move
    <2>3. CASE /\ RunHwQueue("sync")
               /\ where' = [q \in Req |->
                          IF q = r THEN "dispatch"
                          ELSE IF where[r] = "listed" /\ where[q] = "plug" THEN "ctx"
                          ELSE where[q]]
      BY <1>1, <1>2, <1>3, <2>1, <2>3, SubmitNext, Zenon DEF HasPending
    <2> QED
      BY <1>9, <2>2, <2>3, Zenon DEF IssueDirectly, Accept
  <1> QED
    BY <1>4, <1>5, <1>6, <1>7, <1>8, <1>9, Zenon

(* A completion gives its tag back.                                        *)
LEMMA PutTagNext ==
    ASSUME IInv, Types', NEW r \in Req, PutTag(r)
    PROVE  Rest'
  <1>1. /\ UNCHANGED <<foreign, waiting, restart, pend, run, issue, stopped, quiesced, quiescer,
                       readers>>
        /\ where[r] \in {"drv", "put"} /\ where'[r] = "restart"
        /\ tagged' = tagged \ {r} /\ woken' = Woken({r})
        /\ \A q \in Req \ {r} : where'[q] = where[q]
    BY Zenon DEF PutTag, Move, pauseVars
  <1>2. Lists'
    BY <1>1, Zenon DEF IInv, Types, Lists, On
  <1>3. Tags'
    BY <1>1, Zenon DEF IInv, Types, Tags, Busy
  <1>4. Wakes'
    <2>1. /\ (Shared /\ tagged \cap {r} # {}) => woken' > 0
          /\ woken > 0 => woken' > 0
      <3>1. /\ Cardinality(tagged \cap {r}) \in Nat /\ woken \in Nat
            /\ tagged \cap {r} # {} => Cardinality(tagged \cap {r}) > 0
        BY TagsCounted, Zenon DEF IInv, Types
      <3> QED
        BY <1>1, <3>1 DEF Woken
    <2>2. tagged \cap {r} = {} => tagged' = tagged
      BY <1>1, Zenon
    <2> QED
      BY <1>1, <2>1, <2>2, Zenon DEF IInv, Wakes
  <1>5. Quiet'
    BY <1>1, QuietKept, Zenon DEF IInv
  <1>6. Completes'
    BY <1>1, Zenon DEF Completes, Some
  <1>7. /\ Some({"ctx"})' <=> Some({"ctx"})
        /\ Some({"dispatch"})' <=> Some({"dispatch"})
    BY <1>1, Zenon DEF Some
  <1>8. CtxRun' /\ LeftCovered'
    <2>1. CtxRun'
      BY <1>1, <1>7, Zenon DEF IInv, Runs, CtxRun, Sure, Busy
    <2>2. LeftCovered'
      BY <1>6, Zenon DEF LeftCovered, Covered
    <2> QED
      BY <2>1, <2>2, Zenon
  <1>9. DispatchRun'
    BY <1>1, <1>6, <1>7, Zenon DEF IInv, Runs, DispatchRun, Sure
  <1> QED
    BY <1>2, <1>3, <1>4, <1>5, <1>8, <1>9, Zenon DEF Rest, Runs

(* A completion looks at SCHED_RESTART and runs the queue.                 *)
LEMMA SchedRestartNext ==
    ASSUME IInv, Types', NEW r \in Req, SchedRestart(r)
    PROVE  Rest'
  <1>1. /\ UNCHANGED <<tagged, foreign, woken, waiting, run, issue, stopped, quiesced, quiescer,
                       readers>>
        /\ where[r] = "restart" /\ where'[r] = "done"
        /\ \A q \in Req \ {r} : where'[q] = where[q]
        /\ restart' = FALSE
        /\ restart \/ pend' = pend
        /\ restart => RunHwQueue("work")
    BY Zenon DEF SchedRestart, Move, tagVars, pauseVars, IInv, Types
  <1>2. Lists' /\ Tags' /\ Wakes'
    <2>1. Lists'
      BY <1>1, Zenon DEF IInv, Types, Lists, On
    <2>2. Tags'
      BY <1>1, Zenon DEF IInv, Types, Tags, Busy
    <2>3. Wakes'
      BY <1>1, Zenon DEF IInv, Wakes
    <2> QED
      BY <2>1, <2>2, <2>3, Zenon
  <1>3. Quiet'
    BY <1>1, QuietKept, Zenon DEF IInv
  <1>4. LeftCovered'
    BY <1>1, Zenon DEF LeftCovered
  <1>5. /\ Some({"ctx"})' <=> Some({"ctx"})
        /\ Some({"dispatch"})' <=> Some({"dispatch"})
    BY <1>1, Zenon DEF Some
  <1>6. CASE ~restart
    BY <1>1, <1>2, <1>3, <1>4, <1>5, <1>6, Zenon DEF IInv, Rest, Runs, CtxRun, DispatchRun, Sure, Busy
  <1>7. CASE restart
    <2>1. (Some({"ctx"})' \/ Some({"dispatch"})') => Sure'
      BY <1>1, <1>7, RunAsked, Zenon DEF IInv, Some, HasPending, Sure
    <2> QED
      BY <1>2, <1>3, <1>4, <2>1, Zenon DEF Rest, Runs, CtxRun, DispatchRun
  <1> QED
    BY <1>6, <1>7, Zenon

(* Steps of whoever pauses, resumes or wakes the queue: no request moves,  *)
(* and if one is on a list another run is certain.                         *)
LEMMA PauseNext ==
    ASSUME IInv, Types', UNCHANGED <<where, run, tagged, restart, issue>>,
           foreign' > 0 => Shared, Wakes', Quiet',
           (Some({"ctx"}) \/ Some({"dispatch"})) => Sure'
    PROVE  Rest'
  <1>1. Lists' /\ Tags'
    BY DEF IInv, Lists, Tags, On, Busy
  <1>2. Completes' <=> Completes
    BY Zenon DEF Completes, Some, Busy
  <1>3. /\ Some({"ctx"})' <=> Some({"ctx"})
        /\ Some({"dispatch"})' <=> Some({"dispatch"})
    BY Zenon DEF Some
  <1>4. CtxRun' /\ DispatchRun'
    BY <1>3, Zenon DEF CtxRun, DispatchRun
  <1>5. LeftCovered'
    BY <1>2, <1>3, Zenon DEF IInv, Runs, LeftCovered, Covered, Again
  <1> QED
    BY <1>1, <1>4, <1>5, Zenon DEF Rest, Runs

(* Stopping and starting, quiescing and unquiescing.                       *)
LEMMA PausesNext ==
    ASSUME IInv, Types',
           \/ StopHwQueue \/ StartHwQueue \/ QuiesceQueue \/ Synchronize \/ UnquiesceQueue
    PROVE  Rest'
  <1>1. /\ UNCHANGED <<where, run, tagged, foreign, woken, waiting, restart, issue>>
        /\ pend \in [Runner -> BOOLEAN]
    BY Zenon DEF StopHwQueue, StartHwQueue, QuiesceQueue, Synchronize, UnquiesceQueue, tagVars, IInv,
       Types
  <1>2. Wakes' /\ (foreign' > 0 => Shared)
    BY <1>1, Zenon DEF IInv, Wakes, Tags
  <1>3. (Some({"ctx"}) \/ Some({"dispatch"})) => HasPending
    BY <1>1, Zenon DEF Some, HasPending
  <1>4. CASE StopHwQueue
    <2>1. Sure' /\ Quiet'
      BY <1>1, <1>4, Zenon DEF StopHwQueue, IInv, Quiet, Running, Sure
    <2> QED
      BY <1>1, <1>2, <2>1, PauseNext, Zenon
  <1>5. CASE StartHwQueue
    <2>1. Quiet'
      BY <1>1, <1>5, Zenon DEF StartHwQueue, IInv, Quiet, Running
    <2>2. HasPending => Sure'
      BY <1>1, <1>5, Zenon DEF StartHwQueue, IInv, Quiet, Sure
    <2> QED
      BY <1>1, <1>2, <1>3, <2>1, <2>2, PauseNext, Zenon
  <1>6. CASE QuiesceQueue
    <2>1. Sure' /\ Quiet'
      BY <1>1, <1>6, Zenon DEF QuiesceQueue, Quiet, Running, Sure
    <2> QED
      BY <1>1, <1>2, <2>1, PauseNext, Zenon
  <1>7. CASE Synchronize
    <2>1. Running' = Running
      BY <1>1, Zenon DEF Running
    <2>2. Running \subseteq readers /\ readers \cap Running = {}
      BY <1>7, Zenon DEF Synchronize, IInv, Quiet
    <2>3. Sure' /\ Quiet'
      BY <1>7, <2>1, <2>2, Zenon DEF Synchronize, IInv, Quiet, Sure
    <2> QED
      BY <1>1, <1>2, <2>3, PauseNext, Zenon
  <1>8. CASE UnquiesceQueue
    <2>1. Quiet'
      BY <1>8, Zenon DEF UnquiesceQueue, Quiet
    <2>2. HasPending => Sure'
      BY <1>1, <1>8, Zenon DEF UnquiesceQueue, Sure
    <2> QED
      BY <1>1, <1>2, <1>3, <2>1, <2>2, PauseNext, Zenon
  <1> QED
    BY <1>4, <1>5, <1>6, <1>7, <1>8, Zenon

(* blk_mq_dispatch_wake, and tags the other queue takes and returns.       *)
LEMMA WakeNext ==
    ASSUME IInv, Types', DispatchWake \/ ForeignGet \/ ForeignPut
    PROVE  Rest'
  <1>1. UNCHANGED <<where, run, tagged, restart, issue, stopped, quiesced, quiescer, readers>>
    BY Zenon DEF DispatchWake, ForeignGet, ForeignPut, pauseVars
  <1>2. Quiet'
    BY <1>1, QuietKept, Zenon DEF IInv
  <1>3. CASE DispatchWake /\ waiting
    <2>1. waiting' = FALSE /\ foreign' = foreign /\ RunHwQueue("work")
      BY <1>3, Zenon DEF DispatchWake
    <2>2. (Some({"ctx"}) \/ Some({"dispatch"})) => Sure'
      BY <1>1, <2>1, RunAsked, Zenon DEF IInv, Some, HasPending, Sure
    <2>3. Wakes' /\ (foreign' > 0 => Shared)
      BY <2>1, Zenon DEF Wakes, IInv, Tags
    <2> QED
      BY <1>1, <1>2, <2>2, <2>3, PauseNext, Zenon
  <1>4. ASSUME UNCHANGED <<waiting, pend>>, foreign' > 0 => Shared, Wakes'
        PROVE  Rest'
    <2>1. Lists'
      BY <1>1, Zenon DEF IInv, Lists, On
    <2>2. Tags'
      BY <1>1, <1>4, Zenon DEF IInv, Tags, Busy
    <2>3. (Completes' <=> Completes) /\ (Sure' <=> Sure)
      BY <1>1, <1>4, Zenon DEF Completes, Some, Busy, Sure
    <2>4. CtxRun'
      BY <1>1, <2>3, Zenon DEF IInv, Runs, CtxRun, Some, Busy
    <2>5. DispatchRun'
      BY <1>1, <1>4, <2>3, Zenon DEF IInv, Runs, DispatchRun, Some
    <2>6. LeftCovered'
      BY <1>1, <1>4, <2>3, Zenon DEF IInv, Runs, LeftCovered, Covered, Some, Again
    <2> QED
      BY <1>2, <1>4, <2>1, <2>2, <2>4, <2>5, <2>6, Zenon DEF Rest, Runs
  <1>5. CASE DispatchWake /\ ~waiting
    <2>1. UNCHANGED <<waiting, pend, foreign>>
      BY <1>5, Zenon DEF DispatchWake
    <2> QED
      BY <1>4, <1>5, <2>1, Zenon DEF Wakes, IInv, Tags
  <1>6. CASE ForeignGet
    <2>1. UNCHANGED <<waiting, pend, woken>> /\ foreign' = 1 /\ Shared
      BY <1>6, Zenon DEF ForeignGet
    <2> QED
      BY <1>4, <2>1 DEF Wakes
  <1>7. CASE ForeignPut
    <2>1. /\ UNCHANGED <<waiting, pend>> /\ foreign > 0 /\ woken' = woken + 1
          /\ woken \in Nat
      BY <1>7, Zenon DEF ForeignPut, IInv, Types
    <2>2. Shared /\ woken' > 0
      BY <2>1 DEF IInv, Tags
    <2> QED
      BY <1>4, <2>1, <2>2, Zenon DEF Wakes
  <1> QED
    BY <1>3, <1>5, <1>6, <1>7, Zenon

-----------------------------------------------------------------------------
(* The theorems *)

(* The invariant holds at first: there is nothing to run.                  *)
LEMMA Initially == Init => IInv
  <1> SUFFICES ASSUME Init
               PROVE  IInv
    BY Zenon
  <1>1. Types
    <2>1. Idle \in RunRec
      BY Zenon DEF Idle, RunRec
    <2>2. IsFiniteSet({}) /\ Cardinality({}) = 0
      BY FS_EmptySet, Zenon
    <2>3. /\ where \in [Req -> {"new", "plug", "ctx", "dispatch", "list", "issue",
                               "listed", "drv", "put", "restart", "done"}]
          /\ pend \in [Runner -> BOOLEAN] /\ run \in [Runner -> RunRec]
      BY <2>1, Zenon DEF Init
    <2>4. /\ tagged \in SUBSET Req /\ IsFiniteSet(tagged)
          /\ Cardinality(tagged) + foreign <= NrTags /\ woken \in Nat
          /\ foreign \in {0, 1} /\ refused \in 0 .. MaxRefused
      BY <2>2, DispatchAssumption DEF Init
    <2>5. /\ restart \in BOOLEAN /\ waiting \in BOOLEAN /\ stopped \in BOOLEAN
          /\ quiesced \in BOOLEAN /\ issue \in SUBSET Req
          /\ quiescer \in {"run", "sync", "quiet"}
      BY Zenon DEF Init
    <2> QED
      BY <2>3, <2>4, <2>5, Zenon DEF Types
  <1>2. \A w \in Runner : run[w].pc = "idle" /\ run[w].list = {}
    BY Zenon DEF Init, Idle
  <1>3. Lists /\ Tags /\ Wakes
    BY <1>2, SMTT(30) DEF Init, Lists, Tags, Wakes
  <1>4. Quiet /\ Runs
    BY <1>2, Zenon DEF Init, Quiet, Runs, CtxRun, DispatchRun, LeftCovered, Some, Running
  <1> QED
    BY <1>1, <1>3, <1>4, Zenon DEF IInv

(* Every step of every actor keeps the invariant.                          *)
LEMMA Inductive == IInv /\ [Next]_vars => IInv'
  <1> SUFFICES ASSUME IInv, [Next]_vars
               PROVE  IInv'
    BY Zenon
  <1>1. Types'
    BY TypesNext, Zenon DEF IInv
  <1>2. CASE UNCHANGED vars
    <2>1. (Lists /\ Tags /\ Wakes)'
      BY <1>2, Zenon DEF vars, IInv, Lists, Tags, Wakes, On, Busy
    <2>2. Quiet'
      BY <1>2, QuietKept, Zenon DEF vars, IInv
    <2>3. (Completes' <=> Completes) /\ (Sure' <=> Sure)
      BY <1>2, Zenon DEF vars, Completes, Some, Busy, Sure
    <2>4. (CtxRun /\ DispatchRun)'
      BY <1>2, <2>3, Zenon DEF vars, IInv, Runs, CtxRun, DispatchRun, Some, Busy
    <2>5. LeftCovered'
      BY <1>2, <2>3, Zenon DEF vars, IInv, Runs, LeftCovered, Covered, Some, Again
    <2> QED
      BY <1>1, <2>1, <2>2, <2>4, <2>5, Zenon DEF IInv, Runs
  <1>3. ASSUME NEW w \in Runner, RunStep(w)
        PROVE  Rest'
    BY <1>1, <1>3, StartNext, PullNext, TagNext, MarkNext, RetryNext, QueueNext, SpliceNext,
       CheckNext, EndNext, Zenon DEF RunStep
  <1>4. CASE Next
    BY <1>1, <1>3, <1>4, SubmissionNext, PutTagNext, SchedRestartNext, PausesNext, WakeNext, Zenon
       DEF Next, Rest, IInv
  <1> QED
    BY <1>2, <1>4, Zenon

(* The invariant holds always.                                             *)
LEMMA Invariance == Spec => []IInv
  BY Initially, Inductive, PTL DEF Spec

(* The state is well formed: in particular the queue never has more driver *)
(* tags out than the tag set holds, and the private list of a run of the   *)
(* queue only has requests that are on no other list.                      *)
THEOREM TypeCorrect == Spec => []TypeOK
  <1>1. IInv => TypeOK
    BY Zenon DEF IInv, Types, Lists, TypeOK, RunRec
  <1> QED
    BY <1>1, Invariance, PTL

(* Every path of blk_mq_dispatch_rq_list, of direct issue, of inserting,   *)
(* stopping and quiescing that leaves a request on a list makes sure of    *)
(* another run, for any number of requests and tags, with and without a    *)
(* scheduler or a shared tag set, and whatever the driver refuses.         *)
THEOREM NoStallCorrect == Spec => []NoStall
  <1>1. IInv => NoStall
    <2> SUFFICES ASSUME IInv, NobodyRuns
                 PROVE  \A r \in Req : where[r] \notin {"ctx", "dispatch"}
      BY Zenon DEF NoStall
    <2>1. /\ ~Sure /\ ~Completes
          /\ \A w \in Runner : run[w].pc = "idle"
      BY Zenon DEF NobodyRuns, Sure, Completes, Some, Busy
    <2>2. ~waiting
      <3>1. tagged = {}
        BY <2>1, Zenon DEF IInv, Types, Tags, Completes, Some
      <3> QED
        BY <2>1, <3>1, SMTT(30) DEF IInv, Wakes, NobodyRuns
    <2>3. ~Some({"dispatch"})
      BY <2>1, <2>2, Zenon DEF IInv, Runs, DispatchRun
    <2>4. ~Some({"ctx"})
      BY <2>1, <2>3, Zenon DEF IInv, Runs, CtxRun, Busy
    <2> QED
      BY <2>3, <2>4, Zenon DEF Some
  <1> QED
    BY <1>1, Invariance, PTL

(* After blk_mq_quiesce_queue has returned no step takes a request to the  *)
(* driver until the queue is unquiesced: the grace period has outlived the *)
(* runs and the direct issues that had read the flag before it was set,    *)
(* and those begun afterwards see it.                                      *)
THEOREM QuiesceCorrect == Spec => QuiesceBlocks
  <1>1. IInv /\ [Next]_vars => [quiescer = "quiet" => On("drv")' \subseteq On("drv")]_vars
    <2> SUFFICES ASSUME IInv, Next, quiescer = "quiet"
                 PROVE  On("drv")' \subseteq On("drv")
      BY Zenon
    <2>1. issue = {} /\ \A w \in Runner : run[w].pc = "idle"
      BY Zenon DEF IInv, Quiet, Running
    <2>2. ASSUME NEW S, NEW p, p # "drv", where' = Move(S, p)
          PROVE  On("drv")' \subseteq On("drv")
      BY <2>2, Zenon DEF On, Move
    <2>3. CASE where' = where
      BY <2>3, Zenon DEF On
    <2>4. ASSUME NEW w \in Runner, RunStep(w)
          PROVE  where' = where
      BY <2>1, <2>4, Zenon DEF RunStep, RunStart, RunPull, RunTag, RunMark, RunRetry, RunQueue,
         RunSplice, RunCheck, RunEnd, IInv, Quiet
    <2>5. ASSUME NEW r \in Req, TryIssueDirectly(r)
          PROVE  On("drv")' \subseteq On("drv")
      BY <2>2, <2>5, Zenon DEF TryIssueDirectly
    <2>6. ASSUME NEW r \in Req, Insert(r) \/ Plug(r) \/ PutTag(r) \/ SchedRestart(r)
          PROVE  On("drv")' \subseteq On("drv")
      BY <2>2, <2>6, Zenon DEF Insert, Plug, PutTag, SchedRestart
    <2>7. ASSUME FlushPlugList \/ HctxNotifyDead
          PROVE  On("drv")' \subseteq On("drv")
      BY <2>2, <2>7, Zenon DEF FlushPlugList, HctxNotifyDead
    <2>8. ASSUME NEW r \in Req, IssueDirectly(r)
          PROVE  FALSE
      BY <2>1, <2>8, Zenon DEF IssueDirectly
    <2> QED
      BY <2>3, <2>4, <2>5, <2>6, <2>7, <2>8, Zenon DEF Next, DispatchWake, ForeignGet, ForeignPut,
         StopHwQueue, StartHwQueue, QuiesceQueue, Synchronize, UnquiesceQueue
  <1> QED
    BY <1>1, Invariance, PTL DEF Spec, QuiesceBlocks
=============================================================================
