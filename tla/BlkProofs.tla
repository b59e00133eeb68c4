----------------------------- MODULE BlkProofs -----------------------------
(***************************************************************************)
(* Theorems about BlkRequest, for any tags, freezers and bounds, and about *)
(* BlkMap, for any queues, CPUs and nodes.                                 *)
(***************************************************************************)
EXTENDS BlkRequest, BlkMap, FiniteSetTheorems, WellFoundedInduction, TLAPS

-----------------------------------------------------------------------------
(* BlkRequest. *)

(* The timeout work holds a reference to request r. *)
Held(r) == Holding /\ r \in tw.rq

(* A request in use has its tag and the reference of its owner; the        *)
(* timeout work has one more, to the request it took, and is the last one  *)
(* to have one to an orphan.                                               *)
References ==
    /\ tags \in SUBSET Req /\ ref \in [Req -> Nat]
    /\ \A r \in Req :
          /\ r \in tags <=> phase[r] # "free"
          /\ ~Held(r) => phase[r] # "orphan" /\ ref[r] = IF phase[r] = "free" THEN 0 ELSE 1
          /\ Held(r) => /\ phase[r] # "free" /\ gen[r] = tw.gen
                        /\ ref[r] = IF phase[r] = "orphan" THEN 1 ELSE 2
    /\ tw.pc \in {"idle", "iter"} => tw.rq = {}

(* The counter of the queue counts the requests, the caller about to get   *)
(* one and the timeout work.                                               *)
Usage ==
    /\ IsFiniteSet(tags)
    /\ usage = Cardinality(tags) + entered + IF tw.pc = "idle" THEN 0 ELSE 1

(* The depth counts the freezers; the counter is dead as long as there is  *)
(* one; a frozen queue is in use by nobody.                                *)
Frozen == {f \in Freezer : fz[f] # "run"}
Freezing ==
    /\ IsFiniteSet(Frozen) /\ depth = Cardinality(Frozen)
    /\ dead <=> depth > 0
    /\ (\E f \in Freezer : fz[f] = "frozen") => usage = 0

(* The types of what is not counted. *)
TwSet == [pc : {"idle", "iter", "lock", "verify", "handle", "put"},
          rq : {{}} \cup {{r} : r \in Req}, gen : Nat, left : SUBSET Req,
          next : BOOLEAN]
Types ==
    /\ phase \in [Req -> Phase]
    /\ state \in [Req -> {"idle", "in_flight", "complete"}]
    /\ gen \in [Req -> Nat] /\ allocs \in Nat /\ tries \in [Req -> Nat]
    /\ timed_out \in [Req -> BOOLEAN] /\ expired \in [Req -> BOOLEAN]
    /\ armed \in BOOLEAN /\ dead \in BOOLEAN /\ entered \in {0, 1}
    /\ tw \in TwSet
    /\ fz \in [Freezer -> {"run", "wait", "frozen"}] /\ freezes \in [Freezer -> Nat]

IInv == Types /\ References /\ Usage /\ Freezing

(* What is counted is a natural number. *)
LEMMA Counted == IInv => usage \in Nat /\ depth \in Nat
<1> SUFFICES ASSUME IInv PROVE usage \in Nat /\ depth \in Nat
  BY Zenon
<1>1. Cardinality(tags) \in Nat /\ Cardinality(Frozen) \in Nat
  BY FS_CardinalityType, Zenon DEF IInv, Usage, Freezing
<1> QED
  BY <1>1, SMTT(30) DEF IInv, Usage, Freezing, Types

(* The timeout work's place and locals are well typed after every step. *)
LEMMA TwNext ==
    ASSUME Types, [Next]_vars
    PROVE  tw' \in TwSet
<1>0. /\ tw \in TwSet /\ gen \in [Req -> Nat] /\ state \in [Req -> {"idle", "in_flight", "complete"}]
  BY Zenon DEF Types
<1>1. CASE UNCHANGED tw
  BY <1>0, <1>1, Zenon
<1>2. CASE Work
  <2>1. [NoTw EXCEPT !.pc = "iter", !.left = Req] \in TwSet /\ NoTw \in TwSet
    BY Zenon DEF TwSet, NoTw
  <2> QED
    BY <1>0, <1>2, <2>1, Zenon DEF Work, TimeoutWork, TimeoutDone
<1>3. ASSUME NEW r \in Req, CheckExpired(r) PROVE tw' \in TwSet
  <2>1. {r} \in {{}} \cup {{q} : q \in Req}
    BY Zenon
  <2>2. [tw EXCEPT !.pc = "lock", !.rq = {r}, !.left = @ \ {r}] \in TwSet
    BY <1>0, <2>1, Zenon DEF TwSet
  <2>3. ASSUME NEW b \in BOOLEAN PROVE [tw EXCEPT !.left = @ \ {r}, !.next = b] \in TwSet
    BY <1>0, Zenon DEF TwSet
  <2>4. tw.next \/ (r \in tags /\ ReqNext(r)) \in BOOLEAN
    BY Zenon
  <2> QED
    BY <1>3, <2>2, <2>3, <2>4, Zenon DEF CheckExpired
<1>4. ASSUME NEW r \in Req, LockRequest(r) PROVE tw' \in TwSet
  <2>1. [tw EXCEPT !.pc = "verify", !.gen = gen[r]] \in TwSet
    BY <1>0, Zenon DEF TwSet
  <2>2. [tw EXCEPT !.pc = "iter", !.rq = {}] \in TwSet
    BY <1>0, Zenon DEF TwSet
  <2> QED
    BY <1>4, <2>1, <2>2, Zenon DEF LockRequest
<1>5. ASSUME NEW r \in Req, VerifyExpired(r) PROVE tw' \in TwSet
  <2>1. [tw EXCEPT !.pc = "handle"] \in TwSet
    BY <1>0, Zenon DEF TwSet
  <2>2. ASSUME NEW b \in BOOLEAN PROVE [tw EXCEPT !.pc = "put", !.next = b] \in TwSet
    BY <1>0, Zenon DEF TwSet
  <2>3. (tw.next \/ ReqNext(r)) \in BOOLEAN
    BY Zenon
  <2> QED
    BY <1>5, <2>1, <2>2, <2>3, Zenon DEF VerifyExpired
<1>6. ASSUME NEW r \in Req, HandleDone(r) \/ HandleReset(r) \/ PutRequest(r) PROVE tw' \in TwSet
  <2>1. [tw EXCEPT !.pc = "put"] \in TwSet /\ [tw EXCEPT !.pc = "iter", !.rq = {}] \in TwSet
    BY <1>0, Zenon DEF TwSet
  <2> QED
    BY <1>6, <2>1, Zenon DEF HandleDone, HandleReset, PutRequest
<1> QED
  BY <1>1, <1>2, <1>3, <1>4, <1>5, <1>6, Zenon
     DEF Next, vars, WorkOn, QueueEnter, GetRequestFails, RequeueWork, GetRequest,
         StartRequest, Expire, CompleteRequest, RequeueRequest, EndRequest, FreeRequest,
         FreezeStart, FreezeWait, Unfreeze

(* Every step leaves the types as they are. *)
LEMMA TypesNext == IInv /\ [Next]_vars => Types'
<1> SUFFICES ASSUME IInv, [Next]_vars PROVE Types'
  BY Zenon
<1> USE DEF Types, Set, rqVars, fzVars, Phase
<1>0. Types /\ tw' \in TwSet
  BY TwNext, Zenon DEF IInv
<1>1. CASE UNCHANGED vars
  BY <1>0, <1>1, Zenon DEF vars
<1>2. CASE QueueEnter \/ GetRequestFails
  BY <1>0, <1>2 DEF QueueEnter, GetRequestFails
<1>3. CASE RequeueWork
  BY <1>0, <1>3, Zenon DEF RequeueWork
<1>4. CASE Work
  BY <1>0, <1>4, Zenon DEF Work, TimeoutWork, TimeoutDone
<1>5. ASSUME NEW r \in Req PROVE GetRequest(r) => Types'
  BY <1>0 DEF GetRequest
<1>6. ASSUME NEW r \in Req PROVE StartRequest(r) => Types'
  BY <1>0, Zenon DEF StartRequest
<1>7. ASSUME NEW r \in Req PROVE Expire(r) => Types'
  BY <1>0, Zenon DEF Expire
<1>8. ASSUME NEW r \in Req PROVE CompleteRequest(r) => Types'
  BY <1>0, Zenon DEF CompleteRequest
<1>9. ASSUME NEW r \in Req PROVE RequeueRequest(r) => Types'
  BY <1>0 DEF RequeueRequest
<1>10. ASSUME NEW r \in Req PROVE EndRequest(r) => Types'
  BY <1>0, Zenon DEF EndRequest
<1>11. ASSUME NEW r \in Req PROVE FreeRequest(r) => Types'
  BY <1>0, Zenon DEF FreeRequest, DropRef
<1>12. ASSUME NEW r \in Req PROVE CheckExpired(r) => Types'
  BY <1>0, Zenon DEF CheckExpired
<1>13. ASSUME NEW r \in Req PROVE LockRequest(r) => Types'
  BY <1>0, Zenon DEF LockRequest
<1>14. ASSUME NEW r \in Req PROVE VerifyExpired(r) => Types'
  BY <1>0, Zenon DEF VerifyExpired
<1>15. ASSUME NEW r \in Req PROVE HandleDone(r) => Types'
  BY <1>0, Zenon DEF HandleDone
<1>16. ASSUME NEW r \in Req PROVE HandleReset(r) => Types'
  BY <1>0 DEF HandleReset
<1>17. ASSUME NEW r \in Req PROVE PutRequest(r) => Types'
  BY <1>0 DEF PutRequest, DropRef
<1>18. ASSUME NEW f \in Freezer, FreezeStart(f) \/ FreezeWait(f) \/ Unfreeze(f) PROVE Types'
  <2>1. dead' \in BOOLEAN
    <3>1. dead \in BOOLEAN /\ (dead \/ depth = 0) \in BOOLEAN /\ (dead /\ depth > 1) \in BOOLEAN
      BY <1>0, Zenon
    <3> QED
      BY <1>18, <3>1, Zenon DEF FreezeStart, FreezeWait, Unfreeze
  <2>2. /\ fz' \in [Freezer -> {"run", "wait", "frozen"}]
        /\ freezes' \in [Freezer -> Nat]
        /\ UNCHANGED <<allocs, rqVars, entered, armed>>
    BY <1>0, <1>18 DEF FreezeStart, FreezeWait, Unfreeze
  <2> QED
    BY <1>0, <2>1, <2>2, Zenon
<1> QED
  BY <1>1, <1>2, <1>3, <1>4, <1>5, <1>6, <1>7, <1>8, <1>9, <1>10, <1>11, <1>12, <1>13,
     <1>14, <1>15, <1>16, <1>17, <1>18, Zenon DEF Next, WorkOn

(* The timeout work looks at one request at a time. *)
LEMMA OneHeld ==
    ASSUME Types, NEW r \in tw.rq
    PROVE  r \in Req /\ tw.rq = {r}
<1>1. tw.rq \in {{}} \cup {{q} : q \in Req}
  BY Zenon DEF Types, TwSet
<1>2. PICK q \in Req : tw.rq = {q}
  BY <1>1, Zenon
<1> QED
  BY <1>2, Zenon

(* Every step leaves each request with the references its users have. *)
LEMMA ReferencesNext == IInv /\ [Next]_vars => References'
<1> SUFFICES ASSUME IInv, [Next]_vars PROVE References'
  BY Zenon
<1> USE DEF References, Held, Holding, Set
<1>0. /\ References /\ Types
      /\ phase \in [Req -> Phase] /\ gen \in [Req -> Nat] /\ tw \in TwSet
  BY Zenon DEF IInv, Types
<1>t. tw = [pc |-> tw.pc, rq |-> tw.rq, gen |-> tw.gen, left |-> tw.left, next |-> tw.next]
  BY <1>0, Zenon DEF TwSet
<1>1. CASE UNCHANGED <<phase, ref, gen, tags, tw>>
  BY <1>0, <1>1, Zenon
<1>2. CASE Work
  <2>1. /\ UNCHANGED <<phase, ref, gen, tags>> /\ tw.pc \in {"idle", "iter"} /\ tw.rq = {}
        /\ tw'.pc \in {"idle", "iter"} /\ tw'.rq = {}
    <3>1. /\ UNCHANGED <<phase, ref, gen, tags>> /\ tw.pc \in {"idle", "iter"}
          /\ tw' \in {tw, NoTw, [NoTw EXCEPT !.pc = "iter", !.left = Req]}
      BY <1>2, Zenon DEF Work, TimeoutWork, TimeoutDone, rqVars
    <3>2. NoTw.pc = "idle" /\ NoTw.rq = {}
      BY Zenon DEF NoTw
    <3>3. /\ [NoTw EXCEPT !.pc = "iter", !.left = Req].pc = "iter"
          /\ [NoTw EXCEPT !.pc = "iter", !.left = Req].rq = {}
      BY Zenon DEF NoTw
    <3>4. tw.rq = {}
      BY <1>0, <3>1, Zenon
    <3>5. tw'.pc \in {"idle", "iter"} /\ tw'.rq = {}
      BY <3>1, <3>2, <3>3, <3>4, Zenon
    <3> QED
      BY <3>1, <3>4, <3>5, Zenon
  <2> QED
    BY <1>0, <2>1, Zenon
<1>3. CASE RequeueWork
  BY <1>0, <1>3, Zenon DEF RequeueWork, Phase
<1>4. ASSUME NEW r \in Req, GetRequest(r) PROVE References'
  BY <1>0, <1>4, Zenon DEF GetRequest, Phase
<1>5. ASSUME NEW r \in Req, StartRequest(r) PROVE References'
  BY <1>0, <1>5, Zenon DEF StartRequest, Phase
<1>6. ASSUME NEW r \in Req, CompleteRequest(r) PROVE References'
  BY <1>0, <1>6, Zenon DEF CompleteRequest, Phase
<1>7. ASSUME NEW r \in Req, RequeueRequest(r) PROVE References'
  BY <1>0, <1>7, Zenon DEF RequeueRequest, Phase
<1>8. ASSUME NEW r \in Req, EndRequest(r) PROVE References'
  BY <1>0, <1>8, Zenon DEF EndRequest, Phase
<1>9. ASSUME NEW r \in Req, FreeRequest(r) PROVE References'
  BY <1>0, <1>9 DEF FreeRequest, DropRef, Phase
<1>10. ASSUME NEW r \in Req, CheckExpired(r) PROVE References'
  <2>1. /\ UNCHANGED <<phase, ref, gen, tags>> /\ tw.pc = "iter" /\ tw.rq = {}
        /\ tw'.pc \in {"iter", "lock"} /\ (tw'.pc = "iter" => tw'.rq = {})
    <3>1. UNCHANGED <<phase, ref, gen, tags>> /\ tw.pc = "iter" /\ tw.rq = {}
      BY <1>0, <1>10, Zenon DEF CheckExpired, rqVars
    <3>2. CASE tw' = [tw EXCEPT !.pc = "lock", !.rq = {r}, !.left = @ \ {r}]
      BY <1>t, <3>1, <3>2, Zenon
    <3>3. ASSUME NEW b, tw' = [tw EXCEPT !.left = @ \ {r}, !.next = b]
          PROVE  tw'.pc = "iter" /\ tw'.rq = {}
      BY <1>t, <3>1, <3>3, Zenon
    <3> QED
      BY <1>10, <3>1, <3>2, <3>3, Zenon DEF CheckExpired
  <2> QED
    BY <1>0, <2>1, Zenon
<1>11. ASSUME NEW r \in Req, LockRequest(r) PROVE References'
  <2>1. tw.rq = {r}
    BY <1>0, <1>11, OneHeld, Zenon DEF LockRequest
  <2>2. tw.pc = "lock" /\ UNCHANGED <<phase, gen, tags>> /\ ref[r] \in Nat
    BY <1>0, <1>11, Zenon DEF LockRequest
  <2>3. CASE ref[r] > 0
    <3>1. /\ ref' = [ref EXCEPT ![r] = ref[r] + 1]
          /\ tw' = [tw EXCEPT !.pc = "verify", !.gen = gen[r]]
      BY <1>11, <2>3 DEF LockRequest
    <3>2. tw'.pc = "verify" /\ tw'.gen = gen[r] /\ tw'.rq = {r}
      BY <1>t, <2>1, <3>1, Zenon
    <3>3. phase[r] # "free" /\ ref[r] = 1 /\ phase[r] # "orphan"
      BY <1>0, <2>2, <2>3
    <3> QED
      BY <1>0, <2>2, <3>1, <3>2, <3>3
  <2>4. CASE ref[r] = 0
    <3>1. ref' = ref /\ tw' = [tw EXCEPT !.pc = "iter", !.rq = {}]
      BY <1>11, <2>4 DEF LockRequest
    <3>2. tw'.pc = "iter" /\ tw'.rq = {}
      BY <1>t, <3>1, Zenon
    <3> QED
      BY <1>0, <2>2, <3>1, <3>2, Zenon
  <2> QED
    BY <2>2, <2>3, <2>4
<1>12. ASSUME NEW r \in Req, VerifyExpired(r) PROVE References'
  <2>1. /\ UNCHANGED <<phase, ref, gen, tags>> /\ tw.pc = "verify"
        /\ tw'.pc \in {"handle", "put"} /\ tw'.rq = tw.rq /\ tw'.gen = tw.gen
    BY <1>12, <1>t, Zenon DEF VerifyExpired
  <2> QED
    BY <1>0, <2>1, Zenon
<1>13. ASSUME NEW r \in Req, HandleDone(r) PROVE References'
  <2>1. /\ UNCHANGED <<ref, gen, tags>> /\ tw.pc = "handle"
        /\ tw'.pc = "put" /\ tw'.rq = tw.rq /\ tw'.gen = tw.gen
        /\ \/ phase' = phase
           \/ phase[r] = "hw" /\ phase' = [phase EXCEPT ![r] = "done"]
    BY <1>13, <1>t, Zenon DEF HandleDone
  <2> QED
    BY <1>0, <2>1 DEF Phase
<1>14. ASSUME NEW r \in Req, HandleReset(r) PROVE References'
  <2>1. /\ UNCHANGED <<phase, ref, gen, tags>> /\ tw.pc = "handle"
        /\ tw'.pc = "put" /\ tw'.rq = tw.rq /\ tw'.gen = tw.gen
    BY <1>14, <1>t, Zenon DEF HandleReset
  <2> QED
    BY <1>0, <2>1, Zenon
<1>15. ASSUME NEW r \in Req, PutRequest(r) PROVE References'
  <2>1. tw.rq = {r}
    BY <1>0, <1>15, OneHeld, Zenon DEF PutRequest
  <2>2. tw.pc = "put" /\ tw'.pc = "iter" /\ tw'.rq = {} /\ DropRef(r, phase[r]) /\ gen' = gen
    BY <1>15, <1>t, Zenon DEF PutRequest
  <2> QED
    BY <1>0, <2>1, <2>2 DEF DropRef, Phase
<1> QED
  BY <1>1, <1>2, <1>3, <1>4, <1>5, <1>6, <1>7, <1>8, <1>9, <1>10, <1>11, <1>12, <1>13,
     <1>14, <1>15, Zenon
     DEF Next, vars, rqVars, WorkOn, QueueEnter, GetRequestFails, Expire, FreezeStart,
         FreezeWait, Unfreeze

(* A dropped reference gives the tag back if it was the last. *)
LEMMA DropKeepsUsage ==
    ASSUME IInv, NEW r \in tags, NEW p, DropRef(r, p), entered' = entered,
           (tw'.pc = "idle") <=> (tw.pc = "idle")
    PROVE  Usage'
<1>1. /\ IsFiniteSet(tags) /\ Cardinality(tags) \in Nat /\ entered \in {0, 1}
      /\ usage = Cardinality(tags) + entered + IF tw.pc = "idle" THEN 0 ELSE 1
  BY FS_CardinalityType, Zenon DEF IInv, Usage, Types
<1>2. CASE UNCHANGED <<tags, usage>>
  BY <1>1, <1>2, Zenon DEF Usage
<1>3. CASE tags' = tags \ {r} /\ usage' = usage - 1
  <2>1. IsFiniteSet(tags') /\ Cardinality(tags') = Cardinality(tags) - 1
    BY <1>1, <1>3, FS_RemoveElement, Zenon
  <2> QED
    BY <1>1, <1>3, <2>1 DEF Usage
<1> QED
  BY <1>2, <1>3, Zenon DEF DropRef

(* Every step keeps the counter equal to what it counts. *)
LEMMA UsageNext == IInv /\ [Next]_vars => Usage'
<1> SUFFICES ASSUME IInv, [Next]_vars PROVE Usage'
  BY Zenon
<1>0. /\ IsFiniteSet(tags) /\ Cardinality(tags) \in Nat /\ entered \in {0, 1}
      /\ usage = Cardinality(tags) + entered + IF tw.pc = "idle" THEN 0 ELSE 1
  BY FS_CardinalityType, Zenon DEF IInv, Usage, Types
<1>t. /\ tw = [pc |-> tw.pc, rq |-> tw.rq, gen |-> tw.gen, left |-> tw.left, next |-> tw.next]
      /\ NoTw.pc = "idle" /\ [NoTw EXCEPT !.pc = "iter", !.left = Req].pc = "iter"
  BY Zenon DEF IInv, Types, TwSet, NoTw
<1>1. CASE UNCHANGED <<tags, usage, entered, tw>>
  BY <1>0, <1>1, Zenon DEF Usage
<1>2. CASE QueueEnter
  BY <1>0, <1>2 DEF QueueEnter, Usage, rqVars
<1>3. CASE GetRequestFails
  BY <1>0, <1>3 DEF GetRequestFails, Usage, rqVars
<1>4. ASSUME NEW r \in Req, GetRequest(r) PROVE Usage'
  <2>1. /\ r \notin tags /\ tags' = tags \cup {r} /\ entered = 1 /\ entered' = 0
        /\ usage' = (usage + 1) - 1 /\ tw' = tw
    BY <1>0, <1>4 DEF GetRequest
  <2>2. IsFiniteSet(tags') /\ Cardinality(tags') = Cardinality(tags) + 1
    BY <1>0, <2>1, FS_AddElement, Zenon
  <2> QED
    BY <1>0, <2>1, <2>2 DEF Usage
<1>5. ASSUME NEW r \in Req, FreeRequest(r) PROVE Usage'
  <2>1. r \in tags
    BY <1>5, Zenon DEF FreeRequest, IInv, References
  <2>2. DropRef(r, "orphan") /\ UNCHANGED <<entered, tw>>
    BY <1>5, Zenon DEF FreeRequest
  <2> QED
    BY <2>1, <2>2, DropKeepsUsage, Zenon
<1>6. ASSUME NEW r \in Req, PutRequest(r) PROVE Usage'
  <2>1. r \in tags
    BY <1>6, Zenon DEF PutRequest, IInv, References, Held, Holding
  <2>2. DropRef(r, phase[r]) /\ entered' = entered /\ tw.pc = "put" /\ tw'.pc = "iter"
    BY <1>6, <1>t, Zenon DEF PutRequest
  <2> QED
    BY <2>1, <2>2, DropKeepsUsage, Zenon
<1>7. CASE TimeoutWork
  <2>1. CASE usage' = usage + 1 /\ tw' = [NoTw EXCEPT !.pc = "iter", !.left = Req]
    BY <1>0, <1>7, <1>t, <2>1 DEF TimeoutWork, Usage, rqVars
  <2>2. CASE UNCHANGED <<usage, tw>>
    BY <1>0, <1>7, <2>2, Zenon DEF TimeoutWork, Usage, rqVars
  <2> QED
    BY <1>7, <2>1, <2>2, Zenon DEF TimeoutWork
<1>8. CASE TimeoutDone
  BY <1>0, <1>8, <1>t DEF TimeoutDone, Usage, rqVars
<1>9. ASSUME UNCHANGED <<tags, usage, entered>>, tw.pc # "idle", tw'.pc # "idle" PROVE Usage'
  BY <1>0, <1>9, Zenon DEF Usage
<1>10. ASSUME NEW r \in Req, CheckExpired(r) PROVE Usage'
  <2>1. UNCHANGED <<tags, usage, entered>> /\ tw.pc = "iter"
    BY <1>10, Zenon DEF CheckExpired, rqVars
  <2>2. CASE tw' = [tw EXCEPT !.pc = "lock", !.rq = {r}, !.left = @ \ {r}]
    BY <1>9, <1>t, <2>1, <2>2, Zenon
  <2>3. ASSUME NEW b, tw' = [tw EXCEPT !.left = @ \ {r}, !.next = b] PROVE Usage'
    BY <1>9, <1>t, <2>1, <2>3, Zenon
  <2> QED
    BY <1>10, <2>2, <2>3, Zenon DEF CheckExpired
<1>11. ASSUME NEW r \in Req, LockRequest(r) PROVE Usage'
  <2>1. UNCHANGED <<tags, usage, entered>> /\ tw.pc = "lock"
    BY <1>11, Zenon DEF LockRequest
  <2>2. CASE tw' = [tw EXCEPT !.pc = "verify", !.gen = gen[r]]
    BY <1>9, <1>t, <2>1, <2>2, Zenon
  <2>3. CASE tw' = [tw EXCEPT !.pc = "iter", !.rq = {}]
    BY <1>9, <1>t, <2>1, <2>3, Zenon
  <2> QED
    BY <1>11, <2>2, <2>3, Zenon DEF LockRequest
<1>12. ASSUME NEW r \in Req, VerifyExpired(r) \/ HandleDone(r) \/ HandleReset(r) PROVE Usage'
  <2>1. UNCHANGED <<tags, usage, entered>> /\ tw.pc \in {"verify", "handle"}
    BY <1>12, Zenon DEF VerifyExpired, HandleDone, HandleReset
  <2>2. CASE tw' = [tw EXCEPT !.pc = "handle"]
    BY <1>9, <1>t, <2>1, <2>2, Zenon
  <2>3. CASE tw' = [tw EXCEPT !.pc = "put"]
    BY <1>9, <1>t, <2>1, <2>3, Zenon
  <2>4. ASSUME NEW b, tw' = [tw EXCEPT !.pc = "put", !.next = b] PROVE Usage'
    BY <1>9, <1>t, <2>1, <2>4, Zenon
  <2> QED
    BY <1>12, <2>2, <2>3, <2>4, Zenon DEF VerifyExpired, HandleDone, HandleReset
<1> QED
  BY <1>1, <1>2, <1>3, <1>4, <1>5, <1>6, <1>7, <1>8, <1>10, <1>11, <1>12, Zenon
     DEF Next, vars, rqVars, Work, WorkOn, StartRequest, Expire, CompleteRequest,
         RequeueRequest, RequeueWork, EndRequest, FreezeStart, FreezeWait, Unfreeze

(* Nobody is using a queue whose counter is zero. *)
LEMMA ZeroIsUnused ==
    ASSUME IInv, usage = 0
    PROVE  tags = {} /\ entered = 0 /\ tw.pc = "idle"
<1>1. /\ IsFiniteSet(tags) /\ Cardinality(tags) \in Nat /\ entered \in {0, 1}
      /\ usage = Cardinality(tags) + entered + IF tw.pc = "idle" THEN 0 ELSE 1
  BY FS_CardinalityType, Zenon DEF IInv, Usage, Types
<1>2. Cardinality(tags) = 0 /\ entered = 0 /\ tw.pc = "idle"
  BY <1>1
<1> QED
  BY <1>1, <1>2, FS_EmptySet, Zenon

(* Once dead and zero, the counter stays zero until the queue is unfrozen. *)
LEMMA ZeroStays ==
    ASSUME IInv, [Next]_vars, usage = 0, dead
    PROVE  usage' = 0
<1>1. tags = {} /\ entered = 0 /\ tw.pc = "idle"
  BY ZeroIsUnused, Zenon
<1>2. \A r \in Req : phase[r] = "free"
  BY <1>1, Zenon DEF IInv, References
<1>3. ~QueueEnter /\ ~GetRequestFails /\ ~TimeoutDone
  BY <1>1 DEF QueueEnter, GetRequestFails, TimeoutDone
<1>4. TimeoutWork => usage' = usage
  BY DEF TimeoutWork
<1>5. ASSUME NEW r \in Req PROVE ~GetRequest(r) /\ ~FreeRequest(r) /\ ~PutRequest(r)
  BY <1>1, <1>2 DEF GetRequest, FreeRequest, PutRequest
<1> QED
  BY <1>3, <1>4, <1>5, Zenon
     DEF Next, vars, Work, WorkOn, StartRequest, Expire, CompleteRequest, RequeueRequest,
         RequeueWork, EndRequest, CheckExpired, LockRequest, VerifyExpired, HandleDone,
         HandleReset, FreezeStart, FreezeWait, Unfreeze

(* The steps of the freezers, and the others. *)
LEMMA FreezeSteps ==
    [Next]_vars => \/ UNCHANGED <<depth, dead, fz>>
                   \/ \E f \in Freezer : FreezeStart(f) \/ FreezeWait(f) \/ Unfreeze(f)
  BY Zenon DEF Next, vars, Work, WorkOn, QueueEnter, GetRequestFails, TimeoutWork, TimeoutDone,
         GetRequest, StartRequest, Expire, CompleteRequest, RequeueRequest, RequeueWork,
         EndRequest, FreeRequest, CheckExpired, LockRequest, VerifyExpired, HandleDone,
         HandleReset, PutRequest, fzVars

(* Every step keeps the depth equal to the number of freezers. *)
LEMMA FreezingNext == IInv /\ [Next]_vars => Freezing'
<1> SUFFICES ASSUME IInv, [Next]_vars PROVE Freezing'
  BY Zenon
<1>0. /\ IsFiniteSet(Frozen) /\ depth = Cardinality(Frozen) /\ depth \in Nat
      /\ dead <=> depth > 0
      /\ dead \in BOOLEAN /\ fz \in [Freezer -> {"run", "wait", "frozen"}]
  BY Counted, Zenon DEF IInv, Freezing, Types
<1>1. ASSUME \E f \in Freezer : fz[f] = "frozen" PROVE usage' = 0 /\ usage = 0
  <2>1. usage = 0 /\ Frozen # {}
    BY <1>1, Zenon DEF IInv, Freezing, Frozen
  <2>2. depth # 0
    BY <1>0, <2>1, FS_EmptySet, Zenon
  <2>3. dead
    BY <1>0, <2>2
  <2> QED
    BY <2>1, <2>3, ZeroStays, Zenon
<1>2. CASE UNCHANGED <<depth, dead, fz>>
  <2>1. Frozen' = Frozen
    BY <1>2, Zenon DEF Frozen
  <2> QED
    BY <1>0, <1>1, <1>2, <2>1, Zenon DEF Freezing
<1>3. ASSUME NEW f \in Freezer, FreezeStart(f) PROVE Freezing'
  <2>1. /\ f \notin Frozen /\ fz' = [fz EXCEPT ![f] = "wait"] /\ depth' = depth + 1
        /\ dead' = (dead \/ depth = 0) /\ usage' = usage
    BY <1>3, Zenon DEF FreezeStart, Frozen, Set
  <2>2. Frozen' = Frozen \cup {f}
    BY <1>0, <2>1, Zenon DEF Frozen
  <2>3. IsFiniteSet(Frozen') /\ Cardinality(Frozen') = Cardinality(Frozen) + 1
    BY <1>0, <2>1, <2>2, FS_AddElement, Zenon
  <2>4. dead' /\ depth' > 0 /\ depth' = Cardinality(Frozen')
    <3>1. dead \/ depth = 0
      BY <1>0
    <3>2. dead'
      BY <2>1, <3>1, Zenon
    <3> QED
      BY <1>0, <2>1, <2>3, <3>2
  <2>5. (\E g \in Freezer : fz'[g] = "frozen") => usage' = 0
    BY <1>0, <1>1, <2>1, Zenon
  <2> QED
    BY <2>3, <2>4, <2>5, Zenon DEF Freezing
<1>4. ASSUME NEW f \in Freezer, FreezeWait(f) PROVE Freezing'
  <2>1. /\ fz' = [fz EXCEPT ![f] = "frozen"] /\ fz[f] = "wait" /\ UNCHANGED <<depth, dead, usage>>
        /\ usage = 0
    BY <1>4, Zenon DEF FreezeWait, Set
  <2>2. Frozen' = Frozen
    BY <1>0, <2>1, Zenon DEF Frozen
  <2> QED
    BY <1>0, <2>1, <2>2, Zenon DEF Freezing
<1>5. ASSUME NEW f \in Freezer, Unfreeze(f) PROVE Freezing'
  <2>1. /\ f \in Frozen /\ fz' = [fz EXCEPT ![f] = "run"] /\ depth' = depth - 1
        /\ dead' = (dead /\ depth > 1) /\ usage' = usage
    BY <1>5, Zenon DEF Unfreeze, Frozen, Set
  <2>2. Frozen' = Frozen \ {f}
    BY <1>0, <2>1, Zenon DEF Frozen
  <2>3. IsFiniteSet(Frozen') /\ Cardinality(Frozen') = Cardinality(Frozen) - 1
    BY <1>0, <2>1, <2>2, FS_RemoveElement, Zenon
  <2>4. dead' <=> depth' > 0
    <3>1. (dead /\ depth > 1) <=> depth' > 0
      BY <1>0, <2>1
    <3> QED
      BY <2>1, <3>1, Zenon
  <2>5. depth' = Cardinality(Frozen')
    BY <1>0, <2>1, <2>3, Zenon
  <2>6. (\E g \in Freezer : fz'[g] = "frozen") => usage' = 0
    BY <1>0, <1>1, <2>1, Zenon
  <2> QED
    BY <2>3, <2>4, <2>5, <2>6, Zenon DEF Freezing
<1> QED
  BY <1>2, <1>3, <1>4, <1>5, FreezeSteps, Zenon

(* The invariant holds in every reachable state. *)
LEMMA Inductive == Spec => []IInv
<1>1. Init => IInv
  <2> SUFFICES ASSUME Init PROVE IInv
    BY Zenon
  <2>1. tw = NoTw /\ NoTw \in TwSet /\ tw.pc = "idle" /\ tw.rq = {}
    BY Zenon DEF Init, NoTw, TwSet
  <2>2. Types
    BY <2>1, Zenon DEF Init, Types, Phase
  <2>3. References
    BY <2>1, Zenon DEF Init, References, Held, Holding
  <2>4. Usage
    BY <2>1, FS_EmptySet DEF Init, Usage
  <2>5. Freezing
    <3>1. Frozen = {}
      BY Zenon DEF Init, Frozen
    <3> QED
      BY <3>1, FS_EmptySet DEF Init, Freezing
  <2> QED
    BY <2>2, <2>3, <2>4, <2>5, Zenon DEF IInv
<1>2. IInv /\ [Next]_vars => IInv'
  BY TypesNext, ReferencesNext, UsageNext, FreezingNext, Zenon DEF IInv
<1> QED
  BY <1>1, <1>2, PTL DEF Spec

(* The state stays well typed; in particular the reference count of a      *)
(* request is never above two and the counter of the queue never negative. *)
THEOREM TypeCorrect == Spec => []TypeOK
<1>1. IInv => TypeOK
  <2> SUFFICES ASSUME IInv PROVE TypeOK
    BY Zenon
  <2>1. usage \in Nat /\ depth \in Nat
    BY Counted, Zenon
  <2>2. ref \in [Req -> 0 .. 2] /\ tags \subseteq Req
    BY DEF IInv, References
  <2> QED
    BY <2>1, <2>2, Zenon DEF IInv, Types, TwSet, TypeOK
<1> QED
  BY <1>1, Inductive, PTL

(* Between refcount_inc_not_zero and its put, the timeout work looks at    *)
(* the request it found expired, however often the others complete, free   *)
(* and allocate requests.                                                  *)
THEOREM PinnedCorrect == Spec => []PinnedWhileHandled
<1>1. IInv => PinnedWhileHandled
  <2> SUFFICES ASSUME IInv, Holding, NEW r \in tw.rq
               PROVE  r \in tags /\ gen[r] = tw.gen /\ ref[r] > 0
    BY Zenon DEF PinnedWhileHandled
  <2>1. r \in Req
    BY OneHeld, Zenon DEF IInv
  <2> QED
    BY <2>1 DEF IInv, References, Held
<1> QED
  BY <1>1, Inductive, PTL

(* blk_mq_freeze_queue returns to a queue that nobody uses, and nobody     *)
(* enters it before its last unfreeze, for any number of freezers.         *)
THEOREM FrozenCorrect == Spec => []FrozenIsEmpty
<1>1. IInv => FrozenIsEmpty
  <2> SUFFICES ASSUME IInv, NEW f \in Freezer, fz[f] = "frozen"
               PROVE  dead /\ tags = {} /\ entered = 0 /\ tw.pc = "idle"
    BY Zenon DEF FrozenIsEmpty
  <2>1. Frozen # {} /\ usage = 0
    BY Zenon DEF IInv, Freezing, Frozen
  <2>2. depth # 0 /\ depth \in Nat
    BY <2>1, FS_EmptySet, Counted, Zenon DEF IInv, Freezing
  <2>3. dead
    BY <2>2 DEF IInv, Freezing
  <2> QED
    BY <2>1, <2>3, ZeroIsUnused, Zenon
<1> QED
  BY <1>1, Inductive, PTL

-----------------------------------------------------------------------------
(* BlkMap.  In the middle of an update the queues still to come are mapped *)
(* as before, and after a fallback nothing is known of the map: what an    *)
(* update needs of every queue is that it has all its hctxs, and queue 0   *)
(* its tags.                                                               *)

\* A hctx has a node, tags and a flag.
IsHctx(h) == h = [node |-> h.node, tags |-> h.tags, shared |-> h.shared]

\* A queue's hctxs are records; it has one for every index below n.
AllHctx(hs) == \A i \in Idx : \A h \in hs[i] : IsHctx(h)
FullTo(hs, n) == \A i \in Idx : i < n => hs[i] # {}

\* What the type of the variables says, as far as the proof needs it.
Shapes ==
    /\ nr_hw_queues \in 0 .. NrCpus /\ map_nr \in 0 .. NrCpus
    /\ mq_map \in [Cpu -> Idx] /\ set_tags \in [Idx -> Nat] /\ last_tags \in Nat
    /\ members \subseteq Queue
    /\ q_nr \in [Queue -> 0 .. NrCpus] /\ ctx_map \in [Queue -> [Cpu -> Idx]]
    /\ DOMAIN hctxs = Queue /\ \A p \in Queue : DOMAIN hctxs[p] = Idx
    /\ \A p \in Queue, i \in Idx : \A h \in hctxs[p][i] : IsHctx(h)
    /\ upd = [pc |-> upd.pc, prev |-> upd.prev, todo |-> upd.todo]
    /\ upd.pc \in {"idle", "queues"} /\ upd.todo \subseteq members
    /\ upd.pc = "idle" => upd.todo = {}
    /\ upd.pc = "queues" => /\ nr_hw_queues > 0 /\ upd.prev \in 1 .. NrCpus
                            /\ map_nr > 0 /\ upd.prev # map_nr

\* A queue of the set has all its hardware queues, and at least one.
Built(p) == q_nr[p] > 0 /\ \A i \in Idx : i < q_nr[p] => hctxs[p][i] # {}

\* What is left when a queue has been mapped.
Served(p) ==
    /\ ctx_map[p] = mq_map /\ q_nr[p] = nr_hw_queues
    /\ \A c \in Cpu : set_tags[mq_map[c]] # 0
          /\ \E h \in hctxs[p][mq_map[c]] : h.tags = set_tags[mq_map[c]]

MapInv ==
    /\ Shapes
    /\ \A p \in members : Built(p)
    /\ members # {} => nr_hw_queues > 0
    /\ nr_hw_queues > 0 => set_tags[0] # 0
    /\ map_nr = nr_hw_queues =>
          /\ nr_hw_queues > 0 => \A c \in Cpu : mq_map[c] < nr_hw_queues
          /\ \A p \in members \ upd.todo : Served(p)

-----------------------------------------------------------------------------
\* A set of natural numbers that is not empty has a least element.
LEMMA LeastNat ==
  ASSUME NEW T, T \subseteq Nat, T # {}
  PROVE  \E x \in T : \A y \in T : x <= y
<1> DEFINE R == OpToRel(<, Nat)
<1>1. \E x \in T : \A y \in T : ~(<<y, x>> \in R)
  <2>1. IsWellFoundedOn(R, Nat)
    BY NatLessThanWellFounded, Zenon
  <2> HIDE DEF R
  <2> QED
    BY <2>1, WFMin, Zenon
<1>2. PICK x \in T : \A y \in T : ~(<<y, x>> \in R)
  BY <1>1, Zenon
<1>3. \A y \in T : x <= y
  <2> TAKE y \in T
  <2>1. ~(y < x)
    BY <1>2, Zenon DEF OpToRel
  <2> QED
    BY <2>1
<1> QED
  BY <1>3, Zenon

\* blk_mq_realloc_hw_ctxs reaches the number of queues asked for, or stops at
\* an index below it that has no hctx.
LEMMA ReachedWhere ==
  ASSUME NEW q, NEW fails, nr_hw_queues \in 0 .. NrCpus
  PROVE  \/ Reached(q, fails) = nr_hw_queues /\ StopsAt(q, fails) = {}
         \/ /\ Reached(q, fails) \in Idx /\ Reached(q, fails) < nr_hw_queues
            /\ hctxs[q][Reached(q, fails)] = {}
<1>1. CASE StopsAt(q, fails) = {}
  BY <1>1, Zenon DEF Reached
<1>2. CASE StopsAt(q, fails) # {}
  <2>1. StopsAt(q, fails) \subseteq Nat
    BY MapAssumption DEF StopsAt, Idx
  <2>2. \E x \in StopsAt(q, fails) : \A y \in StopsAt(q, fails) : x <= y
    BY <2>1, <1>2, LeastNat, Zenon
  <2>3. Reached(q, fails) \in StopsAt(q, fails)
    BY <2>2, <1>2, Zenon DEF Reached
  <2> QED
    BY <2>3, Zenon DEF StopsAt, Exists
<1> QED
  BY <1>1, <1>2, Zenon

\* A new hctx is a record of the three fields.
LEMMA NewIsHctx ==
  ASSUME NEW q, NEW node
  PROVE  IsHctx(NewHctx(q, node))
BY Zenon DEF IsHctx, NewHctx

\* What the queue has after blk_mq_realloc_hw_ctxs: nothing is lost below its
\* old and its new number of queues.
LEMMA ReallocedShape ==
  ASSUME Shapes, NEW q \in Queue, NEW fails
  PROVE  /\ DOMAIN Realloced(q, fails) = Idx
         /\ \A i \in Idx : \A h \in Realloced(q, fails)[i] : IsHctx(h)
         /\ Reached(q, fails) = nr_hw_queues =>
               \A i \in Idx : i < nr_hw_queues => Realloced(q, fails)[i] # {}
<1>1. DOMAIN Realloced(q, fails) = Idx
  BY Zenon DEF Realloced
<1>2. ASSUME NEW i \in Idx, NEW h \in Realloced(q, fails)[i]
      PROVE  IsHctx(h)
  <2>1. \/ h \in hctxs[q][i] \/ h = NewHctx(q, HwQueueToNode(mq_map, i))
    BY <1>2, Zenon DEF Realloced
  <2> QED
    BY <2>1, NewIsHctx, SMTT(30) DEF Shapes
<1>3. ASSUME Reached(q, fails) = nr_hw_queues, NEW i \in Idx, i < nr_hw_queues
      PROVE  Realloced(q, fails)[i] # {}
  <2>1. StopsAt(q, fails) = {}
    BY <1>3, ReachedWhere, MapAssumption DEF Shapes
  <2>2. i \notin GivenUp(q, fails)
    BY <1>3, MapAssumption DEF GivenUp, Idx, Shapes
  <2>3. ~(i >= Reached(q, fails))
    BY <1>3, MapAssumption DEF Idx, Shapes
  <2>4. i \in fails => hctxs[q][i] # {}
    BY <1>3, <2>1, Zenon DEF StopsAt, Exists
  <2>5. Stays(q, i) => hctxs[q][i] # {}
    BY Zenon DEF Stays, Exists
  <2> QED
    BY <2>2, <2>3, <2>4, <2>5, Zenon DEF Realloced
<1> QED
  BY <1>1, <1>2, <1>3, Zenon

\* blk_mq_map_swqueue gives every CPU a queue with tags, whatever memory is
\* missing, as long as queue 0 has them; and what already has tags stays.
LEMMA MappedWell ==
  ASSUME mq_map \in [Cpu -> Idx], last_tags \in Nat, NEW ts \in [Idx -> Nat],
         ts[0] # 0, NEW noMem, NEW n \in 0 .. NrCpus,
         NEW map, map = Remapped(ts, noMem), NEW new, new = MappedTags(ts, map, n)
  PROVE  /\ map \in [Cpu -> Idx] /\ new \in [Idx -> Nat] /\ new[0] # 0
         /\ \A c \in Cpu : map[c] \in {0, mq_map[c]} /\ new[map[c]] # 0
         /\ (\A c \in Cpu : ts[mq_map[c]] # 0) =>
               map = mq_map /\ \A c \in Cpu : new[map[c]] = ts[map[c]]
<1>0. 0 \in Idx /\ Idx \subseteq Nat
  BY MapAssumption DEF Idx
<1>1. map \in [Cpu -> Idx] /\ \A c \in Cpu : map[c] \in {0, mq_map[c]}
  BY <1>0, Zenon DEF Remapped
<1>2. \A i \in Idx : new[i] = IF i < n /\ Unmapped(map, i) THEN 0
                     ELSE IF ts[i] = 0 /\ \E c \in Cpu : map[c] = i THEN last_tags + 1 + i
                     ELSE ts[i]
  BY Zenon DEF MappedTags
<1>3. new \in [Idx -> Nat]
  <2>1. DOMAIN new = Idx /\ new = [i \in Idx |-> new[i]]
    BY Zenon DEF MappedTags
  <2>2. \A i \in Idx : new[i] \in Nat
    BY <1>0, <1>2
  <2> QED
    BY <2>1, <2>2, Zenon
<1>4. new[0] # 0
  BY <1>0, <1>2, Zenon DEF Unmapped
<1>5. \A c \in Cpu : new[map[c]] # 0
  <2> TAKE c \in Cpu
  <2>1. map[c] \in Idx /\ ~Unmapped(map, map[c])
    BY <1>1, Zenon DEF Unmapped
  <2>2. CASE ts[map[c]] = 0
    <3>1. new[map[c]] = last_tags + 1 + map[c]
      BY <2>1, <2>2, <1>2, Zenon
    <3>2. map[c] \in Nat
      BY <2>1, <1>0, Zenon
    <3>3. \A x \in Nat : last_tags + 1 + x # 0
      OBVIOUS
    <3> QED
      BY <3>1, <3>2, <3>3, Zenon
  <2>3. CASE ts[map[c]] # 0
    BY <2>1, <2>3, <1>2, Zenon
  <2> QED
    BY <2>2, <2>3, Zenon
<1>6. ASSUME \A c \in Cpu : ts[mq_map[c]] # 0
      PROVE  map = mq_map /\ \A c \in Cpu : new[map[c]] = ts[map[c]]
  <2>1. map = mq_map
    <3>1. \A c \in Cpu : map[c] = mq_map[c]
      BY <1>6, Zenon DEF Remapped
    <3> QED
      BY <3>1, <1>1
  <2>2. \A c \in Cpu : map[c] \in Idx /\ ~Unmapped(map, map[c])
    BY <1>1, Zenon DEF Unmapped
  <2> QED
    BY <2>1, <2>2, <1>2, <1>6, Zenon
<1> QED
  BY <1>1, <1>3, <1>4, <1>5, <1>6, Zenon

\* The hctxs W of a mapped queue carry the maps ts of the set.
Carried(W, hs, ts, map, n) ==
    /\ DOMAIN W = Idx
    /\ AllHctx(W)
    /\ \A i \in Idx : hs[i] # {} => W[i] # {}
    /\ \A c \in Cpu : (map[c] < n /\ hs[map[c]] # {}) =>
          \E h \in W[map[c]] : h.tags = ts[map[c]]

LEMMA TaggedWell ==
  ASSUME NEW hs, NEW ts, NEW map \in [Cpu -> Idx], NEW n \in 0 .. NrCpus,
         AllHctx(hs)
  PROVE  Carried(WithTags(hs, ts, map, n), hs, ts, map, n)
<1> DEFINE T(i) == IF i < n /\ (\E c \in Cpu : map[c] = i) THEN ts[i] ELSE 0
           W == WithTags(hs, ts, map, n)
<1>1. DOMAIN W = Idx /\ \A i \in Idx : W[i] = {[h EXCEPT !.tags = T(i)] : h \in hs[i]}
  BY Zenon DEF WithTags
<1>2. \A i \in Idx : \A h \in hs[i] :
         IsHctx([h EXCEPT !.tags = T(i)]) /\ [h EXCEPT !.tags = T(i)].tags = T(i)
  <2> TAKE i \in Idx
  <2> TAKE h \in hs[i]
  <2>1. h = [node |-> h.node, tags |-> h.tags, shared |-> h.shared]
    BY Zenon DEF AllHctx, IsHctx
  <2> HIDE DEF T
  <2>2. [h EXCEPT !.tags = T(i)] = [node |-> h.node, tags |-> T(i), shared |-> h.shared]
    BY <2>1
  <2> QED
    BY <2>2, Zenon DEF IsHctx
<1> HIDE DEF W
<1>3. \A i \in Idx : \A h \in W[i] : IsHctx(h)
  <2> HIDE DEF T
  <2> QED
    BY <1>1, <1>2
<1>4. \A i \in Idx : hs[i] # {} => W[i] # {}
  <2>1. \A i \in Idx : \A h \in hs[i] : [h EXCEPT !.tags = T(i)] \in W[i]
    <3> HIDE DEF T
    <3> QED
      BY <1>1, Zenon
  <2> HIDE DEF T
  <2> QED
    BY <2>1, Zenon
<1>5. ASSUME NEW c \in Cpu, map[c] < n, hs[map[c]] # {}
      PROVE  \E h \in W[map[c]] : h.tags = ts[map[c]]
  <2>1. map[c] \in Idx /\ T(map[c]) = ts[map[c]]
    BY <1>5, Zenon
  <2>2. PICK h \in hs[map[c]] : TRUE
    BY <1>5, Zenon
  <2> HIDE DEF T
  <2>3. [h EXCEPT !.tags = T(map[c])] \in W[map[c]]
    BY <1>1, <2>1, <2>2, Zenon
  <2> QED
    BY <2>1, <2>2, <2>3, <1>2, Zenon
<1> QED
  BY <1>1, <1>3, <1>4, <1>5, Zenon DEF W, AllHctx, Carried

\* Setting or clearing BLK_MQ_F_TAG_SHARED changes nothing else.
LEMMA FlaggedWell ==
  ASSUME NEW hs, NEW s, AllHctx(hs)
  PROVE  /\ DOMAIN Flagged(hs, s) = Idx
         /\ AllHctx(Flagged(hs, s))
         /\ \A i \in Idx : hs[i] # {} => Flagged(hs, s)[i] # {}
         /\ \A i \in Idx : \A t : (\E h \in hs[i] : h.tags = t)
                                => \E h \in Flagged(hs, s)[i] : h.tags = t
<1>1. DOMAIN Flagged(hs, s) = Idx
      /\ \A i \in Idx : Flagged(hs, s)[i] = {[h EXCEPT !.shared = s] : h \in hs[i]}
  BY Zenon DEF Flagged
<1>2. \A i \in Idx : \A h \in hs[i] :
         IsHctx([h EXCEPT !.shared = s]) /\ [h EXCEPT !.shared = s].tags = h.tags
  <2> TAKE i \in Idx
  <2> TAKE h \in hs[i]
  <2>1. h = [node |-> h.node, tags |-> h.tags, shared |-> h.shared]
    BY Zenon DEF AllHctx, IsHctx
  <2>2. [h EXCEPT !.shared = s] = [node |-> h.node, tags |-> h.tags, shared |-> s]
    BY <2>1
  <2> QED
    BY <2>2, Zenon DEF IsHctx
<1>3. \A i \in Idx : \A h \in Flagged(hs, s)[i] : IsHctx(h)
  BY <1>1, <1>2
<1>4. \A i \in Idx : hs[i] # {} => Flagged(hs, s)[i] # {}
  <2>1. \A i \in Idx : \A h \in hs[i] : [h EXCEPT !.shared = s] \in Flagged(hs, s)[i]
    BY <1>1, Zenon
  <2> QED
    BY <2>1, Zenon
<1>5. ASSUME NEW i \in Idx, NEW h \in hs[i]
      PROVE  \E g \in Flagged(hs, s)[i] : g.tags = h.tags
  <2>1. [h EXCEPT !.shared = s] \in Flagged(hs, s)[i]
    BY <1>1, <1>5, Zenon
  <2> QED
    BY <2>1, <1>2, <1>5, Zenon
<1> QED
  BY <1>1, <1>3, <1>4, <1>5 DEF AllHctx

-----------------------------------------------------------------------------
\* The hctxs of queue p after a step that leaves their number and tags alone.
Kept(p) ==
    /\ DOMAIN hctxs'[p] = Idx
    /\ \A i \in Idx : /\ \A h \in hctxs'[p][i] : IsHctx(h)
                      /\ hctxs[p][i] # {} => hctxs'[p][i] # {}
                      /\ \A t : (\E h \in hctxs[p][i] : h.tags = t)
                                  => \E h \in hctxs'[p][i] : h.tags = t

KeptBut(q) == \A p \in Queue \ {q} : Kept(p)

\* The tags of the hardware queues in use are the set's.
Agrees(ts) == \A i \in Idx : i < nr_hw_queues => ts[i] = set_tags[i]

\* A queue whose hctxs are left alone keeps them.
LEMMA UnchangedKept ==
  ASSUME Shapes, NEW p \in Queue, hctxs'[p] = hctxs[p]
  PROVE  Kept(p)
BY Zenon DEF Shapes, Kept

\* queue_set_hctx_shared keeps the hctxs of the queue and their tags.
LEMMA FlaggedKept ==
  ASSUME Shapes, NEW p \in Queue, NEW s, hctxs'[p] = Flagged(hctxs[p], s)
  PROVE  Kept(p)
<1>1. AllHctx(hctxs[p])
  BY Zenon DEF Shapes, AllHctx
<1> QED
  BY <1>1, FlaggedWell DEF Kept, AllHctx

\* A queue that has been mapped stays so as long as its hctxs, the map and the
\* tags of the queues in it are left alone.
LEMMA ServedKept ==
  ASSUME Shapes, NEW p \in Queue, Served(p), Kept(p),
         q_nr'[p] = q_nr[p], ctx_map'[p] = ctx_map[p], nr_hw_queues' = nr_hw_queues,
         mq_map' = mq_map, \A c \in Cpu : set_tags'[mq_map[c]] = set_tags[mq_map[c]]
  PROVE  Served(p)'
<1>1. \A c \in Cpu : mq_map[c] \in Idx
  BY Zenon DEF Shapes
<1>2. ASSUME NEW c \in Cpu
      PROVE  /\ set_tags'[mq_map[c]] # 0
             /\ \E h \in hctxs'[p][mq_map[c]] : h.tags = set_tags'[mq_map[c]]
  <2>1. /\ mq_map[c] \in Idx /\ set_tags'[mq_map[c]] = set_tags[mq_map[c]]
        /\ set_tags[mq_map[c]] # 0
        /\ \E h \in hctxs[p][mq_map[c]] : h.tags = set_tags[mq_map[c]]
    BY <1>1, Zenon DEF Served
  <2>2. \E h \in hctxs'[p][mq_map[c]] : h.tags = set_tags[mq_map[c]]
    BY <2>1, Zenon DEF Kept
  <2> QED
    BY <2>1, <2>2, Zenon
<1> QED
  BY <1>2, Zenon DEF Served

\* blk_mq_map_swqueue for one queue, when it joins the set and when its turn
\* comes in an update.
Joins(q, hs, ts, noMem, map, new) ==
    /\ q \notin members \ upd.todo /\ nr_hw_queues > 0
    /\ AllHctx(hs) /\ FullTo(hs, nr_hw_queues)
    /\ ts \in [Idx -> Nat] /\ ts[0] # 0 /\ Agrees(ts)
    /\ map = Remapped(ts, noMem) /\ new = MappedTags(ts, map, nr_hw_queues)
    /\ mq_map' = map /\ set_tags' = new /\ last_tags' = last_tags + NrCpus
    /\ ctx_map' = [ctx_map EXCEPT ![q] = map]
    /\ DOMAIN hctxs' = Queue /\ hctxs'[q] = WithTags(hs, new, map, nr_hw_queues)
    /\ KeptBut(q)
    /\ q_nr' = [q_nr EXCEPT ![q] = nr_hw_queues]
    /\ nr_hw_queues' = nr_hw_queues /\ map_nr' = map_nr /\ members' = members \cup {q}
    /\ upd' = [upd EXCEPT !.todo = @ \ {q}]

LEMMA MapsQueue ==
  ASSUME MapInv, NEW q \in Queue, NEW hs, NEW ts, NEW noMem, NEW map, NEW new,
         Joins(q, hs, ts, noMem, map, new)
  PROVE  MapInv'
<1>0. 0 \in Idx /\ Idx \subseteq Nat /\ nr_hw_queues \in 0 .. NrCpus /\ NrCpus \in Nat
  BY MapAssumption DEF Idx, MapInv, Shapes
<1>1. /\ map \in [Cpu -> Idx] /\ new \in [Idx -> Nat] /\ new[0] # 0
      /\ \A c \in Cpu : map[c] \in {0, mq_map[c]} /\ new[map[c]] # 0
      /\ (\A c \in Cpu : ts[mq_map[c]] # 0) =>
               map = mq_map /\ \A c \in Cpu : new[map[c]] = ts[map[c]]
  <2>1. mq_map \in [Cpu -> Idx] /\ last_tags \in Nat
    BY Zenon DEF MapInv, Shapes, Joins
  <2> QED
    BY <2>1, <1>0, MappedWell DEF Joins
<1>2. /\ DOMAIN hctxs'[q] = Idx
      /\ \A i \in Idx : \A h \in hctxs'[q][i] : IsHctx(h)
      /\ \A i \in Idx : hs[i] # {} => hctxs'[q][i] # {}
      /\ \A c \in Cpu : (map[c] < nr_hw_queues /\ hs[map[c]] # {}) =>
               \E h \in hctxs'[q][map[c]] : h.tags = new[map[c]]
  <2>1. map \in [Cpu -> Idx] /\ nr_hw_queues \in 0 .. NrCpus
    BY <1>0, <1>1, Zenon
  <2>2. Carried(WithTags(hs, new, map, nr_hw_queues), hs, new, map, nr_hw_queues)
    BY <2>1, TaggedWell, Zenon DEF Joins
  <2>3. Carried(hctxs'[q], hs, new, map, nr_hw_queues)
    BY <2>2, Zenon DEF Joins
  <2> QED
    BY <2>3, Zenon DEF Carried, AllHctx
<1>3. upd'.pc = upd.pc /\ upd'.prev = upd.prev /\ upd'.todo = upd.todo \ {q}
      /\ upd' = [pc |-> upd.pc, prev |-> upd.prev, todo |-> upd.todo \ {q}]
  BY Zenon DEF MapInv, Shapes, Joins
<1>4. /\ q_nr' \in [Queue -> 0 .. NrCpus] /\ q_nr'[q] = nr_hw_queues
      /\ \A p \in Queue \ {q} : q_nr'[p] = q_nr[p]
      /\ ctx_map' \in [Queue -> [Cpu -> Idx]] /\ ctx_map'[q] = map
      /\ \A p \in Queue \ {q} : ctx_map'[p] = ctx_map[p]
  BY <1>0, <1>1, Zenon DEF MapInv, Shapes, Joins
<1>5. Shapes'
  <2>1. \A p \in Queue : DOMAIN hctxs'[p] = Idx
    BY <1>2, Zenon DEF Kept, KeptBut, Joins
  <2>2. \A p \in Queue, i \in Idx : \A h \in hctxs'[p][i] : IsHctx(h)
    BY <1>2, Zenon DEF Kept, KeptBut, Joins
  <2>3. last_tags' \in Nat
    BY <1>0 DEF MapInv, Shapes, Joins
  <2>4. upd'.todo \subseteq members' /\ (upd'.pc = "idle" => upd'.todo = {})
    BY <1>3, Zenon DEF MapInv, Shapes, Joins
  <2> QED
    BY <1>1, <1>3, <1>4, <2>1, <2>2, <2>3, <2>4, Zenon DEF MapInv, Shapes, Joins
<1>6. \A p \in members' : Built(p)'
  <2> SUFFICES ASSUME NEW p \in members' PROVE Built(p)'
    BY Zenon
  <2>1. CASE p = q
    BY <2>1, <1>2, <1>4, <1>0, Zenon DEF Built, FullTo, Joins
  <2>2. CASE p # q
    <3>1. p \in members /\ p \in Queue \ {q} /\ Built(p)
      BY <2>2, Zenon DEF MapInv, Shapes, Joins
    <3> QED
      BY <3>1, <1>4, Zenon DEF Built, Kept, KeptBut, Joins
  <2> QED
    BY <2>1, <2>2, Zenon
<1>7. ASSUME map_nr = nr_hw_queues
      PROVE  /\ \A c \in Cpu : map[c] < nr_hw_queues
             /\ \A p \in members' \ upd'.todo : Served(p)'
  <2>1. \A c \in Cpu : mq_map[c] \in Idx /\ mq_map[c] < nr_hw_queues
    BY <1>7, Zenon DEF MapInv, Shapes, Joins
  <2>2. \A c \in Cpu : map[c] < nr_hw_queues
    BY <2>1, <1>1, Zenon DEF Joins
  <2>3. Served(q)'
    <3>1. \A c \in Cpu : \E h \in hctxs'[q][map[c]] : h.tags = new[map[c]]
      BY <1>1, <1>2, <2>2, Zenon DEF FullTo, Joins
    <3> QED
      BY <3>1, <1>1, <1>4 DEF Served, Joins
  <2>4. ASSUME NEW p \in members' \ upd'.todo, p # q PROVE Served(p)'
    <3>1. p \in members \ upd.todo /\ p \in Queue \ {q}
      BY <2>4, <1>3, Zenon DEF MapInv, Shapes, Joins
    <3>2. Served(p)
      BY <3>1, <1>7, Zenon DEF MapInv
    <3>3. \A c \in Cpu : ts[mq_map[c]] # 0 /\ ts[mq_map[c]] = set_tags[mq_map[c]]
      BY <3>2, <2>1, Zenon DEF Served, Agrees, Joins
    <3>4. map = mq_map /\ \A c \in Cpu : new[mq_map[c]] = set_tags[mq_map[c]]
      BY <3>3, <1>1
    <3>5. Shapes /\ Kept(p) /\ q_nr'[p] = q_nr[p] /\ ctx_map'[p] = ctx_map[p]
      BY <3>1, <1>4, Zenon DEF MapInv, KeptBut, Joins
    <3> QED
      BY <3>1, <3>2, <3>4, <3>5, ServedKept, Zenon DEF Joins
  <2> QED
    BY <2>2, <2>3, <2>4, Zenon
<1>8. /\ members' # {} => nr_hw_queues' > 0
      /\ nr_hw_queues' > 0 => set_tags'[0] # 0
  BY <1>1, Zenon DEF Joins
<1>9. (map_nr = nr_hw_queues =>
          /\ nr_hw_queues > 0 => \A c \in Cpu : mq_map[c] < nr_hw_queues
          /\ \A p \in members \ upd.todo : Served(p))'
  BY <1>7, Zenon DEF Joins
<1> QED
  BY <1>5, <1>6, <1>8, <1>9, Zenon DEF MapInv

-----------------------------------------------------------------------------
\* No tag set, no queues.
LEMMA MapInitial == MapInit => MapInv
<1> SUFFICES ASSUME MapInit PROVE MapInv
  BY Zenon
<1>0. 0 \in Idx /\ NrCpus \in Nat
  BY MapAssumption, SMTT(30) DEF Idx
<1>1. Shapes
  BY <1>0 DEF MapInit, Shapes, NoUpd
<1> QED
  BY <1>1, SMTT(30) DEF MapInit, MapInv

\* blk_mq_map_queues stays below the number of queues it is told of.
LEMMA MapQueuesFits ==
  ASSUME NEW n \in 1 .. NrCpus
  PROVE  MapQueues(n) \in [Cpu -> Idx] /\ \A c \in Cpu : MapQueues(n)[c] < n
<1>1. \A c \in Cpu : c % n \in 0 .. n - 1
  BY MapAssumption DEF Cpu
<1>2. 0 .. n - 1 \subseteq Idx /\ \A x \in 0 .. n - 1 : x < n
  BY MapAssumption DEF Idx
<1> QED
  BY <1>1, <1>2, Zenon DEF MapQueues

\* blk_mq_alloc_tag_set, also when it runs out of memory.
LEMMA AllocTagSetStep ==
  ASSUME MapInv, AllocTagSet
  PROVE  MapInv'
<1>1. CASE UNCHANGED setVars
  <2>1. UNCHANGED <<setVars, set_shared, members, qVars, upd>>
    BY <1>1, Zenon DEF AllocTagSet
  <2> QED
    BY <2>1, SMTT(30) DEF MapInv, Shapes, Built, Served, setVars, qVars
<1>2. CASE ~UNCHANGED setVars
  <2>1. PICK nr \in 1 .. NrCpus :
           /\ nr_hw_queues' = nr /\ map_nr' = nr /\ mq_map' = MapQueues(nr)
           /\ set_tags' = [i \in Idx |-> IF i < nr THEN last_tags + 1 + i ELSE 0]
           /\ last_tags' = last_tags + nr
    <3>1. PICK n \in 1 .. NrCpus + 1, d \in Depths, k \in 0 .. 2 :
             LET nr == IF n > NrCpus THEN NrCpus ELSE n
             IN  /\ nr_hw_queues' = nr /\ map_nr' = nr
                 /\ mq_map' = MapQueues(nr)
                 /\ set_tags' = [i \in Idx |-> IF i < nr THEN last_tags + 1 + i ELSE 0]
                 /\ last_tags' = last_tags + nr
      BY <1>2, Zenon DEF AllocTagSet
    <3>2. (IF n > NrCpus THEN NrCpus ELSE n) \in 1 .. NrCpus
      BY MapAssumption, SMTT(30)
    <3> QED
      BY <3>1, <3>2, Zenon
  <2>2. UNCHANGED <<members, q_nr, hctxs, ctx_map, upd>> /\ members = {}
    BY Zenon DEF AllocTagSet, qVars
  <2>3. Idx \subseteq Nat /\ 0 \in Idx /\ NrCpus \in Nat /\ last_tags \in Nat
    BY MapAssumption DEF Idx, MapInv, Shapes
  <2>4. set_tags' \in [Idx -> Nat] /\ set_tags'[0] # 0 /\ last_tags' \in Nat
    <3>1. \A i \in Idx : last_tags + 1 + i \in Nat
      BY <2>3
    <3>2. set_tags'[0] = last_tags + 1 + 0
      BY <2>1, <2>3, SMTT(30)
    <3> QED
      BY <2>1, <2>3, <3>1, <3>2
  <2>5. upd.pc = "idle" /\ upd.todo = {}
    BY <2>2 DEF MapInv, Shapes, AllocTagSet
  <2>6. mq_map' \in [Cpu -> Idx] /\ \A c \in Cpu : mq_map'[c] < nr
    BY <2>1, MapQueuesFits, Zenon
  <2>7. Shapes'
    BY <2>1, <2>2, <2>3, <2>4, <2>5, <2>6 DEF MapInv, Shapes
  <2> QED
    BY <2>1, <2>2, <2>4, <2>6, <2>7, Zenon DEF MapInv
<1> QED
  BY <1>1, <1>2, Zenon

\* blk_mq_free_tag_set: no queue is left.
LEMMA FreeTagSetStep ==
  ASSUME MapInv, FreeTagSet
  PROVE  MapInv'
<1>1. 0 \in Idx /\ NrCpus \in Nat
  BY MapAssumption DEF Idx
<1>2. UNCHANGED <<members, q_nr, hctxs, ctx_map, upd, last_tags>> /\ members = {}
      /\ upd.pc = "idle" /\ nr_hw_queues' = 0 /\ map_nr' = 0
  BY Zenon DEF FreeTagSet, qVars
<1>3. Shapes'
  <2>1. mq_map' \in [Cpu -> Idx] /\ set_tags' \in [Idx -> Nat]
    BY <1>1, Zenon DEF FreeTagSet
  <2> QED
    BY <1>1, <1>2, <2>1 DEF MapInv, Shapes
<1> QED
  BY <1>2, <1>3, SMTT(30) DEF MapInv

\* blk_mq_init_allocated_queue: it gets all hctxs or none, and is mapped.
LEMMA InitQueueStep ==
  ASSUME MapInv, NEW q \in Queue, InitQueue(q)
  PROVE  MapInv'
<1>1. PICK fails \in SUBSET Idx :
          \/ /\ NewQNr(q, fails) = 0
             /\ UNCHANGED <<setVars, set_shared, members, q_nr, hctxs, ctx_map>>
          \/ /\ NewQNr(q, fails) > 0
             /\ q_nr' = [q_nr EXCEPT ![q] = NewQNr(q, fails)]
             /\ members' = members \cup {q}
             /\ set_shared' = (set_shared \/ members # {})
             /\ \E noMem \in SUBSET Cpu :
                   /\ mq_map' = Remapped(set_tags, noMem)
                   /\ set_tags' = MappedTags(set_tags, Remapped(set_tags, noMem), nr_hw_queues)
                   /\ last_tags' = last_tags + NrCpus
                   /\ ctx_map' = [ctx_map EXCEPT ![q] = Remapped(set_tags, noMem)]
                   /\ hctxs' = [[p \in Queue |-> IF p \in members /\ ~set_shared
                                                 THEN Flagged(hctxs[p], set_shared')
                                                 ELSE hctxs[p]] EXCEPT ![q] =
                         WithTags(Flagged(Realloced(q, fails), set_shared'),
                                  MappedTags(set_tags, Remapped(set_tags, noMem), nr_hw_queues),
                                  Remapped(set_tags, noMem), nr_hw_queues)]
             /\ UNCHANGED <<nr_hw_queues, map_nr, queue_depth>>
  BY Zenon DEF InitQueue
<1>2. nr_hw_queues > 0 /\ q \notin members /\ q_nr[q] = 0 /\ upd.pc = "idle" /\ upd' = upd
  BY Zenon DEF InitQueue
<1>3. CASE UNCHANGED <<setVars, set_shared, members, q_nr, hctxs, ctx_map>>
  BY <1>2, <1>3 DEF MapInv, Shapes, Built, Served, setVars
<1>4. CASE ~UNCHANGED <<setVars, set_shared, members, q_nr, hctxs, ctx_map>>
  <2>0. PICK noMem \in SUBSET Cpu :
           /\ mq_map' = Remapped(set_tags, noMem)
           /\ set_tags' = MappedTags(set_tags, Remapped(set_tags, noMem), nr_hw_queues)
           /\ last_tags' = last_tags + NrCpus
           /\ ctx_map' = [ctx_map EXCEPT ![q] = Remapped(set_tags, noMem)]
           /\ hctxs' = [[p \in Queue |-> IF p \in members /\ ~set_shared
                                         THEN Flagged(hctxs[p], set_shared')
                                         ELSE hctxs[p]] EXCEPT ![q] =
                 WithTags(Flagged(Realloced(q, fails), set_shared'),
                          MappedTags(set_tags, Remapped(set_tags, noMem), nr_hw_queues),
                          Remapped(set_tags, noMem), nr_hw_queues)]
    BY <1>1, <1>4, Zenon
  <2>a. PICK s : s = set_shared'
    BY Zenon
  <2>b. PICK map : map = Remapped(set_tags, noMem)
    BY Zenon
  <2>c. PICK new : new = MappedTags(set_tags, map, nr_hw_queues)
    BY Zenon
  <2>1. /\ mq_map' = map /\ set_tags' = new /\ last_tags' = last_tags + NrCpus
        /\ ctx_map' = [ctx_map EXCEPT ![q] = map]
        /\ hctxs' = [[p \in Queue |-> IF p \in members /\ ~set_shared
                                      THEN Flagged(hctxs[p], s)
                                      ELSE hctxs[p]] EXCEPT ![q] =
                 WithTags(Flagged(Realloced(q, fails), s), new, map, nr_hw_queues)]
    BY <2>0, <2>a, <2>b, <2>c, Zenon
  <2>2. /\ NewQNr(q, fails) > 0 /\ q_nr' = [q_nr EXCEPT ![q] = NewQNr(q, fails)]
        /\ members' = members \cup {q} /\ nr_hw_queues' = nr_hw_queues /\ map_nr' = map_nr
    BY <1>1, <1>4, Zenon
  <2>3. Reached(q, fails) = nr_hw_queues /\ NewQNr(q, fails) = nr_hw_queues
    BY <1>2, <2>2 DEF NewQNr
  <2>4. Shapes
    BY Zenon DEF MapInv
  <2> DEFINE R == Realloced(q, fails)
             hs == Flagged(R, s)
  <2>5. AllHctx(R) /\ FullTo(R, nr_hw_queues)
    BY <2>3, <2>4, ReallocedShape, Zenon DEF AllHctx, FullTo
  <2> HIDE DEF R
  <2>6. AllHctx(hs) /\ FullTo(hs, nr_hw_queues)
    BY <2>5, FlaggedWell, Zenon DEF FullTo
  <2> USE DEF R
  <2>7. DOMAIN hctxs' = Queue /\ hctxs'[q] = WithTags(hs, new, map, nr_hw_queues)
    BY <2>1, Zenon
  <2>8. KeptBut(q)
    <3> SUFFICES ASSUME NEW p \in Queue \ {q} PROVE Kept(p)
      BY Zenon DEF KeptBut
    <3>1. hctxs'[p] = Flagged(hctxs[p], s) \/ hctxs'[p] = hctxs[p]
      BY <2>1, Zenon
    <3> QED
      BY <3>1, <2>4, FlaggedKept, UnchangedKept, Zenon
  <2> HIDE DEF hs
  <2>9. set_tags \in [Idx -> Nat] /\ set_tags[0] # 0 /\ Agrees(set_tags)
    BY <1>2, Zenon DEF MapInv, Shapes, Agrees
  <2>10. upd.todo = {} /\ upd' = [upd EXCEPT !.todo = @ \ {q}]
    BY <1>2, <2>4, Zenon DEF Shapes
  <2>11. q_nr' = [q_nr EXCEPT ![q] = nr_hw_queues] /\ q \notin members \ upd.todo
    BY <1>2, <2>2, <2>3, Zenon
  <2> QED
    <3>1. Joins(q, hs, set_tags, noMem, map, new)
      BY <1>2, <2>1, <2>2, <2>b, <2>c, <2>6, <2>7, <2>8, <2>9, <2>10, <2>11, Zenon DEF Joins
    <3> QED
      BY <3>1, MapsQueue, Zenon
<1> QED
  BY <1>3, <1>4, Zenon

\* blk_mq_exit_queue: the others keep what they have.
LEMMA ExitQueueStep ==
  ASSUME MapInv, NEW q \in Queue, ExitQueue(q)
  PROVE  MapInv'
<1>0. Shapes /\ NrCpus \in Nat
  BY MapAssumption, Zenon DEF MapInv
<1>1. /\ q \in members /\ upd.pc = "idle" /\ upd' = upd /\ upd.todo = {}
      /\ members' = members \ {q} /\ q_nr' = [q_nr EXCEPT ![q] = 0]
      /\ UNCHANGED <<nr_hw_queues, map_nr, mq_map, set_tags, last_tags, ctx_map>>
  BY <1>0, Zenon DEF ExitQueue, Shapes, setVars
<1>2. DOMAIN hctxs' = Queue /\ hctxs'[q] = [i \in Idx |-> {}]
  BY Zenon DEF ExitQueue
<1>3. ASSUME NEW p \in Queue \ {q} PROVE Kept(p)
  <2>1. hctxs'[p] = Flagged(hctxs[p], FALSE) \/ hctxs'[p] = hctxs[p]
    BY Zenon DEF ExitQueue
  <2> QED
    BY <2>1, <1>0, FlaggedKept, UnchangedKept, Zenon
<1>4. q_nr' \in [Queue -> 0 .. NrCpus] /\ \A p \in Queue \ {q} : q_nr'[p] = q_nr[p]
  BY <1>0, <1>1, SMTT(30) DEF Shapes
<1>5. Shapes'
  <2>1. \A p \in Queue : DOMAIN hctxs'[p] = Idx
    BY <1>2, <1>3 DEF Kept
  <2>2. \A p \in Queue, i \in Idx : \A h \in hctxs'[p][i] : IsHctx(h)
    BY <1>2, <1>3, Zenon DEF Kept
  <2> QED
    BY <1>0, <1>1, <1>2, <1>4, <2>1, <2>2, Zenon DEF Shapes
<1>6. \A p \in members' : p \in members /\ p \in Queue \ {q}
  BY <1>0, <1>1, Zenon DEF Shapes
<1>7. \A p \in members' : Built(p)'
  BY <1>3, <1>4, <1>6, SMTT(30) DEF Built, Kept, MapInv
<1>8. ASSUME map_nr = nr_hw_queues, NEW p \in members' PROVE Served(p)'
  <2>1. Served(p)
    BY <1>1, <1>6, <1>8, Zenon DEF MapInv
  <2>2. Kept(p)
    BY <1>3, <1>6, <1>8, Zenon
  <2> QED
    BY <1>0, <1>1, <1>4, <1>6, <1>8, <2>1, <2>2, ServedKept, Zenon
<1>9. (map_nr = nr_hw_queues =>
          /\ nr_hw_queues > 0 => \A c \in Cpu : mq_map[c] < nr_hw_queues
          /\ \A p \in members \ upd.todo : Served(p))'
  BY <1>1, <1>8, Zenon DEF MapInv
<1> QED
  BY <1>1, <1>5, <1>7, <1>9, Zenon DEF MapInv

\* The start of an update: every queue has yet to be mapped.
LEMMA UpdateStartStep ==
  ASSUME MapInv, NEW n \in 1 .. NrCpus + 1, UpdateStart(n)
  PROVE  MapInv'
<1>1. PICK nr \in 1 .. NrCpus :
         /\ nr # nr_hw_queues /\ nr_hw_queues' = nr /\ map_nr' = nr
         /\ mq_map' = MapQueues(nr)
         /\ upd' = [pc |-> "queues", prev |-> nr_hw_queues, todo |-> members]
  <2>1. (IF n > NrCpus THEN NrCpus ELSE n) \in 1 .. NrCpus
    BY MapAssumption, SMTT(30)
  <2> QED
    BY <2>1, Zenon DEF UpdateStart
<1>2. /\ nr_hw_queues > 0
      /\ UNCHANGED <<set_tags, last_tags, members, q_nr, hctxs, ctx_map>>
  BY Zenon DEF UpdateStart, qVars
<1>3. mq_map' \in [Cpu -> Idx] /\ \A c \in Cpu : mq_map'[c] < nr
  BY <1>1, MapQueuesFits, Zenon
<1>4. Shapes'
  BY <1>1, <1>2, <1>3, MapAssumption DEF MapInv, Shapes
<1>5. \A p \in members' : Built(p)'
  BY <1>2, Zenon DEF MapInv, Built
<1>6. members' \ upd'.todo = {}
  BY <1>1, <1>2, Zenon
<1> QED
  BY <1>1, <1>2, <1>3, <1>4, <1>5, <1>6 DEF MapInv

\* The tag maps that go with the hctxs given up are none of those in use.
LEMMA TagsLeftAgree ==
  ASSUME MapInv, NEW q \in members, NEW fails, nr_hw_queues > 0
  PROVE  /\ TagsLeft(q, fails) \in [Idx -> Nat] /\ TagsLeft(q, fails)[0] # 0
         /\ Reached(q, fails) = nr_hw_queues => Agrees(TagsLeft(q, fails))
<1>0. /\ 0 \in Idx /\ set_tags \in [Idx -> Nat] /\ set_tags[0] # 0 /\ Idx \subseteq Nat
      /\ nr_hw_queues \in Nat /\ q_nr[q] \in Nat /\ q_nr[q] > 0
  BY MapAssumption DEF Idx, MapInv, Shapes, Built
<1>1. 0 \notin GivenUp(q, fails)
  BY <1>0 DEF GivenUp
<1>2. ASSUME Reached(q, fails) = nr_hw_queues, NEW i \in Idx, i < nr_hw_queues
      PROVE  i \notin GivenUp(q, fails)
  BY <1>0, <1>2 DEF GivenUp
<1>3. TagsLeft(q, fails) \in [Idx -> Nat]
  BY <1>0, Zenon DEF TagsLeft
<1>4. TagsLeft(q, fails)[0] # 0
  BY <1>0, <1>1, Zenon DEF TagsLeft
<1>5. Reached(q, fails) = nr_hw_queues => Agrees(TagsLeft(q, fails))
  BY <1>2, Zenon DEF TagsLeft, Agrees
<1> QED
  BY <1>3, <1>4, <1>5, Zenon

\* A queue's turn in an update: the maps freed are not those in use.
LEMMA UpdateQueueStep ==
  ASSUME MapInv, NEW q \in Queue, UpdateQueue(q)
  PROVE  MapInv'
<1>0. Shapes /\ upd.pc = "queues" /\ q \in upd.todo /\ q \in members /\ nr_hw_queues > 0
      /\ Built(q)
  BY Zenon DEF UpdateQueue, MapInv, Shapes
<1>1. PICK fails \in SUBSET Idx :
         /\ NewQNr(q, fails) = nr_hw_queues
         /\ q_nr' = [q_nr EXCEPT ![q] = nr_hw_queues]
         /\ MapSwqueue(q, Realloced(q, fails), TagsLeft(q, fails), nr_hw_queues)
  BY Zenon DEF UpdateQueue
<1>2. /\ upd' = [upd EXCEPT !.todo = @ \ {q}]
      /\ UNCHANGED <<nr_hw_queues, map_nr, members>>
  BY Zenon DEF UpdateQueue
<1>3. Reached(q, fails) = nr_hw_queues
  <2> SUFFICES ASSUME Reached(q, fails) # nr_hw_queues PROVE FALSE
    BY Zenon
  <2>1. /\ Reached(q, fails) \in Idx /\ Reached(q, fails) < nr_hw_queues
        /\ hctxs[q][Reached(q, fails)] = {}
    BY <1>0, ReachedWhere, Zenon DEF Shapes
  <2>2. q_nr[q] = nr_hw_queues
    BY <1>1, Zenon DEF NewQNr
  <2> QED
    BY <2>1, <2>2, <1>0, Zenon DEF Built
<1>4. PICK hs : hs = Realloced(q, fails)
  BY Zenon
<1>5. AllHctx(hs) /\ FullTo(hs, nr_hw_queues)
  BY <1>0, <1>3, <1>4, ReallocedShape, Zenon DEF AllHctx, FullTo
<1>6. PICK ts : ts = TagsLeft(q, fails)
  BY Zenon
<1>7. ts \in [Idx -> Nat] /\ ts[0] # 0 /\ Agrees(ts)
  BY <1>0, <1>3, <1>6, TagsLeftAgree, Zenon
<1>8. PICK noMem \in SUBSET Cpu :
         /\ mq_map' = Remapped(ts, noMem)
         /\ set_tags' = MappedTags(ts, Remapped(ts, noMem), nr_hw_queues)
         /\ last_tags' = last_tags + NrCpus
         /\ ctx_map' = [ctx_map EXCEPT ![q] = Remapped(ts, noMem)]
         /\ hctxs' = [hctxs EXCEPT ![q] =
               WithTags(hs, MappedTags(ts, Remapped(ts, noMem), nr_hw_queues),
                        Remapped(ts, noMem), nr_hw_queues)]
  BY <1>1, <1>4, <1>6, Zenon DEF MapSwqueue
<1>9. PICK map : map = Remapped(ts, noMem)
  BY Zenon
<1>10. PICK new : new = MappedTags(ts, map, nr_hw_queues)
  BY Zenon
<1>11. /\ mq_map' = map /\ set_tags' = new
       /\ ctx_map' = [ctx_map EXCEPT ![q] = map]
       /\ hctxs' = [hctxs EXCEPT ![q] = WithTags(hs, new, map, nr_hw_queues)]
  BY <1>8, <1>9, <1>10, Zenon
<1>12. DOMAIN hctxs' = Queue /\ hctxs'[q] = WithTags(hs, new, map, nr_hw_queues)
  BY <1>0, <1>11, Zenon DEF Shapes
<1>13. KeptBut(q)
  <2> SUFFICES ASSUME NEW p \in Queue \ {q} PROVE Kept(p)
    BY Zenon DEF KeptBut
  <2>1. hctxs'[p] = hctxs[p]
    BY <1>0, <1>11, Zenon DEF Shapes
  <2> QED
    BY <2>1, <1>0, UnchangedKept, Zenon
<1>14. members' = members \cup {q}
  BY <1>0, <1>2, Zenon
<1>15. Joins(q, hs, ts, noMem, map, new)
  BY <1>0, <1>1, <1>2, <1>5, <1>7, <1>8, <1>9, <1>10, <1>11, <1>12, <1>13, <1>14, Zenon DEF Joins
<1> QED
  BY <1>15, MapsQueue, Zenon

\* A failed growth: the queue keeps what it had; nothing is said of the map.
LEMMA FallbackStep ==
  ASSUME MapInv, NEW q \in Queue, Fallback(q)
  PROVE  MapInv'
<1>0. /\ Shapes /\ upd.pc = "queues" /\ q \in upd.todo /\ q \in members
      /\ nr_hw_queues > 0 /\ Built(q) /\ upd.prev \in 1 .. NrCpus /\ upd.prev # map_nr
  BY Zenon DEF Fallback, MapInv, Shapes
<1>1. PICK fails \in SUBSET Idx :
         /\ NewQNr(q, fails) # nr_hw_queues
         /\ q_nr' = [q_nr EXCEPT ![q] = NewQNr(q, fails)]
         /\ hctxs' = [hctxs EXCEPT ![q] = Realloced(q, fails)]
         /\ set_tags' = TagsLeft(q, fails)
  BY Zenon DEF Fallback
<1>2. /\ nr_hw_queues' = upd.prev /\ mq_map' = MapQueues(map_nr)
      /\ upd' = [upd EXCEPT !.todo = members]
      /\ UNCHANGED <<map_nr, last_tags, members, ctx_map>>
  BY Zenon DEF Fallback
<1>3. Reached(q, fails) # nr_hw_queues /\ NewQNr(q, fails) = q_nr[q] /\ q_nr' = q_nr
  BY <1>0, <1>1, Zenon DEF NewQNr, Shapes
<1>4. set_tags' \in [Idx -> Nat] /\ set_tags'[0] # 0
  BY <1>0, <1>1, TagsLeftAgree, Zenon
<1>5. DOMAIN Realloced(q, fails) = Idx
      /\ \A i \in Idx : \A h \in Realloced(q, fails)[i] : IsHctx(h)
  BY <1>0, ReallocedShape, Zenon
<1>6. \A i \in Idx : i < q_nr[q] => Realloced(q, fails)[i] # {}
  <2> SUFFICES ASSUME NEW i \in Idx, i < q_nr[q] PROVE Realloced(q, fails)[i] # {}
    BY Zenon
  <2>1. hctxs[q][i] # {} /\ i \in Nat /\ q_nr[q] \in Nat
    <3>1. hctxs[q][i] # {}
      BY <1>0, Zenon DEF Built
    <3>2. i \in Nat /\ q_nr[q] \in Nat
      BY <1>0, MapAssumption, SMTT(30) DEF Idx, Shapes
    <3> QED
      BY <3>1, <3>2, Zenon
  <2>2. i \notin GivenUp(q, fails)
    <3>1. Reached(q, fails) \in Nat
      BY <1>0, <1>3, ReachedWhere, MapAssumption, SMTT(30) DEF Shapes, Idx
    <3> QED
      BY <1>3, <2>1, <3>1, SMTT(30) DEF GivenUp
  <2> QED
    BY <2>1, <2>2, Zenon DEF Realloced
<1>7. map_nr \in 1 .. NrCpus
  BY <1>0, MapAssumption DEF Shapes
<1>8. mq_map' \in [Cpu -> Idx]
  BY <1>2, <1>7, MapQueuesFits, Zenon
<1>9. /\ DOMAIN hctxs' = Queue /\ hctxs'[q] = Realloced(q, fails)
      /\ \A p \in Queue \ {q} : hctxs'[p] = hctxs[p]
  BY <1>0, <1>1, Zenon DEF Shapes
<1>10. Shapes'
  <2>1. \A p \in Queue : DOMAIN hctxs'[p] = Idx
    BY <1>0, <1>5, <1>9, Zenon DEF Shapes
  <2>2. \A p \in Queue, i \in Idx : \A h \in hctxs'[p][i] : IsHctx(h)
    BY <1>0, <1>5, <1>9, Zenon DEF Shapes
  <2>3. upd'.pc = "queues" /\ upd'.prev = upd.prev /\ upd'.todo = members
        /\ upd' = [pc |-> "queues", prev |-> upd.prev, todo |-> members]
    BY <1>0, <1>2, Zenon DEF Shapes
  <2>4. nr_hw_queues' \in 0 .. NrCpus /\ nr_hw_queues' > 0 /\ map_nr' > 0
    BY <1>0, <1>2, <1>7, MapAssumption
  <2> QED
    BY <1>0, <1>2, <1>3, <1>4, <1>8, <1>9, <2>1, <2>2, <2>3, <2>4, Zenon DEF Shapes
<1>11. \A p \in members' : Built(p)'
  <2> SUFFICES ASSUME NEW p \in members PROVE Built(p)'
    BY <1>2, Zenon
  <2>1. Built(p) /\ p \in Queue
    BY <1>0, Zenon DEF MapInv, Shapes
  <2>2. CASE p = q
    BY <2>1, <2>2, <1>3, <1>6, <1>9, Zenon DEF Built
  <2>3. CASE p # q
    BY <2>1, <2>3, <1>3, <1>9, Zenon DEF Built
  <2> QED
    BY <2>2, <2>3, Zenon
<1>12. nr_hw_queues' > 0 /\ map_nr' # nr_hw_queues'
  BY <1>0, <1>2, MapAssumption
<1> QED
  BY <1>4, <1>10, <1>11, <1>12, Zenon DEF MapInv

\* The end of an update: every queue has had its turn.
LEMMA UpdateEndStep ==
  ASSUME MapInv, UpdateEnd
  PROVE  MapInv'
<1>1. /\ upd' = NoUpd /\ upd.todo = {}
      /\ UNCHANGED <<nr_hw_queues, map_nr, mq_map, set_tags, last_tags, members,
                     q_nr, hctxs, ctx_map>>
  BY Zenon DEF UpdateEnd, setVars, qVars
<1>2. Shapes'
  BY <1>1, Zenon DEF MapInv, Shapes, NoUpd
<1> QED
  BY <1>1, <1>2 DEF MapInv, Built, Served, NoUpd

\* Steps of the rest of the system.
LEMMA MapStutter ==
  ASSUME MapInv, UNCHANGED mapVars
  PROVE  MapInv'
BY SMTT(30) DEF mapVars, setVars, qVars, MapInv, Shapes, Built, Served

\* Every step of BlkMap keeps the invariant.
LEMMA MapSteps ==
  ASSUME MapInv, [MapNext]_mapVars
  PROVE  MapInv'
BY AllocTagSetStep, FreeTagSetStep, InitQueueStep, ExitQueueStep, UpdateQueueStep,
   FallbackStep, UpdateStartStep, UpdateEndStep, MapStutter, Zenon DEF MapNext

\* The invariant gives the property.
LEMMA MapInvServes == MapInv => EveryCpuMapped
<1> SUFFICES ASSUME MapInv, upd.pc = "idle", MapMatchesQueues,
                    NEW q \in members, NEW c \in Cpu
             PROVE  LET i == ctx_map[q][c]
                    IN  /\ i < q_nr[q] /\ q_nr[q] = nr_hw_queues
                        /\ \E h \in hctxs[q][i] : h.tags # 0 /\ h.tags = set_tags[i]
  BY Zenon DEF EveryCpuMapped
<1>1. nr_hw_queues > 0 /\ map_nr = nr_hw_queues /\ q \in members \ upd.todo
  BY Zenon DEF MapInv, Shapes, MapMatchesQueues
<1>2. Served(q) /\ mq_map[c] < nr_hw_queues
  BY <1>1, Zenon DEF MapInv
<1> QED
  BY <1>2, Zenon DEF Served

\* Whatever allocations fail in blk_mq_realloc_hw_ctxs and blk_mq_map_swqueue,
\* and in whatever order queues join, leave and are updated, every CPU of every
\* queue is mapped to a hctx that exists and has the set's live tags, for any
\* queues, CPUs and nodes, unless the last update fell back.
THEOREM EveryCpuMappedCorrect == MapSpec => []EveryCpuMapped
<1>1. MapInv /\ [MapNext]_mapVars => MapInv'
  BY MapSteps, Zenon
<1> QED
  BY <1>1, MapInitial, MapInvServes, PTL DEF MapSpec

\* Without the fallback of __blk_mq_update_nr_hw_queues the map given to the
\* drivers always has the number of queues of the set: the fallback is the one
\* way to the exception of EveryCpuMapped.
THEOREM MapMatches == ~GrowFails => (MapSpec => []MapMatchesQueues)
<1> SUFFICES ASSUME ~GrowFails PROVE MapSpec => []MapMatchesQueues
  BY Zenon
<1> DEFINE I == map_nr = nr_hw_queues
<1>1. MapInit => I
  BY Zenon DEF MapInit
<1>2. I /\ [MapNext]_mapVars => I'
  <2> SUFFICES ASSUME I, [MapNext]_mapVars PROVE I'
    BY Zenon
  <2>1. \A q \in Queue : ~Fallback(q)
    BY Zenon DEF Fallback
  <2>2. CASE AllocTagSet
    BY <2>2 DEF AllocTagSet, setVars
  <2>3. CASE FreeTagSet
    BY <2>3, Zenon DEF FreeTagSet
  <2>4. ASSUME NEW q \in Queue, InitQueue(q) PROVE I'
    <3>1. UNCHANGED setVars \/ UNCHANGED <<nr_hw_queues, map_nr, queue_depth>>
      BY <2>4, Zenon DEF InitQueue
    <3> QED
      BY <3>1, Zenon DEF setVars
  <2>5. ASSUME NEW q \in Queue, ExitQueue(q) PROVE I'
    BY <2>5, Zenon DEF ExitQueue, setVars
  <2>6. ASSUME NEW q \in Queue, UpdateQueue(q) PROVE I'
    BY <2>6, Zenon DEF UpdateQueue
  <2>7. ASSUME NEW n \in 1 .. NrCpus + 1, UpdateStart(n) PROVE I'
    BY <2>7, Zenon DEF UpdateStart
  <2>8. CASE UpdateEnd
    BY <2>8, Zenon DEF UpdateEnd, setVars
  <2>9. CASE UNCHANGED mapVars
    BY <2>9, Zenon DEF mapVars, setVars
  <2> QED
    BY <2>1, <2>2, <2>3, <2>4, <2>5, <2>6, <2>7, <2>8, <2>9, Zenon DEF MapNext
<1>3. I => MapMatchesQueues
  BY Zenon DEF MapMatchesQueues
<1> QED
  BY <1>1, <1>2, <1>3, PTL DEF MapSpec
=============================================================================
