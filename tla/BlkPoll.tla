------------------------------ MODULE BlkPoll ------------------------------
(***************************************************************************)
(* Polled completion in blk-mq.c: blk_poll, with the hybrid sleep and the  *)
(* service times it is derived from.                                       *)
(*                                                                         *)
(* A polled queue raises no interrupt: a completion is found only by a     *)
(* task that polls.  The caller is external (the direct I/O loop): it      *)
(* marks itself uninterruptible, tests whether its request is done, polls, *)
(* and sleeps in io_schedule when blk_poll returns 0.  Requests share one  *)
(* completion queue, so one task completes and wakes another.              *)
(***************************************************************************)
EXTENDS Naturals, FiniteSets

CONSTANTS
    Task,       \* tasks, each waiting for one request
    PollNsec,   \* q->poll_nsec: "classic", "half" (0) or "fixed" (> 0)
    MaxMisses   \* bound: times a task must reschedule or misses a poll

VARIABLES
    pc,         \* place of each task
    state,      \* current->state: "running" or "blocked"
    request,    \* of each task: "hw", "cq" (posted), "complete", "done"
    slept,      \* RQF_MQ_POLL_SLEPT
    expired,    \* the sleeper's timer has fired (hs.task is NULL)
    stats,      \* QUEUE_FLAG_POLL_STATS
    cb,         \* the statistics callback: "off", "idle" or "active"
    sampled,    \* the bucket has a mean
    misses

vars == <<pc, state, request, slept, expired, stats, cb, sampled, misses>>
statVars == <<stats, cb, sampled>>

Init ==
    /\ pc = [t \in Task |-> "submit"] /\ state = [t \in Task |-> "running"]
    /\ request = [t \in Task |-> "hw"] /\ slept = {} /\ expired = {}
    /\ stats = FALSE /\ cb = "off" /\ sampled = FALSE
    /\ misses = [t \in Task |-> 0]

Goto(t, place) == pc' = [pc EXCEPT ![t] = place]
Running(t) == state' = [state EXCEPT ![t] = "running"]

\* blk_mq_poll_stats_start, called for every submitted bio.
PollStatsStart(t) ==
    /\ pc[t] = "submit" /\ Goto(t, "check")
    /\ cb' = IF stats /\ cb = "idle" THEN "active" ELSE cb
    /\ UNCHANGED <<state, request, slept, expired, stats, sampled, misses>>

\* blk_mq_poll_stats_fn: the window of 100 ms is over.
PollStatsFn ==
    /\ cb = "active" /\ cb' = "idle"
    /\ sampled' = (sampled \/ \E t \in Task : request[t] = "done")
    /\ UNCHANGED <<pc, state, request, slept, expired, stats, misses>>

\* The caller marks itself as blocked first, ...
Block(t) ==
    /\ pc[t] = "check" /\ Goto(t, "test")
    /\ state' = [state EXCEPT ![t] = "blocked"]
    /\ UNCHANGED <<request, slept, expired, statVars, misses>>

\* ... then tests, so that a wake-up in between is not lost, and polls.
Test(t) ==
    /\ pc[t] = "test"
    /\ IF request[t] = "done" THEN Goto(t, "return") /\ Running(t)
       ELSE Goto(t, "hybrid") /\ UNCHANGED state
    /\ UNCHANGED <<request, slept, expired, statVars, misses>>

\* blk_mq_poll_nsecs: without statistics there is no sleep, but they are
\* turned on (blk_poll_stats_enable); without samples there is none either.
PollNsecs == CASE PollNsec = "fixed" -> TRUE
               [] PollNsec = "half" -> stats /\ sampled
               [] OTHER -> FALSE

\* blk_mq_poll_hybrid and the entry of blk_mq_poll_hybrid_sleep.  A request
\* that is done has given its tag back.
PollHybrid(t) ==
    /\ pc[t] = "hybrid"
    /\ IF PollNsec # "classic" /\ t \notin slept /\ request[t] # "done" /\ PollNsecs
       THEN Goto(t, "sleep") /\ slept' = slept \cup {t} /\ expired' = expired \ {t}
       ELSE Goto(t, "spin") /\ UNCHANGED <<slept, expired>>
    /\ IF PollNsec = "half" /\ t \notin slept /\ ~stats
       THEN stats' = TRUE /\ cb' = "idle"
       ELSE UNCHANGED <<stats, cb>>
    /\ UNCHANGED <<state, request, sampled, misses>>

\* The sleep: until the request is complete or the timer has fired; a wake-up
\* before that sleeps again.  Then blk_poll returns 1.
HybridSleep(t) ==
    /\ pc[t] = "sleep"
    /\ IF request[t] \in {"complete", "done"} \/ t \in expired
       THEN Goto(t, "check") /\ Running(t)
       ELSE state' = [state EXCEPT ![t] = "blocked"] /\ Goto(t, "asleep")
    /\ UNCHANGED <<request, slept, expired, statVars, misses>>

Asleep(t) ==
    /\ pc[t] = "asleep" /\ state[t] = "running"
    /\ Goto(t, "sleep")
    /\ UNCHANGED <<state, request, slept, expired, statVars, misses>>

SleeperFires(t) ==
    /\ pc[t] \in {"sleep", "asleep"} /\ t \notin expired
    /\ expired' = expired \cup {t} /\ Running(t)
    /\ UNCHANGED <<pc, request, slept, statVars, misses>>

\* Completing what the poll found: blk_mq_complete_request marks a request,
\* its end_io wakes the task that waits for it.
Posted == {t \in Task : request[t] = "cq"}

\* Mutant: a poll that finds nothing leaves the task marked as blocked.
Poll_StaysBlocked(t) ==
    /\ pc[t] = "spin"
    /\ \/ /\ Posted # {}
          /\ request' = [u \in Task |-> IF u \in Posted THEN "complete" ELSE request[u]]
          /\ Goto(t, "check") /\ Running(t) /\ UNCHANGED misses
       \/ /\ Posted = {} /\ state[t] = "running"
          /\ Goto(t, "check") /\ UNCHANGED <<state, request, misses>>
       \/ /\ Posted = {} /\ state[t] = "blocked" /\ misses[t] < MaxMisses
          /\ misses' = [misses EXCEPT ![t] = @ + 1]
          /\ Goto(t, "schedule") /\ UNCHANGED <<state, request>>
    /\ UNCHANGED <<slept, expired, statVars>>

\* The busy loop of blk_poll: it returns what it found; it returns 1 if
\* somebody woke the task; otherwise it goes on, or is told to reschedule (or
\* the driver's poll fails) and returns 0, runnable.
Poll(t) ==
    /\ pc[t] = "spin"
    /\ \/ /\ Posted # {}
          /\ request' = [u \in Task |-> IF u \in Posted THEN "complete" ELSE request[u]]
          /\ Goto(t, "check") /\ Running(t) /\ UNCHANGED misses
       \/ /\ Posted = {} /\ state[t] = "running"
          /\ Goto(t, "check") /\ UNCHANGED <<state, request, misses>>
       \/ /\ Posted = {} /\ state[t] = "blocked" /\ misses[t] < MaxMisses
          /\ misses' = [misses EXCEPT ![t] = @ + 1]
          /\ Goto(t, "schedule") /\ Running(t) /\ UNCHANGED request
    /\ UNCHANGED <<slept, expired, statVars>>

\* io_schedule in the caller.
Schedule(t) ==
    /\ pc[t] = "schedule" /\ state[t] = "running"
    /\ Goto(t, "check")
    /\ UNCHANGED <<state, request, slept, expired, statVars, misses>>

\* The rest of the completion, possibly on another CPU.
EndIo(t) ==
    /\ request[t] = "complete"
    /\ request' = [request EXCEPT ![t] = "done"] /\ Running(t)
    /\ UNCHANGED <<pc, slept, expired, statVars, misses>>

\* The device posts a completion.
Hardware(t) ==
    /\ request[t] = "hw" /\ pc[t] # "submit"
    /\ request' = [request EXCEPT ![t] = "cq"]
    /\ UNCHANGED <<pc, state, slept, expired, statVars, misses>>

TaskStep(t) ==
    \/ PollStatsStart(t) \/ Block(t) \/ Test(t) \/ PollHybrid(t)
    \/ HybridSleep(t) \/ Asleep(t) \/ Poll(t) \/ Schedule(t)

Next == \/ PollStatsFn
        \/ \E t \in Task : TaskStep(t) \/ SleeperFires(t) \/ EndIo(t) \/ Hardware(t)

Spec == Init /\ [][Next]_vars

\* A runnable task runs, a timer fires, the device answers what it was sent.
Fairness ==
    /\ WF_vars(PollStatsFn)
    /\ \A t \in Task :
          /\ WF_vars(pc[t] # "submit" /\ TaskStep(t)) /\ WF_vars(SleeperFires(t))
          /\ WF_vars(EndIo(t)) /\ WF_vars(Hardware(t))

FairSpec == Spec /\ Fairness

-----------------------------------------------------------------------------
(* Properties *)

\* A polled request comes back although nothing but polling finds its
\* completion: whatever puts the task to sleep (the hybrid sleep, a poll that
\* must reschedule, a request completed by the poll of another task) also
\* wakes it, and it polls again.
PolledReturns == \A t \in Task : (pc[t] = "check") ~> (pc[t] = "return")
=============================================================================
