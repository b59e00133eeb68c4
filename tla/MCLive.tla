------------------------------- MODULE MCLive -------------------------------
(***************************************************************************)
(* Instances for TLC of the modules that promise progress.  A behaviour is *)
(* one of one part; the fairness of the others is met by their standing    *)
(* still, as nothing they are fair to can happen in their initial states.  *)
(* BlkRequest is extended, not instantiated: Live.cfg gives it one request *)
(* and two freezers.                                                       *)
(***************************************************************************)
EXTENDS Integers, Sequences, FiniteSets, BlkRequest

VARIABLES
    part,
    nr_active, nr_req, L_metric, param, changes, pc, cur_cpu, nr_cpus, i,
    T_active, L_read, min_nr, min_active, target_cpu, two_cpu, two_nr, seen,
    p_pc, p_state, request, slept, p_expired, stats, cb, sampled, misses,
    c_state, count, alloc, live, async, sets, quiesced, nr_hw, req, cmd, work, prog,
    nr_reconnects, fault, errors, resets, hung,
    legacy, send_list, i_nr_req, timer, i_work, i_io, i_pending, i_request, i_stage, i_caravan,
    mapped, i_send_now, wire, i_last, i_nospace, rsp, i_pc, at, loaded, i_state, fails,
    mode, t_state, rcv, cur, got, t_cmd, free, exec, resp, snd, stage, caravan, ccmds,
    send_now, out, nospace, in, tx, last, host, t_work, io, pending, ret, rel, barrier,
    closed, fatal, issued, bad

steerVars == <<nr_active, nr_req, L_metric, param, changes, pc, cur_cpu, nr_cpus,
               i, T_active, L_read, min_nr, min_active, target_cpu, two_cpu, two_nr,
               seen>>
pollVars == <<p_pc, p_state, request, slept, p_expired, stats, cb, sampled, misses>>
ctrlVars == <<c_state, count, alloc, live, async, sets, quiesced, nr_hw, req, cmd, work, prog,
              nr_reconnects, fault, errors, resets, hung>>
i10Vars == <<legacy, send_list, i_nr_req, timer, i_work, i_io, i_pending, i_request, i_stage,
             i_caravan, mapped, i_send_now, wire, i_last, i_nospace, rsp, i_pc, at, loaded,
             i_state, fails>>
targetVars == <<mode, t_state, rcv, cur, got, t_cmd, free, exec, resp, snd, stage, caravan,
                ccmds, send_now, out, nospace, in, tx, last, host, t_work, io, pending, ret,
                rel, barrier, closed, fatal, issued, bad>>
blockVars == <<steerVars, vars, pollVars>>
mcVars == <<part, blockVars, ctrlVars, i10Vars, targetVars>>

Load(active) == [active |-> active, req |-> 0, L |-> 0]
\* Two cores of one node, idle or busy, and a parameter that is rewritten.
Steer == INSTANCE ReqSteering WITH Thread <- {"t1"},
    NrCpus <- 2, NrNodes <- 1, NodeOf <- [c \in {0, 1} |-> 0], Params <- {0, 1},
    ThreshB <- 1, Batch <- 3, MinNr <- 1024, MinActive <- 2048, Depth <- 3,
    Loads <- {Load(0), Load(3)}, MaxChanges <- 1
\* Two tasks that poll one queue.
Poll == INSTANCE BlkPoll WITH pc <- p_pc, state <- p_state, expired <- p_expired,
    Task <- {"t1", "t2"}, PollNsec <- "half", MaxMisses <- 1

\* Two I/O queues; one error, one reset, two attempts to reconnect.
Ctrl == INSTANCE NvmeTcpCtrl WITH state <- c_state, NrIo <- 2, Grants <- {2}, Req <- {"r1"},
    MaxReconnects <- 2, MaxErrors <- 1, MaxResets <- 1, MaxHung <- 0, Icdoff <- {FALSE}
\* A read and a write, delayed until two are in the caravan or the timer fires.
I10 == INSTANCE I10Queue WITH nr_req <- i_nr_req, work <- i_work, io <- i_io,
    pending <- i_pending, request <- i_request, stage <- i_stage, caravan <- i_caravan,
    send_now <- i_send_now, last <- i_last, nospace <- i_nospace, pc <- i_pc,
    state <- i_state, Req <- {"a", "b"}, Kind <- [a |-> "read", b |-> "inline"], DataLen <- 2,
    Submitter <- {"s1"}, By <- [r \in {"a", "b"} |-> "s1"], Agg <- 2, Cap <- 2, SndBuf <- 2,
    SameCpu <- TRUE, Legacies <- {FALSE}, MaxFail <- 0
\* A read and a write in a caravan of two pieces.
Target == INSTANCE TargetQueue WITH state <- t_state, cmd <- t_cmd, work <- t_work,
    Id <- {1, 2}, Kinds <- {"read", "write"}, DataLen <- 2, Modes <- {<<TRUE, FALSE>>},
    Cap <- 2, SndBuf <- 2, MaxIssue <- 2, MaxBad <- 0, MaxClose <- 0

MCInit ==
    /\ part \in {"steer", "request", "poll", "ctrl", "i10", "target"}
    /\ Steer!Init
    /\ part # "steer" => param = 0 /\ \A c \in {0, 1} : nr_active[c] = 0
    /\ Init
    /\ Poll!Init
    /\ Ctrl!Init /\ I10!Init /\ Target!Init

MCNext ==
    /\ part' = part
    /\ \/ part = "steer" /\ Steer!Next /\ UNCHANGED <<vars, pollVars, ctrlVars, i10Vars, targetVars>>
       \/ part = "request" /\ Next /\ UNCHANGED <<steerVars, pollVars, ctrlVars, i10Vars, targetVars>>
       \/ part = "poll" /\ Poll!Next /\ UNCHANGED <<steerVars, vars, ctrlVars, i10Vars, targetVars>>
       \/ part = "ctrl" /\ Ctrl!Next /\ UNCHANGED <<blockVars, i10Vars, targetVars>>
       \/ part = "i10" /\ I10!Next /\ UNCHANGED <<blockVars, ctrlVars, targetVars>>
       \/ part = "target" /\ Target!Next /\ UNCHANGED <<blockVars, ctrlVars, i10Vars>>

\* The fairness of the modules, for the part that runs.
SteerFairness == WF_steerVars(part = "steer" /\ pc["t1"] # "idle" /\ Steer!Steer("t1"))
PollFairness ==
    /\ WF_pollVars(part = "poll" /\ Poll!PollStatsFn)
    /\ \A t \in {"t1", "t2"} :
          /\ WF_pollVars(part = "poll" /\ p_pc[t] # "submit" /\ Poll!TaskStep(t))
          /\ WF_pollVars(part = "poll" /\ Poll!SleeperFires(t))
          /\ WF_pollVars(part = "poll" /\ Poll!EndIo(t))
          /\ WF_pollVars(part = "poll" /\ Poll!Hardware(t))
CtrlFairness ==
    /\ \A w \in Ctrl!Worker : WF_ctrlVars(part = "ctrl" /\ Ctrl!WorkerStep(w))
    /\ WF_ctrlVars(part = "ctrl" /\ Ctrl!StartRequest("r1"))
    /\ WF_ctrlVars(part = "ctrl" /\ Ctrl!Answer)
    /\ WF_ctrlVars(part = "ctrl" /\ Ctrl!Timeout)
I10Fairness ==
    /\ \A a \in I10!Actor : WF_i10Vars(part = "i10" /\ I10!Runs /\ I10!QueueRequest(a))
    /\ WF_i10Vars(part = "i10" /\ I10!Runs /\ I10!IoWork)
    /\ WF_i10Vars(part = "i10" /\ I10!Timer)
    /\ WF_i10Vars(part = "i10" /\ I10!TargetReads)
    /\ WF_i10Vars(part = "i10" /\ I10!WriteSpace)
TargetFairness ==
    /\ WF_targetVars(part = "target" /\ Target!DataReady)
    /\ WF_targetVars(part = "target" /\ Target!HostReads)
    /\ WF_targetVars(part = "target" /\ Target!WriteSpace)
    /\ WF_targetVars(part = "target" /\ Target!IoWork)
    /\ WF_targetVars(part = "target" /\ Target!Release)
    /\ \A s \in Target!Slot : WF_targetVars(part = "target" /\ Target!Complete(s))

MCSpec == MCInit /\ [][MCNext]_mcVars /\ SteerFairness /\ Fairness /\ PollFairness
          /\ CtrlFairness /\ I10Fairness /\ TargetFairness

-----------------------------------------------------------------------------
\* ReqSteering: steering always decides, the draw of two cores included.
SteeringEnds == Steer!SteeringEnds

\* BlkPoll: a polled request comes back although only polling finds it.
PolledReturns == Poll!PolledReturns

\* NvmeTcpCtrl: after an error or a reset a controller is live again or gone.
Settles == part = "ctrl" => Ctrl!Settles

\* I10Queue, TargetQueue: no command and no answer is stranded in a caravan.
EveryRequestAnswered == I10!EveryRequestAnswered /\ Target!TargetAnswers
=============================================================================
