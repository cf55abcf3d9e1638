------------------------------ MODULE Dispatch -------------------------------
(***************************************************************************)
(* The dispatch core of one server node with its workers: the three tables *)
(* and the processes that read and write them, interleaved statement by    *)
(* statement.                                                              *)
(***************************************************************************)
EXTENDS ChatCompletions, RequestAssigner, HeartbeatChecker, WorkerMgmt

VARIABLE budget   \* how many more faults may occur

tables == <<reqs, workers, jobs>>
mgmtVars == <<runner, hb, reports, completing>>
vars == <<reqs, workers, jobs, loop, chat, asg, cln, runner, hb, reports, completing, budget>>

Init ==
    /\ RequestQueueInit /\ WorkerRegistryInit /\ JobQueueInit /\ EventLoopInit
    /\ ChatInit /\ AssignerInit /\ CleanerInit /\ MgmtInit
    /\ budget = MaxFaults

-----------------------------------------------------------------------------
(* What the processes do when nothing fails.                               *)

ChatMove(r) == ChatStep(r) /\ UNCHANGED <<asg, cln, mgmtVars, budget>>

AssignerMove == AssignerStep /\ UNCHANGED <<jobs, loop, chat, cln, mgmtVars, budget>>

CleanerMove == CleanerStep /\ UNCHANGED <<jobs, loop, chat, asg, mgmtVars, budget>>

HeartbeatSend(w) == SendHeartbeat(w) /\ UNCHANGED <<reqs, chat, asg, cln, budget>>
HeartbeatMove(w) == HeartbeatStep(w) /\ UNCHANGED <<reqs, chat, asg, cln, budget>>

RunnerMove(w) ==
    /\ RunnerStep(w) \/ Pull(w) \/ (NothingComes(w) /\ CompleteRaises(w))
    /\ UNCHANGED <<reqs, chat, asg, cln, budget>>

CompleteMove == CompleteStep /\ UNCHANGED <<reqs, chat, asg, cln, budget>>

-----------------------------------------------------------------------------
(* Faults.                                                                 *)

CallLost(w) ==
    /\ "loss" \in Faults
    /\ LoseCall(w) \/ LoseHeartbeat(w) \/ CompleteRaises(w)
    /\ UNCHANGED <<reqs, chat, asg, cln>>

WorkerDies(w) ==
    /\ "worker" \in Faults
    /\ WorkerCrash(w)
    /\ UNCHANGED <<reqs, chat, asg, cln>>

StatementRaises ==
    /\ "db" \in Faults
    /\ \/ BatchRaises /\ UNCHANGED <<jobs, loop, chat, cln, mgmtVars>>
       \/ CleanupRaises /\ UNCHANGED <<jobs, loop, chat, asg, mgmtVars>>
       \/ \E r \in Requests : HandlerRaises(r) /\ UNCHANGED <<asg, cln, mgmtVars>>
       \/ \E w \in Workers : HeartbeatRaises(w) /\ UNCHANGED <<reqs, chat, asg, cln>>

HeartbeatOverdue(w) ==
    /\ "stale" \in Faults
    /\ GrowStale(w)
    /\ UNCHANGED <<reqs, jobs, loop, chat, asg, cln, mgmtVars>>

(* The server process dies and is started again on the same database: the  *)
(* handlers, the batch and the cleanup are gone, the rows are not.         *)
ServerCrash ==
    /\ "server" \in Faults
    /\ \E r \in Requests : chat[r].pc \notin {"new", "done", "lost"}
    /\ ChatsLost
    /\ loop' = Free
    /\ asg' = AsgIdle
    /\ cln' = ClnIdle
    /\ hb' = [w \in Workers |-> IF hb[w].pc = "sent" THEN hb[w] ELSE NoHeartbeat]
    /\ completing' = None
    /\ UNCHANGED <<tables, runner, reports>>

Fault ==
    /\ budget > 0
    /\ budget' = budget - 1
    /\ \/ \E w \in Workers : CallLost(w) \/ WorkerDies(w) \/ HeartbeatOverdue(w)
       \/ StatementRaises
       \/ ServerCrash

Next ==
    \/ \E r \in Requests : ChatMove(r)
    \/ AssignerMove
    \/ CleanerMove
    \/ \E w \in Workers : HeartbeatSend(w) \/ HeartbeatMove(w) \/ RunnerMove(w)
    \/ CompleteMove
    \/ Fault

Spec == Init /\ [][Next]_vars

(***************************************************************************)
(* Fairness.  A coroutine that holds the event loop runs on to its next    *)
(* await, and asyncio serves the runnable coroutines in turn (SF: a step   *)
(* that needs the loop is enabled only when it is free).  The background   *)
(* jobs fire at their interval, deadlines are reached, the loops of a      *)
(* worker go round, and inference ends.                                    *)
(***************************************************************************)
Fairness ==
    /\ \A r \in Requests : SF_vars(ChatMove(r))
    /\ WF_vars(AssignerMove)
    /\ WF_vars(CleanerMove)
    /\ \A w \in Workers : /\ WF_vars(HeartbeatSend(w)) /\ SF_vars(HeartbeatMove(w))
                          /\ WF_vars(RunnerMove(w))
    /\ SF_vars(CompleteMove)

FairSpec == Spec /\ Fairness

-----------------------------------------------------------------------------
(* Types                                                                   *)

TypeOK ==
    /\ reqs \in [Requests -> ReqRow]
    /\ workers \in [Workers -> WorkerRow]
    /\ jobs \in [Requests -> JobRow]
    /\ loop \in LoopHolders
    /\ chat \in [Requests -> Handler]
    /\ asg \in Assigner
    /\ cln \in Cleaner
    /\ runner \in [Workers -> Runner]
    /\ hb \in [Workers -> HeartbeatCall]
    /\ reports \in SUBSET Reports
    /\ completing \in Reports \cup {None}
    /\ budget \in Nat
=============================================================================
