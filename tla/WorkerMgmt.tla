----------------------------- MODULE WorkerMgmt ------------------------------
(***************************************************************************)
(* The endpoints the workers call, with the workers that call them.  The   *)
(* handlers of heartbeat and complete are coroutines without an await that *)
(* suspends: each keeps the event loop from its first statement to its     *)
(* last.  pull_job runs in a thread of its own.                            *)
(***************************************************************************)
EXTENDS WorkerRegistry, WorkerRuntime, EventLoop

VARIABLE completing   \* the report complete_job is handling, or None

HeartbeatCall == [pc : HeartbeatStates,
                  job : JobIds \cup {None},     \* current_job_id of the payload
                  row : LoadedRow]              \* the row the handler loaded
NoHeartbeat == [pc |-> "none", job |-> None, row |-> NothingLoaded]

MgmtInit ==
    /\ RuntimeInit
    /\ hb = [w \in Workers |-> NoHeartbeat]
    /\ completing = None

-----------------------------------------------------------------------------
(* Heartbeats                                                              *)

SendHeartbeat(w) ==
    /\ hb[w].pc = "none"
    /\ hb' = [hb EXCEPT ![w] = [NoHeartbeat EXCEPT !.pc = "sent", !.job = ActiveJob(w)]]
    /\ UNCHANGED <<workers, jobs, runner, reports, loop, completing>>

LoseHeartbeat(w) ==
    /\ hb[w].pc = "sent"
    /\ hb' = [hb EXCEPT ![w] = NoHeartbeat]
    /\ UNCHANGED <<workers, jobs, runner, reports, loop, completing>>

(* upsert_worker loads the row ...                                         *)
LoadWorker(w) ==
    /\ hb[w].pc = "sent"
    /\ Acquire(Heartbeat(w))
    /\ hb' = [hb EXCEPT ![w].pc = "loaded", ![w].row = Loaded(w)]
    /\ UNCHANGED <<workers, jobs, runner, reports, completing>>

(* ... and commits the columns that differ.                                *)
CommitHeartbeat(w) ==
    /\ hb[w].pc = "loaded"
    /\ Holding(Heartbeat(w))
    /\ UpsertWorker(w, hb[w].row, hb[w].job)
    /\ hb' = [hb EXCEPT ![w].pc = "committed", ![w].row = NothingLoaded]
    /\ UNCHANGED <<jobs, runner, reports, completing>>

FinishHeartbeat(w) ==
    /\ hb[w].pc = "committed"
    /\ Release(Heartbeat(w))
    /\ ReplaceModels(w)
    /\ hb' = [hb EXCEPT ![w] = NoHeartbeat]
    /\ UNCHANGED <<jobs, runner, reports, completing>>

HeartbeatRaises(w) ==
    /\ hb[w].pc \in {"loaded", "committed"}
    /\ Release(Heartbeat(w))
    /\ hb' = [hb EXCEPT ![w] = NoHeartbeat]
    /\ UNCHANGED <<workers, jobs, runner, reports, completing>>

HeartbeatStep(w) == LoadWorker(w) \/ CommitHeartbeat(w) \/ FinishHeartbeat(w)

-----------------------------------------------------------------------------
(* Jobs                                                                    *)

(* POST /internal/job/pull: the lease is committed, the answer on its way. *)
Pull(w) ==
    /\ runner[w].pc = "idle"
    /\ \E r \in Requests :
         /\ NextForWorker(w, r)
         /\ Lease(r)
         /\ runner' = [runner EXCEPT ![w] = [pc |-> "pulling", job |-> r]]
    /\ UNCHANGED <<workers, hb, reports, loop, completing>>

(* POST /internal/job/complete: the outcome is committed ...               *)
Complete(m) ==
    /\ m \in reports
    /\ Acquire(<<"complete", m.worker>>)
    /\ CompleteJob(m)
    /\ reports' = reports \ {m}
    /\ completing' = m
    /\ UNCHANGED <<workers, runner, hb>>

(* The answer reaches the worker, if it still waits for it: finish_job.    *)
Answer(m) ==
    LET w == m.worker IN
      \/ Awaits(w, m) /\ runner' = [runner EXCEPT ![w] = RunnerIdle]
      \/ ~Awaits(w, m) /\ UNCHANGED runner

(* ... then clear_job_if_matches reads the worker's row ...                *)
CompleteMatches ==
    /\ completing # None
    /\ Matches(completing.worker, JobId(completing.req))
    /\ loop = <<"complete", completing.worker>>
    /\ loop' = <<"unset", completing.worker>>
    /\ UNCHANGED <<workers, jobs, runner, reports, hb, completing>>

CompleteKeeps ==
    /\ completing # None
    /\ ~Matches(completing.worker, JobId(completing.req))
    /\ Release(<<"complete", completing.worker>>)
    /\ Answer(completing)
    /\ completing' = None
    /\ UNCHANGED <<workers, jobs, reports, hb>>

(* ... and, if it held this job, writes it.                                *)
CompleteClears ==
    /\ completing # None
    /\ Release(<<"unset", completing.worker>>)
    /\ WriteCurrentJob(completing.worker, None)
    /\ Answer(completing)
    /\ completing' = None
    /\ UNCHANGED <<jobs, reports, hb>>

(* Neither the report the loop of w waits on nor an answer is under way.   *)
NothingComes(w) ==
    /\ \A m \in reports : ~Awaits(w, m)
    /\ completing # None => ~Awaits(w, completing)

(* The call of complete raises in the worker.  An answer that is lost and  *)
(* one that comes after the timeout are the same to it.                    *)
CompleteRaises(w) ==
    /\ ReportErrorInstead(w) \/ DropError(w)
    /\ UNCHANGED <<workers, jobs, loop, completing>>

RunnerStep(w) ==
    /\ StartJob(w) \/ InferenceOk(w) \/ InferenceError(w)
    /\ UNCHANGED <<workers, jobs, loop, completing>>

LoseCall(w) ==
    /\ LosePullReply(w) \/ LoseReport
    /\ UNCHANGED <<workers, jobs, loop, completing>>

CompleteStep == \/ \E m \in reports : Complete(m)
                \/ CompleteMatches \/ CompleteKeeps \/ CompleteClears

(* The worker process dies; what it has sent stays in flight.              *)
WorkerCrash(w) ==
    /\ runner[w].pc # "idle"
    /\ runner' = [runner EXCEPT ![w] = RunnerIdle]
    /\ UNCHANGED <<workers, jobs, hb, reports, loop, completing>>
=============================================================================
