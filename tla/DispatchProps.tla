---------------------------- MODULE DispatchProps ----------------------------
(***************************************************************************)
(* What the dispatch core is meant to guarantee.                           *)
(***************************************************************************)
EXTENDS Dispatch

-----------------------------------------------------------------------------
(* Safety                                                                  *)

(* A worker only ever handles a job that pull_job leased to it: the row    *)
(* names this worker and has left "pending" for good, whatever was lost,   *)
(* delayed or restarted on the way.  Two workers never run the same job.   *)
ExecutionMatchesLease ==
    \A w \in Workers : runner[w].job # None =>
        /\ jobs[runner[w].job].worker = w
        /\ jobs[runner[w].job].status \in Leased

(* The registry says that a worker holds job r only if the handler of r    *)
(* has bound this very worker: neither a late heartbeat nor a retry of a   *)
(* handler, a report or a batch can put a job on a second worker.          *)
JobHeldByItsWorker ==
    \A w \in Workers, r \in Requests :
        workers[w].current_job_id = JobId(r) => chat[r].worker = w

(* A batch reserves no worker that it has bound to an earlier request of   *)
(* its own, not even for another model and after a heartbeat has wiped the *)
(* first reservation (claimed_workers).                                    *)
BatchClaimsOnce ==
    asg.pc \in {"reserved", "loaded"} => asg.worker \notin asg.given

(* FIFO within a model: a request is bound only when those of its model    *)
(* that came before it and still wait are bound too.                       *)
FifoWithinModel ==
    \A q, r \in Requests :
        q < r /\ ModelOf[q] = ModelOf[r] /\ reqs[r].status = "assigned" /\ HasRow(q)
            => reqs[q].status = "assigned"

(* The row of a request lives exactly as long as its handler; a row is     *)
(* left without one only by a crash of the server or by a failing cleanup. *)
RowTracksHandler ==
    \A r \in Requests :
        /\ HasRow(r) => chat[r].pc \notin {"new", "done"}
        /\ chat[r].pc \notin {"new", "done", "lost"} => HasRow(r)

(* A job goes from pending to running to done or failed; it is never       *)
(* leased again, is never completed before it was leased, and never        *)
(* changes hands.                                                          *)
JobStep(j, k) ==
    \/ k = j
    \/ j.status = "absent" /\ k.status = "pending"
    \/ j.status = "pending" /\ k.status = "running" /\ k.worker = j.worker
    \/ j.status \in Leased /\ k.status \in Terminal /\ k.worker = j.worker

JobLifecycle == [][\A r \in Requests : JobStep(jobs[r], jobs'[r])]_jobs

(* The dispatch core implements RequestLife: through all tables, messages, *)
(* losses and restarts, a request is bound once, handed out once and to    *)
(* that worker only, and answered by what was reported; one that was       *)
(* turned down or relayed never runs here.  The binding is the handler's,  *)
(* from the moment it has read it.                                         *)
Outcome(r) == CASE jobs[r].status = "running" -> "running"
                [] jobs[r].status = "done" -> jobs[r].output
                [] jobs[r].status = "failed" -> "failed"
                [] OTHER -> "open"
Bound == [r \in Requests |-> chat[r].worker]
Hands == [r \in Requests |-> {w \in Workers : runner[w].job = r}]
OutcomeSoFar == [r \in Requests |-> Outcome(r)]
Decided == [r \in Requests |-> chat[r].answer]
Sent == [r \in Requests |-> chat[r].pc = "done"]
Life == INSTANCE RequestLife WITH bound <- Bound, hands <- Hands, outcome <- OutcomeSoFar,
                                  answer <- Decided, sent <- Sent
LifePromise == Life!Spec

-----------------------------------------------------------------------------
(* The inductive invariant                                                 *)

LeasedTo(r, w) == jobs[r].worker = w /\ jobs[r].status \in Leased

Unbound == {"new", "queued", "waiting", "forwarding"}
Early == Unbound \cup {"assigned", "jobset"}

(* ExecutionMatchesLease and JobHeldByItsWorker hold because the worker of *)
(* a job is fixed twice, in the locals of the handler that creates it and  *)
(* in its row, and whatever is in flight about a job comes from the worker *)
(* that leased it.                                                         *)
UnboundHandlers ==
    \A r \in Requests : chat[r].pc \in Unbound => chat[r].worker = None
JobsAreNew ==
    \A r \in Requests : chat[r].pc \in Early => jobs[r].status = "absent"
JobsKeepTheirHandler ==
    \A r \in Requests : jobs[r].status # "absent" => jobs[r].worker = chat[r].worker
ReportsMatchLease ==
    /\ \A m \in reports : LeasedTo(m.req, m.worker)
    /\ completing # None => LeasedTo(completing.req, completing.worker)
HeartbeatsMatchLease ==
    \A w \in Workers, r \in Requests : hb[w].job = JobId(r) => LeasedTo(r, w)

JobInv ==
    /\ UnboundHandlers /\ JobsAreNew /\ JobsKeepTheirHandler
    /\ ExecutionMatchesLease /\ ReportsMatchLease /\ HeartbeatsMatchLease
    /\ JobHeldByItsWorker

-----------------------------------------------------------------------------
(* Claims of the documentation that the code does not keep                 *)

(* The outcome of a job is final: complete_job does not overwrite it.      *)
TerminalJobStable ==
    [][\A r \in Requests : jobs[r].status \in Terminal
                              => jobs'[r].status = jobs[r].status]_jobs

(* A job whose inference failed never reaches the client as an answer.     *)
FailureIsAnError ==
    \A r \in Requests : chat[r].answer # "empty"

-----------------------------------------------------------------------------
(* Liveness                                                                *)

(* Whatever is lost or fails, the handler of a queued request ends: one of *)
(* its deadlines fires where no worker, lease, report or other node turns  *)
(* up.                                                                     *)
EveryRequestAnswered ==
    \A r \in Requests : chat[r].pc # "new" ~> chat[r].pc \in {"done", "lost"}

(* Without any deadline a queued request is still served: the workers come *)
(* back to the pool, batches that were abandoned are taken up again, and   *)
(* no job waits for a worker that will not pull it.                        *)
EveryRequestServed ==
    \A r \in Requests :
        chat[r].pc = "waiting" ~> chat[r].answer \in {"text", "empty", "failed", "error"}

(* Once the requests are over every worker is on line and idle for good:   *)
(* reservations that were leaked are healed by the heartbeats.             *)
WorkersReturnToPool ==
    <>[](\A w \in Workers : Idle(w))
=============================================================================
