--------------------------- MODULE LifecycleProofs ---------------------------
(***************************************************************************)
(* Proofs about the lives of a row of each queue and of one batch of the   *)
(* assigner, on top of the invariants of DispatchProofs.                   *)
(***************************************************************************)
EXTENDS DispatchProofs

(* Every step of a job goes forward in its life: pull_job finds it         *)
(* pending, and complete_job is called only for what was leased.           *)
LEMMA JobStepsForward ==
    ASSUME TypeInv, JobInv, [Next]_vars
    PROVE  \A r \in Requests : JobStep(jobs[r], jobs'[r])
  <1>a. jobs \in [Requests -> JobRow] /\ reports \in SUBSET Reports
      BY DEF TypeInv, TypeOK
  <1>b. CASE UNCHANGED jobs BY <1>b DEF JobStep
  <1>1. ASSUME NEW r \in Requests, ChatMove(r)
        PROVE  \A q \in Requests : JobStep(jobs[q], jobs'[q])
    <2>1. CASE InsertJob(r)
      <3>1. jobs[r].status = "absent"
          BY <2>1 DEF InsertJob, JobInv, JobsAreNew, Early
      <3>2. jobs'[r].status = "pending" /\ \A q \in Requests \ {r} : jobs'[q] = jobs[q]
          BY <2>1, <1>a DEF InsertJob, CreateJob
      <3> QED BY <3>1, <3>2 DEF JobStep
    <2>2. CASE ~InsertJob(r)
      <3>1. UNCHANGED jobs
          BY <1>1, <2>2 DEF ChatMove, ChatStep, Enqueue, ForwardStep, WaitFirst, ForwardAtOnce,
                            ForwardLater, Forwarded, PollAssignment, AssignmentTimeout,
                            SetJob, PollJob, JobTimeout, Cleanup, ClearWorker, Finish
      <3> QED BY <1>b, <3>1
    <2> QED BY <2>1, <2>2
  <1>2. ASSUME NEW w \in Workers, Pull(w)
        PROVE  \A q \in Requests : JobStep(jobs[q], jobs'[q])
    <2>1. PICK r \in Requests : NextForWorker(w, r) /\ Lease(r) BY <1>2 DEF Pull
    <2>2. /\ jobs[r].status = "pending"
          /\ jobs'[r].status = "running" /\ jobs'[r].worker = jobs[r].worker
          /\ \A q \in Requests \ {r} : jobs'[q] = jobs[q]
        BY <1>a, <2>1 DEF NextForWorker, Lease, JobRow
    <2> QED BY <2>2 DEF JobStep
  <1>3. ASSUME NEW m \in reports, Complete(m)
        PROVE  \A q \in Requests : JobStep(jobs[q], jobs'[q])
    <2>1. m.req \in Requests BY <1>a DEF Reports
    <2>2. jobs[m.req].status \in Leased BY DEF JobInv, ReportsMatchLease, LeasedTo
    <2>3. /\ jobs'[m.req].status \in Terminal /\ jobs'[m.req].worker = jobs[m.req].worker
          /\ \A q \in Requests \ {m.req} : jobs'[q] = jobs[q]
        BY <1>a, <1>3, <2>1 DEF Complete, CompleteJob, JobRow, Terminal
    <2> QED BY <2>2, <2>3 DEF JobStep
  <1>4. CASE AssignerMove \/ CleanerMove
      BY <1>4, <1>b DEF AssignerMove, CleanerMove
  <1>5. ASSUME NEW w \in Workers, HeartbeatSend(w) \/ HeartbeatMove(w)
        PROVE  UNCHANGED jobs
      BY <1>5 DEF HeartbeatSend, SendHeartbeat, HeartbeatMove, HeartbeatStep,
                  LoadWorker, CommitHeartbeat, FinishHeartbeat
  <1>6. ASSUME NEW w \in Workers, RunnerMove(w), ~Pull(w) PROVE UNCHANGED jobs
      BY <1>6 DEF RunnerMove, RunnerStep, CompleteRaises
  <1>7. CASE CompleteMove /\ ~\E m \in reports : Complete(m)
    <2>1. UNCHANGED jobs
        BY <1>7 DEF CompleteMove, CompleteStep, CompleteMatches, CompleteKeeps, CompleteClears
    <2> QED BY <2>1, <1>b
  <1>8. Fault => UNCHANGED jobs
      BY DEF Fault, CallLost, LoseCall, LoseHeartbeat, CompleteRaises, WorkerDies, WorkerCrash,
             HeartbeatOverdue, StatementRaises, HandlerRaises,
             BodyRaises, FinallyRaises, HeartbeatRaises, ServerCrash, tables
  <1>9. UNCHANGED vars => UNCHANGED jobs BY DEF vars
  <1> QED BY <1>b, <1>1, <1>2, <1>3, <1>4, <1>5, <1>6, <1>7, <1>8, <1>9
          DEF Next, CompleteMove, CompleteStep

(* A job is leased once, completed only after its lease, and never changes *)
(* hands, whatever is lost, retried or restarted.                          *)
THEOREM LifecycleCorrect == Spec => JobLifecycle
  <1>1. TypeInv /\ JobInv /\ [Next]_vars
            => [\A r \in Requests : JobStep(jobs[r], jobs'[r])]_jobs
      BY JobStepsForward
  <1> QED BY <1>1, JobInvariant, PTL DEF Spec, JobLifecycle

-----------------------------------------------------------------------------
(* The row of a request and its handler                                    *)

(* Neither the assigner nor the cleaner adds or removes a row.             *)
LEMMA RowsKept ==
    ASSUME TypeInv, AssignerStep \/ CleanerStep \/ UNCHANGED reqs
    PROVE  \A r \in Requests : HasRow(r)' <=> HasRow(r)
  <1>a. reqs \in [Requests -> ReqRow] BY DEF TypeInv, TypeOK
  <1>1. CASE UNCHANGED reqs BY <1>1 DEF HasRow
  <1>2. CASE Assign
    <2>1. asg.req \in Requests /\ reqs[asg.req].status = "pending"
          /\ reqs' = [reqs EXCEPT ![asg.req] = [status |-> "assigned", worker |-> asg.worker]]
        BY <1>2 DEF Assign, Assignable, AssignWorker, TypeInv, AssignerOK
    <2>2. reqs'[asg.req].status = "assigned"
          /\ \A r \in Requests \ {asg.req} : reqs'[r] = reqs[r]
        BY <1>a, <2>1
    <2> QED BY <2>1, <2>2 DEF HasRow
  <1>3. CASE ReleaseRequests
    <2>1. \A r \in Requests :
            \/ reqs'[r] = reqs[r]
            \/ reqs[r].status = "assigned" /\ reqs'[r].status = "pending"
        BY <1>3, <1>a DEF ReleaseRequests, ReleaseAssigned
    <2> QED BY <2>1 DEF HasRow
  <1>4. AssignerStep /\ ~Assign => UNCHANGED reqs
      BY DEF AssignerStep, Scan, RankModel, TakeRequest, BatchDone, PoolExhausted,
             Reserve, ReadBack, GiveBack, AssignRaises, Confirm
  <1>5. CleanerStep /\ ~ReleaseRequests => UNCHANGED reqs
      BY DEF CleanerStep, ScanStale, Mark
  <1> QED BY <1>1, <1>2, <1>3, <1>4, <1>5

LEMMA RowTracksHandlerStep ==
    ASSUME TypeInv, RowTracksHandler, [Next]_vars
    PROVE  RowTracksHandler'
  <1>a. reqs \in [Requests -> ReqRow] /\ chat \in [Requests -> Handler]
      BY DEF TypeInv, TypeOK
  <1>b. ASSUME UNCHANGED chat, AssignerStep \/ CleanerStep \/ UNCHANGED reqs
        PROVE  RowTracksHandler'
    <2>1. \A r \in Requests : HasRow(r)' <=> HasRow(r) BY <1>b, RowsKept
    <2> QED BY <1>b, <2>1 DEF RowTracksHandler
  (* A handler that goes on between its first statement and its last.      *)
  <1>c. ASSUME NEW r \in Requests, chat[r].pc \notin {"new", "done", "lost"},
               chat'[r].pc \notin {"new", "done", "lost"},
               \A q \in Requests \ {r} : chat'[q] = chat[q], UNCHANGED reqs
        PROVE  RowTracksHandler'
    <2>1. \A q \in Requests : HasRow(q)' <=> HasRow(q) BY <1>c DEF HasRow
    <2> QED BY <1>c, <2>1 DEF RowTracksHandler
  <1>1. ASSUME NEW r \in Requests, ChatStep(r) PROVE RowTracksHandler'
    <2>1. CASE Enqueue(r)
      <3>1. /\ reqs'[r].status = "pending" /\ chat'[r].pc \in {"waiting", "queued"}
            /\ \A q \in Requests \ {r} : reqs'[q] = reqs[q] /\ chat'[q] = chat[q]
          BY <2>1, <1>a DEF Enqueue, CreateRequest, GoTo, Handler
      <3> QED BY <3>1 DEF RowTracksHandler, HasRow
    <2>2. CASE Finish(r)
      <3>1. /\ reqs'[r].status = "absent" /\ chat'[r].pc = "done"
            /\ \A q \in Requests \ {r} : reqs'[q] = reqs[q] /\ chat'[q] = chat[q]
          BY <2>2, <1>a DEF Finish, DeleteRequest, NoReq, GoTo, Handler
      <3> QED BY <3>1 DEF RowTracksHandler, HasRow
    <2>3. CASE PollAssignment(r) BY <2>3, <1>a, <1>c DEF PollAssignment, Handler
    <2>4. CASE AssignmentTimeout(r)
        BY <2>4, <1>a, <1>c DEF AssignmentTimeout, AnswerWith, Handler
    <2>5. CASE SetJob(r) BY <2>5, <1>a, <1>c DEF SetJob, GoTo, Handler
    <2>6. CASE InsertJob(r) BY <2>6, <1>a, <1>c DEF InsertJob, GoTo, Handler
    <2>7. CASE PollJob(r) BY <2>7, <1>a, <1>c DEF PollJob, AnswerWith, Handler
    <2>8. CASE JobTimeout(r) BY <2>8, <1>a, <1>c DEF JobTimeout, AnswerWith, Handler
    <2>9. CASE Cleanup(r)
      <3>1. chat'[r].pc \in {"clearing", "deleting"} /\ chat[r].pc = "cleanup"
            /\ \A q \in Requests \ {r} : chat'[q] = chat[q]
          BY <2>9, <1>a DEF Cleanup, GoTo, Handler
      <3> QED BY <2>9, <3>1, <1>c DEF Cleanup
    <2>10. CASE ClearWorker(r) BY <2>10, <1>a, <1>c DEF ClearWorker, Handler
    <2>11. CASE ForwardStep(r)
        BY <2>11, <1>a, <1>c DEF ForwardStep, WaitFirst, ForwardAtOnce, ForwardLater, Forwarded,
                                 AnswerWith, GoTo, Handler
    <2> QED BY <1>1, <2>1, <2>2, <2>3, <2>4, <2>5, <2>6, <2>7, <2>8, <2>9, <2>10, <2>11
            DEF ChatStep
  <1>2. ASSUME NEW r \in Requests, HandlerRaises(r) PROVE RowTracksHandler'
    <2>1. CASE BodyRaises(r) BY <2>1, <1>a, <1>c DEF BodyRaises, AnswerWith, Handler
    <2>2. CASE FinallyRaises(r)
      <3>1. /\ chat[r].pc \in {"cleanup", "clearing", "deleting"} /\ chat'[r].pc = "lost"
            /\ \A q \in Requests \ {r} : chat'[q] = chat[q]
          BY <2>2, <1>a DEF FinallyRaises, Handler
      <3> QED BY <2>2, <3>1 DEF FinallyRaises, RowTracksHandler, HasRow
    <2> QED BY <1>2, <2>1, <2>2 DEF HandlerRaises
  <1>3. CASE ServerCrash
    <2>1. \A r \in Requests : /\ chat[r].pc \in {"new", "done"} => chat'[r] = chat[r]
                              /\ chat[r].pc \notin {"new", "done"} => chat'[r].pc = "lost"
        BY <1>3, <1>a DEF ServerCrash, ChatsLost, Handler
    <2>2. UNCHANGED reqs BY <1>3 DEF ServerCrash, tables
    <2> QED BY <2>1, <2>2 DEF RowTracksHandler, HasRow
  <1>4. AssignerMove \/ CleanerMove => RowTracksHandler'
      BY <1>b DEF AssignerMove, CleanerMove
  <1>5. ASSUME NEW w \in Workers,
               \/ HeartbeatSend(w) \/ HeartbeatMove(w) \/ RunnerMove(w)
               \/ CallLost(w) \/ WorkerDies(w)
        PROVE  RowTracksHandler'
      BY <1>5, <1>b DEF HeartbeatSend, HeartbeatMove, RunnerMove, CallLost, WorkerDies
  <1>6. CompleteMove => RowTracksHandler' BY <1>b DEF CompleteMove
  <1>7. ASSUME NEW w \in Workers, HeartbeatOverdue(w) PROVE RowTracksHandler'
      BY <1>7, <1>b DEF HeartbeatOverdue
  <1>8. StatementRaises => RowTracksHandler'
      BY <1>b, <1>2 DEF StatementRaises, BatchRaises, CleanupRaises
  <1>9. UNCHANGED vars => RowTracksHandler' BY <1>b DEF vars
  <1> QED BY <1>1, <1>3, <1>4, <1>5, <1>6, <1>7, <1>8, <1>9
          DEF Next, ChatMove, Fault

(* A row of awaiting_reqs outlives its handler only when the server dies   *)
(* or the cleanup of the handler itself fails.                             *)
THEOREM RowsCorrect == Spec => []RowTracksHandler
  <1>1. Init => RowTracksHandler
      BY DEF Init, RequestQueueInit, ChatInit, NoReq, RowTracksHandler, HasRow
  <1>2. TypeInv /\ RowTracksHandler /\ [Next]_vars => RowTracksHandler'
      BY RowTracksHandlerStep
  <1> QED BY <1>1, <1>2, TypeInvariant, PTL DEF Spec

-----------------------------------------------------------------------------
(* One batch                                                               *)

(* claimed_workers holds whom the batch has bound, but for the worker just *)
(* bound, whom the iteration adds at its end.                              *)
BatchInv ==
    /\ asg.pc \in {"reserved", "loaded"} => asg.worker \notin asg.claimed
    /\ asg.pc # "assigned" => asg.given \subseteq asg.claimed
    /\ asg.pc = "assigned" => asg.given \subseteq Claim

LEMMA BatchStep ==
    ASSUME TypeInv, BatchInv, [Next]_vars
    PROVE  BatchInv'
  <1>a. asg \in Assigner BY DEF TypeInv, TypeOK
  <1>b. AsgIdle.pc = "idle" /\ AsgIdle.given = {} BY DEF AsgIdle
  <1>c. UNCHANGED asg => BatchInv' BY DEF BatchInv, Claim
  <1>d. asg' = AsgIdle => BatchInv' BY <1>b DEF BatchInv
  <1>e. ASSUME asg'.pc \in {"idle", "rank", "next", "pop"}, asg.pc # "assigned",
               asg'.given = asg.given, asg'.claimed = asg.claimed
        PROVE  BatchInv'
      BY <1>e DEF BatchInv
  <1>1. CASE AssignerMove
    <2>1. CASE Scan
      <3>1. asg'.pc = "rank" /\ asg'.given = {} BY <2>1 DEF Scan, AsgIdle
      <3> QED BY <3>1 DEF BatchInv
    <2>2. CASE RankModel BY <2>2, <1>a, <1>e DEF RankModel, Assigner
    <2>3. CASE TakeRequest
      <3>1. asg' = AsgIdle \/ (/\ asg.pc = "next" /\ asg'.pc = "pop"
                               /\ asg'.given = asg.given /\ asg'.claimed = asg.claimed)
          BY <2>3, <1>a DEF TakeRequest, Assigner
      <3> QED BY <3>1, <1>d, <1>e
    <2>4. CASE BatchDone \/ AssignRaises BY <2>4, <1>d DEF BatchDone, AssignRaises
    <2>5. CASE PoolExhausted BY <2>5, <1>a, <1>e DEF PoolExhausted, Assigner
    <2>6. CASE Reserve
      <3>1. \/ asg' = AsgIdle
            \/ /\ asg.pc = "pop" /\ asg'.given = asg.given /\ asg'.claimed = asg.claimed
               /\ asg'.pc = "pop" \/ (asg'.pc = "reserved" /\ asg'.worker \in LeftInPool)
          BY <2>6, <1>a DEF Reserve, Assigner
      <3> QED BY <3>1, <1>d, <1>e DEF BatchInv, LeftInPool
    <2>7. CASE ReadBack
      <3>1. \/ asg' = AsgIdle
            \/ /\ asg.pc = "reserved" /\ asg'.pc = "loaded" /\ asg'.worker = asg.worker
               /\ asg'.claimed = asg.claimed /\ asg'.given = asg.given
          BY <2>7, <1>a DEF ReadBack, Assigner
      <3> QED BY <3>1, <1>d DEF BatchInv
    <2>8. CASE Assign
      <3>1. /\ asg.pc = "loaded" /\ asg'.pc = "assigned" /\ asg'.worker = asg.worker
            /\ asg'.claimed = asg.claimed /\ asg'.given = asg.given \cup {asg.worker}
          BY <2>8, <1>a DEF Assign, Assigner
      <3> QED BY <3>1 DEF BatchInv, Claim
    <2>9. CASE GiveBack
      <3>1. /\ asg.pc = "loaded" /\ asg'.pc = "pop"
            /\ asg'.claimed = asg.claimed /\ asg'.given = asg.given
          BY <2>9, <1>a DEF GiveBack, Assigner
      <3> QED BY <3>1, <1>e
    <2>10. CASE Confirm
      <3>1. asg' = AsgIdle \/ (/\ asg.pc = "assigned" /\ asg'.pc = "next"
                               /\ asg'.claimed = Claim /\ asg'.given = asg.given)
          BY <2>10, <1>a DEF Confirm, Assigner
      <3> QED BY <3>1, <1>d DEF BatchInv
    <2> QED BY <1>1, <2>1, <2>2, <2>3, <2>4, <2>5, <2>6, <2>7, <2>8, <2>9, <2>10
            DEF AssignerMove, AssignerStep
  <1>2. ASSUME NEW r \in Requests, ChatMove(r) PROVE UNCHANGED asg
      BY <1>2 DEF ChatMove
  <1>3. CleanerMove \/ CompleteMove \/ UNCHANGED vars => UNCHANGED asg
      BY DEF CleanerMove, CompleteMove, vars
  <1>4. ASSUME NEW w \in Workers, HeartbeatSend(w) \/ HeartbeatMove(w) \/ RunnerMove(w)
        PROVE  UNCHANGED asg
      BY <1>4 DEF HeartbeatSend, HeartbeatMove, RunnerMove
  <1>5. Fault => UNCHANGED asg \/ asg' = AsgIdle
      BY DEF Fault, CallLost, WorkerDies, HeartbeatOverdue, StatementRaises, BatchRaises,
             ServerCrash
  <1> QED BY <1>c, <1>d, <1>1, <1>2, <1>3, <1>4, <1>5 DEF Next

(* The assigner never reserves for a request a worker that the same batch  *)
(* has bound to an earlier one: whom it has bound, it has claimed.         *)
THEOREM BatchCorrect == Spec => []BatchClaimsOnce
  <1>1. Init => BatchInv
      BY DEF Init, AssignerInit, AsgIdle, BatchInv
  <1>2. TypeInv /\ BatchInv /\ [Next]_vars => BatchInv'
      BY BatchStep
  <1>3. BatchInv => BatchClaimsOnce
      BY DEF BatchInv, BatchClaimsOnce
  <1> QED BY <1>1, <1>2, <1>3, TypeInvariant, PTL DEF Spec

-----------------------------------------------------------------------------
(* Order of arrival                                                        *)

(* While no heartbeat is overdue the cleaner has nothing to release, and a *)
(* request that has been bound stays so until its handler deletes the row. *)
NoneOverdue == StaleWorkers = {}

Arrived(r) == chat[r].pc # "new"
ArrivalOrder == \A q, r \in Requests : q < r /\ Arrived(r) => Arrived(q)

CleanerRests == cln.pc = "idle"

(* The batch and the loop variable are rows that were there when the table *)
(* was scanned.                                                            *)
BatchArrived ==
    /\ \A r \in asg.batch : Arrived(r)
    /\ asg.req # None => Arrived(asg.req)
LoopVariable ==
    /\ asg.pc \in {"idle", "rank", "next"} => asg.req = None
    /\ asg.pc # "rank" => asg.unranked = {}
    /\ asg.pc = "assigned" => reqs[asg.req].status # "pending"

(* No worker is left to this batch for a request of model m.               *)
Exhausted(m) == m \notin asg.unranked /\ asg.pool[m] \subseteq asg.claimed

(* An older request q of the model of r still waits.  Then r is behind it  *)
(* in the batch, or the batch has gone past q because the pool of their    *)
(* model is exhausted, and r will find no worker either.                   *)
Precedes(q, r) == q < r /\ ModelOf[q] = ModelOf[r] /\ reqs[q].status = "pending"
BatchOrder ==
    \A q, r \in Requests : Precedes(q, r) =>
        /\ r \in asg.batch => q \in asg.batch \/ q = asg.req \/ Exhausted(ModelOf[q])
        /\ asg.pc = "pop" /\ r = asg.req => Exhausted(ModelOf[q])
        /\ asg.pc \in {"reserved", "loaded"} => r # asg.req

FifoInv ==
    /\ ArrivalOrder /\ CleanerRests /\ BatchArrived /\ LoopVariable
    /\ BatchOrder /\ FifoWithinModel

LEMMA FifoInit == ASSUME Init PROVE FifoInv
  <1>1. ArrivalOrder /\ CleanerRests
      BY DEF Init, ChatInit, CleanerInit, ClnIdle, ArrivalOrder, Arrived, CleanerRests
  <1>2. BatchArrived /\ LoopVariable
      BY DEF Init, AssignerInit, AsgIdle, BatchArrived, LoopVariable
  <1>3. BatchOrder /\ FifoWithinModel
      BY DEF Init, RequestQueueInit, NoReq, BatchOrder, Precedes, FifoWithinModel
  <1> QED BY <1>1, <1>2, <1>3 DEF FifoInv

(* A handler leaves "new" by the insertion of its row and never comes      *)
(* back.                                                                   *)
LEMMA ArrivalStep ==
    ASSUME TypeInv, NEW r \in Requests, ChatStep(r) \/ HandlerRaises(r)
    PROVE  /\ \A q \in Requests \ {r} : Arrived(q)' <=> Arrived(q)
           /\ Arrived(r)'
           /\ Arrived(r) \/ Enqueue(r)
  <1>a. chat \in [Requests -> Handler] BY DEF TypeInv, TypeOK
  <1>1. CASE Enqueue(r) BY <1>1, <1>a DEF Enqueue, GoTo, Arrived, Handler
  <1>2. CASE PollAssignment(r) BY <1>2, <1>a DEF PollAssignment, Arrived, Handler
  <1>3. CASE AssignmentTimeout(r) BY <1>3, <1>a DEF AssignmentTimeout, AnswerWith, Arrived, Handler
  <1>4. CASE SetJob(r) BY <1>4, <1>a DEF SetJob, GoTo, Arrived, Handler
  <1>5. CASE InsertJob(r) BY <1>5, <1>a DEF InsertJob, GoTo, Arrived, Handler
  <1>6. CASE PollJob(r) BY <1>6, <1>a DEF PollJob, AnswerWith, Arrived, Handler
  <1>7. CASE JobTimeout(r) BY <1>7, <1>a DEF JobTimeout, AnswerWith, Arrived, Handler
  <1>8. CASE Cleanup(r) BY <1>8, <1>a DEF Cleanup, GoTo, Arrived, Handler
  <1>9. CASE ClearWorker(r) BY <1>9, <1>a DEF ClearWorker, Arrived, Handler
  <1>10. CASE Finish(r) BY <1>10, <1>a DEF Finish, GoTo, Arrived, Handler
  <1>11. CASE ForwardStep(r)
      BY <1>11, <1>a DEF ForwardStep, WaitFirst, ForwardAtOnce, ForwardLater, Forwarded,
                         AnswerWith, GoTo, Arrived, Handler
  <1>12. CASE HandlerRaises(r)
      BY <1>12, <1>a DEF HandlerRaises, BodyRaises, FinallyRaises, AnswerWith, Arrived, Handler
  <1> QED BY <1>1, <1>2, <1>3, <1>4, <1>5, <1>6, <1>7, <1>8, <1>9, <1>10, <1>11, <1>12
          DEF ChatStep

(* What neither binds a request nor adds a row, and leaves the batch alone *)
(* or drops it, keeps the order.                                           *)
LEMMA FifoFrame ==
    ASSUME TypeInv, FifoInv, ArrivalOrder',
           \A r \in Requests : Arrived(r) => Arrived(r)',
           \A r \in Requests : reqs'[r].status \in {reqs[r].status, "absent"},
           asg' \in {asg, AsgIdle}, cln' \in {cln, ClnIdle}
    PROVE  FifoInv'
  <1>a. asg.batch \subseteq Requests /\ asg.req \in Requests \cup {None}
      BY DEF TypeInv, TypeOK, Assigner
  <1>1. CleanerRests' BY DEF FifoInv, CleanerRests, ClnIdle
  <1>2. FifoWithinModel' BY DEF FifoInv, FifoWithinModel, HasRow
  <1>3. CASE asg' = asg
    <2>1. BatchArrived' BY <1>3, <1>a DEF FifoInv, BatchArrived
    <2>2. asg.pc = "assigned" => asg.req \in Requests BY DEF TypeInv, AssignerOK
    <2>3. LoopVariable' BY <1>3, <2>2 DEF FifoInv, LoopVariable
    <2>4. \A q, r \in Requests : Precedes(q, r)' => Precedes(q, r) BY DEF Precedes
    <2>5. BatchOrder' BY <1>3, <2>4 DEF FifoInv, BatchOrder, Exhausted
    <2> QED BY <1>1, <1>2, <2>1, <2>3, <2>5 DEF FifoInv
  <1>4. CASE asg' = AsgIdle
    <2>1. BatchArrived' /\ LoopVariable' BY <1>4 DEF AsgIdle, BatchArrived, LoopVariable
    <2>2. BatchOrder' BY <1>4 DEF AsgIdle, BatchOrder
    <2> QED BY <1>1, <1>2, <2>1, <2>2 DEF FifoInv
  <1> QED BY <1>3, <1>4

LEMMA FifoChat ==
    ASSUME TypeInv, RowTracksHandler, FifoInv, NEW r \in Requests,
           ChatStep(r) \/ HandlerRaises(r), UNCHANGED <<asg, cln>>
    PROVE  FifoInv'
  <1>a. reqs \in [Requests -> ReqRow] BY DEF TypeInv, TypeOK
  <1>b. /\ \A q \in Requests \ {r} : Arrived(q)' <=> Arrived(q)
        /\ Arrived(r)'
        /\ Arrived(r) \/ Enqueue(r)
      BY ArrivalStep
  <1>1. ArrivalOrder'
    <2>1. Enqueue(r) => \A q \in Requests : q < r => Arrived(q) BY DEF Enqueue, Arrived
    <2> QED BY <1>b, <2>1 DEF FifoInv, ArrivalOrder
  <1>2. CASE Enqueue(r)
    <2>1. ~Arrived(r) BY <1>2 DEF Enqueue, Arrived
    <2>2. reqs'[r].status = "pending" /\ \A q \in Requests \ {r} : reqs'[q] = reqs[q]
        BY <1>2, <1>a DEF Enqueue, CreateRequest
    <2>3. asg.batch \subseteq Requests /\ asg.req \in Requests \cup {None}
        BY DEF TypeInv, TypeOK, Assigner
    <2>4. r \notin asg.batch /\ r # asg.req
        BY <2>1, NoneAssumption DEF FifoInv, BatchArrived
    <2>5. BatchArrived' BY <1>b, <2>3, <2>4 DEF FifoInv, BatchArrived
    <2>6. asg.pc = "assigned" => asg.req \in Requests BY DEF TypeInv, AssignerOK
    <2>7. LoopVariable' BY <2>2, <2>4, <2>6 DEF FifoInv, LoopVariable
    (* Nothing has come after r yet.                                       *)
    <2>8. \A p \in Requests : r < p => ~Arrived(p) /\ ~HasRow(p)
        BY <2>1 DEF FifoInv, ArrivalOrder, RowTracksHandler, Arrived
    <2>9. BatchOrder'
      <3> SUFFICES ASSUME NEW q \in Requests, NEW p \in Requests, Precedes(q, p)'
                   PROVE  /\ p \in asg.batch => q \in asg.batch \/ q = asg.req \/ Exhausted(ModelOf[q])
                          /\ asg.pc = "pop" /\ p = asg.req => Exhausted(ModelOf[q])
                          /\ asg.pc \in {"reserved", "loaded"} => p # asg.req
          BY DEF BatchOrder, Exhausted
      <3>1. CASE q = r
        <4>1. ~Arrived(p) BY <3>1, <2>8 DEF Precedes
        <4>2. p \notin asg.batch /\ p # asg.req
            BY <4>1, NoneAssumption DEF FifoInv, BatchArrived
        <4> QED BY <4>2
      <3>2. CASE q # r
        <4>1. Precedes(q, p) BY <3>2, <2>2 DEF Precedes
        <4> QED BY <4>1 DEF FifoInv, BatchOrder
      <3> QED BY <3>1, <3>2
    <2>10. FifoWithinModel'
      <3> SUFFICES ASSUME NEW q \in Requests, NEW p \in Requests, q < p,
                          ModelOf[q] = ModelOf[p], reqs'[p].status = "assigned", HasRow(q)'
                   PROVE  reqs'[q].status = "assigned"
          BY DEF FifoWithinModel
      <3>1. p # r /\ HasRow(p) BY <2>2 DEF HasRow
      <3>2. q # r BY <3>1, <2>8
      <3> QED BY <3>1, <3>2, <2>2 DEF FifoInv, FifoWithinModel, HasRow
    <2>11. CleanerRests' BY DEF FifoInv, CleanerRests
    <2> QED BY <1>1, <2>5, <2>7, <2>9, <2>10, <2>11 DEF FifoInv
  <1>3. CASE ~Enqueue(r)
    <2>1. CASE Finish(r)
      <3>1. \A q \in Requests : reqs'[q].status \in {reqs[q].status, "absent"}
          BY <2>1, <1>a DEF Finish, DeleteRequest, NoReq
      <3> QED BY <1>1, <1>3, <1>b, <3>1, FifoFrame
    <2>2. CASE ~Finish(r)
      <3>1. UNCHANGED reqs
          BY <1>3, <2>2 DEF ChatStep, ForwardStep, WaitFirst, ForwardAtOnce, ForwardLater,
                            Forwarded, PollAssignment, AssignmentTimeout, SetJob, InsertJob,
                            PollJob, JobTimeout, Cleanup, ClearWorker,
                            HandlerRaises, BodyRaises, FinallyRaises
      <3> QED BY <1>1, <1>3, <1>b, <3>1, FifoFrame
    <2> QED BY <2>1, <2>2
  <1> QED BY <1>2, <1>3

(* The eleven steps of the assigner.                                       *)
LEMMA FifoAssigner ==
    ASSUME TypeInv, RowTracksHandler, FifoInv, AssignerStep, UNCHANGED <<chat, cln>>
    PROVE  FifoInv'
  <1>a. /\ asg \in Assigner
        /\ reqs \in [Requests -> ReqRow]
        /\ asg.batch \subseteq Requests /\ asg.req \in Requests \cup {None}
      BY DEF TypeInv, TypeOK, Assigner
  <1>b. ArrivalOrder' /\ CleanerRests' BY DEF FifoInv, ArrivalOrder, Arrived, CleanerRests
  <1>c. ASSUME asg' = AsgIdle, UNCHANGED reqs PROVE FifoInv'
      BY <1>b, <1>c, FifoFrame DEF Arrived
  <1>d. ASSUME UNCHANGED reqs, BatchArrived', LoopVariable', BatchOrder' PROVE FifoInv'
      BY <1>b, <1>d DEF FifoInv, FifoWithinModel, HasRow
  <1>e. ModelOf \in [Requests -> Models] BY ModelsAssumption
  <1>f. asg.pc \in {"pop", "reserved", "loaded", "assigned"} => asg.req \in Requests
      BY DEF TypeInv, AssignerOK
  <1>1. CASE Scan
    <2>1. /\ asg'.pc = "rank" /\ asg'.batch = PendingRequests /\ asg'.req = None
          /\ UNCHANGED reqs
        BY <1>1 DEF Scan, AsgIdle
    <2>2. \A r \in PendingRequests : Arrived(r)
        BY DEF PendingRequests, RowTracksHandler, HasRow, Arrived
    <2>3. BatchArrived' BY <2>1, <2>2 DEF BatchArrived, Arrived
    <2>4. LoopVariable' BY <2>1 DEF LoopVariable
    <2>5. BatchOrder' BY <2>1 DEF BatchOrder, Precedes, PendingRequests
    <2> QED BY <1>d, <2>1, <2>3, <2>4, <2>5
  <1>2. CASE RankModel
    <2>1. PICK m \in asg.unranked :
             asg' = [asg EXCEPT !.pool[m] = Candidates(m), !.unranked = @ \ {m},
                                !.pc = IF asg.unranked = {m} THEN "next" ELSE "rank"]
        BY <1>2 DEF RankModel
    <2>2. asg.pc = "rank" /\ UNCHANGED reqs BY <1>2 DEF RankModel
    <2>3. /\ asg'.pc \in {"next", "rank"} /\ asg'.batch = asg.batch /\ asg'.req = asg.req
          /\ asg'.unranked = asg.unranked \ {m} /\ asg'.claimed = asg.claimed
          /\ asg'.pc = "next" => asg.unranked = {m}
          /\ \A k \in Models \ {m} : asg'.pool[k] = asg.pool[k]
        BY <2>1, <1>a DEF Assigner
    <2>4. BatchArrived' BY <2>3 DEF FifoInv, BatchArrived, Arrived
    <2>5. LoopVariable' BY <2>2, <2>3 DEF FifoInv, LoopVariable
    <2>6. \A k \in Models : Exhausted(k) => Exhausted(k)' BY <2>3 DEF Exhausted
    <2>7. BatchOrder' BY <1>e, <2>2, <2>3, <2>6 DEF FifoInv, BatchOrder, Precedes
    <2> QED BY <1>d, <2>2, <2>4, <2>5, <2>7
  <1>3. CASE TakeRequest
    <2>1. PICK r \in asg.batch :
            /\ BatchHead(r)
            /\ asg' = IF Readable(r)
                      THEN [asg EXCEPT !.pc = "pop", !.req = r,
                                       !.batch = @ \ {r}, !.loaded = @ \cup {r}]
                      ELSE AsgIdle
        BY <1>3 DEF TakeRequest
    <2>2. asg.pc = "next" /\ UNCHANGED reqs BY <1>3 DEF TakeRequest
    <2>3. CASE Readable(r)
      <3>1. /\ asg'.pc = "pop" /\ asg'.req = r /\ asg'.batch = asg.batch \ {r}
            /\ asg'.unranked = asg.unranked /\ asg'.pool = asg.pool /\ asg'.claimed = asg.claimed
          BY <2>1, <2>3, <1>a DEF Assigner
      <3>2. BatchArrived' BY <3>1 DEF FifoInv, BatchArrived, Arrived
      <3>3. LoopVariable' BY <2>2, <3>1 DEF FifoInv, LoopVariable
      <3>4. asg.req = None BY <2>2 DEF FifoInv, LoopVariable
      <3>5. BatchOrder'
        <4> SUFFICES ASSUME NEW q \in Requests, NEW p \in Requests, Precedes(q, p),
                            p \in asg.batch
                     PROVE  \/ q \in asg.batch \ {r} /\ p # r
                            \/ q = r /\ p # r
                            \/ Exhausted(ModelOf[q])
            BY <2>1, <2>2, <3>1 DEF BatchOrder, Precedes, Exhausted
        <4>1. q \in asg.batch \/ Exhausted(ModelOf[q])
            BY <3>4, NoneAssumption DEF FifoInv, BatchOrder
        <4>2. CASE q \in asg.batch /\ p = r /\ q # r
          <5>1. Before(r, q) BY <2>1, <4>2 DEF BatchHead
          <5>2. q < r /\ ModelOf[q] = ModelOf[r] /\ q \in Nat /\ r \in Nat
              BY <4>2, RequestsAssumption DEF Precedes
          <5>3. ModelOf[q] \in Nat BY <1>e, RequestsAssumption
          <5> QED BY <5>1, <5>2, <5>3 DEF Before
        <4>3. q # p BY RequestsAssumption DEF Precedes
        <4> QED BY <4>1, <4>2, <4>3
      <3> QED BY <1>d, <2>2, <3>2, <3>3, <3>5
    <2> QED BY <1>c, <2>1, <2>2, <2>3
  <1>4. CASE BatchDone \/ AssignRaises BY <1>4, <1>c DEF BatchDone, AssignRaises
  <1>5. CASE PoolExhausted
    <2>1. /\ asg.pc = "pop" /\ LeftInPool = {} /\ UNCHANGED reqs
          /\ asg' = [asg EXCEPT !.pc = "next", !.req = None]
        BY <1>5 DEF PoolExhausted
    <2>2. /\ asg'.pc = "next" /\ asg'.req = None /\ asg'.batch = asg.batch
          /\ asg'.unranked = asg.unranked /\ asg'.pool = asg.pool /\ asg'.claimed = asg.claimed
        BY <2>1, <1>a DEF Assigner
    <2>3. BatchArrived' BY <2>2 DEF FifoInv, BatchArrived, Arrived
    <2>4. LoopVariable' BY <2>1, <2>2 DEF FifoInv, LoopVariable
    <2>5. Exhausted(ModelOf[asg.req])
        BY <2>1 DEF Exhausted, LeftInPool, FifoInv, LoopVariable
    <2>6. BatchOrder' BY <2>2, <2>5, <2>1 DEF FifoInv, BatchOrder, Precedes, Exhausted
    <2> QED BY <1>d, <2>1, <2>3, <2>4, <2>6
  <1>6. CASE Reserve
    <2>1. PICK w \in LeftInPool :
            \/ asg' = AsgIdle
            \/ asg' = [asg EXCEPT !.pool[ModelOf[asg.req]] = @ \ {w}, !.loaded = {},
                                  !.pc = "reserved", !.worker = w]
            \/ asg' = [asg EXCEPT !.pool[ModelOf[asg.req]] = @ \ {w}, !.loaded = {}]
        BY <1>6 DEF Reserve
    <2>2. asg.pc = "pop" /\ UNCHANGED reqs BY <1>6 DEF Reserve
    <2>3. CASE asg' # AsgIdle
      <3>1. /\ asg'.pc \in {"pop", "reserved"} /\ asg'.req = asg.req /\ asg'.batch = asg.batch
            /\ asg'.unranked = asg.unranked /\ asg'.claimed = asg.claimed
            /\ asg'.pool = [asg.pool EXCEPT ![ModelOf[asg.req]] = @ \ {w}]
          BY <2>1, <2>2, <2>3, <1>a DEF Assigner
      <3>2. BatchArrived' BY <3>1 DEF FifoInv, BatchArrived, Arrived
      <3>3. LoopVariable' BY <2>2, <3>1 DEF FifoInv, LoopVariable
      <3>4. ~Exhausted(ModelOf[asg.req]) BY <2>1 DEF LeftInPool, Exhausted
      <3>5. \A k \in Models : Exhausted(k) => Exhausted(k)'
        <4>1. \A k \in Models : asg'.pool[k] \subseteq asg.pool[k]
            BY <3>1, <1>a DEF Assigner
        <4> QED BY <3>1, <4>1 DEF Exhausted
      <3>6. BatchOrder'
        <4> SUFFICES ASSUME NEW q \in Requests, NEW p \in Requests, Precedes(q, p)
                     PROVE  /\ p \in asg.batch =>
                                 q \in asg.batch \/ q = asg.req \/ Exhausted(ModelOf[q])
                            /\ p # asg.req
            BY <1>e, <3>1, <3>5, <2>2 DEF BatchOrder, Precedes
        <4>1. ModelOf[q] = ModelOf[p] BY DEF Precedes
        <4> QED BY <4>1, <2>2, <3>4 DEF FifoInv, BatchOrder
      <3> QED BY <1>d, <2>2, <3>2, <3>3, <3>6
    <2> QED BY <1>c, <2>2, <2>3
  <1>7. CASE ReadBack
    <2>1. asg.pc = "reserved" /\ UNCHANGED reqs BY <1>7 DEF ReadBack
    <2>2. CASE asg' # AsgIdle
      <3>1. /\ asg'.pc = "loaded" /\ asg'.req = asg.req /\ asg'.batch = asg.batch
            /\ asg'.unranked = asg.unranked /\ asg'.pool = asg.pool /\ asg'.claimed = asg.claimed
          BY <1>7, <2>2, <1>a DEF ReadBack, Assigner
      <3>2. BatchArrived' BY <3>1 DEF FifoInv, BatchArrived, Arrived
      <3>3. LoopVariable' BY <2>1, <3>1 DEF FifoInv, LoopVariable
      <3>4. BatchOrder' BY <2>1, <3>1 DEF FifoInv, BatchOrder, Precedes, Exhausted
      <3> QED BY <1>d, <2>1, <3>2, <3>3, <3>4
    <2> QED BY <1>c, <2>1, <2>2
  <1>8. CASE Assign
    <2>1. /\ asg.pc = "loaded" /\ asg.req \in Requests /\ reqs[asg.req].status = "pending"
          /\ reqs'[asg.req].status = "assigned"
          /\ \A r \in Requests \ {asg.req} : reqs'[r] = reqs[r]
        BY <1>8, <1>a, <1>f DEF Assign, Assignable, AssignWorker
    <2>2. /\ asg'.pc = "assigned" /\ asg'.req = asg.req /\ asg'.batch = asg.batch
          /\ asg'.unranked = asg.unranked /\ asg'.pool = asg.pool /\ asg'.claimed = asg.claimed
        BY <1>8, <1>a DEF Assign, Assigner
    <2>3. BatchArrived' BY <2>2 DEF FifoInv, BatchArrived, Arrived
    <2>4. LoopVariable' BY <2>1, <2>2 DEF FifoInv, LoopVariable
    <2>5. \A q, r \in Requests : Precedes(q, r)' => Precedes(q, r) BY <2>1 DEF Precedes
    <2>6. BatchOrder' BY <2>2, <2>5 DEF FifoInv, BatchOrder, Exhausted
    (* No older request of the model waits: this is where the order counts. *)
    <2>7. \A q \in Requests : ~Precedes(q, asg.req) BY <2>1 DEF FifoInv, BatchOrder
    <2>8. FifoWithinModel'
      <3> SUFFICES ASSUME NEW q \in Requests, NEW r \in Requests, q < r,
                          ModelOf[q] = ModelOf[r], reqs'[r].status = "assigned", HasRow(q)'
                   PROVE  reqs'[q].status = "assigned"
          BY DEF FifoWithinModel
      <3>1. HasRow(q) BY <2>1 DEF HasRow
      <3>2. reqs[q].status \in {"pending", "assigned"} BY <3>1, <1>a DEF HasRow, ReqRow
      <3>3. CASE r = asg.req BY <3>2, <3>3, <2>1, <2>7 DEF Precedes
      <3>4. CASE r # asg.req BY <3>1, <3>4, <2>1 DEF FifoInv, FifoWithinModel
      <3> QED BY <3>3, <3>4
    <2> QED BY <1>b, <2>3, <2>4, <2>6, <2>8 DEF FifoInv
  <1>9. CASE GiveBack
    <2>1. asg.pc = "loaded" /\ UNCHANGED reqs BY <1>9 DEF GiveBack
    <2>2. /\ asg'.pc = "pop" /\ asg'.req = asg.req /\ asg'.batch = asg.batch
          /\ asg'.unranked = asg.unranked /\ asg'.pool = asg.pool /\ asg'.claimed = asg.claimed
        BY <1>9, <1>a DEF GiveBack, Assigner
    <2>3. BatchArrived' BY <2>2 DEF FifoInv, BatchArrived, Arrived
    <2>4. LoopVariable' BY <2>1, <2>2 DEF FifoInv, LoopVariable
    <2>5. BatchOrder' BY <2>1, <2>2 DEF FifoInv, BatchOrder, Precedes, Exhausted
    <2> QED BY <1>d, <2>1, <2>3, <2>4, <2>5
  <1>10. CASE Confirm
    <2>1. asg.pc = "assigned" /\ UNCHANGED reqs BY <1>10 DEF Confirm
    <2>2. CASE asg' # AsgIdle
      <3>1. /\ asg'.pc = "next" /\ asg'.req = None /\ asg'.batch = asg.batch
            /\ asg'.unranked = asg.unranked /\ asg'.pool = asg.pool
            /\ asg.claimed \subseteq asg'.claimed
          BY <1>10, <2>2, <1>a DEF Confirm, Claim, Assigner
      <3>2. BatchArrived' BY <3>1 DEF FifoInv, BatchArrived, Arrived
      <3>3. LoopVariable' BY <2>1, <3>1 DEF FifoInv, LoopVariable
      <3>4. reqs[asg.req].status # "pending" BY <2>1 DEF FifoInv, LoopVariable
      <3>5. \A q, r \in Requests : Precedes(q, r) => q # asg.req BY <3>4 DEF Precedes
      <3>6. BatchOrder'
        <4> SUFFICES ASSUME NEW q \in Requests, NEW r \in Requests, Precedes(q, r),
                            r \in asg.batch
                     PROVE  q \in asg.batch \/ Exhausted(ModelOf[q])
            BY <2>1, <3>1 DEF BatchOrder, Precedes, Exhausted
        <4> QED BY <3>5 DEF FifoInv, BatchOrder
      <3> QED BY <1>d, <2>1, <3>2, <3>3, <3>6
    <2> QED BY <1>c, <2>1, <2>2
  <1> QED BY <1>1, <1>2, <1>3, <1>4, <1>5, <1>6, <1>7, <1>8, <1>9, <1>10 DEF AssignerStep

LEMMA FifoStep ==
    ASSUME TypeInv, RowTracksHandler, FifoInv, NoneOverdue, [Next]_vars
    PROVE  FifoInv'
  <1>a. ASSUME UNCHANGED <<reqs, chat>>, asg' \in {asg, AsgIdle}, cln' \in {cln, ClnIdle}
        PROVE  FifoInv'
    <2>1. ArrivalOrder' BY <1>a DEF FifoInv, ArrivalOrder, Arrived
    <2> QED BY <1>a, <2>1, FifoFrame DEF Arrived
  <1>1. ASSUME NEW r \in Requests, ChatMove(r) PROVE FifoInv'
      BY <1>1, FifoChat DEF ChatMove
  <1>2. CASE AssignerMove BY <1>2, FifoAssigner DEF AssignerMove
  <1>3. ~CleanerMove
      BY DEF CleanerMove, CleanerStep, ScanStale, Mark, ReleaseRequests, NoneOverdue,
             FifoInv, CleanerRests
  <1>4. ASSUME NEW w \in Workers,
               \/ HeartbeatSend(w) \/ HeartbeatMove(w) \/ RunnerMove(w)
               \/ CallLost(w) \/ WorkerDies(w) \/ HeartbeatOverdue(w)
        PROVE  FifoInv'
      BY <1>4, <1>a DEF HeartbeatSend, HeartbeatMove, RunnerMove, CallLost, WorkerDies,
                        HeartbeatOverdue
  <1>5. CASE CompleteMove BY <1>5, <1>a DEF CompleteMove
  <1>6. CASE StatementRaises
    <2>1. ASSUME NEW r \in Requests, HandlerRaises(r), UNCHANGED <<asg, cln, mgmtVars>>
          PROVE  FifoInv'
        BY <2>1, FifoChat
    <2> QED BY <1>6, <1>a, <2>1 DEF StatementRaises, BatchRaises, CleanupRaises
  <1>7. CASE ServerCrash
    <2>1. \A r \in Requests : Arrived(r)' <=> Arrived(r)
        BY <1>7 DEF ServerCrash, ChatsLost, Arrived, TypeInv, TypeOK, Handler
    <2>2. ArrivalOrder' BY <2>1 DEF FifoInv, ArrivalOrder
    <2>3. UNCHANGED reqs /\ asg' = AsgIdle /\ cln' = ClnIdle BY <1>7 DEF ServerCrash, tables
    <2> QED BY <2>1, <2>2, <2>3, FifoFrame
  <1>8. CASE UNCHANGED vars BY <1>8, <1>a DEF vars
  <1> QED BY <1>1, <1>2, <1>3, <1>4, <1>5, <1>6, <1>7, <1>8 DEF Next, Fault

(* As long as no heartbeat is overdue, requests of a model are bound in    *)
(* order of arrival, whatever statement of a batch, of a handler or of the *)
(* server itself fails on the way.  The condition is needed: the cleaner   *)
(* puts a request it releases back behind younger ones already bound.      *)
THEOREM FifoCorrect == Spec /\ []NoneOverdue => []FifoWithinModel
  <1>1. Init => FifoInv BY FifoInit
  <1>2. TypeInv /\ RowTracksHandler /\ FifoInv /\ NoneOverdue /\ [Next]_vars => FifoInv'
      BY FifoStep
  <1>3. FifoInv => FifoWithinModel BY DEF FifoInv
  <1> QED BY <1>1, <1>2, <1>3, TypeInvariant, RowsCorrect, PTL DEF Spec

(* Only time makes a heartbeat overdue: every write that puts a worker on  *)
(* line renews its heartbeat too.                                          *)
LEMMA NoneOverdueStep ==
    ASSUME TypeInv, NoneOverdue, "stale" \notin Faults, [Next]_vars
    PROVE  NoneOverdue'
  <1>a. workers \in [Workers -> WorkerRow] BY DEF TypeInv, TypeOK
  <1>b. ASSUME \A v \in Workers : \/ workers'[v].status # "online"
                                  \/ workers'[v].fresh
                                  \/ /\ workers'[v].status = workers[v].status
                                     /\ workers'[v].fresh = workers[v].fresh
        PROVE  NoneOverdue'
      BY <1>b DEF NoneOverdue, StaleWorkers
  <1>c. UNCHANGED workers => NoneOverdue' BY <1>b
  <1>d. ASSUME NEW w, NEW id, WriteCurrentJob(w, id) PROVE NoneOverdue'
      BY <1>a, <1>b, <1>d DEF WriteCurrentJob, WorkerRow
  <1>1. ASSUME NEW r \in Requests, ChatMove(r) PROVE NoneOverdue'
    <2>1. CASE SetJob(r) \/ ClearWorker(r) BY <2>1, <1>d DEF SetJob, ClearWorker
    <2>2. CASE ~(SetJob(r) \/ ClearWorker(r))
      <3>1. UNCHANGED workers
          BY <1>1, <2>2 DEF ChatMove, ChatStep, Enqueue, ForwardStep, WaitFirst, ForwardAtOnce,
                            ForwardLater, Forwarded, PollAssignment, AssignmentTimeout,
                            InsertJob, PollJob, JobTimeout, Cleanup, Finish
      <3> QED BY <3>1, <1>c
    <2> QED BY <2>1, <2>2
  <1>2. CASE AssignerMove
    <2>1. UNCHANGED workers \/ \E w \in Workers \cup {None}, id \in TaskIds \cup {None} :
                                 WriteCurrentJob(w, id)
      <3>1. CASE Reserve
        <4>1. asg.req \in Requests /\ ModelOf[asg.req] \in Models
            BY <3>1, ModelsAssumption DEF Reserve, TypeInv, AssignerOK
        <4>2. LeftInPool \subseteq Workers
            BY <4>1 DEF LeftInPool, TypeInv, TypeOK, Assigner
        <4> QED BY <3>1, <4>1, <4>2 DEF Reserve, ReqId, TaskIds
      <3>2. CASE GiveBack
        <4>1. asg.worker \in Workers BY <3>2 DEF GiveBack, TypeInv, AssignerOK
        <4> QED BY <3>2, <4>1 DEF GiveBack
      <3>3. CASE ~Reserve /\ ~GiveBack
          BY <1>2, <3>3 DEF AssignerMove, AssignerStep, Scan, RankModel, TakeRequest, BatchDone,
                            PoolExhausted, ReadBack, Assign, AssignRaises, Confirm
      <3> QED BY <3>1, <3>2, <3>3
    <2> QED BY <2>1, <1>c, <1>d
  <1>3. CASE CleanerMove
    <2>1. CASE Mark
      <3>1. \A v \in Workers : workers'[v].status = "offline" \/ workers'[v] = workers[v]
          BY <2>1, <1>a DEF Mark, MarkOffline, WorkerRow
      <3> QED BY <3>1, <1>b
    <2>2. CASE ~Mark
        BY <1>3, <2>2, <1>c DEF CleanerMove, CleanerStep, ScanStale, ReleaseRequests
    <2> QED BY <2>1, <2>2
  <1>4. ASSUME NEW w \in Workers, HeartbeatSend(w) \/ HeartbeatMove(w) PROVE NoneOverdue'
    <2>1. CASE CommitHeartbeat(w)
      <3>1. workers'[w].fresh /\ \A v \in Workers \ {w} : workers'[v] = workers[v]
          BY <2>1, <1>a DEF CommitHeartbeat, UpsertWorker, WorkerRow
      <3> QED BY <3>1, <1>b
    <2>2. CASE FinishHeartbeat(w)
      <3>1. \A v \in Workers : /\ workers'[v].status = workers[v].status
                               /\ workers'[v].fresh = workers[v].fresh
          BY <2>2, <1>a DEF FinishHeartbeat, ReplaceModels, WorkerRow
      <3> QED BY <3>1, <1>b
    <2>3. CASE ~CommitHeartbeat(w) /\ ~FinishHeartbeat(w)
        BY <1>4, <2>3, <1>c DEF HeartbeatSend, SendHeartbeat, HeartbeatMove, HeartbeatStep,
                                LoadWorker
    <2> QED BY <2>1, <2>2, <2>3
  <1>5. ASSUME NEW w \in Workers, RunnerMove(w) PROVE UNCHANGED workers
      BY <1>5 DEF RunnerMove, RunnerStep, Pull, CompleteRaises
  <1>6. CASE CompleteMove
    <2>1. CASE CompleteClears BY <2>1, <1>d DEF CompleteClears
    <2>2. CASE ~CompleteClears
        BY <1>6, <2>2, <1>c DEF CompleteMove, CompleteStep, Complete, CompleteMatches, CompleteKeeps
    <2> QED BY <2>1, <2>2
  <1>7. Fault => UNCHANGED workers
      BY DEF Fault, CallLost, LoseCall, LoseHeartbeat, CompleteRaises, WorkerDies, WorkerCrash,
             HeartbeatOverdue, StatementRaises, BatchRaises, CleanupRaises, HandlerRaises,
             BodyRaises, FinallyRaises, HeartbeatRaises, ServerCrash, tables
  <1>8. UNCHANGED vars => UNCHANGED workers BY DEF vars
  <1> QED BY <1>c, <1>1, <1>2, <1>3, <1>4, <1>5, <1>6, <1>7, <1>8 DEF Next

(* Whatever else fails: without overdue heartbeats the order is kept.      *)
THEOREM FifoWhileFresh ==
    ASSUME "stale" \notin Faults
    PROVE  Spec => []FifoWithinModel
  <1>1. Init => NoneOverdue
      BY DEF Init, WorkerRegistryInit, NoWorker, NoneOverdue, StaleWorkers
  <1>2. TypeInv /\ NoneOverdue /\ [Next]_vars => NoneOverdue' BY NoneOverdueStep
  <1>3. Spec => []NoneOverdue BY <1>1, <1>2, TypeInvariant, PTL DEF Spec
  <1> QED BY <1>3, FifoCorrect, PTL
=============================================================================
