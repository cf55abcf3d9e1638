--------------------------- MODULE DispatchProofs ----------------------------
(***************************************************************************)
(* Proofs about the dispatch core, for any number of requests, workers and *)
(* models, any kinds and any number of faults.                             *)
(***************************************************************************)
EXTENDS DispatchProps, FiniteSetTheorems, TLAPS

(* The assigner knows the request and the worker it is busy with.          *)
AssignerOK ==
    /\ asg.pc \in {"pop", "reserved", "loaded", "assigned"} => asg.req \in Requests
    /\ asg.pc \in {"reserved", "loaded", "assigned"} => asg.worker \in Workers

(* A runner that is not idle has a job.                                    *)
RunnerOK == \A w \in Workers : runner[w].pc # "idle" => runner[w].job \in Requests

TypeInv == TypeOK /\ AssignerOK /\ RunnerOK

(* The number of jobs is a natural number: it orders them by creation.     *)
LEMMA CreatedType ==
    ASSUME jobs \in [Requests -> JobRow]
    PROVE  Cardinality(Created) \in Nat
  <1>1. Created \subseteq Requests BY DEF Created
  <1>2. IsFiniteSet(Created) BY <1>1, RequestsAssumption, FS_Subset
  <1> QED BY <1>2, FS_CardinalityType

(* What is left alone keeps its type.                                      *)
Rest == <<asg, cln, runner, hb, reports, completing, budget>>

-----------------------------------------------------------------------------
(* The types, process by process                                           *)

(* The two ways in which a handler moves on.                               *)
LEMMA GoToType ==
    ASSUME chat \in [Requests -> Handler], NEW r \in Requests,
           NEW pc \in HandlerStates, GoTo(r, pc)
    PROVE  chat' \in [Requests -> Handler]
  BY DEF GoTo, Handler

LEMMA AnswerWithType ==
    ASSUME chat \in [Requests -> Handler], NEW r \in Requests,
           NEW answer \in Answers, AnswerWith(r, answer)
    PROVE  chat' \in [Requests -> Handler]
  BY DEF AnswerWith, Handler, HandlerStates

(* A worker's row with another current job is a worker's row.              *)
LEMMA CurrentJobType ==
    ASSUME workers \in [Workers -> WorkerRow], NEW w,
           NEW id \in TaskIds \cup {None}, WriteCurrentJob(w, id)
    PROVE  workers' \in [Workers -> WorkerRow]
  BY DEF WriteCurrentJob, WorkerRow

LEMMA ChatType ==
    ASSUME TypeInv, NEW r \in Requests, ChatStep(r), UNCHANGED Rest
    PROVE  TypeInv'
  <1> SUFFICES /\ reqs' \in [Requests -> ReqRow]
               /\ workers' \in [Workers -> WorkerRow]
               /\ jobs' \in [Requests -> JobRow]
               /\ loop' \in LoopHolders
               /\ chat' \in [Requests -> Handler]
      BY DEF TypeInv, TypeOK, AssignerOK, RunnerOK, Rest
  <1>a. /\ reqs \in [Requests -> ReqRow]
        /\ workers \in [Workers -> WorkerRow]
        /\ jobs \in [Requests -> JobRow]
        /\ loop \in LoopHolders
        /\ chat \in [Requests -> Handler]
      BY DEF TypeInv, TypeOK
  <1>b. Free \in LoopHolders /\ Chat(r) \in LoopHolders
      BY DEF LoopHolders, Chat
  <1>c. JobId(r) \in TaskIds \cup {None} BY DEF JobId, TaskIds
  <1>1. CASE Enqueue(r)
    <2>1. reqs' \in [Requests -> ReqRow]
        BY <1>1, <1>a DEF Enqueue, CreateRequest, ReqRow
    <2>2. chat' \in [Requests -> Handler]
        BY <1>1, <1>a, GoToType DEF Enqueue, HandlerStates
    <2> QED BY <1>1, <1>a, <1>b, <2>1, <2>2 DEF Enqueue, RunToAwait, Acquire
  <1>2. CASE PollAssignment(r)
    <2>1. chat' \in [Requests -> Handler]
        BY <1>2, <1>a DEF PollAssignment, Handler, HandlerStates, ReqRow
    <2> QED BY <1>2, <1>a, <1>b, <2>1 DEF PollAssignment, Acquire
  <1>3. CASE AssignmentTimeout(r)
    <2>1. chat' \in [Requests -> Handler]
        BY <1>3, <1>a, AnswerWithType DEF AssignmentTimeout, Answers
    <2> QED BY <1>3, <1>a, <1>b, <2>1 DEF AssignmentTimeout, Acquire
  <1>4. CASE SetJob(r)
    <2>1. workers' \in [Workers -> WorkerRow]
        BY <1>4, <1>a, <1>c, CurrentJobType DEF SetJob
    <2>2. chat' \in [Requests -> Handler]
        BY <1>4, <1>a, GoToType DEF SetJob, HandlerStates
    <2> QED BY <1>4, <1>a, <2>1, <2>2 DEF SetJob, Holding
  <1>5. CASE InsertJob(r)
    <2>1. Cardinality(Created) + 1 \in Nat BY <1>a, CreatedType
    <2>2. BoundWorker(r) \in Workers \cup {None} BY <1>a DEF BoundWorker, Handler
    <2>3. jobs' \in [Requests -> JobRow]
        BY <1>5, <1>a, <2>1, <2>2 DEF InsertJob, CreateJob, JobRow, JobStatus
    <2>4. chat' \in [Requests -> Handler]
        BY <1>5, <1>a, GoToType DEF InsertJob, HandlerStates
    <2> QED BY <1>5, <1>a, <1>b, <2>3, <2>4 DEF InsertJob, Release
  <1>6. CASE PollJob(r)
    <2>1. jobs[r].output \in Answers BY <1>a DEF JobRow, Answers
    <2>2. chat' \in [Requests -> Handler]
        BY <1>6, <1>a, <2>1, AnswerWithType DEF PollJob, Answers
    <2> QED BY <1>6, <1>a, <1>b, <2>2 DEF PollJob, Acquire
  <1>7. CASE JobTimeout(r)
    <2>1. chat' \in [Requests -> Handler]
        BY <1>7, <1>a, AnswerWithType DEF JobTimeout, Answers
    <2> QED BY <1>7, <1>a, <1>b, <2>1 DEF JobTimeout, Acquire
  <1>8. CASE Cleanup(r)
    <2>1. EffectiveWorker(r) \in Workers \cup {None}
        BY <1>a DEF EffectiveWorker, Handler, ReqRow
    <2>2. CASE GoTo(r, "deleting")
      <3>1. chat' \in [Requests -> Handler]
          BY <1>a, <2>2, GoToType DEF HandlerStates
      <3> QED BY <1>8, <1>a, <3>1 DEF Cleanup, Holding
    <2>3. CASE chat' = [chat EXCEPT ![r].pc = "clearing", ![r].clears = EffectiveWorker(r)]
      <3>1. chat' \in [Requests -> Handler]
          BY <1>a, <2>1, <2>3 DEF Handler, HandlerStates
      <3> QED BY <1>8, <1>a, <3>1 DEF Cleanup, Holding
    <2> QED BY <1>8, <2>2, <2>3 DEF Cleanup
  <1>9. CASE ClearWorker(r)
    <2>1. workers' \in [Workers -> WorkerRow]
        BY <1>9, <1>a, CurrentJobType DEF ClearWorker
    <2>2. chat' \in [Requests -> Handler]
        BY <1>9, <1>a DEF ClearWorker, Handler, HandlerStates
    <2> QED BY <1>9, <1>a, <2>1, <2>2 DEF ClearWorker, Holding
  <1>10. CASE Finish(r)
    <2>1. reqs' \in [Requests -> ReqRow]
        BY <1>10, <1>a DEF Finish, DeleteRequest, NoReq, ReqRow
    <2>2. chat' \in [Requests -> Handler]
        BY <1>10, <1>a, GoToType DEF Finish, HandlerStates
    <2> QED BY <1>10, <1>a, <1>b, <2>1, <2>2 DEF Finish, Release
  <1>11. CASE ForwardStep(r)
    <2>1. CASE WaitFirst(r)
      <3>1. chat' \in [Requests -> Handler]
          BY <2>1, <1>a, GoToType DEF WaitFirst, HandlerStates
      <3> QED BY <2>1, <1>a, <1>b, <3>1 DEF WaitFirst, Release
    <2>2. CASE ForwardAtOnce(r)
      <3>1. chat' \in [Requests -> Handler]
          BY <2>2, <1>a, GoToType, AnswerWithType DEF ForwardAtOnce, HandlerStates, Answers
      <3> QED BY <2>2, <1>a, <1>b, <3>1 DEF ForwardAtOnce, Release, Holding
    <2>3. CASE ForwardLater(r)
      <3>1. chat' \in [Requests -> Handler]
          BY <2>3, <1>a, GoToType DEF ForwardLater, HandlerStates
      <3> QED BY <2>3, <1>a, <3>1 DEF ForwardLater, RunToAwait
    <2>4. CASE Forwarded(r)
      <3>1. chat' \in [Requests -> Handler]
          BY <2>4, <1>a, AnswerWithType DEF Forwarded, Answers
      <3> QED BY <2>4, <1>a, <1>b, <3>1 DEF Forwarded, Acquire
    <2> QED BY <1>11, <2>1, <2>2, <2>3, <2>4 DEF ForwardStep
  <1> QED BY <1>11, <1>1, <1>2, <1>3, <1>4, <1>5, <1>6, <1>7, <1>8, <1>9, <1>10 DEF ChatStep

LEMMA IdleType == AsgIdle \in Assigner /\ ClnIdle \in Cleaner
  BY DEF AsgIdle, Assigner, ClnIdle, Cleaner, NothingLoaded, LoadedRow, WorkerStatus

LEMMA AssignerType ==
    ASSUME TypeInv, AssignerStep
    PROVE  /\ reqs' \in [Requests -> ReqRow]
           /\ workers' \in [Workers -> WorkerRow]
           /\ asg' \in Assigner
           /\ AssignerOK'
  <1>a. /\ reqs \in [Requests -> ReqRow]
        /\ workers \in [Workers -> WorkerRow]
        /\ asg \in Assigner
        /\ AssignerOK
      BY DEF TypeInv, TypeOK
  <1>b. CASE asg' = AsgIdle /\ UNCHANGED <<reqs, workers>>
      BY <1>a, <1>b, IdleType DEF AssignerOK, AsgIdle
  <1>1. CASE Scan
    <2>1. {ModelOf[r] : r \in PendingRequests} \subseteq Models
        BY ModelsAssumption DEF PendingRequests
    <2>2. PendingRequests \subseteq Requests BY DEF PendingRequests
    <2>3. asg' \in Assigner
        BY <1>1, <2>1, <2>2, IdleType DEF Scan, Assigner
    <2>4. asg'.pc = "rank" BY <1>1 DEF Scan, AsgIdle
    <2> QED BY <1>1, <1>a, <2>3, <2>4 DEF Scan, AssignerOK
  <1>2. CASE RankModel
    <2>1. PICK m \in asg.unranked :
            asg' = [asg EXCEPT !.pool[m] = Candidates(m),
                               !.unranked = @ \ {m},
                               !.pc = IF asg.unranked = {m} THEN "next" ELSE "rank"]
        BY <1>2 DEF RankModel
    <2>2. Candidates(m) \in SUBSET Workers BY DEF Candidates
    <2>3. asg' \in Assigner BY <1>a, <2>1, <2>2 DEF Assigner
    <2>4. asg'.pc \in {"next", "rank"} BY <1>a, <2>1 DEF Assigner
    <2> QED BY <1>2, <1>a, <2>3, <2>4 DEF RankModel, AssignerOK
  <1>3. CASE TakeRequest
    <2>1. PICK r \in asg.batch :
            asg' = IF Readable(r)
                   THEN [asg EXCEPT !.pc = "pop", !.req = r,
                                    !.batch = @ \ {r}, !.loaded = @ \cup {r}]
                   ELSE AsgIdle
        BY <1>3 DEF TakeRequest
    <2>2. r \in Requests BY <1>a DEF Assigner
    <2>3. CASE Readable(r)
      <3>1. asg' \in Assigner BY <1>a, <2>1, <2>2, <2>3 DEF Assigner
      <3>2. asg'.pc = "pop" /\ asg'.req = r BY <1>a, <2>1, <2>3 DEF Assigner
      <3> QED BY <1>3, <1>a, <2>2, <3>1, <3>2 DEF TakeRequest, AssignerOK
    <2>4. CASE ~Readable(r) BY <1>3, <1>b, <2>1, <2>4 DEF TakeRequest
    <2> QED BY <2>3, <2>4
  <1>4. CASE BatchDone BY <1>4, <1>b DEF BatchDone
  <1>5. CASE PoolExhausted
    <2>1. asg' \in Assigner BY <1>5, <1>a DEF PoolExhausted, Assigner
    <2>2. asg'.pc = "next" BY <1>5, <1>a DEF PoolExhausted, Assigner
    <2> QED BY <1>5, <1>a, <2>1, <2>2 DEF PoolExhausted, AssignerOK
  <1>6. CASE Reserve
    <2>1. asg.pc = "pop" /\ asg.req \in Requests BY <1>6, <1>a DEF Reserve, AssignerOK
    <2>2. PICK w \in LeftInPool :
            LET popped == [asg EXCEPT !.pool[ModelOf[asg.req]] = @ \ {w}, !.loaded = {}] IN
              \/ ~Readable(asg.req) /\ asg' = AsgIdle /\ UNCHANGED workers
              \/ /\ Readable(asg.req) /\ Reservable(w)
                 /\ WriteCurrentJob(w, ReqId(asg.req))
                 /\ asg' = [popped EXCEPT !.pc = "reserved", !.worker = w]
              \/ Readable(asg.req) /\ ~Reservable(w) /\ asg' = popped /\ UNCHANGED workers
        BY <1>6 DEF Reserve
    <2> DEFINE popped == [asg EXCEPT !.pool[ModelOf[asg.req]] = @ \ {w}, !.loaded = {}]
    <2>3. ModelOf[asg.req] \in Models BY <2>1, ModelsAssumption
    <2>4. w \in Workers BY <1>a, <2>3 DEF LeftInPool, Assigner
    <2>5. popped \in Assigner BY <1>a, <2>3 DEF Assigner
    <2>6. popped.pc = "pop" /\ popped.req = asg.req BY <1>a, <2>1 DEF Assigner
    <2> HIDE DEF popped
    <2>7. CASE asg' = AsgIdle /\ UNCHANGED workers BY <1>6, <1>b, <2>7 DEF Reserve
    <2>8. CASE WriteCurrentJob(w, ReqId(asg.req))
               /\ asg' = [popped EXCEPT !.pc = "reserved", !.worker = w]
      <3>1. ReqId(asg.req) \in TaskIds \cup {None} BY <2>1 DEF ReqId, TaskIds
      <3>2. workers' \in [Workers -> WorkerRow] BY <1>a, <2>8, <3>1, CurrentJobType
      <3>3. asg' \in Assigner BY <2>4, <2>5, <2>8 DEF Assigner
      <3>4. asg'.req = asg.req /\ asg'.worker = w BY <2>5, <2>6, <2>8 DEF Assigner
      <3> QED BY <1>6, <1>a, <2>1, <2>4, <3>2, <3>3, <3>4 DEF Reserve, AssignerOK
    <2>9. CASE asg' = popped /\ UNCHANGED workers
        BY <1>6, <1>a, <2>1, <2>5, <2>6, <2>9 DEF Reserve, AssignerOK
    <2> QED BY <2>2, <2>7, <2>8, <2>9 DEF popped
  <1>7. CASE ReadBack
    <2>1. asg.req \in Requests /\ asg.worker \in Workers BY <1>7, <1>a DEF ReadBack, AssignerOK
    <2>2. CASE HasRow(asg.req)
      <3>1. Matches(asg.worker, ReqId(asg.req)) \in BOOLEAN BY DEF Matches
      <3>2. asg' \in Assigner BY <1>7, <1>a, <2>1, <2>2, <3>1 DEF ReadBack, Assigner
      <3>3. asg'.req = asg.req /\ asg'.worker = asg.worker
          BY <1>7, <1>a, <2>2 DEF ReadBack, Assigner
      <3> QED BY <1>7, <1>a, <2>1, <3>2, <3>3 DEF ReadBack, AssignerOK
    <2>3. CASE ~HasRow(asg.req) BY <1>7, <1>b, <2>3 DEF ReadBack
    <2> QED BY <2>2, <2>3
  <1>8. CASE Assign
    <2>1. asg.req \in Requests /\ asg.worker \in Workers BY <1>8, <1>a DEF Assign, AssignerOK
    <2>2. reqs' \in [Requests -> ReqRow]
        BY <1>8, <1>a, <2>1 DEF Assign, AssignWorker, ReqRow
    <2>3. asg' \in Assigner BY <1>8, <1>a, <2>1 DEF Assign, Assigner
    <2>4. asg'.req = asg.req /\ asg'.worker = asg.worker BY <1>8, <1>a DEF Assign, Assigner
    <2> QED BY <1>8, <1>a, <2>1, <2>2, <2>3, <2>4 DEF Assign, AssignerOK
  <1>9. CASE GiveBack
    <2>1. asg.req \in Requests /\ asg.worker \in Workers BY <1>9, <1>a DEF GiveBack, AssignerOK
    <2>2. workers' \in [Workers -> WorkerRow]
        BY <1>9, <1>a, CurrentJobType DEF GiveBack
    <2>3. asg' \in Assigner BY <1>9, <1>a DEF GiveBack, Assigner
    <2>4. asg'.pc = "pop" /\ asg'.req = asg.req BY <1>9, <1>a DEF GiveBack, Assigner
    <2> QED BY <1>9, <1>a, <2>1, <2>2, <2>3, <2>4 DEF GiveBack, AssignerOK
  <1>10. CASE AssignRaises BY <1>10, <1>b DEF AssignRaises
  <1>11. CASE Confirm
    <2>1. asg.req \in Requests /\ asg.worker \in Workers BY <1>11, <1>a DEF Confirm, AssignerOK
    <2>2. CASE HasRow(asg.req)
      <3>1. asg' \in Assigner BY <1>11, <1>a, <2>1, <2>2 DEF Confirm, Claim, Assigner
      <3>2. asg'.pc = "next" BY <1>11, <1>a, <2>2 DEF Confirm, Assigner
      <3> QED BY <1>11, <1>a, <3>1, <3>2 DEF Confirm, AssignerOK
    <2>3. CASE ~HasRow(asg.req) BY <1>11, <1>b, <2>3 DEF Confirm
    <2> QED BY <2>2, <2>3
  <1> QED BY <1>1, <1>2, <1>3, <1>4, <1>5, <1>6, <1>7, <1>8, <1>9, <1>10, <1>11
          DEF AssignerStep

LEMMA CleanerType ==
    ASSUME TypeInv, CleanerStep
    PROVE  /\ reqs' \in [Requests -> ReqRow]
           /\ workers' \in [Workers -> WorkerRow]
           /\ cln' \in Cleaner
  <1>a. /\ reqs \in [Requests -> ReqRow]
        /\ workers \in [Workers -> WorkerRow]
        /\ cln \in Cleaner
      BY DEF TypeInv, TypeOK
  <1>1. CASE ScanStale
    <2>1. StaleWorkers \subseteq Workers BY DEF StaleWorkers
    <2>2. \A w \in Workers : Loaded(w) \in LoadedRow /\ NothingLoaded \in LoadedRow
        BY <1>a DEF Loaded, LoadedRow, NothingLoaded, WorkerRow, WorkerStatus
    <2>3. cln' \in Cleaner BY <1>1, <2>1, <2>2 DEF ScanStale, Cleaner
    <2> QED BY <1>1, <1>a, <2>3 DEF ScanStale
  <1>2. CASE Mark
    <2>1. workers' \in [Workers -> WorkerRow]
        BY <1>2, <1>a DEF Mark, MarkOffline, WorkerRow, WorkerStatus
    <2>2. cln' \in Cleaner BY <1>2, <1>a, IdleType DEF Mark, Cleaner
    <2> QED BY <1>2, <1>a, <2>1, <2>2 DEF Mark
  <1>3. CASE ReleaseRequests
    <2>1. reqs' \in [Requests -> ReqRow]
        BY <1>3, <1>a DEF ReleaseRequests, ReleaseAssigned, ReqRow
    <2> QED BY <1>3, <1>a, <2>1, IdleType DEF ReleaseRequests
  <1> QED BY <1>1, <1>2, <1>3 DEF CleanerStep

(* The variables of WorkerMgmt.                                            *)
MgmtTypes ==
    /\ workers \in [Workers -> WorkerRow]
    /\ jobs \in [Requests -> JobRow]
    /\ loop \in LoopHolders
    /\ runner \in [Workers -> Runner]
    /\ hb \in [Workers -> HeartbeatCall]
    /\ reports \in SUBSET Reports
    /\ completing \in Reports \cup {None}

LEMMA NoHeartbeatType == NoHeartbeat \in HeartbeatCall
  BY DEF NoHeartbeat, HeartbeatCall, HeartbeatStates, NothingLoaded, LoadedRow, WorkerStatus

LEMMA HeartbeatType ==
    ASSUME MgmtTypes, RunnerOK, NEW w \in Workers,
           \/ SendHeartbeat(w) \/ HeartbeatStep(w)
           \/ LoseHeartbeat(w) \/ HeartbeatRaises(w)
    PROVE  MgmtTypes' /\ RunnerOK'
  <1> SUFFICES /\ workers' \in [Workers -> WorkerRow]
               /\ loop' \in LoopHolders
               /\ hb' \in [Workers -> HeartbeatCall]
      BY DEF MgmtTypes, RunnerOK, SendHeartbeat, HeartbeatStep, LoadWorker, CommitHeartbeat,
             FinishHeartbeat, LoseHeartbeat, HeartbeatRaises
  <1>a. /\ workers \in [Workers -> WorkerRow]
        /\ loop \in LoopHolders
        /\ hb \in [Workers -> HeartbeatCall]
        /\ runner \in [Workers -> Runner]
      BY DEF MgmtTypes
  <1>b. Free \in LoopHolders /\ Heartbeat(w) \in LoopHolders BY DEF LoopHolders, Heartbeat
  <1>c. [hb EXCEPT ![w] = NoHeartbeat] \in [Workers -> HeartbeatCall]
      BY <1>a, NoHeartbeatType
  <1>1. CASE SendHeartbeat(w)
    <2>1. ActiveJob(w) \in JobIds \cup {None}
        BY DEF RunnerOK, ActiveJob, Active, JobIds, JobId
    <2>2. hb' \in [Workers -> HeartbeatCall]
        BY <1>1, <1>a, <2>1, NoHeartbeatType DEF SendHeartbeat, HeartbeatCall, HeartbeatStates
    <2> QED BY <1>1, <1>a, <2>2 DEF SendHeartbeat
  <1>2. CASE LoadWorker(w)
    <2>1. Loaded(w) \in LoadedRow BY <1>a DEF Loaded, LoadedRow, WorkerRow
    <2>2. hb' \in [Workers -> HeartbeatCall]
        BY <1>2, <1>a, <2>1 DEF LoadWorker, HeartbeatCall, HeartbeatStates
    <2> QED BY <1>2, <1>a, <1>b, <2>2 DEF LoadWorker, Acquire
  <1>3. CASE CommitHeartbeat(w)
    <2>1. hb[w].job \in TaskIds \cup {None}
        BY <1>a DEF HeartbeatCall, JobIds, TaskIds
    <2>2. workers' \in [Workers -> WorkerRow]
      <3> DEFINE status == IF hb[w].row.status = "online" THEN workers[w].status ELSE "online"
                 job == IF hb[w].row.job = hb[w].job THEN workers[w].current_job_id
                        ELSE hb[w].job
      <3>1. status \in WorkerStatus BY <1>a DEF WorkerRow, WorkerStatus
      <3>2. job \in TaskIds \cup {None} BY <1>a, <2>1 DEF WorkerRow
      <3>3. workers' = [workers EXCEPT ![w].status = status, ![w].current_job_id = job,
                                      ![w].fresh = TRUE]
          BY <1>3, <1>a DEF CommitHeartbeat, UpsertWorker, WorkerRow
      <3> HIDE DEF status, job
      <3> QED BY <1>a, <3>1, <3>2, <3>3 DEF WorkerRow
    <2>3. NothingLoaded \in LoadedRow BY DEF NothingLoaded, LoadedRow, WorkerStatus
    <2>4. hb' \in [Workers -> HeartbeatCall]
        BY <1>3, <1>a, <2>3 DEF CommitHeartbeat, HeartbeatCall, HeartbeatStates
    <2> QED BY <1>3, <1>a, <2>2, <2>4 DEF CommitHeartbeat, Holding
  <1>4. CASE FinishHeartbeat(w)
    <2>1. workers' \in [Workers -> WorkerRow]
        BY <1>4, <1>a, ModelsAssumption DEF FinishHeartbeat, ReplaceModels, WorkerRow
    <2> QED BY <1>4, <1>b, <1>c, <2>1 DEF FinishHeartbeat, Release
  <1>5. CASE LoseHeartbeat(w) BY <1>5, <1>a, <1>c DEF LoseHeartbeat
  <1>6. CASE HeartbeatRaises(w)
      BY <1>6, <1>a, <1>b, <1>c DEF HeartbeatRaises, Release
  <1> QED BY <1>1, <1>2, <1>3, <1>4, <1>5, <1>6 DEF HeartbeatStep

(* A runner that goes idle, or on with the job it has, keeps its types.    *)
LEMMA RunnerIdleType ==
    ASSUME runner \in [Workers -> Runner], RunnerOK, NEW w \in Workers,
           runner' = [runner EXCEPT ![w] = RunnerIdle]
    PROVE  runner' \in [Workers -> Runner] /\ RunnerOK'
  BY DEF Runner, RunnerOK, RunnerIdle, RunnerStates

LEMMA RunnerPcType ==
    ASSUME runner \in [Workers -> Runner], RunnerOK, NEW w \in Workers,
           runner[w].pc # "idle", NEW pc \in RunnerStates,
           runner' = [runner EXCEPT ![w].pc = pc]
    PROVE  runner' \in [Workers -> Runner] /\ RunnerOK'
  BY DEF Runner, RunnerOK, RunnerStates

LEMMA ReportType ==
    ASSUME RunnerOK, NEW w \in Workers, runner[w].pc # "idle",
           NEW error \in {"null", "blank", "message"}
    PROVE  Report(w, error) \in Reports
  BY DEF Report, Reports, RunnerOK

LEMMA RunnerType ==
    ASSUME MgmtTypes, RunnerOK, NEW w \in Workers,
           \/ RunnerStep(w) \/ Pull(w) \/ CompleteRaises(w) \/ LoseCall(w) \/ WorkerCrash(w)
    PROVE  MgmtTypes' /\ RunnerOK'
  <1>a. /\ runner \in [Workers -> Runner]
        /\ jobs \in [Requests -> JobRow]
        /\ reports \in SUBSET Reports
      BY DEF MgmtTypes
  <1>1. UNCHANGED <<workers, loop, completing, hb>>
      BY DEF RunnerStep, StartJob, InferenceOk, InferenceError, Pull, CompleteRaises,
             ReportErrorInstead, DropError, LoseCall, LosePullReply, LoseReport, WorkerCrash
  <1>2. SUFFICES /\ jobs' \in [Requests -> JobRow]
                 /\ reports' \in SUBSET Reports
                 /\ runner' \in [Workers -> Runner]
                 /\ RunnerOK'
      BY <1>1 DEF MgmtTypes
  <1>3. CASE Pull(w)
    <2>1. PICK r \in Requests :
            Lease(r) /\ runner' = [runner EXCEPT ![w] = [pc |-> "pulling", job |-> r]]
        BY <1>3 DEF Pull
    <2>2. jobs' \in [Requests -> JobRow] BY <1>a, <2>1 DEF Lease, JobRow, JobStatus
    <2>3. runner' \in [Workers -> Runner] /\ RunnerOK'
        BY <1>a, <2>1 DEF Runner, RunnerStates, RunnerOK
    <2> QED BY <1>3, <1>a, <2>2, <2>3 DEF Pull
  <1>4. CASE StartJob(w) /\ UNCHANGED jobs
    <2>1. runner' \in [Workers -> Runner] /\ RunnerOK'
        BY <1>4, <1>a, RunnerPcType DEF StartJob, RunnerStates
    <2> QED BY <1>4, <1>a, <2>1 DEF StartJob
  <1>5. CASE InferenceOk(w) /\ UNCHANGED jobs
    <2>1. runner' \in [Workers -> Runner] /\ RunnerOK'
        BY <1>5, <1>a, RunnerPcType DEF InferenceOk, RunnerStates
    <2>2. reports' \in SUBSET Reports BY <1>5, <1>a, ReportType DEF InferenceOk
    <2> QED BY <1>5, <1>a, <2>1, <2>2
  <1>6. CASE InferenceError(w) /\ UNCHANGED jobs
    <2>1. runner' \in [Workers -> Runner] /\ RunnerOK'
        BY <1>6, <1>a, RunnerPcType DEF InferenceError, RunnerStates
    <2>2. reports' \in SUBSET Reports BY <1>6, <1>a, ReportType DEF InferenceError
    <2> QED BY <1>6, <1>a, <2>1, <2>2
  <1>7. CASE ReportErrorInstead(w) /\ UNCHANGED jobs
    <2>1. runner' \in [Workers -> Runner] /\ RunnerOK'
        BY <1>7, <1>a, RunnerPcType DEF ReportErrorInstead, RunnerStates
    <2>2. reports' \in SUBSET Reports BY <1>7, <1>a, ReportType DEF ReportErrorInstead
    <2> QED BY <1>7, <1>a, <2>1, <2>2
  <1>8. CASE DropError(w) /\ UNCHANGED jobs
      BY <1>8, <1>a, RunnerIdleType DEF DropError
  <1>9. CASE LosePullReply(w) /\ UNCHANGED jobs
      BY <1>9, <1>a, RunnerIdleType DEF LosePullReply
  <1>10. CASE LoseReport /\ UNCHANGED jobs
      BY <1>10, <1>a DEF LoseReport, RunnerOK
  <1>11. CASE WorkerCrash(w)
      BY <1>11, <1>a, RunnerIdleType DEF WorkerCrash
  <1> QED BY <1>3, <1>4, <1>5, <1>6, <1>7, <1>8, <1>9, <1>10, <1>11
          DEF RunnerStep, CompleteRaises, LoseCall

LEMMA CompleteType ==
    ASSUME MgmtTypes, RunnerOK, CompleteStep
    PROVE  MgmtTypes' /\ RunnerOK'
  <1>a. /\ workers \in [Workers -> WorkerRow]
        /\ jobs \in [Requests -> JobRow]
        /\ runner \in [Workers -> Runner]
        /\ reports \in SUBSET Reports
        /\ completing \in Reports \cup {None}
      BY DEF MgmtTypes
  <1>1. CASE \E m \in reports : Complete(m)
    <2>1. PICK m \in reports : Complete(m) BY <1>1
    <2>2. m \in Reports BY <1>a
    <2>3. jobs' \in [Requests -> JobRow]
      <3> DEFINE status == IF m.error = "message" THEN "failed" ELSE "done"
                 output == IF m.error = "null" THEN "text" ELSE "empty"
      <3>1. status \in JobStatus /\ output \in {"none", "empty", "text"} BY DEF JobStatus
      <3>2. jobs' = [jobs EXCEPT ![m.req].status = status, ![m.req].output = output]
          BY <2>1 DEF Complete, CompleteJob
      <3>3. m.req \in Requests BY <2>2 DEF Reports
      <3> HIDE DEF status, output
      <3> QED BY <1>a, <3>1, <3>2, <3>3 DEF JobRow
    <2>4. loop' \in LoopHolders
        BY <2>1, <2>2 DEF Complete, Acquire, LoopHolders, Reports
    <2> QED BY <1>a, <2>1, <2>2, <2>3, <2>4 DEF Complete, MgmtTypes, RunnerOK
  <1>b. ASSUME completing # None
        PROVE  completing.worker \in Workers /\ completing \in Reports
      BY <1>a, <1>b DEF Reports
  <1>c. ASSUME completing # None, Answer(completing)
        PROVE  runner' \in [Workers -> Runner] /\ RunnerOK'
    <2>1. CASE UNCHANGED runner BY <1>a, <2>1 DEF RunnerOK
    <2>2. CASE runner' = [runner EXCEPT ![completing.worker] = RunnerIdle]
        BY <1>a, <1>b, <1>c, <2>2, RunnerIdleType
    <2> QED BY <1>c, <2>1, <2>2 DEF Answer
  <1>2. CASE CompleteMatches
    <2>1. loop' \in LoopHolders BY <1>2, <1>b DEF CompleteMatches, LoopHolders
    <2> QED BY <1>2, <2>1 DEF CompleteMatches, MgmtTypes, RunnerOK
  <1>3. CASE CompleteKeeps
      BY <1>3, <1>c DEF CompleteKeeps, MgmtTypes, Release, LoopHolders
  <1>4. CASE CompleteClears
    <2>1. workers' \in [Workers -> WorkerRow]
        BY <1>4, <1>a, CurrentJobType DEF CompleteClears
    <2> QED BY <1>4, <1>c, <2>1 DEF CompleteClears, MgmtTypes, Release, LoopHolders
  <1> QED BY <1>1, <1>2, <1>3, <1>4 DEF CompleteStep

LEMMA ServerCrashType ==
    ASSUME TypeInv, ServerCrash
    PROVE  /\ loop' \in LoopHolders
           /\ chat' \in [Requests -> Handler]
           /\ asg' \in Assigner /\ AssignerOK'
           /\ cln' \in Cleaner
           /\ hb' \in [Workers -> HeartbeatCall]
           /\ completing' \in Reports \cup {None}
  <1>1. chat' \in [Requests -> Handler]
      BY DEF TypeInv, TypeOK, ServerCrash, ChatsLost, Handler, HandlerStates
  <1>2. hb' \in [Workers -> HeartbeatCall]
      BY NoHeartbeatType DEF TypeInv, TypeOK, ServerCrash
  <1>3. asg'.pc = "idle" BY DEF ServerCrash, AsgIdle
  <1> QED BY <1>1, <1>2, <1>3, IdleType DEF ServerCrash, LoopHolders, AssignerOK

-----------------------------------------------------------------------------
(* Type correctness                                                        *)

LEMMA TypeInvInit == ASSUME Init PROVE TypeInv
  <1>1. reqs \in [Requests -> ReqRow]
      BY DEF Init, RequestQueueInit, NoReq, ReqRow
  <1>2. workers \in [Workers -> WorkerRow]
      BY DEF Init, WorkerRegistryInit, NoWorker, WorkerRow, WorkerStatus
  <1>3. jobs \in [Requests -> JobRow]
      BY DEF Init, JobQueueInit, NoJob, JobRow, JobStatus
  <1>4. loop \in LoopHolders BY DEF Init, EventLoopInit, LoopHolders
  <1>5. chat \in [Requests -> Handler]
      BY DEF Init, ChatInit, Handler, HandlerStates, Answers
  <1>6. asg \in Assigner /\ AssignerOK
      BY IdleType DEF Init, AssignerInit, AssignerOK, AsgIdle
  <1>7. cln \in Cleaner BY IdleType DEF Init, CleanerInit
  <1>8. /\ runner \in [Workers -> Runner] /\ RunnerOK
        /\ reports \in SUBSET Reports
      BY DEF Init, MgmtInit, RuntimeInit, Runner, RunnerIdle, RunnerStates, RunnerOK
  <1>9. hb \in [Workers -> HeartbeatCall] /\ completing \in Reports \cup {None}
      BY NoHeartbeatType DEF Init, MgmtInit
  <1>10. budget \in Nat BY FaultsAssumption DEF Init
  <1> QED BY <1>1, <1>2, <1>3, <1>4, <1>5, <1>6, <1>7, <1>8, <1>9, <1>10
          DEF TypeInv, TypeOK

LEMMA TypeInvStep == ASSUME TypeInv, [Next]_vars PROVE TypeInv'
  <1>a. MgmtTypes /\ RunnerOK BY DEF TypeInv, TypeOK, MgmtTypes
  <1>b. ASSUME MgmtTypes', RunnerOK', UNCHANGED <<reqs, chat, asg, cln>>, budget' \in Nat
        PROVE  TypeInv'
      BY <1>b DEF TypeInv, TypeOK, AssignerOK, MgmtTypes
  <1>1. ASSUME NEW r \in Requests, ChatMove(r) PROVE TypeInv'
      BY <1>1, ChatType DEF ChatMove, mgmtVars, Rest
  <1>2. CASE AssignerMove
      BY <1>2, AssignerType DEF AssignerMove, mgmtVars, TypeInv, TypeOK, RunnerOK
  <1>3. CASE CleanerMove
      BY <1>3, CleanerType DEF CleanerMove, mgmtVars, TypeInv, TypeOK, RunnerOK, AssignerOK
  <1>4. ASSUME NEW w \in Workers, HeartbeatSend(w) \/ HeartbeatMove(w) PROVE TypeInv'
    <2>1. MgmtTypes' /\ RunnerOK'
        BY <1>4, <1>a, HeartbeatType DEF HeartbeatSend, HeartbeatMove
    <2> QED BY <1>4, <1>b, <2>1 DEF HeartbeatSend, HeartbeatMove, TypeInv, TypeOK
  <1>5. ASSUME NEW w \in Workers, RunnerMove(w) PROVE TypeInv'
    <2>1. MgmtTypes' /\ RunnerOK' BY <1>5, <1>a, RunnerType DEF RunnerMove
    <2> QED BY <1>5, <1>b, <2>1 DEF RunnerMove, TypeInv, TypeOK
  <1>6. CASE CompleteMove
    <2>1. MgmtTypes' /\ RunnerOK' BY <1>6, <1>a, CompleteType DEF CompleteMove
    <2> QED BY <1>6, <1>b, <2>1 DEF CompleteMove, TypeInv, TypeOK
  <1>7. CASE Fault
    <2>0. budget' \in Nat BY <1>7 DEF Fault, TypeInv, TypeOK
    <2>1. ASSUME NEW w \in Workers, CallLost(w) \/ WorkerDies(w) PROVE TypeInv'
      <3>1. MgmtTypes' /\ RunnerOK'
          BY <2>1, <1>a, HeartbeatType, RunnerType DEF CallLost, WorkerDies
      <3> QED BY <2>1, <1>b, <2>0, <3>1 DEF CallLost, WorkerDies
    <2>2. ASSUME NEW w \in Workers, HeartbeatOverdue(w) PROVE TypeInv'
      <3>1. workers' \in [Workers -> WorkerRow]
          BY <2>2 DEF HeartbeatOverdue, GrowStale, TypeInv, TypeOK, WorkerRow
      <3> QED BY <2>0, <2>2, <3>1
              DEF HeartbeatOverdue, mgmtVars, TypeInv, TypeOK, AssignerOK, RunnerOK
    <2>3. CASE StatementRaises
      <3>1. CASE BatchRaises /\ UNCHANGED <<jobs, loop, chat, cln, mgmtVars>>
        <4>1. asg'.pc = "idle" BY <3>1 DEF BatchRaises, AsgIdle
        <4> QED BY <2>0, <3>1, <4>1, IdleType
                DEF BatchRaises, mgmtVars, TypeInv, TypeOK, AssignerOK, RunnerOK
      <3>2. CASE CleanupRaises /\ UNCHANGED <<jobs, loop, chat, asg, mgmtVars>>
          BY <2>0, <3>2, IdleType
             DEF CleanupRaises, mgmtVars, TypeInv, TypeOK, AssignerOK, RunnerOK
      <3>3. ASSUME NEW r \in Requests, HandlerRaises(r), UNCHANGED <<asg, cln, mgmtVars>>
            PROVE  TypeInv'
        <4>1. CASE BodyRaises(r)
          <5>1. chat' \in [Requests -> Handler]
              BY <4>1, AnswerWithType DEF BodyRaises, Answers, TypeInv, TypeOK
          <5>2. loop' \in LoopHolders
              BY <4>1 DEF BodyRaises, Acquire, Holding, Chat, LoopHolders, TypeInv, TypeOK
          <5> QED BY <2>0, <3>3, <4>1, <5>1, <5>2
                  DEF BodyRaises, mgmtVars, TypeInv, TypeOK, AssignerOK, RunnerOK
        <4>2. CASE FinallyRaises(r)
          <5>1. chat' \in [Requests -> Handler]
            <6>1. chat[r] \in Handler /\ chat \in [Requests -> Handler] BY DEF TypeInv, TypeOK
            <6> DEFINE h == [chat[r] EXCEPT !.pc = "lost", !.clears = None, !.answer = "error"]
            <6>2. h \in Handler BY <6>1 DEF Handler, HandlerStates, Answers
            <6>3. chat' = [chat EXCEPT ![r] = h] BY <4>2, <6>1 DEF FinallyRaises
            <6> HIDE DEF h
            <6> QED BY <6>1, <6>2, <6>3
          <5>2. loop' \in LoopHolders BY <4>2 DEF FinallyRaises, Release, LoopHolders
          <5> QED BY <2>0, <3>3, <4>2, <5>1, <5>2
                  DEF FinallyRaises, mgmtVars, TypeInv, TypeOK, AssignerOK, RunnerOK
        <4> QED BY <3>3, <4>1, <4>2 DEF HandlerRaises
      <3>4. ASSUME NEW w \in Workers, HeartbeatRaises(w), UNCHANGED <<reqs, chat, asg, cln>>
            PROVE  TypeInv'
          BY <1>a, <1>b, <2>0, <3>4, HeartbeatType
      <3> QED BY <2>3, <3>1, <3>2, <3>3, <3>4 DEF StatementRaises
    <2>4. CASE ServerCrash
      <3>1. UNCHANGED <<reqs, workers, jobs, runner, reports>>
          BY <2>4 DEF ServerCrash, tables
      <3> QED BY <2>0, <2>4, <3>1, ServerCrashType DEF TypeInv, TypeOK, RunnerOK
    <2> QED BY <1>7, <2>1, <2>2, <2>3, <2>4 DEF Fault
  <1>8. CASE UNCHANGED vars
      BY <1>8 DEF vars, TypeInv, TypeOK, AssignerOK, RunnerOK
  <1> QED BY <1>1, <1>2, <1>3, <1>4, <1>5, <1>6, <1>7, <1>8 DEF Next

LEMMA TypeInvariant == Spec => []TypeInv
  <1>1. Init => TypeInv BY TypeInvInit
  <1>2. TypeInv /\ [Next]_vars => TypeInv' BY TypeInvStep
  <1> QED BY <1>1, <1>2, PTL DEF Spec

(* Every variable keeps to its type: in particular a row of awaiting_reqs  *)
(* names a worker exactly while its status is assigned.                    *)
THEOREM TypeCorrect == Spec => []TypeOK
  <1>1. TypeInv => TypeOK BY DEF TypeInv
  <1> QED BY <1>1, TypeInvariant, PTL

-----------------------------------------------------------------------------
(* Jobs, leases and bindings                                               *)

LEMMA IdsDiffer ==
    /\ \A q, r \in Requests : ReqId(q) # JobId(r) /\ (JobId(q) = JobId(r) => q = r)
    /\ \A r \in Requests : JobId(r) # None
  BY NoneAssumption DEF ReqId, JobId, TaskIds

(* Most steps create no job, bind no handler and put no job on a worker,   *)
(* in a runner or in flight that was not there.                            *)
LEMMA JobInvFrame ==
    ASSUME TypeInv, JobInv,
           UNCHANGED jobs,
           \A q \in Requests : /\ chat'[q].worker = chat[q].worker
                               /\ chat'[q].pc \in Early => chat[q].pc \in Early
                               /\ chat'[q].pc \in Unbound => chat[q].pc \in Unbound,
           \A w \in Workers : runner'[w].job \in {runner[w].job, None},
           reports' \subseteq reports,
           completing' \in {completing, None},
           \A w \in Workers : hb'[w].job \in {hb[w].job, None},
           \A w \in Workers, r \in Requests :
              workers'[w].current_job_id = JobId(r) => workers[w].current_job_id = JobId(r)
    PROVE  JobInv'
  <1>1. UnboundHandlers' BY DEF JobInv, UnboundHandlers
  <1>2. JobsAreNew' BY DEF JobInv, JobsAreNew
  <1>3. JobsKeepTheirHandler' BY DEF JobInv, JobsKeepTheirHandler
  <1>4. ExecutionMatchesLease' BY DEF JobInv, ExecutionMatchesLease
  <1>5. ReportsMatchLease' BY DEF JobInv, ReportsMatchLease, LeasedTo
  <1>6. HeartbeatsMatchLease' BY IdsDiffer DEF JobInv, HeartbeatsMatchLease, LeasedTo
  <1>7. JobHeldByItsWorker' BY DEF JobInv, JobHeldByItsWorker
  <1> QED BY <1>1, <1>2, <1>3, <1>4, <1>5, <1>6, <1>7 DEF JobInv

(* A job may go on as long as it stays with the worker that leased it.     *)
LEMMA LeasesKept ==
    ASSUME TypeInv, JobInv, UNCHANGED <<runner, reports, hb>>,
           completing' \in {completing, None},
           \A q \in Requests, v \in Workers : LeasedTo(q, v) => LeasedTo(q, v)'
    PROVE  ExecutionMatchesLease' /\ ReportsMatchLease' /\ HeartbeatsMatchLease'
  <1>1. ExecutionMatchesLease'
    <2> SUFFICES ASSUME NEW w \in Workers, runner[w].job # None
                 PROVE  LeasedTo(runner[w].job, w)'
        BY DEF ExecutionMatchesLease, LeasedTo
    <2>1. runner[w].job \in Requests BY DEF TypeInv, TypeOK, Runner
    <2> QED BY <2>1 DEF JobInv, ExecutionMatchesLease, LeasedTo
  <1>2. ReportsMatchLease'
      BY DEF JobInv, ReportsMatchLease, TypeInv, TypeOK, Reports
  <1>3. HeartbeatsMatchLease' BY DEF JobInv, HeartbeatsMatchLease
  <1> QED BY <1>1, <1>2, <1>3

LEMMA JobInvInit == ASSUME Init PROVE JobInv
  <1>1. UnboundHandlers /\ JobsAreNew /\ JobsKeepTheirHandler
      BY DEF Init, ChatInit, JobQueueInit, NoJob, UnboundHandlers, JobsAreNew,
             JobsKeepTheirHandler
  <1>2. ExecutionMatchesLease /\ ReportsMatchLease
      BY DEF Init, MgmtInit, RuntimeInit, RunnerIdle, ExecutionMatchesLease, ReportsMatchLease
  <1>3. HeartbeatsMatchLease /\ JobHeldByItsWorker
      BY IdsDiffer DEF Init, MgmtInit, NoHeartbeat, WorkerRegistryInit, NoWorker,
                       HeartbeatsMatchLease, JobHeldByItsWorker
  <1> QED BY <1>1, <1>2, <1>3 DEF JobInv

LEMMA JobInvChat ==
    ASSUME TypeInv, JobInv, NEW r \in Requests, ChatStep(r), UNCHANGED Rest
    PROVE  JobInv'
  <1>a. /\ chat \in [Requests -> Handler]
        /\ workers \in [Workers -> WorkerRow]
        /\ jobs \in [Requests -> JobRow]
        /\ reqs \in [Requests -> ReqRow]
      BY DEF TypeInv, TypeOK
  <1>b. UNCHANGED <<runner, hb, reports, completing>> BY DEF Rest
  (* A step that only moves the handler on, past or within its early part. *)
  <1>c. ASSUME UNCHANGED jobs,
               NEW pc, pc \in Early => chat[r].pc \in Early,
               pc \in Unbound => chat[r].pc \in Unbound,
               chat'[r].pc = pc, chat'[r].worker = chat[r].worker,
               \A q \in Requests \ {r} : chat'[q] = chat[q],
               \A v \in Workers : workers'[v].current_job_id \in {workers[v].current_job_id, None}
        PROVE  JobInv'
      BY <1>b, <1>c, IdsDiffer, JobInvFrame
  <1>1. CASE Enqueue(r)
      BY <1>1, <1>a, <1>c DEF Enqueue, GoTo, Handler, Early, Unbound
  <1>2. CASE PollAssignment(r)
    <2>1. chat' = [chat EXCEPT ![r].pc = "assigned", ![r].worker = reqs[r].worker]
          /\ chat[r].pc = "waiting" /\ UNCHANGED <<jobs, workers>>
        BY <1>2 DEF PollAssignment
    <2>2. chat[r].worker = None /\ jobs[r].status = "absent"
        BY <2>1 DEF JobInv, UnboundHandlers, Unbound, JobsAreNew, Early
    <2>3. \A v \in Workers : workers[v].current_job_id # JobId(r)
        BY <2>2, NoneAssumption DEF JobInv, JobHeldByItsWorker
    <2>4. /\ chat'[r].pc = "assigned"
          /\ \A q \in Requests \ {r} : chat'[q] = chat[q]
        BY <2>1, <1>a DEF Handler
    <2>5. ExecutionMatchesLease' /\ ReportsMatchLease' /\ HeartbeatsMatchLease'
        BY <2>1, <1>b, LeasesKept DEF LeasedTo
    <2>6. UnboundHandlers' /\ JobsAreNew' /\ JobsKeepTheirHandler'
        BY <2>1, <2>2, <2>4
           DEF JobInv, UnboundHandlers, JobsAreNew, JobsKeepTheirHandler, Early, Unbound
    <2>7. JobHeldByItsWorker'
      <3> SUFFICES ASSUME NEW v \in Workers, NEW q \in Requests,
                          workers[v].current_job_id = JobId(q)
                   PROVE  chat'[q].worker = v
          BY <2>1 DEF JobHeldByItsWorker
      <3>1. q # r BY <2>3
      <3> QED BY <2>4, <3>1 DEF JobInv, JobHeldByItsWorker
    <2> QED BY <2>5, <2>6, <2>7 DEF JobInv
  <1>3. CASE AssignmentTimeout(r)
      BY <1>3, <1>a, <1>c DEF AssignmentTimeout, AnswerWith, Handler, Early, Unbound
  <1>4. CASE SetJob(r)
    <2>1. chat' = [chat EXCEPT ![r].pc = "jobset"] /\ chat[r].pc = "assigned"
          /\ UNCHANGED jobs
          /\ workers' = [workers EXCEPT ![chat[r].worker].current_job_id = JobId(r)]
        BY <1>4 DEF SetJob, GoTo, WriteCurrentJob, BoundWorker
    <2>2. \A q \in Requests : chat'[q].worker = chat[q].worker
                              /\ (chat'[q].pc \in Early => chat[q].pc \in Early)
                              /\ (chat'[q].pc \in Unbound => chat'[q] = chat[q])
        BY <2>1, <1>a DEF Handler, Early, Unbound
    <2>3. \A v \in Workers : v # chat[r].worker => workers'[v] = workers[v]
        BY <2>1, <1>a
    <2>4. \A v \in Workers : v = chat[r].worker => workers'[v].current_job_id = JobId(r)
        BY <2>1, <1>a DEF WorkerRow
    <2>5. ExecutionMatchesLease' /\ ReportsMatchLease' /\ HeartbeatsMatchLease'
        BY <2>1, <1>b, LeasesKept DEF LeasedTo
    <2>6. UnboundHandlers' /\ JobsAreNew' /\ JobsKeepTheirHandler'
        BY <2>1, <2>2 DEF JobInv, UnboundHandlers, JobsAreNew, JobsKeepTheirHandler
    <2>7. JobHeldByItsWorker'
      <3> SUFFICES ASSUME NEW v \in Workers, NEW q \in Requests,
                          workers'[v].current_job_id = JobId(q)
                   PROVE  chat'[q].worker = v
          BY DEF JobHeldByItsWorker
      <3>1. CASE v = chat[r].worker
        <4>1. q = r BY <2>4, <3>1, IdsDiffer
        <4> QED BY <2>2, <3>1, <4>1
      <3>2. CASE v # chat[r].worker BY <2>2, <2>3, <3>2 DEF JobInv, JobHeldByItsWorker
      <3> QED BY <3>1, <3>2
    <2> QED BY <2>5, <2>6, <2>7 DEF JobInv
  <1>5. CASE InsertJob(r)
    <2> DEFINE row == [status |-> "pending", worker |-> chat[r].worker,
                       created |-> Cardinality(Created) + 1, output |-> "none"]
    <2>1. chat' = [chat EXCEPT ![r].pc = "polling"] /\ chat[r].pc = "jobset"
          /\ UNCHANGED workers /\ jobs' = [jobs EXCEPT ![r] = row]
        BY <1>5 DEF InsertJob, GoTo, CreateJob, BoundWorker
    <2>2. jobs[r].status = "absent" BY <2>1 DEF JobInv, JobsAreNew, Early, Unbound
    <2>3. \A q \in Requests : chat'[q].worker = chat[q].worker
                              /\ (chat'[q].pc \in Early => q # r /\ chat'[q] = chat[q])
                              /\ (chat'[q].pc \in Unbound => chat'[q] = chat[q])
        BY <2>1, <1>a DEF Handler, Early, Unbound
    <2>4. jobs'[r].worker = chat[r].worker /\ \A q \in Requests \ {r} : jobs'[q] = jobs[q]
        BY <2>1, <1>a
    <2> HIDE DEF row
    <2>5. ExecutionMatchesLease' /\ ReportsMatchLease' /\ HeartbeatsMatchLease'
        BY <2>2, <2>4, <1>b, LeasesKept DEF LeasedTo, Leased
    <2>6. UnboundHandlers' /\ JobsAreNew' /\ JobsKeepTheirHandler'
        BY <2>3, <2>4 DEF JobInv, UnboundHandlers, JobsAreNew, JobsKeepTheirHandler
    <2>7. JobHeldByItsWorker' BY <2>1, <2>3 DEF JobInv, JobHeldByItsWorker
    <2> QED BY <2>5, <2>6, <2>7 DEF JobInv
  <1>6. CASE PollJob(r)
      BY <1>6, <1>a, <1>c DEF PollJob, AnswerWith, Handler, Early, Unbound
  <1>7. CASE JobTimeout(r)
      BY <1>7, <1>a, <1>c DEF JobTimeout, AnswerWith, Handler, Early, Unbound
  <1>8. CASE Cleanup(r)
      BY <1>8, <1>a, <1>c DEF Cleanup, GoTo, Handler, Early, Unbound
  <1>9. CASE ClearWorker(r)
    <2>1. \A v \in Workers : workers'[v].current_job_id \in {workers[v].current_job_id, None}
        BY <1>9, <1>a DEF ClearWorker, WriteCurrentJob, WorkerRow
    <2> QED BY <1>9, <1>a, <1>c, <2>1 DEF ClearWorker, Handler, Early, Unbound
  <1>10. CASE Finish(r)
      BY <1>10, <1>a, <1>c DEF Finish, GoTo, Handler, Early, Unbound
  <1>11. CASE ForwardStep(r)
      BY <1>11, <1>a, <1>c DEF ForwardStep, WaitFirst, ForwardAtOnce, ForwardLater, Forwarded,
                               AnswerWith, GoTo, Handler, Early, Unbound
  <1> QED BY <1>11, <1>1, <1>2, <1>3, <1>4, <1>5, <1>6, <1>7, <1>8, <1>9, <1>10 DEF ChatStep

(* The assigner writes reservations and the cleaner NULLs: neither writes  *)
(* a job.                                                                  *)
LEMMA NoJobWritten ==
    ASSUME TypeInv, NEW w, NEW id, WriteCurrentJob(w, id),
           id = None \/ \E q \in Requests : id = ReqId(q)
    PROVE  \A v \in Workers, r \in Requests :
             workers'[v].current_job_id = JobId(r) => workers[v].current_job_id = JobId(r)
  <1>1. workers \in [Workers -> WorkerRow] BY DEF TypeInv, TypeOK
  <1>2. \A v \in Workers : workers'[v].current_job_id \in {workers[v].current_job_id, id}
      BY <1>1 DEF WriteCurrentJob, WorkerRow
  <1> QED BY <1>2, IdsDiffer

LEMMA JobInvAssigner ==
    ASSUME TypeInv, JobInv, AssignerStep, UNCHANGED <<jobs, chat, runner, hb, reports, completing>>
    PROVE  JobInv'
  <1> SUFFICES \A v \in Workers, r \in Requests :
                 workers'[v].current_job_id = JobId(r) => workers[v].current_job_id = JobId(r)
      BY JobInvFrame
  <1>1. CASE UNCHANGED workers BY <1>1
  <1>2. CASE Reserve
    <2>1. asg.req \in Requests BY <1>2 DEF Reserve, TypeInv, AssignerOK
    <2>2. UNCHANGED workers \/ \E w \in LeftInPool : WriteCurrentJob(w, ReqId(asg.req))
        BY <1>2 DEF Reserve
    <2> QED BY <1>1, <2>1, <2>2, NoJobWritten
  <1>3. CASE GiveBack
    <2>1. UNCHANGED workers \/ WriteCurrentJob(asg.worker, None) BY <1>3 DEF GiveBack
    <2> QED BY <1>1, <2>1, NoJobWritten
  <1> QED BY <1>1, <1>2, <1>3 DEF AssignerStep, Scan, RankModel, TakeRequest, BatchDone,
             PoolExhausted, ReadBack, Assign, AssignRaises, Confirm

LEMMA JobInvCleaner ==
    ASSUME TypeInv, JobInv, CleanerStep, UNCHANGED <<jobs, chat, runner, hb, reports, completing>>
    PROVE  JobInv'
  <1> SUFFICES \A v \in Workers : workers'[v].current_job_id \in {workers[v].current_job_id, None}
      BY JobInvFrame, IdsDiffer
  <1>1. workers \in [Workers -> WorkerRow] BY DEF TypeInv, TypeOK
  <1>2. CASE Mark BY <1>1, <1>2 DEF Mark, MarkOffline, WorkerRow
  <1>3. CASE ScanStale \/ ReleaseRequests BY <1>3 DEF ScanStale, ReleaseRequests
  <1> QED BY <1>2, <1>3 DEF CleanerStep

LEMMA JobInvHeartbeat ==
    ASSUME TypeInv, JobInv, NEW w \in Workers, UNCHANGED chat,
           \/ SendHeartbeat(w) \/ HeartbeatStep(w)
           \/ LoseHeartbeat(w) \/ HeartbeatRaises(w)
    PROVE  JobInv'
  <1>a. /\ workers \in [Workers -> WorkerRow]
        /\ hb \in [Workers -> HeartbeatCall]
        /\ runner \in [Workers -> Runner]
      BY DEF TypeInv, TypeOK
  <1>b. UNCHANGED <<jobs, runner, reports, completing>>
      BY DEF SendHeartbeat, HeartbeatStep, LoadWorker, CommitHeartbeat, FinishHeartbeat,
             LoseHeartbeat, HeartbeatRaises
  <1>c. ASSUME UNCHANGED workers, \A v \in Workers : hb'[v].job \in {hb[v].job, None}
        PROVE  JobInv'
      BY <1>b, <1>c, JobInvFrame
  <1>d. CASE UNCHANGED workers /\ hb' = [hb EXCEPT ![w] = NoHeartbeat]
      BY <1>a, <1>c, <1>d DEF NoHeartbeat
  <1>1. CASE SendHeartbeat(w)
    <2>1. /\ hb'[w].job = ActiveJob(w)
          /\ \A v \in Workers \ {w} : hb'[v] = hb[v]
          /\ UNCHANGED workers
        BY <1>1, <1>a DEF SendHeartbeat
    <2>2. \A r \in Requests : ActiveJob(w) = JobId(r) => LeasedTo(r, w)
      <3> SUFFICES ASSUME NEW r \in Requests, ActiveJob(w) = JobId(r) PROVE LeasedTo(r, w)
          OBVIOUS
      <3>1. Active(w) BY IdsDiffer DEF ActiveJob
      <3>2. runner[w].job \in Requests BY <3>1 DEF Active, TypeInv, RunnerOK
      <3>3. runner[w].job = r BY <3>1, <3>2, IdsDiffer DEF ActiveJob
      <3>4. r # None BY NoneAssumption
      <3> QED BY <3>3, <3>4 DEF JobInv, ExecutionMatchesLease, LeasedTo
    <2>3. HeartbeatsMatchLease'
        BY <1>b, <2>1, <2>2 DEF JobInv, HeartbeatsMatchLease, LeasedTo
    <2> QED BY <1>b, <2>1, <2>3
            DEF JobInv, UnboundHandlers, JobsAreNew, JobsKeepTheirHandler, ReportsMatchLease,
                ExecutionMatchesLease, JobHeldByItsWorker, LeasedTo
  <1>2. CASE LoadWorker(w) BY <1>2, <1>a, <1>c DEF LoadWorker, HeartbeatCall
  <1>3. CASE CommitHeartbeat(w)
    <2>1. \A v \in Workers : hb'[v].job = hb[v].job
        BY <1>3, <1>a DEF CommitHeartbeat, HeartbeatCall
    <2>2. /\ workers'[w].current_job_id \in {workers[w].current_job_id, hb[w].job}
          /\ \A v \in Workers \ {w} : workers'[v] = workers[v]
        BY <1>3, <1>a DEF CommitHeartbeat, UpsertWorker, WorkerRow
    <2>3. JobHeldByItsWorker'
      <3> SUFFICES ASSUME NEW v \in Workers, NEW r \in Requests,
                          workers'[v].current_job_id = JobId(r)
                   PROVE  chat[r].worker = v
          BY DEF JobHeldByItsWorker
      <3>1. CASE workers[v].current_job_id = JobId(r) BY <3>1 DEF JobInv, JobHeldByItsWorker
      <3>2. CASE hb[v].job = JobId(r)
        <4>1. LeasedTo(r, v) BY <3>2 DEF JobInv, HeartbeatsMatchLease
        <4> QED BY <4>1 DEF JobInv, JobsKeepTheirHandler, LeasedTo, Leased
      <3> QED BY <2>2, <3>1, <3>2
    <2>4. HeartbeatsMatchLease' BY <1>b, <2>1 DEF JobInv, HeartbeatsMatchLease, LeasedTo
    <2> QED BY <1>b, <2>3, <2>4
            DEF JobInv, UnboundHandlers, JobsAreNew, JobsKeepTheirHandler, ReportsMatchLease,
                ExecutionMatchesLease, LeasedTo
  <1>4. CASE FinishHeartbeat(w)
    <2>1. \A v \in Workers : workers'[v].current_job_id = workers[v].current_job_id
        BY <1>4, <1>a DEF FinishHeartbeat, ReplaceModels, WorkerRow
    <2>2. \A v \in Workers : hb'[v].job \in {hb[v].job, None}
        BY <1>4, <1>a DEF FinishHeartbeat, NoHeartbeat
    <2> QED BY <1>b, <2>1, <2>2, JobInvFrame
  <1>5. CASE LoseHeartbeat(w) BY <1>5, <1>d DEF LoseHeartbeat
  <1>6. CASE HeartbeatRaises(w) BY <1>6, <1>d DEF HeartbeatRaises
  <1> QED BY <1>1, <1>2, <1>3, <1>4, <1>5, <1>6 DEF HeartbeatStep

(* A runner takes only what was pending for it, and reports only what it   *)
(* has taken.                                                              *)
LEMMA JobInvRunner ==
    ASSUME TypeInv, JobInv, NEW w \in Workers, UNCHANGED chat,
           \/ RunnerStep(w) \/ Pull(w) \/ CompleteRaises(w) \/ LoseCall(w) \/ WorkerCrash(w)
    PROVE  JobInv'
  <1>a. /\ runner \in [Workers -> Runner]
        /\ jobs \in [Requests -> JobRow]
      BY DEF TypeInv, TypeOK
  <1>b. UNCHANGED <<workers, hb, completing>>
      BY DEF RunnerStep, StartJob, InferenceOk, InferenceError, Pull, CompleteRaises,
             ReportErrorInstead, DropError, LoseCall, LosePullReply, LoseReport, WorkerCrash
  <1>c. ASSUME UNCHANGED jobs, reports' \subseteq reports,
               \A v \in Workers : runner'[v].job \in {runner[v].job, None}
        PROVE  JobInv'
      BY <1>b, <1>c, JobInvFrame
  <1>d. ASSUME UNCHANGED jobs, NEW pc, runner' = [runner EXCEPT ![w].pc = pc],
               runner[w].pc # "idle",
               NEW error, reports' = reports \cup {Report(w, error)}
        PROVE  JobInv'
    <2>1. \A v \in Workers : runner'[v].job = runner[v].job BY <1>a, <1>d DEF Runner
    <2>2. runner[w].job \in Requests /\ runner[w].job # None
        BY <1>d, NoneAssumption DEF TypeInv, RunnerOK
    <2>3. LeasedTo(Report(w, error).req, Report(w, error).worker)
        BY <2>2 DEF JobInv, ExecutionMatchesLease, Report, LeasedTo
    <2>4. ReportsMatchLease' BY <1>b, <1>d, <2>3 DEF JobInv, ReportsMatchLease, LeasedTo
    <2>5. ExecutionMatchesLease' BY <1>d, <2>1 DEF JobInv, ExecutionMatchesLease
    <2> QED BY <1>b, <1>d, <2>4, <2>5
            DEF JobInv, UnboundHandlers, JobsAreNew, JobsKeepTheirHandler,
                HeartbeatsMatchLease, JobHeldByItsWorker, LeasedTo
  <1>1. CASE Pull(w)
    <2>1. PICK r \in Requests :
            /\ NextForWorker(w, r) /\ Lease(r)
            /\ runner' = [runner EXCEPT ![w] = [pc |-> "pulling", job |-> r]]
        BY <1>1 DEF Pull
    <2>2. jobs[r].status = "pending" /\ jobs[r].worker = w BY <2>1 DEF NextForWorker
    <2>3. /\ jobs'[r].status = "running" /\ jobs'[r].worker = w
          /\ \A q \in Requests \ {r} : jobs'[q] = jobs[q]
        BY <1>a, <2>1, <2>2 DEF Lease, JobRow
    <2>4. /\ runner'[w].job = r
          /\ \A v \in Workers \ {w} : runner'[v] = runner[v]
        BY <1>a, <2>1
    <2>5. \A q \in Requests, v \in Workers : LeasedTo(q, v) => q # r /\ LeasedTo(q, v)'
        BY <2>2, <2>3 DEF LeasedTo, Leased
    <2>6. LeasedTo(r, w)' BY <2>3 DEF LeasedTo, Leased
    <2>7. ExecutionMatchesLease'
      <3>1. ASSUME NEW v \in Workers, v # w, runner'[v].job # None
            PROVE  /\ jobs'[runner'[v].job].worker = v
                   /\ jobs'[runner'[v].job].status \in Leased
        <4>1. runner'[v].job = runner[v].job BY <2>4, <3>1
        <4>2. jobs[runner[v].job].worker = v /\ jobs[runner[v].job].status \in Leased
            BY <3>1, <4>1 DEF JobInv, ExecutionMatchesLease
        <4>3. runner[v].job \in Requests BY <1>a, <3>1, <4>1 DEF Runner
        <4>4. runner[v].job # r BY <2>2, <4>2 DEF Leased
        <4> QED BY <2>3, <4>1, <4>2, <4>3, <4>4
      <3>2. jobs'[runner'[w].job].worker = w /\ jobs'[runner'[w].job].status \in Leased
          BY <2>3, <2>4 DEF Leased
      <3> QED BY <3>1, <3>2 DEF ExecutionMatchesLease
    <2>8. ReportsMatchLease' /\ HeartbeatsMatchLease'
        BY <1>1, <1>b, <2>5
           DEF Pull, JobInv, ReportsMatchLease, HeartbeatsMatchLease, TypeInv, TypeOK, Reports
    <2>9. UnboundHandlers' /\ JobsAreNew' /\ JobsKeepTheirHandler' /\ JobHeldByItsWorker'
        BY <1>b, <2>2, <2>3
           DEF JobInv, UnboundHandlers, JobsAreNew, JobsKeepTheirHandler, JobHeldByItsWorker
    <2> QED BY <2>7, <2>8, <2>9 DEF JobInv
  <1>2. CASE StartJob(w) /\ UNCHANGED jobs BY <1>2, <1>a, <1>c DEF StartJob, Runner
  <1>3. CASE InferenceOk(w) /\ UNCHANGED jobs BY <1>3, <1>d DEF InferenceOk
  <1>4. CASE InferenceError(w) /\ UNCHANGED jobs BY <1>4, <1>d DEF InferenceError
  <1>5. CASE ReportErrorInstead(w) /\ UNCHANGED jobs BY <1>5, <1>d DEF ReportErrorInstead
  <1>6. CASE (DropError(w) \/ LosePullReply(w) \/ WorkerCrash(w)) /\ UNCHANGED jobs
      BY <1>6, <1>a, <1>c DEF DropError, LosePullReply, WorkerCrash, RunnerIdle
  <1>7. CASE LoseReport /\ UNCHANGED jobs BY <1>7, <1>c DEF LoseReport
  <1>8. WorkerCrash(w) => UNCHANGED jobs BY DEF WorkerCrash
  <1> QED BY <1>1, <1>2, <1>3, <1>4, <1>5, <1>6, <1>7, <1>8
          DEF RunnerStep, CompleteRaises, LoseCall

(* complete_job reaches only jobs that are leased, and leaves them so.     *)
LEMMA JobInvComplete ==
    ASSUME TypeInv, JobInv, CompleteStep, UNCHANGED chat
    PROVE  JobInv'
  <1>a. /\ runner \in [Workers -> Runner]
        /\ jobs \in [Requests -> JobRow]
        /\ workers \in [Workers -> WorkerRow]
        /\ reports \in SUBSET Reports
        /\ completing \in Reports \cup {None}
      BY DEF TypeInv, TypeOK
  <1>1. CASE \E m \in reports : Complete(m)
    <2>1. PICK m \in reports : Complete(m) BY <1>1
    <2>2. m.req \in Requests BY <1>a DEF Reports
    <2>3. LeasedTo(m.req, m.worker) BY DEF JobInv, ReportsMatchLease
    <2>4. /\ jobs'[m.req].status \in Terminal /\ jobs'[m.req].worker = jobs[m.req].worker
          /\ \A q \in Requests \ {m.req} : jobs'[q] = jobs[q]
        BY <1>a, <2>1, <2>2 DEF Complete, CompleteJob, JobRow, Terminal
    <2>5. \A q \in Requests, v \in Workers : LeasedTo(q, v) => LeasedTo(q, v)'
        BY <2>4 DEF LeasedTo, Leased, Terminal
    <2>6. UNCHANGED <<workers, runner, hb>> /\ reports' = reports \ {m} /\ completing' = m
        BY <2>1 DEF Complete
    <2>7. ExecutionMatchesLease'
        BY <1>a, <2>5, <2>6 DEF JobInv, ExecutionMatchesLease, LeasedTo, Runner
    <2>8. ReportsMatchLease' /\ HeartbeatsMatchLease'
        BY <1>a, <2>2, <2>3, <2>5, <2>6
           DEF JobInv, ReportsMatchLease, HeartbeatsMatchLease, Reports
    <2>9. UnboundHandlers' /\ JobsAreNew' /\ JobsKeepTheirHandler' /\ JobHeldByItsWorker'
        BY <2>3, <2>4, <2>6
           DEF JobInv, UnboundHandlers, JobsAreNew, JobsKeepTheirHandler, JobHeldByItsWorker,
               LeasedTo, Leased
    <2> QED BY <2>7, <2>8, <2>9 DEF JobInv
  <1>2. CASE CompleteMatches
      BY <1>2, JobInvFrame DEF CompleteMatches
  <1>b. ASSUME NEW m, Answer(m), m.worker \in Workers
        PROVE  \A v \in Workers : runner'[v].job \in {runner[v].job, None}
      BY <1>a, <1>b DEF Answer, RunnerIdle
  <1>c. completing # None => completing.worker \in Workers BY <1>a DEF Reports
  <1>3. CASE CompleteKeeps
      BY <1>3, <1>b, <1>c, JobInvFrame DEF CompleteKeeps
  <1>4. CASE CompleteClears
    <2>1. \A v \in Workers, r \in Requests :
            workers'[v].current_job_id = JobId(r) => workers[v].current_job_id = JobId(r)
        BY <1>4, NoJobWritten DEF CompleteClears
    <2> QED BY <1>4, <1>b, <1>c, <2>1, JobInvFrame DEF CompleteClears
  <1> QED BY <1>1, <1>2, <1>3, <1>4 DEF CompleteStep

LEMMA JobInvFault == ASSUME TypeInv, JobInv, Fault PROVE JobInv'
  <1>1. ASSUME NEW w \in Workers, CallLost(w) \/ WorkerDies(w) PROVE JobInv'
      BY <1>1, JobInvHeartbeat, JobInvRunner DEF CallLost, WorkerDies
  <1>2. ASSUME NEW w \in Workers, HeartbeatOverdue(w) PROVE JobInv'
    <2>1. \A v \in Workers : workers'[v].current_job_id = workers[v].current_job_id
        BY <1>2 DEF HeartbeatOverdue, GrowStale, WorkerRow, TypeInv, TypeOK
    <2> QED BY <1>2, <2>1, JobInvFrame DEF HeartbeatOverdue, mgmtVars
  <1>3. CASE StatementRaises
    <2>1. CASE \/ BatchRaises /\ UNCHANGED <<jobs, loop, chat, cln, mgmtVars>>
               \/ CleanupRaises /\ UNCHANGED <<jobs, loop, chat, asg, mgmtVars>>
        BY <2>1, JobInvFrame DEF BatchRaises, CleanupRaises, mgmtVars
    <2>2. ASSUME NEW r \in Requests, HandlerRaises(r), UNCHANGED <<asg, cln, mgmtVars>>
          PROVE  JobInv'
      <3>1. \A q \in Requests : /\ chat'[q].worker = chat[q].worker
                                /\ chat'[q].pc \in Early => chat[q].pc \in Early
                                /\ chat'[q].pc \in Unbound => chat[q].pc \in Unbound
          BY <2>2 DEF HandlerRaises, BodyRaises, FinallyRaises, AnswerWith, Handler, Early, Unbound,
                      TypeInv, TypeOK
      <3> QED BY <2>2, <3>1, JobInvFrame
              DEF HandlerRaises, BodyRaises, FinallyRaises, mgmtVars
    <2>3. ASSUME NEW w \in Workers, HeartbeatRaises(w), UNCHANGED <<reqs, chat, asg, cln>>
          PROVE  JobInv'
        BY <2>3, JobInvHeartbeat
    <2> QED BY <1>3, <2>1, <2>2, <2>3 DEF StatementRaises
  <1>4. CASE ServerCrash
    <2>1. \A q \in Requests : /\ chat'[q].worker = chat[q].worker
                              /\ chat'[q].pc \in Early => chat[q].pc \in Early
                              /\ chat'[q].pc \in Unbound => chat[q].pc \in Unbound
        BY <1>4 DEF ServerCrash, ChatsLost, Handler, Early, Unbound, TypeInv, TypeOK
    <2>2. \A w \in Workers : hb'[w].job \in {hb[w].job, None}
        BY <1>4 DEF ServerCrash, NoHeartbeat
    <2> QED BY <1>4, <2>1, <2>2, JobInvFrame DEF ServerCrash, tables
  <1> QED BY <1>1, <1>2, <1>3, <1>4 DEF Fault

LEMMA JobInvStep == ASSUME TypeInv, JobInv, [Next]_vars PROVE JobInv'
  <1>1. ASSUME NEW r \in Requests, ChatMove(r) PROVE JobInv'
      BY <1>1, JobInvChat DEF ChatMove, mgmtVars, Rest
  <1>2. CASE AssignerMove BY <1>2, JobInvAssigner DEF AssignerMove, mgmtVars
  <1>3. CASE CleanerMove BY <1>3, JobInvCleaner DEF CleanerMove, mgmtVars
  <1>4. ASSUME NEW w \in Workers, HeartbeatSend(w) \/ HeartbeatMove(w) PROVE JobInv'
      BY <1>4, JobInvHeartbeat DEF HeartbeatSend, HeartbeatMove
  <1>5. ASSUME NEW w \in Workers, RunnerMove(w) PROVE JobInv'
      BY <1>5, JobInvRunner DEF RunnerMove
  <1>6. CASE CompleteMove BY <1>6, JobInvComplete DEF CompleteMove
  <1>7. CASE Fault BY <1>7, JobInvFault
  <1>8. CASE UNCHANGED vars BY <1>8, JobInvFrame DEF vars
  <1> QED BY <1>1, <1>2, <1>3, <1>4, <1>5, <1>6, <1>7, <1>8 DEF Next

LEMMA JobInvariant == Spec => [](TypeInv /\ JobInv)
  <1>1. Init => TypeInv /\ JobInv BY TypeInvInit, JobInvInit
  <1>2. TypeInv /\ JobInv /\ [Next]_vars => (TypeInv /\ JobInv)'
      BY TypeInvStep, JobInvStep
  <1> QED BY <1>1, <1>2, PTL DEF Spec

(* A worker only ever runs a job that was leased to it.                    *)
THEOREM LeaseCorrect == Spec => []ExecutionMatchesLease
  <1>1. JobInv => ExecutionMatchesLease BY DEF JobInv
  <1> QED BY <1>1, JobInvariant, PTL

(* The registry puts a job on no worker but the one its handler has bound. *)
THEOREM BindingCorrect == Spec => []JobHeldByItsWorker
  <1>1. JobInv => JobHeldByItsWorker BY DEF JobInv
  <1> QED BY <1>1, JobInvariant, PTL
=============================================================================
