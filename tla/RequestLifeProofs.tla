-------------------------- MODULE RequestLifeProofs --------------------------
(***************************************************************************)
(* The proof that the dispatch core implements RequestLife, on top of the  *)
(* invariants of DispatchProofs.                                           *)
(***************************************************************************)
EXTENDS DispatchProofs

Polls == Early \cup {"polling"}
Cleans == {"cleanup", "clearing", "deleting"}

(* A handler has an answer when it leaves its try block and not before, a  *)
(* job is created for a bound worker only, a finished job says how it      *)
(* ended, and an idle job loop has let go of its job.                      *)
HandlersDecideLate ==
    \A r \in Requests :
        /\ chat[r].pc \in Polls => chat[r].answer = "none"
        /\ chat[r].pc \in Cleans => chat[r].answer # "none"
        /\ chat[r].pc \in Polls \ Unbound => chat[r].worker # None
JobsSayHow == \A r \in Requests : jobs[r].status = "done" => jobs[r].output # "none"
IdleLetsGo == \A w \in Workers : runner[w].pc = "idle" => runner[w].job = None
LifeInv == TypeInv /\ JobInv /\ HandlersDecideLate /\ JobsSayHow /\ IdleLetsGo

-----------------------------------------------------------------------------
(* What a step of the handler of r does, seen from outside                 *)

Same(r) == chat'[r].worker = chat[r].worker /\ chat'[r].answer = chat[r].answer

MovesOn(r) ==
    /\ Same(r) /\ chat[r].pc \in Early /\ chat'[r].pc \in Polls
    /\ chat[r].pc \in Unbound <=> chat'[r].pc \in Unbound
Binds(r) ==
    /\ chat[r].pc = "waiting" /\ chat'[r].pc = "assigned"
    /\ chat'[r].worker \in Workers /\ chat'[r].answer = chat[r].answer
Reason(r, a) ==
    \/ a \in {"unavailable", "relayed"} /\ chat[r].pc \in Unbound
    \/ a = "timeout" /\ chat[r].pc = "polling" /\ jobs[r].status \notin Terminal
    \/ a = jobs[r].output /\ chat[r].pc = "polling" /\ jobs[r].status = "done"
    \/ a = "failed" /\ chat[r].pc = "polling" /\ jobs[r].status = "failed"
    \/ a = "error"
Decides(r) ==
    /\ chat[r].pc \in Polls /\ chat'[r].pc = "cleanup"
    /\ chat'[r].worker = chat[r].worker /\ Reason(r, chat'[r].answer)
Tidies(r) == Same(r) /\ chat[r].pc \in Cleans /\ chat'[r].pc \in Cleans \cup {"done"}
LosesAnswer(r) ==
    /\ chat[r].pc \in Cleans /\ chat'[r].pc = "lost"
    /\ chat'[r].worker = chat[r].worker /\ chat'[r].answer = "error"

Handles(r) ==
    /\ \A q \in Requests \ {r} : chat'[q] = chat[q]
    /\ MovesOn(r) \/ Binds(r) \/ Decides(r) \/ Tidies(r) \/ LosesAnswer(r)

LEMMA HandlerSteps ==
    ASSUME TypeInv, NEW r \in Requests, ChatStep(r) \/ HandlerRaises(r)
    PROVE  Handles(r)
  <1>a. chat \in [Requests -> Handler] /\ reqs \in [Requests -> ReqRow]
      BY DEF TypeInv, TypeOK
  <1>b. \A pc : GoTo(r, pc) => /\ chat'[r].pc = pc /\ Same(r)
                               /\ \A q \in Requests \ {r} : chat'[q] = chat[q]
      BY <1>a DEF GoTo, Handler, Same
  <1>c. \A a : AnswerWith(r, a) => /\ chat'[r].pc = "cleanup" /\ chat'[r].answer = a
                                   /\ chat'[r].worker = chat[r].worker
                                   /\ \A q \in Requests \ {r} : chat'[q] = chat[q]
      BY <1>a DEF AnswerWith, Handler
  <1> USE DEF Handles, Polls, Early, Unbound, Cleans
  <1>1. CASE Enqueue(r) BY <1>1, <1>b DEF Enqueue, MovesOn
  <1>2. CASE ForwardStep(r)
    <2>1. CASE WaitFirst(r) BY <2>1, <1>b DEF WaitFirst, MovesOn
    <2>2. CASE ForwardLater(r) BY <2>2, <1>b DEF ForwardLater, MovesOn
    <2>3. CASE ForwardAtOnce(r)
        BY <2>3, <1>b, <1>c DEF ForwardAtOnce, MovesOn, Decides, Reason
    <2>4. CASE Forwarded(r) BY <2>4, <1>c DEF Forwarded, Decides, Reason
    <2> QED BY <1>2, <2>1, <2>2, <2>3, <2>4 DEF ForwardStep
  <1>3. CASE PollAssignment(r)
    <2>1. /\ chat[r].pc = "waiting" /\ reqs[r].worker \in Workers
          /\ chat' = [chat EXCEPT ![r].pc = "assigned", ![r].worker = reqs[r].worker]
        BY <1>3, <1>a DEF PollAssignment, ReqRow
    <2>2. /\ chat'[r].pc = "assigned" /\ chat'[r].worker = reqs[r].worker
          /\ chat'[r].answer = chat[r].answer
          /\ \A q \in Requests \ {r} : chat'[q] = chat[q]
        BY <2>1, <1>a DEF Handler
    <2> QED BY <2>1, <2>2 DEF Binds
  <1>4. CASE AssignmentTimeout(r) BY <1>4, <1>c DEF AssignmentTimeout, Decides, Reason
  <1>5. CASE SetJob(r) BY <1>5, <1>b DEF SetJob, MovesOn
  <1>6. CASE InsertJob(r) BY <1>6, <1>b DEF InsertJob, MovesOn
  <1>7. CASE PollJob(r) BY <1>7, <1>c DEF PollJob, Decides, Reason
  <1>8. CASE JobTimeout(r) BY <1>8, <1>c DEF JobTimeout, Decides, Reason
  <1>9. CASE Cleanup(r)
    <2>1. chat[r].pc = "cleanup" /\ chat'[r].pc \in {"clearing", "deleting"} /\ Same(r)
          /\ \A q \in Requests \ {r} : chat'[q] = chat[q]
        BY <1>9, <1>a, <1>b DEF Cleanup, Handler, Same
    <2> QED BY <2>1 DEF Tidies
  <1>10. CASE ClearWorker(r)
    <2>1. chat[r].pc = "clearing" /\ chat'[r].pc = "deleting" /\ Same(r)
          /\ \A q \in Requests \ {r} : chat'[q] = chat[q]
        BY <1>10, <1>a DEF ClearWorker, Handler, Same
    <2> QED BY <2>1 DEF Tidies
  <1>11. CASE Finish(r) BY <1>11, <1>b DEF Finish, Tidies
  <1>12. CASE HandlerRaises(r)
    <2>1. CASE BodyRaises(r) BY <2>1, <1>c DEF BodyRaises, Decides, Reason
    <2>2. CASE FinallyRaises(r)
      <3>1. chat[r].pc \in Cleans /\ chat'[r].pc = "lost" /\ chat'[r].answer = "error"
            /\ chat'[r].worker = chat[r].worker
            /\ \A q \in Requests \ {r} : chat'[q] = chat[q]
          BY <2>2, <1>a DEF FinallyRaises, Handler
      <3> QED BY <3>1 DEF LosesAnswer
    <2> QED BY <1>12, <2>1, <2>2 DEF HandlerRaises
  <1> QED BY <1>1, <1>2, <1>3, <1>4, <1>5, <1>6, <1>7, <1>8, <1>9, <1>10, <1>11, <1>12
          DEF ChatStep

-----------------------------------------------------------------------------
(* All steps, seen from outside                                            *)

JobCreated(r) ==
    /\ jobs[r].status = "absent" /\ jobs'[r].status = "pending"
    /\ \A q \in Requests \ {r} : jobs'[q] = jobs[q]

HandlerTurn(r) == Handles(r) /\ UNCHANGED runner /\ (UNCHANGED jobs \/ JobCreated(r))
Leases(w, r) ==
    /\ UNCHANGED chat /\ runner[w].pc = "idle" /\ NextForWorker(w, r) /\ Lease(r)
    /\ runner' = [runner EXCEPT ![w] = [pc |-> "pulling", job |-> r]]
Completes(m) == UNCHANGED <<chat, runner>> /\ CompleteJob(m)
LetsGo(w) == UNCHANGED <<chat, jobs>> /\ runner' = [runner EXCEPT ![w] = RunnerIdle]
KeepsOn ==
    /\ UNCHANGED <<chat, jobs>>
    /\ \A w \in Workers : /\ runner'[w].job = runner[w].job
                          /\ runner'[w].pc = "idle" => runner[w].pc = "idle"
Crashes == UNCHANGED <<jobs, runner>> /\ ChatsLost

StepKinds ==
    \/ \E r \in Requests : HandlerTurn(r)
    \/ \E w \in Workers, r \in Requests : Leases(w, r)
    \/ \E m \in reports : Completes(m)
    \/ \E w \in Workers : LetsGo(w)
    \/ KeepsOn \/ Crashes

LEMMA EveryStepIsOfAKind ==
    ASSUME TypeInv, JobInv, [Next]_vars
    PROVE  StepKinds
  <1>a. /\ chat \in [Requests -> Handler] /\ jobs \in [Requests -> JobRow]
        /\ runner \in [Workers -> Runner] /\ reports \in SUBSET Reports
        /\ completing \in Reports \cup {None}
      BY DEF TypeInv, TypeOK
  <1>b. UNCHANGED <<chat, jobs, runner>> => StepKinds BY DEF StepKinds, KeepsOn
  <1>c. ASSUME NEW w \in Workers, NEW pc, pc # "idle", UNCHANGED <<chat, jobs>>,
               runner' = [runner EXCEPT ![w].pc = pc]
        PROVE  StepKinds
    <2>1. \A v \in Workers : /\ runner'[v].job = runner[v].job
                            /\ runner'[v].pc = "idle" => runner[v].pc = "idle"
        BY <1>a, <1>c DEF Runner
    <2> QED BY <1>c, <2>1 DEF StepKinds, KeepsOn
  <1>d. ASSUME NEW w \in Workers, LetsGo(w) PROVE StepKinds BY <1>d DEF StepKinds
  <1>1. ASSUME NEW r \in Requests, ChatMove(r) PROVE StepKinds
    <2>1. Handles(r) /\ UNCHANGED runner BY <1>1, HandlerSteps DEF ChatMove, mgmtVars
    <2>2. UNCHANGED jobs \/ JobCreated(r)
      <3>1. CASE InsertJob(r)
        <4>1. jobs[r].status = "absent" BY <3>1 DEF InsertJob, JobInv, JobsAreNew, Early
        <4>2. jobs'[r].status = "pending" /\ \A q \in Requests \ {r} : jobs'[q] = jobs[q]
            BY <3>1, <1>a DEF InsertJob, CreateJob
        <4> QED BY <4>1, <4>2 DEF JobCreated
      <3>2. CASE ~InsertJob(r)
          BY <1>1, <3>2 DEF ChatMove, ChatStep, Enqueue, ForwardStep, WaitFirst, ForwardAtOnce,
                            ForwardLater, Forwarded, PollAssignment, AssignmentTimeout,
                            SetJob, PollJob, JobTimeout, Cleanup, ClearWorker, Finish
      <3> QED BY <3>1, <3>2
    <2> QED BY <2>1, <2>2 DEF StepKinds, HandlerTurn
  <1>2. CASE AssignerMove \/ CleanerMove
      BY <1>2, <1>b DEF AssignerMove, CleanerMove, mgmtVars
  <1>3. ASSUME NEW w \in Workers, HeartbeatSend(w) \/ HeartbeatMove(w) PROVE StepKinds
      BY <1>3, <1>b DEF HeartbeatSend, SendHeartbeat, HeartbeatMove, HeartbeatStep,
                        LoadWorker, CommitHeartbeat, FinishHeartbeat
  <1>4. ASSUME NEW w \in Workers, Pull(w), UNCHANGED chat PROVE StepKinds
      BY <1>4 DEF Pull, StepKinds, Leases
  <1>5. ASSUME NEW w \in Workers, RunnerStep(w) \/ CompleteRaises(w), UNCHANGED chat
        PROVE  StepKinds
    <2>1. CASE StartJob(w) /\ UNCHANGED jobs BY <2>1, <1>5, <1>c DEF StartJob
    <2>2. CASE InferenceOk(w) /\ UNCHANGED jobs BY <2>2, <1>5, <1>c DEF InferenceOk
    <2>3. CASE InferenceError(w) /\ UNCHANGED jobs BY <2>3, <1>5, <1>c DEF InferenceError
    <2>4. CASE ReportErrorInstead(w) /\ UNCHANGED jobs
        BY <2>4, <1>5, <1>c DEF ReportErrorInstead
    <2>5. CASE DropError(w) /\ UNCHANGED jobs BY <2>5, <1>5, <1>d DEF DropError, LetsGo
    <2> QED BY <1>5, <2>1, <2>2, <2>3, <2>4, <2>5 DEF RunnerStep, CompleteRaises
  <1>6. CASE CompleteMove
    <2>1. ASSUME NEW m \in reports, Complete(m), UNCHANGED chat PROVE StepKinds
        BY <2>1 DEF Complete, StepKinds, Completes
    <2>2. CompleteMatches /\ UNCHANGED chat => StepKinds BY <1>b DEF CompleteMatches
    <2>3. ASSUME CompleteKeeps \/ CompleteClears, UNCHANGED chat PROVE StepKinds
      <3>1. completing \in Reports /\ completing.worker \in Workers
          BY <2>3, <1>a DEF CompleteKeeps, CompleteClears, Reports, Release
      <3>2. /\ UNCHANGED jobs
            /\ UNCHANGED runner \/ runner' = [runner EXCEPT ![completing.worker] = RunnerIdle]
          BY <2>3 DEF CompleteKeeps, CompleteClears, Answer
      <3> QED BY <1>b, <1>d, <2>3, <3>1, <3>2 DEF LetsGo
    <2> QED BY <1>6, <2>1, <2>2, <2>3 DEF CompleteMove, CompleteStep
  <1>7. ASSUME NEW w \in Workers, CallLost(w) PROVE StepKinds
    <2>1. UNCHANGED chat BY <1>7 DEF CallLost
    <2>2. CASE LoseHeartbeat(w) BY <2>1, <2>2, <1>b DEF LoseHeartbeat
    <2>3. CASE LoseCall(w)
      <3>1. CASE LosePullReply(w) /\ UNCHANGED jobs BY <2>1, <3>1, <1>d DEF LosePullReply, LetsGo
      <3>2. CASE LoseReport /\ UNCHANGED jobs BY <2>1, <3>2, <1>b DEF LoseReport
      <3> QED BY <2>3, <3>1, <3>2 DEF LoseCall
    <2> QED BY <1>7, <1>5, <2>1, <2>2, <2>3 DEF CallLost
  <1>8. ASSUME NEW w \in Workers, WorkerDies(w) PROVE StepKinds
      BY <1>8, <1>d DEF WorkerDies, WorkerCrash, LetsGo
  <1>9. ASSUME NEW w \in Workers, HeartbeatOverdue(w) PROVE StepKinds
      BY <1>9, <1>b DEF HeartbeatOverdue, mgmtVars
  <1>10. CASE StatementRaises
    <2>1. ASSUME NEW r \in Requests, HandlerRaises(r), UNCHANGED runner PROVE StepKinds
      <3>1. Handles(r) BY <2>1, HandlerSteps
      <3>2. UNCHANGED jobs BY <2>1 DEF HandlerRaises, BodyRaises, FinallyRaises
      <3> QED BY <2>1, <3>1, <3>2 DEF StepKinds, HandlerTurn
    <2> QED BY <1>10, <1>b, <2>1 DEF StatementRaises, HeartbeatRaises, mgmtVars
  <1>11. CASE ServerCrash BY <1>11 DEF ServerCrash, StepKinds, Crashes, tables
  <1>12. CASE UNCHANGED vars BY <1>12, <1>b DEF vars
  <1> QED BY <1>1, <1>2, <1>3, <1>4, <1>5, <1>6, <1>7, <1>8, <1>9, <1>10, <1>11, <1>12
          DEF Next, RunnerMove, Fault

-----------------------------------------------------------------------------
(* The invariant                                                           *)

LEMMA LifeInvStep ==
    ASSUME LifeInv, [Next]_vars
    PROVE  LifeInv'
  <1>a. TypeInv' /\ JobInv' BY TypeInvStep, JobInvStep DEF LifeInv
  <1>b. /\ chat \in [Requests -> Handler] /\ jobs \in [Requests -> JobRow]
        /\ runner \in [Workers -> Runner] /\ reports \in SUBSET Reports
        /\ None \notin Workers
      BY NoneAssumption DEF LifeInv, TypeInv, TypeOK
  <1>c. UNCHANGED chat => HandlersDecideLate' BY DEF LifeInv, HandlersDecideLate
  <1>d. UNCHANGED jobs => JobsSayHow' BY DEF LifeInv, JobsSayHow
  <1>e. UNCHANGED runner => IdleLetsGo' BY DEF LifeInv, IdleLetsGo
  <1>f. SUFFICES HandlersDecideLate' /\ JobsSayHow' /\ IdleLetsGo' BY <1>a DEF LifeInv
  <1>g. StepKinds BY EveryStepIsOfAKind DEF LifeInv
  <1>1. ASSUME NEW r \in Requests, HandlerTurn(r)
        PROVE  HandlersDecideLate' /\ JobsSayHow' /\ IdleLetsGo'
    <2>1. /\ chat[r].pc \in Polls => chat[r].answer = "none"
          /\ chat[r].pc \in Cleans => chat[r].answer # "none"
          /\ chat[r].pc \in Polls \ Unbound => chat[r].worker # None
          /\ jobs[r].status = "done" => jobs[r].output # "none"
        BY DEF LifeInv, HandlersDecideLate, JobsSayHow
    <2>2. /\ chat'[r].pc \in Polls => chat'[r].answer = "none"
          /\ chat'[r].pc \in Cleans => chat'[r].answer # "none"
          /\ chat'[r].pc \in Polls \ Unbound => chat'[r].worker # None
      <3>1. CASE MovesOn(r)
          BY <3>1, <2>1 DEF MovesOn, Same, Polls, Early, Unbound, Cleans
      <3>2. CASE Binds(r)
          BY <3>2, <2>1, <1>b DEF Binds, Polls, Early, Unbound, Cleans
      <3>3. CASE Decides(r)
          BY <3>3, <2>1 DEF Decides, Reason, Polls, Early, Unbound, Cleans
      <3>4. CASE Tidies(r)
          BY <3>4, <2>1 DEF Tidies, Same, Polls, Early, Unbound, Cleans
      <3>5. CASE LosesAnswer(r)
          BY <3>5 DEF LosesAnswer, Polls, Early, Unbound, Cleans
      <3> QED BY <1>1, <3>1, <3>2, <3>3, <3>4, <3>5 DEF HandlerTurn, Handles
    <2>3. HandlersDecideLate'
      <3>1. \A q \in Requests \ {r} : chat'[q] = chat[q] BY <1>1 DEF HandlerTurn, Handles
      <3> QED BY <2>2, <3>1 DEF LifeInv, HandlersDecideLate
    <2>4. JobsSayHow'
        BY <1>1, <1>d DEF HandlerTurn, JobCreated, LifeInv, JobsSayHow
    <2> QED BY <1>1, <1>e, <2>3, <2>4 DEF HandlerTurn
  <1>2. ASSUME NEW w \in Workers, NEW r \in Requests, Leases(w, r)
        PROVE  HandlersDecideLate' /\ JobsSayHow' /\ IdleLetsGo'
    <2>1. jobs'[r].status = "running" /\ \A q \in Requests \ {r} : jobs'[q] = jobs[q]
        BY <1>2, <1>b DEF Leases, Lease, JobRow
    <2>2. runner'[w].pc = "pulling" /\ \A v \in Workers \ {w} : runner'[v] = runner[v]
        BY <1>2, <1>b DEF Leases
    <2> QED BY <1>2, <1>c, <2>1, <2>2 DEF Leases, LifeInv, JobsSayHow, IdleLetsGo
  <1>3. ASSUME NEW m \in reports, Completes(m)
        PROVE  HandlersDecideLate' /\ JobsSayHow' /\ IdleLetsGo'
    <2>1. m.req \in Requests BY <1>b DEF Reports
    <2>2. jobs'[m.req].output # "none" /\ \A q \in Requests \ {m.req} : jobs'[q] = jobs[q]
        BY <1>3, <1>b, <2>1 DEF Completes, CompleteJob, JobRow
    <2> QED BY <1>3, <1>c, <1>e, <2>2 DEF Completes, LifeInv, JobsSayHow
  <1>4. ASSUME NEW w \in Workers, LetsGo(w)
        PROVE  HandlersDecideLate' /\ JobsSayHow' /\ IdleLetsGo'
    <2>1. runner'[w].job = None /\ \A v \in Workers \ {w} : runner'[v] = runner[v]
        BY <1>4, <1>b DEF LetsGo, RunnerIdle
    <2> QED BY <1>4, <1>c, <1>d, <2>1 DEF LetsGo, LifeInv, IdleLetsGo
  <1>5. CASE KeepsOn
      BY <1>5, <1>c, <1>d DEF KeepsOn, LifeInv, IdleLetsGo
  <1>6. CASE Crashes
    <2>1. \A r \in Requests : chat'[r] = chat[r] \/ chat'[r].pc = "lost"
        BY <1>6, <1>b DEF Crashes, ChatsLost, Handler
    <2>2. HandlersDecideLate'
        BY <2>1 DEF LifeInv, HandlersDecideLate, Polls, Early, Unbound, Cleans
    <2> QED BY <1>6, <1>d, <1>e, <2>2 DEF Crashes
  <1> QED BY <1>g, <1>1, <1>2, <1>3, <1>4, <1>5, <1>6 DEF StepKinds

LEMMA LifeInvariant == Spec => []LifeInv
  <1>1. Init => LifeInv
    <2> SUFFICES ASSUME Init PROVE LifeInv OBVIOUS
    <2>1. TypeInv /\ JobInv BY TypeInvInit, JobInvInit
    <2>2. HandlersDecideLate
        BY DEF Init, ChatInit, HandlersDecideLate, Polls, Early, Unbound, Cleans
    <2>3. JobsSayHow BY DEF Init, JobQueueInit, NoJob, JobsSayHow
    <2>4. IdleLetsGo BY DEF Init, MgmtInit, RuntimeInit, RunnerIdle, IdleLetsGo
    <2> QED BY <2>1, <2>2, <2>3, <2>4 DEF LifeInv
  <1>2. LifeInv /\ [Next]_vars => LifeInv' BY LifeInvStep
  <1> QED BY <1>1, <1>2, PTL DEF Spec

-----------------------------------------------------------------------------
(* The refinement                                                          *)

ChatSame(r) == Same(r) /\ (chat'[r].pc = "done" <=> chat[r].pc = "done")

LEMMA ChatUnseen ==
    ASSUME \A r \in Requests : ChatSame(r)
    PROVE  UNCHANGED <<Bound, Decided, Sent>>
  BY DEF ChatSame, Same, Bound, Decided, Sent

LEMMA JobsUnseen ==
    ASSUME \A r \in Requests : Outcome(r)' = Outcome(r)
    PROVE  UNCHANGED OutcomeSoFar
  BY DEF OutcomeSoFar

LEMMA RunnersUnseen ==
    ASSUME \A w \in Workers : runner'[w].job = runner[w].job
    PROVE  UNCHANGED Hands
  BY DEF Hands

(* One worker at most has a job in hand.                                   *)
LEMMA OneHand ==
    ASSUME JobInv, NEW w \in Workers, NEW v \in Workers,
           runner[w].job = runner[v].job, runner[w].job # None
    PROVE  v = w
  BY DEF JobInv, ExecutionMatchesLease

LEMMA HandlerSimulates ==
    ASSUME LifeInv, NEW r \in Requests, HandlerTurn(r)
    PROVE  [Life!Next]_<<Bound, Hands, OutcomeSoFar, Decided, Sent>>
  <1>a. /\ chat[r].pc \in Polls => chat[r].answer = "none"
        /\ chat[r].pc \in Cleans => chat[r].answer # "none"
        /\ chat[r].pc \in Polls \ Unbound => chat[r].worker # None
        /\ chat[r].pc \in Unbound => chat[r].worker = None
        /\ jobs \in [Requests -> JobRow]
        /\ jobs[r].status = "done" => jobs[r].output # "none"
      BY DEF LifeInv, HandlersDecideLate, JobsSayHow, JobInv, UnboundHandlers, TypeInv, TypeOK
  <1>b. UNCHANGED <<Hands, OutcomeSoFar>>
    <2>1. UNCHANGED Hands BY RunnersUnseen DEF HandlerTurn
    <2>2. \A q \in Requests : Outcome(q)' = Outcome(q)
        BY DEF HandlerTurn, JobCreated, Outcome
    <2> QED BY <2>1, <2>2, JobsUnseen
  <1>c. \A q \in Requests \ {r} : ChatSame(q) BY DEF HandlerTurn, Handles, ChatSame, Same
  <1>d. /\ Bound \in [Requests -> {chat[q].worker : q \in Requests}]
        /\ Bound[r] = chat[r].worker /\ Decided[r] = chat[r].answer
        /\ Sent[r] = (chat[r].pc = "done") /\ OutcomeSoFar[r] = Outcome(r)
      BY DEF Bound, Decided, Sent, OutcomeSoFar
  <1>1. CASE MovesOn(r) \/ (Tidies(r) /\ chat'[r].pc # "done")
    <2>1. ChatSame(r)
        BY <1>1 DEF MovesOn, Tidies, ChatSame, Same, Polls, Early, Unbound, Cleans
    <2> QED BY <1>b, <1>c, <2>1, ChatUnseen
  <1>2. CASE Binds(r)
    <2>1. Bound' = [Bound EXCEPT ![r] = chat'[r].worker]
        BY <1>c DEF Bound, ChatSame, Same
    <2>2. UNCHANGED <<Decided, Sent>> BY <1>2, <1>c DEF Binds, Decided, Sent, ChatSame, Same
    <2>3. Bound[r] = None /\ Decided[r] = "none" /\ chat'[r].worker \in Workers
        BY <1>2, <1>a, <1>d DEF Binds, Polls, Early, Unbound
    <2> QED BY <1>b, <2>1, <2>2, <2>3 DEF Life!Next, Life!Bind
  <1>3. CASE Decides(r)
    <2>1. Decided' = [Decided EXCEPT ![r] = chat'[r].answer]
        BY <1>c DEF Decided, ChatSame, Same
    <2>2. UNCHANGED <<Bound, Sent>>
        BY <1>3, <1>c DEF Decides, Bound, Sent, ChatSame, Same, Polls, Early, Unbound
    <2>3. Decided[r] = "none" /\ ~Sent[r]
        BY <1>3, <1>a, <1>d DEF Decides, Polls, Early, Unbound
    <2>4. CASE chat'[r].answer = "error"
        BY <1>b, <2>1, <2>2, <2>3, <2>4 DEF Life!Next, Life!Fail
    <2>5. CASE chat'[r].answer # "error"
      <3>1. /\ chat'[r].answer \in Life!Outcomes \cup {"unavailable", "relayed", "timeout"}
            /\ Life!Truthful(r, chat'[r].answer)
        <4>1. CASE chat'[r].answer \in {"unavailable", "relayed"} /\ chat[r].pc \in Unbound
            BY <4>1, <1>a, <1>d DEF Life!Truthful, Life!Outcomes
        <4>2. CASE chat'[r].answer = "timeout" /\ chat[r].pc = "polling"
                   /\ jobs[r].status \notin Terminal
            BY <4>2, <1>a, <1>d
               DEF Life!Truthful, Life!Outcomes, Outcome, Terminal, Polls, Early, Unbound
        <4>3. CASE chat'[r].answer = jobs[r].output /\ jobs[r].status = "done"
          <5>1. jobs[r].output \in {"text", "empty"} BY <4>3, <1>a DEF JobRow
          <5> QED BY <4>3, <5>1, <1>d DEF Life!Truthful, Life!Outcomes, Outcome
        <4>4. CASE chat'[r].answer = "failed" /\ jobs[r].status = "failed"
            BY <4>4, <1>d DEF Life!Truthful, Life!Outcomes, Outcome
        <4> QED BY <1>3, <2>5, <4>1, <4>2, <4>3, <4>4 DEF Decides, Reason
      <3> QED BY <1>b, <2>1, <2>2, <2>3, <3>1 DEF Life!Next, Life!Decide
    <2> QED BY <2>4, <2>5
  <1>4. CASE Tidies(r) /\ chat'[r].pc = "done"
    <2>1. Sent' = [Sent EXCEPT ![r] = TRUE] BY <1>4, <1>c DEF Sent, ChatSame
    <2>2. UNCHANGED <<Bound, Decided>> BY <1>4, <1>c DEF Tidies, Bound, Decided, ChatSame, Same
    <2>3. Decided[r] # "none" BY <1>4, <1>a, <1>d DEF Tidies
    <2> QED BY <1>b, <2>1, <2>2, <2>3 DEF Life!Next, Life!Send
  <1>5. CASE LosesAnswer(r)
    <2>1. Decided' = [Decided EXCEPT ![r] = "error"]
        BY <1>5, <1>c DEF LosesAnswer, Decided, ChatSame, Same
    <2>2. UNCHANGED <<Bound, Sent>> /\ ~Sent[r]
        BY <1>5, <1>c, <1>d DEF LosesAnswer, Bound, Sent, ChatSame, Same, Cleans
    <2> QED BY <1>b, <2>1, <2>2 DEF Life!Next, Life!Fail
  <1> QED BY <1>1, <1>2, <1>3, <1>4, <1>5 DEF HandlerTurn, Handles

LEMMA OthersSimulate ==
    ASSUME LifeInv, StepKinds, ~\E r \in Requests : HandlerTurn(r)
    PROVE  [Life!Next]_<<Bound, Hands, OutcomeSoFar, Decided, Sent>>
  <1>a. /\ chat \in [Requests -> Handler] /\ jobs \in [Requests -> JobRow]
        /\ runner \in [Workers -> Runner] /\ reports \in SUBSET Reports
        /\ JobInv /\ None \notin Requests
      BY NoneAssumption DEF LifeInv, TypeInv, TypeOK
  <1>b. UNCHANGED chat => UNCHANGED <<Bound, Decided, Sent>> BY DEF Bound, Decided, Sent
  <1>c. UNCHANGED jobs => UNCHANGED OutcomeSoFar BY DEF OutcomeSoFar, Outcome
  <1>d. UNCHANGED runner => UNCHANGED Hands BY DEF Hands
  <1>1. ASSUME NEW w \in Workers, NEW r \in Requests, Leases(w, r)
        PROVE  Life!Next
    <2>1. jobs[r].status = "pending" /\ jobs[r].worker = w /\ chat[r].worker = w
        BY <1>1, <1>a DEF Leases, NextForWorker, JobInv, JobsKeepTheirHandler
    <2>2. \A v \in Workers : runner[v].job # r
        BY <1>a, <2>1 DEF JobInv, ExecutionMatchesLease, Leased
    <2>3. runner[w].job = None BY <1>1 DEF Leases, LifeInv, IdleLetsGo
    <2>4. runner'[w].job = r /\ \A v \in Workers \ {w} : runner'[v] = runner[v]
        BY <1>1, <1>a DEF Leases
    <2>5. Hands' = [Hands EXCEPT ![r] = {w}]
      <3>1. \A q \in Requests \ {r} :
              {v \in Workers : runner'[v].job = q} = {v \in Workers : runner[v].job = q}
          BY <1>a, <2>3, <2>4
      <3>2. {v \in Workers : runner'[v].job = r} = {w} BY <2>2, <2>4
      <3> QED BY <3>1, <3>2 DEF Hands
    <2>6. jobs'[r].status = "running" /\ \A q \in Requests \ {r} : jobs'[q] = jobs[q]
        BY <1>1, <1>a DEF Leases, Lease, JobRow
    <2>7. OutcomeSoFar' = [OutcomeSoFar EXCEPT ![r] = "running"]
      <3>1. Outcome(r)' = "running" BY <2>6 DEF Outcome
      <3>2. \A q \in Requests \ {r} : Outcome(q)' = Outcome(q) BY <2>6 DEF Outcome
      <3> QED BY <3>1, <3>2 DEF OutcomeSoFar
    <2>8. Bound[r] = w /\ OutcomeSoFar[r] = "open"
        BY <2>1 DEF Bound, OutcomeSoFar, Outcome
    <2>9. UNCHANGED <<Bound, Decided, Sent>> BY <1>1, <1>b DEF Leases
    <2> QED BY <2>5, <2>7, <2>8, <2>9, NoneAssumption DEF Life!Next, Life!HandOut
  <1>2. ASSUME NEW m \in reports, Completes(m) PROVE Life!Next
    <2>1. m.req \in Requests /\ jobs[m.req].status \in Leased
        BY <1>a DEF Reports, JobInv, ReportsMatchLease, LeasedTo
    <2>2. /\ jobs'[m.req].status \in Terminal /\ jobs'[m.req].output \in {"text", "empty"}
          /\ \A q \in Requests \ {m.req} : jobs'[q] = jobs[q]
        BY <1>2, <1>a, <2>1 DEF Completes, CompleteJob, JobRow, Terminal
    <2>3. OutcomeSoFar[m.req] # "open"
      <3>1. Outcome(m.req) # "open"
          BY <2>1, <1>a DEF Outcome, Leased, JobRow
      <3> QED BY <2>1, <3>1 DEF OutcomeSoFar
    <2>4. Outcome(m.req)' \in Life!Outcomes
        BY <2>2 DEF Outcome, Terminal, Life!Outcomes
    <2>5. \A q \in Requests \ {m.req} : Outcome(q)' = Outcome(q) BY <2>2 DEF Outcome
    <2>6. OutcomeSoFar' = [OutcomeSoFar EXCEPT ![m.req] = Outcome(m.req)']
        BY <2>1, <2>5 DEF OutcomeSoFar
    <2>7. UNCHANGED <<Bound, Decided, Sent, Hands>> BY <1>2, <1>b, <1>d DEF Completes
    <2> QED BY <2>1, <2>3, <2>4, <2>6, <2>7 DEF Life!Next, Life!Report
  <1>3. ASSUME NEW w \in Workers, LetsGo(w)
        PROVE  [Life!Next]_<<Bound, Hands, OutcomeSoFar, Decided, Sent>>
    <2>1. UNCHANGED <<Bound, Decided, Sent, OutcomeSoFar>> BY <1>3, <1>b, <1>c DEF LetsGo
    <2>2. runner'[w].job = None /\ \A v \in Workers \ {w} : runner'[v] = runner[v]
        BY <1>3, <1>a DEF LetsGo, RunnerIdle
    <2>3. CASE runner[w].job = None
        BY <2>1, <2>2, <2>3, RunnersUnseen
    <2>4. CASE runner[w].job # None
      <3>1. PICK r \in Requests : runner[w].job = r BY <1>a, <2>4 DEF Runner
      <3>2. {v \in Workers : runner'[v].job = r} = {}
          BY <1>a, <2>2, <3>1, <2>4, OneHand
      <3>3. \A q \in Requests \ {r} :
              {v \in Workers : runner'[v].job = q} = {v \in Workers : runner[v].job = q}
          BY <1>a, <2>2, <3>1
      <3>4. Hands' = [Hands EXCEPT ![r] = {}] BY <3>2, <3>3 DEF Hands
      <3> QED BY <2>1, <3>4 DEF Life!Next, Life!PutDown
    <2> QED BY <2>3, <2>4
  <1>4. CASE KeepsOn BY <1>4, <1>b, <1>c, RunnersUnseen DEF KeepsOn
  <1>5. CASE Crashes
    <2>1. \A r \in Requests : ChatSame(r)
        BY <1>5, <1>a DEF Crashes, ChatsLost, ChatSame, Same, Handler
    <2> QED BY <1>5, <1>c, <1>d, <2>1, ChatUnseen DEF Crashes
  <1> QED BY <1>1, <1>2, <1>3, <1>4, <1>5 DEF StepKinds

(* Through all tables, messages, losses and restarts the dispatch core     *)
(* keeps the promise of RequestLife: bound once, handed out once and to    *)
(* that worker only, answered by what was reported, and never run here     *)
(* when it was turned down or relayed.                                     *)
THEOREM LifeCorrect == Spec => LifePromise
  <1>1. Init => Life!Init
    <2> SUFFICES ASSUME Init PROVE Life!Init OBVIOUS
    <2>1. \A w \in Workers : runner[w].job = None
        BY DEF Init, MgmtInit, RuntimeInit, RunnerIdle
    <2>2. Hands = [r \in Requests |-> {}] BY <2>1, NoneAssumption DEF Hands
    <2>3. /\ Bound = [r \in Requests |-> None] /\ Decided = [r \in Requests |-> "none"]
          /\ Sent = [r \in Requests |-> FALSE]
        BY DEF Init, ChatInit, Bound, Decided, Sent
    <2>4. OutcomeSoFar = [r \in Requests |-> "open"]
        BY DEF Init, JobQueueInit, NoJob, OutcomeSoFar, Outcome
    <2> QED BY <2>2, <2>3, <2>4 DEF Life!Init
  <1>2. LifeInv /\ [Next]_vars => [Life!Next]_<<Bound, Hands, OutcomeSoFar, Decided, Sent>>
    <2> SUFFICES ASSUME LifeInv, [Next]_vars
                 PROVE  [Life!Next]_<<Bound, Hands, OutcomeSoFar, Decided, Sent>>
      OBVIOUS
    <2>1. StepKinds BY EveryStepIsOfAKind DEF LifeInv
    <2> QED BY <2>1, HandlerSimulates, OthersSimulate
  <1> QED BY <1>1, <1>2, LifeInvariant, PTL DEF Spec, LifePromise, Life!Spec
-----------------------------------------------------------------------------
(* What the promise means, from RequestLife alone                          *)

AnswersMean ==
    \A r \in Requests :
        /\ Bound[r] = None => Hands[r] = {} /\ OutcomeSoFar[r] = "open"
        /\ Hands[r] \subseteq {Bound[r]}
        /\ Decided[r] \in {"unavailable", "relayed"} => Bound[r] = None
        /\ Decided[r] \in {"text", "empty", "failed"}
               => OutcomeSoFar[r] \in {"text", "empty", "failed"}

(* A client that was turned down, or answered by another server, has a     *)
(* request that no worker here was ever bound to, has in hand or reported  *)
(* on; one that was given a result has a job that a worker has reported,   *)
(* and nobody but the worker its handler bound ever has it in hand.        *)
THEOREM AnswersAreTrue == Spec => []AnswersMean
  <1> DEFINE v == <<Bound, Hands, OutcomeSoFar, Decided, Sent>>
             Typed == /\ Bound = [r \in Requests |-> Bound[r]]
                      /\ Hands = [r \in Requests |-> Hands[r]]
                      /\ OutcomeSoFar = [r \in Requests |-> OutcomeSoFar[r]]
                      /\ Decided = [r \in Requests |-> Decided[r]]
  <1>1. Life!Init => AnswersMean BY DEF Life!Init, AnswersMean
  <1>2. AnswersMean /\ [Life!Next]_v => AnswersMean'
    <2> SUFFICES ASSUME AnswersMean, [Life!Next]_v, NEW q \in Requests
                 PROVE  /\ Bound'[q] = None => Hands'[q] = {} /\ OutcomeSoFar'[q] = "open"
                        /\ Hands'[q] \subseteq {Bound'[q]}
                        /\ Decided'[q] \in {"unavailable", "relayed"} => Bound'[q] = None
                        /\ Decided'[q] \in {"text", "empty", "failed"}
                               => OutcomeSoFar'[q] \in {"text", "empty", "failed"}
        BY DEF AnswersMean
    <2>0. Typed BY DEF Bound, Hands, OutcomeSoFar, Decided
    <2> HIDE DEF Typed
    <2>1. CASE UNCHANGED v BY <2>1 DEF AnswersMean
    <2>2. CASE Life!Next
      <3>1. PICK r \in Requests :
               \/ Life!Bind(r) \/ Life!HandOut(r) \/ Life!PutDown(r) \/ Life!Report(r)
               \/ Life!Decide(r) \/ Life!Fail(r) \/ Life!Send(r)
          BY <2>2 DEF Life!Next
      <3> USE DEF AnswersMean, Typed
      <3>2. CASE Life!Bind(r) BY <2>0, <3>2, NoneAssumption DEF Life!Bind
      <3>3. CASE Life!HandOut(r) BY <2>0, <3>3 DEF Life!HandOut
      <3>4. CASE Life!PutDown(r) BY <2>0, <3>4 DEF Life!PutDown
      <3>5. CASE Life!Report(r) BY <2>0, <3>5 DEF Life!Report, Life!Outcomes
      <3>6. CASE Life!Decide(r)
          BY <2>0, <3>6 DEF Life!Decide, Life!Truthful, Life!Outcomes
      <3>7. CASE Life!Fail(r) BY <2>0, <3>7 DEF Life!Fail
      <3>8. CASE Life!Send(r) BY <2>0, <3>8 DEF Life!Send
      <3> QED BY <3>1, <3>2, <3>3, <3>4, <3>5, <3>6, <3>7, <3>8
    <2> QED BY <2>1, <2>2
  <1> QED BY <1>1, <1>2, LifeCorrect, PTL DEF LifePromise, Life!Spec
=============================================================================
