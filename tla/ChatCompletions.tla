--------------------------- MODULE ChatCompletions ---------------------------
(***************************************************************************)
(* The handler of POST /v1/chat/completions, for a request that is not     *)
(* streamed: queue the request, poll until a worker is bound to it, or     *)
(* forward it to other nodes, create the job, poll until the job is over,  *)
(* and clean up whichever way it ends.  Which nodes a request is forwarded *)
(* to, and how far, is in module Cluster.                                  *)
(*                                                                         *)
(* The handler is a coroutine that gives up the event loop only in the     *)
(* sleep of its two polling loops (pc = "waiting" and "polling") and in    *)
(* the calls to other nodes (pc = "forwarding").  Every statement of a     *)
(* database session between two of these is a step of its own, because the *)
(* threads of the server run in between.                                   *)
(***************************************************************************)
EXTENDS RequestQueue, WorkerRegistry, JobQueue, EventLoop

CONSTANT CanForward   \* cluster_enabled, and the request has hops left
ASSUME ForwardAssumption == CanForward \in BOOLEAN

VARIABLE chat   \* chat[r]: the locals of the handler of r

Answers == {"none", "text", "empty", "failed", "timeout", "unavailable", "error",
            "relayed"}
HandlerStates == {"new", "queued", "waiting", "forwarding", "assigned", "jobset",
                  "polling", "cleanup", "clearing", "deleting", "done", "lost"}
Handler == [pc : HandlerStates,
            worker : Workers \cup {None},     \* assigned_worker_id
            clears : Workers \cup {None},     \* effective_worker_id to be cleared
            answer : Answers]

ChatInit == chat = [r \in Requests |->
                      [pc |-> "new", worker |-> None, clears |-> None, answer |-> "none"]]

GoTo(r, pc) == chat' = [chat EXCEPT ![r].pc = pc]
AnswerWith(r, answer) == chat' = [chat EXCEPT ![r].pc = "cleanup", ![r].answer = answer]

(* The request arrives and its row is committed.  A node that may forward  *)
(* goes on without an await.                                               *)
Enqueue(r) ==
    /\ chat[r].pc = "new"
    /\ \A q \in Requests : q < r => chat[q].pc # "new"
    /\ CreateRequest(r)
    /\ \/ ~CanForward /\ RunToAwait /\ GoTo(r, "waiting")
       \/ CanForward /\ Acquire(Chat(r)) /\ GoTo(r, "queued")
    /\ UNCHANGED <<workers, jobs>>

(* A local worker serves the model: wait for it for a while ...            *)
WaitFirst(r) ==
    /\ chat[r].pc = "queued"
    /\ HasOnlineModel(ModelOf[r])
    /\ Release(Chat(r))
    /\ GoTo(r, "waiting")
    /\ UNCHANGED <<reqs, workers, jobs>>

(* ... or none does: no poll at all, and 503 if no node is a candidate.    *)
ForwardAtOnce(r) ==
    /\ chat[r].pc = "queued"
    /\ ~HasOnlineModel(ModelOf[r])
    /\ \/ Release(Chat(r)) /\ GoTo(r, "forwarding")
       \/ Holding(Chat(r)) /\ AnswerWith(r, "unavailable")
    /\ UNCHANGED <<reqs, workers, jobs>>

(* The wait for a local worker is over.  The row stays pending, and the    *)
(* assigner may reserve a worker for it while other nodes are asked.       *)
ForwardLater(r) ==
    /\ Deadlines /\ CanForward
    /\ chat[r].pc = "waiting"
    /\ RunToAwait
    /\ reqs[r].worker = None
    /\ GoTo(r, "forwarding")
    /\ UNCHANGED <<reqs, workers, jobs>>

(* A node answers 200, or every candidate has failed or timed out: 503.    *)
Forwarded(r) ==
    /\ chat[r].pc = "forwarding"
    /\ Acquire(Chat(r))
    /\ \E answer \in {"relayed", "unavailable"} : AnswerWith(r, answer)
    /\ UNCHANGED <<reqs, workers, jobs>>

(* The assignment poll finds assigned_worker_id set and leaves its loop.   *)
PollAssignment(r) ==
    /\ chat[r].pc = "waiting"
    /\ Acquire(Chat(r))
    /\ reqs[r].worker # None
    /\ chat' = [chat EXCEPT ![r].pc = "assigned", ![r].worker = reqs[r].worker]
    /\ UNCHANGED <<reqs, workers, jobs>>

(* The deadline has passed and the last poll found no worker: 503, or no   *)
(* node to forward the request to.                                         *)
AssignmentTimeout(r) ==
    /\ Deadlines
    /\ chat[r].pc = "waiting"
    /\ Acquire(Chat(r))
    /\ reqs[r].worker = None
    /\ AnswerWith(r, "unavailable")
    /\ UNCHANGED <<reqs, workers, jobs>>

(* The handler goes on with the worker it has read; the row may have been  *)
(* released and bound again since.                                         *)
BoundNow(r) ==                 \* fault: the row is read again
    IF reqs[r].worker # None THEN reqs[r].worker ELSE chat[r].worker
BoundWorker(r) == chat[r].worker

(* WorkerService.set_job overwrites whatever the worker's row holds.       *)
SetJob(r) ==
    /\ chat[r].pc = "assigned"
    /\ Holding(Chat(r))
    /\ WriteCurrentJob(BoundWorker(r), JobId(r))
    /\ GoTo(r, "jobset")
    /\ UNCHANGED <<reqs, jobs>>

(* JobService.create, then the first sleep of the job poll.                *)
InsertJob(r) ==
    /\ chat[r].pc = "jobset"
    /\ Release(Chat(r))
    /\ CreateJob(r, BoundWorker(r))
    /\ GoTo(r, "polling")
    /\ UNCHANGED <<reqs, workers>>

(* A statement of the try block raises: no answer, but the finally block runs. *)
BodyRaises(r) ==
    /\ \/ chat[r].pc \in {"waiting", "forwarding", "polling"} /\ Acquire(Chat(r))
       \/ chat[r].pc \in {"queued", "assigned", "jobset"} /\ Holding(Chat(r))
    /\ AnswerWith(r, "error")
    /\ UNCHANGED <<reqs, workers, jobs>>

PollJob(r) ==
    /\ chat[r].pc = "polling"
    /\ Acquire(Chat(r))
    /\ \/ jobs[r].status = "done" /\ AnswerWith(r, jobs[r].output)
       \/ jobs[r].status = "failed" /\ AnswerWith(r, "failed")
    /\ UNCHANGED <<reqs, workers, jobs>>

(* The deadline has passed and the last poll found the job not over: 504.  *)
JobTimeoutWhilePending(r) ==   \* fault: a leased job is waited for without end
    /\ Deadlines
    /\ chat[r].pc = "polling"
    /\ Acquire(Chat(r))
    /\ jobs[r].status = "pending"
    /\ AnswerWith(r, "timeout")
    /\ UNCHANGED <<reqs, workers, jobs>>

JobTimeoutUnread(r) ==         \* fault: the deadline is checked before the row is read
    /\ Deadlines
    /\ chat[r].pc = "polling"
    /\ Acquire(Chat(r))
    /\ AnswerWith(r, "timeout")
    /\ UNCHANGED <<reqs, workers, jobs>>

JobTimeout(r) ==
    /\ Deadlines
    /\ chat[r].pc = "polling"
    /\ Acquire(Chat(r))
    /\ jobs[r].status \notin Terminal
    /\ AnswerWith(r, "timeout")
    /\ UNCHANGED <<reqs, workers, jobs>>

(* The finally block: the worker is the one the handler has bound, or the  *)
(* one the row names; the identifier to clear is the job's if there is     *)
(* one, else the request's.  The worker's row is read here ...             *)
EffectiveWorker(r) == IF chat[r].worker # None THEN chat[r].worker ELSE reqs[r].worker
HeldId(r) == IF chat[r].worker # None THEN JobId(r) ELSE ReqId(r)

Cleanup(r) ==
    /\ chat[r].pc = "cleanup"
    /\ Holding(Chat(r))
    /\ LET w == EffectiveWorker(r) IN
         IF w # None /\ Matches(w, HeldId(r))
         THEN chat' = [chat EXCEPT ![r].pc = "clearing", ![r].clears = w]
         ELSE GoTo(r, "deleting")
    /\ UNCHANGED <<reqs, workers, jobs>>

(* ... and written here.                                                   *)
ClearWorker(r) ==
    /\ chat[r].pc = "clearing"
    /\ Holding(Chat(r))
    /\ WriteCurrentJob(chat[r].clears, None)
    /\ chat' = [chat EXCEPT ![r].pc = "deleting", ![r].clears = None]
    /\ UNCHANGED <<reqs, jobs>>

Finish(r) ==
    /\ chat[r].pc = "deleting"
    /\ Release(Chat(r))
    /\ DeleteRequest(r)
    /\ GoTo(r, "done")
    /\ UNCHANGED <<workers, jobs>>

(* A statement of the finally block raises: what it has not yet done is    *)
(* never done, and the row of the request stays.                           *)
FinallyRaises(r) ==
    /\ chat[r].pc \in {"cleanup", "clearing", "deleting"}
    /\ Release(Chat(r))
    /\ chat' = [chat EXCEPT ![r].pc = "lost", ![r].clears = None, ![r].answer = "error"]
    /\ UNCHANGED <<reqs, workers, jobs>>

HandlerRaises(r) == BodyRaises(r) \/ FinallyRaises(r)

ForwardStep(r) == WaitFirst(r) \/ ForwardAtOnce(r) \/ ForwardLater(r) \/ Forwarded(r)

ChatStep(r) ==
    \/ Enqueue(r) \/ ForwardStep(r)
    \/ PollAssignment(r) \/ AssignmentTimeout(r)
    \/ SetJob(r) \/ InsertJob(r)
    \/ PollJob(r) \/ JobTimeout(r)
    \/ Cleanup(r) \/ ClearWorker(r) \/ Finish(r)

(* The server process dies with the handlers in it. *)
ChatsLost == chat' = [r \in Requests |->
                        IF chat[r].pc \in {"new", "done"} THEN chat[r]
                        ELSE [chat[r] EXCEPT !.pc = "lost"]]
=============================================================================
