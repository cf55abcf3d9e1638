------------------------------ MODULE JobStream ------------------------------
(***************************************************************************)
(* One streamed chat request, from the moment a worker is bound to it: the *)
(* handler and its generator stream_iter, the channel of the job, the      *)
(* worker, and the pull, chunk and complete endpoints between them.        *)
(*                                                                         *)
(* The rows of the worker and of the request, which these handlers update  *)
(* as in the path without streaming, are modelled in Dispatch; here is the *)
(* path of the text.  Each action is a run of a coroutine to its next      *)
(* await: the hub's lock is never held across one that suspends.           *)
(***************************************************************************)
EXTENDS StreamHub, StreamWorker

CONSTANTS
    Faults,      \* which of FaultKinds may occur
    MaxFaults,   \* how many faults may occur in all
    Deadlines    \* whether job_max_wait_sec may pass

(* "chunk", "report", "pull": the call, or its answer, is lost or late     *)
(* "worker", "server": the process dies      "db": creating the job raises *)
(* "client": the client disconnects                                        *)
FaultKinds == {"chunk", "report", "pull", "worker", "server", "db", "client"}
ASSUME FaultsAssumption ==
    Faults \subseteq FaultKinds /\ MaxFaults \in Nat /\ Deadlines \in BOOLEAN

VARIABLES
    job,      \* the row of the job
    stream,   \* the handler: bound, ensured (answer returned), serving, over
    end,      \* how the stream ended for the client
    spent     \* the faults that occurred

vars == <<hub, runner, infer, flush, chunks, reports, job, stream, end, spent>>

JobStatus == {"absent", "pending", "running", "done", "failed"}
(* "replayed": the whole output and then stop; "hollow": just stop.        *)
Ends == {"none", "stop", "error", "timeout", "replayed", "hollow", "gone", "raised"}

TypeOK ==
    /\ hub \in [open : BOOLEAN, queue : Seq(Event), taken : Nat]
    /\ runner \in RunnerStates
    /\ infer \in [pc : InferStates, produced : 0 .. Length]
    /\ flush \in Flush
    /\ chunks \subseteq Chunk
    /\ reports \subseteq Errors
    /\ job \in [status : JobStatus, output : {"none", "empty", "text"}]
    /\ stream \in {"bound", "ensured", "serving", "over"}
    /\ end \in Ends
    /\ spent \in Nat

Init ==
    /\ HubInit
    /\ WorkerInit
    /\ job = [status |-> "absent", output |-> "none"]
    /\ stream = "bound" /\ end = "none" /\ spent = 0

Fault(kind) == kind \in Faults /\ spent < MaxFaults /\ spent' = spent + 1

-----------------------------------------------------------------------------
(* The handler                                                             *)

(* ensure, set_job and create, up to the return of the StreamingResponse.  *)
OpenStream ==
    /\ stream = "bound"
    /\ Ensure
    /\ job' = [job EXCEPT !.status = "pending"]
    /\ stream' = "ensured"
    /\ UNCHANGED <<workerVars, end, spent>>

(* set_job or create raises after ensure: the handler's finally block      *)
(* cleans its rows, and no generator will ever close the channel.          *)
OpenRaises ==
    /\ stream = "bound"
    /\ Fault("db")
    /\ Ensure
    /\ stream' = "over" /\ end' = "raised"
    /\ UNCHANGED <<workerVars, job>>

(* stream_iter starts.                                                     *)
Serve ==
    /\ stream = "ensured"
    /\ Subscribe
    /\ stream' = "serving"
    /\ UNCHANGED <<workerVars, job, end, spent>>

EndOfType(event) == event.type   \* fault: the type of the event for the reason

EndOf(event) == IF event.type = "done" THEN "stop" ELSE "error"

ForwardDelta ==
    /\ stream = "serving" /\ Take /\ Front.type = "delta"
    /\ UNCHANGED <<workerVars, job, stream, end, spent>>

ForwardEnd ==
    /\ stream = "serving" /\ TakeAndClose /\ Front.type # "delta"
    /\ stream' = "over" /\ end' = EndOf(Front)
    /\ UNCHANGED <<workerVars, job, spent>>

(* The timeout path: the outcome is read from the row of the job.          *)
Outcome == CASE job.status = "done" /\ job.output = "text"  -> "replayed"
             [] job.status = "done" /\ job.output # "text" -> "hollow"
             [] job.status = "failed"                      -> "error"
             [] OTHER                                      -> "timeout"

Deadline ==
    /\ stream = "serving" /\ Deadlines
    /\ Close
    /\ stream' = "over" /\ end' = Outcome
    /\ UNCHANGED <<workerVars, job, spent>>

(* The client goes away: the generator is cancelled where it waits.  One   *)
(* that has not started never reaches the finally block that closes.       *)
Disconnect ==
    /\ Fault("client")
    /\ \/ stream = "serving" /\ Close
       \/ stream = "ensured" /\ UNCHANGED hub
    /\ stream' = "over" /\ end' = "gone"
    /\ UNCHANGED <<workerVars, job>>

HandlerStep == OpenStream \/ Serve \/ ForwardDelta \/ ForwardEnd

-----------------------------------------------------------------------------
(* The endpoints                                                           *)

Pull ==
    /\ job.status = "pending" /\ runner = "idle"
    /\ job' = [job EXCEPT !.status = "running"]
    /\ runner' = "pulling"
    /\ UNCHANGED <<hub, infer, flush, chunks, reports, stream, end, spent>>

(* POST /internal/job/chunk.                                               *)
HandleChunk(c) ==
    /\ c \in chunks
    /\ chunks' = chunks \ {c}
    /\ Publish(Delta(c.lo, c.hi))
    /\ \/ AwaitsChunk(c) /\ Acknowledge
       \/ ~AwaitsChunk(c) /\ UNCHANGED flush
    /\ UNCHANGED <<runner, infer, reports, job, stream, end, spent>>

(* An upload that the worker has given up on never arrives.                *)
LoseChunk ==
    /\ \E c \in chunks : ~AwaitsChunk(c) /\ chunks' = chunks \ {c}
    /\ UNCHANGED <<hub, runner, infer, flush, reports, job, stream, end, spent>>

OutcomeEvent(error) == CASE error = "null"    -> Done("counted")
                         [] error = "blank"   -> Done("zero")
                         [] error = "message" -> Failure

(* POST /internal/job/complete: the row first, then the channel.           *)
HandleReport(error) ==
    /\ error \in reports
    /\ reports' = reports \ {error}
    /\ job' = [status |-> IF error = "message" THEN "failed" ELSE "done",
               output |-> IF error = "null" THEN "text" ELSE "empty"]
    /\ Publish(OutcomeEvent(error))
    /\ \/ Reported(error) /\ runner' = "over"
       \/ ~Reported(error) /\ UNCHANGED runner
    /\ UNCHANGED <<infer, flush, chunks, stream, end, spent>>

LoseReport ==
    /\ \E error \in reports : ~Reported(error) /\ reports' = reports \ {error}
    /\ UNCHANGED <<hub, runner, infer, flush, chunks, job, stream, end, spent>>

-----------------------------------------------------------------------------
(* Calls that fail, and processes that die                                 *)

(* A call whose request is lost with the server fails without more ado; a  *)
(* timeout, or an answer that is lost, is a fault.                         *)
UploadRaises ==
    /\ UploadFails
    /\ \/ Fault("chunk")
       \/ Upload \notin chunks /\ UNCHANGED spent
    /\ UNCHANGED <<hub, job, stream, end>>

ReportRaises ==
    /\ ReportFails
    /\ \/ Fault("report")
       \/ (\A error \in reports : ~Reported(error)) /\ UNCHANGED spent
    /\ UNCHANGED <<hub, job, stream, end>>

LosePullReply ==
    /\ runner = "pulling" /\ Fault("pull")
    /\ runner' = "over"
    /\ UNCHANGED <<hub, infer, flush, chunks, reports, job, stream, end>>

WorkerDies ==
    /\ WorkerCrash /\ Fault("worker")
    /\ UNCHANGED <<hub, job, stream, end>>

(* The hub and the handlers live in memory; the row of the job does not.   *)
ServerDies ==
    /\ stream # "over" /\ Fault("server")
    /\ Close
    /\ chunks' = {} /\ reports' = {}
    /\ stream' = "over" /\ end' = "gone"
    /\ UNCHANGED <<runner, infer, flush, job>>

-----------------------------------------------------------------------------
WorkerStep ==
    /\ \/ StartJob \/ Produce \/ InferenceEnds \/ StreamDone
       \/ SendChunk \/ FlushEnds \/ ReportOk \/ ReportError
    /\ UNCHANGED <<hub, job, stream, end, spent>>

Terminated ==
    /\ stream = "over" /\ runner \in {"idle", "over"} /\ job.status # "pending"
    /\ chunks = {} /\ reports = {}
    /\ UNCHANGED vars

Next ==
    \/ HandlerStep \/ OpenRaises \/ Deadline \/ Disconnect
    \/ Pull \/ LoseChunk \/ LoseReport
    \/ \E c \in chunks : HandleChunk(c)
    \/ \E error \in reports : HandleReport(error)
    \/ WorkerStep \/ UploadRaises \/ ReportRaises
    \/ LosePullReply \/ WorkerDies \/ ServerDies
    \/ Terminated

Spec == Init /\ [][Next]_vars

(* Every coroutine that can go on does, a request that is waited for is    *)
(* handled or fails, and an inference that produces no more pieces ends.   *)
Going(A) == A /\ UNCHANGED <<hub, job, stream, end, spent>>
FairSpec ==
    /\ Spec
    /\ WF_vars(HandlerStep)
    /\ WF_vars(Pull)
    /\ WF_vars(Going(StartJob \/ StreamDone \/ ReportOk \/ ReportError))
    /\ WF_vars(Going(InferenceEnds))
    /\ WF_vars(Going(SendChunk \/ FlushEnds))
    /\ WF_vars(\E c \in chunks : AwaitsChunk(c) /\ HandleChunk(c))
    /\ WF_vars(Upload \notin chunks /\ UploadRaises)
    /\ WF_vars(\E error \in reports : HandleReport(error))
    /\ WF_vars((\A error \in reports : ~Reported(error)) /\ ReportRaises)
=============================================================================
