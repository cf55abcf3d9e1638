---------------------------- MODULE WorkerRuntime ----------------------------
(***************************************************************************)
(* A worker process: JobRunner.loop, which pulls a job, runs it and        *)
(* reports the outcome, and heartbeat_loop, which reports the collector's  *)
(* view of the active job.  The calls of both loops are messages in        *)
(* flight until the server handles them; the HTTP client gives up after a  *)
(* timeout without knowing whether it did.                                 *)
(***************************************************************************)
EXTENDS JobQueue

VARIABLES
    runner,     \* runner[w]: where the job loop of w is, and its job
    hb,         \* hb[w]: the heartbeat of w under way
    reports     \* the completion reports in flight

RunnerStates == {"idle", "pulling", "run", "okSent", "errSent"}
Runner == [pc : RunnerStates, job : Requests \cup {None}]
RunnerIdle == [pc |-> "idle", job |-> None]

(* "sent": in flight; the later states belong to the server's handler.     *)
HeartbeatStates == {"none", "sent", "loaded", "committed"}

runnerVars == <<runner, reports>>

RuntimeInit ==
    /\ runner = [w \in Workers |-> RunnerIdle]
    /\ reports = {}

(* The job the collector holds between start_job and finish_job.           *)
Active(w) == runner[w].pc \in {"run", "okSent", "errSent"}
ActiveJob(w) == IF Active(w) THEN JobId(runner[w].job) ELSE None

(* The answer of pull_job arrives: start_job.                              *)
StartJob(w) ==
    /\ runner[w].pc = "pulling"
    /\ runner' = [runner EXCEPT ![w].pc = "run"]
    /\ UNCHANGED <<hb, reports>>

(* The answer of pull_job is lost; the loop sleeps and pulls again.        *)
LosePullReply(w) ==
    /\ runner[w].pc = "pulling"
    /\ runner' = [runner EXCEPT ![w] = RunnerIdle]
    /\ UNCHANGED <<hb, reports>>

Report(w, error) == [worker |-> w, req |-> runner[w].job, error |-> error]

InferenceOk(w) ==
    /\ runner[w].pc = "run"
    /\ runner' = [runner EXCEPT ![w].pc = "okSent"]
    /\ reports' = reports \cup {Report(w, "null")}
    /\ UNCHANGED hb

(* str(e) is empty for some exceptions, a read timeout for one.            *)
InferenceError(w) ==
    /\ runner[w].pc = "run"
    /\ runner' = [runner EXCEPT ![w].pc = "errSent"]
    /\ \E error \in {"blank", "message"} : reports' = reports \cup {Report(w, error)}
    /\ UNCHANGED hb

(* The report the loop of w is waiting on an answer to.                    *)
Awaits(w, m) == /\ m.worker = w /\ m.req = runner[w].job
                /\ \/ runner[w].pc = "okSent" /\ m.error = "null"
                   \/ runner[w].pc = "errSent" /\ m.error # "null"

(* The report of success raises: the same except clause reports an error.  *)
ReportErrorInstead(w) ==
    /\ runner[w].pc = "okSent"
    /\ runner' = [runner EXCEPT ![w].pc = "errSent"]
    /\ \E error \in {"blank", "message"} : reports' = reports \cup {Report(w, error)}
    /\ UNCHANGED hb

(* The report of an error raises: the loop drops it and finishes the job.  *)
DropError(w) ==
    /\ runner[w].pc = "errSent"
    /\ runner' = [runner EXCEPT ![w] = RunnerIdle]
    /\ UNCHANGED <<hb, reports>>

(* A report in flight never reaches the handler, or the handler raises.    *)
LoseReport ==
    /\ \E m \in reports : reports' = reports \ {m}
    /\ UNCHANGED <<hb, runner>>
=============================================================================
