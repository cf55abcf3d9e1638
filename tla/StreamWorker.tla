---------------------------- MODULE StreamWorker -----------------------------
(***************************************************************************)
(* A worker running one streamed job (JobRunner.loop with job.stream):     *)
(* three coroutines, the job loop, the inference, which appends deltas to  *)
(* delta_queue, and flush_stream_chunks, which collects them and uploads   *)
(* them, retries, and gives up after max_failures failures in a row.       *)
(***************************************************************************)
EXTENDS Naturals

CONSTANTS
    Length,       \* the most pieces the model may produce
    MaxFailures   \* max_failures

ASSUME StreamAssumption == Length \in Nat /\ MaxFailures \in Nat \ {0}

VARIABLES
    runner,    \* where the job loop is
    infer,     \* infer_task and the number of pieces it has produced
    flush,     \* flush_task
    chunks,    \* uploads in flight
    reports    \* completion reports in flight: their error field

workerVars == <<runner, infer, flush, chunks, reports>>

RunnerStates == {"idle", "pulling", "stream", "drain", "okSent", "errSent", "over"}
InferStates == {"off", "running", "ok", "raised", "cancelled"}
FlushStates == {"off", "collect", "sent", "ended", "aborted"}
Errors == {"null", "blank", "message"}

(* flush.acked:    the pieces whose upload was answered                    *)
(* flush.drained:  the pieces taken from delta_queue; those after acked    *)
(*                 are the string pending                                  *)
(* flush.failures: consecutive_failures                                    *)
Flush == [pc : FlushStates, acked : Nat, drained : Nat, failures : Nat]
Chunk == [lo : Nat, hi : Nat, try : Nat]

WorkerInit ==
    /\ runner = "idle"
    /\ infer = [pc |-> "off", produced |-> 0]
    /\ flush = [pc |-> "off", acked |-> 0, drained |-> 0, failures |-> 0]
    /\ chunks = {} /\ reports = {}

-----------------------------------------------------------------------------
(* The inference                                                           *)

Produce ==
    /\ infer.pc = "running" /\ infer.produced < Length
    /\ infer' = [infer EXCEPT !.produced = @ + 1]
    /\ UNCHANGED <<runner, flush, chunks, reports>>

InferenceEnds ==
    /\ infer.pc = "running"
    /\ \E pc \in {"ok", "raised"} : infer' = [infer EXCEPT !.pc = pc]
    /\ UNCHANGED <<runner, flush, chunks, reports>>

-----------------------------------------------------------------------------
(* The flush task                                                          *)

Pending == flush.acked < flush.drained
Upload == [lo |-> flush.acked + 1, hi |-> flush.drained, try |-> flush.failures]
AwaitsChunk(c) == flush.pc = "sent" /\ c = Upload

(* Collect what is queued, or nothing when the wait times out first, and   *)
(* upload what is pending.                                                 *)
SendChunk ==
    /\ flush.pc = "collect"
    /\ \E n \in {flush.drained, infer.produced} :
         /\ flush.acked < n
         /\ flush' = [flush EXCEPT !.pc = "sent", !.drained = n]
         /\ chunks' = chunks \cup {[lo |-> flush.acked + 1, hi |-> n, try |-> flush.failures]}
    /\ UNCHANGED <<runner, infer, reports>>

AcknowledgeWithoutReset ==   \* fault: pending is not emptied after an upload
    flush' = [flush EXCEPT !.pc = "collect", !.failures = 0]

(* The upload is answered: pending = "".                                   *)
Acknowledge ==
    flush' = [flush EXCEPT !.pc = "collect", !.acked = flush.drained, !.failures = 0]

UploadDropped ==   \* fault: pending is emptied whether the upload worked or not
    /\ flush.pc = "sent"
    /\ flush' = [flush EXCEPT !.pc = "collect", !.acked = flush.drained]
    /\ UNCHANGED <<runner, infer, chunks, reports>>

(* The upload raises: keep pending and try again, or abort the job.        *)
UploadFails ==
    /\ flush.pc = "sent"
    /\ \/ /\ flush.failures + 1 < MaxFailures
          /\ flush' = [flush EXCEPT !.pc = "collect", !.failures = @ + 1]
          /\ UNCHANGED infer
       \/ /\ flush.failures + 1 >= MaxFailures
          /\ flush' = [flush EXCEPT !.pc = "aborted", !.failures = @ + 1]
          /\ infer' = [infer EXCEPT !.pc = IF @ = "running" THEN "cancelled" ELSE @]
    /\ UNCHANGED <<runner, chunks, reports>>

FlushEndsAtOnce ==   \* fault: what is pending or queued at the end is forgotten
    /\ flush.pc = "collect" /\ runner = "drain"
    /\ flush' = [flush EXCEPT !.pc = "ended"]
    /\ UNCHANGED <<runner, infer, chunks, reports>>

(* stream_done is set, delta_queue is empty, and nothing is pending.       *)
FlushEnds ==
    /\ flush.pc = "collect" /\ runner = "drain"
    /\ flush.drained = infer.produced /\ ~Pending
    /\ flush' = [flush EXCEPT !.pc = "ended"]
    /\ UNCHANGED <<runner, infer, chunks, reports>>

-----------------------------------------------------------------------------
(* The job loop                                                            *)

StartJob ==
    /\ runner = "pulling"
    /\ runner' = "stream"
    /\ infer' = [infer EXCEPT !.pc = "running"]
    /\ flush' = [flush EXCEPT !.pc = "collect"]
    /\ UNCHANGED <<chunks, reports>>

StreamDoneOnSuccess ==   \* fault: stream_done.set() is not in a finally block
    /\ runner = "stream" /\ infer.pc = "ok"
    /\ runner' = "drain"
    /\ UNCHANGED <<infer, flush, chunks, reports>>

StreamDoneAfterFlush ==   \* fault: the flush task is awaited before stream_done is set
    /\ runner = "stream" /\ infer.pc # "running" /\ flush.pc \in {"ended", "aborted"}
    /\ runner' = "drain"
    /\ UNCHANGED <<infer, flush, chunks, reports>>

(* infer_task is over, however: stream_done.set(), then await flush_task.  *)
StreamDone ==
    /\ runner = "stream" /\ infer.pc # "running"
    /\ runner' = "drain"
    /\ UNCHANGED <<infer, flush, chunks, reports>>

Send(error) == reports' = reports \cup {error}

ReportIgnoringAbort ==   \* fault: an abort after the inference ended is not noticed
    /\ runner = "drain" /\ flush.pc \in {"ended", "aborted"}
    /\ infer.pc = "ok" /\ runner' = "okSent" /\ Send("null")
    /\ UNCHANGED <<infer, flush, chunks>>

(* Success, or the first error that was met: that of the inference, or the *)
(* reason of the abort.  str(e) is empty for some exceptions.              *)
ReportOk ==
    /\ runner = "drain" /\ flush.pc = "ended" /\ infer.pc = "ok"
    /\ runner' = "okSent"
    /\ Send("null")
    /\ UNCHANGED <<infer, flush, chunks>>

ReportError ==
    /\ runner = "drain" /\ flush.pc \in {"ended", "aborted"}
    /\ \E error \in {"blank", "message"} :
         /\ error = "blank" => infer.pc = "raised"
         /\ infer.pc \in {"raised", "cancelled"} \/ flush.pc = "aborted"
         /\ Send(error)
    /\ runner' = "errSent"
    /\ UNCHANGED <<infer, flush, chunks>>

Reported(error) == \/ runner = "okSent" /\ error = "null"
                   \/ runner = "errSent" /\ error # "null"

(* complete raises: a report of success is followed by one of an error, in *)
(* the same except clause; a failing report of an error is dropped.        *)
ReportFails ==
    /\ \/ /\ runner = "okSent"
          /\ runner' = "errSent"
          /\ \E error \in {"blank", "message"} : Send(error)
       \/ /\ runner = "errSent"
          /\ runner' = "over"
          /\ UNCHANGED reports
    /\ UNCHANGED <<infer, flush, chunks>>

(* The process dies; what it has sent stays in flight.                     *)
WorkerCrash ==
    /\ runner \notin {"idle", "over"}
    /\ runner' = "over"
    /\ infer' = [infer EXCEPT !.pc = IF @ = "running" THEN "cancelled" ELSE @]
    /\ flush' = [flush EXCEPT !.pc = "off"]
    /\ UNCHANGED <<chunks, reports>>
=============================================================================
