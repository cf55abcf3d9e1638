--------------------------- MODULE JobStreamProps ----------------------------
(***************************************************************************)
(* What must hold of a streamed request.                                   *)
(***************************************************************************)
EXTENDS JobStream, FiniteSets

(* The client never receives a piece before it has received all the pieces *)
(* in front of it.  Uploads are retried with the text gathered since, and  *)
(* the late one is still handled; nothing may be dropped between the flush *)
(* task's string pending and the channel.                                  *)
NoGap ==
    \A i \in 1 .. hub.taken : hub.queue[i].type = "delta" =>
        \A p \in 1 .. hub.queue[i].lo - 1 : Among(i - 1, p)

(* The done event of a successful report is reached only after all pieces  *)
(* of a complete inference: the report waits for the flush task, and an    *)
(* abort after the inference has ended is still reported as an error.      *)
StoppedWithUsage == end = "stop" /\ hub.queue[hub.taken].usage = "counted"
StopMeansComplete ==
    StoppedWithUsage =>
        infer.pc = "ok" /\ \A p \in 1 .. infer.produced : Received(p)

(* A piece reaches the client once more for every upload that was lost, at *)
(* the most: an answered upload empties pending.                           *)
Copies(p) == Cardinality({i \in 1 .. hub.taken : Carries(hub.queue[i], p)})
RepeatsNeedRetries == \A p \in 1 .. infer.produced : Copies(p) <= 1 + spent

(* A job the row calls done with its text has been produced to the end, so *)
(* that the timeout path never replays half a text as the whole.           *)
DoneMeansComplete ==
    job.output = "text" => infer.pc = "ok" /\ flush.pc # "aborted"

(* The abstract view of the stream: what TextStream promises.              *)
Seen == IF end = "replayed" THEN 1 .. infer.produced
                            ELSE {p \in 1 .. infer.produced : Received(p)}
Ended == CASE end = "none" -> "none"
           [] end = "replayed" \/ StoppedWithUsage -> "stop"
           [] end = "hollow" \/ (end = "stop" /\ ~StoppedWithUsage) -> "cut"
           [] OTHER -> "failed"
Text == INSTANCE TextStream WITH
            made <- infer.produced, complete <- infer.pc = "ok",
            seen <- Seen, ended <- Ended
TextPromise == Text!Spec

(* Every stream ends without the deadline's help, whatever the uploads,    *)
(* the client and the server do: the uploads are answered in the end or    *)
(* the job is aborted.  Only a job that nobody is left to report, because  *)
(* its worker died or its pull or report was lost, needs the deadline.     *)
NobodyReports == runner = "over" /\ reports = {} /\ job.status = "running"
StreamEnds == stream = "ensured" ~> stream = "over" \/ NobodyReports

(* The job loop does not wait for its flush task, its inference or an      *)
(* answer for ever: the worker becomes free for its next job.              *)
RunnerComesBack == runner # "idle" ~> runner = "over"
=============================================================================
