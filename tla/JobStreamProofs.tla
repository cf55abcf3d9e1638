-------------------------- MODULE JobStreamProofs ---------------------------
(***************************************************************************)
(* Proofs about one streamed request, for every length of the text, every  *)
(* number of failures and every kind of fault.                             *)
(***************************************************************************)
EXTENDS JobStreamProps, TLAPS, FiniteSetTheorems

(* Why NoGap holds: whatever the worker has an answer for is in the        *)
(* channel, as long as there is one, and an upload begins at the latest    *)
(* where the answered text ends.                                           *)
QueueInOrder ==
    \A i \in 1 .. Len(hub.queue) : hub.queue[i].type = "delta" =>
        \A p \in 1 .. hub.queue[i].lo - 1 : Among(i - 1, p)
AckedPublished == hub.open => \A p \in 1 .. flush.acked : Published(p)
ChunksReach == \A c \in chunks : c.lo <= flush.acked + 1
FlushBounds == flush.acked <= flush.drained /\ flush.drained <= infer.produced
TextInv == QueueInOrder /\ AckedPublished /\ ChunksReach /\ FlushBounds

(* Before the handler has opened the stream nothing has happened, and      *)
(* before the worker has pulled the job it has produced nothing.           *)
Unopened == stream = "bound" =>
    ~hub.open /\ hub.queue = <<>> /\ runner = "idle" /\ job.status = "absent"
Fresh == runner \in {"idle", "pulling"} =>
    /\ infer.pc = "off" /\ infer.produced = 0
    /\ flush.pc = "off" /\ flush.acked = 0 /\ flush.drained = 0
    /\ chunks = {} /\ reports = {} /\ job.output = "none"
HubLives == stream \in {"ensured", "serving"} => hub.open
EndsOver == end # "none" => stream = "over"
Taken == hub.taken <= Len(hub.queue)
NotRunning == runner \in {"drain", "okSent", "errSent", "over"} => infer.pc # "running"
EndedFlush == flush.pc = "ended" =>
    flush.acked = infer.produced /\ infer.pc # "running"
LifeInv ==
    /\ Unopened /\ Fresh /\ HubLives /\ EndsOver /\ Taken
    /\ NotRunning /\ EndedFlush

(* Why a success is the whole text: the report waits for the flush task,   *)
(* which ends only when everything produced has been answered.             *)
Counted(i) == hub.queue[i].type = "done" /\ hub.queue[i].usage = "counted"
Whole == infer.pc = "ok" /\ flush.acked = infer.produced /\ flush.pc \in {"ended", "off"}
SuccessIsWhole ==
    /\ "null" \in reports => Whole
    /\ runner = "okSent" => Whole
    /\ job.output = "text" => Whole
    /\ \A i \in 1 .. Len(hub.queue) : Counted(i) => Whole
DoneIsLast ==
    \A i \in 1 .. Len(hub.queue) : Counted(i) =>
        \A p \in 1 .. infer.produced : Among(i - 1, p)
StopIsDone == end = "stop" => hub.taken >= 1 /\ hub.queue[hub.taken].type = "done"
SuccessInv == SuccessIsWhole /\ DoneIsLast /\ StopIsDone

StreamInv == TypeOK /\ TextInv /\ LifeInv /\ SuccessInv

-----------------------------------------------------------------------------
(* Publishing an event keeps what is in the channel.                       *)
LEMMA PublishAppends ==
    ASSUME TypeOK, NEW e \in Event, Publish(e)
    PROVE  /\ hub' \in [open : BOOLEAN, queue : Seq(Event), taken : Nat]
           /\ hub'.taken = hub.taken /\ hub'.open = hub.open
           /\ \A i \in 1 .. Len(hub.queue) : hub'.queue[i] = hub.queue[i]
           /\ \/ ~hub.open /\ hub' = hub
              \/ /\ hub.open
                 /\ Len(hub'.queue) = Len(hub.queue) + 1
                 /\ hub'.queue[Len(hub.queue) + 1] = e
  <1>1. CASE ~hub.open BY <1>1 DEF Publish, TypeOK
  <1>2. CASE hub.open
    <2>1. hub.queue \in Seq(Event) /\ hub.taken \in Nat BY DEF TypeOK
    <2>2. hub' = [open |-> hub.open, queue |-> Append(hub.queue, e), taken |-> hub.taken]
        BY <1>2 DEF Publish, TypeOK
    <2>3. /\ Append(hub.queue, e) \in Seq(Event)
          /\ Len(Append(hub.queue, e)) = Len(hub.queue) + 1
          /\ Append(hub.queue, e)[Len(hub.queue) + 1] = e
          /\ \A i \in 1 .. Len(hub.queue) : Append(hub.queue, e)[i] = hub.queue[i]
        BY <2>1
    <2> QED BY <1>2, <2>1, <2>2, <2>3
  <1> QED BY <1>1, <1>2

LEMMA AmongKept ==
    ASSUME TypeOK, NEW e \in Event, Publish(e),
           NEW n \in 0 .. Len(hub.queue), NEW p
    PROVE  Among(n, p)' <=> Among(n, p)
  <1>1. Len(hub.queue) \in Nat BY DEF TypeOK
  <1>2. \A i \in 1 .. n : hub'.queue[i] = hub.queue[i] BY <1>1, PublishAppends
  <1>3. \A i \in 1 .. n : Carries(hub.queue[i], p)' <=> Carries(hub.queue[i], p)
      BY <1>2 DEF Carries
  <1> QED BY <1>3 DEF Among

LEMMA PublishedGrows ==
    ASSUME TypeOK, NEW e \in Event, Publish(e), NEW p
    PROVE  /\ Published(p) => Published(p)'
           /\ hub.open /\ Carries(e, p) => Published(p)'
  <1>1. Len(hub.queue) \in Nat /\ Len(hub'.queue) \in Nat
      BY PublishAppends DEF TypeOK
  <1>2. Len(hub'.queue) >= Len(hub.queue) BY <1>1, PublishAppends
  <1>3. Published(p) => Published(p)'
      BY <1>1, <1>2, PublishAppends DEF Published, Among, Carries
  <1>4. hub.open /\ Carries(e, p) => Published(p)'
    <2>1. ASSUME hub.open, Carries(e, p) PROVE Published(p)'
      <3>1. /\ Len(hub'.queue) = Len(hub.queue) + 1
            /\ hub'.queue[Len(hub.queue) + 1] = e
          BY <2>1, PublishAppends
      <3>2. Len(hub.queue) + 1 \in 1 .. Len(hub'.queue) BY <1>1, <3>1
      <3> QED BY <2>1, <3>1, <3>2 DEF Published, Among, Carries
    <2> QED BY <2>1
  <1> QED BY <1>3, <1>4

-----------------------------------------------------------------------------
(* The worker's steps                                                      *)

LEMMA WorkerKeeps ==
    ASSUME StreamInv, UNCHANGED <<hub, job, stream, end>>, spent' \in Nat,
           \/ StartJob \/ Produce \/ InferenceEnds \/ StreamDone
           \/ SendChunk \/ FlushEnds \/ ReportOk \/ ReportError
           \/ UploadFails \/ ReportFails \/ WorkerCrash
    PROVE  StreamInv'
  <1> USE DEF StreamInv
  <1>1. TypeOK'
    <2> USE DEF TypeOK, Flush, RunnerStates, InferStates, FlushStates
    <2>1. CASE StartJob BY <2>1 DEF StartJob
    <2>2. CASE Produce BY <2>2, StreamAssumption DEF Produce
    <2>3. CASE InferenceEnds BY <2>3 DEF InferenceEnds
    <2>4. CASE StreamDone BY <2>4 DEF StreamDone
    <2>5. CASE SendChunk
      <3>1. PICK n \in {flush.drained, infer.produced} :
                /\ flush' = [flush EXCEPT !.pc = "sent", !.drained = n]
                /\ chunks' = chunks \cup
                       {[lo |-> flush.acked + 1, hi |-> n, try |-> flush.failures]}
          BY <2>5 DEF SendChunk
      <3>2. n \in Nat BY StreamAssumption
      <3>3. flush \in Flush /\ flush' \in Flush BY <3>1, <3>2
      <3>4. [lo |-> flush.acked + 1, hi |-> n, try |-> flush.failures] \in Chunk
          BY <3>2, <3>3 DEF Chunk
      <3>5. chunks' \subseteq Chunk BY <3>1, <3>4
      <3> QED BY <2>5, <3>3, <3>5 DEF SendChunk
    <2>6. CASE FlushEnds BY <2>6 DEF FlushEnds
    <2>7. CASE ReportOk BY <2>7 DEF ReportOk, Send, Errors
    <2>8. CASE ReportError BY <2>8 DEF ReportError, Send, Errors
    <2>9. CASE UploadFails
      <3>1. \/ flush' = [flush EXCEPT !.pc = "collect", !.failures = @ + 1]
            \/ flush' = [flush EXCEPT !.pc = "aborted", !.failures = @ + 1]
          BY <2>9 DEF UploadFails
      <3>2. infer' = infer \/ infer' = [infer EXCEPT !.pc = infer'.pc]
          BY <2>9 DEF UploadFails
      <3>3. infer'.pc \in InferStates BY <2>9 DEF UploadFails
      <3>4. infer' \in [pc : InferStates, produced : 0 .. Length] BY <3>2, <3>3
      <3>5. flush' \in Flush
        <4>1. flush \in Flush /\ flush.failures + 1 \in Nat OBVIOUS
        <4> HIDE DEF TypeOK
        <4> QED BY <3>1, <4>1
      <3> QED BY <2>9, <3>4, <3>5 DEF UploadFails
    <2>10. CASE ReportFails BY <2>10 DEF ReportFails, Send, Errors
    <2>11. CASE WorkerCrash
      <3>1. infer' = infer \/ infer' = [infer EXCEPT !.pc = "cancelled"]
          BY <2>11 DEF WorkerCrash
      <3> QED BY <2>11, <3>1 DEF WorkerCrash
    <2> QED BY <2>1, <2>2, <2>3, <2>4, <2>5, <2>6, <2>7, <2>8, <2>9, <2>10, <2>11
  <1>2. TextInv'
    <2>1. QueueInOrder' BY DEF TextInv, QueueInOrder, Among, Carries
    <2>2. UNCHANGED flush.acked
      <3> USE DEF TypeOK, Flush
      <3> QED BY DEF StartJob, Produce, InferenceEnds, StreamDone, SendChunk, FlushEnds,
                     ReportOk, ReportError, UploadFails, ReportFails, WorkerCrash
    <2>3. AckedPublished' BY <2>2 DEF TextInv, AckedPublished, Published, Among, Carries
    <2>4. ChunksReach' /\ FlushBounds'
      <3> USE DEF TextInv, ChunksReach, FlushBounds, TypeOK, Flush, Chunk
      <3>1. CASE SendChunk BY <3>1 DEF SendChunk
      <3>2. CASE Produce BY <3>2 DEF Produce
      <3>3. CASE ~SendChunk /\ ~Produce
          BY <3>3 DEF StartJob, InferenceEnds, StreamDone, FlushEnds,
                     ReportOk, ReportError, UploadFails, ReportFails, WorkerCrash
      <3> QED BY <3>1, <3>2, <3>3
    <2> QED BY <2>1, <2>3, <2>4 DEF TextInv
  <1>3. LifeInv'
    <2> USE DEF LifeInv, TypeOK, Flush, Unopened, Fresh, HubLives, EndsOver, Taken, NotRunning,
                EndedFlush
    <2>1. CASE StartJob BY <2>1 DEF StartJob
    <2>2. CASE Produce BY <2>2 DEF Produce
    <2>3. CASE InferenceEnds BY <2>3 DEF InferenceEnds
    <2>4. CASE StreamDone BY <2>4 DEF StreamDone
    <2>5. CASE SendChunk BY <2>5 DEF SendChunk
    <2>6. CASE FlushEnds BY <2>6 DEF FlushEnds, Pending, TextInv, FlushBounds
    <2>7. CASE ReportOk BY <2>7 DEF ReportOk, Send
    <2>8. CASE ReportError BY <2>8 DEF ReportError, Send
    <2>9. CASE UploadFails BY <2>9 DEF UploadFails
    <2>10. CASE ReportFails BY <2>10 DEF ReportFails, Send
    <2>11. CASE WorkerCrash BY <2>11 DEF WorkerCrash
    <2> QED BY <2>1, <2>2, <2>3, <2>4, <2>5, <2>6, <2>7, <2>8, <2>9, <2>10, <2>11
  <1>4. SuccessInv'
    <2>1. Whole => Whole' /\ UNCHANGED infer.produced
      <3> USE DEF Whole, TypeOK, Flush
      <3>1. CASE StartJob BY <3>1 DEF StartJob, LifeInv, Fresh
      <3>2. CASE ~StartJob
          BY <3>2 DEF Produce, InferenceEnds, StreamDone, SendChunk, FlushEnds,
                     ReportOk, ReportError, UploadFails, ReportFails, WorkerCrash
      <3> QED BY <3>1, <3>2
    <2>2. ("null" \in reports' \/ runner' = "okSent")
              => ("null" \in reports \/ runner = "okSent" \/ Whole)
        BY DEF StartJob, Produce, InferenceEnds, StreamDone, SendChunk, FlushEnds,
               ReportOk, ReportError, UploadFails, ReportFails, WorkerCrash, Send,
               Whole, LifeInv, EndedFlush
    <2>3. SuccessIsWhole' BY <2>1, <2>2 DEF SuccessInv, SuccessIsWhole, Counted
    <2>4. DoneIsLast'
        BY <2>1 DEF SuccessInv, SuccessIsWhole, DoneIsLast, Counted, Among, Carries
    <2>5. StopIsDone' BY DEF SuccessInv, StopIsDone
    <2> QED BY <2>3, <2>4, <2>5 DEF SuccessInv
  <1> QED BY <1>1, <1>2, <1>3, <1>4

-----------------------------------------------------------------------------
(* The handler's steps                                                     *)

HandlerAction ==
    \/ OpenStream \/ OpenRaises \/ Serve \/ ForwardDelta \/ ForwardEnd
    \/ Deadline \/ Disconnect \/ ServerDies

(* None of them publishes anything.                                        *)
LEMMA HandlerKeeps ==
    ASSUME StreamInv, HandlerAction
    PROVE  StreamInv'
  <1> USE DEF StreamInv
  <1>a. /\ UNCHANGED <<runner, infer, flush>>
        /\ chunks' \subseteq chunks /\ reports' \subseteq reports
        /\ UNCHANGED job.output
      BY DEF HandlerAction, OpenStream, OpenRaises, Serve, ForwardDelta, ForwardEnd, Deadline,
             Disconnect, ServerDies, workerVars, TypeOK
  <1>b. \E open \in BOOLEAN :
           \/ hub' = [hub EXCEPT !.open = open]
           \/ Nonempty /\ hub' = [hub EXCEPT !.open = open, !.taken = @ + 1]
    <2>1. CASE ForwardDelta
      <3>1. hub' = [hub EXCEPT !.open = hub.open, !.taken = @ + 1]
          BY <2>1 DEF ForwardDelta, Take, TypeOK
      <3> QED BY <2>1, <3>1 DEF ForwardDelta, Take, TypeOK
    <2>2. CASE ForwardEnd
      <3>1. hub' = [hub EXCEPT !.open = FALSE, !.taken = @ + 1]
          BY <2>2 DEF ForwardEnd, TakeAndClose, TypeOK
      <3> QED BY <2>2, <3>1 DEF ForwardEnd, TakeAndClose
    <2>3. CASE UNCHANGED hub
      <3>1. hub.open \in BOOLEAN /\ hub' = [hub EXCEPT !.open = hub.open]
          BY <2>3 DEF TypeOK
      <3> QED BY <3>1
    <2>4. CASE ~ForwardDelta /\ ~ForwardEnd /\ hub' # hub
        BY <2>4 DEF HandlerAction, OpenStream, OpenRaises, Ensure, Serve, Subscribe,
                    Deadline, Disconnect, ServerDies, Close
    <2> QED BY <2>1, <2>2, <2>3, <2>4
  <1>c. /\ UNCHANGED hub.queue
        /\ hub' \in [open : BOOLEAN, queue : Seq(Event), taken : Nat]
        /\ hub'.taken = hub.taken \/ (hub'.taken = hub.taken + 1 /\ Nonempty)
    <2>1. hub \in [open : BOOLEAN, queue : Seq(Event), taken : Nat] BY DEF TypeOK
    <2>2. PICK open \in BOOLEAN :
             \/ hub' = [hub EXCEPT !.open = open]
             \/ Nonempty /\ hub' = [hub EXCEPT !.open = open, !.taken = @ + 1]
        BY <1>b
    <2>3. CASE hub' = [hub EXCEPT !.open = open] BY <2>1, <2>3
    <2>4. CASE Nonempty /\ hub' = [hub EXCEPT !.open = open, !.taken = @ + 1]
      <3>1. hub.taken + 1 \in Nat BY <2>1
      <3>2. hub' = [open |-> open, queue |-> hub.queue, taken |-> hub.taken + 1]
          BY <2>1, <2>4
      <3>3. hub.queue \in Seq(Event) BY <2>1
      <3> HIDE DEF StreamInv
      <3> QED BY <2>4, <3>1, <3>2, <3>3
    <2> QED BY <2>2, <2>3, <2>4
  <1>1. /\ UNCHANGED <<runner, infer, flush, hub.queue>>
        /\ chunks' \subseteq chunks /\ reports' \subseteq reports
        /\ UNCHANGED job.output
        /\ hub' \in [open : BOOLEAN, queue : Seq(Event), taken : Nat]
        /\ hub'.taken = hub.taken \/ (hub'.taken = hub.taken + 1 /\ Nonempty)
      BY <1>a, <1>c
  <1>2. hub'.open => hub.open \/ stream = "bound"
      BY DEF HandlerAction, OpenStream, OpenRaises, Ensure, Serve, Subscribe, ForwardDelta,
             ForwardEnd, Take, TakeAndClose, Deadline, Disconnect, ServerDies, Close, TypeOK,
             LifeInv, HubLives
  <1>3. TypeOK'
    <2>1. /\ job' \in [status : JobStatus, output : {"none", "empty", "text"}]
          /\ stream' \in {"bound", "ensured", "serving", "over"}
        BY DEF HandlerAction, OpenStream, OpenRaises, Serve, ForwardDelta, ForwardEnd,
               Deadline, Disconnect, ServerDies, TypeOK, JobStatus
    <2>2. end' \in Ends
        BY DEF HandlerAction, OpenStream, OpenRaises, Serve, ForwardDelta, ForwardEnd,
               Deadline, Disconnect, ServerDies, TypeOK, Ends, EndOf, Outcome
    <2>3. spent' \in Nat
        BY DEF HandlerAction, OpenStream, OpenRaises, Serve, ForwardDelta, ForwardEnd,
               Deadline, Disconnect, ServerDies, TypeOK, Fault
    <2> QED BY <1>1, <2>1, <2>2, <2>3 DEF TypeOK
  <1>4. \A n, p : Among(n, p)' <=> Among(n, p) BY <1>1 DEF Among, Carries
  <1>5. TextInv'
    <2>1. QueueInOrder' BY <1>1, <1>4 DEF TextInv, QueueInOrder
    <2>2. AckedPublished'
      <3>1. CASE stream = "bound"
          BY <1>1, <3>1 DEF LifeInv, Unopened, Fresh, AckedPublished
      <3>2. CASE stream # "bound"
          BY <1>1, <1>2, <1>4, <3>2 DEF TextInv, AckedPublished, Published
      <3> QED BY <3>1, <3>2
    <2>3. ChunksReach' /\ FlushBounds' BY <1>1 DEF TextInv, ChunksReach, FlushBounds
    <2> QED BY <2>1, <2>2, <2>3 DEF TextInv
  <1>6. LifeInv'
    <2>1. Unopened' /\ HubLives' /\ EndsOver'
        BY DEF HandlerAction, OpenStream, OpenRaises, Ensure, Serve, Subscribe, ForwardDelta,
               ForwardEnd, Take, TakeAndClose, Deadline, Disconnect, ServerDies, Close,
               TypeOK, LifeInv, Unopened, HubLives, EndsOver
    <2>2. Fresh' /\ NotRunning' /\ EndedFlush'
        BY <1>1 DEF LifeInv, Fresh, NotRunning, EndedFlush
    <2>3. Taken' BY <1>1 DEF LifeInv, Taken, Nonempty, TypeOK
    <2> QED BY <2>1, <2>2, <2>3 DEF LifeInv
  <1>7. SuccessInv'
    <2>1. SuccessIsWhole' BY <1>1 DEF SuccessInv, SuccessIsWhole, Counted, Whole
    <2>2. DoneIsLast' BY <1>1, <1>4 DEF SuccessInv, DoneIsLast, Counted
    <2>3. StopIsDone'
      <3>1. ASSUME end' = "stop" PROVE ForwardEnd \/ end = "stop"
          BY <3>1 DEF HandlerAction, OpenStream, OpenRaises, Serve, ForwardDelta, Deadline,
                      Disconnect, ServerDies, Outcome
      <3>2. CASE ForwardEnd
          BY <3>2 DEF ForwardEnd, EndOf, TakeAndClose, Front, StopIsDone, TypeOK
      <3>3. ASSUME end = "stop", ~ForwardEnd PROVE UNCHANGED hub.taken
          BY <3>3 DEF HandlerAction, OpenStream, OpenRaises, Ensure, Serve, Subscribe,
                      ForwardDelta, Deadline, Disconnect, ServerDies, Close, TypeOK,
                      LifeInv, EndsOver
      <3> QED BY <1>1, <3>1, <3>2, <3>3 DEF SuccessInv, StopIsDone
    <2> QED BY <2>1, <2>2, <2>3 DEF SuccessInv
  <1> QED BY <1>3, <1>5, <1>6, <1>7

-----------------------------------------------------------------------------
(* The endpoints' steps                                                    *)

(* Those that publish nothing.                                             *)
LEMMA QuietKeeps ==
    ASSUME StreamInv, Pull \/ LoseChunk \/ LoseReport \/ LosePullReply
    PROVE  StreamInv'
  <1> USE DEF StreamInv
  <1>1. /\ UNCHANGED <<hub, infer, flush, stream, end, job.output>>
        /\ chunks' \subseteq chunks /\ reports' \subseteq reports
        /\ \/ UNCHANGED <<runner, job>>
           \/ runner = "pulling" /\ runner' = "over" /\ UNCHANGED job
           \/ runner = "idle" /\ runner' = "pulling" /\ job.status = "pending"
        /\ job' \in [status : JobStatus, output : {"none", "empty", "text"}]
        /\ spent' \in Nat
      BY DEF Pull, LoseChunk, LoseReport, LosePullReply, Fault, TypeOK, JobStatus
  <1>2. TypeOK' BY <1>1 DEF TypeOK, RunnerStates
  <1>3. TextInv'
      BY <1>1 DEF TextInv, QueueInOrder, AckedPublished, Published, Among, Carries,
                  ChunksReach, FlushBounds
  <1>4. LifeInv'
      BY <1>1 DEF LifeInv, Unopened, Fresh, HubLives, EndsOver, Taken, NotRunning, EndedFlush
  <1>5. SuccessInv'
      BY <1>1 DEF SuccessInv, SuccessIsWhole, DoneIsLast, StopIsDone, Counted, Whole,
                  Among, Carries
  <1> QED BY <1>2, <1>3, <1>4, <1>5

(* job_chunk: an upload that begins where the answered text ends, or       *)
(* earlier, is appended to a channel that holds the text up to there.      *)
LEMMA ChunkKeeps ==
    ASSUME StreamInv, NEW c \in chunks, HandleChunk(c)
    PROVE  StreamInv'
  <1> USE DEF StreamInv
  <1> DEFINE e == Delta(c.lo, c.hi)
  <1>1. c \in Chunk /\ e \in Event /\ Publish(e)
      BY DEF HandleChunk, TypeOK, Chunk, Delta, Event
  <1>2. /\ UNCHANGED <<runner, infer, reports, job, stream, end, spent>>
        /\ chunks' = chunks \ {c}
        /\ \/ UNCHANGED flush
           \/ /\ flush.pc = "sent" /\ flush'.pc = "collect"
              /\ c.lo = flush.acked + 1 /\ c.hi = flush.drained
              /\ flush'.acked = flush.drained /\ UNCHANGED flush.drained
    <2>1. CASE AwaitsChunk(c)
      <3>1. flush' = [flush EXCEPT !.pc = "collect", !.acked = flush.drained, !.failures = 0]
          BY <2>1 DEF HandleChunk, Acknowledge
      <3>2. flush \in Flush BY DEF TypeOK
      <3>3. flush'.pc = "collect" /\ flush'.acked = flush.drained
                /\ flush'.drained = flush.drained
          BY <3>1, <3>2 DEF Flush
      <3>4. flush.pc = "sent" /\ c.lo = flush.acked + 1 /\ c.hi = flush.drained
          BY <2>1 DEF AwaitsChunk, Upload
      <3> QED BY <3>3, <3>4 DEF HandleChunk
    <2>2. CASE ~AwaitsChunk(c) BY <2>2 DEF HandleChunk
    <2> QED BY <2>1, <2>2
  <1>3. TypeOK'
    <2>1. flush' \in Flush
      <3>1. flush \in Flush BY DEF TypeOK
      <3>2. \/ UNCHANGED flush
            \/ flush' = [flush EXCEPT !.pc = "collect", !.acked = flush.drained, !.failures = 0]
          BY DEF HandleChunk, Acknowledge
      <3> HIDE DEF StreamInv
      <3>3. ASSUME flush' = [flush EXCEPT !.pc = "collect", !.acked = flush.drained,
                                          !.failures = 0]
            PROVE  flush' = [pc |-> "collect", acked |-> flush.drained,
                             drained |-> flush.drained, failures |-> 0]
          BY <3>1, <3>3 DEF Flush
      <3>4. flush.drained \in Nat BY <3>1 DEF Flush
      <3> QED BY <3>1, <3>2, <3>3, <3>4 DEF Flush, FlushStates
    <2> QED BY <1>1, <1>2, <2>1, PublishAppends DEF TypeOK
  <1>4. Len(hub.queue) \in Nat /\ flush.acked \in Nat /\ flush.drained \in Nat
      BY DEF TypeOK, Flush
  <1>5. TextInv'
    <2>1. QueueInOrder'
      <3>1. CASE ~hub.open
        <4>1. hub' = hub BY <1>1, <3>1, PublishAppends
        <4> QED BY <4>1 DEF TextInv, QueueInOrder, Among, Carries
      <3>2. CASE hub.open
        <4>1. PICK n \in Nat : n = Len(hub.queue) BY <1>4
        <4>2. Len(hub'.queue) = n + 1 /\ hub'.queue[n + 1] = e
            BY <1>1, <3>2, <4>1, PublishAppends
        <4>3. ASSUME NEW i \in 1 .. n, hub'.queue[i].type = "delta",
                     NEW p \in 1 .. hub'.queue[i].lo - 1
              PROVE  Among(i - 1, p)'
          <5>1. hub'.queue[i] = hub.queue[i] BY <1>1, <4>1, PublishAppends
          <5>2. Among(i - 1, p) BY <4>1, <4>3, <5>1 DEF TextInv, QueueInOrder
          <5>3. i - 1 \in 0 .. Len(hub.queue) BY <4>1
          <5> HIDE DEF e
          <5> QED BY <1>1, <5>2, <5>3, AmongKept
        <4>4. ASSUME NEW p \in 1 .. c.lo - 1 PROVE Among(n, p)'
          <5>1. p \in 1 .. flush.acked BY <1>1, <1>4 DEF TextInv, ChunksReach, Chunk
          <5>2. Among(n, p)
              BY <3>2, <4>1, <5>1 DEF TextInv, AckedPublished, Published
          <5>3. n \in 0 .. Len(hub.queue) BY <4>1
          <5> HIDE DEF e
          <5> QED BY <1>1, <5>2, <5>3, AmongKept
        <4> SUFFICES ASSUME NEW i \in 1 .. Len(hub'.queue), hub'.queue[i].type = "delta",
                            NEW p \in 1 .. hub'.queue[i].lo - 1
                     PROVE  Among(i - 1, p)'
            BY DEF QueueInOrder
        <4>5. CASE i = n + 1
          <5>1. hub'.queue[i].lo = c.lo BY <4>2, <4>5 DEF Delta
          <5>2. i - 1 = n BY <4>5
          <5> QED BY <4>4, <5>1, <5>2
        <4>6. CASE i # n + 1
          <5>1. i \in 1 .. n BY <4>2, <4>6
          <5> QED BY <4>3, <5>1
        <4> QED BY <4>5, <4>6
      <3> QED BY <3>1, <3>2
    <2>2. AckedPublished'
      <3> SUFFICES ASSUME hub'.open, NEW p \in 1 .. flush'.acked PROVE Published(p)'
          BY DEF AckedPublished
      <3>1. hub.open BY <1>1, PublishAppends
      <3>2. CASE p \in 1 .. flush.acked
          BY <1>1, <3>1, <3>2, PublishedGrows DEF TextInv, AckedPublished
      <3>3. CASE p \notin 1 .. flush.acked
        <4>1. p \in c.lo .. c.hi BY <1>2, <1>4, <3>3
        <4> QED BY <1>1, <3>1, <4>1, PublishedGrows DEF Carries, Delta
      <3> QED BY <3>2, <3>3
    <2>3. ChunksReach'
        BY <1>2, <1>4 DEF TextInv, ChunksReach, FlushBounds, TypeOK, Chunk
    <2>4. FlushBounds' BY <1>2, <1>4 DEF TextInv, FlushBounds
    <2> QED BY <2>1, <2>2, <2>3, <2>4 DEF TextInv
  <1>6. LifeInv'
    <2>1. Unopened' /\ Fresh'
        BY <1>2 DEF LifeInv, Unopened, Fresh
    <2>2. HubLives' /\ EndsOver' /\ NotRunning' /\ EndedFlush'
        BY <1>1, <1>2, PublishAppends
           DEF LifeInv, HubLives, EndsOver, NotRunning, EndedFlush
    <2>3. Taken' BY <1>1, <1>4, PublishAppends DEF LifeInv, Taken, TypeOK
    <2> QED BY <2>1, <2>2, <2>3 DEF LifeInv
  <1>7. SuccessInv'
    <2>1. ASSUME NEW i \in 1 .. Len(hub'.queue), Counted(i)'
          PROVE  i \in 1 .. Len(hub.queue) /\ Counted(i)
      <3>1. CASE ~hub.open
        <4>1. hub' = hub BY <1>1, <3>1, PublishAppends
        <4> QED BY <2>1, <4>1 DEF Counted
      <3>2. CASE hub.open
        <4>1. /\ Len(hub'.queue) = Len(hub.queue) + 1
              /\ hub'.queue[Len(hub.queue) + 1] = e
              /\ \A j \in 1 .. Len(hub.queue) : hub'.queue[j] = hub.queue[j]
            BY <1>1, <3>2, PublishAppends
        <4>2. i # Len(hub.queue) + 1 BY <2>1, <4>1 DEF Counted, Delta
        <4>3. i \in 1 .. Len(hub.queue) BY <1>4, <4>1, <4>2
        <4> QED BY <2>1, <4>1, <4>3 DEF Counted
      <3> QED BY <3>1, <3>2
    <2>2. Whole => Whole' BY <1>2 DEF Whole
    <2>3. SuccessIsWhole' BY <1>2, <2>1, <2>2 DEF SuccessInv, SuccessIsWhole
    <2>4. DoneIsLast'
      <3> SUFFICES ASSUME NEW i \in 1 .. Len(hub'.queue), Counted(i)',
                          NEW p \in 1 .. infer'.produced
                   PROVE  Among(i - 1, p)'
          BY DEF DoneIsLast
      <3>1. Among(i - 1, p) BY <1>2, <2>1 DEF SuccessInv, DoneIsLast
      <3>2. i - 1 \in 0 .. Len(hub.queue) BY <1>4, <2>1
      <3> HIDE DEF e
      <3> QED BY <1>1, <3>1, <3>2, AmongKept
    <2>5. StopIsDone'
        BY <1>1, <1>2, <1>4, PublishAppends DEF SuccessInv, StopIsDone, LifeInv, Taken, TypeOK
    <2> QED BY <2>3, <2>4, <2>5 DEF SuccessInv
  <1> QED BY <1>3, <1>5, <1>6, <1>7

(* complete_job: what is published after a success follows the whole text. *)
LEMMA ReportKeeps ==
    ASSUME StreamInv, NEW error \in reports, HandleReport(error)
    PROVE  StreamInv'
  <1> USE DEF StreamInv
  <1> DEFINE e == OutcomeEvent(error)
  <1>1. error \in Errors /\ e \in Event /\ Publish(e) /\ e.type # "delta"
      BY DEF HandleReport, TypeOK, Errors, OutcomeEvent, Done, Failure, Event
  <1>2. /\ UNCHANGED <<infer, flush, chunks, stream, end, spent>>
        /\ reports' \subseteq reports
        /\ runner' = runner \/ (runner \in {"okSent", "errSent"} /\ runner' = "over")
        /\ job' \in [status : JobStatus, output : {"none", "empty", "text"}]
        /\ job'.output = "text" => error = "null"
      BY DEF HandleReport, Reported, JobStatus
  <1>3. TypeOK' BY <1>1, <1>2, PublishAppends DEF TypeOK, RunnerStates
  <1>4. Len(hub.queue) \in Nat BY DEF TypeOK
  <1>5. \A i \in 1 .. Len(hub'.queue) :
            \/ i \in 1 .. Len(hub.queue) /\ hub'.queue[i] = hub.queue[i]
            \/ hub.open /\ i = Len(hub.queue) + 1 /\ hub'.queue[i] = e
    <2>1. CASE ~hub.open
      <3>1. hub' = hub BY <1>1, <2>1, PublishAppends
      <3> QED BY <3>1
    <2>2. CASE hub.open
      <3>1. /\ Len(hub'.queue) = Len(hub.queue) + 1
            /\ hub'.queue[Len(hub.queue) + 1] = e
            /\ \A j \in 1 .. Len(hub.queue) : hub'.queue[j] = hub.queue[j]
          BY <1>1, <2>2, PublishAppends
      <3> QED BY <1>4, <2>2, <3>1
    <2> QED BY <2>1, <2>2
  <1>6. TextInv'
    <2>1. QueueInOrder'
      <3> SUFFICES ASSUME NEW i \in 1 .. Len(hub'.queue), hub'.queue[i].type = "delta",
                          NEW p \in 1 .. hub'.queue[i].lo - 1
                   PROVE  Among(i - 1, p)'
          BY DEF QueueInOrder
      <3>1. i \in 1 .. Len(hub.queue) /\ hub'.queue[i] = hub.queue[i] BY <1>1, <1>5
      <3>2. Among(i - 1, p) BY <3>1 DEF TextInv, QueueInOrder
      <3>3. i - 1 \in 0 .. Len(hub.queue) BY <1>4, <3>1
      <3> HIDE DEF e
      <3> QED BY <1>1, <3>2, <3>3, AmongKept
    <2>2. AckedPublished'
      <3> SUFFICES ASSUME hub'.open, NEW p \in 1 .. flush'.acked PROVE Published(p)'
          BY DEF AckedPublished
      <3>1. hub.open /\ p \in 1 .. flush.acked BY <1>1, <1>2, PublishAppends
      <3> QED BY <1>1, <3>1, PublishedGrows DEF TextInv, AckedPublished
    <2>3. ChunksReach' /\ FlushBounds' BY <1>2 DEF TextInv, ChunksReach, FlushBounds
    <2> QED BY <2>1, <2>2, <2>3 DEF TextInv
  <1>7. LifeInv'
    <2>1. runner \notin {"idle", "pulling"} BY DEF LifeInv, Fresh
    <2>2. Unopened' /\ Fresh' BY <1>2, <2>1 DEF LifeInv, Unopened, Fresh
    <2>3. HubLives' /\ EndsOver' /\ EndedFlush'
        BY <1>1, <1>2, PublishAppends DEF LifeInv, HubLives, EndsOver, EndedFlush
    <2>4. NotRunning' BY <1>2 DEF LifeInv, NotRunning
    <2>5. Taken'
        BY <1>1, <1>3, <1>4, PublishAppends DEF LifeInv, Taken, TypeOK
    <2> QED BY <2>2, <2>3, <2>4, <2>5 DEF LifeInv
  <1>8. SuccessInv'
    <2>1. Whole' <=> Whole BY <1>2 DEF Whole
    <2>2. e.usage = "counted" => error = "null"
        BY <1>1 DEF OutcomeEvent, Done, Failure, Errors
    <2>3. error = "null" => Whole BY DEF SuccessInv, SuccessIsWhole
    <2>4. SuccessIsWhole'
      <3>1. \A i \in 1 .. Len(hub'.queue) : Counted(i)' => Whole
          BY <1>5, <2>2, <2>3 DEF Counted, SuccessInv, SuccessIsWhole
      <3> QED BY <1>2, <2>1, <2>3, <3>1 DEF SuccessInv, SuccessIsWhole
    <2>5. DoneIsLast'
      <3> SUFFICES ASSUME NEW i \in 1 .. Len(hub'.queue), Counted(i)',
                          NEW p \in 1 .. infer'.produced
                   PROVE  Among(i - 1, p)'
          BY DEF DoneIsLast
      <3>1. i - 1 \in 0 .. Len(hub.queue) BY <1>4, <1>5
      <3>2. CASE i \in 1 .. Len(hub.queue) /\ hub'.queue[i] = hub.queue[i]
        <4>1. Among(i - 1, p) BY <1>2, <3>2 DEF SuccessInv, DoneIsLast, Counted
        <4> HIDE DEF e
        <4> QED BY <1>1, <3>1, <4>1, AmongKept
      <3>3. CASE hub.open /\ i = Len(hub.queue) + 1 /\ hub'.queue[i] = e
        <4>1. Whole BY <2>2, <2>3, <3>3 DEF Counted
        <4>2. p \in 1 .. flush.acked BY <1>2, <4>1 DEF Whole
        <4>3. Published(p) BY <3>3, <4>2 DEF TextInv, AckedPublished
        <4>4. i - 1 = Len(hub.queue) BY <1>4, <3>3
        <4>5. Among(i - 1, p) BY <4>3, <4>4 DEF Published
        <4> HIDE DEF e
        <4> QED BY <1>1, <3>1, <4>5, AmongKept
      <3> QED BY <1>5, <3>2, <3>3
    <2>6. StopIsDone'
        BY <1>1, <1>2, <1>4, PublishAppends DEF SuccessInv, StopIsDone, LifeInv, Taken, TypeOK
    <2> QED BY <2>4, <2>5, <2>6 DEF SuccessInv
  <1> QED BY <1>3, <1>6, <1>7, <1>8

-----------------------------------------------------------------------------
(* The theorems                                                            *)

LEMMA InitEstablishes == Init => StreamInv
  <1> SUFFICES ASSUME Init PROVE StreamInv OBVIOUS
  <1> USE DEF Init, HubInit, WorkerInit
  <1>1. TypeOK
    <2>1. <<>> \in Seq(Event) OBVIOUS
    <2> QED BY <2>1, StreamAssumption DEF TypeOK, RunnerStates, InferStates, Flush, FlushStates,
                    JobStatus, Ends
  <1>2. Len(hub.queue) = 0 OBVIOUS
  <1>3. TextInv
      BY <1>2 DEF TextInv, QueueInOrder, AckedPublished, ChunksReach, FlushBounds
  <1>4. LifeInv
      BY <1>2 DEF LifeInv, Unopened, Fresh, HubLives, EndsOver, Taken, NotRunning, EndedFlush
  <1>5. SuccessInv BY <1>2 DEF SuccessInv, SuccessIsWhole, DoneIsLast, StopIsDone
  <1> QED BY <1>1, <1>3, <1>4, <1>5 DEF StreamInv

LEMMA NextPreserves == StreamInv /\ [Next]_vars => StreamInv'
  <1> SUFFICES ASSUME StreamInv, [Next]_vars PROVE StreamInv' OBVIOUS
  <1>0. spent \in Nat BY DEF StreamInv, TypeOK
  <1>1. CASE HandlerStep \/ OpenRaises \/ Deadline \/ Disconnect \/ ServerDies
      BY <1>1, HandlerKeeps DEF HandlerStep, HandlerAction
  <1>2. CASE Pull \/ LoseChunk \/ LoseReport \/ LosePullReply BY <1>2, QuietKeeps
  <1>3. CASE \E c \in chunks : HandleChunk(c) BY <1>3, ChunkKeeps
  <1>4. CASE \E error \in reports : HandleReport(error) BY <1>4, ReportKeeps
  <1>5. CASE WorkerStep \/ UploadRaises \/ ReportRaises \/ WorkerDies
    <2>1. UNCHANGED <<hub, job, stream, end>> /\ spent' \in Nat
        BY <1>0, <1>5 DEF WorkerStep, UploadRaises, ReportRaises, WorkerDies, Fault
    <2>2. \/ StartJob \/ Produce \/ InferenceEnds \/ StreamDone
          \/ SendChunk \/ FlushEnds \/ ReportOk \/ ReportError
          \/ UploadFails \/ ReportFails \/ WorkerCrash
        BY <1>5 DEF WorkerStep, UploadRaises, ReportRaises, WorkerDies
    <2> QED BY <2>1, <2>2, WorkerKeeps
  <1>6. CASE UNCHANGED vars
    <2> USE <1>6 DEF vars
    <2>1. TypeOK' BY DEF StreamInv, TypeOK
    <2>2. TextInv'
        BY DEF StreamInv, TextInv, QueueInOrder, AckedPublished, Published, Among, Carries,
               ChunksReach, FlushBounds
    <2>3. LifeInv'
        BY DEF StreamInv, LifeInv, Unopened, Fresh, HubLives, EndsOver, Taken, NotRunning,
               EndedFlush
    <2>4. SuccessInv'
        BY DEF StreamInv, SuccessInv, SuccessIsWhole, DoneIsLast, StopIsDone, Counted, Whole,
               Among, Carries
    <2> QED BY <2>1, <2>2, <2>3, <2>4 DEF StreamInv
  <1>7. CASE Terminated BY <1>6, <1>7 DEF Terminated
  <1> QED BY <1>1, <1>2, <1>3, <1>4, <1>5, <1>6, <1>7 DEF Next

(* The invariant of the stream, of which the following theorems are        *)
(* consequences: the channel holds the answered text in order.             *)
THEOREM StreamInvariant == Spec => []StreamInv
  <1> QED BY InitEstablishes, NextPreserves, PTL DEF Spec

(* The values of all variables have their types.                           *)
THEOREM StreamTypeCorrect == Spec => []TypeOK
  <1>1. StreamInv => TypeOK BY DEF StreamInv
  <1> QED BY <1>1, StreamInvariant, PTL

(* The client receives no piece before those in front of it, however many  *)
(* uploads are lost, late or repeated, and whichever process dies.         *)
THEOREM NoGapCorrect == Spec => []NoGap
  <1>1. StreamInv => NoGap
    <2> SUFFICES ASSUME StreamInv, NEW i \in 1 .. hub.taken, hub.queue[i].type = "delta",
                        NEW p \in 1 .. hub.queue[i].lo - 1
                 PROVE  Among(i - 1, p)
        BY DEF NoGap
    <2>1. i \in 1 .. Len(hub.queue) BY DEF StreamInv, LifeInv, Taken, TypeOK
    <2> QED BY <2>1 DEF StreamInv, TextInv, QueueInOrder
  <1> QED BY <1>1, StreamInvariant, PTL

(* A stop after a success is the whole text of an inference that ended     *)
(* well: nothing was pending or queued when the worker reported.           *)
THEOREM StopCorrect == Spec => []StopMeansComplete
  <1>1. StreamInv => StopMeansComplete
    <2> SUFFICES ASSUME StreamInv, StoppedWithUsage
                 PROVE  infer.pc = "ok" /\ \A p \in 1 .. infer.produced : Received(p)
        BY DEF StopMeansComplete
    <2>1. hub.taken \in Nat BY DEF StreamInv, TypeOK
    <2>2. Len(hub.queue) \in Nat BY DEF StreamInv, TypeOK
    <2>3. hub.taken \in 1 .. Len(hub.queue) /\ Counted(hub.taken)
        BY <2>1, <2>2 DEF StoppedWithUsage, StreamInv, SuccessInv, StopIsDone, Counted,
                          LifeInv, Taken
    <2>4. infer.pc = "ok" BY <2>3 DEF StreamInv, SuccessInv, SuccessIsWhole, Whole
    <2>5. ASSUME NEW p \in 1 .. infer.produced PROVE Received(p)
      <3>1. Among(hub.taken - 1, p) BY <2>3 DEF StreamInv, SuccessInv, DoneIsLast
      <3> QED BY <2>1, <3>1 DEF Received, Among
    <2> QED BY <2>4, <2>5
  <1> QED BY <1>1, StreamInvariant, PTL

(* A job whose row holds the text was produced to its end and uploaded.    *)
THEOREM DoneCorrect == Spec => []DoneMeansComplete
  <1>1. StreamInv => DoneMeansComplete
      BY DEF StreamInv, SuccessInv, SuccessIsWhole, Whole, DoneMeansComplete
  <1> QED BY <1>1, StreamInvariant, PTL

-----------------------------------------------------------------------------
(* Why a piece is repeated no more often than calls go wrong: what carries *)
(* it, in the channel or still on its way to it, is one upload for each    *)
(* fault, and the one that was answered or is waited for.                  *)
Carriers(p) == {i \in 1 .. Len(hub.queue) : Carries(hub.queue[i], p)}
InFlight(p) == {c \in chunks : p \in c.lo .. c.hi}
Sent(p) ==
    p <= flush.acked \/ (flush.pc = "sent" /\ Upload \in chunks /\ p <= flush.drained)
Uploads(p) == Cardinality(Carriers(p)) + Cardinality(InFlight(p))
UploadsBounded ==
    \A p \in 1 .. Length : Uploads(p) <= IF Sent(p) THEN spent + 1 ELSE spent
CopiesInv == StreamInv /\ IsFiniteSet(chunks) /\ UploadsBounded

LEMMA CarriersFinite ==
    ASSUME TypeOK, NEW p
    PROVE  IsFiniteSet(Carriers(p)) /\ Cardinality(Carriers(p)) \in Nat
  <1>1. Len(hub.queue) \in Int BY DEF TypeOK
  <1>2. IsFiniteSet(1 .. Len(hub.queue)) BY <1>1, FS_Interval
  <1>3. Carriers(p) \in SUBSET (1 .. Len(hub.queue)) BY DEF Carriers
  <1> QED BY <1>2, <1>3, FS_Subset, FS_CardinalityType

LEMMA InFlightFinite ==
    ASSUME IsFiniteSet(chunks), NEW p
    PROVE  IsFiniteSet(InFlight(p)) /\ Cardinality(InFlight(p)) \in Nat
  <1>1. InFlight(p) \in SUBSET chunks BY DEF InFlight
  <1> QED BY <1>1, FS_Subset, FS_CardinalityType

(* A published event is one carrier more of what it carries, at the most.  *)
LEMMA CarriersPublish ==
    ASSUME TypeOK, NEW e \in Event, Publish(e), NEW p
    PROVE  /\ Cardinality(Carriers(p))' <= Cardinality(Carriers(p)) + 1
           /\ ~Carries(e, p) => Cardinality(Carriers(p))' = Cardinality(Carriers(p))
  <1>1. IsFiniteSet(Carriers(p)) /\ Cardinality(Carriers(p)) \in Nat BY CarriersFinite
  <1>2. CASE ~hub.open
    <2>1. hub' = hub BY <1>2, PublishAppends
    <2>2. Carriers(p)' = Carriers(p) BY <2>1 DEF Carriers, Carries
    <2> QED BY <1>1, <2>2
  <1>3. CASE hub.open
    <2>1. PICK n \in Nat : n = Len(hub.queue) BY DEF TypeOK
    <2>2. /\ Len(hub'.queue) = n + 1
          /\ hub'.queue[n + 1] = e
          /\ \A i \in 1 .. n : hub'.queue[i] = hub.queue[i]
        BY <1>3, <2>1, PublishAppends
    <2>3. n + 1 \notin Carriers(p) BY <2>1 DEF Carriers
    <2>4. CASE Carries(e, p)
      <3>1. Carriers(p)' = Carriers(p) \cup {n + 1}
          BY <2>1, <2>2, <2>4 DEF Carriers, Carries
      <3> QED BY <1>1, <2>3, <2>4, <3>1, FS_AddElement
    <2>5. CASE ~Carries(e, p)
      <3>1. Carriers(p)' = Carriers(p) BY <2>1, <2>2, <2>5 DEF Carriers, Carries
      <3> QED BY <1>1, <3>1
    <2> QED BY <2>4, <2>5
  <1> QED BY <1>2, <1>3

(* Steps that publish nothing and send nothing.                            *)
LEMMA UploadsShrink ==
    ASSUME CopiesInv, UNCHANGED hub.queue, chunks' \subseteq chunks
    PROVE  /\ IsFiniteSet(chunks')
           /\ \A p : Uploads(p) \in Nat /\ Uploads(p)' \in Nat /\ Uploads(p)' <= Uploads(p)
  <1>1. IsFiniteSet(chunks) /\ TypeOK BY DEF CopiesInv, StreamInv
  <1>2. IsFiniteSet(chunks') BY <1>1, FS_Subset
  <1>3. ASSUME NEW p
        PROVE  Uploads(p) \in Nat /\ Uploads(p)' \in Nat /\ Uploads(p)' <= Uploads(p)
    <2>1. Carriers(p)' = Carriers(p) BY DEF Carriers, Carries
    <2>2. InFlight(p)' \in SUBSET InFlight(p) BY DEF InFlight
    <2>3. IsFiniteSet(InFlight(p)) /\ Cardinality(InFlight(p)) \in Nat
        BY <1>1, InFlightFinite
    <2>4. /\ Cardinality(InFlight(p)') \in Nat
          /\ Cardinality(InFlight(p)') <= Cardinality(InFlight(p))
        BY <2>2, <2>3, FS_Subset, FS_CardinalityType
    <2>5. Cardinality(Carriers(p)) \in Nat BY <1>1, CarriersFinite
    <2> QED BY <2>1, <2>3, <2>4, <2>5 DEF Uploads
  <1> QED BY <1>2, <1>3

(* Such a step keeps the bound when it excuses what it takes back.         *)
LEMMA QuietUploads ==
    ASSUME CopiesInv, UNCHANGED hub.queue, chunks' \subseteq chunks, spent' \in Nat,
           \/ spent' = spent + 1
           \/ spent' = spent /\ \A p \in 1 .. Length : Sent(p) => Sent(p)'
    PROVE  IsFiniteSet(chunks)' /\ UploadsBounded'
  <1>1. /\ IsFiniteSet(chunks')
        /\ \A p : Uploads(p) \in Nat /\ Uploads(p)' \in Nat /\ Uploads(p)' <= Uploads(p)
      BY UploadsShrink
  <1>2. spent \in Nat BY DEF CopiesInv, StreamInv, TypeOK
  <1>3. ASSUME NEW p \in 1 .. Length
        PROVE  Uploads(p)' <= IF Sent(p)' THEN spent' + 1 ELSE spent'
    <2>1. /\ Uploads(p) <= IF Sent(p) THEN spent + 1 ELSE spent
          /\ Uploads(p) \in Nat /\ Uploads(p)' \in Nat /\ Uploads(p)' <= Uploads(p)
        BY <1>1 DEF CopiesInv, UploadsBounded
    <2>2. CASE Sent(p) BY <1>2, <2>1, <2>2
    <2>3. CASE ~Sent(p) BY <1>2, <2>1, <2>3
    <2> QED BY <2>2, <2>3
  <1> QED BY <1>1, <1>3 DEF UploadsBounded

(* An upload is sent only of what no answered one has carried.             *)
LEMMA SendUploads ==
    ASSUME CopiesInv, SendChunk, UNCHANGED <<hub, spent>>
    PROVE  IsFiniteSet(chunks)' /\ UploadsBounded'
  <1>1. IsFiniteSet(chunks) /\ TypeOK /\ spent \in Nat BY DEF CopiesInv, StreamInv, TypeOK
  <1>2. PICK n \in {flush.drained, infer.produced} :
           /\ flush.acked < n
           /\ flush' = [flush EXCEPT !.pc = "sent", !.drained = n]
           /\ chunks' = chunks \cup
                  {[lo |-> flush.acked + 1, hi |-> n, try |-> flush.failures]}
      BY DEF SendChunk
  <1>3. n \in Nat /\ flush \in Flush /\ flush.acked \in Nat
      BY <1>1, StreamAssumption DEF TypeOK, Flush
  <1> DEFINE c == [lo |-> flush.acked + 1, hi |-> n, try |-> flush.failures]
  <1>4. /\ flush'.pc = "sent" /\ flush'.acked = flush.acked /\ flush'.drained = n
        /\ flush'.failures = flush.failures
      BY <1>2, <1>3 DEF Flush
  <1>5. Upload' = c /\ Upload' \in chunks' BY <1>2, <1>4 DEF Upload
  <1>6. flush.pc = "collect" BY DEF SendChunk
  <1>7. IsFiniteSet(chunks') BY <1>1, <1>2, FS_AddElement
  <1>8. ASSUME NEW p \in 1 .. Length
        PROVE  Uploads(p)' <= IF Sent(p)' THEN spent' + 1 ELSE spent'
    <2>1. Uploads(p) <= IF Sent(p) THEN spent + 1 ELSE spent
        BY DEF CopiesInv, UploadsBounded
    <2>2. Carriers(p)' = Carriers(p) BY DEF Carriers, Carries
    <2>3. /\ IsFiniteSet(InFlight(p)) /\ Cardinality(InFlight(p)) \in Nat
          /\ Cardinality(Carriers(p)) \in Nat
        BY <1>1, InFlightFinite, CarriersFinite
    <2>4. Sent(p) <=> p <= flush.acked BY <1>6 DEF Sent
    <2>5. CASE p \in c.lo .. c.hi
      <3>1. InFlight(p)' = InFlight(p) \cup {c} BY <1>2, <2>5 DEF InFlight
      <3>2. /\ IsFiniteSet(InFlight(p) \cup {c})
            /\ Cardinality(InFlight(p) \cup {c}) <= Cardinality(InFlight(p)) + 1
        <4> HIDE DEF c
        <4> QED BY <2>3, FS_AddElement
      <3>3. Cardinality(InFlight(p)') \in Nat BY <3>1, <3>2, FS_CardinalityType
      <3>4. Cardinality(InFlight(p)') <= Cardinality(InFlight(p)) + 1 BY <3>1, <3>2
      <3>5. ~Sent(p) /\ Sent(p)' BY <1>3, <1>4, <1>5, <2>4, <2>5 DEF Sent
      <3> QED BY <1>1, <2>1, <2>2, <2>3, <3>3, <3>4, <3>5 DEF Uploads
    <2>6. CASE p \notin c.lo .. c.hi
      <3>1. InFlight(p)' = InFlight(p) BY <1>2, <2>6 DEF InFlight
      <3>2. Sent(p) => Sent(p)' BY <1>4, <2>4 DEF Sent
      <3>3. Uploads(p)' = Uploads(p) BY <2>2, <3>1 DEF Uploads
      <3>4. Uploads(p) \in Nat BY <2>3 DEF Uploads
      <3> QED BY <1>1, <2>1, <3>2, <3>3, <3>4
    <2> QED BY <2>5, <2>6
  <1> QED BY <1>7, <1>8 DEF UploadsBounded

(* A chunk that is handled moves from the uploads into the channel.        *)
LEMMA HandleUploads ==
    ASSUME CopiesInv, NEW c \in chunks, HandleChunk(c)
    PROVE  IsFiniteSet(chunks)' /\ UploadsBounded'
  <1> DEFINE e == Delta(c.lo, c.hi)
  <1>1. IsFiniteSet(chunks) /\ TypeOK /\ spent \in Nat /\ flush \in Flush
      BY DEF CopiesInv, StreamInv, TypeOK
  <1>2. e \in Event /\ Publish(e) /\ chunks' = chunks \ {c} /\ UNCHANGED spent
      BY <1>1 DEF HandleChunk, TypeOK, Chunk, Delta, Event
  <1>3. \A p : Carries(e, p) <=> p \in c.lo .. c.hi BY DEF Carries, Delta
  <1> HIDE DEF e
  <1>4. IsFiniteSet(chunks') BY <1>1, <1>2, FS_RemoveElement
  <1>5. ASSUME NEW p \in 1 .. Length
        PROVE  Uploads(p)' <= Uploads(p) /\ Uploads(p) \in Nat /\ Uploads(p)' \in Nat
    <2>1. /\ IsFiniteSet(InFlight(p)) /\ Cardinality(InFlight(p)) \in Nat
          /\ Cardinality(Carriers(p)) \in Nat
        BY <1>1, InFlightFinite, CarriersFinite
    <2>2. TypeOK' BY ChunkKeeps DEF CopiesInv, StreamInv
    <2>3. Cardinality(Carriers(p))' \in Nat
      <3>1. Len(hub'.queue) \in Int BY <2>2 DEF TypeOK
      <3>2. IsFiniteSet(1 .. Len(hub'.queue)) BY <3>1, FS_Interval
      <3>3. Carriers(p)' \in SUBSET (1 .. Len(hub'.queue)) BY DEF Carriers
      <3> QED BY <3>2, <3>3, FS_Subset, FS_CardinalityType
    <2>4. CASE p \in c.lo .. c.hi
      <3>1. InFlight(p)' = InFlight(p) \ {c} /\ c \in InFlight(p)
          BY <1>2, <2>4 DEF InFlight
      <3>2. Cardinality(InFlight(p)') = Cardinality(InFlight(p)) - 1
          BY <2>1, <3>1, FS_RemoveElement
      <3>3. IsFiniteSet(InFlight(p)') BY <2>1, <3>1, FS_RemoveElement
      <3>4. Cardinality(InFlight(p)') \in Nat BY <3>3, FS_CardinalityType
      <3>5. Cardinality(Carriers(p))' <= Cardinality(Carriers(p)) + 1
          BY <1>1, <1>2, CarriersPublish
      <3> QED BY <2>1, <2>3, <3>2, <3>4, <3>5 DEF Uploads
    <2>5. CASE p \notin c.lo .. c.hi
      <3>1. InFlight(p)' = InFlight(p) BY <1>2, <2>5 DEF InFlight
      <3>2. Cardinality(Carriers(p))' = Cardinality(Carriers(p))
          BY <1>1, <1>2, <1>3, <2>5, CarriersPublish
      <3> QED BY <2>1, <3>1, <3>2 DEF Uploads
    <2> QED BY <2>4, <2>5
  <1>6. ASSUME NEW p \in 1 .. Length, Sent(p) PROVE Sent(p)'
    <2>1. flush.acked \in Nat /\ flush.drained \in Nat /\ flush.acked <= flush.drained
        BY <1>1 DEF Flush, CopiesInv, StreamInv, TextInv, FlushBounds
    <2>2. CASE AwaitsChunk(c)
      <3>1. flush' = [flush EXCEPT !.pc = "collect", !.acked = flush.drained, !.failures = 0]
          BY <2>2 DEF HandleChunk, Acknowledge
      <3>2. flush'.acked = flush.drained BY <1>1, <3>1 DEF Flush
      <3> QED BY <1>6, <2>1, <3>2 DEF Sent
    <2>3. CASE ~AwaitsChunk(c)
      <3>1. UNCHANGED flush BY <2>3 DEF HandleChunk
      <3>2. flush.pc = "sent" => Upload # c BY <2>3 DEF AwaitsChunk
      <3> QED BY <1>2, <1>6, <3>1, <3>2 DEF Sent, Upload
    <2> QED BY <2>2, <2>3
  <1>7. ASSUME NEW p \in 1 .. Length
        PROVE  Uploads(p)' <= IF Sent(p)' THEN spent' + 1 ELSE spent'
    <2>1. Uploads(p) <= IF Sent(p) THEN spent + 1 ELSE spent
        BY DEF CopiesInv, UploadsBounded
    <2>2. CASE Sent(p) BY <1>1, <1>2, <1>5, <1>6, <2>1, <2>2
    <2>3. CASE ~Sent(p) BY <1>1, <1>2, <1>5, <2>1, <2>3
    <2> QED BY <2>2, <2>3
  <1> QED BY <1>4, <1>7 DEF UploadsBounded

(* A report carries no piece.                                              *)
LEMMA ReportUploads ==
    ASSUME CopiesInv, NEW error \in reports, HandleReport(error)
    PROVE  IsFiniteSet(chunks)' /\ UploadsBounded'
  <1> DEFINE e == OutcomeEvent(error)
  <1>1. TypeOK /\ IsFiniteSet(chunks) BY DEF CopiesInv, StreamInv
  <1>2. /\ e \in Event /\ e.type # "delta" /\ Publish(e)
        /\ UNCHANGED <<chunks, flush, spent>>
      BY <1>1 DEF HandleReport, TypeOK, Errors, OutcomeEvent, Done, Failure, Event
  <1> HIDE DEF e
  <1>3. ASSUME NEW p \in 1 .. Length PROVE Uploads(p)' = Uploads(p)
    <2>1. Cardinality(Carriers(p))' = Cardinality(Carriers(p))
        BY <1>1, <1>2, CarriersPublish DEF Carries
    <2>2. InFlight(p)' = InFlight(p) BY <1>2 DEF InFlight
    <2> QED BY <2>1, <2>2 DEF Uploads
  <1>4. \A p : Sent(p)' <=> Sent(p) BY <1>2 DEF Sent, Upload
  <1> QED BY <1>1, <1>2, <1>3, <1>4 DEF CopiesInv, UploadsBounded

LEMMA CopiesInductive == CopiesInv /\ [Next]_vars => CopiesInv'
  <1> SUFFICES ASSUME CopiesInv, [Next]_vars PROVE CopiesInv' OBVIOUS
  <1>1. StreamInv' BY NextPreserves DEF CopiesInv
  <1>2. spent \in Nat /\ spent' \in Nat BY <1>1 DEF CopiesInv, StreamInv, TypeOK
  <1>3. TypeOK /\ Unopened /\ Fresh /\ flush \in Flush
      BY DEF CopiesInv, StreamInv, LifeInv, TypeOK
  <1> DEFINE Goal == IsFiniteSet(chunks)' /\ UploadsBounded'
  <1> SUFFICES Goal BY <1>1 DEF CopiesInv
  <1>4. CASE HandlerStep \/ Pull \/ Terminated \/ UNCHANGED vars \/ Deadline
             \/ LoseChunk \/ LoseReport \/ OpenRaises \/ Disconnect \/ LosePullReply
    <2>1. UNCHANGED hub.queue /\ chunks' \subseteq chunks /\ UNCHANGED flush
        BY <1>3, <1>4 DEF HandlerStep, OpenStream, Serve, ForwardDelta, ForwardEnd, Pull,
               Terminated, vars, workerVars, Deadline, LoseChunk, LoseReport, OpenRaises,
               Disconnect, LosePullReply, Ensure, Subscribe, Take, TakeAndClose, Close, TypeOK
    <2>2. CASE ~(OpenRaises \/ Disconnect \/ LosePullReply)
      <3>1. UNCHANGED spent
          BY <1>4, <2>2 DEF HandlerStep, OpenStream, Serve, ForwardDelta, ForwardEnd, Pull,
               Terminated, vars, Deadline, LoseChunk, LoseReport
      <3>2. flush.pc = "sent" /\ Upload \in chunks => Upload \in chunks'
          BY <1>4, <2>2 DEF HandlerStep, OpenStream, Serve, ForwardDelta, ForwardEnd, Pull,
               Terminated, vars, workerVars, Deadline, LoseChunk, LoseReport, AwaitsChunk
      <3>3. \A p : Sent(p) => Sent(p)' BY <2>1, <3>2 DEF Sent, Upload
      <3> QED BY <1>2, <2>1, <3>1, <3>3, QuietUploads
    <2>3. CASE OpenRaises \/ Disconnect \/ LosePullReply
      <3>1. spent' = spent + 1 BY <2>3 DEF OpenRaises, Disconnect, LosePullReply, Fault
      <3> QED BY <1>2, <2>1, <3>1, QuietUploads
    <2> QED BY <2>2, <2>3
  <1>5. CASE WorkerDies \/ ServerDies
    <2>1. UNCHANGED hub.queue /\ chunks' \subseteq chunks /\ spent' = spent + 1
        BY <1>3, <1>5 DEF WorkerDies, WorkerCrash, ServerDies, Close, Fault, TypeOK
    <2> QED BY <1>2, <2>1, QuietUploads
  <1>6. ASSUME NEW c \in chunks, HandleChunk(c) PROVE Goal BY <1>6, HandleUploads
  <1>7. ASSUME NEW error \in reports, HandleReport(error) PROVE Goal BY <1>7, ReportUploads
  <1>8. CASE UploadRaises
    <2>1. UNCHANGED <<hub, chunks, flush.acked>> /\ flush'.pc # "sent"
        BY <1>3, <1>8 DEF UploadRaises, UploadFails, Flush
    <2>2. CASE Upload \notin chunks /\ UNCHANGED spent
      <3>1. \A p : Sent(p) => Sent(p)' BY <2>1, <2>2 DEF Sent
      <3> QED BY <1>2, <2>1, <2>2, <3>1, QuietUploads
    <2>3. CASE Fault("chunk")
      <3>1. spent' = spent + 1 BY <2>3 DEF Fault
      <3> QED BY <1>2, <2>1, <3>1, QuietUploads
    <2> QED BY <1>8, <2>2, <2>3 DEF UploadRaises
  <1>9. CASE ReportRaises
    <2>1. UNCHANGED <<hub, chunks, flush>> BY <1>9 DEF ReportRaises, ReportFails
    <2>2. \A p : Sent(p) => Sent(p)' BY <2>1 DEF Sent, Upload
    <2>3. spent' = spent \/ spent' = spent + 1 BY <1>9 DEF ReportRaises, Fault
    <2> QED BY <1>2, <2>1, <2>2, <2>3, QuietUploads
  <1>10. CASE WorkerStep
    <2>1. CASE SendChunk BY <1>10, <2>1, SendUploads DEF WorkerStep
    <2>2. CASE ~SendChunk
      <3>1. UNCHANGED flush \/ (UNCHANGED flush.acked /\ flush.pc # "sent")
          BY <1>3, <1>10, <2>2 DEF WorkerStep, StartJob, Produce, InferenceEnds, StreamDone,
                 FlushEnds, ReportOk, ReportError, Flush, Fresh
      <3>2. UNCHANGED <<hub, chunks, spent>>
          BY <1>10, <2>2 DEF WorkerStep, StartJob, Produce, InferenceEnds, StreamDone,
                 FlushEnds, ReportOk, ReportError
      <3>3. \A p : Sent(p) => Sent(p)' BY <3>1, <3>2 DEF Sent, Upload
      <3> QED BY <1>2, <3>2, <3>3, QuietUploads
    <2> QED BY <2>1, <2>2
  <1> QED BY <1>4, <1>5, <1>6, <1>7, <1>8, <1>9, <1>10 DEF Next

(* No piece reaches the client more often than once and once more for each *)
(* call that went wrong, however the uploads and their answers are timed.  *)
THEOREM RepeatsCorrect == Spec => []RepeatsNeedRetries
  <1>1. Init => CopiesInv
    <2> SUFFICES ASSUME Init PROVE CopiesInv OBVIOUS
    <2>1. StreamInv BY InitEstablishes
    <2>2. chunks = {} /\ Len(hub.queue) = 0 /\ spent = 0 BY DEF Init, HubInit, WorkerInit
    <2>3. IsFiniteSet(chunks) BY <2>2, FS_EmptySet
    <2>4. ASSUME NEW p PROVE Uploads(p) = 0
      <3>1. Carriers(p) = {} /\ InFlight(p) = {} BY <2>2 DEF Carriers, InFlight
      <3> QED BY <3>1, FS_EmptySet DEF Uploads
    <2>5. UploadsBounded BY <2>2, <2>4 DEF UploadsBounded
    <2> QED BY <2>1, <2>3, <2>5 DEF CopiesInv
  <1>2. CopiesInv => RepeatsNeedRetries
    <2> SUFFICES ASSUME CopiesInv, NEW p \in 1 .. infer.produced
                 PROVE  Copies(p) <= 1 + spent
        BY DEF RepeatsNeedRetries
    <2>1. TypeOK /\ Taken /\ IsFiniteSet(chunks) /\ spent \in Nat
        BY DEF CopiesInv, StreamInv, LifeInv, TypeOK
    <2>2. p \in 1 .. Length BY <2>1, StreamAssumption DEF TypeOK
    <2>3. Uploads(p) <= IF Sent(p) THEN spent + 1 ELSE spent
        BY <2>2 DEF CopiesInv, UploadsBounded
    <2>4. {i \in 1 .. hub.taken : Carries(hub.queue[i], p)} \in SUBSET Carriers(p)
      <3>1. hub.taken \in Nat /\ Len(hub.queue) \in Nat /\ hub.taken <= Len(hub.queue)
          BY <2>1 DEF TypeOK, Taken
      <3> QED BY <3>1 DEF Carriers
    <2>5. /\ IsFiniteSet(Carriers(p)) /\ Cardinality(Carriers(p)) \in Nat
          /\ Cardinality(InFlight(p)) \in Nat
        BY <2>1, CarriersFinite, InFlightFinite
    <2>6. Copies(p) \in Nat /\ Copies(p) <= Cardinality(Carriers(p))
        BY <2>4, <2>5, FS_Subset, FS_CardinalityType DEF Copies
    <2> QED BY <2>1, <2>3, <2>5, <2>6 DEF Uploads
  <1> QED BY <1>1, <1>2, CopiesInductive, PTL DEF Spec

-----------------------------------------------------------------------------
(* The refinement of TextStream                                            *)

(* Chunks carry pieces that have been produced, and what the client has    *)
(* received is the text up to some piece.                                  *)
Bounded ==
    /\ \A c \in chunks : 1 <= c.lo /\ c.hi <= infer.produced
    /\ \A i \in 1 .. Len(hub.queue) : hub.queue[i].type = "delta" =>
           1 <= hub.queue[i].lo /\ hub.queue[i].hi <= infer.produced
Prefix == \E m \in 0 .. infer.produced : \A p \in Nat \ {0} : Received(p) <=> p <= m
Replayed == end = "replayed" => infer.pc = "ok"
RefInv == StreamInv /\ Bounded /\ Prefix /\ Replayed

(* What a step leaves alone when it is not the client's business.          *)
Unseen ==
    /\ hub'.taken = hub.taken
    /\ \A i \in 1 .. hub.taken : hub'.queue[i] = hub.queue[i]

LEMMA UnseenReceived ==
    ASSUME Unseen, NEW p PROVE Received(p)' <=> Received(p)
  BY DEF Unseen, Received, Among, Carries

LEMMA PublishUnseen ==
    ASSUME StreamInv, NEW e \in Event, Publish(e) PROVE Unseen
  <1>1. hub.taken <= Len(hub.queue) /\ hub.taken \in Nat /\ Len(hub.queue) \in Nat
      BY DEF StreamInv, LifeInv, Taken, TypeOK
  <1>2. hub'.taken = hub.taken /\ \A i \in 1 .. Len(hub.queue) : hub'.queue[i] = hub.queue[i]
      BY PublishAppends DEF StreamInv
  <1> QED BY <1>1, <1>2 DEF Unseen

WorkerAction ==
    \/ StartJob \/ Produce \/ InferenceEnds \/ StreamDone
    \/ SendChunk \/ FlushEnds \/ ReportOk \/ ReportError
    \/ UploadFails \/ ReportFails \/ WorkerCrash

LEMMA WorkerBounded ==
    ASSUME RefInv, UNCHANGED hub, WorkerAction
    PROVE  Bounded' /\ Prefix'
  <1>1. /\ infer.produced \in Nat /\ flush \in Flush /\ chunks \subseteq Chunk
        /\ hub.queue \in Seq(Event)
        /\ flush.drained <= infer.produced
      BY StreamAssumption DEF RefInv, StreamInv, TypeOK, TextInv, FlushBounds
  <1>2. infer'.produced = infer.produced \/ (Produce /\ infer'.produced = infer.produced + 1)
      BY DEF WorkerAction, StartJob, Produce, InferenceEnds, StreamDone, SendChunk, FlushEnds,
             ReportOk, ReportError, UploadFails, ReportFails, WorkerCrash, RefInv, StreamInv,
             TypeOK
  <1>3. infer'.produced \in Nat /\ infer.produced <= infer'.produced BY <1>1, <1>2
  <1>4. \A c \in chunks' : c \in chunks \/ (SendChunk /\ 1 <= c.lo /\ c.hi <= infer.produced)
    <2>1. CASE SendChunk
      <3>1. PICK n \in {flush.drained, infer.produced} :
               chunks' = chunks \cup
                   {[lo |-> flush.acked + 1, hi |-> n, try |-> flush.failures]}
          BY <2>1 DEF SendChunk
      <3>2. n <= infer.produced BY <1>1
      <3>3. 1 <= flush.acked + 1 BY <1>1 DEF Flush
      <3> QED BY <2>1, <3>1, <3>2, <3>3
    <2>2. CASE ~SendChunk
        BY <2>2 DEF WorkerAction, StartJob, Produce, InferenceEnds, StreamDone, FlushEnds,
               ReportOk, ReportError, UploadFails, ReportFails, WorkerCrash
    <2> QED BY <2>1, <2>2
  <1>5. Bounded'
    <2>1. ASSUME NEW c \in chunks' PROVE 1 <= c.lo /\ c.hi <= infer'.produced
      <3>1. CASE c \in chunks
        <4>1. c.hi \in Nat /\ 1 <= c.lo /\ c.hi <= infer.produced
            BY <1>1, <3>1 DEF RefInv, Bounded, Chunk
        <4> QED BY <1>1, <1>3, <4>1
      <3>2. CASE c \notin chunks
        <4>1. SendChunk /\ 1 <= c.lo /\ c.hi <= infer.produced BY <1>4, <3>2
        <4>2. UNCHANGED infer BY <4>1 DEF SendChunk
        <4> QED BY <4>1, <4>2
      <3> QED BY <3>1, <3>2
    <2>2. ASSUME NEW i \in 1 .. Len(hub.queue), hub.queue[i].type = "delta"
          PROVE  1 <= hub.queue[i].lo /\ hub.queue[i].hi <= infer'.produced
      <3>a. hub.queue[i] \in Event BY <1>1
      <3>1. hub.queue[i].hi \in Nat BY <3>a DEF Event
      <3>2. 1 <= hub.queue[i].lo /\ hub.queue[i].hi <= infer.produced
          BY <2>2 DEF RefInv, Bounded
      <3> QED BY <1>1, <1>3, <3>1, <3>2
    <2> QED BY <2>1, <2>2 DEF Bounded
  <1>6. Prefix'
    <2>1. PICK m \in 0 .. infer.produced : \A p \in Nat \ {0} : Received(p) <=> p <= m
        BY DEF RefInv, Prefix
    <2>2. m \in 0 .. infer'.produced BY <1>1, <1>3
    <2>3. \A p : Received(p)' <=> Received(p) BY DEF Received, Among, Carries
    <2> QED BY <2>1, <2>2, <2>3 DEF Prefix
  <1> QED BY <1>5, <1>6

(* Everything else: the inference goes on elsewhere.                       *)
LEMMA ServerBounded ==
    ASSUME RefInv, UNCHANGED infer,
           \/ HandlerAction \/ Pull \/ LoseChunk \/ LoseReport \/ LosePullReply
           \/ \E c \in chunks : HandleChunk(c)
           \/ \E error \in reports : HandleReport(error)
    PROVE  Bounded' /\ Prefix'
  <1>1. TypeOK /\ StreamInv /\ hub.taken <= Len(hub.queue) /\ hub.taken \in Nat
        /\ Len(hub.queue) \in Nat /\ hub.queue \in Seq(Event) /\ infer.produced \in Nat
      BY StreamAssumption DEF RefInv, StreamInv, TypeOK, LifeInv, Taken
  <1>2. ASSUME NEW e \in Event, Publish(e), e.type = "delta" => 1 <= e.lo /\ e.hi <= infer.produced,
               chunks' \subseteq chunks
        PROVE  Bounded' /\ Prefix'
    <2>1. \A i \in 1 .. Len(hub'.queue) :
              \/ i \in 1 .. Len(hub.queue) /\ hub'.queue[i] = hub.queue[i]
              \/ hub'.queue[i] = e
      <3>1. CASE ~hub.open
        <4>1. hub' = hub BY <1>1, <1>2, <3>1, PublishAppends
        <4> QED BY <4>1
      <3>2. CASE hub.open
        <4>1. /\ Len(hub'.queue) = Len(hub.queue) + 1
              /\ hub'.queue[Len(hub.queue) + 1] = e
              /\ \A j \in 1 .. Len(hub.queue) : hub'.queue[j] = hub.queue[j]
            BY <1>1, <1>2, <3>2, PublishAppends
        <4> QED BY <1>1, <4>1
      <3> QED BY <3>1, <3>2
    <2>2. Bounded' BY <1>2, <2>1 DEF RefInv, Bounded
    <2>3. \A p : Received(p)' <=> Received(p)
        BY <1>1, <1>2, PublishUnseen, UnseenReceived
    <2>4. Prefix' BY <2>3 DEF RefInv, Prefix
    <2> QED BY <2>2, <2>4
  <1>3. ASSUME NEW c \in chunks, HandleChunk(c) PROVE Bounded' /\ Prefix'
    <2> DEFINE e == Delta(c.lo, c.hi)
    <2>1. e \in Event /\ Publish(e) /\ chunks' \subseteq chunks
        BY <1>1, <1>3 DEF HandleChunk, TypeOK, Chunk, Delta, Event
    <2>2. 1 <= e.lo /\ e.hi <= infer.produced BY DEF RefInv, Bounded, Delta
    <2> HIDE DEF e
    <2> QED BY <1>2, <2>1, <2>2
  <1>4. ASSUME NEW error \in reports, HandleReport(error) PROVE Bounded' /\ Prefix'
    <2> DEFINE e == OutcomeEvent(error)
    <2>1. e \in Event /\ Publish(e) /\ chunks' \subseteq chunks /\ e.type # "delta"
        BY <1>1, <1>4 DEF HandleReport, TypeOK, Errors, OutcomeEvent, Done, Failure, Event
    <2> HIDE DEF e
    <2> QED BY <1>2, <2>1
  <1>5. ASSUME UNCHANGED hub.queue, UNCHANGED hub.taken, chunks' \subseteq chunks
        PROVE  Bounded' /\ Prefix'
    <2>1. Unseen BY <1>5 DEF Unseen
    <2>2. \A p : Received(p)' <=> Received(p) BY <2>1, UnseenReceived
    <2>3. Bounded' BY <1>5 DEF RefInv, Bounded
    <2>4. Prefix' BY <2>2 DEF RefInv, Prefix
    <2> QED BY <2>3, <2>4
  <1>6. CASE Pull \/ LoseChunk \/ LoseReport \/ LosePullReply
    <2>1. UNCHANGED hub /\ chunks' \subseteq chunks
        BY <1>6 DEF Pull, LoseChunk, LoseReport, LosePullReply
    <2> QED BY <1>5, <2>1
  <1>7. CASE HandlerAction /\ ~ForwardDelta /\ ~ForwardEnd
    <2>1. hub \in [open : BOOLEAN, queue : Seq(Event), taken : Nat] BY <1>1 DEF TypeOK
    <2>2. \E open \in BOOLEAN : hub' = [hub EXCEPT !.open = open]
        BY <1>7, <2>1 DEF HandlerAction, OpenStream, OpenRaises, Ensure, Serve, Subscribe,
                  Deadline, Disconnect, ServerDies, Close
    <2>3. chunks' \subseteq chunks
        BY <1>7 DEF HandlerAction, OpenStream, OpenRaises, Serve, Deadline, Disconnect,
                    ServerDies, workerVars
    <2>4. UNCHANGED hub.queue /\ UNCHANGED hub.taken BY <2>1, <2>2
    <2> QED BY <1>5, <2>3, <2>4
  <1>8. CASE ForwardDelta \/ ForwardEnd
    <2>1. /\ UNCHANGED hub.queue /\ hub'.taken = hub.taken + 1
          /\ chunks' \subseteq chunks /\ hub.taken + 1 \in 1 .. Len(hub.queue)
      <3>1. hub \in [open : BOOLEAN, queue : Seq(Event), taken : Nat] BY <1>1 DEF TypeOK
      <3>2. hub.taken + 1 \in 1 .. Len(hub.queue)
          BY <1>1, <1>8 DEF ForwardDelta, ForwardEnd, Take, TakeAndClose, Nonempty
      <3>3. CASE ForwardDelta BY <3>1, <3>2, <3>3 DEF ForwardDelta, Take, workerVars
      <3>4. CASE ForwardEnd BY <3>1, <3>2, <3>4 DEF ForwardEnd, TakeAndClose, workerVars
      <3> QED BY <1>8, <3>3, <3>4
    <2>2. Bounded' BY <2>1 DEF RefInv, Bounded
    <2>3. PICK k \in Nat : k = hub.taken BY <1>1
    <2>4. PICK e \in Event : e = hub.queue[k + 1] BY <1>1, <2>1, <2>3
    <2>5. \A p : Received(p)' <=> Received(p) \/ Carries(e, p)
        BY <2>1, <2>3, <2>4 DEF Received, Among, Carries
    <2>6. PICK m \in 0 .. infer.produced : \A p \in Nat \ {0} : Received(p) <=> p <= m
        BY DEF RefInv, Prefix
    <2>7. CASE e.type # "delta"
      <3>1. \A p : Received(p)' <=> Received(p) BY <2>5, <2>7 DEF Carries
      <3> QED BY <2>2, <2>6, <3>1 DEF Prefix
    <2>8. CASE e.type = "delta" /\ e.hi <= m
      <3>1. \A p \in Nat \ {0} : Received(p)' <=> Received(p)
          BY <2>5, <2>6, <2>8 DEF Carries, Event
      <3> QED BY <2>2, <2>6, <3>1 DEF Prefix
    <2>9. CASE e.type = "delta" /\ e.hi > m
      <3>1. /\ e.lo \in Nat /\ e.hi \in Nat /\ m \in Nat
            /\ 1 <= e.lo /\ e.hi <= infer.produced
          BY <2>1, <2>3, <2>4, <2>9 DEF RefInv, Bounded, Event
      <3>2. \A p \in 1 .. e.lo - 1 : Received(p)
          BY <1>1, <2>1, <2>3, <2>4, <2>9
             DEF StreamInv, TextInv, QueueInOrder, Received
      <3>3. e.lo <= m + 1
        <4>1. CASE e.lo = 1 BY <3>1, <4>1
        <4>2. CASE e.lo # 1
          <5>1. e.lo - 1 \in 1 .. e.lo - 1 /\ e.lo - 1 \in Nat \ {0} BY <3>1, <4>2
          <5>2. e.lo - 1 <= m BY <2>6, <3>2, <5>1
          <5> QED BY <3>1, <5>2
        <4> QED BY <4>1, <4>2
      <3>4. \A p \in Nat \ {0} : Received(p)' <=> p <= e.hi
          BY <2>5, <2>6, <2>9, <3>1, <3>3 DEF Carries
      <3>5. e.hi \in 0 .. infer'.produced BY <1>1, <3>1
      <3> QED BY <2>2, <3>4, <3>5 DEF Prefix
    <2> QED BY <2>7, <2>8, <2>9, <2>6, <2>4 DEF Event
  <1> QED BY <1>3, <1>4, <1>6, <1>7, <1>8

LEMMA RefInvHolds == Spec => []RefInv
  <1>1. Init => RefInv
    <2> SUFFICES ASSUME Init PROVE RefInv OBVIOUS
    <2>1. StreamInv BY InitEstablishes
    <2>2. Bounded /\ Prefix /\ Replayed
        BY DEF Init, HubInit, WorkerInit, Bounded, Prefix, Replayed, Received, Among
    <2> QED BY <2>1, <2>2 DEF RefInv
  <1>2. RefInv /\ [Next]_vars => RefInv'
    <2> SUFFICES ASSUME RefInv, [Next]_vars PROVE RefInv' OBVIOUS
    <2>1. StreamInv' BY NextPreserves DEF RefInv
    <2>2. Bounded' /\ Prefix'
      <3>1. CASE WorkerStep \/ UploadRaises \/ ReportRaises \/ WorkerDies
        <4>1. UNCHANGED hub /\ WorkerAction
            BY <3>1 DEF WorkerStep, UploadRaises, ReportRaises, WorkerDies, WorkerAction
        <4> QED BY <4>1, WorkerBounded
      <3>2. CASE UNCHANGED vars \/ Terminated
          BY <3>2 DEF vars, Terminated, RefInv, Bounded, Prefix, Received, Among, Carries
      <3>3. CASE ~(WorkerStep \/ UploadRaises \/ ReportRaises \/ WorkerDies)
                 /\ ~(UNCHANGED vars \/ Terminated)
        <4>1. \/ HandlerAction \/ Pull \/ LoseChunk \/ LoseReport \/ LosePullReply
              \/ \E c \in chunks : HandleChunk(c)
              \/ \E error \in reports : HandleReport(error)
            BY <3>3 DEF Next, HandlerStep, HandlerAction
        <4>2. UNCHANGED infer
            BY <4>1 DEF HandlerAction, OpenStream, OpenRaises, Serve, ForwardDelta, ForwardEnd,
                   Deadline, Disconnect, ServerDies, workerVars, Pull, LoseChunk, LoseReport,
                   LosePullReply, HandleChunk, HandleReport
        <4> QED BY <4>1, <4>2, ServerBounded
      <3> QED BY <3>1, <3>2, <3>3
    <2>3. Replayed'
      <3>1. CASE end' = end
        <4>1. infer.pc = "ok" => infer'.pc = "ok"
            BY DEF Next, vars, HandlerStep, OpenStream, OpenRaises, Serve, ForwardDelta,
                   ForwardEnd, Deadline, Disconnect, ServerDies, workerVars, Pull, LoseChunk,
                   LoseReport, LosePullReply, HandleChunk, HandleReport, WorkerStep, StartJob,
                   Produce, InferenceEnds, StreamDone, SendChunk, FlushEnds, ReportOk,
                   ReportError, UploadRaises, UploadFails, ReportRaises, ReportFails,
                   WorkerDies, WorkerCrash, Terminated, RefInv, StreamInv, TypeOK, LifeInv,
                   Fresh
        <4> QED BY <3>1, <4>1 DEF RefInv, Replayed
      <3>2. CASE end' # end
        <4>1. \/ Deadline \/ OpenRaises \/ ForwardEnd \/ Disconnect \/ ServerDies
            BY <3>2 DEF Next, vars, HandlerStep, OpenStream, Serve, ForwardDelta, Pull,
                   LoseChunk, LoseReport, LosePullReply, HandleChunk, HandleReport, WorkerStep,
                   UploadRaises, ReportRaises, WorkerDies, Terminated
        <4>2. end' = "replayed" => job.output = "text" /\ UNCHANGED infer
            BY <4>1 DEF Deadline, OpenRaises, ForwardEnd, Disconnect, ServerDies, Outcome,
                        EndOf, workerVars
        <4>3. job.output = "text" => infer.pc = "ok"
            BY DEF RefInv, StreamInv, SuccessInv, SuccessIsWhole, Whole
        <4> QED BY <4>2, <4>3 DEF Replayed
      <3> QED BY <3>1, <3>2
    <2> QED BY <2>1, <2>2, <2>3 DEF RefInv
  <1> QED BY <1>1, <1>2, PTL DEF Spec

(* The client sees nothing of a step that takes nothing out of the channel *)
(* and neither ends the stream nor moves the inference.                    *)
LEMMA TextStutters ==
    ASSUME RefInv, Unseen, UNCHANGED <<infer.produced, end>>, infer'.pc = "ok" <=> infer.pc = "ok"
    PROVE  UNCHANGED <<infer.produced, infer.pc = "ok", Seen, Ended>>
  <1>1. \A p : Received(p)' <=> Received(p) BY UnseenReceived
  <1>2. Seen' = Seen BY <1>1 DEF Seen
  <1>3. StoppedWithUsage' <=> StoppedWithUsage
    <2>1. CASE end = "stop"
      <3>1. hub.taken \in 1 .. hub.taken
          BY <2>1 DEF RefInv, StreamInv, SuccessInv, StopIsDone, TypeOK
      <3> QED BY <3>1 DEF Unseen, StoppedWithUsage
    <2>2. CASE end # "stop" BY <2>2 DEF StoppedWithUsage
    <2> QED BY <2>1, <2>2
  <1>4. Ended' = Ended BY <1>3 DEF Ended
  <1> QED BY <1>2, <1>4

LEMMA TextSteps ==
    ASSUME RefInv, RefInv', [Next]_vars
    PROVE  [Text!Next]_<<infer.produced, infer.pc = "ok", Seen, Ended>>
  <1> DEFINE Goal == [Text!Next]_<<infer.produced, infer.pc = "ok", Seen, Ended>>
  <1>0. /\ infer.produced \in Nat /\ hub.taken \in Nat
        /\ hub \in [open : BOOLEAN, queue : Seq(Event), taken : Nat]
        /\ end # "none" => stream = "over"
      BY StreamAssumption DEF RefInv, StreamInv, TypeOK, LifeInv, EndsOver
  <1>a. ASSUME UNCHANGED hub PROVE Unseen BY <1>a DEF Unseen
  <1>1. CASE WorkerStep \/ UploadRaises \/ ReportRaises \/ WorkerDies
    <2>1. UNCHANGED <<hub, end>> /\ WorkerAction
        BY <1>1 DEF WorkerStep, UploadRaises, ReportRaises, WorkerDies, WorkerAction
    <2>2. \A p : Received(p)' <=> Received(p) BY <1>a, <2>1, UnseenReceived
    <2>3. Ended' = Ended BY <2>1 DEF Ended, StoppedWithUsage
    <2>4. CASE Produce
      <3>1. infer.pc = "running" /\ infer'.produced = infer.produced + 1 /\ infer'.pc = infer.pc
          BY <2>4 DEF Produce, RefInv, StreamInv, TypeOK
      <3>2. end # "replayed" /\ end' # "replayed" BY <2>1, <3>1 DEF RefInv, Replayed
      <3>3. ~Received(infer.produced + 1)
        <4>1. PICK m \in 0 .. infer.produced : \A p \in Nat \ {0} : Received(p) <=> p <= m
            BY DEF RefInv, Prefix
        <4> QED BY <1>0, <4>1
      <3>4. Seen' = Seen BY <1>0, <2>2, <3>1, <3>2, <3>3 DEF Seen
      <3>5. Text!Make BY <2>3, <3>1, <3>4 DEF Text!Make
      <3> QED BY <3>5 DEF Text!Next
    <2>5. CASE InferenceEnds
      <3>1. infer'.produced = infer.produced /\ infer.pc = "running"
          BY <2>5 DEF InferenceEnds, RefInv, StreamInv, TypeOK
      <3>2. CASE infer'.pc = "ok"
        <4>1. Seen' = Seen BY <2>1, <2>2, <3>1 DEF Seen
        <4>2. Text!Finish BY <2>3, <3>1, <3>2, <4>1 DEF Text!Finish
        <4> QED BY <4>2 DEF Text!Next
      <3>3. CASE infer'.pc # "ok" BY <1>a, <2>1, <3>1, <3>3, TextStutters
      <3> QED BY <3>2, <3>3
    <2>6. CASE ~Produce /\ ~InferenceEnds
      <3>1. infer'.produced = infer.produced /\ (infer'.pc = "ok" <=> infer.pc = "ok")
          BY <2>1, <2>6 DEF WorkerAction, StartJob, StreamDone, SendChunk, FlushEnds,
                 ReportOk, ReportError, UploadFails, ReportFails, WorkerCrash, RefInv,
                 StreamInv, TypeOK, LifeInv, Fresh
      <3> QED BY <1>a, <2>1, <3>1, TextStutters
    <2> QED BY <2>4, <2>5, <2>6
  <1>2. CASE ForwardDelta
    <2>1. /\ UNCHANGED <<infer, end>> /\ end = "none"
          /\ hub'.queue = hub.queue /\ hub'.taken = hub.taken + 1
        BY <1>0, <1>2 DEF ForwardDelta, Take, workerVars
    <2>2. \A p : Received(p) => Received(p)' BY <1>0, <2>1 DEF Received, Among, Carries
    <2>3. PICK m \in 0 .. infer.produced : \A p \in Nat \ {0} : Received(p)' <=> p <= m
        BY <2>1 DEF RefInv, Prefix
    <2>4. Seen' = 1 .. m BY <1>0, <2>1, <2>3 DEF Seen
    <2>5. Seen \subseteq 1 .. m BY <1>0, <2>1, <2>2, <2>3 DEF Seen
    <2>6. Ended = "none" /\ Ended' = "none" BY <2>1 DEF Ended, StoppedWithUsage
    <2>7. Text!Deliver BY <2>1, <2>4, <2>5, <2>6 DEF Text!Deliver
    <2> QED BY <2>7 DEF Text!Next
  <1>3. CASE ForwardEnd
    <2>1. /\ UNCHANGED infer /\ end = "none" /\ end' = EndOf(Front)
          /\ hub'.queue = hub.queue /\ hub'.taken = hub.taken + 1
          /\ Front.type # "delta" /\ hub.taken < Len(hub.queue)
        BY <1>0, <1>3 DEF ForwardEnd, TakeAndClose, Nonempty, workerVars
    <2>2. PICK k \in Nat : k = hub.taken BY <1>0
    <2>3. ~Carries(hub.queue[k + 1], k) /\ \A p : ~Carries(hub.queue[k + 1], p)
        BY <2>1, <2>2 DEF Front, Carries
    <2>4. \A p : Received(p)' <=> Received(p)
        BY <2>1, <2>2, <2>3 DEF Received, Among, Carries
    <2>5. Seen' = Seen /\ Ended = "none" BY <2>1, <2>4 DEF Seen, Ended, EndOf, StoppedWithUsage
    <2>6. CASE StoppedWithUsage'
      <3>1. k + 1 \in 1 .. Len(hub.queue) /\ Counted(k + 1)
        <4>1. Len(hub.queue) \in Nat BY <1>0
        <4>2. hub.queue[k + 1].usage = "counted" /\ Front.type = "done"
            BY <2>1, <2>2, <2>6 DEF StoppedWithUsage, EndOf
        <4> QED BY <2>1, <2>2, <4>1, <4>2 DEF Counted, Front
      <3>2. infer.pc = "ok" BY <3>1 DEF RefInv, StreamInv, SuccessInv, SuccessIsWhole, Whole
      <3>3. \A p \in 1 .. infer.produced : Received(p)
        <4>1. \A p \in 1 .. infer.produced : Among((k + 1) - 1, p)
            BY <3>1 DEF RefInv, StreamInv, SuccessInv, DoneIsLast
        <4>2. (k + 1) - 1 = hub.taken BY <2>2
        <4> QED BY <4>1, <4>2 DEF Received
      <3>4. Seen' = 1 .. infer.produced BY <2>1, <2>5, <3>3 DEF Seen
      <3>5. Ended' = "stop" BY <2>6 DEF Ended, StoppedWithUsage
      <3>6. Text!Stop BY <2>1, <2>5, <3>2, <3>4, <3>5 DEF Text!Stop
      <3> QED BY <3>6 DEF Text!Next
    <2>7. CASE ~StoppedWithUsage'
      <3>1. Ended' \in {"cut", "failed"} BY <2>1, <2>7 DEF Ended, EndOf
      <3>2. Text!Break BY <2>1, <2>5, <3>1 DEF Text!Break
      <3> QED BY <3>2 DEF Text!Next
    <2> QED BY <2>6, <2>7
  <1>4. CASE Deadline
    <2>1. /\ UNCHANGED infer /\ end = "none" /\ end' = Outcome
          /\ hub'.queue = hub.queue /\ hub'.taken = hub.taken
        BY <1>0, <1>4 DEF Deadline, Close, workerVars
    <2>2. \A p : Received(p)' <=> Received(p) BY <2>1 DEF Received, Among, Carries
    <2>3. Ended = "none" BY <2>1 DEF Ended, StoppedWithUsage
    <2>4. CASE Outcome = "replayed"
      <3>1. job.output = "text" BY <2>4 DEF Outcome
      <3>2. infer.pc = "ok"
          BY <3>1 DEF RefInv, StreamInv, SuccessInv, SuccessIsWhole, Whole
      <3>3. Seen' = 1 .. infer.produced /\ Ended' = "stop"
          BY <2>1, <2>4 DEF Seen, Ended
      <3>4. Text!Stop BY <2>1, <2>3, <3>2, <3>3 DEF Text!Stop
      <3> QED BY <3>4 DEF Text!Next
    <2>5. CASE Outcome # "replayed"
      <3>1. Seen' = Seen BY <2>1, <2>2, <2>5 DEF Seen
      <3>2. Ended' \in {"cut", "failed"}
          BY <2>1, <2>5 DEF Ended, Outcome, StoppedWithUsage
      <3>3. Text!Break BY <2>1, <2>3, <3>1, <3>2 DEF Text!Break
      <3> QED BY <3>3 DEF Text!Next
    <2> QED BY <2>4, <2>5
  <1>5. CASE OpenRaises \/ Disconnect \/ ServerDies
    <2>1. /\ UNCHANGED infer /\ end = "none" /\ end' \in {"raised", "gone"}
          /\ hub'.queue = hub.queue /\ hub'.taken = hub.taken
        BY <1>0, <1>5 DEF OpenRaises, Disconnect, ServerDies, Ensure, Close, workerVars
    <2>2. \A p : Received(p)' <=> Received(p) BY <2>1 DEF Received, Among, Carries
    <2>3. Seen' = Seen BY <2>1, <2>2 DEF Seen
    <2>4. Ended = "none" /\ Ended' = "failed" BY <2>1 DEF Ended, StoppedWithUsage
    <2>5. Text!Break BY <2>1, <2>3, <2>4 DEF Text!Break
    <2> QED BY <2>5 DEF Text!Next
  <1>6. CASE OpenStream \/ Serve \/ Pull \/ LoseChunk \/ LoseReport \/ LosePullReply
             \/ Terminated \/ UNCHANGED vars
    <2>1. /\ UNCHANGED <<infer, end>>
          /\ hub'.queue = hub.queue /\ hub'.taken = hub.taken
        BY <1>0, <1>6 DEF OpenStream, Serve, Ensure, Subscribe, Pull, LoseChunk, LoseReport,
               LosePullReply, Terminated, vars, workerVars
    <2>2. Unseen BY <2>1 DEF Unseen
    <2> QED BY <2>1, <2>2, TextStutters
  <1>7. ASSUME NEW c \in chunks, HandleChunk(c) PROVE Goal
    <2> DEFINE e == Delta(c.lo, c.hi)
    <2>1. e \in Event /\ Publish(e) /\ UNCHANGED <<infer, end>>
        BY <1>7 DEF HandleChunk, RefInv, StreamInv, TypeOK, Chunk, Delta, Event
    <2> HIDE DEF e
    <2>2. Unseen BY <2>1, PublishUnseen DEF RefInv
    <2> QED BY <2>1, <2>2, TextStutters
  <1>8. ASSUME NEW error \in reports, HandleReport(error) PROVE Goal
    <2> DEFINE e == OutcomeEvent(error)
    <2>1. e \in Event /\ Publish(e) /\ UNCHANGED <<infer, end>>
        BY <1>8 DEF HandleReport, RefInv, StreamInv, TypeOK, Errors, OutcomeEvent, Done,
                    Failure, Event
    <2> HIDE DEF e
    <2>2. Unseen BY <2>1, PublishUnseen DEF RefInv
    <2> QED BY <2>1, <2>2, TextStutters
  <1> QED BY <1>1, <1>2, <1>3, <1>4, <1>5, <1>6, <1>7, <1>8 DEF Next, HandlerStep

(* The streaming path implements TextStream: the client's text grows from  *)
(* its beginning without gaps, and a counted stop is all of it.            *)
THEOREM TextCorrect == Spec => TextPromise
  <1>1. Init => Text!Init
    <2> SUFFICES ASSUME Init PROVE Text!Init OBVIOUS
    <2>1. Seen = {} /\ Ended = "none"
        BY DEF Init, HubInit, WorkerInit, Seen, Ended, StoppedWithUsage, Received, Among
    <2> QED BY <2>1 DEF Init, WorkerInit, Text!Init
  <1>2. RefInv /\ RefInv' /\ [Next]_vars
            => [Text!Next]_<<infer.produced, infer.pc = "ok", Seen, Ended>>
      BY TextSteps
  <1> QED BY <1>1, <1>2, RefInvHolds, PTL DEF Spec, TextPromise, Text!Spec
-----------------------------------------------------------------------------
(* What the promise means to a client, from TextStream alone               *)

WholeAtStop ==
    /\ \E n \in 0 .. infer.produced : Seen = 1 .. n
    /\ Ended = "stop" => infer.pc = "ok" /\ Seen = 1 .. infer.produced

(* What a client has is always the text up to some piece, and one that is  *)
(* told stop, be it after the events or after the replay of the job's row, *)
(* has all that a complete inference will ever have produced.              *)
THEOREM StopIsWhole == Spec => []WholeAtStop
  <1>1. Text!Init => WholeAtStop
    <2> SUFFICES ASSUME Text!Init PROVE WholeAtStop OBVIOUS
    <2>1. 0 \in 0 .. infer.produced /\ Seen = 1 .. 0 BY DEF Text!Init
    <2> QED BY <2>1 DEF Text!Init, WholeAtStop
  <1>2. TypeOK /\ WholeAtStop /\ [Text!Next]_<<infer.produced, infer.pc = "ok", Seen, Ended>>
            => WholeAtStop'
    <2> SUFFICES ASSUME TypeOK, WholeAtStop,
                        [Text!Next]_<<infer.produced, infer.pc = "ok", Seen, Ended>>
                 PROVE  WholeAtStop'
        OBVIOUS
    <2> USE DEF WholeAtStop
    <2>0. infer.produced \in Nat BY StreamAssumption DEF TypeOK
    <2>1. CASE Text!Make BY <2>0, <2>1 DEF Text!Make
    <2>2. CASE Text!Finish BY <2>2 DEF Text!Finish
    <2>3. CASE Text!Deliver BY <2>3 DEF Text!Deliver
    <2>4. CASE Text!Stop BY <2>0, <2>4 DEF Text!Stop
    <2>5. CASE Text!Break BY <2>5 DEF Text!Break
    <2>6. CASE UNCHANGED <<infer.produced, infer.pc = "ok", Seen, Ended>> BY <2>6
    <2> QED BY <2>1, <2>2, <2>3, <2>4, <2>5, <2>6 DEF Text!Next
  <1> QED BY <1>1, <1>2, TextCorrect, StreamTypeCorrect, PTL DEF TextPromise, Text!Spec

TextOnlyGrows ==
    [][/\ Seen \subseteq Seen'
       /\ Ended # "none" => Seen' = Seen /\ Ended' = Ended]_vars

(* No step takes text back, and nothing follows the end of a stream: not   *)
(* an event that was still in the channel, a chunk that comes late, nor a  *)
(* second report.                                                          *)
THEOREM TextGrows == Spec => TextOnlyGrows
  <1> DEFINE Grows == /\ Seen \subseteq Seen'
                      /\ Ended # "none" => Seen' = Seen /\ Ended' = Ended
  <1>1. TypeOK /\ WholeAtStop /\ [Text!Next]_<<infer.produced, infer.pc = "ok", Seen, Ended>>
            => Grows
    <2> SUFFICES ASSUME TypeOK, WholeAtStop,
                        [Text!Next]_<<infer.produced, infer.pc = "ok", Seen, Ended>>
                 PROVE  Grows
        OBVIOUS
    <2>0. infer.produced \in Nat BY StreamAssumption DEF TypeOK
    <2>1. CASE Text!Stop
      <3>1. PICK n \in 0 .. infer.produced : Seen = 1 .. n BY DEF WholeAtStop
      <3>2. 1 .. n \subseteq 1 .. infer.produced BY <2>0
      <3> QED BY <2>1, <3>1, <3>2 DEF Text!Stop
    <2>2. CASE ~Text!Stop
        BY <2>2 DEF Text!Next, Text!Make, Text!Finish, Text!Deliver, Text!Break
    <2> QED BY <2>1, <2>2
  <1> QED BY <1>1, TextCorrect, StopIsWhole, StreamTypeCorrect, PTL
             DEF TextPromise, Text!Spec, TextOnlyGrows
=============================================================================
