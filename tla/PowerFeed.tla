------------------------------ MODULE PowerFeed ------------------------------
(***************************************************************************)
(* From the power meter of a host to a task's energy: the sampler of the   *)
(* power host (LocalPowerApi) publishes to the bounded queue of a          *)
(* subscriber, the websocket carries the samples to the worker, and        *)
(* TaskPowerAttributor.track adds them up while the job loop runs a job.   *)
(*                                                                         *)
(* The clock counts seconds.  Worker and power host run on one machine     *)
(* and read one clock.  A sample is its timestamp and its total_watts.     *)
(***************************************************************************)
EXTENDS Integers, Sequences, FiniteSets, FiniteSetsExt, SequencesExt

CONSTANTS
    Jobs,           \* the jobs, numbered in the order they are run
    Watts,          \* total_watts of a reading
    FallbackWatts,  \* power_fallback_watts
    QueueSize,      \* maxsize of a subscriber's queue
    WireSize,       \* what the connection buffers, and the sample being sent
    RecvTimeout,    \* timeout of recv_sample
    SegmentCap,     \* longest segment that is counted
    MaxTime,        \* bound: the clock stops there
    MaxFaults,      \* bound: failed connections
    None            \* "no sample", "no reading under way"

ASSUME PowerAssumption ==
    /\ Jobs \subseteq Nat /\ IsFiniteSet(Jobs)
    /\ Watts \subseteq Nat /\ FallbackWatts \in Nat
    /\ {QueueSize, WireSize, RecvTimeout, SegmentCap} \subseteq Nat \ {0}
    /\ {MaxTime, MaxFaults} \subseteq Nat

Time == 0 .. MaxTime
Sample == [ts : Time, watts : Nat]

ASSUME NoneAssumption == None \notin Sample /\ None \notin Time

VARIABLES
    now,       \* the clock
    reading,   \* timestamp of the reading under way, in a thread of the host
    latest,    \* _latest
    queue,     \* queue[j]: the queue of the connection of job j's tracker
    wire,      \* wire[j]: samples sent and not received
    task,      \* task[j]: the locals of track, and its stop_event
    active,    \* ActiveTaskRegistry._active
    runner,    \* the job loop: its state and the job
    faults

vars == <<now, reading, latest, queue, wire, task, active, runner, faults>>
hostVars == <<reading, latest>>

(* first: history, where the time counted begins                           *)
(* capped, timeouts: history, a segment was cut, a wait timed out          *)
NoTask == [pc |-> "new", stop |-> FALSE, started |-> 0, prev_ts |-> 0,
           prev_watts |-> FallbackWatts, energy |-> 0, total |-> 0, since |-> 0,
           ended |-> 0, first |-> 0, capped |-> FALSE, timeouts |-> FALSE]

Init ==
    /\ now = 0 /\ reading = None /\ latest = None
    /\ queue = [j \in Jobs |-> <<>>] /\ wire = [j \in Jobs |-> <<>>]
    /\ task = [j \in Jobs |-> NoTask]
    /\ active = {}
    /\ runner = [pc |-> "idle", job |-> 0]
    /\ faults = 0

Tick ==
    /\ now < MaxTime
    /\ now' = now + 1
    /\ UNCHANGED <<hostVars, queue, wire, task, active, runner, faults>>

-----------------------------------------------------------------------------
(* The power host                                                          *)

Connected(j) == task[j].pc = "recv"

(* PlatformPowerReader.read stamps the sample before it reads; the next    *)
(* reading begins interval_sec later.                                      *)
StartReading ==
    /\ reading = None /\ (latest # None => latest.ts < now)
    /\ reading' = now
    /\ UNCHANGED <<now, latest, queue, wire, task, active, runner, faults>>

(* PowerSpikeFilter.apply publishes a weighted mean of the last published  *)
(* value and the new one, the first as it is.                              *)
Filtered(raw) == IF latest = None THEN {raw}
                 ELSE Min({latest.watts, raw}) .. Max({latest.watts, raw})

PutUnbounded(q, sample) == Append(q, sample)
PutKeepingOldest(q, sample) == IF Len(q) < QueueSize THEN Append(q, sample) ELSE q
Put(q, sample) == IF Len(q) < QueueSize THEN Append(q, sample)
                  ELSE Append(Tail(q), sample)

(* _loop publishes without an await, so that a subscriber joins before or  *)
(* after.                                                                  *)
Publish(raw) ==
    /\ reading # None
    /\ \E watts \in Filtered(raw) :
         LET sample == [ts |-> reading, watts |-> watts] IN
         /\ latest' = sample
         /\ queue' = [j \in Jobs |-> IF Connected(j) THEN Put(queue[j], sample) ELSE queue[j]]
    /\ reading' = None
    /\ UNCHANGED <<now, wire, task, active, runner, faults>>

(* serve_websocket: get, then send *)
SendSample(j) ==
    /\ Connected(j)
    /\ queue[j] # <<>> /\ Len(wire[j]) < WireSize
    /\ queue' = [queue EXCEPT ![j] = Tail(@)]
    /\ wire' = [wire EXCEPT ![j] = Append(@, Head(queue[j]))]
    /\ UNCHANGED <<now, hostVars, task, active, runner, faults>>

-----------------------------------------------------------------------------
(* track                                                                   *)

Begin(j) ==
    /\ task[j].pc = "created"
    /\ task' = [task EXCEPT ![j] = [@ EXCEPT !.pc = "connect", !.started = now,
                                             !.prev_ts = now, !.first = now]]
    /\ active' = active \cup {j}
    /\ UNCHANGED <<now, hostVars, queue, wire, runner, faults>>

(* while not stop_event.is_set() *)
LoopOrLeave(t) == IF t.stop THEN [t EXCEPT !.pc = "close"]
                  ELSE [t EXCEPT !.pc = "recv", !.since = now]

(* _subscribe adds the queue, and the latest sample to it.                 *)
Connect(j) ==
    /\ task[j].pc = "connect"
    /\ task' = [task EXCEPT ![j] = LoopOrLeave(@)]
    /\ queue' = [queue EXCEPT ![j] = IF latest = None THEN <<>> ELSE <<latest>>]
    /\ UNCHANGED <<now, hostVars, wire, active, runner, faults>>

(* One segment, at the power of the last sample, shared by the tasks.      *)
Count(t, end) == Min({SegmentCap, Max({0, end - t.prev_ts})})
ActiveCount == Max({1, Cardinality(active)})
AddUp(t, end) ==
    [t EXCEPT !.energy = @ + (Count(t, end) * t.prev_watts) \div ActiveCount,
              !.total = @ + Count(t, end),
              !.capped = @ \/ end - t.prev_ts > SegmentCap]

(* The time up to the sample is counted, and goes on from there.           *)
TakeStayingBehind(t, sample) ==
    [AddUp(t, sample.ts) EXCEPT !.prev_watts = sample.watts,
                                !.first = Min({t.first, sample.ts})]
Take(t, sample) ==
    [AddUp(t, sample.ts) EXCEPT !.prev_ts = sample.ts, !.prev_watts = sample.watts,
                                !.first = Min({t.first, sample.ts})]

Receive(j) ==
    /\ task[j].pc = "recv" /\ wire[j] # <<>>
    /\ task' = [task EXCEPT ![j] = LoopOrLeave(Take(@, Head(wire[j])))]
    /\ wire' = [wire EXCEPT ![j] = Tail(@)]
    /\ UNCHANGED <<now, hostVars, queue, active, runner, faults>>

(* No sample in time; one that is under way is received later.             *)
WaitedLong(j) == now >= task[j].since + RecvTimeout \/ now = MaxTime
TimeOutUncounted(j) ==
    /\ task[j].pc = "recv" /\ WaitedLong(j)
    /\ task' = [task EXCEPT ![j] = LoopOrLeave([@ EXCEPT !.prev_ts = now, !.timeouts = TRUE])]
    /\ UNCHANGED <<now, hostVars, queue, wire, active, runner, faults>>
TimeOutUnchecked(j) ==
    /\ task[j].pc = "recv" /\ WaitedLong(j)
    /\ task' = [task EXCEPT ![j] = [AddUp(@, now) EXCEPT !.prev_ts = now, !.timeouts = TRUE,
                                                         !.since = now]]
    /\ UNCHANGED <<now, hostVars, queue, wire, active, runner, faults>>
TimeOut(j) ==
    /\ task[j].pc = "recv" /\ WaitedLong(j)
    /\ task' = [task EXCEPT ![j] = LoopOrLeave(
                  [AddUp(@, now) EXCEPT !.prev_ts = now, !.timeouts = TRUE])]
    /\ UNCHANGED <<now, hostVars, queue, wire, active, runner, faults>>

(* The connection cannot be opened, or is closed by the host.              *)
ConnectionFails(j) ==
    /\ task[j].pc \in {"connect", "recv"} /\ faults < MaxFaults
    /\ faults' = faults + 1
    /\ task' = [task EXCEPT ![j].pc = "close"]
    /\ UNCHANGED <<now, hostVars, queue, wire, active, runner>>

(* The connection is closed, then the finally block counts the rest.       *)
End(j) ==
    /\ task[j].pc = "close"
    /\ task' = [task EXCEPT ![j] = [AddUp(@, now) EXCEPT !.pc = "done", !.ended = now]]
    /\ active' = active \ {j}
    /\ queue' = [queue EXCEPT ![j] = <<>>] /\ wire' = [wire EXCEPT ![j] = <<>>]
    /\ UNCHANGED <<now, hostVars, runner, faults>>

TrackStep(j) ==
    \/ Begin(j) \/ Connect(j) \/ Receive(j) \/ TimeOut(j) \/ End(j)

-----------------------------------------------------------------------------
(* The job loop                                                            *)

StartJob(j) ==
    /\ runner.pc = "idle" /\ j = runner.job + 1
    /\ runner' = [pc |-> "infer", job |-> j]
    /\ task' = [task EXCEPT ![j].pc = "created"]
    /\ UNCHANGED <<now, hostVars, queue, wire, active, faults>>

(* _finish_power_track, whichever way the job ends: sets the event ...     *)
InferenceEnds ==
    /\ runner.pc = "infer"
    /\ runner' = [runner EXCEPT !.pc = "finish"]
    /\ task' = [task EXCEPT ![runner.job].stop = TRUE]
    /\ UNCHANGED <<now, hostVars, queue, wire, active, faults>>

FinishWithoutAwait ==
    /\ runner.pc = "finish"
    /\ runner' = [runner EXCEPT !.pc = "idle"]
    /\ UNCHANGED <<now, hostVars, queue, wire, task, active, faults>>
(* ... and awaits the report, which the completion carries.                *)
FinishPowerTrack ==
    /\ runner.pc = "finish" /\ task[runner.job].pc = "done"
    /\ runner' = [runner EXCEPT !.pc = "idle"]
    /\ UNCHANGED <<now, hostVars, queue, wire, task, active, faults>>

RunnerStep == (\E j \in Jobs : StartJob(j)) \/ InferenceEnds \/ FinishPowerTrack

Next ==
    \/ Tick \/ StartReading \/ \E raw \in Watts : Publish(raw)
    \/ \E j \in Jobs : SendSample(j) \/ TrackStep(j) \/ ConnectionFails(j)
    \/ RunnerStep

(* The clock goes on, the tasks of the worker do, and an inference ends;   *)
(* nothing is assumed of the power host.                                   *)
Fairness ==
    /\ WF_vars(Tick)
    /\ \A j \in Jobs : WF_vars(TrackStep(j))
    /\ WF_vars(RunnerStep)

Spec == Init /\ [][Next]_vars
FairSpec == Spec /\ Fairness
=============================================================================
