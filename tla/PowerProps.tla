----------------------------- MODULE PowerProps ------------------------------
(* What the power attributed to a task may be relied upon for. *)
EXTENDS PowerFeed

Task == [pc : {"new", "created", "connect", "recv", "close", "done"},
         stop : BOOLEAN, started : Time, prev_ts : Time, prev_watts : Nat, energy : Nat,
         total : Nat, since : Time, ended : Time, first : Time,
         capped : BOOLEAN, timeouts : BOOLEAN]

(* Type invariant of the power host, the connections and the trackers. *)
TypeOK ==
    /\ now \in Time /\ reading \in Time \cup {None} /\ latest \in Sample \cup {None}
    /\ queue \in [Jobs -> Seq(Sample)] /\ wire \in [Jobs -> Seq(Sample)]
    /\ \A j \in Jobs : Len(queue[j]) <= QueueSize /\ Len(wire[j]) <= WireSize
    /\ task \in [Jobs -> Task]
    /\ active \subseteq Jobs
    /\ runner \in [pc : {"idle", "infer", "finish"}, job : {0} \cup Jobs]
    /\ faults \in 0 .. MaxFaults

(* A subscriber that is too slow loses old samples, never the latest, and  *)
(* gets the others in the order they were taken: what is still to come is  *)
(* newer and newer and ends with the latest (_loop, _subscribe).           *)
SamplesInOrder ==
    \A j \in Jobs : Connected(j) =>
        LET coming == wire[j] \o queue[j] IN
        /\ \A i, k \in DOMAIN coming : i < k => coming[i].ts < coming[k].ts
        /\ queue[j] # <<>> => Last(queue[j]) = latest

Elapsed(t) == t.ended - t.started

(* No time of a task goes unaccounted, whatever is late, dropped or timed  *)
(* out, unless a segment is longer than the cap (track).                   *)
NoTimeLost ==
    \A j \in Jobs : task[j].pc = "done" /\ ~task[j].capped => task[j].total >= Elapsed(task[j])

(* Without timeouts no time is counted twice: the energy is that of the    *)
(* time since the sample the subscription began with, which may be older   *)
(* than the task.                                                          *)
CountedOnce ==
    \A j \in Jobs : ~task[j].timeouts /\ task[j].pc = "done" =>
        task[j].total <= task[j].ended - task[j].first

(* The power of the machine is never split between two jobs: the tracker   *)
(* of a job is over before the next job starts (_finish_power_track).      *)
NeverShared == Cardinality(active) <= 1

(* The job loop gets its report and goes on, whatever the power host does: *)
(* a host that is silent, slow, busy or gone does not hold a job up.       *)
ReportComes == runner.pc = "finish" ~> runner.pc = "idle"

-----------------------------------------------------------------------------
(* The inductive invariant                                                 *)

(* A tracker lives while its job is the job loop's.                        *)
Counting(j) == task[j].pc \in {"connect", "recv", "close"}
OneTracker ==
    /\ runner.pc # "idle" => runner.job \in Jobs
    /\ active = {j \in Jobs : Counting(j)}
    /\ \A j \in Jobs :
         /\ Counting(j) \/ task[j].pc = "created" => runner.pc # "idle" /\ j = runner.job
         /\ j > runner.job => task[j] = NoTask
         /\ task[j].pc = "created" =>
              task[j].total = 0 /\ ~task[j].capped /\ ~task[j].timeouts

ClockInv ==
    /\ reading # None => reading <= now /\ (latest # None => latest.ts < reading)
    /\ latest # None => latest.ts <= now
    /\ \A j \in Jobs : task[j].prev_ts <= now

(* Why samples stay in order: what waits in the queue is newer than what   *)
(* is on the wire, and nothing is newer than the latest.                   *)
Increasing(s) == \A i, k \in 1 .. Len(s) : i < k => s[i].ts < s[k].ts
UpToLatest(s) == \A i \in 1 .. Len(s) : latest # None /\ s[i].ts <= latest.ts
Coming(j) ==
    /\ Increasing(wire[j]) /\ Increasing(queue[j])
    /\ \A i \in 1 .. Len(wire[j]), k \in 1 .. Len(queue[j]) : wire[j][i].ts < queue[j][k].ts
    /\ UpToLatest(wire[j]) /\ UpToLatest(queue[j])
    /\ queue[j] # <<>> => queue[j][Len(queue[j])] = latest
ComingInv ==
    \A j \in Jobs :
        /\ Connected(j) => Coming(j)
        /\ ~Connected(j) /\ task[j].pc # "close" => wire[j] = <<>>

(* Why no time is lost or counted twice: total is the time up to prev_ts,  *)
(* and only the sample a subscription begins with may be older than that.  *)
Ahead(j) ==
    /\ latest # None /\ task[j].prev_ts <= latest.ts
    /\ \A i \in 1 .. Len(wire[j]) : wire[j][i].ts > task[j].prev_ts
    /\ \A i \in 1 .. Len(queue[j]) : queue[j][i].ts > task[j].prev_ts
Accounted(j) ==
    /\ task[j].pc = "connect" => task[j].total = 0 /\ task[j].first = task[j].prev_ts
    /\ Counting(j) =>
          /\ ~task[j].capped => task[j].total >= task[j].prev_ts - task[j].started
          /\ ~task[j].timeouts => task[j].total <= task[j].prev_ts - task[j].first
    /\ Connected(j) /\ ~task[j].timeouts => task[j].first = task[j].prev_ts \/ Ahead(j)
    /\ task[j].pc = "done" =>
          /\ ~task[j].capped => task[j].total >= Elapsed(task[j])
          /\ ~task[j].timeouts => task[j].total <= task[j].ended - task[j].first
CountInv == \A j \in Jobs : Accounted(j)

PowerInv == TypeOK /\ OneTracker /\ ClockInv /\ ComingInv /\ CountInv
=============================================================================
