----------------------------- MODULE PowerProofs -----------------------------
(***************************************************************************)
(* Proofs about the samples of the power host and what a task is charged,  *)
(* for any number of jobs, sizes, timeouts and length of time.             *)
(***************************************************************************)
EXTENDS PowerProps, TLAPS, FiniteSetTheorems

LEMMA MaxPair ==
    ASSUME NEW a \in Int, NEW b \in Int
    PROVE  Max({a, b}) = IF a >= b THEN a ELSE b
  BY DEF Max

LEMMA MinPair ==
    ASSUME NEW a \in Int, NEW b \in Int
    PROVE  Min({a, b}) = IF a <= b THEN a ELSE b
  BY DEF Min

LEMMA ActiveCountPositive ==
    ASSUME TypeOK PROVE ActiveCount \in Nat \ {0}
  <1>1. IsFiniteSet(active)
    BY PowerAssumption, FS_Subset DEF TypeOK
  <1>2. Cardinality(active) \in Nat
    BY <1>1, FS_CardinalityType
  <1> QED BY <1>2, MaxPair DEF ActiveCount

(* A segment is never negative, and never longer than the time it is for;  *)
(* it is all of that time unless it is cut.                                *)
LEMMA CountBounds ==
    ASSUME NEW t \in Task, NEW end \in Time
    PROVE  /\ Count(t, end) \in Nat
           /\ end <= t.prev_ts => Count(t, end) = 0
           /\ end >= t.prev_ts => Count(t, end) <= end - t.prev_ts
           /\ end - t.prev_ts <= SegmentCap => Count(t, end) >= end - t.prev_ts
  <1>1. end \in Int /\ t.prev_ts \in Int /\ SegmentCap \in Nat \ {0}
    BY PowerAssumption DEF Task, Time
  <1> DEFINE seg == Max({0, end - t.prev_ts})
  <1>2. seg = IF 0 >= end - t.prev_ts THEN 0 ELSE end - t.prev_ts
    BY <1>1, MaxPair
  <1>4. seg \in Nat
    BY <1>1, <1>2
  <1>3. Count(t, end) = IF SegmentCap <= seg THEN SegmentCap ELSE seg
    <2>1. Count(t, end) = Min({SegmentCap, seg})
      BY DEF Count
    <2> HIDE DEF seg
    <2> QED BY <1>1, <1>4, <2>1, MinPair
  <1> DEFINE c == Count(t, end)
  <1>5. c = IF SegmentCap <= seg THEN SegmentCap ELSE seg
    BY <1>3
  <1> HIDE DEF seg, c
  <1>6. /\ c \in Nat
        /\ end <= t.prev_ts => c = 0
        /\ end >= t.prev_ts => c <= end - t.prev_ts
        /\ end - t.prev_ts <= SegmentCap => c >= end - t.prev_ts
    <2>1. CASE 0 >= end - t.prev_ts
      <3>1. seg = 0 /\ c = 0 BY <1>1, <1>2, <1>5, <2>1
      <3> QED BY <1>1, <2>1, <3>1
    <2>2. CASE end - t.prev_ts > 0
      <3>1. seg = end - t.prev_ts BY <1>1, <1>2, <2>2
      <3> QED BY <1>1, <1>5, <2>2, <3>1
    <2> QED BY <1>1, <2>1, <2>2
  <1> QED BY <1>6 DEF c

LEMMA AddUpTask ==
    ASSUME TypeOK, NEW t \in Task, NEW end \in Time
    PROVE  /\ AddUp(t, end) \in Task
           /\ AddUp(t, end).total = t.total + Count(t, end)
           /\ AddUp(t, end).capped <=> t.capped \/ end - t.prev_ts > SegmentCap
           /\ AddUp(t, end).pc = t.pc /\ AddUp(t, end).stop = t.stop
           /\ AddUp(t, end).started = t.started /\ AddUp(t, end).prev_ts = t.prev_ts
           /\ AddUp(t, end).first = t.first /\ AddUp(t, end).ended = t.ended
           /\ AddUp(t, end).timeouts = t.timeouts
  <1>1. Count(t, end) \in Nat
    BY CountBounds
  <1>2. Count(t, end) * t.prev_watts \in Nat
    <2>1. \A a, b \in Nat : a * b \in Nat
      OBVIOUS
    <2> QED BY <1>1, <2>1 DEF Task
  <1>3. \A a \in Nat, b \in Nat \ {0} : a \div b \in Nat
    OBVIOUS
  <1>4. (Count(t, end) * t.prev_watts) \div ActiveCount \in Nat
    BY <1>2, <1>3, ActiveCountPositive
  <1> DEFINE c == Count(t, end)
             share == (c * t.prev_watts) \div ActiveCount
  <1>5. AddUp(t, end) = [t EXCEPT !.energy = @ + share, !.total = @ + c,
                                  !.capped = @ \/ end - t.prev_ts > SegmentCap]
    BY DEF AddUp
  <1>6. c \in Nat /\ share \in Nat
    BY <1>1, <1>4
  <1> HIDE DEF c, share
  <1>7. t.energy + share \in Nat /\ t.total + c \in Nat
    BY <1>6 DEF Task
  <1>8. (t.capped \/ end - t.prev_ts > SegmentCap) \in BOOLEAN
    BY DEF Task
  <1>9. AddUp(t, end) \in Task
    BY <1>5, <1>7, <1>8 DEF Task
  <1>10. /\ AddUp(t, end).total = t.total + c
         /\ AddUp(t, end).capped <=> t.capped \/ end - t.prev_ts > SegmentCap
    BY <1>5 DEF Task
  <1>11. /\ AddUp(t, end).pc = t.pc /\ AddUp(t, end).stop = t.stop
         /\ AddUp(t, end).started = t.started /\ AddUp(t, end).prev_ts = t.prev_ts
         /\ AddUp(t, end).first = t.first /\ AddUp(t, end).ended = t.ended
         /\ AddUp(t, end).timeouts = t.timeouts
    BY <1>5 DEF Task
  <1> QED BY <1>9, <1>10, <1>11 DEF c

LEMMA FilteredWatts ==
    ASSUME TypeOK, NEW raw \in Watts, NEW watts \in Filtered(raw)
    PROVE  watts \in Nat
  <1>1. raw \in Nat
    BY PowerAssumption
  <1>2. CASE latest = None
    BY <1>1, <1>2 DEF Filtered
  <1>3. CASE latest # None
    <2>1. latest.watts \in Nat
      BY <1>3 DEF TypeOK, Sample
    <2>2. Min({latest.watts, raw}) \in Nat /\ Max({latest.watts, raw}) \in Nat
      BY <1>1, <2>1, MinPair, MaxPair
    <2> QED BY <1>3, <2>2 DEF Filtered
  <1> QED BY <1>2, <1>3

LEMMA PutSamples ==
    ASSUME NEW q \in Seq(Sample), NEW s \in Sample
    PROVE  /\ Put(q, s) \in Seq(Sample) /\ Put(q, s) # <<>>
           /\ Len(q) <= QueueSize => Len(Put(q, s)) <= QueueSize
           /\ Put(q, s)[Len(Put(q, s))] = s
           /\ \A i \in 1 .. Len(Put(q, s)) - 1 :
                 \E k \in 1 .. Len(q) : Put(q, s)[i] = q[k]
           /\ \A i, k \in 1 .. Len(Put(q, s)) - 1 : i < k =>
                 \E a, b \in 1 .. Len(q) : a < b /\ Put(q, s)[i] = q[a] /\ Put(q, s)[k] = q[b]
  <1>1. QueueSize \in Nat \ {0} /\ Len(q) \in Nat
    BY PowerAssumption
  <1>2. CASE Len(q) < QueueSize
    <2>1. Put(q, s) = Append(q, s)
      BY <1>2 DEF Put
    <2>2. /\ Len(Append(q, s)) = Len(q) + 1 /\ Append(q, s)[Len(q) + 1] = s
          /\ \A i \in 1 .. Len(q) : Append(q, s)[i] = q[i]
      OBVIOUS
    <2> QED BY <1>1, <1>2, <2>1, <2>2
  <1>3. CASE ~(Len(q) < QueueSize)
    <2>1. Put(q, s) = Append(Tail(q), s)
      BY <1>3 DEF Put
    <2>2. Len(q) >= 1 /\ q # <<>>
      BY <1>1, <1>3
    <2>3. /\ Tail(q) \in Seq(Sample) /\ Len(Tail(q)) = Len(q) - 1
          /\ \A i \in 1 .. Len(q) - 1 : Tail(q)[i] = q[i + 1]
      BY <2>2
    <2> DEFINE r == Tail(q)
    <2> HIDE DEF r
    <2>4. r \in Seq(Sample) /\ Len(r) = Len(q) - 1 /\ \A i \in 1 .. Len(q) - 1 : r[i] = q[i + 1]
      BY <2>3 DEF r
    <2>5. /\ Append(r, s) \in Seq(Sample)
          /\ Len(Append(r, s)) = Len(q) /\ Append(r, s)[Len(q)] = s
          /\ \A i \in 1 .. Len(q) - 1 : Append(r, s)[i] = q[i + 1]
      BY <1>1, <2>2, <2>4
    <2>6. Put(q, s) = Append(r, s)
      BY <2>1 DEF r
    <2>7. ASSUME NEW i \in 1 .. Len(q) - 1, NEW k \in 1 .. Len(q) - 1, i < k
          PROVE  \E a, b \in 1 .. Len(q) : a < b /\ Put(q, s)[i] = q[a] /\ Put(q, s)[k] = q[b]
      <3>1. i + 1 \in 1 .. Len(q) /\ k + 1 \in 1 .. Len(q) /\ i + 1 < k + 1
        BY <1>1, <2>7
      <3> QED BY <2>5, <2>6, <3>1
    <2>8. ASSUME NEW i \in 1 .. Len(q) - 1
          PROVE  \E k \in 1 .. Len(q) : Put(q, s)[i] = q[k]
      <3>1. i + 1 \in 1 .. Len(q)
        BY <1>1
      <3> QED BY <2>5, <2>6, <3>1
    <2>9. Put(q, s) # <<>> /\ Len(Put(q, s)) = Len(q) /\ Put(q, s) \in Seq(Sample)
      BY <1>1, <2>2, <2>5, <2>6
    <2>10. Put(q, s)[Len(Put(q, s))] = s
      BY <2>5, <2>6, <2>9
    <2> HIDE DEF Put
    <2> QED BY <2>7, <2>8, <2>9, <2>10
  <1> QED BY <1>2, <1>3

-----------------------------------------------------------------------------
(* The actions, by name, for the proofs that split on them.                *)

LEMMA StepCases ==
    ASSUME [Next]_vars
    PROVE  \/ Tick \/ StartReading \/ (\E raw \in Watts : Publish(raw))
           \/ (\E j \in Jobs : \/ SendSample(j) \/ Begin(j) \/ Connect(j) \/ Receive(j)
                              \/ TimeOut(j) \/ End(j) \/ ConnectionFails(j) \/ StartJob(j))
           \/ InferenceEnds \/ FinishPowerTrack \/ UNCHANGED vars
  BY DEF Next, TrackStep, RunnerStep

(* The locals of the tracker after a segment, and at the head of its loop. *)
LEMMA LoopTask ==
    ASSUME TypeOK, NEW t \in Task
    PROVE  /\ LoopOrLeave(t) \in Task
           /\ LoopOrLeave(t).pc \in {"recv", "close"}
           /\ LoopOrLeave(t).total = t.total /\ LoopOrLeave(t).prev_ts = t.prev_ts
           /\ LoopOrLeave(t).started = t.started /\ LoopOrLeave(t).first = t.first
           /\ LoopOrLeave(t).capped = t.capped /\ LoopOrLeave(t).timeouts = t.timeouts
  <1>1. CASE t.stop BY <1>1 DEF LoopOrLeave, Task
  <1>2. CASE ~t.stop BY <1>2 DEF LoopOrLeave, Task, TypeOK
  <1> QED BY <1>1, <1>2

LEMMA TakeTask ==
    ASSUME TypeOK, NEW t \in Task, NEW s \in Sample
    PROVE  /\ Take(t, s) \in Task
           /\ Take(t, s).total = t.total + Count(t, s.ts) /\ Take(t, s).prev_ts = s.ts
           /\ Take(t, s).capped <=> t.capped \/ s.ts - t.prev_ts > SegmentCap
           /\ Take(t, s).first = IF t.first <= s.ts THEN t.first ELSE s.ts
           /\ Take(t, s).started = t.started /\ Take(t, s).timeouts = t.timeouts
  <1>1. s.ts \in Time /\ s.watts \in Nat
    BY DEF Sample
  <1> DEFINE a == AddUp(t, s.ts)
             f == Min({t.first, s.ts})
  <1>2. /\ a \in Task /\ a.total = t.total + Count(t, s.ts)
        /\ a.capped <=> t.capped \/ s.ts - t.prev_ts > SegmentCap
        /\ a.started = t.started /\ a.timeouts = t.timeouts
    BY <1>1, AddUpTask
  <1>3. f \in Time /\ f = IF t.first <= s.ts THEN t.first ELSE s.ts
    BY <1>1, MinPair DEF Task, Time
  <1>4. Take(t, s) = [a EXCEPT !.prev_ts = s.ts, !.prev_watts = s.watts, !.first = f]
    BY DEF Take
  <1> HIDE DEF a, f
  <1> QED BY <1>1, <1>2, <1>3, <1>4 DEF Task

LEMMA TypeStep ==
    ASSUME TypeOK, OneTracker, [Next]_vars
    PROVE  TypeOK'
  <1>0. /\ now \in Time /\ reading \in Time \cup {None} /\ latest \in Sample \cup {None}
        /\ queue \in [Jobs -> Seq(Sample)] /\ wire \in [Jobs -> Seq(Sample)]
        /\ \A j \in Jobs : Len(queue[j]) <= QueueSize /\ Len(wire[j]) <= WireSize
        /\ task \in [Jobs -> Task] /\ active \subseteq Jobs
        /\ runner \in [pc : {"idle", "infer", "finish"}, job : {0} \cup Jobs]
        /\ faults \in 0 .. MaxFaults
    BY DEF TypeOK
  <1>n. MaxTime \in Nat /\ MaxFaults \in Nat /\ 0 \in Time /\ QueueSize \in Nat \ {0}
        /\ WireSize \in Nat \ {0} /\ Jobs \subseteq Nat
    BY PowerAssumption DEF Time
  <1>e. <<>> \in Seq(Sample) /\ Len(<<>>) = 0
    OBVIOUS
  <1>1. CASE Tick
    <2>1. now' \in Time
      BY <1>0, <1>1, <1>n DEF Tick, Time
    <2> QED BY <1>0, <1>1, <2>1 DEF Tick, hostVars, TypeOK
  <1>2. CASE StartReading
    BY <1>0, <1>2 DEF StartReading, TypeOK
  <1>3. ASSUME NEW raw \in Watts, Publish(raw) PROVE TypeOK'
    <2>1. PICK watts \in Filtered(raw) :
            /\ latest' = [ts |-> reading, watts |-> watts]
            /\ queue' = [j \in Jobs |-> IF Connected(j)
                                        THEN Put(queue[j], [ts |-> reading, watts |-> watts])
                                        ELSE queue[j]]
      BY <1>3 DEF Publish
    <2> DEFINE s == [ts |-> reading, watts |-> watts]
    <2>2. s \in Sample
      BY <1>0, <1>3, FilteredWatts DEF Publish, Sample
    <2> HIDE DEF s
    <2>3. queue' = [j \in Jobs |-> IF Connected(j) THEN Put(queue[j], s) ELSE queue[j]]
      BY <2>1 DEF s
    <2>4. \A j \in Jobs : queue'[j] \in Seq(Sample) /\ Len(queue'[j]) <= QueueSize
      BY <1>0, <2>2, <2>3, PutSamples
    <2>5. queue' \in [Jobs -> Seq(Sample)]
      BY <2>3, <2>4
    <2>6. latest' \in Sample
      BY <2>1, <2>2 DEF s
    <2> QED BY <1>0, <1>3, <2>4, <2>5, <2>6 DEF Publish, TypeOK
  <1>4. ASSUME NEW j \in Jobs, SendSample(j) PROVE TypeOK'
    <2>1. /\ queue[j] # <<>> /\ Len(wire[j]) < WireSize
          /\ queue' = [queue EXCEPT ![j] = Tail(@)]
          /\ wire' = [wire EXCEPT ![j] = Append(@, Head(queue[j]))]
      BY <1>4 DEF SendSample
    <2>2. queue[j] \in Seq(Sample) /\ wire[j] \in Seq(Sample)
      BY <1>0
    <2>3. /\ Tail(queue[j]) \in Seq(Sample) /\ Len(Tail(queue[j])) <= Len(queue[j])
          /\ Head(queue[j]) \in Sample
      BY <2>1, <2>2
    <2>4. /\ Append(wire[j], Head(queue[j])) \in Seq(Sample)
          /\ Len(Append(wire[j], Head(queue[j]))) <= WireSize
      BY <1>n, <2>1, <2>2, <2>3
    <2>5. Len(Tail(queue[j])) <= QueueSize
      BY <1>0, <1>n, <2>2, <2>3
    <2> QED BY <1>0, <1>4, <2>1, <2>3, <2>4, <2>5 DEF SendSample, hostVars, TypeOK
  <1>5. ASSUME NEW j \in Jobs, Begin(j) PROVE TypeOK'
    <2>1. [task[j] EXCEPT !.pc = "connect", !.started = now, !.prev_ts = now, !.first = now]
            \in Task
      <3>1. task[j] \in Task /\ now \in Time
        BY <1>0
      <3> QED BY <3>1 DEF Task
    <2> QED BY <1>0, <1>5, <2>1 DEF Begin, hostVars, TypeOK
  <1>6. ASSUME NEW j \in Jobs, Connect(j) PROVE TypeOK'
    <2>1. LoopOrLeave(task[j]) \in Task
      BY <1>0, LoopTask
    <2> DEFINE q == IF latest = None THEN <<>> ELSE <<latest>>
    <2>2. q \in Seq(Sample) /\ Len(q) <= QueueSize
      BY <1>0, <1>n, <1>e
    <2>3. queue' = [queue EXCEPT ![j] = q]
      BY <1>6 DEF Connect
    <2> HIDE DEF q
    <2> QED BY <1>0, <1>6, <2>1, <2>2, <2>3 DEF Connect, hostVars, TypeOK
  <1>7. ASSUME NEW j \in Jobs, Receive(j) PROVE TypeOK'
    <2>1. wire[j] # <<>> /\ wire' = [wire EXCEPT ![j] = Tail(@)]
      BY <1>7 DEF Receive
    <2> DEFINE s == Head(wire[j])
               u == Take(task[j], s)
    <2>0. wire[j] \in Seq(Sample) /\ task[j] \in Task
      BY <1>0
    <2>2. s \in Sample
      BY <2>0, <2>1
    <2>3. task' = [task EXCEPT ![j] = LoopOrLeave(u)]
      BY <1>7 DEF Receive
    <2>6. u \in Task
      BY <2>0, <2>2, TakeTask
    <2> HIDE DEF u
    <2>7. LoopOrLeave(u) \in Task
      BY <2>6, LoopTask
    <2>8. Tail(wire[j]) \in Seq(Sample) /\ Len(Tail(wire[j])) <= WireSize
      BY <1>0, <1>n, <2>1
    <2> QED BY <1>0, <1>7, <2>1, <2>3, <2>7, <2>8 DEF Receive, hostVars, TypeOK
  <1>8. ASSUME NEW j \in Jobs, TimeOut(j) PROVE TypeOK'
    <2> DEFINE u == [AddUp(task[j], now) EXCEPT !.prev_ts = now, !.timeouts = TRUE]
    <2>1. task' = [task EXCEPT ![j] = LoopOrLeave(u)]
      BY <1>8 DEF TimeOut
    <2>2. AddUp(task[j], now) \in Task
      BY <1>0, AddUpTask
    <2>3. u \in Task
      BY <1>0, <2>2 DEF Task
    <2> HIDE DEF u
    <2>4. LoopOrLeave(u) \in Task
      BY <2>3, LoopTask
    <2> QED BY <1>0, <1>8, <2>1, <2>4 DEF TimeOut, hostVars, TypeOK
  <1>9. ASSUME NEW j \in Jobs, End(j) PROVE TypeOK'
    <2>1. AddUp(task[j], now) \in Task
      BY <1>0, AddUpTask
    <2>2. [AddUp(task[j], now) EXCEPT !.pc = "done", !.ended = now] \in Task
      BY <1>0, <2>1 DEF Task
    <2> HIDE DEF AddUp
    <2> QED BY <1>0, <1>9, <1>e, <1>n, <2>2 DEF End, hostVars, TypeOK
  <1>10. ASSUME NEW j \in Jobs, ConnectionFails(j) PROVE TypeOK'
    <2>0. task[j] \in Task
      BY <1>0
    <2>1. [task[j] EXCEPT !.pc = "close"] \in Task
      BY <2>0 DEF Task
    <2>2. faults' \in 0 .. MaxFaults
      BY <1>0, <1>10, <1>n DEF ConnectionFails
    <2> QED BY <1>0, <1>10, <2>1, <2>2 DEF ConnectionFails, hostVars, TypeOK
  <1>11. ASSUME NEW j \in Jobs, StartJob(j) PROVE TypeOK'
    <2>0. task[j] \in Task
      BY <1>0
    <2>1. [task[j] EXCEPT !.pc = "created"] \in Task
      BY <2>0 DEF Task
    <2> QED BY <1>0, <1>11, <2>1 DEF StartJob, hostVars, TypeOK
  <1>12. CASE InferenceEnds
    <2>1. runner.job \in Jobs
      BY <1>12 DEF InferenceEnds, OneTracker
    <2>0. task[runner.job] \in Task
      BY <1>0, <2>1
    <2>2. [task[runner.job] EXCEPT !.stop = TRUE] \in Task
      BY <2>0 DEF Task
    <2> QED BY <1>0, <1>12, <2>1, <2>2 DEF InferenceEnds, hostVars, TypeOK
  <1>13. CASE FinishPowerTrack
    BY <1>0, <1>13 DEF FinishPowerTrack, hostVars, TypeOK
  <1>14. CASE UNCHANGED vars
    BY <1>0, <1>14 DEF vars, hostVars, TypeOK
  <1> QED BY <1>1, <1>2, <1>3, <1>4, <1>5, <1>6, <1>7, <1>8, <1>9, <1>10, <1>11, <1>12,
             <1>13, <1>14, StepCases

LEMMA TrackerStep ==
    ASSUME TypeOK, OneTracker, [Next]_vars
    PROVE  OneTracker'
  <1>0. /\ task \in [Jobs -> Task] /\ runner \in [pc : {"idle", "infer", "finish"}, job : {0} \cup Jobs]
        /\ Jobs \subseteq Nat
    BY PowerAssumption DEF TypeOK
  <1>1. ASSUME UNCHANGED <<task, active, runner>> PROVE OneTracker'
    BY <1>1 DEF OneTracker, Counting
  <1>2. ASSUME NEW raw \in Watts, Publish(raw) PROVE OneTracker'
    BY <1>1, <1>2 DEF Publish
  <1>3. ASSUME NEW j \in Jobs, SendSample(j) PROVE OneTracker'
    BY <1>1, <1>3 DEF SendSample
  (* A tracker that goes on counting *)
  <1>4. ASSUME NEW j \in Jobs, NEW t \in Task, task' = [task EXCEPT ![j] = t],
               UNCHANGED <<active, runner>>, Counting(j), t.pc \in {"connect", "recv", "close"}
        PROVE  OneTracker'
    <2>1. \A i \in Jobs : i # j => task'[i] = task[i]
      BY <1>0, <1>4
    <2>2. task'[j] = t
      BY <1>0, <1>4
    <2>3. task[j] # NoTask
      BY <1>4 DEF Counting, NoTask
    <2>4. \A i \in Jobs : Counting(i)' <=> Counting(i)
      BY <1>4, <2>1, <2>2 DEF Counting
    <2>5. active' = {i \in Jobs : Counting(i)'}
      BY <1>4, <2>4 DEF OneTracker
    <2>6. j = runner.job /\ runner.pc # "idle"
      BY <1>4 DEF OneTracker
    <2>7. ~(j > runner.job)
      BY <1>0, <2>6
    <2> QED BY <1>0, <1>4, <2>1, <2>2, <2>4, <2>5, <2>6, <2>7 DEF OneTracker
  <1>5. ASSUME NEW j \in Jobs, Begin(j) PROVE OneTracker'
    <2>1. /\ task[j].pc = "created" /\ task'[j].pc = "connect"
          /\ \A i \in Jobs : i # j => task'[i] = task[i]
          /\ active' = active \cup {j} /\ runner' = runner
      BY <1>0, <1>5 DEF Begin, Task
    <2>2. j = runner.job /\ runner.pc # "idle"
      BY <2>1 DEF OneTracker
    <2>3. \A i \in Jobs : Counting(i)' <=> Counting(i) \/ i = j
      BY <2>1 DEF Counting
    <2>4. active' = {i \in Jobs : Counting(i)'}
      BY <2>1, <2>3 DEF OneTracker
    <2>5. ~(j > runner.job)
      BY <1>0, <2>2
    <2> QED BY <1>0, <2>1, <2>2, <2>3, <2>4, <2>5 DEF OneTracker
  <1>6. ASSUME NEW j \in Jobs, Connect(j) PROVE OneTracker'
    <2>1. LoopOrLeave(task[j]) \in Task /\ LoopOrLeave(task[j]).pc \in {"recv", "close"}
      BY <1>0, LoopTask
    <2> QED BY <1>4, <1>6, <2>1 DEF Connect, Counting
  <1>7. ASSUME NEW j \in Jobs, Receive(j) PROVE OneTracker'
    <2> DEFINE u == LoopOrLeave(Take(task[j], Head(wire[j])))
    <2>1. Head(wire[j]) \in Sample
      <3>1. wire[j] \in Seq(Sample) /\ wire[j] # <<>>
        BY <1>7 DEF Receive, TypeOK
      <3> QED BY <3>1
    <2>2. u \in Task /\ u.pc \in {"recv", "close"}
      BY <1>0, <2>1, TakeTask, LoopTask
    <2>3. task' = [task EXCEPT ![j] = u] /\ Counting(j) /\ UNCHANGED <<active, runner>>
      BY <1>7 DEF Receive, Counting
    <2> HIDE DEF u
    <2> QED BY <1>4, <2>2, <2>3
  <1>8. ASSUME NEW j \in Jobs, TimeOut(j) PROVE OneTracker'
    <2> DEFINE v == [AddUp(task[j], now) EXCEPT !.prev_ts = now, !.timeouts = TRUE]
               u == LoopOrLeave(v)
    <2>1. AddUp(task[j], now) \in Task /\ now \in Time
      BY <1>0, AddUpTask DEF TypeOK
    <2>2. v \in Task
      BY <2>1 DEF Task
    <2>3. task' = [task EXCEPT ![j] = u] /\ Counting(j) /\ UNCHANGED <<active, runner>>
      BY <1>8 DEF TimeOut, Counting
    <2> HIDE DEF v
    <2>4. u \in Task /\ u.pc \in {"recv", "close"}
      BY <2>2, LoopTask
    <2> HIDE DEF u
    <2> QED BY <1>4, <2>3, <2>4
  <1>9. ASSUME NEW j \in Jobs, ConnectionFails(j) PROVE OneTracker'
    <2> DEFINE u == [task[j] EXCEPT !.pc = "close"]
    <2>1. task[j] \in Task
      BY <1>0
    <2>2. u \in Task /\ u.pc = "close"
      BY <2>1 DEF Task
    <2>3. task' = [task EXCEPT ![j] = u] /\ Counting(j) /\ UNCHANGED <<active, runner>>
      BY <1>9 DEF ConnectionFails, Counting
    <2> HIDE DEF u
    <2> QED BY <1>4, <2>2, <2>3
  <1>10. ASSUME NEW j \in Jobs, End(j) PROVE OneTracker'
    <2>1. /\ task[j].pc = "close" /\ task'[j].pc = "done"
          /\ \A i \in Jobs : i # j => task'[i] = task[i]
          /\ active' = active \ {j} /\ runner' = runner
      <3>1. AddUp(task[j], now) \in Task
        BY <1>0, AddUpTask DEF TypeOK
      <3>2. task'[j] = [AddUp(task[j], now) EXCEPT !.pc = "done", !.ended = now]
        BY <1>0, <1>10 DEF End
      <3>3. task'[j].pc = "done"
        BY <3>1, <3>2 DEF Task
      <3> QED BY <1>0, <1>10, <3>3 DEF End
    <2>2. j = runner.job /\ runner.pc # "idle"
      BY <2>1 DEF OneTracker, Counting
    <2>3. \A i \in Jobs : Counting(i)' <=> Counting(i) /\ i # j
      BY <2>1 DEF Counting
    <2>4. active' = {i \in Jobs : Counting(i)'}
      BY <2>1, <2>3 DEF OneTracker
    <2>5. ~(j > runner.job)
      BY <1>0, <2>2
    <2> QED BY <1>0, <2>1, <2>2, <2>3, <2>4, <2>5 DEF OneTracker
  <1>11. ASSUME NEW j \in Jobs, StartJob(j) PROVE OneTracker'
    <2>1. /\ runner.pc = "idle" /\ j = runner.job + 1
          /\ runner' = [pc |-> "infer", job |-> j] /\ active' = active
          /\ task' = [task EXCEPT ![j].pc = "created"]
      BY <1>11 DEF StartJob
    <2>2. runner.job \in Nat /\ runner'.job = j /\ runner'.pc # "idle"
      BY <1>0, <2>1
    <2>3. task[j] = NoTask
      BY <2>1, <2>2 DEF OneTracker
    <2>4. /\ task'[j].pc = "created" /\ task'[j].total = 0
          /\ ~task'[j].capped /\ ~task'[j].timeouts
      BY <1>0, <2>1, <2>3 DEF NoTask
    <2>5. \A i \in Jobs : i # j => task'[i] = task[i]
      BY <1>0, <2>1
    <2>6. \A i \in Jobs : ~Counting(i) /\ (i # j => task[i].pc # "created")
      BY <2>1 DEF OneTracker
    <2>7. \A i \in Jobs : ~Counting(i)'
      BY <2>4, <2>5, <2>6 DEF Counting
    <2>8. active' = {i \in Jobs : Counting(i)'}
      BY <2>1, <2>6, <2>7 DEF OneTracker
    <2>9. \A i \in Jobs : i > runner'.job => i # j /\ i > runner.job
      BY <1>0, <2>1, <2>2
    <2> QED BY <2>2, <2>4, <2>5, <2>6, <2>7, <2>8, <2>9 DEF OneTracker
  <1>12. CASE InferenceEnds
    <2>1. /\ runner.job \in Jobs /\ runner'.job = runner.job /\ runner'.pc = "finish"
          /\ runner.pc # "idle" /\ active' = active
          /\ task' = [task EXCEPT ![runner.job].stop = TRUE]
      BY <1>0, <1>12 DEF InferenceEnds, OneTracker
    <2>2. \A i \in Jobs : /\ task'[i].pc = task[i].pc /\ task'[i].total = task[i].total
                          /\ task'[i].capped = task[i].capped
                          /\ task'[i].timeouts = task[i].timeouts
                          /\ i # runner.job => task'[i] = task[i]
      <3> DEFINE u == [task[runner.job] EXCEPT !.stop = TRUE]
      <3>1. task[runner.job] \in Task
        BY <1>0, <2>1
      <3>2. /\ u.pc = task[runner.job].pc /\ u.total = task[runner.job].total
            /\ u.capped = task[runner.job].capped /\ u.timeouts = task[runner.job].timeouts
        BY <3>1 DEF Task
      <3>3. task' = [task EXCEPT ![runner.job] = u]
        BY <2>1
      <3> HIDE DEF u
      <3> QED BY <1>0, <2>1, <3>2, <3>3
    <2>3. \A i \in Jobs : Counting(i)' <=> Counting(i)
      BY <2>2 DEF Counting
    <2>4. active' = {i \in Jobs : Counting(i)'}
      BY <2>1, <2>3 DEF OneTracker
    <2>5. \A i \in Jobs : i > runner.job => i # runner.job
      BY <1>0
    <2> QED BY <1>0, <2>1, <2>2, <2>3, <2>4, <2>5 DEF OneTracker
  <1>13. CASE FinishPowerTrack
    <2>1. /\ runner.job \in Jobs /\ runner'.job = runner.job /\ runner'.pc = "idle"
          /\ UNCHANGED <<task, active>> /\ task[runner.job].pc = "done"
      BY <1>0, <1>13 DEF FinishPowerTrack, OneTracker
    <2>2. \A i \in Jobs : ~Counting(i) /\ task[i].pc # "created"
      BY <2>1 DEF OneTracker, Counting
    <2> QED BY <2>1, <2>2 DEF OneTracker, Counting
  <1>14. CASE Tick \/ StartReading \/ UNCHANGED vars
    BY <1>1, <1>14 DEF Tick, StartReading, vars
  <1> QED BY <1>2, <1>3, <1>5, <1>6, <1>7, <1>8, <1>9, <1>10, <1>11, <1>12, <1>13, <1>14,
             StepCases

LEMMA ClockStep ==
    ASSUME TypeOK, OneTracker, ClockInv, ComingInv, [Next]_vars
    PROVE  ClockInv'
  <1>0. /\ now \in Time /\ reading \in Time \cup {None} /\ latest \in Sample \cup {None}
        /\ task \in [Jobs -> Task] /\ MaxTime \in Nat
    BY PowerAssumption DEF TypeOK
  <1>a. \A t \in Time : t \in Nat /\ t # None
    BY NoneAssumption DEF Time
  <1>b. \A s \in Sample : s.ts \in Nat /\ s # None
    BY NoneAssumption DEF Time, Sample
  <1>c. \A j \in Jobs : task[j] \in Task /\ task[j].prev_ts \in Nat
    BY <1>0, <1>a DEF Task
  <1>d. now \in Nat /\ now <= now
    BY <1>0, <1>a
  (* Steps that change nothing but one tracker, and keep its clock behind *)
  <1>1. ASSUME UNCHANGED <<now, reading, latest>>, NEW j \in Jobs, NEW t \in Task,
               task' = [task EXCEPT ![j] = t], t.prev_ts <= now
        PROVE  ClockInv'
    BY <1>0, <1>1 DEF ClockInv
  <1>2. CASE Tick
    <2>1. now' = now + 1 /\ UNCHANGED <<reading, latest, task>>
      BY <1>2 DEF Tick, hostVars
    <2>2. now \in Nat
      BY <1>0, <1>a
    <2> QED BY <1>0, <1>a, <1>b, <1>c, <2>1, <2>2 DEF ClockInv
  <1>3. CASE StartReading
    BY <1>0, <1>3, <1>a DEF StartReading, ClockInv
  <1>4. ASSUME NEW raw \in Watts, Publish(raw) PROVE ClockInv'
    <2>1. /\ reading # None /\ latest'.ts = reading /\ reading' = None
          /\ UNCHANGED <<now, task>>
      BY <1>4 DEF Publish
    <2> QED BY <1>0, <2>1 DEF ClockInv
  <1>5. ASSUME NEW j \in Jobs, Begin(j) PROVE ClockInv'
    <2> DEFINE t == [task[j] EXCEPT !.pc = "connect", !.started = now,
                                    !.prev_ts = now, !.first = now]
    <2>1. t \in Task /\ t.prev_ts = now
      BY <1>0, <1>c DEF Task
    <2>2. task' = [task EXCEPT ![j] = t] /\ UNCHANGED <<now, reading, latest>>
      BY <1>5 DEF Begin, hostVars
    <2> HIDE DEF t
    <2> QED BY <1>1, <1>d, <2>1, <2>2
  <1>6. ASSUME NEW j \in Jobs, Connect(j) PROVE ClockInv'
    <2>1. LoopOrLeave(task[j]) \in Task /\ LoopOrLeave(task[j]).prev_ts <= now
      BY <1>c, LoopTask DEF ClockInv
    <2> QED BY <1>1, <1>6, <2>1 DEF Connect, hostVars
  <1>7. ASSUME NEW j \in Jobs, Receive(j) PROVE ClockInv'
    <2> DEFINE s == Head(wire[j])
               u == LoopOrLeave(Take(task[j], s))
    <2>1. wire[j] \in Seq(Sample) /\ wire[j] # <<>> /\ Connected(j)
      BY <1>7 DEF Receive, TypeOK, Connected
    <2>2. s \in Sample /\ s = wire[j][1] /\ 1 \in 1 .. Len(wire[j])
      BY <2>1
    <2> HIDE DEF s
    <2>3. latest # None /\ s.ts <= latest.ts
      <3>1. UpToLatest(wire[j])
        <4>1. task[j].pc = "recv"
          BY <2>1 DEF Connected
        <4> QED BY <4>1 DEF ComingInv, Coming, Connected
      <3> QED BY <2>2, <3>1 DEF UpToLatest
    <2>4. s.ts <= now
      BY <1>0, <1>a, <1>b, <2>2, <2>3 DEF ClockInv
    <2>5. u \in Task /\ u.prev_ts = s.ts
      BY <1>c, <2>2, TakeTask, LoopTask
    <2>6. task' = [task EXCEPT ![j] = u] /\ UNCHANGED <<now, reading, latest>>
      BY <1>7 DEF Receive, hostVars, s
    <2> HIDE DEF u
    <2> QED BY <1>1, <2>4, <2>5, <2>6
  <1>8. ASSUME NEW j \in Jobs, TimeOut(j) PROVE ClockInv'
    <2> DEFINE v == [AddUp(task[j], now) EXCEPT !.prev_ts = now, !.timeouts = TRUE]
               u == LoopOrLeave(v)
    <2>1. AddUp(task[j], now) \in Task
      BY <1>0, <1>c, AddUpTask
    <2>2. v \in Task /\ v.prev_ts = now
      BY <1>0, <2>1 DEF Task
    <2>3. task' = [task EXCEPT ![j] = u] /\ UNCHANGED <<now, reading, latest>>
      BY <1>8 DEF TimeOut, hostVars
    <2> HIDE DEF v
    <2>4. u \in Task /\ u.prev_ts = now
      BY <2>2, LoopTask
    <2> HIDE DEF u
    <2> QED BY <1>1, <1>d, <2>3, <2>4
  <1>9. ASSUME NEW j \in Jobs, ConnectionFails(j) PROVE ClockInv'
    <2> DEFINE u == [task[j] EXCEPT !.pc = "close"]
    <2>1. u \in Task /\ u.prev_ts <= now
      BY <1>c DEF Task, ClockInv
    <2>2. task' = [task EXCEPT ![j] = u] /\ UNCHANGED <<now, reading, latest>>
      BY <1>9 DEF ConnectionFails, hostVars
    <2> HIDE DEF u
    <2> QED BY <1>1, <2>1, <2>2
  <1>10. ASSUME NEW j \in Jobs, End(j) PROVE ClockInv'
    <2> DEFINE u == [AddUp(task[j], now) EXCEPT !.pc = "done", !.ended = now]
    <2>1. AddUp(task[j], now) \in Task /\ AddUp(task[j], now).prev_ts = task[j].prev_ts
      BY <1>0, <1>c, AddUpTask
    <2>2. u \in Task /\ u.prev_ts <= now
      BY <1>0, <2>1 DEF Task, ClockInv
    <2>3. task' = [task EXCEPT ![j] = u] /\ UNCHANGED <<now, reading, latest>>
      BY <1>10 DEF End, hostVars
    <2> HIDE DEF u
    <2> QED BY <1>1, <2>2, <2>3
  <1>11. ASSUME NEW j \in Jobs, StartJob(j) PROVE ClockInv'
    <2> DEFINE u == [task[j] EXCEPT !.pc = "created"]
    <2>1. u \in Task /\ u.prev_ts <= now
      BY <1>c DEF Task, ClockInv
    <2>2. task' = [task EXCEPT ![j] = u] /\ UNCHANGED <<now, reading, latest>>
      BY <1>11 DEF StartJob, hostVars
    <2> HIDE DEF u
    <2> QED BY <1>1, <2>1, <2>2
  <1>12. CASE InferenceEnds
    <2> DEFINE u == [task[runner.job] EXCEPT !.stop = TRUE]
    <2>0. runner.job \in Jobs
      BY <1>12 DEF InferenceEnds, OneTracker
    <2>1. u \in Task /\ u.prev_ts <= now
      <3>1. task[runner.job] \in Task /\ task[runner.job].prev_ts <= now
        BY <1>c, <2>0 DEF ClockInv
      <3> QED BY <3>1 DEF Task
    <2>2. task' = [task EXCEPT ![runner.job] = u] /\ UNCHANGED <<now, reading, latest>>
      BY <1>12 DEF InferenceEnds, hostVars
    <2> HIDE DEF u
    <2> QED BY <1>1, <2>0, <2>1, <2>2
  <1>13. ASSUME UNCHANGED <<now, reading, latest, task>> PROVE ClockInv'
    BY <1>13 DEF ClockInv
  <1>14. ASSUME NEW j \in Jobs, SendSample(j) PROVE ClockInv'
    BY <1>13, <1>14 DEF SendSample, hostVars
  <1>15. CASE FinishPowerTrack \/ UNCHANGED vars
    BY <1>13, <1>15 DEF FinishPowerTrack, vars, hostVars
  <1> QED BY <1>2, <1>3, <1>4, <1>5, <1>6, <1>7, <1>8, <1>9, <1>10, <1>11, <1>12, <1>14,
             <1>15, StepCases

(* Samples keep their order: a new one is newer than the latest, and the   *)
(* queue, the connection and the tracker take them from the front.         *)
LEMMA ComingStep ==
    ASSUME TypeOK, OneTracker, ClockInv, ComingInv, [Next]_vars
    PROVE  ComingInv'
  <1>0. /\ now \in Time /\ reading \in Time \cup {None} /\ latest \in Sample \cup {None}
        /\ queue \in [Jobs -> Seq(Sample)] /\ wire \in [Jobs -> Seq(Sample)]
        /\ task \in [Jobs -> Task]
    BY DEF TypeOK
  <1>a. \A t \in Time : t \in Nat /\ t # None
    BY PowerAssumption, NoneAssumption DEF Time
  <1>b. \A s \in Sample : s.ts \in Nat /\ s # None
    BY PowerAssumption, NoneAssumption DEF Time, Sample
  (* Steps of a tracker that leave the samples alone *)
  <1>1. ASSUME UNCHANGED <<latest, queue, wire>>,
               \A i \in Jobs : \/ task'[i].pc = task[i].pc
                               \/ task'[i].pc = "close"
                               \/ task[i].pc = "recv" /\ task'[i].pc = "recv"
                               \/ task'[i].pc # "recv" /\ wire[i] = <<>>
        PROVE  ComingInv'
    <2>1. SUFFICES ASSUME NEW i \in Jobs
                   PROVE  /\ Connected(i)' => Coming(i)'
                          /\ ~Connected(i)' /\ task'[i].pc # "close" => wire'[i] = <<>>
      BY DEF ComingInv
    <2>2. Coming(i) => Coming(i)'
      BY <1>1 DEF Coming, UpToLatest, Increasing
    <2> QED BY <1>1, <2>2 DEF ComingInv, Connected
  (* Steps of one connection *)
  <1>2. ASSUME NEW j \in Jobs, latest' = latest,
               \A i \in Jobs : i # j => /\ task'[i] = task[i]
                                        /\ queue'[i] = queue[i] /\ wire'[i] = wire[i],
               Connected(j)' => Coming(j)',
               ~Connected(j)' /\ task'[j].pc # "close" => wire'[j] = <<>>
        PROVE  ComingInv'
    <2>1. SUFFICES ASSUME NEW i \in Jobs, i # j
                   PROVE  /\ Connected(i)' => Coming(i)'
                          /\ ~Connected(i)' /\ task'[i].pc # "close" => wire'[i] = <<>>
      BY <1>2 DEF ComingInv
    <2>2. Coming(i) => Coming(i)'
      BY <1>2, <2>1 DEF Coming, UpToLatest, Increasing
    <2> QED BY <1>2, <2>1, <2>2 DEF ComingInv, Connected
  <1>3. ASSUME NEW raw \in Watts, Publish(raw) PROVE ComingInv'
    <2>1. PICK watts \in Filtered(raw) :
            /\ latest' = [ts |-> reading, watts |-> watts]
            /\ queue' = [j \in Jobs |-> IF Connected(j)
                                        THEN Put(queue[j], [ts |-> reading, watts |-> watts])
                                        ELSE queue[j]]
      BY <1>3 DEF Publish
    <2> DEFINE s == [ts |-> reading, watts |-> watts]
    <2>2. s \in Sample /\ latest' = s /\ s.ts = reading
      BY <1>0, <1>3, <2>1, FilteredWatts DEF Publish, Sample
    <2>3. \A j \in Jobs : queue'[j] = IF Connected(j) THEN Put(queue[j], s) ELSE queue[j]
      BY <2>1
    <2> HIDE DEF s
    <2>4. wire' = wire /\ task' = task
      BY <1>3 DEF Publish
    <2>5. latest # None => latest.ts < s.ts
      BY <1>3, <2>2 DEF Publish, ClockInv
    <2>6. SUFFICES ASSUME NEW j \in Jobs, Connected(j) PROVE Coming(j)'
      BY <2>4 DEF ComingInv, Connected
    <2> DEFINE q == queue[j]
               r == Put(queue[j], s)
               w == wire[j]
    <2>7. q \in Seq(Sample) /\ w \in Seq(Sample) /\ queue'[j] = r /\ wire'[j] = w
      BY <1>0, <2>3, <2>4, <2>6
    <2>8. /\ Increasing(w) /\ Increasing(q) /\ UpToLatest(w) /\ UpToLatest(q)
          /\ \A i \in 1 .. Len(w), k \in 1 .. Len(q) : w[i].ts < q[k].ts
      BY <2>6 DEF ComingInv, Coming
    <2>9. /\ r \in Seq(Sample) /\ r # <<>> /\ r[Len(r)] = s
          /\ \A i \in 1 .. Len(r) - 1 : \E k \in 1 .. Len(q) : r[i] = q[k]
          /\ \A i, k \in 1 .. Len(r) - 1 : i < k =>
                \E a, b \in 1 .. Len(q) : a < b /\ r[i] = q[a] /\ r[k] = q[b]
      BY <2>2, <2>7, PutSamples
    <2> HIDE DEF q, r, w
    <2>10. Len(r) \in Nat /\ Len(q) \in Nat /\ Len(w) \in Nat
      BY <2>7, <2>9
    <2>11. /\ \A i \in 1 .. Len(q) : q[i].ts \in Nat /\ q[i].ts < s.ts
           /\ \A i \in 1 .. Len(w) : w[i].ts \in Nat /\ w[i].ts < s.ts
      <3>1. latest # None => latest.ts \in Nat
        BY <1>0, <1>b
      <3>2. /\ \A i \in 1 .. Len(q) : q[i] \in Sample
            /\ \A i \in 1 .. Len(w) : w[i] \in Sample
        BY <2>7
      <3>3. s.ts \in Nat
        BY <1>b, <2>2
      <3> QED BY <1>b, <2>5, <2>8, <3>1, <3>2, <3>3 DEF UpToLatest
    <2>12. \A i \in 1 .. Len(r) - 1 : r[i].ts < s.ts
      BY <2>9, <2>11
    <2>13. Increasing(r)
      <3>1. SUFFICES ASSUME NEW i \in 1 .. Len(r), NEW k \in 1 .. Len(r), i < k
                     PROVE  r[i].ts < r[k].ts
        BY DEF Increasing
      <3>2. i \in 1 .. Len(r) - 1
        BY <2>10, <3>1
      <3>3. CASE k = Len(r)
        BY <2>9, <2>12, <3>2, <3>3
      <3>4. CASE k # Len(r)
        <4>1. k \in 1 .. Len(r) - 1
          BY <2>10, <3>4
        <4>2. PICK a \in 1 .. Len(q), b \in 1 .. Len(q) : a < b /\ r[i] = q[a] /\ r[k] = q[b]
          BY <2>9, <3>1, <3>2, <4>1
        <4> QED BY <2>8, <4>2 DEF Increasing
      <3> QED BY <3>3, <3>4
    <2>14. \A i \in 1 .. Len(r) : r[i].ts <= s.ts
      <3>1. TAKE i \in 1 .. Len(r)
      <3>2. CASE i = Len(r)
        BY <1>b, <2>2, <2>9, <3>2
      <3>3. CASE i # Len(r)
        <4>1. i \in 1 .. Len(r) - 1
          BY <2>10, <3>3
        <4>2. PICK k \in 1 .. Len(q) : r[i] = q[k]
          BY <2>9, <4>1
        <4>3. q[k].ts \in Nat /\ q[k].ts < s.ts /\ s.ts \in Nat
          BY <1>b, <2>2, <2>11
        <4> QED BY <4>2, <4>3
      <3> QED BY <3>2, <3>3
    <2>15. \A i \in 1 .. Len(w), k \in 1 .. Len(r) : w[i].ts < r[k].ts
      <3>1. TAKE i \in 1 .. Len(w), k \in 1 .. Len(r)
      <3>2. CASE k = Len(r)
        BY <2>9, <2>11, <3>2
      <3>3. CASE k # Len(r)
        <4>1. k \in 1 .. Len(r) - 1
          BY <2>10, <3>3
        <4> QED BY <2>8, <2>9, <4>1
      <3> QED BY <3>2, <3>3
    <2>16. /\ \A i \in 1 .. Len(w) : s # None /\ w[i].ts <= s.ts
           /\ \A i \in 1 .. Len(r) : s # None /\ r[i].ts <= s.ts
      BY <1>b, <2>2, <2>11, <2>14
    <2> QED BY <2>2, <2>7, <2>8, <2>9, <2>13, <2>15, <2>16 DEF Coming, UpToLatest, Increasing
  <1>4. ASSUME NEW j \in Jobs, SendSample(j) PROVE ComingInv'
    <2> DEFINE q == queue[j]
               w == wire[j]
               x == Append(w, Head(q))
               r == Tail(q)
    <2>1. /\ Connected(j) /\ q # <<>> /\ latest' = latest /\ task' = task
          /\ queue' = [queue EXCEPT ![j] = r] /\ wire' = [wire EXCEPT ![j] = x]
      BY <1>4 DEF SendSample, hostVars
    <2>2. /\ queue'[j] = r /\ wire'[j] = x /\ q \in Seq(Sample) /\ w \in Seq(Sample)
          /\ \A i \in Jobs : i # j => queue'[i] = queue[i] /\ wire'[i] = wire[i]
      BY <1>0, <2>1
    <2>3. /\ Increasing(w) /\ Increasing(q) /\ UpToLatest(w) /\ UpToLatest(q)
          /\ \A i \in 1 .. Len(w), k \in 1 .. Len(q) : w[i].ts < q[k].ts
          /\ q[Len(q)] = latest
      BY <2>1 DEF ComingInv, Coming
    <2> HIDE DEF q, w
    <2>4. Len(q) \in Nat \ {0} /\ Len(w) \in Nat /\ Head(q) = q[1] /\ Head(q) \in Sample
      BY <2>1, <2>2
    <2>5. /\ r \in Seq(Sample) /\ Len(r) = Len(q) - 1
          /\ \A k \in 1 .. Len(r) : k + 1 \in 1 .. Len(q) /\ r[k] = q[k + 1]
      BY <2>1, <2>2, <2>4
    <2>6. /\ x \in Seq(Sample) /\ Len(x) = Len(w) + 1 /\ x[Len(w) + 1] = q[1]
          /\ \A i \in 1 .. Len(w) : x[i] = w[i]
      BY <2>2, <2>4
    <2> HIDE DEF x, r
    <2>7. Increasing(r)
      BY <2>3, <2>4, <2>5 DEF Increasing
    <2>8. \A i \in 1 .. Len(x) : \/ i \in 1 .. Len(w) /\ x[i] = w[i]
                                 \/ i = Len(w) + 1 /\ x[i] = q[1]
      BY <2>4, <2>6
    <2>9. 1 \in 1 .. Len(q)
      BY <2>4
    <2>10. Increasing(x)
      <3>1. SUFFICES ASSUME NEW i \in 1 .. Len(x), NEW k \in 1 .. Len(x), i < k
                     PROVE  x[i].ts < x[k].ts
        BY DEF Increasing
      <3>2. i \in 1 .. Len(w) /\ x[i] = w[i]
        BY <2>4, <2>6, <3>1
      <3> QED BY <2>3, <2>8, <2>9, <3>1, <3>2 DEF Increasing
    <2>11. \A i \in 1 .. Len(x), k \in 1 .. Len(r) : x[i].ts < r[k].ts
      <3>1. TAKE i \in 1 .. Len(x), k \in 1 .. Len(r)
      <3>2. k + 1 \in 1 .. Len(q) /\ r[k] = q[k + 1] /\ 1 < k + 1
        BY <2>4, <2>5
      <3> QED BY <2>3, <2>8, <2>9, <3>2 DEF Increasing
    <2>12. /\ \A i \in 1 .. Len(x) : latest # None /\ x[i].ts <= latest.ts
           /\ \A i \in 1 .. Len(r) : latest # None /\ r[i].ts <= latest.ts
      BY <2>3, <2>5, <2>8, <2>9 DEF UpToLatest
    <2>13. r # <<>> => r[Len(r)] = latest
      BY <2>3, <2>4, <2>5
    <2>14. Coming(j)'
      BY <2>1, <2>2, <2>7, <2>10, <2>11, <2>12, <2>13 DEF Coming, UpToLatest, Increasing
    <2> QED BY <1>2, <2>1, <2>2, <2>14 DEF Connected
  <1>5. ASSUME NEW j \in Jobs, Begin(j) PROVE ComingInv'
    <2>1. wire[j] = <<>>
      BY <1>5 DEF Begin, ComingInv, Connected
    <2>2. /\ UNCHANGED <<latest, queue, wire>> /\ task'[j].pc = "connect"
          /\ \A i \in Jobs : i # j => task'[i] = task[i]
      BY <1>0, <1>5 DEF Begin, hostVars, Task
    <2> QED BY <1>1, <2>1, <2>2
  <1>6. ASSUME NEW j \in Jobs, Connect(j) PROVE ComingInv'
    <2> DEFINE r == IF latest = None THEN <<>> ELSE <<latest>>
    <2>1. wire[j] = <<>>
      BY <1>6 DEF Connect, ComingInv, Connected
    <2>2. LoopOrLeave(task[j]).pc \in {"recv", "close"}
      BY <1>0, LoopTask
    <2>3. /\ wire' = wire /\ latest' = latest /\ task'[j].pc \in {"recv", "close"}
          /\ queue' = [queue EXCEPT ![j] = r]
          /\ \A i \in Jobs : i # j => task'[i] = task[i]
      BY <1>0, <1>6, <2>2 DEF Connect, hostVars
    <2>4. queue'[j] = r /\ \A i \in Jobs : i # j => queue'[i] = queue[i]
      BY <1>0, <2>3
    <2>5. (latest = None /\ r = <<>>) \/ (latest # None /\ r = <<latest>>)
      OBVIOUS
    <2>8. /\ Len(<<>>) = 0 /\ 1 .. 0 = {} /\ 1 .. 1 = {1}
          /\ latest # None => Len(<<latest>>) = 1 /\ <<latest>>[1] = latest
      OBVIOUS
    <2>6. latest # None => latest.ts \in Nat
      BY <1>0, <1>b
    <2> HIDE DEF r
    <2>7. Coming(j)'
      <3>1. CASE r = <<>>
        BY <2>1, <2>3, <2>4, <2>8, <3>1 DEF Coming, UpToLatest, Increasing
      <3>2. CASE latest # None /\ r = <<latest>>
        <4>1. Len(r) = 1 /\ r[1] = latest
          BY <2>8, <3>2
        <4>3. Increasing(r)
          BY <4>1 DEF Increasing
        <4>2. \A i \in 1 .. Len(r) : latest # None /\ r[i].ts <= latest.ts
          BY <2>6, <3>2, <4>1
        <4> QED BY <2>1, <2>3, <2>4, <2>8, <4>1, <4>2, <4>3 DEF Coming, UpToLatest, Increasing
      <3> QED BY <2>5, <3>1, <3>2
    <2> QED BY <1>2, <2>1, <2>3, <2>4, <2>7 DEF Connected
  <1>7. ASSUME NEW j \in Jobs, Receive(j) PROVE ComingInv'
    <2> DEFINE q == queue[j]
               w == wire[j]
               r == Tail(w)
    <2>1. /\ Connected(j) /\ w # <<>> /\ latest' = latest /\ queue' = queue
          /\ wire' = [wire EXCEPT ![j] = r]
          /\ task' = [task EXCEPT ![j] = LoopOrLeave(Take(@, Head(w)))]
      BY <1>7 DEF Receive, hostVars, Connected
    <2>2. /\ wire'[j] = r /\ q \in Seq(Sample) /\ w \in Seq(Sample)
          /\ \A i \in Jobs : i # j => task'[i] = task[i] /\ wire'[i] = wire[i]
      BY <1>0, <2>1
    <2>3. task'[j].pc \in {"recv", "close"}
      <3>1. Head(w) \in Sample
        BY <2>1, <2>2
      <3>2. LoopOrLeave(Take(task[j], Head(w))).pc \in {"recv", "close"}
        BY <1>0, <3>1, TakeTask, LoopTask
      <3> QED BY <1>0, <2>1, <3>2
    <2>4. /\ Increasing(w) /\ Increasing(q) /\ UpToLatest(w) /\ UpToLatest(q)
          /\ \A i \in 1 .. Len(w), k \in 1 .. Len(q) : w[i].ts < q[k].ts
          /\ q # <<>> => q[Len(q)] = latest
      BY <2>1 DEF ComingInv, Coming
    <2> HIDE DEF w
    <2>5. /\ r \in Seq(Sample) /\ Len(w) \in Nat /\ Len(r) = Len(w) - 1
          /\ \A k \in 1 .. Len(r) : k + 1 \in 1 .. Len(w) /\ r[k] = w[k + 1]
      BY <2>1, <2>2
    <2> HIDE DEF r, q
    <2>6. Increasing(r)
      BY <2>4, <2>5 DEF Increasing
    <2>8. /\ \A i \in 1 .. Len(r), k \in 1 .. Len(q) : r[i].ts < q[k].ts
          /\ \A i \in 1 .. Len(r) : latest # None /\ r[i].ts <= latest.ts
      BY <2>4, <2>5 DEF UpToLatest
    <2>9. /\ queue'[j] = q /\ wire'[j] = r /\ latest' = latest
      BY <2>1, <2>2 DEF q
    <2>10. Increasing(q) /\ UpToLatest(q) /\ (q # <<>> => q[Len(q)] = latest)
      BY <2>4
    <2>7. Coming(j)'
      BY <2>6, <2>8, <2>9, <2>10 DEF Coming, UpToLatest, Increasing
    <2> QED BY <1>2, <2>1, <2>2, <2>3, <2>7 DEF Connected
  <1>8. ASSUME NEW j \in Jobs, TimeOut(j) PROVE ComingInv'
    <2> DEFINE v == [AddUp(task[j], now) EXCEPT !.prev_ts = now, !.timeouts = TRUE]
    <2>1. AddUp(task[j], now) \in Task
      BY <1>0, AddUpTask
    <2>2. v \in Task
      BY <1>0, <2>1 DEF Task
    <2>3. /\ task' = [task EXCEPT ![j] = LoopOrLeave(v)] /\ task[j].pc = "recv"
          /\ UNCHANGED <<latest, queue, wire>>
      BY <1>8 DEF TimeOut, hostVars
    <2> HIDE DEF v
    <2>4. /\ task'[j].pc \in {"recv", "close"}
          /\ \A i \in Jobs : i # j => task'[i] = task[i]
      BY <1>0, <2>2, <2>3, LoopTask
    <2> QED BY <1>1, <2>3, <2>4
  <1>9. ASSUME NEW j \in Jobs, ConnectionFails(j) PROVE ComingInv'
    <2>1. /\ UNCHANGED <<latest, queue, wire>> /\ task'[j].pc = "close"
          /\ \A i \in Jobs : i # j => task'[i] = task[i]
      BY <1>0, <1>9 DEF ConnectionFails, hostVars, Task
    <2> QED BY <1>1, <2>1
  <1>10. ASSUME NEW j \in Jobs, End(j) PROVE ComingInv'
    <2>1. AddUp(task[j], now) \in Task
      BY <1>0, AddUpTask
    <2>2. [AddUp(task[j], now) EXCEPT !.pc = "done", !.ended = now].pc = "done"
      BY <2>1 DEF Task
    <2>3. /\ latest' = latest /\ task'[j].pc = "done" /\ wire'[j] = <<>>
          /\ \A i \in Jobs : i # j => /\ task'[i] = task[i]
                                      /\ queue'[i] = queue[i] /\ wire'[i] = wire[i]
      BY <1>0, <1>10, <2>2 DEF End, hostVars
    <2> QED BY <1>2, <2>3 DEF Connected
  <1>11. ASSUME NEW j \in Jobs, StartJob(j) PROVE ComingInv'
    <2>1. task[j].pc = "new"
      <3>1. j > runner.job
        BY <1>11, PowerAssumption DEF StartJob, TypeOK
      <3> QED BY <3>1 DEF OneTracker, NoTask
    <2>2. wire[j] = <<>>
      BY <2>1 DEF ComingInv, Connected
    <2>3. /\ UNCHANGED <<latest, queue, wire>> /\ task'[j].pc = "created"
          /\ \A i \in Jobs : i # j => task'[i] = task[i]
      BY <1>0, <1>11 DEF StartJob, hostVars, Task
    <2> QED BY <1>1, <2>2, <2>3
  <1>12. CASE InferenceEnds
    <2>1. runner.job \in Jobs
      BY <1>12 DEF InferenceEnds, OneTracker
    <2>2. \A i \in Jobs : task'[i].pc = task[i].pc
      BY <1>0, <1>12, <2>1 DEF InferenceEnds, Task
    <2> QED BY <1>1, <1>12, <2>2 DEF InferenceEnds, hostVars
  <1>13. CASE Tick \/ StartReading \/ FinishPowerTrack \/ UNCHANGED vars
    BY <1>1, <1>13 DEF Tick, StartReading, FinishPowerTrack, vars, hostVars
  <1> QED BY <1>3, <1>4, <1>5, <1>6, <1>7, <1>8, <1>9, <1>10, <1>11, <1>12, <1>13, StepCases

(* What a segment leaves of the account: it covers the time up to its end, *)
(* unless it is cut, and no more than that, if the end is not in the past. *)
LEMMA SegmentCounts ==
    ASSUME TypeOK, NEW t \in Task, NEW end \in Time
    PROVE  /\ (~t.capped => t.total >= t.prev_ts - t.started) =>
                (~AddUp(t, end).capped => AddUp(t, end).total >= end - t.started)
           /\ t.total <= t.prev_ts - t.first /\ end >= t.prev_ts =>
                AddUp(t, end).total <= end - t.first
           /\ end < t.prev_ts => AddUp(t, end).total = t.total
  <1>1. /\ t.total \in Nat /\ t.prev_ts \in Nat /\ t.started \in Nat /\ t.first \in Nat
        /\ end \in Nat /\ t.capped \in BOOLEAN /\ SegmentCap \in Nat
    BY PowerAssumption DEF Task, Time
  <1> DEFINE c == Count(t, end)
             u == AddUp(t, end)
  <1>2. /\ c \in Nat /\ (end <= t.prev_ts => c = 0)
        /\ end >= t.prev_ts => c <= end - t.prev_ts
        /\ end - t.prev_ts <= SegmentCap => c >= end - t.prev_ts
    BY CountBounds
  <1>3. u.total = t.total + c /\ (u.capped <=> t.capped \/ end - t.prev_ts > SegmentCap)
    BY AddUpTask
  <1> HIDE DEF c, u
  <1>4. ASSUME ~t.capped => t.total >= t.prev_ts - t.started, ~u.capped
        PROVE  u.total >= end - t.started
    <2>1. ~t.capped /\ end - t.prev_ts <= SegmentCap
      BY <1>1, <1>3, <1>4
    <2> QED BY <1>1, <1>2, <1>3, <1>4, <2>1
  <1>5. ASSUME t.total <= t.prev_ts - t.first, end >= t.prev_ts
        PROVE  u.total <= end - t.first
    BY <1>1, <1>2, <1>3, <1>5
  <1>6. end < t.prev_ts => u.total = t.total
    BY <1>1, <1>2, <1>3
  <1> QED BY <1>4, <1>5, <1>6 DEF u

(* What is charged stays between the time since the sample the count began *)
(* with and the time of the task.                                          *)
LEMMA CountStep ==
    ASSUME TypeOK, OneTracker, ClockInv, ComingInv, CountInv, [Next]_vars
    PROVE  CountInv'
  <1>0. /\ now \in Time /\ reading \in Time \cup {None} /\ latest \in Sample \cup {None}
        /\ queue \in [Jobs -> Seq(Sample)] /\ wire \in [Jobs -> Seq(Sample)]
        /\ task \in [Jobs -> Task]
    BY DEF TypeOK
  <1>a. \A t \in Time : t \in Nat /\ t # None
    BY PowerAssumption, NoneAssumption DEF Time
  <1>b. \A s \in Sample : s.ts \in Time /\ s.ts \in Nat /\ s # None
    BY PowerAssumption, NoneAssumption DEF Time, Sample
  <1>c. \A t \in Task : /\ t.total \in Nat /\ t.prev_ts \in Nat /\ t.started \in Nat
                        /\ t.first \in Nat /\ t.ended \in Nat
    BY <1>a DEF Task
  (* Steps that leave the account of every task alone *)
  <1>1. ASSUME UNCHANGED <<latest, queue, wire, task>> PROVE CountInv'
    BY <1>1 DEF CountInv, Accounted, Counting, Connected, Elapsed, Ahead
  (* Steps of one task *)
  <1>2. ASSUME NEW j \in Jobs, latest' = latest,
               \A i \in Jobs : i # j => /\ task'[i] = task[i]
                                        /\ queue'[i] = queue[i] /\ wire'[i] = wire[i],
               Accounted(j)'
        PROVE  CountInv'
    <2>1. SUFFICES ASSUME NEW i \in Jobs, i # j PROVE Accounted(i)'
      BY <1>2 DEF CountInv
    <2> QED BY <1>2, <2>1 DEF CountInv, Accounted, Counting, Connected, Elapsed, Ahead
  <1>3. ASSUME NEW raw \in Watts, Publish(raw) PROVE CountInv'
    <2>1. PICK watts \in Filtered(raw) :
            /\ latest' = [ts |-> reading, watts |-> watts]
            /\ queue' = [j \in Jobs |-> IF Connected(j)
                                        THEN Put(queue[j], [ts |-> reading, watts |-> watts])
                                        ELSE queue[j]]
      BY <1>3 DEF Publish
    <2> DEFINE s == [ts |-> reading, watts |-> watts]
    <2>2. s \in Sample /\ latest' = s /\ s.ts = reading
      BY <1>0, <1>3, <2>1, FilteredWatts DEF Publish, Sample
    <2>3. \A j \in Jobs : queue'[j] = IF Connected(j) THEN Put(queue[j], s) ELSE queue[j]
      BY <2>1
    <2> HIDE DEF s
    <2>4. wire' = wire /\ task' = task
      BY <1>3 DEF Publish
    <2>5. latest # None => latest.ts < s.ts
      BY <1>3, <2>2 DEF Publish, ClockInv
    <2>6. ASSUME NEW j \in Jobs, Connected(j), Ahead(j) PROVE Ahead(j)'
      <3> DEFINE q == queue[j]
                 r == Put(queue[j], s)
      <3>1. /\ latest # None /\ latest.ts \in Nat /\ task[j].prev_ts <= latest.ts
            /\ \A i \in 1 .. Len(wire[j]) : wire[j][i].ts > task[j].prev_ts
            /\ \A i \in 1 .. Len(q) : q[i].ts > task[j].prev_ts
        BY <1>0, <1>b, <2>6 DEF Ahead
      <3>2. task[j].prev_ts < s.ts /\ s # None
        BY <1>0, <1>b, <1>c, <2>2, <2>5, <3>1
      <3>3. /\ r \in Seq(Sample) /\ r # <<>> /\ r[Len(r)] = s
            /\ \A i \in 1 .. Len(r) - 1 : \E k \in 1 .. Len(q) : r[i] = q[k]
        BY <1>0, <2>2, PutSamples
      <3>4. queue'[j] = r /\ wire'[j] = wire[j] /\ task'[j] = task[j]
        BY <2>3, <2>4, <2>6
      <3> HIDE DEF q, r
      <3>5. Len(r) \in Nat
        BY <3>3
      <3>6. \A i \in 1 .. Len(r) : r[i].ts > task[j].prev_ts
        <4>1. TAKE i \in 1 .. Len(r)
        <4>2. CASE i = Len(r)
          BY <1>0, <1>b, <1>c, <2>2, <3>2, <3>3, <4>2
        <4>3. CASE i # Len(r)
          <5>1. i \in 1 .. Len(r) - 1
            BY <3>5, <4>3
          <5> QED BY <3>1, <3>3, <5>1
        <4> QED BY <4>2, <4>3
      <3>7. task[j].prev_ts <= s.ts
        BY <1>0, <1>b, <1>c, <2>2, <3>2
      <3> QED BY <2>2, <3>1, <3>2, <3>4, <3>6, <3>7 DEF Ahead
    <2>7. SUFFICES ASSUME NEW j \in Jobs PROVE Accounted(j)'
      BY DEF CountInv
    <2>8. Accounted(j)
      BY DEF CountInv
    <2> QED BY <2>4, <2>6, <2>8 DEF Accounted, Counting, Connected, Elapsed
  <1>4. ASSUME NEW j \in Jobs, SendSample(j) PROVE CountInv'
    <2> DEFINE q == queue[j]
               w == wire[j]
               x == Append(w, Head(q))
               r == Tail(q)
    <2>1. /\ Connected(j) /\ q # <<>> /\ latest' = latest /\ task' = task
          /\ queue' = [queue EXCEPT ![j] = r] /\ wire' = [wire EXCEPT ![j] = x]
      BY <1>4 DEF SendSample, hostVars
    <2>2. /\ queue'[j] = r /\ wire'[j] = x /\ q \in Seq(Sample) /\ w \in Seq(Sample)
          /\ \A i \in Jobs : i # j => queue'[i] = queue[i] /\ wire'[i] = wire[i]
      BY <1>0, <2>1
    <2>3. /\ \A k \in 1 .. Len(r) : k + 1 \in 1 .. Len(q) /\ r[k] = q[k + 1]
          /\ \A i \in 1 .. Len(x) : \/ i \in 1 .. Len(w) /\ x[i] = w[i]
                                    \/ 1 \in 1 .. Len(q) /\ x[i] = q[1]
      <3> HIDE DEF q, w
      <3>1. Len(q) \in Nat \ {0} /\ Len(w) \in Nat /\ Head(q) = q[1] /\ Head(q) \in Sample
        BY <2>1, <2>2
      <3>2. /\ Len(r) = Len(q) - 1 /\ \A k \in 1 .. Len(r) : r[k] = q[k + 1]
        BY <2>1, <2>2, <3>1
      <3>3. /\ Len(x) = Len(w) + 1 /\ x[Len(w) + 1] = q[1]
            /\ \A i \in 1 .. Len(w) : x[i] = w[i]
        BY <2>2, <3>1
      <3> HIDE DEF x, r
      <3> QED BY <3>1, <3>2, <3>3
    <2> HIDE DEF x, r
    <2>4. Ahead(j) => Ahead(j)'
      <3>1. Ahead(j) => /\ \A i \in 1 .. Len(x) : x[i].ts > task[j].prev_ts
                        /\ \A i \in 1 .. Len(r) : r[i].ts > task[j].prev_ts
        BY <2>3 DEF Ahead
      <3> QED BY <2>1, <2>2, <3>1 DEF Ahead
    <2>5. Accounted(j)'
      <3>1. Accounted(j)
        BY DEF CountInv
      <3> QED BY <2>1, <2>4, <3>1 DEF Accounted, Counting, Connected, Elapsed
    <2> QED BY <1>2, <2>1, <2>2, <2>5
  <1>5. ASSUME NEW j \in Jobs, Begin(j) PROVE CountInv'
    <2> DEFINE u == [task[j] EXCEPT !.pc = "connect", !.started = now,
                                    !.prev_ts = now, !.first = now]
    <2>1. /\ task[j] \in Task /\ task[j].total = 0
      BY <1>0, <1>5 DEF Begin, OneTracker
    <2>2. u.pc = "connect" /\ u.total = 0 /\ u.started = now /\ u.prev_ts = now /\ u.first = now
      BY <2>1 DEF Task
    <2>3. /\ UNCHANGED <<latest, queue, wire>> /\ task' = [task EXCEPT ![j] = u]
      BY <1>5 DEF Begin, hostVars
    <2> HIDE DEF u
    <2>4. task'[j] = u /\ \A i \in Jobs : i # j => task'[i] = task[i]
      BY <1>0, <2>3
    <2>5. Accounted(j)'
      <3>1. 0 >= now - now /\ 0 <= now - now
        BY <1>0, <1>a
      <3> QED BY <2>2, <2>4, <3>1 DEF Accounted, Counting, Connected
    <2> QED BY <1>2, <2>3, <2>4, <2>5
  (* The loop begins, a wait is over, the connection is lost: as before *)
  <1>6. ASSUME NEW j \in Jobs, latest' = latest, NEW u \in Task, u.pc \in {"recv", "close"},
               task'[j] = u,
               \A i \in Jobs : i # j => /\ task'[i] = task[i]
                                        /\ queue'[i] = queue[i] /\ wire'[i] = wire[i],
               ~u.capped => u.total >= u.prev_ts - u.started,
               ~u.timeouts => u.total <= u.prev_ts - u.first,
               ~u.timeouts /\ u.pc = "recv" => u.first = u.prev_ts \/ Ahead(j)'
        PROVE  CountInv'
    <2>1. Accounted(j)'
      BY <1>6 DEF Accounted, Counting, Connected
    <2> QED BY <1>2, <1>6, <2>1
  <1>7. ASSUME NEW j \in Jobs, Connect(j) PROVE CountInv'
    <2>1. /\ task[j] \in Task /\ task[j].total = 0 /\ task[j].first = task[j].prev_ts
          /\ ~task[j].capped => 0 >= task[j].prev_ts - task[j].started
      BY <1>0, <1>7 DEF Connect, CountInv, Accounted, Counting
    <2> DEFINE u == LoopOrLeave(task[j])
    <2>2. /\ u \in Task /\ u.pc \in {"recv", "close"} /\ u.total = 0
          /\ u.prev_ts = task[j].prev_ts /\ u.first = u.prev_ts
          /\ u.started = task[j].started /\ (u.capped <=> task[j].capped)
      BY <2>1, LoopTask
    <2>3. /\ latest' = latest /\ task'[j] = u
          /\ \A i \in Jobs : i # j => /\ task'[i] = task[i]
                                      /\ queue'[i] = queue[i] /\ wire'[i] = wire[i]
      BY <1>0, <1>7 DEF Connect, hostVars
    <2> HIDE DEF u
    <2>4. 0 <= u.prev_ts - u.first
      BY <1>c, <2>2
    <2> QED BY <1>6, <2>1, <2>2, <2>3, <2>4
  <1>8. ASSUME NEW j \in Jobs, Receive(j) PROVE CountInv'
    <2> DEFINE w == wire[j]
               s == Head(w)
               t == task[j]
               a == AddUp(t, s.ts)
               u == LoopOrLeave(Take(t, s))
    <2>1. /\ Connected(j) /\ w # <<>> /\ latest' = latest /\ queue' = queue
          /\ wire' = [wire EXCEPT ![j] = Tail(w)] /\ task' = [task EXCEPT ![j] = u]
      BY <1>8 DEF Receive, hostVars, Connected
    <2>2. /\ wire'[j] = Tail(w) /\ task'[j] = u /\ w \in Seq(Sample) /\ t \in Task
          /\ \A i \in Jobs : i # j => task'[i] = task[i] /\ wire'[i] = wire[i]
      BY <1>0, <2>1
    <2>3. /\ Increasing(w) /\ UpToLatest(w)
          /\ \A i \in 1 .. Len(w), k \in 1 .. Len(queue[j]) : w[i].ts < queue[j][k].ts
      BY <2>1 DEF ComingInv, Coming
    <2>4. /\ ~t.capped => t.total >= t.prev_ts - t.started
          /\ ~t.timeouts => t.total <= t.prev_ts - t.first
          /\ ~t.timeouts => \/ t.first = t.prev_ts
                            \/ \A i \in 1 .. Len(w) : w[i].ts > t.prev_ts
      BY <2>1 DEF CountInv, Accounted, Counting, Connected, Ahead
    <2> HIDE DEF w, t
    <2>5. /\ Len(w) \in Nat \ {0} /\ s = w[1] /\ s \in Sample /\ 1 \in 1 .. Len(w)
      BY <2>1, <2>2
    <2>6. /\ Len(Tail(w)) = Len(w) - 1
          /\ \A k \in 1 .. Len(Tail(w)) :
                k + 1 \in 1 .. Len(w) /\ 1 < k + 1 /\ Tail(w)[k] = w[k + 1]
      BY <2>1, <2>2, <2>5
    <2> HIDE DEF s
    <2>7. s.ts \in Time /\ s.ts \in Nat
      BY <1>b, <2>5
    <2>8. /\ a \in Task /\ a.total = t.total + Count(t, s.ts)
          /\ a.capped <=> t.capped \/ s.ts - t.prev_ts > SegmentCap
      BY <2>2, <2>7, AddUpTask
    <2>9. /\ (~t.capped => t.total >= t.prev_ts - t.started) =>
                (~a.capped => a.total >= s.ts - t.started)
          /\ t.total <= t.prev_ts - t.first /\ s.ts >= t.prev_ts =>
                a.total <= s.ts - t.first
          /\ s.ts < t.prev_ts => a.total = t.total
      BY <2>2, <2>7, SegmentCounts
    <2>10. /\ u \in Task /\ u.pc \in {"recv", "close"}
           /\ u.total = a.total /\ u.prev_ts = s.ts /\ (u.capped <=> a.capped)
           /\ u.first = IF t.first <= s.ts THEN t.first ELSE s.ts
           /\ u.started = t.started /\ u.timeouts = t.timeouts
      <3>1. /\ Take(t, s) \in Task /\ Take(t, s).total = a.total /\ Take(t, s).prev_ts = s.ts
            /\ Take(t, s).capped <=> a.capped
            /\ Take(t, s).first = IF t.first <= s.ts THEN t.first ELSE s.ts
            /\ Take(t, s).started = t.started /\ Take(t, s).timeouts = t.timeouts
        BY <2>2, <2>5, <2>8, TakeTask
      <3> HIDE DEF a
      <3>2. /\ u \in Task /\ u.pc \in {"recv", "close"}
            /\ u.total = Take(t, s).total /\ u.prev_ts = Take(t, s).prev_ts
            /\ u.started = Take(t, s).started /\ u.first = Take(t, s).first
            /\ u.capped = Take(t, s).capped /\ u.timeouts = Take(t, s).timeouts
        BY <3>1, LoopTask
      <3> HIDE DEF u
      <3> QED BY <3>1, <3>2
    <2> HIDE DEF a, u
    <2>11. /\ t.total \in Nat /\ t.prev_ts \in Nat /\ t.first \in Nat /\ t.started \in Nat
      BY <1>c, <2>2
    <2>12. ~u.timeouts => u.total <= u.prev_ts - u.first
      <3>1. SUFFICES ASSUME ~t.timeouts PROVE a.total <= s.ts - u.first
        BY <2>10
      <3>2. CASE s.ts >= t.prev_ts
        <4>1. t.first <= t.prev_ts
          BY <2>4, <2>11, <3>1
        <4> QED BY <2>4, <2>7, <2>9, <2>10, <2>11, <3>1, <3>2, <4>1
      <3>3. CASE s.ts < t.prev_ts
        <4>1. t.first = t.prev_ts
          BY <2>4, <2>5, <2>7, <2>11, <3>1, <3>3
        <4>2. t.total = 0 /\ a.total = 0 /\ u.first = s.ts
          BY <2>4, <2>7, <2>9, <2>10, <2>11, <3>1, <3>3, <4>1
        <4> QED BY <2>7, <4>2
      <3> QED BY <2>7, <2>11, <3>2, <3>3
    <2>13. Ahead(j)'
      <3>1. /\ latest # None /\ s.ts <= latest.ts
        BY <2>3, <2>5 DEF UpToLatest
      <3>2. \A k \in 1 .. Len(Tail(w)) : Tail(w)[k].ts > s.ts
        <4>1. TAKE k \in 1 .. Len(Tail(w))
        <4>2. /\ k + 1 \in 1 .. Len(w) /\ Tail(w)[k] = w[k + 1] /\ w[1].ts < w[k + 1].ts
          BY <2>3, <2>5, <2>6 DEF Increasing
        <4>3. w[k + 1].ts \in Nat
          BY <1>b, <2>2, <4>2
        <4> QED BY <2>5, <2>7, <4>2, <4>3
      <3>3. \A k \in 1 .. Len(queue[j]) : queue[j][k].ts > s.ts
        <4>1. TAKE k \in 1 .. Len(queue[j])
        <4>2. s.ts < queue[j][k].ts
          BY <2>3, <2>5
        <4>3. queue[j][k].ts \in Nat
          BY <1>0, <1>b
        <4> QED BY <2>7, <4>2, <4>3
      <3> QED BY <2>1, <2>2, <2>10, <3>1, <3>2, <3>3 DEF Ahead
    <2>14. ~u.capped => u.total >= u.prev_ts - u.started
      BY <2>4, <2>9, <2>10
    <2> QED BY <1>6, <2>1, <2>2, <2>10, <2>12, <2>13, <2>14
  <1>9. ASSUME NEW j \in Jobs, TimeOut(j) PROVE CountInv'
    <2> DEFINE t == task[j]
               a == AddUp(t, now)
               v == [a EXCEPT !.prev_ts = now, !.timeouts = TRUE]
               u == LoopOrLeave(v)
    <2>1. a \in Task /\ a.started = t.started
      BY <1>0, AddUpTask
    <2>2. /\ v \in Task /\ v.prev_ts = now /\ v.timeouts /\ v.total = a.total
          /\ v.capped = a.capped /\ v.started = t.started
      BY <1>0, <2>1 DEF Task
    <2>3. UNCHANGED <<latest, queue, wire>> /\ task' = [task EXCEPT ![j] = u]
      BY <1>9 DEF TimeOut, hostVars
    <2>4. ~t.capped => t.total >= t.prev_ts - t.started
      BY <1>9 DEF TimeOut, CountInv, Accounted, Counting
    <2>5. ~a.capped => a.total >= now - t.started
      BY <1>0, <2>4, SegmentCounts
    <2> HIDE DEF a, v
    <2>6. /\ u \in Task /\ u.pc \in {"recv", "close"} /\ u.timeouts /\ u.prev_ts = now
          /\ u.total = a.total /\ u.capped = a.capped /\ u.started = t.started
      BY <2>2, LoopTask
    <2> HIDE DEF u, t
    <2>7. task'[j] = u /\ \A i \in Jobs : i # j => task'[i] = task[i]
      BY <1>0, <2>3
    <2> QED BY <1>6, <2>3, <2>5, <2>6, <2>7
  <1>10. ASSUME NEW j \in Jobs, ConnectionFails(j) PROVE CountInv'
    <2> DEFINE t == task[j]
               u == [t EXCEPT !.pc = "close"]
    <2>1. t \in Task
      BY <1>0
    <2>2. /\ u \in Task /\ u.pc = "close" /\ u.total = t.total /\ u.prev_ts = t.prev_ts
          /\ u.first = t.first /\ u.started = t.started /\ u.capped = t.capped
          /\ u.timeouts = t.timeouts
      BY <2>1 DEF Task
    <2>3. UNCHANGED <<latest, queue, wire>> /\ task' = [task EXCEPT ![j] = u]
      BY <1>10 DEF ConnectionFails, hostVars
    <2>4. /\ ~t.capped => t.total >= t.prev_ts - t.started
          /\ ~t.timeouts => t.total <= t.prev_ts - t.first
      BY <1>10 DEF ConnectionFails, CountInv, Accounted, Counting
    <2> HIDE DEF t, u
    <2>5. task'[j] = u /\ \A i \in Jobs : i # j => task'[i] = task[i]
      BY <1>0, <2>3
    <2> QED BY <1>6, <2>2, <2>3, <2>4, <2>5
  <1>11. ASSUME NEW j \in Jobs, End(j) PROVE CountInv'
    <2> DEFINE t == task[j]
               a == AddUp(t, now)
               u == [a EXCEPT !.pc = "done", !.ended = now]
    <2>1. /\ a \in Task /\ a.started = t.started /\ a.first = t.first
          /\ a.timeouts = t.timeouts /\ t \in Task
      BY <1>0, AddUpTask
    <2>2. /\ u.pc = "done" /\ u.ended = now /\ u.total = a.total /\ u.capped = a.capped
          /\ u.started = t.started /\ u.first = t.first /\ u.timeouts = t.timeouts
      BY <2>1 DEF Task
    <2>3. /\ latest' = latest /\ task' = [task EXCEPT ![j] = u]
          /\ \A i \in Jobs : i # j => queue'[i] = queue[i] /\ wire'[i] = wire[i]
      BY <1>0, <1>11 DEF End, hostVars
    <2>4. /\ ~t.capped => t.total >= t.prev_ts - t.started
          /\ ~t.timeouts => t.total <= t.prev_ts - t.first
      BY <1>11 DEF End, CountInv, Accounted, Counting
    <2>5. now >= t.prev_ts
      BY <1>0, <1>a, <1>c DEF ClockInv
    <2>6. /\ ~a.capped => a.total >= now - t.started
          /\ ~t.timeouts => a.total <= now - t.first
      BY <1>0, <2>1, <2>4, <2>5, SegmentCounts
    <2> HIDE DEF a, u, t
    <2>7. task'[j] = u /\ \A i \in Jobs : i # j => task'[i] = task[i]
      BY <1>0, <2>3
    <2>8. Accounted(j)'
      BY <2>2, <2>6, <2>7 DEF Accounted, Counting, Connected, Elapsed
    <2> QED BY <1>2, <2>3, <2>7, <2>8
  <1>12. ASSUME NEW j \in Jobs, StartJob(j) PROVE CountInv'
    <2>1. /\ UNCHANGED <<latest, queue, wire>> /\ task'[j].pc = "created"
          /\ \A i \in Jobs : i # j => task'[i] = task[i]
      BY <1>0, <1>12 DEF StartJob, hostVars, Task
    <2>2. Accounted(j)'
      BY <2>1 DEF Accounted, Counting, Connected
    <2> QED BY <1>2, <2>1, <2>2
  <1>13. CASE InferenceEnds
    <2> DEFINE u == [task[runner.job] EXCEPT !.stop = TRUE]
    <2>1. PICK j \in Jobs : j = runner.job
      BY <1>13 DEF InferenceEnds, OneTracker
    <2>2. /\ u.pc = task[j].pc /\ u.total = task[j].total /\ u.prev_ts = task[j].prev_ts
          /\ u.ended = task[j].ended /\ u.first = task[j].first
          /\ u.started = task[j].started /\ u.capped = task[j].capped
          /\ u.timeouts = task[j].timeouts
      <3>1. task[j] \in Task
        BY <1>0
      <3> QED BY <2>1, <3>1 DEF Task
    <2>3. UNCHANGED <<latest, queue, wire>> /\ task' = [task EXCEPT ![j] = u]
      BY <1>13, <2>1 DEF InferenceEnds, hostVars
    <2> HIDE DEF u
    <2>4. task'[j] = u /\ \A i \in Jobs : i # j => task'[i] = task[i]
      BY <1>0, <2>3
    <2>5. Accounted(j)
      BY DEF CountInv
    <2>6. Accounted(j)'
      BY <2>2, <2>3, <2>4, <2>5 DEF Accounted, Counting, Connected, Elapsed, Ahead
    <2> QED BY <1>2, <2>3, <2>4, <2>6
  <1>14. CASE Tick \/ StartReading \/ FinishPowerTrack \/ UNCHANGED vars
    BY <1>1, <1>14 DEF Tick, StartReading, FinishPowerTrack, vars, hostVars
  <1> QED BY <1>3, <1>4, <1>5, <1>7, <1>8, <1>9, <1>10, <1>11, <1>12, <1>13, <1>14, StepCases

-----------------------------------------------------------------------------
(* The invariant holds in every state of the power host and the trackers.  *)
THEOREM PowerInvariant == Spec => []PowerInv
  <1>1. Init => PowerInv
    <2> SUFFICES ASSUME Init PROVE PowerInv
      OBVIOUS
    <2>0. /\ now = 0 /\ reading = None /\ latest = None
          /\ queue = [j \in Jobs |-> <<>>] /\ wire = [j \in Jobs |-> <<>>]
          /\ task = [j \in Jobs |-> NoTask] /\ active = {}
          /\ runner = [pc |-> "idle", job |-> 0] /\ faults = 0
      BY DEF Init
    <2>1. /\ 0 \in Time /\ FallbackWatts \in Nat /\ MaxFaults \in Nat
          /\ QueueSize \in Nat /\ WireSize \in Nat /\ Jobs \subseteq Nat
      BY PowerAssumption DEF Time
    <2>2. NoTask \in Task /\ NoTask.pc = "new" /\ NoTask.prev_ts = 0
      BY <2>1 DEF NoTask, Task
    <2>3. <<>> \in Seq(Sample) /\ Len(<<>>) = 0
      OBVIOUS
    <2>4. TypeOK
      BY <2>0, <2>1, <2>2, <2>3 DEF TypeOK
    <2>5. OneTracker
      BY <2>0, <2>2 DEF OneTracker, Counting
    <2>6. ClockInv
      BY <2>0, <2>2 DEF ClockInv
    <2>7. ComingInv
      BY <2>0, <2>2 DEF ComingInv, Connected
    <2>8. CountInv
      BY <2>0, <2>2 DEF CountInv, Accounted, Counting, Connected
    <2> QED BY <2>4, <2>5, <2>6, <2>7, <2>8 DEF PowerInv
  <1>2. PowerInv /\ [Next]_vars => PowerInv'
    BY TypeStep, TrackerStep, ClockStep, ComingStep, CountStep DEF PowerInv
  <1> QED BY <1>1, <1>2, PTL DEF Spec

(* The state of the power host, its connections and the trackers is as the *)
(* type invariant says; queue and connection never exceed their sizes      *)
(* (LocalPowerApi._loop, TaskPowerAttributor.track).                       *)
THEOREM PowerTypes == Spec => []TypeOK
  <1>1. PowerInv => TypeOK
    BY DEF PowerInv
  <1> QED BY <1>1, PowerInvariant, PTL

(* What a subscriber has still to receive is in the order it was measured  *)
(* and ends with the latest sample, however many were dropped              *)
(* (LocalPowerApi._loop).                                                  *)
THEOREM SamplesStayInOrder == Spec => []SamplesInOrder
  <1>1. PowerInv => SamplesInOrder
    <2> SUFFICES ASSUME PowerInv, NEW j \in Jobs, Connected(j)
                 PROVE  LET coming == wire[j] \o queue[j] IN
                        /\ \A i, k \in DOMAIN coming : i < k => coming[i].ts < coming[k].ts
                        /\ queue[j] # <<>> => Last(queue[j]) = latest
      BY DEF SamplesInOrder
    <2> DEFINE w == wire[j]
               q == queue[j]
               c == w \o q
    <2>1. w \in Seq(Sample) /\ q \in Seq(Sample)
      BY DEF PowerInv, TypeOK
    <2>2. /\ Increasing(w) /\ Increasing(q)
          /\ \A i \in 1 .. Len(w), k \in 1 .. Len(q) : w[i].ts < q[k].ts
          /\ q # <<>> => q[Len(q)] = latest
      BY DEF PowerInv, ComingInv, Coming
    <2> HIDE DEF w, q
    <2>3. /\ Len(w) \in Nat /\ Len(q) \in Nat /\ DOMAIN c = 1 .. Len(w) + Len(q)
          /\ \A i \in 1 .. Len(w) : c[i] = w[i]
          /\ \A i \in Len(w) + 1 .. Len(w) + Len(q) : c[i] = q[i - Len(w)]
      BY <2>1
    <2> HIDE DEF c
    <2>4. ASSUME NEW i \in DOMAIN c, NEW k \in DOMAIN c, i < k
          PROVE  c[i].ts < c[k].ts
      <3>1. CASE k \in 1 .. Len(w)
        <4>1. i \in 1 .. Len(w)
          BY <2>3, <2>4, <3>1
        <4> QED BY <2>2, <2>3, <2>4, <3>1, <4>1 DEF Increasing
      <3>2. CASE i \in 1 .. Len(w) /\ k \notin 1 .. Len(w)
        <4>1. k \in Len(w) + 1 .. Len(w) + Len(q) /\ k - Len(w) \in 1 .. Len(q)
          BY <2>3, <3>2
        <4> QED BY <2>2, <2>3, <3>2, <4>1
      <3>3. CASE i \notin 1 .. Len(w)
        <4>1. /\ i \in Len(w) + 1 .. Len(w) + Len(q) /\ i - Len(w) \in 1 .. Len(q)
              /\ k \in Len(w) + 1 .. Len(w) + Len(q) /\ k - Len(w) \in 1 .. Len(q)
              /\ i - Len(w) < k - Len(w)
          BY <2>3, <2>4, <3>3
        <4> QED BY <2>2, <2>3, <4>1 DEF Increasing
      <3> QED BY <3>1, <3>2, <3>3
    <2>5. q # <<>> => Last(q) = latest
      BY <2>2 DEF Last
    <2> QED BY <2>4, <2>5 DEF c, w, q
  <1> QED BY <1>1, PowerInvariant, PTL

(* Whatever samples are late, dropped or missing, a finished task has been *)
(* charged for all of its time, unless a segment was cut (track).          *)
THEOREM NoTimeIsLost == Spec => []NoTimeLost
  <1>1. PowerInv => NoTimeLost
    BY DEF PowerInv, CountInv, Accounted, NoTimeLost
  <1> QED BY <1>1, PowerInvariant, PTL

(* Without timeouts a finished task has been charged for no more than the  *)
(* time since the first sample of its subscription (track).                *)
THEOREM TimeIsCountedOnce == Spec => []CountedOnce
  <1>1. PowerInv => CountedOnce
    BY DEF PowerInv, CountInv, Accounted, CountedOnce
  <1> QED BY <1>1, PowerInvariant, PTL

(* The trackers of two jobs never share the power of the machine: a worker *)
(* runs one at a time (_finish_power_track, ActiveTaskRegistry).           *)
THEOREM PowerIsNeverShared == Spec => []NeverShared
  <1>1. PowerInv => NeverShared
    <2> SUFFICES ASSUME PowerInv PROVE Cardinality(active) <= 1
      BY DEF NeverShared
    <2>1. active \subseteq {runner.job}
      BY DEF PowerInv, OneTracker
    <2>2. IsFiniteSet({runner.job}) /\ Cardinality({runner.job}) = 1
      BY FS_Singleton
    <2>3. Cardinality(active) <= Cardinality({runner.job})
      BY <2>1, <2>2, FS_Subset
    <2> QED BY <2>2, <2>3
  <1> QED BY <1>1, PowerInvariant, PTL

=============================================================================
