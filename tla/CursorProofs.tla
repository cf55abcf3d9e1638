----------------------------- MODULE CursorProofs -----------------------------
(***************************************************************************)
(* Proof that the cursor of a neighbour never passes a row the neighbour   *)
(* has not handled, for any number of servers, batch sizes, cycles, lost   *)
(* calls and restarts, as long as no two writers of a table have raced.    *)
(***************************************************************************)
EXTENDS ClusterProofs

(* Every row of n up to the version top has been handled by u, or is one   *)
(* of those that are on their way to u.                                    *)
Covered(n, u, top, more) ==
    \A w \in Known(n) : rows[n][w].sv <= top => rows[n][w].sv \in told[n][u] \cup more

CursorCovered(n) ==
    \A u \in Node, k \in IdKinds :
        /\ cursor[n][u][k] <= MaxStateVersion(n)
        /\ Covered(n, u, cursor[n][u][k], {})

(* The cursor is moved to the max of a post only after the handler of this *)
(* very post has replied: what the post carried has then been handled.     *)
PostCovered(n) ==
    LET j == job[n]
        h == handler[j.at.url][n]
    IN  /\ j.pc \in {"wait", "apply"} => j.max <= MaxStateVersion(n)
        /\ j.pc = "wait" /\ h.pc = "apply" => Covered(n, j.at.url, j.max, h.svs)
        /\ j.pc = "wait" /\ h.pc = "reply" => Covered(n, j.at.url, j.max, {})
        /\ j.pc = "apply" => Covered(n, j.at.url, j.max, {})

SkipInv == ~raced => \A n \in Node : CursorCovered(n) /\ PostCovered(n)

-----------------------------------------------------------------------------
(* Versions                                                                *)

BelowMax ==
    \A n \in Node :
        /\ MaxStateVersion(n) \in Nat
        /\ \A u \in Known(n) : rows[n][u].sv \in Nat /\ rows[n][u].sv <= MaxStateVersion(n)

LEMMA VersionsBelowMax == ServersTypeOK => BelowMax
  BY StateVersions DEF BelowMax

LEMMA VersionsBelowMaxNext == ServersTypeOK' => BelowMax'
  BY VersionsBelowMax, PTL

(* What a step may do to a table without passing over a row: no version in *)
(* use falls, and a row that is written gets a version above all others.   *)
TablesKept ==
    ~raced' => /\ ~raced /\ cursor' = cursor
               /\ \A n \in Node :
                    /\ MaxStateVersion(n) \in Nat /\ MaxStateVersion(n)' \in Nat
                    /\ MaxStateVersion(n) <= MaxStateVersion(n)'
                    /\ \A u \in Node, top \in Nat, more \in SUBSET Nat :
                         top <= MaxStateVersion(n) /\ Covered(n, u, top, more)
                           => Covered(n, u, top, more)'

LEMMA TablesStay ==
    ASSUME ServersTypeOK, UNCHANGED tableVars,
           \A n, u \in Node : told[n][u] \subseteq told'[n][u]
    PROVE  TablesKept
  <1>1. UNCHANGED <<rows, cursor, raced>>
    BY DEF tableVars
  <1>2. \A n \in Node : MaxStateVersion(n)' = MaxStateVersion(n) /\ Known(n)' = Known(n)
    BY <1>1 DEF MaxStateVersion, Known
  <1>3. \A n, u \in Node, top \in Nat, more \in SUBSET Nat :
          Covered(n, u, top, more) => Covered(n, u, top, more)'
    BY <1>1, <1>2 DEF Covered
  <1> QED BY <1>1, <1>2, <1>3, MaxStateVersionNat DEF TablesKept

LEMMA TablesCommit ==
    ASSUME ClusterInv, ServersTypeOK', NEW n \in Node, NEW pen \in Pens, pen # NoRow,
           PenInv(n, pen), ~Conflicts(n, pen), CommitWithin(n, pen), UNCHANGED <<told, cycles>>
    PROVE  TablesKept
  <1> DEFINE u == pen.url
             cur == rows[n][u]
             F == Flushed(pen, cur)
  <1>0. ServersTypeOK
    BY DEF ClusterInv
  <1>b. BelowMax /\ BelowMax'
    BY <1>0, VersionsBelowMax, VersionsBelowMaxNext
  <1> SUFFICES ASSUME ~raced'
               PROVE  /\ ~raced /\ cursor' = cursor
                      /\ \A i \in Node :
                           /\ MaxStateVersion(i) <= MaxStateVersion(i)'
                           /\ \A w \in Node, top \in Nat, more \in SUBSET Nat :
                                top <= MaxStateVersion(i) /\ Covered(i, w, top, more)
                                  => Covered(i, w, top, more)'
    BY <1>b DEF TablesKept, BelowMax
  <1>1. /\ u \in Node /\ pen.old \in Columns \cup {NoRow} /\ pen.new \in Columns
        /\ rows \in [Node -> [Node -> Columns \cup {NoRow}]]
    BY <1>0 DEF Pens, ServersTypeOK
  <1>2. PICK v \in NextStateVersions(n, pen) :
           /\ rows' = [rows EXCEPT ![n][u] = [F EXCEPT !.sv = v]]
           /\ raced' = (raced \/ cur # pen.old \/ v <= MaxStateVersion(n))
           /\ UNCHANGED cursor
    BY DEF CommitWithin, Commit
  <1>3. ~raced /\ cur = pen.old /\ ~(v <= MaxStateVersion(n))
    BY <1>2
  <1>4. F \in Columns
    <2>1. CASE pen.old = NoRow
      BY <1>1, <2>1 DEF Flushed
    <2>2. CASE pen.old # NoRow
      BY <1>1, <1>3, <2>2, FlushedOver
    <2> QED BY <2>1, <2>2
  <1>5. rows'[n][u] = [F EXCEPT !.sv = v] /\ [F EXCEPT !.sv = v].sv = v
    BY <1>1, <1>2, <1>4 DEF Columns
  <1>6. \A i, w \in Node : ~(i = n /\ w = u) => rows'[i][w] = rows[i][w]
    BY <1>1, <1>2
  <1>7. rows'[n][u] # NoRow /\ rows'[n][u].sv = v /\ v \in Nat
    <2>1. rows'[n][u] # NoRow
      BY <1>0, CommitEffect DEF ClusterInv, CommitWithin
    <2>2. rows'[n][u] \in Columns
      BY <1>1, <2>1 DEF ServersTypeOK
    <2> QED BY <1>5, <2>1, <2>2 DEF Columns
  <1> HIDE DEF u, cur, F
  <1>8. /\ \A i \in Node : Known(i) \subseteq Known(i)'
        /\ \A i \in Node : \A w \in Known(i)' : w \in Known(i) \/ (i = n /\ w = u)
        /\ u \in Known(n)'
    BY <1>1, <1>6, <1>7 DEF Known
  <1>9. ASSUME NEW i \in Node PROVE MaxStateVersion(i) <= MaxStateVersion(i)'
    <2>1. CASE i = n
      <3>1. v <= MaxStateVersion(n)' /\ MaxStateVersion(n)' \in Nat /\ MaxStateVersion(n) \in Nat
        BY <1>b, <1>7, <1>8 DEF BelowMax
      <3> QED BY <1>3, <1>7, <2>1, <3>1
    <2>2. CASE i # n
      <3>1. Known(i)' = Known(i) /\ \A w \in Known(i) : rows'[i][w] = rows[i][w]
        BY <1>6, <1>8, <2>2 DEF Known
      <3>2. MaxStateVersion(i)' = MaxStateVersion(i) /\ MaxStateVersion(i) \in Nat
        BY <3>1, <1>b DEF MaxStateVersion, BelowMax
      <3> QED BY <3>2
    <2> QED BY <2>1, <2>2
  <1>10. ASSUME NEW i \in Node, NEW w \in Node, NEW top \in Nat, NEW more \in SUBSET Nat,
                top <= MaxStateVersion(i), Covered(i, w, top, more)
         PROVE  Covered(i, w, top, more)'
    <2> SUFFICES ASSUME NEW x \in Known(i)', rows'[i][x].sv <= top
                 PROVE  rows'[i][x].sv \in told[i][w] \cup more
      BY DEF Covered
    <2>1. CASE i = n /\ x = u
      <3>1. MaxStateVersion(n) \in Nat
        BY <1>b DEF BelowMax
      <3> QED BY <1>3, <1>7, <1>10, <2>1, <3>1
    <2>2. CASE ~(i = n /\ x = u)
      <3>1. x \in Node
        BY DEF Known
      <3> QED BY <1>6, <1>8, <1>10, <2>2, <3>1 DEF Covered
    <2> QED BY <2>1, <2>2
  <1> QED BY <1>2, <1>3, <1>9, <1>10

-----------------------------------------------------------------------------
(* What a step that moves no cursor has to show                            *)

(* The post of n and its handler are where they were, or the handler is    *)
(* done with it without a reply.                                           *)
PostKept(n) ==
    /\ job'[n].pc = job[n].pc /\ job'[n].at = job[n].at /\ job'[n].max = job[n].max
    /\ LET h == handler[job[n].at.url][n]
           g == handler'[job[n].at.url][n]
       IN  \/ job[n].pc # "wait"
           \/ g.pc \notin {"apply", "reply"}
           \/ g.pc = h.pc /\ g.svs = h.svs

LEMMA SkipKeep ==
    ASSUME ClusterInv, SkipInv, TablesKept,
           \A n \in Node : \/ job'[n].pc \notin {"wait", "apply"}
                           \/ PostKept(n)
                           \/ ~raced' => PostCovered(n)'
    PROVE  SkipInv'
  <1> SUFFICES ASSUME ~raced', NEW n \in Node PROVE (CursorCovered(n) /\ PostCovered(n))'
    BY DEF SkipInv
  <1>1. /\ ~raced /\ cursor' = cursor
        /\ MaxStateVersion(n) \in Nat /\ MaxStateVersion(n)' \in Nat
        /\ MaxStateVersion(n) <= MaxStateVersion(n)'
        /\ \A u \in Node, top \in Nat, more \in SUBSET Nat :
             top <= MaxStateVersion(n) /\ Covered(n, u, top, more) => Covered(n, u, top, more)'
    BY DEF TablesKept
  <1>2. CursorCovered(n) /\ PostCovered(n)
    BY <1>1 DEF SkipInv
  <1>3. CursorCovered(n)'
    <2> SUFFICES ASSUME NEW u \in Node, NEW k \in IdKinds
                 PROVE  /\ cursor[n][u][k] <= MaxStateVersion(n)'
                        /\ Covered(n, u, cursor[n][u][k], {})'
      BY <1>1 DEF CursorCovered, Covered
    <2>1. cursor[n][u][k] \in Nat
      BY DEF ClusterInv, ServersTypeOK
    <2>2. cursor[n][u][k] <= MaxStateVersion(n) /\ Covered(n, u, cursor[n][u][k], {})
      BY <1>2 DEF CursorCovered
    <2>3. Covered(n, u, cursor[n][u][k], {})'
      BY <1>1, <2>1, <2>2 DEF Covered
    <2> QED BY <1>1, <2>1, <2>2, <2>3
  <1>4. PostCovered(n)'
    <2>1. CASE job'[n].pc \notin {"wait", "apply"}
      BY <2>1 DEF PostCovered
    <2>2. CASE PostKept(n) /\ job'[n].pc \in {"wait", "apply"}
      <3>0. /\ job[n].pc \in {"wait", "apply"} /\ job[n].at \in Targets
            /\ job[n].at.url \in Node
        BY <2>2 DEF PostKept, ClusterInv, JobInv, Targets
      <3>1. PICK u \in Node : u = job[n].at.url
        BY <3>0
      <3>2. PICK top \in Nat : top = job[n].max
        BY DEF ClusterInv, ServersTypeOK, JobState
      <3>3. PICK svs \in SUBSET Nat : svs = handler[u][n].svs
        BY DEF ClusterInv, ServersTypeOK, HandlerState
      <3>4. /\ top <= MaxStateVersion(n)
            /\ job[n].pc = "wait" /\ handler[u][n].pc = "apply" => Covered(n, u, top, svs)
            /\ job[n].pc = "wait" /\ handler[u][n].pc = "reply" => Covered(n, u, top, {})
            /\ job[n].pc = "apply" => Covered(n, u, top, {})
        BY <1>2, <3>0, <3>1, <3>2, <3>3 DEF PostCovered
      <3>5. /\ top <= MaxStateVersion(n)'
            /\ Covered(n, u, top, svs) => Covered(n, u, top, svs)'
            /\ Covered(n, u, top, {}) => Covered(n, u, top, {})'
        <4>1. top <= MaxStateVersion(n)'
          BY <1>1, <3>4
        <4>2. \A more \in SUBSET Nat : Covered(n, u, top, more) => Covered(n, u, top, more)'
          BY <1>1, <3>4
        <4> QED BY <4>1, <4>2
      <3>6. /\ job'[n].pc = job[n].pc /\ job'[n].at.url = u /\ job'[n].max = top
            /\ \/ job[n].pc # "wait"
               \/ handler'[u][n].pc \notin {"apply", "reply"}
               \/ handler'[u][n].pc = handler[u][n].pc /\ handler'[u][n].svs = svs
        BY <2>2, <3>1, <3>2, <3>3 DEF PostKept
      <3> QED BY <3>4, <3>5, <3>6 DEF PostCovered
    <2> QED BY <2>1, <2>2
  <1> QED BY <1>3, <1>4

(* A job alone moves ...                                                   *)
LEMMA JobSkips ==
    ASSUME ClusterInv, SkipInv, TablesKept, NEW n \in Node, NEW j,
           job' = [job EXCEPT ![n] = j], UNCHANGED handler,
           \/ j.pc \notin {"wait", "apply"}
           \/ j.pc = job[n].pc /\ j.at = job[n].at /\ j.max = job[n].max
    PROVE  SkipInv'
  <1>1. job'[n] = j /\ \A i \in Node \ {n} : job'[i] = job[i]
    BY DEF ClusterInv, ServersTypeOK
  <1>2. \A i \in Node : job'[i].pc \notin {"wait", "apply"} \/ PostKept(i)
    BY <1>1 DEF PostKept
  <1> QED BY <1>2, SkipKeep

(* ... or a handler alone, without a reply.                                *)
LEMMA HandlerSkips ==
    ASSUME ClusterInv, SkipInv, TablesKept, NEW n \in Node, NEW m \in Node, NEW h,
           handler' = [handler EXCEPT ![n][m] = h], UNCHANGED job,
           \/ h.pc \notin {"apply", "reply"}
           \/ h.pc = handler[n][m].pc /\ h.svs = handler[n][m].svs
    PROVE  SkipInv'
  <1>1. /\ handler'[n][m] = h
        /\ \A i, k \in Node : ~(i = n /\ k = m) => handler'[i][k] = handler[i][k]
    BY DEF ClusterInv, ServersTypeOK
  <1>2. \A i \in Node : job[i].pc = "wait" => job[i].at.url \in Node
    BY DEF ClusterInv, JobInv, Targets
  <1>3. \A i \in Node : PostKept(i)
    BY <1>1, <1>2 DEF PostKept
  <1> QED BY <1>3, SkipKeep

-----------------------------------------------------------------------------
(* A post                                                                  *)

(* A batch leaves out no row between the cursor and its highest version.   *)
LEMMA BatchCovers ==
    ASSUME ClusterInv, NEW n \in Node, NEW u \in Node, NEW since \in Nat,
           since <= MaxStateVersion(n), Covered(n, u, since, {}),
           NEW batch \in Batches(n, since, DeltaBatch)
    PROVE  /\ MaxSent(n, since, batch) \in Nat /\ Versions(n, batch) \in SUBSET Nat
           /\ MaxSent(n, since, batch) <= MaxStateVersion(n)
           /\ Covered(n, u, MaxSent(n, since, batch), Versions(n, batch))
  <1> DEFINE newer == {w \in Known(n) : rows[n][w].sv > since}
             V == Versions(n, batch)
             top == MaxSent(n, since, batch)
  <1>0. ServersTypeOK /\ RowsInv
    BY DEF ClusterInv
  <1>1. V \in SUBSET Nat /\ IsFiniteSet(V) /\ top \in Nat
    BY <1>0, BatchEntries
  <1>2. top \in {since} \cup V /\ \A y \in {since} \cup V : top >= y
    <2>1. {since} \cup V = V \cup {since}
      OBVIOUS
    <2>2. {since} \cup V \in SUBSET Nat /\ {since} \cup V # {} /\ IsFiniteSet({since} \cup V)
      BY <1>1, <2>1, FS_AddElement
    <2>3. top = Max({since} \cup V)
      BY DEF MaxSent
    <2> HIDE DEF top, V
    <2> QED BY <2>2, <2>3, MaxOfNaturals
  <1>3. /\ \A i \in DOMAIN batch : batch[i] \in newer
        /\ \A i \in DOMAIN batch, w \in newer \ Range(batch) :
             rows[n][batch[i]].sv <= rows[n][w].sv
    BY DEF Batches
  <1>4. /\ \A i \in DOMAIN batch : rows[n][batch[i]].sv \in V
        /\ \A y \in V : \E i \in DOMAIN batch : y = rows[n][batch[i]].sv
    BY DEF Versions
  <1>5. /\ MaxStateVersion(n) \in Nat
        /\ \A w \in Known(n) : rows[n][w].sv \in Nat /\ rows[n][w].sv <= MaxStateVersion(n)
    BY <1>0, StateVersions
  <1> HIDE DEF V, top
  <1>6. top <= MaxStateVersion(n)
    BY <1>2, <1>3, <1>4, <1>5
  <1>7. ASSUME NEW w \in Known(n), rows[n][w].sv <= top
        PROVE  rows[n][w].sv \in told[n][u] \cup V
    <2>1. CASE rows[n][w].sv <= since
      BY <2>1 DEF Covered
    <2>2. CASE w \in newer /\ w \in Range(batch)
      BY <1>4, <2>2 DEF Range
    <2>3. CASE w \in newer /\ w \notin Range(batch)
      <3>1. top \in V
        BY <1>2, <1>5, <1>7, <2>3
      <3>2. PICK i \in DOMAIN batch : top = rows[n][batch[i]].sv
        BY <1>4, <3>1
      <3>3. top <= rows[n][w].sv
        BY <1>3, <2>3, <3>2
      <3> QED BY <1>1, <1>5, <1>7, <3>1, <3>3
    <2> QED BY <1>5, <2>1, <2>2, <2>3
  <1> QED BY <1>1, <1>6, <1>7 DEF Covered, V, top

-----------------------------------------------------------------------------
(* One lemma for each part of the next-state relation                      *)

(* The tables stay and a job moves ...                                     *)
LEMMA JobStill ==
    ASSUME ClusterInv, SkipInv, NEW n \in Node, NEW j, job' = [job EXCEPT ![n] = j],
           UNCHANGED <<tableVars, handler, told>>,
           \/ j.pc \notin {"wait", "apply"}
           \/ j.pc = job[n].pc /\ j.at = job[n].at /\ j.max = job[n].max
    PROVE  SkipInv'
  <1>1. TablesKept
    BY TablesStay DEF ClusterInv
  <1> QED BY <1>1, JobSkips

LEMMA JobCommitSkips ==
    ASSUME ClusterInv, ServersTypeOK', SkipInv, NEW n \in Node, NEW pc, NEW j, CommitJob(n, pc, j),
           \/ j.pc \notin {"wait", "apply"}
           \/ j.pc = job[n].pc /\ j.at = job[n].at /\ j.max = job[n].max
    PROVE  SkipInv'
  <1> DEFINE pen == job[n].pen
  <1>1. /\ pen # NoRow /\ ~Conflicts(n, pen) /\ CommitWithin(n, pen)
        /\ job' = [job EXCEPT ![n] = j] /\ UNCHANGED <<handler, told, cycles>>
    BY DEF CommitJob
  <1>2. pen \in Pens /\ PenInv(n, pen)
    BY <1>1, JobFacts DEF GoodJob
  <1> HIDE DEF pen
  <1>3. TablesKept
    BY <1>1, <1>2, TablesCommit
  <1> QED BY <1>1, <1>3, JobSkips

LEMMA MarkLeaves ==
    ASSUME ClusterInv, NEW n \in Node, NEW t, NEW alive, NEW pc, NEW skip
    PROVE  Mark(n, t, alive, pc, skip).pc \in {pc, skip}
  BY JobFacts DEF Mark, JobState

LEMMA StartSkips ==
    ASSUME ClusterInv, SkipInv, NEW n \in Node, NEW models, StartCycle(n, models)
    PROVE  SkipInv'
  <1> DEFINE j == [Idle EXCEPT !.pc = "self", !.pen = EnsureSelfNode(n, models)]
  <1>1. job' = [job EXCEPT ![n] = j] /\ UNCHANGED <<tableVars, handler, told>>
    BY DEF StartCycle
  <1>2. j.pc = "self"
    BY DEF Idle
  <1> HIDE DEF j
  <1> QED BY <1>1, <1>2, JobStill

(* The post goes out: what it carries, and what was handled before, are    *)
(* all the rows up to its max.                                             *)
LEMMA PostSkips ==
    ASSUME ClusterInv, SkipInv, NEW n \in Node, NEW t \in Targets, Post(n, t)
    PROVE  SkipInv'
  <1> DEFINE u == t.url
             since == cursor[n][u][t.id]
  <1>1. UNCHANGED <<tableVars, told>> /\ UNCHANGED <<rows, cursor, raced>>
    BY DEF Post, tableVars
  <1>2. PICK batch \in Batches(n, since, DeltaBatch) :
          /\ handler' = [handler EXCEPT ![u][n] =
               [pc |-> "apply", pen |-> NoRow, since |-> since,
                queue |-> <<SenderEntry(n)>> \o ToWire(n, batch), svs |-> Versions(n, batch)]]
          /\ job' = [job EXCEPT ![n] = [@ EXCEPT !.pc = "wait", !.at = t,
                                                 !.max = MaxSent(n, since, batch)]]
    BY DEF Post
  <1>3. /\ u \in Node /\ t.id \in IdKinds /\ since \in Nat
        /\ job \in [Node -> JobState] /\ handler \in [Node -> [Node -> HandlerState]]
    <2>1. u \in Node /\ t.id \in IdKinds
      BY DEF Targets
    <2>2. /\ cursor \in [Node -> [Node -> [IdKinds -> Nat]]]
          /\ job \in [Node -> JobState] /\ handler \in [Node -> [Node -> HandlerState]]
      BY DEF ClusterInv, ServersTypeOK
    <2> QED BY <2>1, <2>2
  <1>4. TablesKept
    BY <1>1, TablesStay DEF ClusterInv
  <1>5. /\ job'[n].pc = "wait" /\ job'[n].at = t /\ job'[n].max = MaxSent(n, since, batch)
        /\ \A i \in Node \ {n} : job'[i] = job[i]
    <2> DEFINE j == [job[n] EXCEPT !.pc = "wait", !.at = t, !.max = MaxSent(n, since, batch)]
    <2>1. j.pc = "wait" /\ j.at = t /\ j.max = MaxSent(n, since, batch)
      BY <1>3 DEF JobState
    <2>2. job' = [job EXCEPT ![n] = j]
      BY <1>2
    <2> HIDE DEF j
    <2> QED BY <1>3, <2>1, <2>2
  <1>6. /\ handler'[u][n].pc = "apply" /\ handler'[u][n].svs = Versions(n, batch)
        /\ \A i \in Node, k \in Node \ {n} : handler'[i][k] = handler[i][k]
    BY <1>2, <1>3
  <1> HIDE DEF u
  <1>7. \A i \in Node \ {n} : PostKept(i)
    <2> SUFFICES ASSUME NEW i \in Node \ {n} PROVE PostKept(i)
      OBVIOUS
    <2>1. job[i].pc = "wait" => job[i].at.url \in Node
      BY DEF ClusterInv, JobInv, Targets
    <2> QED BY <1>5, <1>6, <2>1 DEF PostKept
  <1>8. ~raced' => PostCovered(n)'
    <2> SUFFICES ASSUME ~raced PROVE PostCovered(n)'
      BY <1>1
    <2>1. since <= MaxStateVersion(n) /\ Covered(n, u, since, {})
      BY <1>3 DEF SkipInv, CursorCovered
    <2> HIDE DEF since
    <2>2. PICK top \in Nat, svs \in SUBSET Nat :
            /\ top = MaxSent(n, since, batch) /\ svs = Versions(n, batch)
            /\ top <= MaxStateVersion(n) /\ Covered(n, u, top, svs)
      BY <1>3, <2>1, BatchCovers
    <2>3. top <= MaxStateVersion(n)' /\ Covered(n, u, top, svs)'
      BY <1>1, <2>2 DEF MaxStateVersion, Covered, Known
    <2>4. job'[n].max = top /\ handler'[u][n].svs = svs /\ job'[n].at.url = u
      BY <1>5, <1>6, <2>2 DEF u
    <2> QED BY <1>5, <1>6, <2>3, <2>4 DEF PostCovered
  <1> QED BY <1>4, <1>7, <1>8, SkipKeep

(* The answer is here: the handler has handled what the post carried.      *)
LEMMA AnsweredSkips ==
    ASSUME ClusterInv, SkipInv, NEW n \in Node, Answered(n)
    PROVE  SkipInv'
  <1> DEFINE u == job[n].at.url
  <1>1. /\ job[n].pc = "wait" /\ handler[u][n].pc = "reply"
        /\ job' = [job EXCEPT ![n] = [@ EXCEPT !.pc = "apply", !.queue = handler[u][n].queue]]
        /\ handler' = [handler EXCEPT ![u][n] = Quiet]
        /\ UNCHANGED <<tableVars, told>> /\ UNCHANGED <<rows, cursor, raced>>
    BY DEF Answered, tableVars
  <1>2. /\ u \in Node /\ job[n].max \in Nat
        /\ job \in [Node -> JobState] /\ handler \in [Node -> [Node -> HandlerState]]
    BY <1>1, JobFacts DEF GoodJob, Targets, ServersTypeOK
  <1>3. TablesKept
    BY <1>1, TablesStay DEF ClusterInv
  <1>4. /\ job'[n].pc = "apply" /\ job'[n].at = job[n].at /\ job'[n].max = job[n].max
        /\ \A i \in Node \ {n} : job'[i] = job[i]
    <2> DEFINE j == [job[n] EXCEPT !.pc = "apply", !.queue = handler[u][n].queue]
    <2>1. j.pc = "apply" /\ j.at = job[n].at /\ j.max = job[n].max
      BY <1>2 DEF JobState
    <2>2. job' = [job EXCEPT ![n] = j]
      BY <1>1
    <2> HIDE DEF j
    <2> QED BY <1>2, <2>1, <2>2
  <1>5. \A i \in Node, k \in Node \ {n} : handler'[i][k] = handler[i][k]
    BY <1>1, <1>2
  <1>6. \A i \in Node \ {n} : PostKept(i)
    <2> SUFFICES ASSUME NEW i \in Node \ {n} PROVE PostKept(i)
      OBVIOUS
    <2>1. job[i].pc = "wait" => job[i].at.url \in Node
      BY DEF ClusterInv, JobInv, Targets
    <2> QED BY <1>4, <1>5, <2>1 DEF PostKept
  <1>7. ~raced' => PostCovered(n)'
    <2> SUFFICES ASSUME ~raced PROVE PostCovered(n)'
      BY <1>1
    <2>1. PICK w \in Node, top \in Nat : w = u /\ top = job[n].max
      BY <1>2
    <2>2. top <= MaxStateVersion(n) /\ Covered(n, w, top, {})
      BY <1>1, <2>1 DEF SkipInv, PostCovered
    <2>3. top <= MaxStateVersion(n)' /\ Covered(n, w, top, {})'
      BY <1>1, <2>2 DEF MaxStateVersion, Covered, Known
    <2>4. job'[n].max = top /\ job'[n].at.url = w
      BY <1>4, <2>1
    <2> QED BY <1>4, <2>3, <2>4 DEF PostCovered
  <1> QED BY <1>3, <1>6, <1>7, SkipKeep

(* The post has failed: the cursor stays.                                  *)
LEMMA AnsweredErrorSkips ==
    ASSUME ClusterInv, SkipInv, NEW n \in Node, AnsweredError(n)
    PROVE  SkipInv'
  <1> DEFINE u == job[n].at.url
             j == Mark(n, job[n].at, FALSE, "offline", "gossip")
  <1>1. /\ job[n].pc = "wait" /\ job' = [job EXCEPT ![n] = j]
        /\ handler' = [handler EXCEPT ![u][n] = Quiet]
        /\ UNCHANGED <<tableVars, told>>
    BY DEF AnsweredError
  <1>2. /\ u \in Node
        /\ job \in [Node -> JobState] /\ handler \in [Node -> [Node -> HandlerState]]
    BY <1>1, JobFacts DEF GoodJob, Targets, ServersTypeOK
  <1>3. TablesKept
    BY <1>1, TablesStay DEF ClusterInv
  <1>4. j.pc \notin {"wait", "apply"}
    <2>1. j.pc \in {"offline", "gossip"}
      BY MarkLeaves
    <2> HIDE DEF j
    <2> QED BY <2>1
  <1> HIDE DEF j
  <1>5. job'[n].pc \notin {"wait", "apply"} /\ \A i \in Node \ {n} : job'[i] = job[i]
    BY <1>1, <1>2, <1>4
  <1>6. \A i \in Node, k \in Node \ {n} : handler'[i][k] = handler[i][k]
    BY <1>1, <1>2
  <1>7. \A i \in Node \ {n} : PostKept(i)
    <2> SUFFICES ASSUME NEW i \in Node \ {n} PROVE PostKept(i)
      OBVIOUS
    <2>1. job[i].pc = "wait" => job[i].at.url \in Node
      BY DEF ClusterInv, JobInv, Targets
    <2> QED BY <1>5, <1>6, <2>1 DEF PostKept
  <1> QED BY <1>3, <1>5, <1>7, SkipKeep

(* The cursor moves, to the max of a post that has been handled.           *)
LEMMA AdvanceSkips ==
    ASSUME ClusterInv, SkipInv, NEW n \in Node, AdvanceCursor(n)
    PROVE  SkipInv'
  <1> DEFINE t == job[n].at
             v == job[n].max
             j == [job[n] EXCEPT !.pc = "gossip", !.todo = @ \ {t}, !.at = NoRow, !.max = 0]
  <1>1. /\ job[n].pc = "apply" /\ job' = [job EXCEPT ![n] = j]
        /\ cursor' = [cursor EXCEPT ![n][t.url][t.id] = v]
        /\ UNCHANGED <<rows, raced, handler, told>>
    BY DEF AdvanceCursor, UpsertNeighborSync
  <1>2. /\ t.url \in Node /\ t.id \in IdKinds /\ v \in Nat
        /\ job \in [Node -> JobState] /\ cursor \in [Node -> [Node -> [IdKinds -> Nat]]]
    BY <1>1, JobFacts DEF GoodJob, Targets, ServersTypeOK
  <1>3. j.pc = "gossip"
    BY <1>2 DEF JobState
  <1> HIDE DEF j
  <1>4. job'[n].pc = "gossip" /\ \A i \in Node \ {n} : job'[i] = job[i]
    BY <1>1, <1>2, <1>3
  <1>5. PICK u \in Node, kind \in IdKinds, top \in Nat : u = t.url /\ kind = t.id /\ top = v
    BY <1>2
  <1>6. /\ cursor'[n][u][kind] = top
        /\ \A i, w \in Node, k \in IdKinds :
             ~(i = n /\ w = u /\ k = kind) => cursor'[i][w][k] = cursor[i][w][k]
    BY <1>1, <1>2, <1>5
  <1> SUFFICES ASSUME ~raced, NEW i \in Node PROVE (CursorCovered(i) /\ PostCovered(i))'
    BY <1>1 DEF SkipInv
  <1>7. \A w \in Node, x \in Nat : Covered(i, w, x, {}) => Covered(i, w, x, {})'
    BY <1>1 DEF Covered, Known
  <1>8. MaxStateVersion(i)' = MaxStateVersion(i)
    BY <1>1 DEF MaxStateVersion, Known
  <1>9. CursorCovered(i)'
    <2> SUFFICES ASSUME NEW w \in Node, NEW k \in IdKinds
                 PROVE  /\ cursor'[i][w][k] <= MaxStateVersion(i)
                        /\ Covered(i, w, cursor[i][w][k], {})'
      BY <1>8 DEF CursorCovered, Covered
    <2>1. CASE i = n /\ w = u /\ k = kind
      <3>1. top <= MaxStateVersion(n) /\ Covered(n, u, top, {})
        BY <1>1, <1>5 DEF SkipInv, PostCovered
      <3>2. Covered(n, u, top, {})'
        BY <1>7, <2>1, <3>1
      <3> QED BY <1>6, <2>1, <3>1, <3>2 DEF Covered
    <2>2. CASE ~(i = n /\ w = u /\ k = kind)
      <3>1. PICK x \in Nat : x = cursor[i][w][k]
        BY <1>2
      <3>2. x <= MaxStateVersion(i) /\ Covered(i, w, x, {})
        BY <3>1 DEF SkipInv, CursorCovered
      <3>3. Covered(i, w, x, {})' /\ cursor'[i][w][k] = x
        BY <1>6, <1>7, <2>2, <3>1, <3>2
      <3> QED BY <3>2, <3>3 DEF Covered
    <2> QED BY <2>1, <2>2
  <1>10. PostCovered(i)'
    <2>1. CASE i = n
      BY <1>4, <2>1 DEF PostCovered
    <2>2. CASE i # n
      <3>1. PostCovered(i) /\ job'[i] = job[i]
        BY <1>4, <2>2 DEF SkipInv
      <3> QED BY <1>1, <3>1 DEF PostCovered, Covered, MaxStateVersion, Known
    <2> QED BY <2>1, <2>2
  <1> QED BY <1>9, <1>10

LEMMA JobStepSkips ==
    ASSUME ClusterInv, ServersTypeOK', SkipInv, NEW n \in Node, JobStep(n)
    PROVE  SkipInv'
  <1>0. job[n] \in JobState
    BY JobFacts
  <1>1. CASE GiveUpCycle(n) \/ EndCycle(n)
    <2>1. job' = [job EXCEPT ![n] = Idle] /\ UNCHANGED <<tableVars, handler, told>>
      BY <1>1 DEF GiveUpCycle, EndCycle, OnlyJob
    <2>2. Idle.pc = "idle"
      BY DEF Idle
    <2> QED BY <2>1, <2>2, JobStill
  <1>2. CASE SelfAnnounced(n)
    <2> DEFINE j == [job[n] EXCEPT !.pc = "seeds", !.pen = NoRow, !.todo = Seeds[n] \ {n}]
    <2>1. CommitJob(n, "self", j) /\ j.pc = "seeds"
      BY <1>0, <1>2 DEF SelfAnnounced, JobState
    <2> HIDE DEF j
    <2> QED BY <2>1, JobCommitSkips
  <1>3. ASSUME NEW pc, NEW next \in {"seeds", "probe", "gossip"},
               CommitJob(n, pc, [job[n] EXCEPT !.pc = next, !.pen = NoRow])
        PROVE  SkipInv'
    <2> DEFINE j == [job[n] EXCEPT !.pc = next, !.pen = NoRow]
    <2>1. CommitJob(n, pc, j) /\ j.pc = next
      BY <1>0, <1>3 DEF JobState
    <2> HIDE DEF j
    <2> QED BY <2>1, JobCommitSkips
  <1>4. CASE SeedAdded(n) \/ Marked(n) \/ MarkedOffline(n)
    BY <1>3, <1>4 DEF SeedAdded, Marked, MarkedOffline
  <1>5. ASSUME NEW s \in Node, SkipSeed(n, s) PROVE SkipInv'
    <2> DEFINE j == [job[n] EXCEPT !.todo = @ \ {s}]
    <2>1. /\ job' = [job EXCEPT ![n] = j] /\ UNCHANGED <<tableVars, handler, told>>
          /\ j.pc = "seeds"
      BY <1>0, <1>5 DEF SkipSeed, OnlyJob, JobState
    <2> HIDE DEF j
    <2> QED BY <2>1, JobStill
  <1>6. ASSUME NEW s \in Node, AddSeed(n, s) PROVE SkipInv'
    <2> DEFINE j == [job[n] EXCEPT !.pc = "seed", !.todo = @ \ {s},
                                   !.pen = Pen(n, s, Row("seed", 1, FALSE, TRUE, {}))]
    <2>1. /\ job' = [job EXCEPT ![n] = j] /\ UNCHANGED <<tableVars, handler, told>>
          /\ j.pc = "seed"
      BY <1>0, <1>6 DEF AddSeed, OnlyJob, JobState
    <2> HIDE DEF j
    <2> QED BY <2>1, JobStill
  <1>7. ASSUME NEW from, NEW to \in {"probe", "gossip"}, NEW count, Choose(n, from, to, count)
        PROVE  SkipInv'
    <2>1. PICK urls \in GossipNeighbors(n, count) :
             job' = [job EXCEPT ![n] = [@ EXCEPT !.pc = to, !.todo = Named(n, urls)]]
      BY <1>7 DEF Choose
    <2> DEFINE j == [job[n] EXCEPT !.pc = to, !.todo = Named(n, urls)]
    <2>2. /\ job' = [job EXCEPT ![n] = j] /\ UNCHANGED <<tableVars, handler, told>> /\ j.pc = to
      BY <1>0, <1>7, <2>1 DEF Choose, OnlyJob, JobState
    <2> HIDE DEF j
    <2> QED BY <2>2, JobStill
  <1>8. CASE ChooseNeighbors(n) \/ ChooseTargets(n)
    BY <1>7, <1>8 DEF ChooseNeighbors, ChooseTargets
  <1>9. ASSUME NEW t \in Targets, Probe(n, t, TRUE) PROVE SkipInv'
    <2>1. Mark(n, t, TRUE, "mark", "probe").pc \in {"mark", "probe"}
      BY MarkLeaves
    <2> HIDE DEF Mark
    <2> QED BY <1>9, <2>1, JobStill DEF Probe
  <1>10. ASSUME NEW t \in Targets, Post(n, t) PROVE SkipInv'
    BY <1>10, PostSkips
  <1>11. CASE Answered(n) \/ AnsweredError(n)
    BY <1>11, AnsweredSkips, AnsweredErrorSkips
  <1>12. CASE RefuseEntry(n)
    <2> DEFINE j == [job[n] EXCEPT !.queue = Tail(@)]
    <2>1. /\ job' = [job EXCEPT ![n] = j] /\ UNCHANGED <<tableVars, handler, told>>
          /\ j.pc = job[n].pc /\ j.at = job[n].at /\ j.max = job[n].max
      BY <1>0, <1>12 DEF RefuseEntry, OnlyJob, JobState
    <2> HIDE DEF j
    <2> QED BY <2>1, JobStill
  <1>13. CASE TakeEntry(n)
    <2> DEFINE j == [job[n] EXCEPT !.pen = ApplyRemoteEntry(n, Head(job[n].queue))]
    <2>1. /\ job' = [job EXCEPT ![n] = j] /\ UNCHANGED <<tableVars, handler, told>>
          /\ j.pc = job[n].pc /\ j.at = job[n].at /\ j.max = job[n].max
      BY <1>0, <1>13 DEF TakeEntry, OnlyJob, JobState
    <2> HIDE DEF j
    <2> QED BY <2>1, JobStill
  <1>14. CASE EntryApplied(n)
    <2> DEFINE j == [job[n] EXCEPT !.pen = NoRow, !.queue = Tail(@)]
    <2>1. /\ CommitJob(n, "apply", j)
          /\ j.pc = job[n].pc /\ j.at = job[n].at /\ j.max = job[n].max
      BY <1>0, <1>14 DEF EntryApplied, JobState
    <2> HIDE DEF j
    <2> QED BY <2>1, JobCommitSkips
  <1>15. CASE AdvanceCursor(n)
    BY <1>15, AdvanceSkips
  <1> QED BY <1>1, <1>2, <1>4, <1>5, <1>6, <1>8, <1>9, <1>10, <1>11, <1>12, <1>13, <1>14, <1>15
          DEF JobStep

LEMMA JobFaultSkips ==
    ASSUME ClusterInv, SkipInv, NEW n \in Node, JobFault(n)
    PROVE  SkipInv'
  <1>1. ASSUME NEW t, NEW pc \in {"mark", "offline"}, NEW skip \in {"probe", "gossip"},
               job' = [job EXCEPT ![n] = Mark(n, t, FALSE, pc, skip)],
               UNCHANGED <<tableVars, handler, told, cycles>>
        PROVE  SkipInv'
    <2>1. Mark(n, t, FALSE, pc, skip).pc \in {pc, skip}
      BY MarkLeaves
    <2> HIDE DEF Mark
    <2> QED BY <1>1, <2>1, JobStill
  <1>2. CASE AnswerLost(n)
    BY <1>1, <1>2 DEF AnswerLost
  <1>3. ASSUME NEW t \in Targets, Probe(n, t, FALSE) PROVE SkipInv'
    BY <1>1, <1>3 DEF Probe
  <1>4. ASSUME NEW t \in Targets, PostFails(n, t) PROVE SkipInv'
    BY <1>1, <1>4 DEF PostFails
  <1> QED BY <1>2, <1>3, <1>4 DEF JobFault

(* A handler replies when its queue is empty: whoever posted may now count *)
(* on what the post carried.                                               *)
LEMMA ReplySkips ==
    ASSUME ClusterInv, SkipInv, NEW n \in Node, NEW m \in Node, HandlerReplies(n, m)
    PROVE  SkipInv'
  <1> DEFINE h == handler[n][m]
  <1>1. /\ h.pc = "apply" /\ told' = [told EXCEPT ![m][n] = @ \cup h.svs]
        /\ UNCHANGED <<tableVars, job>> /\ UNCHANGED <<rows, cursor, raced>>
        /\ \E k : handler' = [handler EXCEPT ![n][m] = k]
    BY DEF HandlerReplies, tableVars
  <1>2. /\ told \in [Node -> [Node -> SUBSET Nat]]
        /\ job \in [Node -> JobState] /\ handler \in [Node -> [Node -> HandlerState]]
    BY DEF ClusterInv, ServersTypeOK
  <1>3. /\ told'[m][n] = told[m][n] \cup h.svs
        /\ \A i, w \in Node : told[i][w] \subseteq told'[i][w]
    BY <1>1, <1>2
  <1>4. TablesKept
    BY <1>1, <1>3, TablesStay DEF ClusterInv
  <1>5. \A i, w \in Node : ~(i = n /\ w = m) => handler'[i][w] = handler[i][w]
    BY <1>1, <1>2
  <1>6. \A i \in Node : ~(i = m /\ job[i].pc = "wait" /\ job[i].at.url = n) => PostKept(i)
    <2> SUFFICES ASSUME NEW i \in Node, ~(i = m /\ job[i].pc = "wait" /\ job[i].at.url = n)
                 PROVE  PostKept(i)
      OBVIOUS
    <2>1. job[i].pc = "wait" => job[i].at.url \in Node
      BY DEF ClusterInv, JobInv, Targets
    <2> QED BY <1>1, <1>5, <2>1 DEF PostKept
  <1>7. ASSUME job[m].pc = "wait", job[m].at.url = n, ~raced' PROVE PostCovered(m)'
    <2>1. PICK top \in Nat, svs \in SUBSET Nat : top = job[m].max /\ svs = h.svs
      BY <1>2 DEF JobState, HandlerState
    <2>2. top <= MaxStateVersion(m) /\ Covered(m, n, top, svs)
      BY <1>1, <1>7, <2>1 DEF SkipInv, PostCovered
    <2>3. top <= MaxStateVersion(m)' /\ Covered(m, n, top, {})'
      BY <1>1, <1>3, <2>1, <2>2 DEF MaxStateVersion, Covered, Known
    <2>4. handler'[n][m].pc = "reply"
      <3>1. PICK q : handler' = [handler EXCEPT ![n][m] = [Quiet EXCEPT !.pc = "reply", !.queue = q]]
        BY DEF HandlerReplies
      <3> DEFINE k == [Quiet EXCEPT !.pc = "reply", !.queue = q]
      <3>2. k.pc = "reply"
        BY DEF Quiet
      <3> HIDE DEF k
      <3> QED BY <1>2, <3>1, <3>2 DEF k
    <2> QED BY <1>1, <1>7, <2>1, <2>3, <2>4 DEF PostCovered
  <1>8. \A i \in Node : PostKept(i) \/ (~raced' => PostCovered(i)')
    BY <1>6, <1>7
  <1> QED BY <1>4, <1>8, SkipKeep

LEMMA HandlerStepSkips ==
    ASSUME ClusterInv, ServersTypeOK', SkipInv, NEW n \in Node, NEW m \in Node, HandlerStep(n, m)
    PROVE  SkipInv'
  <1> DEFINE h == handler[n][m]
  <1>0. h \in HandlerState /\ GoodHandler(n, h)
    BY GoodNow DEF ClusterInv, ServersTypeOK
  <1>1. ASSUME UNCHANGED <<tableVars, told>> PROVE TablesKept
    BY <1>1, TablesStay DEF ClusterInv
  <1>2. CASE HandlerRefuses(n, m)
    <2> DEFINE k == [h EXCEPT !.queue = Tail(@)]
    <2>1. handler' = [handler EXCEPT ![n][m] = k] /\ UNCHANGED <<tableVars, told, job>>
      BY <1>2 DEF HandlerRefuses, OnlyHandler
    <2>2. k.pc = h.pc /\ k.svs = h.svs
      BY <1>0 DEF HandlerState
    <2> HIDE DEF k
    <2> QED BY <1>1, <2>1, <2>2, HandlerSkips
  <1>3. CASE HandlerTakes(n, m)
    <2> DEFINE k == [h EXCEPT !.pen = ApplyRemoteEntry(n, Head(h.queue))]
    <2>1. handler' = [handler EXCEPT ![n][m] = k] /\ UNCHANGED <<tableVars, told, job>>
      BY <1>3 DEF HandlerTakes, OnlyHandler
    <2>2. k.pc = h.pc /\ k.svs = h.svs
      BY <1>0 DEF HandlerState
    <2> HIDE DEF k
    <2> QED BY <1>1, <2>1, <2>2, HandlerSkips
  <1>4. CASE HandlerApplies(n, m)
    <2> DEFINE k == [h EXCEPT !.pen = NoRow, !.queue = Tail(@)]
    <2>1. /\ h.pen # NoRow /\ ~Conflicts(n, h.pen) /\ CommitWithin(n, h.pen)
          /\ handler' = [handler EXCEPT ![n][m] = k] /\ UNCHANGED <<job, told, cycles>>
      BY <1>4 DEF HandlerApplies
    <2>2. k.pc = h.pc /\ k.svs = h.svs
      BY <1>0 DEF HandlerState
    <2> HIDE DEF k
    <2>3. h.pen \in Pens /\ PenInv(n, h.pen)
      BY <1>0, <2>1 DEF GoodHandler, HandlerState
    <2>4. TablesKept
      BY <2>1, <2>3, TablesCommit
    <2> QED BY <2>1, <2>2, <2>4, HandlerSkips
  <1>5. CASE HandlerFails(n, m) \/ HandlerDropped(n, m)
    <2>1. PICK k \in {Quiet, [Quiet EXCEPT !.pc = "failed"]} :
             handler' = [handler EXCEPT ![n][m] = k] /\ UNCHANGED <<tableVars, told, job>>
      BY <1>5 DEF HandlerFails, HandlerDropped, OnlyHandler
    <2>2. k.pc \notin {"apply", "reply"}
      BY DEF Quiet
    <2> QED BY <1>1, <2>1, <2>2, HandlerSkips
  <1>6. CASE HandlerReplies(n, m)
    BY <1>6, ReplySkips
  <1> QED BY <1>2, <1>3, <1>4, <1>5, <1>6 DEF HandlerStep

(* A server that comes back knows nothing of the posts it had sent or was  *)
(* handling; its cursors are in its database.                              *)
LEMMA RestartSkips ==
    ASSUME ClusterInv, SkipInv, NEW n \in Node, RestartServer(n)
    PROVE  SkipInv'
  <1>1. /\ job' = [job EXCEPT ![n] = Idle]
        /\ handler' = [handler EXCEPT ![n] = [m \in Node |-> Quiet]]
        /\ UNCHANGED <<tableVars, told>>
    BY DEF RestartServer
  <1>2. job \in [Node -> JobState] /\ handler \in [Node -> [Node -> HandlerState]]
    BY DEF ClusterInv, ServersTypeOK
  <1>3. TablesKept
    BY <1>1, TablesStay DEF ClusterInv
  <1>4. job'[n].pc = "idle" /\ \A i \in Node \ {n} : job'[i] = job[i]
    BY <1>1, <1>2 DEF Idle
  <1>5. /\ \A w \in Node : handler'[n][w].pc = "quiet"
        /\ \A i \in Node \ {n}, w \in Node : handler'[i][w] = handler[i][w]
    <2>1. Quiet.pc = "quiet"
      BY DEF Quiet
    <2> QED BY <1>1, <1>2, <2>1
  <1>6. \A i \in Node \ {n} : PostKept(i)
    <2> SUFFICES ASSUME NEW i \in Node \ {n} PROVE PostKept(i)
      OBVIOUS
    <2>1. job[i].pc = "wait" => job[i].at.url \in Node
      BY DEF ClusterInv, JobInv, Targets
    <2> QED BY <1>4, <1>5, <2>1 DEF PostKept
  <1> QED BY <1>3, <1>4, <1>6, SkipKeep

-----------------------------------------------------------------------------
(* Between the posts, the cursor of a neighbour and its handlers agree.    *)
THEOREM SkipInvariant == ClusterSpec => []SkipInv
  <1>1. ClusterInit => SkipInv
    <2> SUFFICES ASSUME ClusterInit PROVE SkipInv
      OBVIOUS
    <2>1. /\ rows = [n \in Node |-> [u \in Node |-> NoRow]]
          /\ cursor = [n \in Node |-> [u \in Node |-> [k \in IdKinds |-> 0]]]
          /\ job = [n \in Node |-> Idle]
      BY DEF ClusterInit, TableInit, SyncInit
    <2>2. \A n \in Node : Known(n) = {}
      BY <2>1 DEF Known
    <2>3. \A n \in Node : MaxStateVersion(n) = 0
      <3>1. Max({0}) = 0
        BY MaxOfNaturals, FS_Singleton
      <3>2. \A n \in Node : {0} \cup {rows[n][u].sv : u \in Known(n)} = {0}
        BY <2>2
      <3> QED BY <3>1, <3>2 DEF MaxStateVersion
    <2>4. \A n \in Node : CursorCovered(n)
      BY <2>1, <2>2, <2>3 DEF CursorCovered, Covered
    <2>5. \A n \in Node : PostCovered(n)
      BY <2>1 DEF PostCovered, Idle
    <2> QED BY <2>4, <2>5 DEF SkipInv
  <1>2. ClusterInv /\ ClusterInv' /\ SkipInv /\ [ClusterNext]_clusterVars => SkipInv'
    <2> SUFFICES ASSUME ClusterInv, ClusterInv', SkipInv, [ClusterNext]_clusterVars
                 PROVE  SkipInv'
      OBVIOUS
    <2>0. ServersTypeOK'
      BY DEF ClusterInv
    <2>1. CASE UNCHANGED <<tableVars, syncVars>>
      <3>1. UNCHANGED <<rows, cursor, raced, job, handler, told>>
        BY <2>1 DEF tableVars, syncVars
      <3> QED BY <3>1 DEF SkipInv, CursorCovered, PostCovered, Covered, MaxStateVersion, Known
    <2>2. ASSUME NEW n \in Node, NEW models \in SUBSET Model, StartCycle(n, models)
          PROVE  SkipInv'
      BY <2>2, StartSkips
    <2>3. ASSUME NEW n \in Node, JobStep(n) PROVE SkipInv'
      BY <2>0, <2>3, JobStepSkips
    <2>4. ASSUME NEW n \in Node, NEW m \in Node, HandlerStep(n, m) PROVE SkipInv'
      BY <2>0, <2>4, HandlerStepSkips
    <2>5. ASSUME NEW n \in Node, JobFault(n) PROVE SkipInv'
      BY <2>5, JobFaultSkips
    <2>6. ASSUME NEW n \in Node, RestartServer(n) PROVE SkipInv'
      BY <2>6, RestartSkips
    <2> QED BY <2>1, <2>2, <2>3, <2>4, <2>5, <2>6 DEF ClusterNext, ServerStep, clusterVars
  <1> QED BY <1>1, <1>2, ClusterInvariant, PTL DEF ClusterSpec

(* A row at or below the cursor of a neighbour has been handled by it,     *)
(* whatever batches are cut off, posts or answers lost and servers         *)
(* restarted, until two writers of a table race (export_deltas,            *)
(* upsert_neighbor_sync).                                                  *)
THEOREM NoRowIsSkipped == ClusterSpec => []NothingSkipped
  <1>1. SkipInv => NothingSkipped
    BY DEF SkipInv, NothingSkipped, CursorCovered, Covered
  <1> QED BY <1>1, SkipInvariant, PTL
=============================================================================
