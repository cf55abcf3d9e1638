---------------------------- MODULE ClusterProofs ----------------------------
(***************************************************************************)
(* Theorems about what the servers of a cluster know of each other, for    *)
(* any number of servers, seeds, faults, races and cycles.                 *)
(***************************************************************************)
EXTENDS ClusterProps, TLAPS, FiniteSetTheorems, WellFoundedInduction

-----------------------------------------------------------------------------
(* Numbers and sets                                                        *)

(* A finite set of naturals has a greatest element: the least set that had *)
(* none would have one, greatest or not in the rest of the set.            *)
LEMMA GreatestExists ==
    ASSUME NEW S \in SUBSET Nat, IsFiniteSet(S), S # {}
    PROVE  \E x \in S : \A y \in S : x >= y
  <1> DEFINE Bad == {T \in FiniteSubsetsOf(Nat) :
                       T # {} /\ ~ \E x \in T : \A y \in T : x >= y}
  <1>1. SUFFICES ASSUME Bad # {} PROVE FALSE
    BY DEF FiniteSubsetsOf
  <1>2. PICK T \in Bad : \A U \in Bad : <<U, T>> \notin StrictSubsetOrdering(Nat)
    <2>1. IsWellFoundedOn(StrictSubsetOrdering(Nat), FiniteSubsetsOf(Nat))
      BY FS_StrictSubsetOrderingWellFounded
    <2>2. Bad \subseteq FiniteSubsetsOf(Nat)
      OBVIOUS
    <2> HIDE DEF Bad
    <2> QED BY <1>1, <2>1, <2>2, WFMin
  <1>3. T \subseteq Nat /\ IsFiniteSet(T) /\ T # {} /\ ~ \E x \in T : \A y \in T : x >= y
    BY DEF FiniteSubsetsOf
  <1>4. PICK x \in T : TRUE
    BY <1>3
  <1> DEFINE U == T \ {x}
  <1>5. U \subseteq Nat /\ IsFiniteSet(U) /\ <<U, T>> \in StrictSubsetOrdering(Nat)
    BY <1>3, <1>4, FS_RemoveElement DEF StrictSubsetOrdering
  <1>6. CASE U = {}
    BY <1>3, <1>4, <1>6
  <1>7. CASE U # {}
    <2>1. U \notin Bad
      BY <1>2, <1>5
    <2>2. PICK y \in U : \A z \in U : y >= z
      BY <1>5, <1>7, <2>1 DEF FiniteSubsetsOf
    <2>3. x \in Nat /\ y \in Nat /\ y \in T /\ \A z \in T : z = x \/ z \in U
      BY <1>3, <1>4
    <2>4. CASE x >= y
      BY <1>3, <1>4, <1>5, <2>2, <2>3, <2>4
    <2>5. CASE ~(x >= y)
      BY <1>3, <1>4, <1>5, <2>2, <2>3, <2>5
    <2> QED BY <2>4, <2>5
  <1> QED BY <1>6, <1>7

LEMMA MaxOfNaturals ==
    ASSUME NEW S \in SUBSET Nat, IsFiniteSet(S), S # {}
    PROVE  Max(S) \in S /\ \A y \in S : Max(S) >= y
  BY GreatestExists DEF Max

LEMMA MinPair ==
    ASSUME NEW a \in Int, NEW b \in Int
    PROVE  Min({a, b}) = IF a <= b THEN a ELSE b
  BY DEF Min

LEMMA FiniteImage ==
    ASSUME NEW S, IsFiniteSet(S), NEW f
    PROVE  IsFiniteSet({f[x] : x \in S})
  <1> DEFINE T == {f[x] : x \in S}
             g == [x \in S |-> f[x]]
  <1>1. g \in Surjection(S, T)
    BY DEF Surjection
  <1> QED BY <1>1, FS_Surjection

LEMMA RowsTyped ==
    ASSUME ServersTypeOK, NEW n \in Node
    PROVE  /\ Known(n) \subseteq Node /\ IsFiniteSet(Known(n))
           /\ \A u \in Known(n) : rows[n][u] \in Columns
           /\ \A u \in Node : rows[n][u] # NoRow => rows[n][u] \in Columns
  <1>1. \A u \in Node : rows[n][u] \in Columns \cup {NoRow}
    BY DEF ServersTypeOK
  <1>2. Known(n) \subseteq Node /\ IsFiniteSet(Known(n))
    BY NodeAssumption, FS_Subset DEF Known
  <1> QED BY <1>1, <1>2 DEF Known

LEMMA StateVersions ==
    ASSUME ServersTypeOK, NEW n \in Node
    PROVE  /\ MaxStateVersion(n) \in Nat
           /\ \A u \in Known(n) : rows[n][u].sv \in Nat /\ rows[n][u].sv <= MaxStateVersion(n)
  <1> DEFINE f == [u \in Known(n) |-> rows[n][u].sv]
             V == {rows[n][u].sv : u \in Known(n)}
  <1>1. V = {f[u] : u \in Known(n)}
    OBVIOUS
  <1>2. IsFiniteSet(V) /\ V \subseteq Nat
    <2>1. V \subseteq Nat
      BY RowsTyped DEF Columns
    <2>2. IsFiniteSet({f[u] : u \in Known(n)})
      BY RowsTyped, FiniteImage
    <2> QED BY <1>1, <2>1, <2>2
  <1>3. IsFiniteSet({0} \cup V) /\ {0} \cup V \subseteq Nat /\ {0} \cup V # {}
    <2>1. {0} \cup V = V \cup {0}
      OBVIOUS
    <2> QED BY <1>2, <2>1, FS_AddElement
  <1>4. \A u \in Known(n) : rows[n][u].sv \in {0} \cup V
    OBVIOUS
  <1> HIDE DEF V
  <1>5. Max({0} \cup V) \in Nat /\ \A y \in {0} \cup V : y \in Nat /\ y <= Max({0} \cup V)
    BY <1>3, MaxOfNaturals
  <1>6. MaxStateVersion(n) = Max({0} \cup V)
    BY DEF MaxStateVersion, V
  <1> QED BY <1>4, <1>5, <1>6

LEMMA MaxStateVersionNat ==
    ASSUME ServersTypeOK, NEW n \in Node
    PROVE  MaxStateVersion(n) \in Nat
  BY StateVersions

LEMMA PenTyped ==
    ASSUME ServersTypeOK, NEW n \in Node, NEW u \in Node, NEW new \in Columns
    PROVE  /\ Pen(n, u, new) \in Pens
           /\ Pen(n, u, new).url = u /\ Pen(n, u, new).old = rows[n][u]
           /\ Pen(n, u, new).new = new
  <1>1. rows[n][u] \in Columns \cup {NoRow}
    BY DEF ServersTypeOK
  <1>2. MaxStateVersion(n) \in Nat
    BY MaxStateVersionNat
  <1> QED BY <1>1, <1>2 DEF Pen, Pens

LEMMA RowTyped ==
    ASSUME NEW kind \in IdKinds, NEW rev \in Nat, NEW self \in BOOLEAN,
           NEW alive \in BOOLEAN, NEW models \in SUBSET Model
    PROVE  /\ Row(kind, rev, self, alive, models) \in Columns
           /\ Row(kind, rev, self, alive, models).id = kind
           /\ Row(kind, rev, self, alive, models).rev = rev
           /\ Row(kind, rev, self, alive, models).self = self
           /\ Row(kind, rev, self, alive, models).models = models
  BY DEF Row, Columns

-----------------------------------------------------------------------------
(* A commit                                                                *)

LEMMA FlushedOver ==
    ASSUME NEW pen \in Pens, NEW cur \in Columns, pen.old \in Columns
    PROVE  /\ Flushed(pen, cur) \in Columns
           /\ Flushed(pen, cur).rev \in {pen.new.rev, cur.rev}
           /\ Flushed(pen, cur).id \in {pen.new.id, cur.id}
           /\ Flushed(pen, cur).self \in {pen.new.self, cur.self}
           /\ cur = pen.old => Flushed(pen, cur) = pen.new
  <1>1. pen.new \in Columns /\ pen.old # NoRow
    BY NodeAssumption DEF Pens
  <1>2. DOMAIN cur = {"id", "rev", "self", "alive", "models", "sv"}
    BY DEF Columns
  <1> DEFINE col(c) == IF pen.new[c] # pen.old[c] THEN pen.new[c] ELSE cur[c]
  <1>3. Flushed(pen, cur) = [c \in {"id", "rev", "self", "alive", "models", "sv"} |-> col(c)]
    BY <1>1, <1>2 DEF Flushed
  <1>4. [c \in {"id", "rev", "self", "alive", "models", "sv"} |-> col(c)]
          = [id |-> col("id"), rev |-> col("rev"), self |-> col("self"),
             alive |-> col("alive"), models |-> col("models"), sv |-> col("sv")]
    OBVIOUS
  <1>5. /\ col("id") \in IdKinds /\ col("rev") \in Nat /\ col("self") \in BOOLEAN
        /\ col("alive") \in BOOLEAN /\ col("models") \in SUBSET Model /\ col("sv") \in Nat
    BY <1>1 DEF Columns
  <1>6. Flushed(pen, cur) = [id |-> col("id"), rev |-> col("rev"), self |-> col("self"),
                             alive |-> col("alive"), models |-> col("models"), sv |-> col("sv")]
    BY <1>3, <1>4
  <1>7. cur = pen.old => Flushed(pen, cur) = pen.new
    <2>1. SUFFICES ASSUME cur = pen.old PROVE Flushed(pen, cur) = pen.new
      OBVIOUS
    <2>2. /\ col("id") = pen.new.id /\ col("rev") = pen.new.rev /\ col("self") = pen.new.self
          /\ col("alive") = pen.new.alive /\ col("models") = pen.new.models
          /\ col("sv") = pen.new.sv
      BY <2>1
    <2>3. pen.new = [id |-> pen.new.id, rev |-> pen.new.rev, self |-> pen.new.self,
                     alive |-> pen.new.alive, models |-> pen.new.models, sv |-> pen.new.sv]
      BY <1>1 DEF Columns
    <2> HIDE DEF col
    <2> QED BY <1>6, <2>2, <2>3
  <1>8. /\ col("rev") \in {pen.new.rev, cur.rev} /\ col("id") \in {pen.new.id, cur.id}
        /\ col("self") \in {pen.new.self, cur.self}
    OBVIOUS
  <1> HIDE DEF col
  <1> QED BY <1>5, <1>6, <1>7, <1>8 DEF Columns

(* Rows do not vanish, announcements are not taken back, and a race leaves *)
(* its mark.                                                               *)
Grows ==
    /\ \A n, u \in Node : rows[n][u] # NoRow => rows'[n][u] # NoRow
    /\ \A u \in Node : cycles[u] \in Nat /\ cycles'[u] \in Nat /\ cycles[u] <= cycles'[u]
    /\ raced => raced'

LEMMA CommitEffect ==
    ASSUME ServersTypeOK, RowsInv, NEW n \in Node, NEW pen \in Pens,
           pen # NoRow, PenInv(n, pen), ~Conflicts(n, pen), Commit(n, pen), UNCHANGED cycles
    PROVE  /\ rows' \in [Node -> [Node -> Columns \cup {NoRow}]]
           /\ raced' \in BOOLEAN /\ cursor' = cursor
           /\ Grows /\ RowsInv' /\ rows'[n][pen.url] # NoRow
  <1> DEFINE u == pen.url
             cur == rows[n][u]
             F == Flushed(pen, cur)
  <1>1. /\ u \in Node /\ pen.old \in Columns \cup {NoRow} /\ pen.new \in Columns /\ pen.max \in Nat
        /\ rows \in [Node -> [Node -> Columns \cup {NoRow}]] /\ cycles \in [Node -> Nat]
        /\ raced \in BOOLEAN
    BY DEF Pens, ServersTypeOK
  <1>2. PICK v \in NextStateVersions(n, pen) :
           /\ rows' = [rows EXCEPT ![n][u] = [F EXCEPT !.sv = v]]
           /\ raced' = (raced \/ cur # pen.old \/ v <= MaxStateVersion(n))
           /\ UNCHANGED cursor
    BY DEF Commit
  <1>3. v \in Nat
    <2>1. MaxStateVersion(n) \in Nat
      BY MaxStateVersionNat
    <2>2. Min({pen.max, MaxStateVersion(n)}) \in Nat
      <3>1. \A x, y \in Nat : Min({x, y}) \in Nat
        BY MinPair
      <3> QED BY <1>1, <2>1, <3>1
    <2> DEFINE lo == Min({pen.max, MaxStateVersion(n)})
               hi == Max({pen.max, MaxStateVersion(n)})
    <2>3. NextStateVersions(n, pen) = {k + 1 : k \in lo .. hi}
      BY DEF NextStateVersions
    <2>4. PICK k \in lo .. hi : v = k + 1
      BY <2>3
    <2>5. lo \in Nat
      BY <2>2
    <2> HIDE DEF lo, hi
    <2>6. k \in Int /\ k >= lo
      OBVIOUS
    <2> QED BY <2>4, <2>5, <2>6
  <1>4. /\ pen.old # NoRow => cur # NoRow /\ cur \in Columns /\ pen.old \in Columns
        /\ pen.old = NoRow => cur = NoRow /\ F = pen.new
    BY <1>1 DEF PenInv, Conflicts, Flushed
  <1>5. /\ F \in Columns
        /\ F.rev = pen.new.rev \/ (cur # NoRow /\ F.rev = cur.rev)
        /\ F.id = pen.new.id \/ (cur # NoRow /\ F.id = cur.id)
        /\ F.self = pen.new.self \/ (cur # NoRow /\ F.self = cur.self)
        /\ cur = pen.old => F = pen.new
    <2>1. CASE pen.old = NoRow
      BY <1>1, <1>4, <2>1
    <2>2. CASE pen.old # NoRow
      <3> HIDE DEF cur
      <3>1. /\ Flushed(pen, cur) \in Columns
            /\ Flushed(pen, cur).rev \in {pen.new.rev, cur.rev}
            /\ Flushed(pen, cur).id \in {pen.new.id, cur.id}
            /\ Flushed(pen, cur).self \in {pen.new.self, cur.self}
            /\ cur = pen.old => Flushed(pen, cur) = pen.new
        BY <1>4, <2>2, FlushedOver
      <3> QED BY <1>4, <2>2, <3>1
    <2> QED BY <2>1, <2>2
  <1> DEFINE N == [F EXCEPT !.sv = v]
  <1> HIDE DEF F
  <1>6. /\ N \in Columns /\ N.rev = F.rev /\ N.id = F.id /\ N.self = F.self /\ N.models = F.models
    BY <1>3, <1>5 DEF Columns
  <1>7. /\ rows' = [rows EXCEPT ![n][u] = N]
    BY <1>2
  <1> HIDE DEF N
  <1>8. /\ rows'[n][u] = N /\ N # NoRow
        /\ \A i, w \in Node : ~(i = n /\ w = u) => rows'[i][w] = rows[i][w]
        /\ rows' \in [Node -> [Node -> Columns \cup {NoRow}]]
    BY <1>1, <1>6, <1>7, NodeAssumption
  <1>9. raced' \in BOOLEAN /\ (raced => raced') /\ (~raced' => cur = pen.old)
    BY <1>1, <1>2
  <1>10. Grows
    BY <1>1, <1>8, <1>9 DEF Grows
  <1>11. Credible(N, cycles[u], raced') /\ (N.self => u = n)
    <2>1. /\ Credible(pen.new, cycles[u], raced) /\ (pen.new.self => u = n)
      BY DEF PenInv
    <2>2. cur # NoRow => Credible(cur, cycles[u], raced) /\ (cur.self => u = n)
      BY <1>1 DEF RowsInv, Known
    <2> HIDE DEF u, cur
    <2>3. N.self => u = n
      BY <1>5, <1>6, <2>1, <2>2
    <2>4. N.rev <= cycles[u] \/ N.rev = 1
      BY <1>5, <1>6, <2>1, <2>2 DEF Credible
    <2>5. N.id = "own" => cycles[u] > 0
      BY <1>5, <1>6, <2>1, <2>2 DEF Credible
    <2>6. ~raced' /\ N.id = "seed" => N.models = {} /\ N.rev = 1
      BY <1>5, <1>6, <1>9, <2>1 DEF Credible
    <2> QED BY <2>3, <2>4, <2>5, <2>6 DEF Credible
  <1>12. RowsInv'
    <2>1. SUFFICES ASSUME NEW i \in Node, NEW w \in Node, rows'[i][w] # NoRow
                   PROVE  Credible(rows'[i][w], cycles[w], raced') /\ (rows'[i][w].self => w = i)
      BY DEF RowsInv, Known
    <2>2. CASE i = n /\ w = u
      BY <1>8, <1>11, <2>2
    <2>3. CASE ~(i = n /\ w = u)
      <3>1. rows'[i][w] = rows[i][w] /\ rows[i][w] # NoRow
        BY <1>8, <2>1, <2>3
      <3>2. Credible(rows[i][w], cycles[w], raced) /\ (rows[i][w].self => w = i)
        BY <3>1 DEF RowsInv, Known
      <3> QED BY <1>9, <3>1, <3>2 DEF Credible
    <2> QED BY <2>2, <2>3
  <1> QED BY <1>2, <1>8, <1>9, <1>10, <1>12

-----------------------------------------------------------------------------
(* What a step leaves alone stays credible                                 *)

LEMMA EntryTyped ==
    ASSUME NEW q \in Seq(Entry), NEW i \in 1 .. Len(q)
    PROVE  q[i] \in Entry /\ q[i].url \in Node /\ q[i].rev \in Nat
  <1>1. q[i] \in Entry
    OBVIOUS
  <1> QED BY <1>1 DEF Entry

LEMMA CredibleGrows ==
    ASSUME NEW x, x.rev \in Nat, NEW a \in Nat, NEW b \in Nat, a <= b,
           NEW racy \in BOOLEAN, NEW racy2 \in BOOLEAN, racy => racy2,
           Credible(x, a, racy)
    PROVE  Credible(x, b, racy2)
  BY DEF Credible

LEMMA PenStays ==
    ASSUME ServersTypeOK, raced' \in BOOLEAN, Grows,
           NEW n \in Node, NEW pen \in Pens \cup {NoRow}, PenInv(n, pen)
    PROVE  pen # NoRow => /\ Credible(pen.new, cycles'[pen.url], raced')
                          /\ (pen.new.self => pen.url = n)
                          /\ pen.old # NoRow => rows'[n][pen.url] # NoRow
  <1> SUFFICES ASSUME pen # NoRow
               PROVE  /\ Credible(pen.new, cycles'[pen.url], raced')
                      /\ (pen.new.self => pen.url = n)
                      /\ pen.old # NoRow => rows'[n][pen.url] # NoRow
    OBVIOUS
  <1>1. pen.url \in Node /\ pen.new \in Columns /\ pen.new.rev \in Nat /\ raced \in BOOLEAN
    BY DEF Pens, Columns, ServersTypeOK
  <1>2. Credible(pen.new, cycles[pen.url], raced)
    BY DEF PenInv
  <1>3. Credible(pen.new, cycles'[pen.url], raced')
    BY <1>1, <1>2, CredibleGrows DEF Grows
  <1> QED BY <1>1, <1>3 DEF PenInv, Grows

LEMMA QueueStays ==
    ASSUME ServersTypeOK, raced' \in BOOLEAN, Grows, NEW q \in Seq(Entry), QueueInv(q)
    PROVE  \A i \in 1 .. Len(q) : Credible(q[i], cycles'[q[i].url], raced')
  <1>1. TAKE i \in 1 .. Len(q)
  <1>2. q[i].url \in Node /\ q[i].rev \in Nat /\ raced \in BOOLEAN
    BY EntryTyped DEF ServersTypeOK
  <1>3. Credible(q[i], cycles[q[i].url], raced)
    BY DEF QueueInv
  <1> QED BY <1>2, <1>3, CredibleGrows DEF Grows

LEMMA Keep ==
    ASSUME ClusterInv, ServersTypeOK', Grows, RowsInv',
           \A n \in Node : job'[n] = job[n] \/ JobInv(n)',
           \A n, m \in Node : handler'[n][m] = handler[n][m] \/ HandlerInv(n, m)'
    PROVE  ClusterInv'
  <1>0. ServersTypeOK /\ raced' \in BOOLEAN /\ job \in [Node -> JobState]
        /\ handler \in [Node -> [Node -> HandlerState]]
    BY DEF ClusterInv, ServersTypeOK
  <1>1. ASSUME NEW n \in Node, job'[n] = job[n] PROVE JobInv(n)'
    <2> DEFINE j == job[n]
    <2>1. JobInv(n) /\ j.pen \in Pens \cup {NoRow} /\ j.queue \in Seq(Entry)
      BY <1>0 DEF ClusterInv, JobState
    <2>2. PenInv(n, j.pen) /\ QueueInv(j.queue)
      BY <2>1 DEF JobInv
    <2> HIDE DEF j
    <2>3. j.pen # NoRow => /\ Credible(j.pen.new, cycles'[j.pen.url], raced')
                           /\ (j.pen.new.self => j.pen.url = n)
                           /\ j.pen.old # NoRow => rows'[n][j.pen.url] # NoRow
      BY <1>0, <2>1, <2>2, PenStays
    <2>4. \A i \in 1 .. Len(j.queue) : Credible(j.queue[i], cycles'[j.queue[i].url], raced')
      BY <1>0, <2>1, <2>2, QueueStays
    <2>5. rows[n][n] # NoRow => rows'[n][n] # NoRow
      BY DEF Grows
    <2> QED BY <1>1, <2>1, <2>3, <2>4, <2>5 DEF JobInv, PenInv, QueueInv, j
  <1>2. ASSUME NEW n \in Node, NEW m \in Node, handler'[n][m] = handler[n][m]
        PROVE  HandlerInv(n, m)'
    <2> DEFINE h == handler[n][m]
    <2>1. HandlerInv(n, m) /\ h.pen \in Pens \cup {NoRow} /\ h.queue \in Seq(Entry)
      BY <1>0 DEF ClusterInv, HandlerState
    <2>2. PenInv(n, h.pen) /\ QueueInv(h.queue)
      BY <2>1 DEF HandlerInv
    <2> HIDE DEF h
    <2>3. h.pen # NoRow => /\ Credible(h.pen.new, cycles'[h.pen.url], raced')
                           /\ (h.pen.new.self => h.pen.url = n)
                           /\ h.pen.old # NoRow => rows'[n][h.pen.url] # NoRow
      BY <1>0, <2>1, <2>2, PenStays
    <2>4. \A i \in 1 .. Len(h.queue) : Credible(h.queue[i], cycles'[h.queue[i].url], raced')
      BY <1>0, <2>1, <2>2, QueueStays
    <2> QED BY <1>2, <2>1, <2>3, <2>4 DEF HandlerInv, PenInv, QueueInv, h
  <1>3. \A n \in Node : JobInv(n)'
    BY <1>1
  <1>4. \A n, m \in Node : HandlerInv(n, m)'
    BY <1>2
  <1> QED BY <1>3, <1>4 DEF ClusterInv

(* What a job or a handler may become while the tables stay                *)
GoodJob(n, j) ==
    /\ j \in JobState /\ PenInv(n, j.pen) /\ QueueInv(j.queue)
    /\ j.pen # NoRow => \/ j.pc \in {"self", "seed", "mark", "offline"}
                        \/ j.pc = "apply" /\ j.queue # <<>>
    /\ j.pc = "self" /\ j.pen # NoRow => j.pen.url = n
    /\ j.pc \in {"wait", "apply"} => j.at \in Targets
    /\ j.pc \notin {"idle", "self"} => rows[n][n] # NoRow
GoodHandler(n, h) ==
    /\ h \in HandlerState /\ PenInv(n, h.pen) /\ QueueInv(h.queue)
    /\ h.pen # NoRow => h.pc = "apply" /\ h.queue # <<>>

LEMMA GoodNow ==
    ASSUME ClusterInv
    PROVE  /\ \A n \in Node : GoodJob(n, job[n])
           /\ \A n, m \in Node : GoodHandler(n, handler[n][m])
  BY DEF ClusterInv, ServersTypeOK, JobInv, HandlerInv, GoodJob, GoodHandler

LEMMA Moves ==
    ASSUME ClusterInv, UNCHANGED <<tableVars, cycles>>,
           told' \in [Node -> [Node -> SUBSET Nat]], faults' \in 0 .. MaxFaults,
           job' \in [Node -> JobState], handler' \in [Node -> [Node -> HandlerState]],
           \A n \in Node : job'[n] = job[n] \/ GoodJob(n, job'[n]),
           \A n, m \in Node : handler'[n][m] = handler[n][m] \/ GoodHandler(n, handler'[n][m])
    PROVE  ClusterInv'
  <1>0. UNCHANGED <<rows, cursor, raced, cycles>>
    BY DEF tableVars
  <1>1. ServersTypeOK'
    BY <1>0 DEF ClusterInv, ServersTypeOK
  <1>2. Grows
    BY <1>0 DEF Grows, ClusterInv, ServersTypeOK
  <1>3. RowsInv'
    BY <1>0 DEF RowsInv, Known, ClusterInv
  <1>4. \A n \in Node : job'[n] = job[n] \/ JobInv(n)'
    BY <1>0 DEF GoodJob, JobInv, PenInv, QueueInv
  <1>5. \A n, m \in Node : handler'[n][m] = handler[n][m] \/ HandlerInv(n, m)'
    BY <1>0 DEF GoodHandler, HandlerInv, PenInv, QueueInv
  <1> QED BY <1>1, <1>2, <1>3, <1>4, <1>5, Keep

LEMMA JobMoves ==
    ASSUME ClusterInv, NEW n \in Node, NEW j, GoodJob(n, j), job' = [job EXCEPT ![n] = j],
           UNCHANGED <<tableVars, handler, told, cycles>>, faults' \in 0 .. MaxFaults
    PROVE  ClusterInv'
  <1>1. job \in [Node -> JobState] /\ j \in JobState
    BY DEF ClusterInv, ServersTypeOK, GoodJob
  <1>2. job' \in [Node -> JobState] /\ \A i \in Node : job'[i] = job[i] \/ GoodJob(i, job'[i])
    BY <1>1
  <1>3. told' \in [Node -> [Node -> SUBSET Nat]] /\ handler' \in [Node -> [Node -> HandlerState]]
    BY DEF ClusterInv, ServersTypeOK
  <1> QED BY <1>2, <1>3, Moves

LEMMA HandlerMoves ==
    ASSUME ClusterInv, NEW n \in Node, NEW m \in Node, NEW h, GoodHandler(n, h),
           handler' = [handler EXCEPT ![n][m] = h],
           UNCHANGED <<tableVars, job, cycles, faults>>,
           told' \in [Node -> [Node -> SUBSET Nat]]
    PROVE  ClusterInv'
  <1>1. handler \in [Node -> [Node -> HandlerState]] /\ h \in HandlerState
    BY DEF ClusterInv, ServersTypeOK, GoodHandler
  <1>2. /\ handler' \in [Node -> [Node -> HandlerState]]
        /\ \A i, k \in Node : handler'[i][k] = handler[i][k] \/ GoodHandler(i, handler'[i][k])
    BY <1>1
  <1>3. faults' \in 0 .. MaxFaults /\ job' \in [Node -> JobState]
    BY DEF ClusterInv, ServersTypeOK
  <1> QED BY <1>2, <1>3, Moves

LEMMA BothMove ==
    ASSUME ClusterInv, NEW n \in Node, NEW j, GoodJob(n, j), job' = [job EXCEPT ![n] = j],
           NEW u \in Node, NEW h, GoodHandler(u, h), handler' = [handler EXCEPT ![u][n] = h],
           UNCHANGED <<tableVars, told, cycles, faults>>
    PROVE  ClusterInv'
  <1>1. /\ job \in [Node -> JobState] /\ j \in JobState
        /\ handler \in [Node -> [Node -> HandlerState]] /\ h \in HandlerState
    BY DEF ClusterInv, ServersTypeOK, GoodJob, GoodHandler
  <1>2. job' \in [Node -> JobState] /\ \A i \in Node : job'[i] = job[i] \/ GoodJob(i, job'[i])
    BY <1>1
  <1>3. /\ handler' \in [Node -> [Node -> HandlerState]]
        /\ \A i, k \in Node : handler'[i][k] = handler[i][k] \/ GoodHandler(i, handler'[i][k])
    BY <1>1
  <1>4. told' \in [Node -> [Node -> SUBSET Nat]] /\ faults' \in 0 .. MaxFaults
    BY DEF ClusterInv, ServersTypeOK
  <1> QED BY <1>2, <1>3, <1>4, Moves

(* ... and after the commit of its write                                   *)
LEMMA CommitTables ==
    ASSUME ClusterInv, NEW n \in Node, NEW pen \in Pens, pen # NoRow, PenInv(n, pen),
           ~Conflicts(n, pen), CommitWithin(n, pen), UNCHANGED <<told, cycles, faults>>,
           job' \in [Node -> JobState], handler' \in [Node -> [Node -> HandlerState]]
    PROVE  /\ ServersTypeOK' /\ Grows /\ RowsInv' /\ rows'[n][pen.url] # NoRow
  <1>1. ServersTypeOK /\ RowsInv
    BY DEF ClusterInv
  <1>2. /\ rows' \in [Node -> [Node -> Columns \cup {NoRow}]]
        /\ raced' \in BOOLEAN /\ cursor' = cursor
        /\ Grows /\ RowsInv' /\ rows'[n][pen.url] # NoRow
    BY <1>1, CommitEffect DEF CommitWithin
  <1>3. ServersTypeOK'
    BY <1>1, <1>2 DEF ServersTypeOK
  <1> QED BY <1>2, <1>3

LEMMA JobCommits ==
    ASSUME ClusterInv, NEW n \in Node, NEW pc, NEW next \in JobState, CommitJob(n, pc, next),
           next.pen = NoRow, QueueInv(next.queue),
           next.pc \in {"wait", "apply"} => next.at \in Targets,
           rows[n][n] # NoRow \/ job[n].pen.url = n
    PROVE  ClusterInv'
  <1>1. /\ job \in [Node -> JobState] /\ handler \in [Node -> [Node -> HandlerState]]
        /\ ServersTypeOK
    BY DEF ClusterInv, ServersTypeOK
  <1>2. /\ job[n].pen # NoRow /\ ~Conflicts(n, job[n].pen) /\ CommitWithin(n, job[n].pen)
        /\ job' = [job EXCEPT ![n] = next] /\ UNCHANGED <<handler, told, cycles, faults>>
    BY DEF CommitJob
  <1>3. job[n].pen \in Pens /\ PenInv(n, job[n].pen)
    BY <1>1, <1>2, GoodNow DEF GoodJob, JobState
  <1>4. job' \in [Node -> JobState] /\ job'[n] = next /\ \A i \in Node : i # n => job'[i] = job[i]
    BY <1>1, <1>2
  <1>5. /\ ServersTypeOK' /\ Grows /\ RowsInv' /\ rows'[n][job[n].pen.url] # NoRow
    BY <1>1, <1>2, <1>3, <1>4, CommitTables
  <1>6. JobInv(n)'
    <2>1. next.queue \in Seq(Entry) /\ raced' \in BOOLEAN
      BY <1>5 DEF JobState, ServersTypeOK
    <2>2. \A i \in 1 .. Len(next.queue) :
            Credible(next.queue[i], cycles'[next.queue[i].url], raced')
      BY <1>1, <1>5, <2>1, QueueStays
    <2>3. rows'[n][n] # NoRow
      BY <1>5 DEF Grows
    <2> QED BY <1>4, <2>2, <2>3 DEF JobInv, PenInv, QueueInv
  <1> QED BY <1>2, <1>4, <1>5, <1>6, Keep

-----------------------------------------------------------------------------
(* What the jobs and handlers write down and send                          *)

LEMMA TailEntries ==
    ASSUME NEW q \in Seq(Entry), q # <<>>, QueueInv(q)
    PROVE  /\ Tail(q) \in Seq(Entry) /\ QueueInv(Tail(q))
           /\ Head(q) \in Entry /\ Credible(Head(q), cycles[Head(q).url], raced)
  <1>1. /\ Head(q) = q[1] /\ 1 \in 1 .. Len(q) /\ Tail(q) \in Seq(Entry) /\ Head(q) \in Entry
        /\ \A i \in 1 .. Len(Tail(q)) : i + 1 \in 1 .. Len(q) /\ Tail(q)[i] = q[i + 1]
    OBVIOUS
  <1>2. QueueInv(Tail(q))
    BY <1>1 DEF QueueInv
  <1>3. Credible(q[1], cycles[q[1].url], raced)
    BY <1>1 DEF QueueInv
  <1> QED BY <1>1, <1>2, <1>3

(* An own entry cannot come in as a seed's, nor ahead of its server.       *)
LEMMA EntryPen ==
    ASSUME ServersTypeOK, RowsInv, NEW n \in Node, NEW e \in Entry,
           Credible(e, cycles[e.url], raced)
    PROVE  ApplyRemoteEntry(n, e) \in Pens /\ PenInv(n, ApplyRemoteEntry(n, e))
  <1> DEFINE self == HasNode(n, e.url, e.id) /\ rows[n][e.url].self
             new == Row(e.id, e.rev, self, e.alive, e.models)
  <1>1. /\ e.url \in Node /\ e.id \in IdKinds /\ e.rev \in Nat /\ e.alive \in BOOLEAN
        /\ e.models \in SUBSET Model
    BY DEF Entry
  <1>2. self \in BOOLEAN /\ (self => e.url = n)
    BY <1>1, RowsTyped DEF HasNode, RowsInv, Known, Columns
  <1>3. ApplyRemoteEntry(n, e) = Pen(n, e.url, new)
    BY DEF ApplyRemoteEntry
  <1> HIDE DEF self
  <1>4. /\ new \in Columns /\ new.id = e.id /\ new.rev = e.rev /\ new.self = self
        /\ new.models = e.models
    BY <1>1, <1>2, RowTyped
  <1> HIDE DEF new
  <1>5. /\ Pen(n, e.url, new) \in Pens /\ Pen(n, e.url, new).url = e.url
        /\ Pen(n, e.url, new).old = rows[n][e.url] /\ Pen(n, e.url, new).new = new
    BY <1>1, <1>4, PenTyped
  <1>6. Credible(new, cycles[e.url], raced)
    BY <1>4 DEF Credible
  <1> QED BY <1>2, <1>3, <1>4, <1>5, <1>6 DEF PenInv

LEMMA WireEntry ==
    ASSUME ServersTypeOK, RowsInv, NEW n \in Node, NEW u \in Known(n)
    PROVE  /\ NodeToWire(n, u) \in Entry
           /\ Credible(NodeToWire(n, u), cycles[NodeToWire(n, u).url], raced)
  <1>1. u \in Node /\ rows[n][u] \in Columns /\ Credible(rows[n][u], cycles[u], raced)
    BY RowsTyped DEF RowsInv
  <1>2. /\ NodeToWire(n, u) \in Entry /\ NodeToWire(n, u).url = u
        /\ NodeToWire(n, u).id = rows[n][u].id /\ NodeToWire(n, u).rev = rows[n][u].rev
        /\ NodeToWire(n, u).models = rows[n][u].models
    BY <1>1 DEF NodeToWire, Entry, Columns
  <1> QED BY <1>1, <1>2 DEF Credible

LEMMA BatchEntries ==
    ASSUME ServersTypeOK, RowsInv, NEW n \in Node, NEW since \in Nat,
           NEW batch \in Batches(n, since, DeltaBatch)
    PROVE  /\ ToWire(n, batch) \in Seq(Entry) /\ QueueInv(ToWire(n, batch))
           /\ Versions(n, batch) \in SUBSET Nat /\ IsFiniteSet(Versions(n, batch))
           /\ MaxSent(n, since, batch) \in Nat
  <1> DEFINE newer == {u \in Known(n) : rows[n][u].sv > since}
             k == Min({DeltaBatch, Cardinality(newer)})
             w == ToWire(n, batch)
  <1>1. k \in Nat
    <2>1. Cardinality(newer) \in Nat
      BY RowsTyped, FS_Subset, FS_CardinalityType
    <2>2. \A x, y \in Nat : Min({x, y}) \in Nat
      BY MinPair
    <2> HIDE DEF newer
    <2> QED BY <2>1, <2>2, SyncAssumption
  <1>2. batch \in [1 .. k -> newer]
    BY DEF Batches
  <1> HIDE DEF k
  <1>3. /\ w = [i \in 1 .. k |-> NodeToWire(n, batch[i])]
        /\ \A i \in 1 .. k : batch[i] \in Known(n)
    BY <1>2 DEF ToWire
  <1>4. \A i \in 1 .. k : w[i] \in Entry /\ Credible(w[i], cycles[w[i].url], raced)
    BY <1>3, WireEntry
  <1>5. w \in Seq(Entry) /\ Len(w) = k
    <2>1. w \in [1 .. k -> Entry]
      BY <1>3, <1>4
    <2> HIDE DEF w
    <2> QED BY <1>1, <2>1
  <1>6. QueueInv(w)
    BY <1>4, <1>5 DEF QueueInv
  <1>7. Versions(n, batch) \in SUBSET Nat
    BY <1>2, RowsTyped DEF Versions, Columns
  <1>8. IsFiniteSet(Versions(n, batch))
    <2> DEFINE f == [i \in 1 .. k |-> rows[n][batch[i]].sv]
    <2>1. DOMAIN batch = 1 .. k /\ IsFiniteSet(1 .. k)
      BY <1>1, <1>2, FS_Interval
    <2>2. Versions(n, batch) = {f[i] : i \in 1 .. k}
      BY <2>1 DEF Versions
    <2>3. IsFiniteSet({f[i] : i \in 1 .. k})
      BY <2>1, FiniteImage
    <2> QED BY <2>2, <2>3
  <1>9. MaxSent(n, since, batch) \in Nat
    <2> DEFINE V == Versions(n, batch)
    <2>1. IsFiniteSet(V \cup {since}) /\ V \cup {since} \in SUBSET Nat /\ V \cup {since} # {}
      BY <1>7, <1>8, FS_AddElement
    <2>2. {since} \cup V = V \cup {since}
      OBVIOUS
    <2> HIDE DEF V
    <2>3. Max(V \cup {since}) \in Nat
      BY <2>1, MaxOfNaturals
    <2> QED BY <2>2, <2>3 DEF MaxSent, V
  <1> QED BY <1>5, <1>6, <1>7, <1>8, <1>9

(* update_latency and mark_node_offline keep what is known of a row.       *)
LEMMA MarkGood ==
    ASSUME ClusterInv, NEW n \in Node, NEW t \in Targets, NEW alive \in BOOLEAN,
           NEW pc \in {"mark", "offline"}, NEW skip \in {"probe", "gossip"},
           job[n].pc \in {"probe", "gossip", "wait"}
    PROVE  GoodJob(n, Mark(n, t, alive, pc, skip))
  <1>1. ServersTypeOK /\ RowsInv /\ GoodJob(n, job[n])
    BY GoodNow DEF ClusterInv
  <1>2. job[n] \in JobState /\ job[n].pen = NoRow /\ QueueInv(job[n].queue) /\ rows[n][n] # NoRow
    BY <1>1 DEF GoodJob
  <1>3. t.url \in Node
    BY DEF Targets
  <1>4. CASE HasNode(n, t.url, t.id)
    <2> DEFINE row == rows[n][t.url]
               new == IF alive THEN row ELSE Offline(row)
               pen == Pen(n, t.url, new)
               j == [job[n] EXCEPT !.pc = pc, !.todo = @ \ {t}, !.at = NoRow, !.max = 0,
                                   !.clean = @ /\ alive, !.pen = pen]
    <2>1. /\ row \in Columns /\ row # NoRow /\ Credible(row, cycles[t.url], raced)
          /\ row.self => t.url = n
      BY <1>1, <1>3, <1>4, RowsTyped DEF HasNode, RowsInv, Known
    <2> HIDE DEF row
    <2>2. /\ new \in Columns /\ new.id = row.id /\ new.rev = row.rev /\ new.self = row.self
          /\ new.models = row.models
      BY <2>1 DEF Offline, Columns
    <2> HIDE DEF new
    <2>3. /\ pen \in Pens /\ pen.url = t.url /\ pen.new = new
      BY <1>1, <1>3, <2>2, PenTyped
    <2>4. PenInv(n, pen)
      BY <2>1, <2>2, <2>3 DEF PenInv, Credible, row
    <2> HIDE DEF pen
    <2>5. j \in JobState /\ j.pen = pen /\ j.queue = job[n].queue /\ j.pc = pc
      BY <1>2, <2>3 DEF JobState
    <2>6. Mark(n, t, alive, pc, skip) = j
      BY <1>4 DEF Mark, pen, new, row
    <2> HIDE DEF j
    <2> QED BY <1>2, <2>4, <2>5, <2>6 DEF GoodJob
  <1>5. CASE ~HasNode(n, t.url, t.id)
    <2> DEFINE j == [job[n] EXCEPT !.pc = skip, !.todo = @ \ {t}, !.at = NoRow, !.max = 0,
                                   !.clean = @ /\ alive]
    <2>1. j \in JobState /\ j.pen = NoRow /\ j.queue = job[n].queue /\ j.pc = skip
      BY <1>2 DEF JobState
    <2>2. Mark(n, t, alive, pc, skip) = j
      BY <1>5 DEF Mark
    <2> HIDE DEF j
    <2> QED BY <1>2, <2>1, <2>2 DEF GoodJob, PenInv
  <1> QED BY <1>4, <1>5

-----------------------------------------------------------------------------
(* One lemma for each part of the next-state relation                      *)

LEMMA JobFacts ==
    ASSUME ClusterInv, NEW n \in Node
    PROVE  /\ ServersTypeOK /\ RowsInv /\ job[n] \in JobState /\ GoodJob(n, job[n])
           /\ job[n].pen \in Pens \cup {NoRow} /\ job[n].queue \in Seq(Entry)
           /\ job[n].todo \subseteq Node \cup Targets /\ job[n].max \in Nat
           /\ faults \in 0 .. MaxFaults
           /\ job[n].pc \in {"seeds", "probe", "gossip", "wait"} => job[n].pen = NoRow
           /\ PenInv(n, NoRow) /\ QueueInv(<<>>) /\ <<>> \in Seq(Entry)
  <1>1. /\ ServersTypeOK /\ RowsInv /\ job[n] \in JobState /\ GoodJob(n, job[n])
        /\ faults \in 0 .. MaxFaults
    BY GoodNow DEF ClusterInv, ServersTypeOK
  <1>2. /\ job[n].pen \in Pens \cup {NoRow} /\ job[n].queue \in Seq(Entry)
        /\ job[n].todo \subseteq Node \cup Targets /\ job[n].max \in Nat
    BY <1>1 DEF JobState
  <1>3. job[n].pc \in {"seeds", "probe", "gossip", "wait"} => job[n].pen = NoRow
    BY <1>1 DEF GoodJob
  <1>4. PenInv(n, NoRow) /\ QueueInv(<<>>) /\ <<>> \in Seq(Entry)
    BY DEF PenInv, QueueInv
  <1> QED BY <1>1, <1>2, <1>3, <1>4

LEMMA IdleGood == ASSUME NEW n \in Node PROVE GoodJob(n, Idle)
  <1>1. QueueInv(<<>>) /\ PenInv(n, NoRow) /\ <<>> \in Seq(Entry)
    BY DEF QueueInv, PenInv
  <1>2. /\ Idle \in JobState /\ Idle.pen = NoRow /\ Idle.queue = <<>> /\ Idle.pc = "idle"
    BY <1>1 DEF Idle, JobState
  <1> QED BY <1>1, <1>2 DEF GoodJob

LEMMA QuietGood == ASSUME NEW n \in Node PROVE GoodHandler(n, Quiet)
  <1>1. QueueInv(<<>>) /\ PenInv(n, NoRow) /\ <<>> \in Seq(Entry)
    BY DEF QueueInv, PenInv
  <1>2. Quiet \in HandlerState /\ Quiet.pen = NoRow /\ Quiet.queue = <<>>
    BY <1>1 DEF Quiet, HandlerState
  <1> QED BY <1>1, <1>2 DEF GoodHandler

LEMMA StartKeeps ==
    ASSUME ClusterInv, NEW n \in Node, NEW models \in SUBSET Model, StartCycle(n, models)
    PROVE  ClusterInv'
  <1> DEFINE rev == IF HasNode(n, n, "own") THEN rows[n][n].rev + 1 ELSE 1
             new == Row("own", rev, TRUE, TRUE, models)
             pen == EnsureSelfNode(n, models)
             j == [Idle EXCEPT !.pc = "self", !.pen = pen]
  <1>1. /\ job' = [job EXCEPT ![n] = j] /\ cycles' = [cycles EXCEPT ![n] = @ + 1]
        /\ UNCHANGED <<rows, cursor, raced, handler, told, faults>>
    BY DEF StartCycle, tableVars
  <1>2. ServersTypeOK /\ RowsInv /\ cycles \in [Node -> Nat] /\ job \in [Node -> JobState]
    BY DEF ClusterInv, ServersTypeOK
  <1>3. rev \in Nat /\ (rev <= cycles[n] + 1 \/ rev = 1)
    <2>1. CASE HasNode(n, n, "own")
      <3>1. /\ rows[n][n] \in Columns /\ rows[n][n].id = "own"
            /\ Credible(rows[n][n], cycles[n], raced)
        BY <1>2, <2>1, RowsTyped DEF HasNode, RowsInv, Known
      <3>2. rows[n][n].rev \in Nat /\ rows[n][n].rev <= cycles[n] /\ cycles[n] \in Nat
        BY <1>2, <3>1 DEF Credible, Columns
      <3> QED BY <2>1, <3>2
    <2>2. CASE ~HasNode(n, n, "own")
      BY <2>2
    <2> QED BY <2>1, <2>2
  <1> HIDE DEF rev
  <1>4. new \in Columns /\ new.id = "own" /\ new.rev = rev /\ new.self = TRUE
    BY <1>3 DEF Row, Columns, IdKinds
  <1>5. pen = Pen(n, n, new)
    BY DEF EnsureSelfNode, rev
  <1> HIDE DEF new, pen
  <1>6. pen \in Pens /\ pen.url = n /\ pen.old = rows[n][n] /\ pen.new = new
    BY <1>2, <1>4, <1>5, PenTyped
  <1>7. /\ j \in JobState /\ j.pen = pen /\ j.queue = <<>> /\ j.pc = "self"
    <2>1. Idle \in JobState
      BY IdleGood DEF GoodJob
    <2> QED BY <1>6, <2>1 DEF JobState, Idle
  <1> HIDE DEF j
  <1>8. /\ cycles' \in [Node -> Nat] /\ cycles'[n] = cycles[n] + 1 /\ cycles[n] \in Nat
        /\ \A u \in Node : u # n => cycles'[u] = cycles[u]
    BY <1>1, <1>2
  <1>9. Grows
    <2>1. \A u \in Node : cycles[u] \in Nat /\ cycles'[u] \in Nat /\ cycles[u] <= cycles'[u]
      BY <1>2, <1>8
    <2> QED BY <1>1, <2>1 DEF Grows
  <1>10. job' \in [Node -> JobState] /\ job'[n] = j /\ \A i \in Node : i # n => job'[i] = job[i]
    BY <1>1, <1>2, <1>7
  <1>11. ServersTypeOK'
    BY <1>1, <1>2, <1>8, <1>10 DEF ServersTypeOK
  <1>12. RowsInv'
    <2>1. ASSUME NEW i \in Node, NEW u \in Known(i) PROVE Credible(rows[i][u], cycles'[u], raced)
      <3>1. /\ u \in Node /\ rows[i][u].rev \in Nat /\ raced \in BOOLEAN
            /\ Credible(rows[i][u], cycles[u], raced)
        BY <1>2, RowsTyped DEF Columns, RowsInv, ServersTypeOK
      <3> QED BY <1>9, <3>1, CredibleGrows DEF Grows
    <2> QED BY <1>1, <1>2, <2>1 DEF RowsInv, Known
  <1>13. JobInv(n)'
    <2>1. Credible(new, cycles'[n], raced) /\ cycles'[n] > 0
      BY <1>3, <1>4, <1>8 DEF Credible
    <2> QED BY <1>1, <1>6, <1>7, <1>10, <2>1 DEF JobInv, PenInv, QueueInv
  <1> QED BY <1>1, <1>9, <1>10, <1>11, <1>12, <1>13, Keep

(* The steps of a job                                                      *)
LEMMA JobStepKeeps ==
    ASSUME ClusterInv, NEW n \in Node, JobStep(n)
    PROVE  ClusterInv'
  <1>0. /\ ServersTypeOK /\ RowsInv /\ job[n] \in JobState /\ GoodJob(n, job[n])
        /\ job[n].pen \in Pens \cup {NoRow} /\ job[n].queue \in Seq(Entry)
        /\ job[n].todo \subseteq Node \cup Targets /\ job[n].max \in Nat
        /\ faults \in 0 .. MaxFaults
        /\ job[n].pc \in {"seeds", "probe", "gossip", "wait"} => job[n].pen = NoRow
        /\ PenInv(n, NoRow) /\ QueueInv(<<>>) /\ <<>> \in Seq(Entry)
    BY JobFacts
  <1>1. CASE GiveUpCycle(n)
    BY <1>0, <1>1, IdleGood, JobMoves DEF GiveUpCycle, OnlyJob
  <1>2. CASE SelfAnnounced(n)
    <2> DEFINE j == [job[n] EXCEPT !.pc = "seeds", !.pen = NoRow, !.todo = Seeds[n] \ {n}]
    <2>1. job[n].pc = "self" /\ job[n].pen # NoRow /\ CommitJob(n, "self", j)
      BY <1>2 DEF SelfAnnounced, CommitJob
    <2>2. /\ j \in JobState /\ j.pen = NoRow /\ j.queue = job[n].queue /\ j.pc = "seeds"
      <3>1. Seeds[n] \ {n} \subseteq Node \cup Targets
        BY SyncAssumption
      <3> QED BY <1>0, <3>1 DEF JobState
    <2>3. job[n].pen.url = n /\ QueueInv(job[n].queue)
      BY <1>0, <2>1 DEF GoodJob
    <2> HIDE DEF j
    <2> QED BY <2>1, <2>2, <2>3, JobCommits
  <1>3. ASSUME NEW pc \in {"seed", "mark", "offline"}, NEW next \in {"seeds", "probe", "gossip"},
               CommitJob(n, pc, [job[n] EXCEPT !.pc = next, !.pen = NoRow])
        PROVE  ClusterInv'
    <2> DEFINE j == [job[n] EXCEPT !.pc = next, !.pen = NoRow]
    <2>1. job[n].pc = pc
      BY <1>3 DEF CommitJob
    <2>2. j \in JobState /\ j.pen = NoRow /\ j.queue = job[n].queue /\ j.pc = next
      BY <1>0 DEF JobState
    <2>3. rows[n][n] # NoRow /\ QueueInv(job[n].queue)
      BY <1>0, <2>1 DEF GoodJob
    <2>4. CommitJob(n, pc, j)
      BY <1>3
    <2> HIDE DEF j
    <2> QED BY <2>2, <2>3, <2>4, JobCommits
  <1>4. CASE SeedAdded(n) \/ Marked(n) \/ MarkedOffline(n)
    BY <1>3, <1>4 DEF SeedAdded, Marked, MarkedOffline
  <1>5. ASSUME NEW s \in Node, SkipSeed(n, s) PROVE ClusterInv'
    <2> DEFINE j == [job[n] EXCEPT !.todo = @ \ {s}]
    <2>1. /\ j \in JobState /\ j.pen = job[n].pen /\ j.queue = job[n].queue
          /\ j.pc = job[n].pc /\ j.at = job[n].at
      BY <1>0 DEF JobState
    <2>2. job' = [job EXCEPT ![n] = j] /\ OnlyJob
      BY <1>5 DEF SkipSeed
    <2> HIDE DEF j
    <2>3. GoodJob(n, j)
      BY <1>0, <2>1 DEF GoodJob
    <2> QED BY <1>0, <2>2, <2>3, JobMoves DEF OnlyJob
  <1>6. ASSUME NEW s \in Node, AddSeed(n, s) PROVE ClusterInv'
    <2> DEFINE new == Row("seed", 1, FALSE, TRUE, {})
               pen == Pen(n, s, new)
               j == [job[n] EXCEPT !.pc = "seed", !.todo = @ \ {s}, !.pen = pen]
    <2>1. job' = [job EXCEPT ![n] = j] /\ OnlyJob /\ job[n].pc = "seeds"
      BY <1>6 DEF AddSeed
    <2>2. new \in Columns /\ new.id = "seed" /\ new.rev = 1 /\ new.self = FALSE /\ new.models = {}
      BY DEF Row, Columns, IdKinds
    <2> HIDE DEF new
    <2>3. pen \in Pens /\ pen.url = s /\ pen.old = rows[n][s] /\ pen.new = new
      BY <1>0, <2>2, PenTyped
    <2> HIDE DEF pen
    <2>4. PenInv(n, pen)
      BY <2>2, <2>3 DEF PenInv, Credible
    <2>5. j \in JobState /\ j.pen = pen /\ j.queue = job[n].queue /\ j.pc = "seed"
      BY <1>0, <2>3 DEF JobState
    <2> HIDE DEF j
    <2>6. GoodJob(n, j)
      BY <1>0, <2>1, <2>4, <2>5 DEF GoodJob
    <2> QED BY <1>0, <2>1, <2>6, JobMoves DEF OnlyJob
  <1>7. ASSUME NEW from \in {"seeds", "probe"}, NEW to \in {"probe", "gossip"}, NEW count,
               Choose(n, from, to, count)
        PROVE  ClusterInv'
    <2>1. PICK urls \in GossipNeighbors(n, count) :
             job' = [job EXCEPT ![n] = [@ EXCEPT !.pc = to, !.todo = Named(n, urls)]]
      BY <1>7 DEF Choose
    <2> DEFINE todo == Named(n, urls)
               j == [job[n] EXCEPT !.pc = to, !.todo = todo]
    <2>2. todo \subseteq Targets
      <3>1. urls \subseteq Known(n)
        BY DEF GossipNeighbors, AliveRemote
      <3> QED BY <1>0, <3>1, RowsTyped DEF Named, Targets, Columns
    <2>3. job' = [job EXCEPT ![n] = j] /\ OnlyJob /\ job[n].pc = from
      BY <1>7, <2>1 DEF Choose
    <2> HIDE DEF todo
    <2>4. j \in JobState /\ j.pen = job[n].pen /\ j.queue = job[n].queue /\ j.pc = to
      BY <1>0, <2>2 DEF JobState
    <2> HIDE DEF j
    <2>5. GoodJob(n, j)
      BY <1>0, <2>3, <2>4 DEF GoodJob
    <2> QED BY <1>0, <2>3, <2>5, JobMoves DEF OnlyJob
  <1>8. CASE ChooseNeighbors(n) \/ ChooseTargets(n)
    BY <1>7, <1>8 DEF ChooseNeighbors, ChooseTargets
  <1>9. ASSUME NEW t \in Targets, Probe(n, t, TRUE) PROVE ClusterInv'
    <2>1. /\ job[n].pc = "probe" /\ job' = [job EXCEPT ![n] = Mark(n, t, TRUE, "mark", "probe")]
          /\ UNCHANGED <<tableVars, handler, told, cycles, faults>>
      BY <1>9 DEF Probe
    <2>2. GoodJob(n, Mark(n, t, TRUE, "mark", "probe"))
      BY <2>1, MarkGood
    <2> HIDE DEF Mark
    <2> QED BY <1>0, <2>1, <2>2, JobMoves
  <1>10. ASSUME NEW t \in Targets, Post(n, t) PROVE ClusterInv'
    <2>1. job[n].pc = "gossip" /\ UNCHANGED <<tableVars, told, cycles, faults>>
      BY <1>10 DEF Post
    <2> DEFINE since == cursor[n][t.url][t.id]
    <2>2. PICK batch \in Batches(n, since, DeltaBatch) :
            /\ handler' = [handler EXCEPT ![t.url][n] =
                 [pc |-> "apply", pen |-> NoRow, since |-> since,
                  queue |-> <<SenderEntry(n)>> \o ToWire(n, batch), svs |-> Versions(n, batch)]]
            /\ job' = [job EXCEPT ![n] = [@ EXCEPT !.pc = "wait", !.at = t,
                                                   !.max = MaxSent(n, since, batch)]]
      BY <1>10 DEF Post
    <2>3. t.url \in Node /\ t.id \in IdKinds /\ since \in Nat
      <3>1. t.url \in Node /\ t.id \in IdKinds
        BY DEF Targets
      <3> QED BY <1>0, <3>1 DEF ServersTypeOK
    <2> HIDE DEF since
    <2>4. /\ ToWire(n, batch) \in Seq(Entry) /\ QueueInv(ToWire(n, batch))
          /\ Versions(n, batch) \in SUBSET Nat /\ MaxSent(n, since, batch) \in Nat
      BY <1>0, <2>3, BatchEntries
    <2> DEFINE e == SenderEntry(n)
               w == ToWire(n, batch)
               q == <<e>> \o w
               h == [pc |-> "apply", pen |-> NoRow, since |-> since,
                     queue |-> q, svs |-> Versions(n, batch)]
               j == [job[n] EXCEPT !.pc = "wait", !.at = t, !.max = MaxSent(n, since, batch)]
    <2>5. rows[n][n] # NoRow /\ job[n].pen = NoRow /\ QueueInv(job[n].queue)
      BY <1>0, <2>1 DEF GoodJob
    <2>6. e \in Entry /\ Credible(e, cycles[e.url], raced)
      <3>1. n \in Known(n)
        BY <2>5 DEF Known
      <3> DEFINE x == NodeToWire(n, n)
      <3>2. x \in Entry /\ Credible(x, cycles[x.url], raced)
        BY <1>0, <3>1, WireEntry
      <3>3. e = [x EXCEPT !.alive = TRUE]
        BY DEF SenderEntry
      <3> HIDE DEF x, e
      <3>4. /\ e \in Entry /\ e.url = x.url /\ e.id = x.id /\ e.rev = x.rev /\ e.models = x.models
        BY <3>2, <3>3 DEF Entry
      <3> QED BY <3>2, <3>4 DEF Credible
    <2> HIDE DEF e, w
    <2>7. q \in Seq(Entry) /\ QueueInv(q)
      <3>1. w \in Seq(Entry) /\ QueueInv(w)
        BY <2>4 DEF w
      <3>2. /\ q \in Seq(Entry) /\ Len(q) = Len(w) + 1 /\ Len(w) \in Nat /\ q[1] = e
            /\ \A i \in 2 .. Len(w) + 1 : q[i] = w[i - 1] /\ i - 1 \in 1 .. Len(w)
        BY <2>6, <3>1
      <3>3. \A i \in 1 .. Len(q) : i = 1 \/ i \in 2 .. Len(w) + 1
        BY <3>2
      <3> HIDE DEF q
      <3> QED BY <2>6, <3>1, <3>2, <3>3 DEF QueueInv
    <2> HIDE DEF q
    <2>8. GoodHandler(t.url, h)
      <3>1. PenInv(t.url, NoRow)
        BY DEF PenInv
      <3> QED BY <2>3, <2>4, <2>7, <3>1 DEF GoodHandler, HandlerState
    <2>9. /\ j \in JobState /\ j.pen = NoRow /\ j.queue = job[n].queue /\ j.pc = "wait"
          /\ j.at = t
      BY <1>0, <2>4, <2>5 DEF JobState
    <2>10. handler' = [handler EXCEPT ![t.url][n] = h] /\ job' = [job EXCEPT ![n] = j]
      BY <2>2 DEF q, e, w
    <2> HIDE DEF h, j
    <2>11. GoodJob(n, j)
      BY <1>0, <2>5, <2>9 DEF GoodJob
    <2> QED BY <2>1, <2>3, <2>8, <2>10, <2>11, BothMove
  <1>11. CASE Answered(n)
    <2> DEFINE u == job[n].at.url
               h == handler[u][n]
               j == [job[n] EXCEPT !.pc = "apply", !.queue = h.queue]
    <2>1. /\ job[n].pc = "wait" /\ job' = [job EXCEPT ![n] = j]
          /\ handler' = [handler EXCEPT ![u][n] = Quiet]
          /\ UNCHANGED <<tableVars, told, cycles, faults>>
      BY <1>11 DEF Answered
    <2>2. job[n].at \in Targets /\ u \in Node /\ rows[n][n] # NoRow /\ job[n].pen = NoRow
      BY <1>0, <2>1 DEF GoodJob, Targets
    <2> HIDE DEF u
    <2>3. h.queue \in Seq(Entry) /\ QueueInv(h.queue)
      BY <2>2, GoodNow DEF GoodHandler, HandlerState
    <2> HIDE DEF h
    <2>4. /\ j \in JobState /\ j.pen = NoRow /\ j.queue = h.queue /\ j.pc = "apply"
          /\ j.at = job[n].at
      BY <1>0, <2>2, <2>3 DEF JobState
    <2> HIDE DEF j
    <2>5. GoodJob(n, j)
      BY <1>0, <2>2, <2>3, <2>4 DEF GoodJob
    <2> QED BY <2>1, <2>2, <2>5, QuietGood, BothMove
  <1>12. CASE AnsweredError(n)
    <2> DEFINE t == job[n].at
    <2>1. /\ job[n].pc = "wait" /\ job' = [job EXCEPT ![n] = Mark(n, t, FALSE, "offline", "gossip")]
          /\ handler' = [handler EXCEPT ![t.url][n] = Quiet]
          /\ UNCHANGED <<tableVars, told, cycles, faults>>
      BY <1>12 DEF AnsweredError
    <2>2. t \in Targets /\ t.url \in Node
      BY <1>0, <2>1 DEF GoodJob, Targets
    <2> HIDE DEF t
    <2>3. GoodJob(n, Mark(n, t, FALSE, "offline", "gossip"))
      BY <2>1, <2>2, MarkGood
    <2> QED BY <2>1, <2>2, <2>3, QuietGood, BothMove
  <1>13. CASE RefuseEntry(n)
    <2> DEFINE j == [job[n] EXCEPT !.queue = Tail(@)]
    <2>1. /\ job[n].pc = "apply" /\ job[n].pen = NoRow /\ job[n].queue # <<>>
          /\ job' = [job EXCEPT ![n] = j] /\ OnlyJob
      BY <1>13 DEF RefuseEntry
    <2>2. Tail(job[n].queue) \in Seq(Entry) /\ QueueInv(Tail(job[n].queue))
      BY <1>0, <2>1, TailEntries DEF GoodJob
    <2>3. /\ j \in JobState /\ j.pen = NoRow /\ j.queue = Tail(job[n].queue) /\ j.pc = "apply"
          /\ j.at = job[n].at
      BY <1>0, <2>1, <2>2 DEF JobState
    <2> HIDE DEF j
    <2>4. GoodJob(n, j)
      BY <1>0, <2>1, <2>2, <2>3 DEF GoodJob
    <2> QED BY <1>0, <2>1, <2>4, JobMoves DEF OnlyJob
  <1>14. CASE TakeEntry(n)
    <2> DEFINE pen == ApplyRemoteEntry(n, Head(job[n].queue))
               j == [job[n] EXCEPT !.pen = pen]
    <2>1. /\ job[n].pc = "apply" /\ job[n].queue # <<>>
          /\ job' = [job EXCEPT ![n] = j] /\ OnlyJob
      BY <1>14 DEF TakeEntry
    <2>2. /\ Head(job[n].queue) \in Entry
          /\ Credible(Head(job[n].queue), cycles[Head(job[n].queue).url], raced)
      BY <1>0, <2>1, TailEntries DEF GoodJob
    <2>3. pen \in Pens /\ PenInv(n, pen)
      BY <1>0, <2>2, EntryPen
    <2> HIDE DEF pen
    <2>4. /\ j \in JobState /\ j.pen = pen /\ j.queue = job[n].queue /\ j.pc = "apply"
          /\ j.at = job[n].at
      BY <1>0, <2>1, <2>3 DEF JobState
    <2> HIDE DEF j
    <2>5. GoodJob(n, j)
      BY <1>0, <2>1, <2>3, <2>4 DEF GoodJob
    <2> QED BY <1>0, <2>1, <2>5, JobMoves DEF OnlyJob
  <1>15. CASE EntryApplied(n)
    <2> DEFINE j == [job[n] EXCEPT !.pen = NoRow, !.queue = Tail(@)]
    <2>1. job[n].pc = "apply" /\ job[n].pen # NoRow /\ CommitJob(n, "apply", j)
      BY <1>15 DEF EntryApplied, CommitJob
    <2>2. /\ job[n].queue # <<>> /\ QueueInv(job[n].queue) /\ rows[n][n] # NoRow
          /\ job[n].at \in Targets
      BY <1>0, <2>1 DEF GoodJob
    <2>3. Tail(job[n].queue) \in Seq(Entry) /\ QueueInv(Tail(job[n].queue))
      BY <1>0, <2>2, TailEntries
    <2>4. /\ j \in JobState /\ j.pen = NoRow /\ j.queue = Tail(job[n].queue)
          /\ j.at = job[n].at
      BY <1>0, <2>3 DEF JobState
    <2> HIDE DEF j
    <2> QED BY <2>1, <2>2, <2>3, <2>4, JobCommits
  <1>16. CASE AdvanceCursor(n)
    <2> DEFINE t == job[n].at
               v == job[n].max
               j == [job[n] EXCEPT !.pc = "gossip", !.todo = @ \ {t}, !.at = NoRow, !.max = 0]
    <2>1. /\ job[n].pc = "apply" /\ job[n].queue = <<>> /\ job' = [job EXCEPT ![n] = j]
          /\ cursor' = [cursor EXCEPT ![n][t.url][t.id] = v]
          /\ UNCHANGED <<rows, raced, handler, told, cycles, faults>>
      BY <1>16 DEF AdvanceCursor, UpsertNeighborSync
    <2>2. job[n].pen = NoRow /\ rows[n][n] # NoRow /\ t \in Targets
      BY <1>0, <2>1 DEF GoodJob
    <2>3. t.url \in Node /\ t.id \in IdKinds /\ v \in Nat
      BY <1>0, <2>2 DEF Targets
    <2>4. /\ j \in JobState /\ j.pen = NoRow /\ j.queue = <<>> /\ j.pc = "gossip"
      BY <1>0, <2>1, <2>2 DEF JobState
    <2>5. job \in [Node -> JobState] /\ cursor \in [Node -> [Node -> [IdKinds -> Nat]]]
      BY <1>0 DEF ServersTypeOK
    <2> HIDE DEF j, t, v
    <2>6. /\ job' \in [Node -> JobState] /\ job'[n] = j
          /\ \A i \in Node : i # n => job'[i] = job[i]
      BY <2>1, <2>4, <2>5
    <2>7. cursor' \in [Node -> [Node -> [IdKinds -> Nat]]]
      BY <2>1, <2>3, <2>5
    <2>8. ServersTypeOK'
      BY <1>0, <2>1, <2>6, <2>7 DEF ServersTypeOK
    <2>9. Grows
      BY <1>0, <2>1 DEF Grows, ServersTypeOK
    <2>10. RowsInv'
      BY <2>1 DEF RowsInv, Known, ClusterInv
    <2>11. JobInv(n)'
      BY <2>1, <2>2, <2>4, <2>6 DEF JobInv, PenInv, QueueInv
    <2> QED BY <2>1, <2>6, <2>8, <2>9, <2>10, <2>11, Keep
  <1>17. CASE EndCycle(n)
    BY <1>0, <1>17, IdleGood, JobMoves DEF EndCycle, OnlyJob
  <1> QED BY <1>1, <1>2, <1>4, <1>5, <1>6, <1>8, <1>9, <1>10, <1>11, <1>12, <1>13, <1>14, <1>15,
             <1>16, <1>17 DEF JobStep

LEMMA JobFaultKeeps ==
    ASSUME ClusterInv, NEW n \in Node, JobFault(n)
    PROVE  ClusterInv'
  <1>0. /\ job[n] \in JobState /\ GoodJob(n, job[n]) /\ faults \in 0 .. MaxFaults
    BY JobFacts
  <1>1. ASSUME Fault PROVE faults' \in 0 .. MaxFaults
    BY <1>0, <1>1, SyncAssumption DEF Fault
  <1>2. ASSUME NEW t \in Targets, NEW pc \in {"mark", "offline"}, NEW skip \in {"probe", "gossip"},
               job[n].pc \in {"probe", "gossip", "wait"}, Fault,
               job' = [job EXCEPT ![n] = Mark(n, t, FALSE, pc, skip)],
               UNCHANGED <<tableVars, handler, told, cycles>>
        PROVE  ClusterInv'
    <2>1. GoodJob(n, Mark(n, t, FALSE, pc, skip))
      BY <1>2, MarkGood
    <2> QED BY <1>1, <1>2, <2>1, JobMoves
  <1>3. CASE AnswerLost(n)
    <2>1. job[n].pc = "wait" /\ job[n].at \in Targets
      BY <1>0, <1>3 DEF AnswerLost, GoodJob
    <2> QED BY <1>2, <1>3, <2>1 DEF AnswerLost
  <1>4. ASSUME NEW t \in Targets, Probe(n, t, FALSE) PROVE ClusterInv'
    BY <1>2, <1>4 DEF Probe
  <1>5. ASSUME NEW t \in Targets, PostFails(n, t) PROVE ClusterInv'
    BY <1>2, <1>5 DEF PostFails
  <1> QED BY <1>3, <1>4, <1>5 DEF JobFault

LEMMA HandlerStepKeeps ==
    ASSUME ClusterInv, NEW n \in Node, NEW m \in Node, HandlerStep(n, m)
    PROVE  ClusterInv'
  <1> DEFINE h == handler[n][m]
  <1>0. /\ ServersTypeOK /\ RowsInv /\ h \in HandlerState /\ GoodHandler(n, h)
        /\ h.pen \in Pens \cup {NoRow} /\ h.queue \in Seq(Entry) /\ QueueInv(h.queue)
        /\ h.since \in Nat /\ h.svs \in SUBSET Nat /\ PenInv(n, h.pen)
        /\ handler \in [Node -> [Node -> HandlerState]]
        /\ told \in [Node -> [Node -> SUBSET Nat]] /\ job \in [Node -> JobState]
    <2>1. ServersTypeOK /\ RowsInv /\ h \in HandlerState /\ GoodHandler(n, h)
      BY GoodNow DEF ClusterInv, ServersTypeOK
    <2> HIDE DEF h
    <2> QED BY <2>1 DEF ServersTypeOK, GoodHandler, HandlerState
  <1>1. CASE HandlerRefuses(n, m)
    <2> DEFINE k == [h EXCEPT !.queue = Tail(@)]
    <2>1. /\ h.pc = "apply" /\ h.pen = NoRow /\ h.queue # <<>> /\ OnlyHandler
          /\ handler' = [handler EXCEPT ![n][m] = k]
      BY <1>0, <1>1 DEF HandlerRefuses
    <2> HIDE DEF h
    <2>2. Tail(h.queue) \in Seq(Entry) /\ QueueInv(Tail(h.queue))
      BY <1>0, <2>1, TailEntries
    <2>3. k \in HandlerState /\ k.pen = NoRow /\ k.queue = Tail(h.queue)
      BY <1>0, <2>1, <2>2 DEF HandlerState
    <2> HIDE DEF k
    <2>4. GoodHandler(n, k)
      BY <2>2, <2>3 DEF GoodHandler, PenInv
    <2> QED BY <1>0, <2>1, <2>4, HandlerMoves DEF OnlyHandler
  <1>2. CASE HandlerTakes(n, m)
    <2> DEFINE pen == ApplyRemoteEntry(n, Head(h.queue))
               k == [h EXCEPT !.pen = pen]
    <2>1. /\ h.pc = "apply" /\ h.queue # <<>> /\ OnlyHandler
          /\ handler' = [handler EXCEPT ![n][m] = k]
      BY <1>0, <1>2 DEF HandlerTakes
    <2> HIDE DEF h
    <2>2. Head(h.queue) \in Entry /\ Credible(Head(h.queue), cycles[Head(h.queue).url], raced)
      BY <1>0, <2>1, TailEntries
    <2>3. pen \in Pens /\ PenInv(n, pen)
      BY <1>0, <2>2, EntryPen
    <2> HIDE DEF pen
    <2>4. k \in HandlerState /\ k.pen = pen /\ k.queue = h.queue /\ k.pc = "apply"
      BY <1>0, <2>1, <2>3 DEF HandlerState
    <2> HIDE DEF k
    <2>5. GoodHandler(n, k)
      BY <1>0, <2>1, <2>3, <2>4 DEF GoodHandler
    <2> QED BY <1>0, <2>1, <2>5, HandlerMoves DEF OnlyHandler
  <1>3. CASE HandlerApplies(n, m)
    <2> DEFINE k == [h EXCEPT !.pen = NoRow, !.queue = Tail(@)]
    <2>1. /\ h.pen # NoRow /\ ~Conflicts(n, h.pen) /\ CommitWithin(n, h.pen)
          /\ handler' = [handler EXCEPT ![n][m] = k]
          /\ UNCHANGED <<job, told, cycles, faults>>
      BY <1>3 DEF HandlerApplies
    <2> HIDE DEF h
    <2>2. h.queue # <<>> /\ h.pen \in Pens
      BY <1>0, <2>1 DEF GoodHandler
    <2>3. Tail(h.queue) \in Seq(Entry) /\ QueueInv(Tail(h.queue))
      BY <1>0, <2>2, TailEntries
    <2>4. k \in HandlerState /\ k.pen = NoRow /\ k.queue = Tail(h.queue)
      BY <1>0, <2>3 DEF HandlerState
    <2> HIDE DEF k
    <2>5. /\ handler' \in [Node -> [Node -> HandlerState]] /\ handler'[n][m] = k
          /\ \A i, w \in Node : ~(i = n /\ w = m) => handler'[i][w] = handler[i][w]
      BY <1>0, <2>1, <2>4
    <2>6. /\ ServersTypeOK' /\ Grows /\ RowsInv'
      BY <1>0, <2>1, <2>2, <2>5, CommitTables
    <2>7. HandlerInv(n, m)'
      <3>1. \A i \in 1 .. Len(k.queue) : Credible(k.queue[i], cycles'[k.queue[i].url], raced')
        <4>1. raced' \in BOOLEAN
          BY <2>6 DEF ServersTypeOK
        <4> DEFINE q == Tail(h.queue)
        <4>2. q \in Seq(Entry) /\ QueueInv(q)
          BY <2>3
        <4> HIDE DEF q
        <4>3. \A i \in 1 .. Len(q) : Credible(q[i], cycles'[q[i].url], raced')
          BY <1>0, <2>6, <4>1, <4>2, QueueStays
        <4> QED BY <2>4, <4>3 DEF q
      <3> QED BY <2>4, <2>5, <3>1 DEF HandlerInv, PenInv, QueueInv
    <2>8. \A i, w \in Node : handler'[i][w] = handler[i][w] \/ HandlerInv(i, w)'
      BY <2>5, <2>7
    <2>9. \A i \in Node : job'[i] = job[i]
      BY <2>1
    <2> QED BY <2>6, <2>8, <2>9, Keep
  <1>4. CASE HandlerFails(n, m)
    <2> DEFINE k == [Quiet EXCEPT !.pc = "failed"]
    <2>1. k \in HandlerState /\ k.pen = NoRow /\ k.queue = <<>>
      BY QuietGood DEF GoodHandler, Quiet, HandlerState
    <2>2. GoodHandler(n, k)
      BY <2>1 DEF GoodHandler, PenInv, QueueInv
    <2>3. handler' = [handler EXCEPT ![n][m] = k] /\ OnlyHandler
      BY <1>4 DEF HandlerFails
    <2> HIDE DEF k
    <2> QED BY <1>0, <2>2, <2>3, HandlerMoves DEF OnlyHandler
  <1>5. CASE HandlerReplies(n, m)
    <2>1. PICK batch \in Batches(n, h.since, DeltaBatch) :
             handler' = [handler EXCEPT ![n][m] =
                           [Quiet EXCEPT !.pc = "reply", !.queue = ToWire(n, batch)]]
      BY <1>5 DEF HandlerReplies
    <2>2. /\ told' = [told EXCEPT ![m][n] = @ \cup h.svs]
          /\ UNCHANGED <<tableVars, job, cycles, faults>>
      BY <1>5 DEF HandlerReplies
    <2> DEFINE w == ToWire(n, batch)
               k == [Quiet EXCEPT !.pc = "reply", !.queue = w]
    <2> HIDE DEF h
    <2>3. w \in Seq(Entry) /\ QueueInv(w)
      BY <1>0, BatchEntries
    <2> HIDE DEF w
    <2>4. k \in HandlerState /\ k.pen = NoRow /\ k.queue = w
      BY <2>3 DEF Quiet, HandlerState
    <2>5. handler' = [handler EXCEPT ![n][m] = k]
      BY <2>1 DEF w
    <2> HIDE DEF k
    <2>6. GoodHandler(n, k)
      BY <2>3, <2>4 DEF GoodHandler, PenInv
    <2>7. told' \in [Node -> [Node -> SUBSET Nat]]
      BY <1>0, <2>2
    <2> QED BY <2>2, <2>5, <2>6, <2>7, HandlerMoves
  <1>6. CASE HandlerDropped(n, m)
    BY <1>0, <1>6, QuietGood, HandlerMoves DEF HandlerDropped, OnlyHandler
  <1> QED BY <1>1, <1>2, <1>3, <1>4, <1>5, <1>6 DEF HandlerStep

LEMMA RestartKeeps ==
    ASSUME ClusterInv, NEW n \in Node, RestartServer(n)
    PROVE  ClusterInv'
  <1>1. /\ faults' = faults + 1 /\ faults < MaxFaults
        /\ job' = [job EXCEPT ![n] = Idle]
        /\ handler' = [handler EXCEPT ![n] = [m \in Node |-> Quiet]]
        /\ UNCHANGED <<tableVars, told, cycles>>
    BY DEF RestartServer, Fault
  <1>2. /\ job \in [Node -> JobState] /\ handler \in [Node -> [Node -> HandlerState]]
        /\ told \in [Node -> [Node -> SUBSET Nat]] /\ faults \in 0 .. MaxFaults
    BY DEF ClusterInv, ServersTypeOK
  <1>3. GoodJob(n, Idle) /\ GoodHandler(n, Quiet)
    BY IdleGood, QuietGood
  <1>4. Idle \in JobState /\ Quiet \in HandlerState
    BY <1>3 DEF GoodJob, GoodHandler
  <1>5. job' \in [Node -> JobState] /\ \A i \in Node : job'[i] = job[i] \/ GoodJob(i, job'[i])
    BY <1>1, <1>2, <1>3, <1>4
  <1>6. /\ handler' \in [Node -> [Node -> HandlerState]]
        /\ \A i, w \in Node : handler'[i][w] = handler[i][w] \/ GoodHandler(i, handler'[i][w])
    <2> DEFINE quiet == [m \in Node |-> Quiet]
    <2>1. quiet \in [Node -> HandlerState] /\ \A w \in Node : quiet[w] = Quiet
      BY <1>4
    <2>2. handler' = [handler EXCEPT ![n] = quiet]
      BY <1>1
    <2> HIDE DEF quiet
    <2> QED BY <1>2, <1>3, <2>1, <2>2
  <1>7. faults' \in 0 .. MaxFaults
    BY <1>1, <1>2, SyncAssumption
  <1> QED BY <1>1, <1>2, <1>5, <1>6, <1>7, Moves

-----------------------------------------------------------------------------
(* The invariant holds in every state of the cluster.                      *)
THEOREM ClusterInvariant == ClusterSpec => []ClusterInv
  <1>1. ClusterInit => ClusterInv
    <2> SUFFICES ASSUME ClusterInit PROVE ClusterInv
      OBVIOUS
    <2>1. /\ rows = [n \in Node |-> [u \in Node |-> NoRow]] /\ raced = FALSE
          /\ cursor = [n \in Node |-> [u \in Node |-> [k \in IdKinds |-> 0]]]
          /\ job = [n \in Node |-> Idle] /\ handler = [n \in Node |-> [m \in Node |-> Quiet]]
          /\ told = [n \in Node |-> [m \in Node |-> {}]] /\ cycles = [n \in Node |-> 0]
          /\ faults = 0
      BY DEF ClusterInit, TableInit, SyncInit
    <2>5. ServersTypeOK
      <3>1. rows \in [Node -> [Node -> Columns \cup {NoRow}]] /\ raced \in BOOLEAN
        BY <2>1
      <3>2. cursor \in [Node -> [Node -> [IdKinds -> Nat]]]
        BY <2>1
      <3>3. Idle \in JobState /\ Quiet \in HandlerState
        <4> <<>> \in Seq(Entry)
          OBVIOUS
        <4> QED BY DEF Idle, Quiet, JobState, HandlerState
      <3>4. job \in [Node -> JobState] /\ handler \in [Node -> [Node -> HandlerState]]
        BY <2>1, <3>3
      <3>5. told \in [Node -> [Node -> SUBSET Nat]] /\ cycles \in [Node -> Nat]
        BY <2>1
      <3>6. faults \in 0 .. MaxFaults
        BY <2>1, SyncAssumption
      <3> QED BY <3>1, <3>2, <3>4, <3>5, <3>6 DEF ServersTypeOK
    <2>6. RowsInv
      BY <2>1 DEF RowsInv, Known
    <2>8. \A i \in Node : JobInv(i)
      BY <2>1 DEF JobInv, Idle, PenInv, QueueInv
    <2>9. \A i, k \in Node : HandlerInv(i, k)
      BY <2>1 DEF HandlerInv, Quiet, PenInv, QueueInv
    <2> QED BY <2>5, <2>6, <2>8, <2>9 DEF ClusterInv
  <1>2. ClusterInv /\ [ClusterNext]_clusterVars => ClusterInv'
    <2> SUFFICES ASSUME ClusterInv, [ClusterNext]_clusterVars PROVE ClusterInv'
      OBVIOUS
    <2>1. CASE UNCHANGED <<tableVars, syncVars>>
      <3>1. UNCHANGED <<tableVars, job, handler, told, cycles, faults>>
        BY <2>1 DEF syncVars
      <3>2. /\ told \in [Node -> [Node -> SUBSET Nat]] /\ faults \in 0 .. MaxFaults
            /\ job \in [Node -> JobState] /\ handler \in [Node -> [Node -> HandlerState]]
        BY DEF ClusterInv, ServersTypeOK
      <3> QED BY <3>1, <3>2, Moves
    <2>2. ASSUME NEW n \in Node, NEW models \in SUBSET Model, StartCycle(n, models)
          PROVE  ClusterInv'
      BY <2>2, StartKeeps
    <2>3. ASSUME NEW n \in Node, JobStep(n) PROVE ClusterInv'
      BY <2>3, JobStepKeeps
    <2>4. ASSUME NEW n \in Node, NEW m \in Node, HandlerStep(n, m)
          PROVE  ClusterInv'
      BY <2>4, HandlerStepKeeps
    <2>5. ASSUME NEW n \in Node, JobFault(n) PROVE ClusterInv'
      BY <2>5, JobFaultKeeps
    <2>6. ASSUME NEW n \in Node, RestartServer(n) PROVE ClusterInv'
      BY <2>6, RestartKeeps
    <2>7. CASE UNCHANGED clusterVars
      BY <2>1, <2>7 DEF clusterVars
    <2>8. CASE ClusterNext
      <3>1. \/ \E n \in Node, models \in SUBSET Model : StartCycle(n, models)
            \/ \E n \in Node : JobStep(n) \/ JobFault(n) \/ RestartServer(n)
            \/ \E n, m \in Node : HandlerStep(n, m)
            \/ UNCHANGED <<tableVars, syncVars>>
        BY <2>8, Zenon DEF ClusterNext, ServerStep
      <3> QED BY <2>1, <2>2, <2>3, <2>4, <2>5, <2>6, <3>1, Zenon
    <2> QED BY <2>7, <2>8
  <1> QED BY <1>1, <1>2, PTL DEF ClusterSpec

(* A row under a seed's made-up id offers no model, until two writers of a *)
(* table race (_seed_nodes, apply_remote_entry).                           *)
THEOREM SeedsOfferNothing == ClusterSpec => []SeedRowsOfferNothing
  <1>1. ClusterInv => SeedRowsOfferNothing
    BY DEF ClusterInv, RowsInv, Credible, SeedRowsOfferNothing
  <1> QED BY <1>1, ClusterInvariant, PTL

(* No server is known with a revision it has not announced, whatever is    *)
(* lost, repeated, raced or restarted (ensure_self_node).                  *)
THEOREM RevisionsAreAnnounced == ClusterSpec => []NoRevisionAhead
  <1>1. ClusterInv => NoRevisionAhead
    <2> SUFFICES ASSUME ClusterInv, NEW n \in Node, NEW u \in Known(n), rows[n][u].id = "own"
                 PROVE  rows[n][u].rev <= cycles[u]
      BY DEF NoRevisionAhead
    <2>1. Credible(rows[n][u], cycles[u], raced) /\ cycles[u] \in Nat
      BY RowsTyped DEF ClusterInv, RowsInv, ServersTypeOK, Known
    <2> QED BY <2>1 DEF Credible
  <1> QED BY <1>1, ClusterInvariant, PTL

(* is_self marks a server's own row and no other, whatever its neighbours  *)
(* tell it about itself (get_self_node, apply_remote_entry).               *)
THEOREM SelfIsOne == ClusterSpec => []OnlyOwnRowIsSelf
  <1>1. ClusterInv => OnlyOwnRowIsSelf
    BY DEF ClusterInv, RowsInv, OnlyOwnRowIsSelf
  <1> QED BY <1>1, ClusterInvariant, PTL

-----------------------------------------------------------------------------
(* The way of a request                                                    *)

LEMMA RacedStays ==
    ASSUME ServersTypeOK, ClusterNext, raced
    PROVE  raced'
  <1>1. ASSUME NEW n \in Node, NEW pen, Commit(n, pen) PROVE raced'
    BY <1>1 DEF Commit
  <1>2. ASSUME UNCHANGED tableVars PROVE raced'
    BY <1>2 DEF tableVars
  <1>3. ASSUME NEW n \in Node, NEW pc, NEW next, CommitJob(n, pc, next) PROVE raced'
    BY <1>1, <1>3 DEF CommitJob, CommitWithin
  <1>4. ASSUME NEW n \in Node, JobStep(n) PROVE raced'
    <2>1. CASE SelfAnnounced(n) \/ SeedAdded(n) \/ Marked(n) \/ MarkedOffline(n) \/ EntryApplied(n)
      BY <1>3, <2>1 DEF SelfAnnounced, SeedAdded, Marked, MarkedOffline, EntryApplied
    <2>2. CASE AdvanceCursor(n)
      BY <2>2 DEF AdvanceCursor, UpsertNeighborSync
    <2>3. CASE ~(\/ SelfAnnounced(n) \/ SeedAdded(n) \/ Marked(n) \/ MarkedOffline(n)
                 \/ EntryApplied(n) \/ AdvanceCursor(n))
      <3>1. CASE \/ GiveUpCycle(n) \/ ChooseNeighbors(n) \/ ChooseTargets(n)
                 \/ \E s \in Node : SkipSeed(n, s) \/ AddSeed(n, s)
        BY <1>2, <3>1 DEF GiveUpCycle, ChooseNeighbors, ChooseTargets, Choose, SkipSeed, AddSeed,
                          OnlyJob
      <3>2. CASE \/ Answered(n) \/ AnsweredError(n)
                 \/ \E t \in Targets : Probe(n, t, TRUE) \/ Post(n, t)
        BY <1>2, <3>2 DEF Answered, AnsweredError, Probe, Post
      <3>3. CASE RefuseEntry(n) \/ TakeEntry(n) \/ EndCycle(n)
        BY <1>2, <3>3 DEF RefuseEntry, TakeEntry, EndCycle, OnlyJob
      <3> QED BY <1>4, <2>3, <3>1, <3>2, <3>3 DEF JobStep
    <2> QED BY <2>1, <2>2, <2>3
  <1>5. ASSUME NEW n \in Node, NEW m \in Node, HandlerStep(n, m) PROVE raced'
    <2>1. CASE HandlerApplies(n, m)
      BY <1>1, <2>1 DEF HandlerApplies, CommitWithin
    <2>2. CASE ~HandlerApplies(n, m)
      BY <1>2, <1>5, <2>2 DEF HandlerStep, HandlerRefuses, HandlerTakes, HandlerFails,
                              HandlerReplies, HandlerDropped, OnlyHandler
    <2> QED BY <2>1, <2>2
  <1>6. ASSUME NEW n \in Node, JobFault(n) \/ RestartServer(n) PROVE raced'
    BY <1>2, <1>6 DEF JobFault, AnswerLost, Probe, PostFails, RestartServer
  <1>7. ASSUME NEW n \in Node, NEW models, StartCycle(n, models) PROVE raced'
    BY <1>2, <1>7 DEF StartCycle
  <1>8. ASSUME UNCHANGED <<tableVars, syncVars>> PROVE raced'
    BY <1>2, <1>8
  <1> QED BY <1>4, <1>5, <1>6, <1>7, <1>8 DEF ClusterNext, ServerStep

(* The next server on the way to v from a call above it                    *)
LEMMA NextOnWay ==
    ASSUME NEW w \in Seq(Node), NEW v \in Seq(Node), Under(w, v)
    PROVE  /\ v[Len(w) + 1] \in Node
           /\ Append(w, v[Len(w) + 1]) = v \/ Under(Append(w, v[Len(w) + 1]), v)
  <1> DEFINE x == Append(w, v[Len(w) + 1])
  <1>1. Len(w) + 1 \in 1 .. Len(v) /\ v[Len(w) + 1] \in Node
    BY DEF Under
  <1>2. /\ x \in Seq(Node) /\ Len(x) = Len(w) + 1 /\ Len(w) \in Nat
        /\ \A i \in 1 .. Len(w) : x[i] = w[i]
        /\ x[Len(w) + 1] = v[Len(w) + 1]
    BY <1>1
  <1> HIDE DEF x
  <1>3. \A i \in 1 .. Len(x) : x[i] = v[i]
    BY <1>2 DEF Under
  <1>4. CASE Len(v) = Len(w) + 1
    BY <1>2, <1>3, <1>4 DEF x
  <1>5. CASE Len(v) # Len(w) + 1
    BY <1>1, <1>2, <1>3, <1>5 DEF Under, x
  <1> QED BY <1>1, <1>4, <1>5

(* Below a call that waits for nobody, or for one that has failed, all     *)
(* calls have failed.                                                      *)
LEMMA NoneBelow ==
    ASSUME RouteTypeOK, AskedIsThere, OneBranch, NEW w \in Ways,
           \/ calls[w].pc \notin {"forwarding", "relayed"}
           \/ calls[w].asked = NoRow
           \/ ~Alive(Append(w, calls[w].asked))
    PROVE  \A v \in Ways : Alive(v) => ~Under(w, v)
  <1> SUFFICES ASSUME NEW v \in Ways, Alive(v), Under(w, v) PROVE FALSE
    OBVIOUS
  <1>1. w \in Seq(Node) /\ v \in Seq(Node)
    BY DEF RouteTypeOK
  <1>2. HangsOn(w, v)
    BY DEF OneBranch
  <1>3. v[Len(w) + 1] \in Node
    BY <1>1, NextOnWay
  <1> DEFINE x == Append(w, calls[w].asked)
  <1>4. calls[w].asked # NoRow /\ ~Alive(x) /\ x \in Ways
    BY <1>2, <1>3, ForwardingAssumption DEF HangsOn, AskedIsThere
  <1>5. x = v \/ Under(x, v)
    BY <1>1, <1>2, NextOnWay DEF HangsOn
  <1>6. HangsOn(x, v)
    BY <1>4, <1>5 DEF OneBranch
  <1> QED BY <1>4, <1>6 DEF HangsOn, Alive

LEMMA OneCallChanges ==
    ASSUME RouteTypeOK, NEW w \in Ways, NEW c \in Calls, Becomes(w, c)
    PROVE  /\ Ways' = Ways /\ calls'[w] = c
           /\ \A v \in Ways : v # w => calls'[v] = calls[v]
           /\ \A v \in Ways : calls'[v] \in Calls
  BY DEF Becomes, Ways, RouteTypeOK

(* A call goes on: it does not come to life again, its candidates are      *)
(* among those it had, and what hangs on it stays there.                   *)
LEMMA CallGoesOn ==
    ASSUME RouteInv, NEW w \in Ways, NEW c \in Calls, Becomes(w, c),
           raced' = raced, wanted' = wanted, unheard' \in BOOLEAN, unheard => unheard',
           ~raced => Range(c.todo) \cap Range(w) = {},
           c.asked \in {calls[w].asked, NoRow},
           c.pc # "failed" => Alive(w),
           ~unheard' => \A v \in Ways : Alive(v) /\ Under(w, v) =>
                          c.pc \in {"forwarding", "relayed"} /\ c.asked = v[Len(w) + 1]
    PROVE  RouteInv'
  <1>0. RouteTypeOK
    BY DEF RouteInv
  <1>1. /\ Ways' = Ways /\ calls'[w] = c
        /\ \A v \in Ways : v # w => calls'[v] = calls[v]
        /\ \A v \in Ways : calls'[v] \in Calls
    BY <1>0, OneCallChanges
  <1>2. RouteTypeOK'
    BY <1>0, <1>1 DEF RouteTypeOK
  <1>3. NoWayBack'
    BY <1>1 DEF RouteInv, NoWayBack
  <1>4. TodoNew'
    BY <1>1 DEF RouteInv, TodoNew
  <1>5. AskedIsThere'
    BY <1>1 DEF RouteInv, AskedIsThere
  <1>6. ASSUME ~unheard' PROVE OneBranch'
    <2>1. OneBranch /\ \A v \in Ways : Alive(v)' => Alive(v)
      BY <1>1, <1>6 DEF RouteInv, Alive
    <2>2. ASSUME NEW x \in Ways, NEW v \in Ways, Alive(v)', Under(x, v) PROVE HangsOn(x, v)'
      <3>1. CASE x = w
        BY <1>1, <1>6, <2>1, <2>2, <3>1 DEF HangsOn
      <3>2. CASE x # w
        <4>1. HangsOn(x, v)
          BY <2>1, <2>2 DEF OneBranch
        <4>2. calls'[x] = calls[x]
          BY <1>1, <3>2
        <4> QED BY <4>1, <4>2 DEF HangsOn
      <3> QED BY <3>1, <3>2
    <2>3. ASSUME NEW x \in Ways, NEW v \in Ways
          PROVE  /\ Alive(x)' /\ Alive(v)' => x = v \/ Under(x, v) \/ Under(v, x)
                 /\ <<x[1]>> \in Ways /\ x[1] = v[1]
      BY <2>1 DEF OneBranch
    <2> HIDE DEF Ways
    <2> QED BY <1>1, <2>2, <2>3 DEF OneBranch, Under
  <1> QED BY <1>2, <1>3, <1>4, <1>5, <1>6 DEF RouteInv

LEMMA CandidatesNew ==
    ASSUME ClusterInv, RouteTypeOK, NEW w \in Ways, NEW list \in CandidateLists(At(w), Seen(w))
    PROVE  list \in Seq(Node) /\ (~raced => Range(list) \cap Range(w) = {})
  <1> DEFINE n == At(w)
             candidates == ForwardCandidates(n, wanted, Seen(w))
  <1>1. w \in Seq(Node) /\ w # <<>> /\ n \in Node
    BY DEF RouteTypeOK, At
  <1>2. candidates \subseteq Known(n)
    BY DEF ForwardCandidates, AliveRemote
  <1>3. IsFiniteSet(candidates) /\ Cardinality(candidates) \in Nat
    BY <1>2, NodeAssumption, FS_Subset, FS_CardinalityType DEF Known
  <1>4. Min({MaxCandidates, Cardinality(candidates)}) \in Nat
    BY <1>3, MinPair, ForwardingAssumption
  <1>5. list \in [1 .. Min({MaxCandidates, Cardinality(candidates)}) -> candidates]
    BY DEF CandidateLists
  <1>6. list \in Seq(Node)
    <2> DEFINE k == Min({MaxCandidates, Cardinality(candidates)})
    <2>1. candidates \subseteq Node /\ k \in Nat
      BY <1>2, <1>4 DEF Known
    <2>2. list \in [1 .. k -> candidates]
      BY <1>5
    <2> HIDE DEF k, candidates
    <2>3. list \in [1 .. k -> Node]
      BY <2>1, <2>2
    <2> QED BY <2>1, <2>3
  <1>7. ASSUME ~raced, NEW u \in candidates PROVE u \notin Seen(w)
    <2>1. rows[n][u].id \in IdKinds /\ Credible(rows[n][u], cycles[u], raced)
      BY <1>1, <1>2, <1>7, RowsTyped DEF ClusterInv, RowsInv, ServersTypeOK, Columns, Known
    <2>2. rows[n][u].id = "own"
      BY <1>7, <2>1 DEF Credible, ForwardCandidates, IdKinds
    <2> QED BY <2>2 DEF ForwardCandidates
  <1>8. Range(list) \subseteq candidates
    BY <1>5 DEF Range
  <1> HIDE DEF candidates
  <1> QED BY <1>6, <1>7, <1>8 DEF Seen

LEMMA TailOfTodo ==
    ASSUME NEW todo \in Seq(Node), todo # <<>>
    PROVE  /\ Head(todo) \in Range(todo) /\ Head(todo) \in Node
           /\ Tail(todo) \in Seq(Node) /\ Range(Tail(todo)) \subseteq Range(todo)
  <1>1. Tail(todo) \in Seq(Node) /\ Len(Tail(todo)) = Len(todo) - 1
    OBVIOUS
  <1>2. \A i \in 1 .. Len(Tail(todo)) : Tail(todo)[i] = todo[i + 1] /\ i + 1 \in 1 .. Len(todo)
    BY <1>1
  <1>3. Head(todo) = todo[1] /\ 1 \in 1 .. Len(todo)
    OBVIOUS
  <1>4. DOMAIN todo = 1 .. Len(todo) /\ DOMAIN Tail(todo) = 1 .. Len(Tail(todo))
    BY <1>1
  <1> QED BY <1>1, <1>2, <1>3, <1>4 DEF Range

(* Every step of one call but the post.                                    *)
LEMMA CallSteps ==
    ASSUME ClusterInv, RouteInv, NEW w \in Ways, ForwardStep(w), ~PostTo(w), raced' = raced
    PROVE  RouteInv'
  <1> DEFINE c == calls[w]
  <1>1. /\ c \in Calls /\ RouteTypeOK /\ AskedIsThere /\ unheard \in BOOLEAN
        /\ (~raced => Range(c.todo) \cap Range(w) = {})
        /\ (~unheard => OneBranch)
    BY DEF RouteInv, RouteTypeOK, TodoNew
  <1>2. /\ c = [pc |-> c.pc, todo |-> c.todo, asked |-> c.asked]
        /\ c.todo \in Seq(Node) /\ c.asked \in Node \cup {NoRow}
    BY <1>1 DEF Calls
  <1>3. ASSUME ~unheard, \/ c.pc \notin {"forwarding", "relayed"}
                         \/ c.asked = NoRow
                         \/ ~Alive(Append(w, c.asked))
        PROVE  \A v \in Ways : Alive(v) => ~Under(w, v)
    BY <1>1, <1>3, NoneBelow
  <1>4. CASE Served(w) \/ Fails(w)
    <2>1. PICK pc \in {"served", "failed"} : Becomes(w, [c EXCEPT !.pc = pc])
      BY <1>4 DEF Served, Fails
    <2>2. c.pc = "waiting" /\ wanted' = wanted /\ unheard' = unheard
      BY <1>4 DEF Served, Fails, Unremarked
    <2> DEFINE d == [c EXCEPT !.pc = pc]
    <2>3. d \in Calls /\ d.todo = c.todo /\ d.asked = c.asked
      BY <1>2 DEF Calls
    <2> HIDE DEF d
    <2> QED BY <1>1, <1>3, <2>1, <2>2, <2>3, CallGoesOn DEF Alive, d
  <1>5. CASE ChooseCandidates(w)
    <2>1. PICK list \in CandidateLists(At(w), Seen(w)) :
            Becomes(w, [c EXCEPT !.pc = "forwarding", !.todo = list])
      BY <1>5 DEF ChooseCandidates
    <2>2. c.pc = "waiting" /\ wanted' = wanted /\ unheard' = unheard
      BY <1>5 DEF ChooseCandidates, Unremarked
    <2>3. list \in Seq(Node) /\ (~raced => Range(list) \cap Range(w) = {})
      BY <1>1, CandidatesNew
    <2> DEFINE d == [c EXCEPT !.pc = "forwarding", !.todo = list]
    <2>4. d \in Calls /\ d.todo = list /\ d.asked = c.asked
      BY <1>2, <2>3 DEF Calls
    <2> HIDE DEF d
    <2> QED BY <1>1, <1>3, <2>1, <2>2, <2>3, <2>4, CallGoesOn DEF Alive, d
  <1>6. CASE Unreachable(w)
    <2>1. /\ Becomes(w, [c EXCEPT !.todo = Tail(@)])
          /\ c.pc = "forwarding" /\ c.asked = NoRow /\ c.todo # <<>>
          /\ wanted' = wanted /\ unheard' = unheard
      BY <1>6 DEF Unreachable, Free, Unremarked
    <2>2. Tail(c.todo) \in Seq(Node) /\ Range(Tail(c.todo)) \subseteq Range(c.todo)
      BY <1>2, <2>1, TailOfTodo
    <2> DEFINE d == [c EXCEPT !.todo = Tail(@)]
    <2>3. d \in Calls /\ d.todo = Tail(c.todo) /\ d.asked = c.asked /\ d.pc = "forwarding"
      BY <1>2, <2>1, <2>2 DEF Calls
    <2> HIDE DEF d
    <2> QED BY <1>1, <1>3, <2>1, <2>2, <2>3, CallGoesOn DEF Alive, d
  <1>7. CASE Relays(w)
    <2>1. /\ Becomes(w, [c EXCEPT !.pc = "relayed"]) /\ c.pc = "forwarding"
          /\ wanted' = wanted /\ unheard' = unheard
      BY <1>7 DEF Relays, Awaits, Unremarked
    <2> DEFINE d == [c EXCEPT !.pc = "relayed"]
    <2>2. d \in Calls /\ d.todo = c.todo /\ d.asked = c.asked /\ d.pc = "relayed"
      BY <1>2 DEF Calls
    <2>3. ~unheard => \A v \in Ways : Alive(v) /\ Under(w, v) => d.asked = v[Len(w) + 1]
      BY <1>1, <2>2 DEF OneBranch, HangsOn
    <2> HIDE DEF d
    <2> QED BY <1>1, <2>1, <2>2, <2>3, CallGoesOn DEF Alive, d
  <1>8. CASE NextCandidate(w)
    <2>1. /\ Becomes(w, [c EXCEPT !.asked = NoRow]) /\ c.pc = "forwarding"
          /\ ~Alive(Append(w, c.asked))
          /\ wanted' = wanted /\ unheard' = unheard
      BY <1>8 DEF NextCandidate, Awaits, Answer, Alive, Unremarked
    <2> DEFINE d == [c EXCEPT !.asked = NoRow]
    <2>2. d \in Calls /\ d.todo = c.todo /\ d.asked = NoRow /\ d.pc = "forwarding"
      BY <1>2, <2>1 DEF Calls
    <2> HIDE DEF d
    <2> QED BY <1>1, <1>3, <2>1, <2>2, CallGoesOn DEF Alive, d
  <1>9. CASE GivesUp(w)
    <2>1. /\ Becomes(w, [c EXCEPT !.asked = NoRow]) /\ c.pc = "forwarding"
          /\ wanted' = wanted /\ unheard' = TRUE
      BY <1>9 DEF GivesUp, Awaits
    <2> DEFINE d == [c EXCEPT !.asked = NoRow]
    <2>2. d \in Calls /\ d.todo = c.todo /\ d.asked = NoRow /\ d.pc = "forwarding"
      BY <1>2, <2>1 DEF Calls
    <2> HIDE DEF d
    <2> QED BY <1>1, <2>1, <2>2, CallGoesOn DEF Alive, d
  <1>10. CASE Exhausted(w)
    <2>1. /\ Becomes(w, [c EXCEPT !.pc = "failed"]) /\ c.asked = NoRow
          /\ wanted' = wanted /\ unheard' = unheard
      BY <1>10 DEF Exhausted, Free, Unremarked
    <2> DEFINE d == [c EXCEPT !.pc = "failed"]
    <2>2. d \in Calls /\ d.todo = c.todo /\ d.asked = c.asked /\ d.pc = "failed"
      BY <1>2 DEF Calls
    <2> HIDE DEF d
    <2> QED BY <1>1, <1>3, <2>1, <2>2, CallGoesOn DEF Alive, d
  <1> HIDE DEF c
  <1> QED BY <1>4, <1>5, <1>6, <1>7, <1>8, <1>9, <1>10 DEF ForwardStep

(* A way that goes one server further                                      *)
LEMMA OneFurther ==
    ASSUME NEW w \in Seq(Node), w # <<>>, NEW u \in Node, NEW x, x = Append(w, u)
    PROVE  /\ x \in Seq(Node) /\ x # <<>> /\ x[1] = w[1]
           /\ Len(x) = Len(w) + 1 /\ x[Len(w) + 1] = u /\ Under(w, x)
           /\ \A i \in 1 .. Len(w) : x[i] = w[i]
           /\ \A v \in Seq(Node) : /\ Under(v, w) => Under(v, x) /\ x[Len(v) + 1] = w[Len(v) + 1]
                                   /\ Under(x, v) => Under(w, v)
                                   /\ Under(v, x) => v = w \/ Under(v, w)
  <1>1. /\ x \in Seq(Node) /\ x # <<>> /\ x[1] = w[1] /\ Len(w) \in Nat
        /\ Len(x) = Len(w) + 1 /\ x[Len(w) + 1] = u
        /\ \A i \in 1 .. Len(w) : x[i] = w[i]
    OBVIOUS
  <1>2. Under(w, x)
    BY <1>1 DEF Under
  <1>3. ASSUME NEW v \in Seq(Node), Under(v, w)
        PROVE  Under(v, x) /\ x[Len(v) + 1] = w[Len(v) + 1]
    BY <1>1, <1>3 DEF Under
  <1>4. ASSUME NEW v \in Seq(Node), Under(x, v) PROVE Under(w, v)
    BY <1>1, <1>4 DEF Under
  <1>5. ASSUME NEW v \in Seq(Node), Under(v, x) PROVE v = w \/ Under(v, w)
    <2>1. Len(v) \in Nat /\ Len(v) <= Len(w) /\ \A i \in 1 .. Len(v) : v[i] = w[i]
      BY <1>1, <1>5 DEF Under
    <2>2. CASE Len(v) < Len(w)
      BY <2>1, <2>2 DEF Under
    <2>3. CASE Len(v) = Len(w)
      BY <2>1, <2>3
    <2> QED BY <1>1, <2>1, <2>2, <2>3
  <1> QED BY <1>1, <1>2, <1>3, <1>4, <1>5

(* The post: the call at the end of the new way hangs on the one that made *)
(* it, on which no living call hung.                                       *)
LEMMA PostKeeps ==
    ASSUME RouteInv, NEW w \in Ways, PostTo(w), raced' = raced
    PROVE  RouteInv'
  <1> DEFINE u == Head(calls[w].todo)
             x == Append(w, u)
             d == [calls[w] EXCEPT !.todo = Tail(@), !.asked = u]
  <1>0. /\ RouteTypeOK /\ AskedIsThere /\ NoWayBack /\ TodoNew
        /\ w \in Seq(Node) /\ w # <<>> /\ calls[w] \in Calls
        /\ Ways \subseteq Seq(Node) \ {<<>>}
    BY DEF RouteInv, RouteTypeOK
  <1>1. /\ calls' = [v \in Ways \cup {x} |-> IF v = x THEN Arrived
                                             ELSE IF v = w THEN d ELSE calls[v]]
        /\ calls[w].pc = "forwarding" /\ calls[w].asked = NoRow /\ calls[w].todo # <<>>
        /\ wanted' = wanted /\ unheard' = unheard
    BY DEF PostTo, Free, Unremarked
  <1>2. /\ u \in Range(calls[w].todo) /\ u \in Node /\ Tail(calls[w].todo) \in Seq(Node)
        /\ Range(Tail(calls[w].todo)) \subseteq Range(calls[w].todo)
    BY <1>0, <1>1, TailOfTodo DEF Calls
  <1>3. d \in Calls /\ d.todo = Tail(calls[w].todo) /\ d.asked = u /\ d.pc = "forwarding"
    BY <1>0, <1>1, <1>2 DEF Calls
  <1>4. /\ x \in Seq(Node) /\ x # <<>> /\ x[1] = w[1]
        /\ Len(x) = Len(w) + 1 /\ x[Len(w) + 1] = u /\ Under(w, x)
        /\ \A i \in 1 .. Len(w) : x[i] = w[i]
        /\ \A v \in Seq(Node) : /\ Under(v, w) => Under(v, x) /\ x[Len(v) + 1] = w[Len(v) + 1]
                                /\ Under(x, v) => Under(w, v)
                                /\ Under(v, x) => v = w \/ Under(v, w)
    <2>1. x = Append(w, u) /\ w \in Seq(Node) /\ w # <<>> /\ u \in Node
      BY <1>0, <1>2
    <2> HIDE DEF x, u
    <2> HIDE DEF Ways
    <2>2. x \in Seq(Node) /\ x # <<>>
      BY <2>1, OneFurther
    <2>3. x[1] = w[1] /\ Len(x) = Len(w) + 1 /\ x[Len(w) + 1] = u /\ Under(w, x)
      BY <2>1, OneFurther
    <2>4. \A i \in 1 .. Len(w) : x[i] = w[i]
      BY <2>1, OneFurther
    <2>5. ASSUME NEW v \in Seq(Node)
          PROVE  /\ Under(v, w) => Under(v, x) /\ x[Len(v) + 1] = w[Len(v) + 1]
                 /\ Under(x, v) => Under(w, v)
                 /\ Under(v, x) => v = w \/ Under(v, w)
      <3>0. Under(v, w) => Under(v, x)
        BY <2>1, OneFurther, Zenon
      <3>1. Under(v, w) => x[Len(v) + 1] = w[Len(v) + 1]
        BY <2>1, <2>4 DEF Under
      <3>2. Under(x, v) => Under(w, v)
        BY <2>1, OneFurther, Zenon
      <3>3. Under(v, x) => v = w \/ Under(v, w)
        BY <2>1, OneFurther, Zenon
      <3> QED BY <3>0, <3>1, <3>2, <3>3
    <2> QED BY <2>2, <2>3, <2>4, <2>5
  <1>5. Arrived \in Calls /\ Arrived.pc = "waiting" /\ Arrived.todo = <<>> /\ Arrived.asked = NoRow
    BY DEF Arrived, Calls
  <1>6. x # w /\ Len(w) \in Nat \ {0}
    BY <1>0, <1>4
  <1> HIDE DEF x, d, u
  <1>7. /\ Ways' = Ways \cup {x} /\ calls'[x] = Arrived /\ calls'[w] = d
        /\ \A v \in Ways : v \notin {w, x} => calls'[v] = calls[v]
    BY <1>1, <1>6 DEF Ways
  <1> HIDE DEF Ways
  <1>8. RouteTypeOK'
    <2>1. \A v \in Ways' : calls'[v] \in Calls
      BY <1>0, <1>3, <1>5, <1>7 DEF RouteTypeOK
    <2> QED BY <1>0, <1>1, <1>4, <1>7, <2>1 DEF RouteTypeOK
  <1>9. NoWayBack'
    <2> SUFFICES ASSUME ~raced, NEW v \in Ways', NEW i \in DOMAIN v, NEW j \in DOMAIN v,
                        v[i] = v[j]
                 PROVE  i = j
      BY DEF NoWayBack
    <2>1. CASE v \in Ways
      BY <1>0, <2>1 DEF NoWayBack
    <2>2. CASE v = x
      <3>1. u \notin Range(w) /\ \A k, l \in DOMAIN w : w[k] = w[l] => k = l
        BY <1>0, <1>2 DEF NoWayBack, TodoNew
      <3>2. DOMAIN x = 1 .. Len(w) + 1 /\ DOMAIN w = 1 .. Len(w)
        BY <1>0, <1>4
      <3>3. \A k \in 1 .. Len(w) : x[k] \in Range(w)
        BY <1>4, <3>2 DEF Range
      <3> QED BY <1>4, <1>6, <2>2, <3>1, <3>2, <3>3
    <2> QED BY <1>7, <2>1, <2>2
  <1>10. TodoNew'
    <2> SUFFICES ASSUME ~raced, NEW v \in Ways' PROVE Range(calls'[v].todo) \cap Range(v) = {}
      BY DEF TodoNew
    <2>1. CASE v = x
      BY <1>5, <1>7, <2>1 DEF Range
    <2>2. CASE v = w
      BY <1>0, <1>2, <1>3, <1>7, <2>2 DEF TodoNew
    <2>3. CASE v \notin {w, x}
      BY <1>0, <1>7, <2>3 DEF TodoNew
    <2> QED BY <2>1, <2>2, <2>3
  <1>11. AskedIsThere'
    <2> SUFFICES ASSUME NEW v \in Ways', calls'[v].asked # NoRow
                 PROVE  Append(v, calls'[v].asked) \in Ways'
      BY DEF AskedIsThere
    <2>1. CASE v = x
      BY <1>5, <1>7, <2>1
    <2>2. CASE v = w
      BY <1>3, <1>7, <2>2 DEF x
    <2>3. CASE v \notin {w, x}
      BY <1>0, <1>7, <2>3 DEF AskedIsThere
    <2> QED BY <2>1, <2>2, <2>3
  <1>12. ASSUME ~unheard' PROVE OneBranch'
    <2>0. OneBranch /\ Alive(w)
      BY <1>1, <1>12 DEF RouteInv, Alive
    <2>1. \A v \in Ways : Alive(v) => ~Under(w, v)
      BY <1>0, <1>1, <2>0, NoneBelow
    <2>2. /\ \A v \in Ways : v # x => (Alive(v)' <=> Alive(v))
          /\ \A v \in Ways' : v \in Seq(Node) /\ (v # x => v \in Ways)
      BY <1>0, <1>1, <1>3, <1>4, <1>7 DEF Alive
    <2>3. ASSUME NEW y \in Ways', NEW v \in Ways', Alive(v)', Under(y, v) PROVE HangsOn(y, v)'
      <3>1. CASE v = x /\ y = w
        BY <1>3, <1>4, <1>7, <3>1 DEF HangsOn
      <3>2. CASE v = x /\ y # w
        <4>1. Under(y, w) /\ y \in Seq(Node)
          BY <1>4, <2>2, <2>3, <3>2
        <4>2. y # x
          BY <2>3, <3>2, <2>2 DEF Under
        <4>3. y \in Ways /\ HangsOn(y, w)
          BY <2>0, <2>2, <4>1, <4>2 DEF OneBranch
        <4>4. x[Len(y) + 1] = w[Len(y) + 1] /\ calls'[y] = calls[y]
          BY <1>4, <1>7, <3>2, <4>1, <4>2, <4>3
        <4> QED BY <3>2, <4>3, <4>4 DEF HangsOn
      <3>3. CASE v # x
        <4>1. v \in Ways /\ Alive(v) /\ ~Under(w, v) /\ v \in Seq(Node)
          BY <2>1, <2>2, <2>3, <3>3
        <4>2. y \notin {w, x} /\ y \in Ways
          BY <1>4, <2>2, <2>3, <4>1
        <4>3. HangsOn(y, v) /\ calls'[y] = calls[y]
          BY <1>7, <2>0, <2>3, <4>1, <4>2 DEF OneBranch
        <4> QED BY <4>3 DEF HangsOn
      <3> QED BY <3>1, <3>2, <3>3
    <2>4. ASSUME NEW y \in Ways', NEW v \in Ways', Alive(y)', Alive(v)', y # x
          PROVE  y = v \/ Under(y, v) \/ Under(v, y)
      <3>1. y \in Ways /\ Alive(y) /\ y \in Seq(Node) /\ ~Under(w, y)
        BY <2>1, <2>2, <2>4
      <3>2. CASE v # x
        BY <2>0, <2>2, <2>4, <3>1, <3>2 DEF OneBranch
      <3>3. CASE v = x
        <4>1. y = w \/ Under(y, w)
          BY <2>0, <3>1 DEF OneBranch
        <4> QED BY <1>4, <3>1, <3>3, <4>1
      <3> QED BY <3>2, <3>3
    <2>5. ASSUME NEW y \in Ways', NEW v \in Ways' PROVE <<y[1]>> \in Ways' /\ y[1] = v[1]
      <3>1. \A z \in Ways' : <<z[1]>> \in Ways /\ z[1] = w[1]
        BY <1>4, <2>0, <2>2 DEF OneBranch
      <3>2. <<y[1]>> \in Ways /\ y[1] = w[1]
        BY <3>1, Zenon
      <3>3. v[1] = w[1]
        BY <3>1, Zenon
      <3> QED BY <1>7, <3>2, <3>3, Zenon
    <2> QED BY <2>3, <2>4, <2>5 DEF OneBranch
  <1> QED BY <1>8, <1>9, <1>10, <1>11, <1>12 DEF RouteInv

LEMMA AskKeeps ==
    ASSUME RouteInv, NEW n \in Node, ClientAsks(n), raced' = raced
    PROVE  RouteInv'
  <1>1. /\ calls' = [v \in {<<n>>} |-> Arrived] /\ wanted' = wanted /\ unheard' = unheard
    BY DEF ClientAsks, Becomes, Unremarked
  <1>2. Ways' = {<<n>>} /\ calls'[<<n>>] = Arrived
    BY <1>1 DEF Ways
  <1>3. Arrived \in Calls /\ Arrived.todo = <<>> /\ Arrived.asked = NoRow
    BY DEF Arrived, Calls
  <1>4. <<n>> \in Seq(Node) \ {<<>>} /\ Len(<<n>>) = 1 /\ <<n>>[1] = n
    OBVIOUS
  <1>5. RouteTypeOK'
    BY <1>1, <1>2, <1>3, <1>4 DEF RouteInv, RouteTypeOK
  <1>6. NoWayBack' /\ TodoNew' /\ AskedIsThere'
    BY <1>2, <1>3, <1>4 DEF NoWayBack, TodoNew, AskedIsThere, Range
  <1>7. OneBranch'
    BY <1>2, <1>4 DEF OneBranch, Under
  <1> QED BY <1>5, <1>6, <1>7 DEF RouteInv

LEMMA CutOffKeeps ==
    ASSUME RouteInv, NEW n \in Node, CutOff(n), raced' = raced
    PROVE  RouteInv'
  <1> DEFINE cut == {w \in Ways : At(w) = n /\ calls[w].pc \in {"waiting", "forwarding"}}
  <1>0. RouteTypeOK /\ NoWayBack /\ TodoNew /\ AskedIsThere /\ (~unheard => OneBranch)
    BY DEF RouteInv
  <1>1. /\ calls' = [w \in Ways |->
                       IF w \in cut THEN [calls[w] EXCEPT !.pc = "failed"] ELSE calls[w]]
        /\ unheard' = (unheard \/ \E w \in cut : Awaits(w)) /\ wanted' = wanted
    BY DEF CutOff
  <1>2. \A w \in Ways : /\ calls[w] \in Calls
                        /\ [calls[w] EXCEPT !.pc = "failed"] \in Calls
                        /\ [calls[w] EXCEPT !.pc = "failed"].pc = "failed"
                        /\ [calls[w] EXCEPT !.pc = "failed"].todo = calls[w].todo
                        /\ [calls[w] EXCEPT !.pc = "failed"].asked = calls[w].asked
    BY <1>0 DEF RouteTypeOK, Calls
  <1>3. Ways' = Ways
    BY <1>1 DEF Ways
  <1>4. \A w \in Ways : /\ calls'[w] \in Calls
                        /\ calls'[w].todo = calls[w].todo /\ calls'[w].asked = calls[w].asked
                        /\ w \in cut => calls'[w].pc = "failed"
                        /\ w \notin cut => calls'[w] = calls[w]
    BY <1>1, <1>2
  <1>5. RouteTypeOK'
    BY <1>0, <1>1, <1>3, <1>4 DEF RouteTypeOK
  <1>6. NoWayBack' /\ TodoNew' /\ AskedIsThere'
    BY <1>0, <1>3, <1>4 DEF NoWayBack, TodoNew, AskedIsThere
  <1>7. ASSUME ~unheard' PROVE OneBranch'
    <2>1. OneBranch /\ \A w \in cut : ~Awaits(w)
      BY <1>0, <1>1, <1>7
    <2>2. ASSUME NEW w \in cut PROVE \A v \in Ways : Alive(v) => ~Under(w, v)
      <3>1. w \in Ways /\ (calls[w].pc # "forwarding" \/ calls[w].asked = NoRow)
        BY <2>1 DEF Awaits
      <3>2. calls[w].pc \in {"waiting", "forwarding"}
        OBVIOUS
      <3> QED BY <1>0, <2>1, <3>1, <3>2, NoneBelow
    <2> HIDE DEF cut
    <2>3. \A v \in Ways : Alive(v)' => Alive(v) /\ v \notin cut
      BY <1>4 DEF Alive
    <2>4. ASSUME NEW w \in Ways, NEW v \in Ways, Alive(v)', Under(w, v) PROVE HangsOn(w, v)'
      <3>1. Alive(v) /\ w \notin cut
        BY <2>2, <2>3, <2>4
      <3>2. HangsOn(w, v) /\ calls'[w] = calls[w]
        BY <1>4, <2>1, <2>4, <3>1 DEF OneBranch
      <3> QED BY <3>2 DEF HangsOn
    <2>5. ASSUME NEW w \in Ways, NEW v \in Ways
          PROVE  /\ Alive(w)' /\ Alive(v)' => w = v \/ Under(w, v) \/ Under(v, w)
                 /\ <<w[1]>> \in Ways /\ w[1] = v[1]
      BY <2>1, <2>3 DEF OneBranch
    <2> HIDE DEF Ways
    <2> QED BY <1>3, <2>4, <2>5 DEF OneBranch, Under
  <1> QED BY <1>5, <1>6, <1>7 DEF RouteInv

LEMMA RouteStands ==
    ASSUME RouteInv, UNCHANGED routeVars, raced => raced'
    PROVE  RouteInv'
  <1>1. wanted' = wanted /\ calls' = calls /\ unheard' = unheard
    BY DEF routeVars
  <1>2. RouteTypeOK' /\ AskedIsThere' /\ (~unheard' => OneBranch')
    BY <1>1 DEF RouteInv, RouteTypeOK, AskedIsThere, OneBranch, Under, Alive, HangsOn, Ways
  <1>3. NoWayBack' /\ TodoNew'
    BY <1>1 DEF RouteInv, NoWayBack, TodoNew, Ways
  <1> QED BY <1>2, <1>3 DEF RouteInv

(* The invariant of a request's way holds in every state.                  *)
THEOREM RouteInvariant == ClusterSpec => []RouteInv
  <1>1. ClusterInit => RouteInv
    <2> SUFFICES ASSUME ClusterInit PROVE RouteInv
      OBVIOUS
    <2>1. wanted \in Model /\ unheard = FALSE /\ Ways = {}
      BY DEF ClusterInit, RouteInit, Ways
    <2> QED BY <2>1 DEF RouteInv, RouteTypeOK, NoWayBack, TodoNew, AskedIsThere, OneBranch
  <1>2. ClusterInv /\ RouteInv /\ [ClusterNext]_clusterVars => RouteInv'
    <2> SUFFICES ASSUME ClusterInv, RouteInv, [ClusterNext]_clusterVars PROVE RouteInv'
      OBVIOUS
    <2>0. ServersTypeOK
      BY DEF ClusterInv
    <2>1. CASE UNCHANGED clusterVars
      <3>1. UNCHANGED routeVars /\ raced' = raced
        BY <2>1 DEF clusterVars, tableVars
      <3> QED BY <3>1, RouteStands
    <2>2. CASE ClusterNext /\ UNCHANGED routeVars
      BY <2>0, <2>2, RacedStays, RouteStands
    <2>3. ASSUME NEW n \in Node, RestartServer(n), CutOff(n) PROVE RouteInv'
      <3>1. raced' = raced
        BY <2>3 DEF RestartServer, tableVars
      <3> QED BY <2>3, <3>1, CutOffKeeps
    <2>4. CASE RouteStep /\ UNCHANGED <<tableVars, syncVars>>
      <3>1. raced' = raced
        BY <2>4 DEF tableVars
      <3>2. ASSUME NEW n \in Node, ClientAsks(n) PROVE RouteInv'
        BY <3>1, <3>2, AskKeeps
      <3>3. ASSUME NEW w \in Ways, ForwardStep(w) PROVE RouteInv'
        BY <3>1, <3>3, PostKeeps, CallSteps
      <3> QED BY <2>4, <3>2, <3>3 DEF RouteStep
    <2>5. CASE ClusterNext
      <3>1. \/ UNCHANGED routeVars
            \/ \E n \in Node : RestartServer(n) /\ CutOff(n)
            \/ RouteStep /\ UNCHANGED <<tableVars, syncVars>>
        BY <2>5, Zenon DEF ClusterNext
      <3> QED BY <2>2, <2>3, <2>4, <2>5, <3>1, Zenon
    <2> QED BY <2>1, <2>5
  <1> QED BY <1>1, <1>2, ClusterInvariant, PTL DEF ClusterSpec

(* The tables, the threads and the calls are as the type invariant says.   *)
THEOREM ClusterTypes == ClusterSpec => []ClusterTypeOK
  <1>1. ClusterInv /\ RouteInv => ClusterTypeOK
    BY DEF ClusterInv, RouteInv, ClusterTypeOK
  <1> QED BY <1>1, ClusterInvariant, RouteInvariant, PTL

(* No forwarded request comes back to a server that waits for its answer,  *)
(* for any number of servers, seeds, hops and candidates, until two        *)
(* writers of a table race (chat_completions, X-DLLM-Seen-Nodes).          *)
THEOREM NoRequestComesBack == ClusterSpec => []NoWayBack
  <1>1. RouteInv => NoWayBack
    BY DEF RouteInv
  <1> QED BY <1>1, RouteInvariant, PTL

(* One server at most answers a request from a worker of its own, and the  *)
(* client hears of it, unless somebody went on without an answer, for any  *)
(* tables and any candidates (chat_completions, the loop over candidates). *)
THEOREM OneServerAnswers == ClusterSpec => []OneAnswer
  <1>1. RouteInv => OneAnswer
    <2> SUFFICES ASSUME RouteInv, ~unheard, NEW w \in Ways, NEW v \in Ways, calls[v].pc = "served"
                 PROVE  /\ calls[w].pc = "served" => w = v
                        /\ Len(w) = 1 => calls[w].pc # "failed"
      BY DEF OneAnswer
    <2>1. /\ OneBranch /\ Alive(v) /\ w \in Seq(Node) /\ v \in Seq(Node)
          /\ w # <<>> /\ v # <<>>
      BY DEF RouteInv, RouteTypeOK, Alive
    <2>2. ASSUME calls[w].pc = "served" PROVE w = v
      <3>1. Alive(w)
        BY <2>2 DEF Alive
      <3>2. ~Under(w, v) /\ ~Under(v, w)
        BY <2>1, <2>2, <3>1 DEF OneBranch, HangsOn
      <3> QED BY <2>1, <3>1, <3>2 DEF OneBranch
    <2>3. ASSUME Len(w) = 1, calls[w].pc = "failed" PROVE FALSE
      <3>1. w[1] = v[1]
        BY <2>1, Zenon DEF OneBranch
      <3>0. Len(v) \in Nat \ {0}
        <4>1. v \in Seq(Node) /\ v # <<>>
          BY <2>1
        <4> HIDE DEF Ways
        <4> QED BY <4>1
      <3>2. CASE Len(v) = 1
        <4>1. w = v
          <5>1. w \in Seq(Node) /\ v \in Seq(Node) /\ Len(w) = 1
            BY <2>1, <2>3
          <5> HIDE DEF Ways
          <5> QED BY <3>1, <3>2, <5>1
        <4> QED BY <2>3, <4>1
      <3>3. CASE Len(v) # 1
        <4>1. Under(w, v)
          <5>1. \A i \in 1 .. 1 : i = 1
            OBVIOUS
          <5>2. Len(v) > 1
            <6>1. \A k \in Nat \ {0} : k = 1 \/ k > 1
              OBVIOUS
            <6> QED BY <3>0, <3>3, <6>1, Zenon
          <5>3. \A i \in 1 .. Len(w) : w[i] = v[i]
            BY <2>3, <3>1, <5>1, Zenon
          <5>4. Len(w) < Len(v)
            BY <2>3, <5>2
          <5> QED BY <5>3, <5>4, Zenon DEF Under
        <4> QED BY <2>1, <2>3, <4>1 DEF OneBranch, HangsOn
      <3> QED BY <3>2, <3>3
    <2> QED BY <2>2, <2>3
  <1> QED BY <1>1, RouteInvariant, PTL

=============================================================================
