---------------------------- MODULE RankingProofs ----------------------------
(* Theorems about the order of the candidates and the figures it rests on. *)
EXTENDS RankingProps, TLAPS, FiniteSetTheorems, SequenceTheorems

-----------------------------------------------------------------------------
(* The order, for any set of candidates                                    *)

LEMMA FloorPercentRange ==
    ASSUME NEW tol \in Int
    PROVE  FloorPercent(tol) \in 0 .. 100
  BY DEF FloorPercent

(* Products with the percentage are monotonic; the provers need to be told. *)
LEMMA Monotonic ==
    ASSUME NEW p \in Nat, NEW a \in Int, NEW b \in Int, a <= b
    PROVE  a * p <= b * p
  BY SMT

LEMMA ReachesFloorMonotonic ==
    ASSUME NEW tol \in Int,
           NEW c \in WorkerCandidate, NEW d \in WorkerCandidate,
           NEW c2 \in WorkerCandidate, NEW d2 \in WorkerCandidate,
           c2.speed_tps >= c.speed_tps, d2.speed_tps <= d.speed_tps,
           ReachesFloor(c, d, tol)
    PROVE  ReachesFloor(c2, d2, tol)
  <1> DEFINE p == FloorPercent(tol)
  <1>1. p \in Nat
    BY FloorPercentRange
  <1>2. c.speed_tps \in Int /\ d.speed_tps \in Int /\ c2.speed_tps \in Int /\ d2.speed_tps \in Int
    BY DEF WorkerCandidate
  <1>3. d2.speed_tps * p <= d.speed_tps * p
    BY <1>1, <1>2, Monotonic
  <1>4. d.speed_tps * p \in Int /\ d2.speed_tps * p \in Int
    BY <1>1, <1>2
  <1>5. 100 * c.speed_tps >= d.speed_tps * p
    BY DEF ReachesFloor
  <1> HIDE DEF p
  <1>6. 100 * c2.speed_tps >= d2.speed_tps * p
    BY <1>2, <1>3, <1>4, <1>5
  <1> QED BY <1>6 DEF ReachesFloor, p

LEMMA ClassRange ==
    ASSUME NEW cs, NEW tol, NEW c
    PROVE  /\ Class(cs, tol, c) \in {1, 2, 3}
           /\ Class(cs, tol, c) = 1 <=> MissingPerfData(c)
  BY DEF Class

(* Before is a strict total order on candidates with different ids, so     *)
(* that rank_candidates has one result only: no two candidates tie, and    *)
(* the three sorts agree on what is before what.                           *)
THEOREM BeforeIsTotalOrder ==
    ASSUME NEW cs \in SUBSET WorkerCandidate, NEW tol \in Int
    PROVE  /\ \A c \in cs : ~Before(cs, tol, c, c)
           /\ \A c, d \in cs : c.worker_id # d.worker_id =>
                Before(cs, tol, c, d) \/ Before(cs, tol, d, c)
           /\ \A b, c, d \in cs :
                Before(cs, tol, b, c) /\ Before(cs, tol, c, d) => Before(cs, tol, b, d)
  <1> DEFINE class(x) == Class(cs, tol, x)
  <1>1. \A c \in cs : /\ class(c) \in {1, 2, 3}
                      /\ c.worker_id \in Int /\ c.cost_per_token \in Int /\ c.speed_tps \in Int
    BY ClassRange DEF WorkerCandidate
  <1>2. \A c, d \in cs : Before(cs, tol, c, d) <=>
          \/ class(c) < class(d)
          \/ class(c) = 1 /\ class(d) = 1 /\ KeyLess(ColdKey(c), ColdKey(d))
          \/ class(c) = 2 /\ class(d) = 2 /\ KeyLess(CostKey(c), CostKey(d))
          \/ class(c) = 3 /\ class(d) = 3 /\ KeyLess(SpeedKey(c), SpeedKey(d))
    BY ClassRange DEF Before
  <1> HIDE DEF class
  <1>3. \A c \in cs : ~Before(cs, tol, c, c)
    BY <1>1, <1>2 DEF KeyLess, ColdKey, CostKey, SpeedKey
  <1>4. \A c, d \in cs : c.worker_id # d.worker_id =>
          Before(cs, tol, c, d) \/ Before(cs, tol, d, c)
    BY <1>1, <1>2 DEF KeyLess, ColdKey, CostKey, SpeedKey
  <1>5. \A b, c, d \in cs :
          Before(cs, tol, b, c) /\ Before(cs, tol, c, d) => Before(cs, tol, b, d)
    BY <1>1, <1>2 DEF KeyLess, ColdKey, CostKey, SpeedKey
  <1> QED BY <1>3, <1>4, <1>5

(* A measured candidate that is at least as fast and as cheap as another,  *)
(* and better in one, is before it, for every tolerance and whoever else   *)
(* is a candidate (what BetterFirst says of the sorted list).              *)
THEOREM DominatingIsBefore ==
    ASSUME NEW cs \in SUBSET WorkerCandidate, NEW tol \in Int,
           NEW c \in Warm(cs), NEW d \in Warm(cs), Dominates(c, d)
    PROVE  Before(cs, tol, c, d)
  <1>1. c \in WorkerCandidate /\ d \in WorkerCandidate
    BY DEF Warm
  <1>2. c.cost_per_token \in Int /\ c.speed_tps \in Int /\ c.worker_id \in Int
        /\ d.cost_per_token \in Int /\ d.speed_tps \in Int /\ d.worker_id \in Int
    BY <1>1 DEF WorkerCandidate
  <1>3. ~MissingPerfData(c) /\ ~MissingPerfData(d)
    BY DEF Warm
  <1>4. d \in WithinTolerance(cs, tol) => c \in WithinTolerance(cs, tol)
    <2> SUFFICES ASSUME d \in WithinTolerance(cs, tol), NEW e \in Warm(cs)
                 PROVE  ReachesFloor(c, e, tol)
      BY DEF WithinTolerance
    <2>1. e \in WorkerCandidate
      BY DEF Warm
    <2>2. ReachesFloor(d, e, tol)
      BY DEF WithinTolerance
    <2>3. c.speed_tps >= d.speed_tps /\ e.speed_tps <= e.speed_tps
      BY <2>1 DEF Dominates, WorkerCandidate
    <2> QED BY ONLY <1>1, <2>1, <2>2, <2>3, tol \in Int, ReachesFloorMonotonic
  <1>5. CASE d \in WithinTolerance(cs, tol)
    <2>1. Class(cs, tol, c) = 2 /\ Class(cs, tol, d) = 2
      BY <1>3, <1>4, <1>5 DEF Class
    <2>2. KeyLess(CostKey(c), CostKey(d))
      BY <1>2 DEF KeyLess, CostKey, Dominates
    <2> QED BY <2>1, <2>2 DEF Before
  <1>6. CASE d \notin WithinTolerance(cs, tol) /\ c \notin WithinTolerance(cs, tol)
    <2>1. Class(cs, tol, c) = 3 /\ Class(cs, tol, d) = 3
      BY <1>3, <1>6 DEF Class
    <2>2. KeyLess(SpeedKey(c), SpeedKey(d))
      BY <1>2 DEF KeyLess, SpeedKey, Dominates
    <2> QED BY <2>1, <2>2 DEF Before
  <1>7. CASE d \notin WithinTolerance(cs, tol) /\ c \in WithinTolerance(cs, tol)
    <2>1. Class(cs, tol, c) = 2 /\ Class(cs, tol, d) = 3
      BY <1>3, <1>7 DEF Class
    <2> QED BY <2>1 DEF Before
  <1> QED BY <1>5, <1>6, <1>7

-----------------------------------------------------------------------------
(* The sorts                                                               *)

(* s lists the elements of S, each once, in the order less.                *)
Lists(s, S) == /\ s \in Seq(S) /\ Len(s) = Cardinality(S)
               /\ \A c \in S : \E i \in 1 .. Len(s) : s[i] = c

(* What list.sort does when no two keys are equal.  A candidate has more   *)
(* candidates with smaller keys than any of those has, so no two have the  *)
(* same number of them, and every number less than the size is taken.      *)
LEMMA SortedByOrder ==
    ASSUME NEW S, IsFiniteSet(S), NEW key,
           \A c \in S : key[c][1] \in Int /\ key[c][2] \in Int /\ key[c][3] \in Int,
           \A c, d \in S : c # d => KeyLess(key[c], key[d]) \/ KeyLess(key[d], key[c])
    PROVE  /\ Lists(SortedBy(S, key), S)
           /\ \A i, j \in 1 .. Cardinality(S) : i < j =>
                KeyLess(key[SortedBy(S, key)[i]], key[SortedBy(S, key)[j]])
  <1> DEFINE smaller(c) == {d \in S : KeyLess(key[d], key[c])}
             n == Cardinality(S)
             rank == [c \in S |-> Cardinality(smaller(c))]
             s == SortedBy(S, key)
  <1>1. n \in Nat
    BY FS_CardinalityType
  <1>2. /\ \A c \in S : ~KeyLess(key[c], key[c])
        /\ \A b, c, d \in S :
             KeyLess(key[b], key[c]) /\ KeyLess(key[c], key[d]) => KeyLess(key[b], key[d])
    BY DEF KeyLess
  <1>3. ASSUME NEW c \in S
        PROVE  IsFiniteSet(smaller(c)) /\ rank[c] \in 0 .. n - 1
    <2>1. smaller(c) \in SUBSET S /\ c \notin smaller(c)
      BY <1>2
    <2> DEFINE T == smaller(c)
    <2>2. T \in SUBSET S /\ c \notin T /\ rank[c] = Cardinality(T)
      BY <2>1
    <2> HIDE DEF T, rank
    <2>3. IsFiniteSet(T) /\ Cardinality(T) <= n /\ Cardinality(T) # n
      BY <2>2, FS_Subset
    <2>4. Cardinality(T) \in Nat
      BY <2>3, FS_CardinalityType
    <2> QED BY <1>1, <2>2, <2>3, <2>4 DEF T
  <1>4. ASSUME NEW c \in S, NEW d \in S, KeyLess(key[c], key[d])
        PROVE  rank[c] < rank[d]
    <2> DEFINE C == smaller(c)
               D == smaller(d)
    <2>1. C \in SUBSET D /\ c \in D /\ c \notin C
      BY <1>2, <1>4
    <2>2. rank[c] = Cardinality(C) /\ rank[d] = Cardinality(D)
      OBVIOUS
    <2>3. IsFiniteSet(D) /\ rank[c] \in Nat /\ rank[d] \in Nat
      <3>1. IsFiniteSet(D) /\ rank[c] \in 0 .. n - 1 /\ rank[d] \in 0 .. n - 1
        BY <1>3
      <3> HIDE DEF D, rank, n
      <3> QED BY <1>1, <3>1
    <2> HIDE DEF C, D, rank
    <2>4. Cardinality(C) <= Cardinality(D) /\ (Cardinality(D) = Cardinality(C) => D = C)
      BY <2>1, <2>3, FS_Subset
    <2> QED BY <2>1, <2>2, <2>3, <2>4
  <1>5. rank \in [S -> 0 .. n - 1]
    BY <1>3
  <1> HIDE DEF rank
  <1>6. \A c, d \in S : rank[c] = rank[d] => c = d
    <2> SUFFICES ASSUME NEW c \in S, NEW d \in S, c # d PROVE rank[c] # rank[d]
      OBVIOUS
    <2>1. rank[c] < rank[d] \/ rank[d] < rank[c]
      BY <1>4
    <2>2. rank[c] \in Int /\ rank[d] \in Int
      BY <1>1, <1>5
    <2> QED BY <2>1, <2>2
  <1>7. \A i \in 1 .. n : \E c \in S : rank[c] = i - 1
    <2>1. rank \in Injection(S, 0 .. n - 1)
      BY <1>5, <1>6 DEF Injection, IsInjective
    <2>2. IsFiniteSet(0 .. n - 1) /\ Cardinality(0 .. n - 1) = n
      BY <1>1, FS_Interval
    <2>3. rank \in Surjection(S, 0 .. n - 1)
      BY <2>1, <2>2, FS_Injection
    <2>4. \A i \in 1 .. n : i - 1 \in 0 .. n - 1
      BY <1>1
    <2> QED BY <2>3, <2>4 DEF Surjection
  <1>8. s = [i \in 1 .. n |-> CHOOSE c \in S : Cardinality(smaller(c)) = i - 1]
    BY DEF SortedBy
  <1>9. \A i \in 1 .. n : s[i] \in S /\ rank[s[i]] = i - 1
    <2>1. \A c \in S : rank[c] = Cardinality(smaller(c))
      BY DEF rank
    <2> HIDE DEF s, n, smaller
    <2> SUFFICES ASSUME NEW i \in 1 .. n PROVE s[i] \in S /\ rank[s[i]] = i - 1
      OBVIOUS
    <2>2. s[i] = CHOOSE c \in S : Cardinality(smaller(c)) = i - 1
      BY <1>8
    <2>3. \E c \in S : Cardinality(smaller(c)) = i - 1
      BY <1>7, <2>1
    <2>4. s[i] \in S /\ Cardinality(smaller(s[i])) = i - 1
      BY <2>2, <2>3
    <2> QED BY <2>1, <2>4
  <1> HIDE DEF s, n
  <1>10. Lists(s, S)
    <2>1. s \in [1 .. n -> S]
      BY <1>8, <1>9
    <2>2. s \in Seq(S) /\ Len(s) = n
      BY <1>1, <2>1
    <2>3. ASSUME NEW c \in S PROVE \E i \in 1 .. n : s[i] = c
      <3>1. rank[c] + 1 \in 1 .. n /\ rank[c] = (rank[c] + 1) - 1
        BY <1>1, <1>5
      <3>2. rank[s[rank[c] + 1]] = rank[c]
        BY <1>9, <3>1
      <3> QED BY <1>6, <1>9, <3>1, <3>2
    <2> QED BY <2>2, <2>3 DEF Lists, n
  <1>11. ASSUME NEW i \in 1 .. n, NEW j \in 1 .. n, i < j
         PROVE  KeyLess(key[s[i]], key[s[j]])
    <2>1. s[i] \in S /\ s[j] \in S /\ rank[s[i]] = i - 1 /\ rank[s[j]] = j - 1
      BY <1>9
    <2>2. s[i] # s[j] /\ ~(rank[s[j]] < rank[s[i]])
      BY <1>1, <1>11, <2>1
    <2> QED BY <1>4, <2>1, <2>2
  <1> QED BY <1>10, <1>11 DEF n, s

LEMMA ListsConcat ==
    ASSUME NEW S, IsFiniteSet(S), NEW T, IsFiniteSet(T), S \cap T = {},
           NEW s, Lists(s, S), NEW t, Lists(t, T), NEW st, st = s \o t
    PROVE  /\ Lists(st, S \cup T) /\ IsFiniteSet(S \cup T)
           /\ Len(st) = Len(s) + Len(t)
           /\ \A i \in 1 .. Len(s) + Len(t) :
                \/ i \in 1 .. Len(s) /\ st[i] = s[i]
                \/ i > Len(s) /\ i - Len(s) \in 1 .. Len(t) /\ st[i] = t[i - Len(s)]
  <1>1. s \in Seq(S \cup T) /\ t \in Seq(S \cup T) /\ Len(s) \in Nat /\ Len(t) \in Nat
    BY SeqMonotonic DEF Lists
  <1>2. /\ st \in Seq(S \cup T) /\ Len(st) = Len(s) + Len(t)
        /\ \A i \in 1 .. Len(s) + Len(t) :
             st[i] = IF i <= Len(s) THEN s[i] ELSE t[i - Len(s)]
    BY <1>1, ConcatProperties
  <1>3. /\ IsFiniteSet(S \cup T) /\ Cardinality(S \cup T) = Cardinality(S) + Cardinality(T)
    <2>1. Cardinality(S \cap T) = 0
      BY FS_EmptySet
    <2>2. Cardinality(S) \in Nat /\ Cardinality(T) \in Nat
      BY FS_CardinalityType
    <2>3. /\ IsFiniteSet(S \cup T)
          /\ Cardinality(S \cup T) = Cardinality(S) + Cardinality(T) - Cardinality(S \cap T)
      BY FS_Union
    <2> QED BY <2>1, <2>2, <2>3
  <1>4. \A i \in 1 .. Len(s) + Len(t) :
          \/ i \in 1 .. Len(s) /\ st[i] = s[i]
          \/ i > Len(s) /\ i - Len(s) \in 1 .. Len(t) /\ st[i] = t[i - Len(s)]
    BY <1>1, <1>2
  <1>5. ASSUME NEW c \in S \cup T PROVE \E i \in 1 .. Len(s) + Len(t) : st[i] = c
    <2>1. CASE c \in S
      <3>1. PICK i \in 1 .. Len(s) : s[i] = c
        BY <2>1 DEF Lists
      <3>2. i \in 1 .. Len(s) + Len(t) /\ i <= Len(s)
        BY <1>1
      <3> QED BY <1>2, <3>1, <3>2
    <2>2. CASE c \in T
      <3>1. PICK i \in 1 .. Len(t) : t[i] = c
        BY <2>2 DEF Lists
      <3>2. /\ i + Len(s) \in 1 .. Len(s) + Len(t) /\ ~(i + Len(s) <= Len(s))
            /\ (i + Len(s)) - Len(s) = i
        BY <1>1
      <3>3. st[i + Len(s)] = t[i]
        BY <1>2, <3>2
      <3> QED BY <3>1, <3>2, <3>3
    <2> QED BY <2>1, <2>2
  <1>6. Lists(st, S \cup T)
    BY <1>2, <1>3, <1>5 DEF Lists
  <1> QED BY <1>2, <1>3, <1>4, <1>6

(* rank_candidates lists every candidate once, in the order Before states. *)
THEOREM RankingIsOrdered ==
    ASSUME NEW cs \in SUBSET WorkerCandidate, IsFiniteSet(cs), NEW tol \in Int,
           \A c, d \in cs : c # d => c.worker_id # d.worker_id
    PROVE  /\ Lists(RankCandidates(cs, tol), cs)
           /\ \A i, j \in 1 .. Len(RankCandidates(cs, tol)) :
                i < j => Before(cs, tol, RankCandidates(cs, tol)[i], RankCandidates(cs, tol)[j])
  <1> DEFINE cold == cs \ Warm(cs)
             within == WithinTolerance(cs, tol)
             slower == Warm(cs) \ within
             coldKey == [c \in cs |-> ColdKey(c)]
             costKey == [c \in cs |-> CostKey(c)]
             speedKey == [c \in cs |-> SpeedKey(c)]
             r == SortedBy(cold, coldKey)
             s == SortedBy(within, costKey)
             t == SortedBy(slower, speedKey)
             ranked == (r \o s) \o t
  <1>1. /\ cold \cup within \cup slower = cs
        /\ cold \cap within = {} /\ (cold \cup within) \cap slower = {}
        /\ cold \in SUBSET cs /\ within \in SUBSET cs /\ slower \in SUBSET cs
        /\ \A c \in cold : Class(cs, tol, c) = 1
        /\ \A c \in within : Class(cs, tol, c) = 2
        /\ \A c \in slower : Class(cs, tol, c) = 3
    BY DEF Warm, WithinTolerance, Class
  <1>2. IsFiniteSet(cold) /\ IsFiniteSet(within) /\ IsFiniteSet(slower)
    <2> HIDE DEF cold, within, slower
    <2> QED BY <1>1, FS_Subset
  <1>3. \A c \in cs : c.worker_id \in Int /\ c.cost_per_token \in Int /\ c.speed_tps \in Int
    BY DEF WorkerCandidate
  <1>4. \A c \in cs :
          /\ coldKey[c] = ColdKey(c) /\ costKey[c] = CostKey(c) /\ speedKey[c] = SpeedKey(c)
          /\ coldKey[c][1] \in Int /\ coldKey[c][2] \in Int /\ coldKey[c][3] \in Int
          /\ costKey[c][1] \in Int /\ costKey[c][2] \in Int /\ costKey[c][3] \in Int
          /\ speedKey[c][1] \in Int /\ speedKey[c][2] \in Int /\ speedKey[c][3] \in Int
    BY <1>3 DEF ColdKey, CostKey, SpeedKey
  <1>5. \A c, d \in cs : c # d =>
          /\ KeyLess(coldKey[c], coldKey[d]) \/ KeyLess(coldKey[d], coldKey[c])
          /\ KeyLess(costKey[c], costKey[d]) \/ KeyLess(costKey[d], costKey[c])
          /\ KeyLess(speedKey[c], speedKey[d]) \/ KeyLess(speedKey[d], speedKey[c])
    BY <1>3 DEF KeyLess, ColdKey, CostKey, SpeedKey
  <1>6. RankCandidates(cs, tol) = ranked
    BY DEF RankCandidates
  <1> HIDE DEF cold, within, slower, coldKey, costKey, speedKey
  <1>7. /\ Lists(r, cold)
        /\ \A i, j \in 1 .. Len(r) : i < j => KeyLess(coldKey[r[i]], coldKey[r[j]])
    <2>1. /\ \A c \in cold :
               coldKey[c][1] \in Int /\ coldKey[c][2] \in Int /\ coldKey[c][3] \in Int
          /\ \A c, d \in cold : c # d =>
               KeyLess(coldKey[c], coldKey[d]) \/ KeyLess(coldKey[d], coldKey[c])
      BY <1>1, <1>4, <1>5
    <2>2. /\ Lists(SortedBy(cold, coldKey), cold)
          /\ \A i, j \in 1 .. Cardinality(cold) : i < j =>
               KeyLess(coldKey[SortedBy(cold, coldKey)[i]], coldKey[SortedBy(cold, coldKey)[j]])
      BY <1>2, <2>1, SortedByOrder
    <2> QED BY <2>2 DEF Lists
  <1>8. /\ Lists(s, within)
        /\ \A i, j \in 1 .. Len(s) : i < j => KeyLess(costKey[s[i]], costKey[s[j]])
    <2>1. /\ \A c \in within :
               costKey[c][1] \in Int /\ costKey[c][2] \in Int /\ costKey[c][3] \in Int
          /\ \A c, d \in within : c # d =>
               KeyLess(costKey[c], costKey[d]) \/ KeyLess(costKey[d], costKey[c])
      BY <1>1, <1>4, <1>5
    <2>2. /\ Lists(SortedBy(within, costKey), within)
          /\ \A i, j \in 1 .. Cardinality(within) : i < j =>
               KeyLess(costKey[SortedBy(within, costKey)[i]], costKey[SortedBy(within, costKey)[j]])
      BY <1>2, <2>1, SortedByOrder
    <2> QED BY <2>2 DEF Lists
  <1>9. /\ Lists(t, slower)
        /\ \A i, j \in 1 .. Len(t) : i < j => KeyLess(speedKey[t[i]], speedKey[t[j]])
    <2>1. /\ \A c \in slower :
               speedKey[c][1] \in Int /\ speedKey[c][2] \in Int /\ speedKey[c][3] \in Int
          /\ \A c, d \in slower : c # d =>
               KeyLess(speedKey[c], speedKey[d]) \/ KeyLess(speedKey[d], speedKey[c])
      BY <1>1, <1>4, <1>5
    <2>2. /\ Lists(SortedBy(slower, speedKey), slower)
          /\ \A i, j \in 1 .. Cardinality(slower) : i < j =>
               KeyLess(speedKey[SortedBy(slower, speedKey)[i]], speedKey[SortedBy(slower, speedKey)[j]])
      BY <1>2, <2>1, SortedByOrder
    <2> QED BY <2>2 DEF Lists
  <1> HIDE DEF r, s, t
  <1> DEFINE rs == r \o s
  <1>10. /\ Lists(rs, cold \cup within) /\ IsFiniteSet(cold \cup within)
         /\ Len(rs) = Len(r) + Len(s)
         /\ \A i \in 1 .. Len(r) + Len(s) :
              \/ i \in 1 .. Len(r) /\ rs[i] = r[i]
              \/ i > Len(r) /\ i - Len(r) \in 1 .. Len(s) /\ rs[i] = s[i - Len(r)]
    <2>1. rs = r \o s
      OBVIOUS
    <2>2. /\ IsFiniteSet(cold) /\ IsFiniteSet(within) /\ cold \cap within = {}
          /\ Lists(r, cold) /\ Lists(s, within)
      BY <1>1, <1>2, <1>7, <1>8
    <2> HIDE DEF rs
    <2>3. Lists(rs, cold \cup within) /\ IsFiniteSet(cold \cup within)
      BY ONLY <2>1, <2>2, ListsConcat
    <2>4. Len(rs) = Len(r) + Len(s)
      BY ONLY <2>1, <2>2, ListsConcat
    <2>5. \A i \in 1 .. Len(r) + Len(s) :
            \/ i \in 1 .. Len(r) /\ rs[i] = r[i]
            \/ i > Len(r) /\ i - Len(r) \in 1 .. Len(s) /\ rs[i] = s[i - Len(r)]
      BY ONLY <2>1, <2>2, ListsConcat
    <2> QED BY <2>3, <2>4, <2>5
  <1> HIDE DEF rs
  <1>11. ranked = rs \o t
    BY DEF rs
  <1> HIDE DEF ranked
  <1>12. /\ Lists(ranked, cold \cup within \cup slower)
         /\ Len(ranked) = Len(rs) + Len(t)
         /\ \A i \in 1 .. Len(rs) + Len(t) :
              \/ i \in 1 .. Len(rs) /\ ranked[i] = rs[i]
              \/ i > Len(rs) /\ i - Len(rs) \in 1 .. Len(t) /\ ranked[i] = t[i - Len(rs)]
    <2>1. /\ IsFiniteSet(cold \cup within) /\ IsFiniteSet(slower)
          /\ (cold \cup within) \cap slower = {}
          /\ Lists(rs, cold \cup within) /\ Lists(t, slower)
      BY <1>1, <1>2, <1>9, <1>10
    <2>2. Lists(ranked, cold \cup within \cup slower)
      BY ONLY <1>11, <2>1, ListsConcat
    <2>3. Len(ranked) = Len(rs) + Len(t)
      BY ONLY <1>11, <2>1, ListsConcat
    <2>4. \A i \in 1 .. Len(rs) + Len(t) :
            \/ i \in 1 .. Len(rs) /\ ranked[i] = rs[i]
            \/ i > Len(rs) /\ i - Len(rs) \in 1 .. Len(t) /\ ranked[i] = t[i - Len(rs)]
      BY ONLY <1>11, <2>1, ListsConcat
    <2> QED BY <2>2, <2>3, <2>4
  <1>13. /\ Lists(ranked, cs) /\ Len(ranked) = Len(r) + Len(s) + Len(t)
         /\ Len(r) \in Nat /\ Len(s) \in Nat /\ Len(t) \in Nat
         /\ \A i \in 1 .. Len(ranked) :
              \/ i \in 1 .. Len(r) /\ ranked[i] = r[i]
              \/ i > Len(r) /\ i - Len(r) \in 1 .. Len(s) /\ ranked[i] = s[i - Len(r)]
              \/ /\ i > Len(r) + Len(s) /\ i - (Len(r) + Len(s)) \in 1 .. Len(t)
                 /\ ranked[i] = t[i - (Len(r) + Len(s))]
    <2>1. Len(r) \in Nat /\ Len(s) \in Nat /\ Len(t) \in Nat
      BY <1>7, <1>8, <1>9 DEF Lists
    <2>2. Lists(ranked, cs) /\ Len(ranked) = Len(r) + Len(s) + Len(t)
      BY <1>1, <1>10, <1>12, <2>1
    <2>3. ASSUME NEW i \in 1 .. Len(ranked)
          PROVE  \/ i \in 1 .. Len(r) /\ ranked[i] = r[i]
                 \/ i > Len(r) /\ i - Len(r) \in 1 .. Len(s) /\ ranked[i] = s[i - Len(r)]
                 \/ /\ i > Len(r) + Len(s) /\ i - (Len(r) + Len(s)) \in 1 .. Len(t)
                    /\ ranked[i] = t[i - (Len(r) + Len(s))]
      BY <1>10, <1>12, <2>1, <2>2
    <2> QED BY <2>1, <2>2, <2>3
  <1>14. /\ \A i \in 1 .. Len(r) : Class(cs, tol, r[i]) = 1
         /\ \A i \in 1 .. Len(s) : Class(cs, tol, s[i]) = 2
         /\ \A i \in 1 .. Len(t) : Class(cs, tol, t[i]) = 3
    <2>1. /\ \A i \in 1 .. Len(r) : r[i] \in cold
          /\ \A i \in 1 .. Len(s) : s[i] \in within
          /\ \A i \in 1 .. Len(t) : t[i] \in slower
      BY <1>7, <1>8, <1>9 DEF Lists
    <2> QED BY <1>1, <2>1
  <1>15. ASSUME NEW i \in 1 .. Len(ranked), NEW j \in 1 .. Len(ranked), i < j
         PROVE  Before(cs, tol, ranked[i], ranked[j])
    <2> DEFINE class(k) == Class(cs, tol, ranked[k])
               Placed(k) ==
                 \/ class(k) = 1 /\ k \in 1 .. Len(r) /\ ranked[k] = r[k]
                 \/ class(k) = 2 /\ k > Len(r) /\ k - Len(r) \in 1 .. Len(s)
                    /\ ranked[k] = s[k - Len(r)]
                 \/ class(k) = 3 /\ k > Len(r) + Len(s) /\ k - (Len(r) + Len(s)) \in 1 .. Len(t)
                    /\ ranked[k] = t[k - (Len(r) + Len(s))]
    <2>0. Placed(i) /\ Placed(j)
      <3>1. ASSUME NEW k \in 1 .. Len(ranked) PROVE Placed(k)
        <4>1. CASE k \in 1 .. Len(r) /\ ranked[k] = r[k]
          BY <1>14, <4>1
        <4>2. CASE k > Len(r) /\ k - Len(r) \in 1 .. Len(s) /\ ranked[k] = s[k - Len(r)]
          BY <1>14, <4>2
        <4>3. CASE /\ k > Len(r) + Len(s) /\ k - (Len(r) + Len(s)) \in 1 .. Len(t)
                   /\ ranked[k] = t[k - (Len(r) + Len(s))]
          BY <1>14, <4>3
        <4> QED BY <1>13, <4>1, <4>2, <4>3
      <3> QED BY <3>1
    <2>1. /\ class(i) \in {1, 2, 3} /\ class(j) \in {1, 2, 3} /\ class(i) <= class(j)
      <3> HIDE DEF class
      <3> QED BY <1>13, <1>15, <2>0
    <2>2. ranked[i] \in cs /\ ranked[j] \in cs
      BY <1>13 DEF Lists
    <2>3. CASE class(i) < class(j)
      BY <2>3 DEF Before
    <2>4. CASE class(i) = 1 /\ class(j) = 1
      <3>1. /\ i \in 1 .. Len(r) /\ ranked[i] = r[i] /\ j \in 1 .. Len(r) /\ ranked[j] = r[j]
        BY <2>0, <2>4
      <3>2. KeyLess(coldKey[ranked[i]], coldKey[ranked[j]])
        BY <1>7, <1>15, <3>1
      <3> QED BY <1>4, <2>2, <2>4, <3>2 DEF Before
    <2>5. CASE class(i) = 2 /\ class(j) = 2
      <3>1. /\ i - Len(r) \in 1 .. Len(s) /\ ranked[i] = s[i - Len(r)]
            /\ j - Len(r) \in 1 .. Len(s) /\ ranked[j] = s[j - Len(r)]
        BY <2>0, <2>5
      <3>2. i - Len(r) < j - Len(r)
        BY <1>13, <1>15
      <3>3. KeyLess(costKey[ranked[i]], costKey[ranked[j]])
        BY <1>8, <3>1, <3>2
      <3> QED BY <1>4, <2>2, <2>5, <3>3 DEF Before
    <2>6. CASE class(i) = 3 /\ class(j) = 3
      <3> DEFINE k == Len(r) + Len(s)
      <3>1. /\ i - k \in 1 .. Len(t) /\ ranked[i] = t[i - k]
            /\ j - k \in 1 .. Len(t) /\ ranked[j] = t[j - k]
        BY <2>0, <2>6
      <3>2. i - k < j - k
        BY <1>13, <1>15
      <3>3. KeyLess(speedKey[ranked[i]], speedKey[ranked[j]])
        BY <1>9, <3>1, <3>2
      <3> QED BY <1>4, <2>2, <2>6, <3>3 DEF Before
    <2> QED BY <2>1, <2>3, <2>4, <2>5, <2>6
  <1> QED BY <1>6, <1>13, <1>15

-----------------------------------------------------------------------------
(* The figures                                                             *)

LEMMA CostType ==
    ASSUME NEW power \in Powers, NEW s \in Speeds
    PROVE  CostOf(power, s) \in Int
  <1>1. power \in Int /\ s \in Int /\ s > 0 /\ BaseCost \in Int
    BY RankingAssumption
  <1>2. BaseCost * power \in Int
    BY <1>1
  <1> DEFINE product == BaseCost * power
  <1> HIDE DEF product
  <1>3. product \div s \in Int
    BY <1>1, <1>2 DEF product
  <1> QED BY <1>3 DEF CostOf, product

LEMMA TypeInit == Init => TypeOK
  <1> SUFFICES ASSUME Init PROVE TypeOK
    OBVIOUS
  <1>1. rows \in [Workers -> Figures \cup {NoRow}]
    <2> PICK registered \in SUBSET Workers, power \in [Workers -> Powers] :
          rows = [w \in Workers |-> IF w \in registered THEN Settled(w, speed[w], power[w])
                                    ELSE NoRow]
      BY DEF Init
    <2> SUFFICES ASSUME NEW w \in Workers PROVE Settled(w, speed[w], power[w]) \in Figures
      OBVIOUS
    <2>1. power[w] \in Powers /\ speed[w] \in {0} \cup Speeds
      BY DEF Init
    <2>2. BaseCost \in Int
      BY RankingAssumption
    <2>3. CASE speed[w] = 0
      BY <2>2, <2>3 DEF Settled, Figures
    <2>4. CASE speed[w] # 0
      <3>1. speed[w] \in Speeds
        BY <2>1, <2>4
      <3>2. CostOf(power[w], speed[w]) \in Int
        BY <2>1, <3>1, CostType
      <3> QED BY <2>4, <3>1, <3>2 DEF Settled, Figures
    <2> QED BY <2>3, <2>4
  <1>2. left \in [measures : 0 .. MaxMeasures, beats : 0 .. MaxBeats, faults : 0 .. MaxFaults]
    BY RankingAssumption DEF Init
  <1> QED BY <1>1, <1>2 DEF Init, TypeOK

LEMMA SpendType ==
    ASSUME TypeOK, NEW what \in {"measures", "beats", "faults"}, Spend(what)
    PROVE  left' \in [measures : 0 .. MaxMeasures, beats : 0 .. MaxBeats, faults : 0 .. MaxFaults]
  BY RankingAssumption DEF TypeOK, Spend

LEMMA SendType ==
    ASSUME TypeOK, NEW w \in Workers, NEW cost \in Int, NEW priced \in BOOLEAN,
           Send(w, cost, priced)
    PROVE  mail' \in SUBSET Heartbeat
  <1>1. [worker |-> w, cost |-> cost, speed |-> speed[w], priced |-> priced] \in Heartbeat
    BY DEF TypeOK, Heartbeat
  <1> QED BY <1>1 DEF TypeOK, Send

LEMMA TypeStep == TypeOK /\ SentTogether /\ [Next]_vars => TypeOK'
  <1> SUFFICES ASSUME TypeOK, SentTogether, [Next]_vars PROVE TypeOK'
    OBVIOUS
  <1> USE DEF TypeOK
  <1>1. ASSUME NEW w \in Workers, NEW s \in Speeds, Measure(w, s) PROVE TypeOK'
    BY <1>1, SpendType DEF Measure
  <1>2. ASSUME NEW w \in Workers, CollectWithoutSpeed(w) PROVE TypeOK'
    <2> DEFINE hb == [worker |-> w, cost |-> BaseCost, speed |-> speed[w], priced |-> FALSE]
    <2>1. hb \in Heartbeat
      BY RankingAssumption DEF Heartbeat
    <2>2. mail' = mail \cup {hb}
      BY <1>2 DEF CollectWithoutSpeed, Send
    <2> QED BY <1>2, <2>1, <2>2, SpendType DEF CollectWithoutSpeed
  <1>3. ASSUME NEW w \in Workers, AskPower(w) PROVE TypeOK'
    BY <1>3, SpendType DEF AskPower
  <1>4. ASSUME NEW w \in Workers, NEW power \in Powers, CollectWithSpeed(w, power) PROVE TypeOK'
    <2>1. CostOf(power, pricing[w]) \in Int
      BY <1>4, CostType DEF CollectWithSpeed
    <2>2. mail' \in SUBSET Heartbeat
      BY <1>4, <2>1, SendType DEF CollectWithSpeed
    <2> QED BY <1>4, <2>2 DEF CollectWithSpeed
  <1>5. ASSUME NEW w \in Workers, RestartWorker(w) PROVE TypeOK'
    BY <1>5, SpendType DEF RestartWorker
  <1>6. ASSUME NEW hb \in mail, LoseHeartbeat(hb) PROVE TypeOK'
    BY <1>6, SpendType DEF LoseHeartbeat
  <1>7. ASSUME NEW hb \in mail, ReplaceWorkerModels(hb) PROVE TypeOK'
    <2>1. StatOf(hb.worker) \in {0} \cup Speeds
      BY DEF StatOf, Heartbeat, Figures
    <2> QED BY <1>7, <2>1 DEF ReplaceWorkerModels, Heartbeat, Figures
  <1>8. CASE ReplaceWorkerModelSpeeds
    <2>1. handling \in Heartbeat /\ rows[handling.worker] \in Figures
      BY <1>8 DEF ReplaceWorkerModelSpeeds, SentTogether, Heartbeat
    <2>2. [rows[handling.worker] EXCEPT !.speed = handling.speed] \in Figures
      BY <2>1 DEF Heartbeat, Figures
    <2>3. rows' \in [Workers -> Figures \cup {NoRow}]
      BY <1>8, <2>1, <2>2 DEF ReplaceWorkerModelSpeeds, Heartbeat
    <2> QED BY <1>8, <2>3 DEF ReplaceWorkerModelSpeeds
  <1>9. CASE HandlerRaises
    BY <1>9, SpendType DEF HandlerRaises
  <1>10. CASE UNCHANGED vars
    BY <1>10 DEF vars
  <1> QED BY <1>1, <1>2, <1>3, <1>4, <1>5, <1>6, <1>7, <1>8, <1>9, <1>10 DEF Next, WorkerStep

LEMMA PricedInit == Init => SentTogether /\ WarmIsPriced
  <1> SUFFICES ASSUME Init PROVE SentTogether /\ WarmIsPriced
    OBVIOUS
  <1>1. SentTogether
    BY DEF Init, SentTogether
  <1>2. WarmIsPriced
    BY DEF Init, WarmIsPriced, Settled
  <1> QED BY <1>1, <1>2

LEMMA PricedStep == FiguresInv /\ [Next]_vars => SentTogether' /\ WarmIsPriced'
  <1> SUFFICES ASSUME FiguresInv, [Next]_vars PROVE SentTogether' /\ WarmIsPriced'
    OBVIOUS
  <1> USE DEF FiguresInv
  <1> DEFINE Frame == UNCHANGED <<handling, rows, torn>>
  <1>1. ASSUME Frame, \A hb \in mail' : hb \in mail \/ PricedTogether(hb)
        PROVE  SentTogether' /\ WarmIsPriced'
    BY <1>1 DEF SentTogether, WarmIsPriced, PricedTogether
  <1>2. ASSUME NEW w \in Workers, WorkerStep(w) PROVE SentTogether' /\ WarmIsPriced'
    <2>1. Frame
      BY <1>2 DEF WorkerStep, Measure, CollectWithoutSpeed, AskPower, CollectWithSpeed,
                  RestartWorker
    <2>2. \A hb \in mail' : hb \in mail \/ PricedTogether(hb)
      BY <1>2 DEF WorkerStep, Measure, CollectWithoutSpeed, AskPower, CollectWithSpeed,
                  RestartWorker, Send, PricedTogether
    <2> QED BY <1>1, <2>1, <2>2
  <1>3. ASSUME NEW hb \in mail, LoseHeartbeat(hb) PROVE SentTogether' /\ WarmIsPriced'
    BY <1>1, <1>3 DEF LoseHeartbeat
  <1>4. ASSUME NEW hb \in mail, ReplaceWorkerModels(hb) PROVE SentTogether' /\ WarmIsPriced'
    <2>1. hb \in Heartbeat /\ hb.worker \in Workers
      BY DEF TypeOK, Heartbeat
    <2> DEFINE row == [cost |-> hb.cost, speed |-> StatOf(hb.worker), priced |-> hb.priced]
    <2>2. row \in Figures
      BY <2>1 DEF TypeOK, StatOf, Heartbeat, Figures
    <2>3. rows'[hb.worker] = row /\ torn'[hb.worker] /\ handling' = hb
      BY <1>4, <2>1 DEF ReplaceWorkerModels, TypeOK
    <2>4. SentTogether'
      BY <1>4, <2>2, <2>3, NoRowAssumption DEF ReplaceWorkerModels, SentTogether, PricedTogether
    <2>5. WarmIsPriced'
      BY <1>4, <2>1, <2>3 DEF ReplaceWorkerModels, WarmIsPriced, TypeOK
    <2> QED BY <2>4, <2>5
  <1>5. CASE ReplaceWorkerModelSpeeds
    <2> DEFINE w == handling.worker
    <2>1. w \in Workers /\ rows[w] \in Figures
      BY <1>5 DEF ReplaceWorkerModelSpeeds, SentTogether, TypeOK, Heartbeat
    <2>2. rows'[w].speed = handling.speed /\ rows'[w].priced = rows[w].priced
      BY <1>5, <2>1 DEF ReplaceWorkerModelSpeeds, TypeOK, Figures
    <2>3. rows'[w].speed # 0 => rows'[w].priced
      BY <1>5, <2>2 DEF ReplaceWorkerModelSpeeds, SentTogether, PricedTogether
    <2>4. \A v \in Workers \ {w} : rows'[v] = rows[v] /\ torn'[v] = torn[v]
      BY <1>5 DEF ReplaceWorkerModelSpeeds, TypeOK
    <2>5. WarmIsPriced'
      BY <2>3, <2>4 DEF WarmIsPriced
    <2>6. SentTogether'
      BY <1>5 DEF ReplaceWorkerModelSpeeds, SentTogether, PricedTogether
    <2> QED BY <2>5, <2>6
  <1>6. CASE HandlerRaises
    BY <1>6 DEF HandlerRaises, SentTogether, WarmIsPriced, PricedTogether
  <1>7. CASE UNCHANGED vars
    BY <1>1, <1>7 DEF vars
  <1> QED BY <1>2, <1>3, <1>4, <1>5, <1>6, <1>7 DEF Next

LEMMA FiguresInvariant == Spec => []FiguresInv
  <1>1. Init => FiguresInv
    BY TypeInit, PricedInit DEF FiguresInv
  <1>2. FiguresInv /\ [Next]_vars => FiguresInv'
    BY TypeStep, PricedStep DEF FiguresInv
  <1> QED BY <1>1, <1>2, PTL DEF Spec

(* Type correctness of what is measured, sent and stored. *)
THEOREM RankingTypeCorrect == Spec => []TypeOK
  <1> QED BY FiguresInvariant, PTL DEF FiguresInv

(* No worker is ranked by a speed and the base cost (collect,              *)
(* cost_per_token, handle_heartbeat).                                      *)
THEOREM WarmIsPricedCorrect == Spec => []WarmIsPriced
  <1> QED BY FiguresInvariant, PTL DEF FiguresInv

-----------------------------------------------------------------------------
(* Who becomes better keeps the lead                                       *)

LEMMA CandidatesType ==
    ASSUME NEW table, table \in [Workers -> Figures \cup {NoRow}], NEW ws \in SUBSET Workers
    PROVE  /\ Candidates(table, ws) \in SUBSET WorkerCandidate
           /\ \A w \in ws : table[w] # NoRow =>
                Candidate(table, w) \in Candidates(table, ws)
  <1>1. ASSUME NEW w \in ws, table[w] # NoRow
        PROVE  Candidate(table, w) \in WorkerCandidate
    <2>1. w \in Nat /\ table[w] \in Figures
      BY <1>1, RankingAssumption
    <2>2. table[w].cost \in Int /\ table[w].speed \in {0} \cup Speeds
      BY <2>1 DEF Figures
    <2>3. table[w].speed \in Int
      <3>1. Speeds \subseteq Int /\ 0 \in Int
        BY RankingAssumption
      <3> QED BY <2>2, <3>1
    <2> QED BY <2>1, <2>2, <2>3 DEF Candidate, WorkerCandidate
  <1> QED BY <1>1 DEF Candidates

(* What the selector is given: a finite set, each worker in it once.       *)
LEMMA CandidatesRanked ==
    ASSUME TypeOK, NEW tol \in Tolerances
    PROVE  LET cs == Candidates(rows, Workers)
               ranked == ListRankedWorkers(Workers, tol)
           IN  /\ cs \in SUBSET WorkerCandidate /\ tol \in Int /\ Lists(ranked, cs)
               /\ \A i, j \in 1 .. Len(ranked) : i < j => Before(cs, tol, ranked[i], ranked[j])
  <1> DEFINE cs == Candidates(rows, Workers)
  <1>1. cs \in SUBSET WorkerCandidate /\ tol \in Int
    BY CandidatesType, RankingAssumption DEF TypeOK
  <1>2. IsFiniteSet(cs)
    <2> DEFINE ws == {w \in Workers : rows[w] # NoRow}
               f == [w \in ws |-> Candidate(rows, w)]
    <2>1. IsFiniteSet(ws)
      BY RankingAssumption, FS_Subset
    <2>2. f \in Surjection(ws, cs)
      BY DEF Surjection, Candidates
    <2> HIDE DEF ws, cs, f
    <2> QED BY <2>1, <2>2, FS_Surjection
  <1>3. \A c, d \in cs : c # d => c.worker_id # d.worker_id
    BY DEF Candidates, Candidate
  <1>4. ListRankedWorkers(Workers, tol) = RankCandidates(cs, tol)
    BY DEF ListRankedWorkers
  <1> HIDE DEF cs
  <1>5. /\ Lists(RankCandidates(cs, tol), cs)
        /\ \A i, j \in 1 .. Len(RankCandidates(cs, tol)) :
             i < j => Before(cs, tol, RankCandidates(cs, tol)[i], RankCandidates(cs, tol)[j])
    BY <1>1, <1>2, <1>3, RankingIsOrdered
  <1> QED BY <1>1, <1>4, <1>5 DEF cs

(* No candidate is lost or listed twice, and the list is in the order      *)
(* Before, for any number of workers (rank_candidates).                    *)
THEOREM RankedInOrderCorrect == Spec => []RankedInOrder
  <1>1. ASSUME TypeOK, NEW tol \in Tolerances
        PROVE  LET cs == Candidates(rows, Workers)
                   ranked == ListRankedWorkers(Workers, tol)
               IN /\ Len(ranked) = Cardinality(cs) /\ {ranked[i] : i \in DOMAIN ranked} = cs
                  /\ \A i, j \in DOMAIN ranked : i < j => Before(cs, tol, ranked[i], ranked[j])
    <2> DEFINE cs == Candidates(rows, Workers)
               ranked == ListRankedWorkers(Workers, tol)
    <2>1. /\ Lists(ranked, cs)
          /\ \A i, j \in 1 .. Len(ranked) : i < j => Before(cs, tol, ranked[i], ranked[j])
      BY <1>1, CandidatesRanked
    <2> HIDE DEF cs, ranked
    <2>2. DOMAIN ranked = 1 .. Len(ranked) /\ \A i \in 1 .. Len(ranked) : ranked[i] \in cs
      BY <2>1 DEF Lists
    <2>3. {ranked[i] : i \in DOMAIN ranked} = cs
      BY <2>1, <2>2 DEF Lists
    <2> QED BY <2>1, <2>2, <2>3 DEF Lists, cs, ranked
  <1>2. TypeOK => RankedInOrder
    BY <1>1 DEF RankedInOrder
  <1> QED BY <1>2, RankingTypeCorrect, PTL

(* No measured worker is tried before one that is faster and cheaper, for  *)
(* any number of workers and any tolerance (rank_candidates).              *)
THEOREM BetterFirstCorrect == Spec => []BetterFirst
  <1>1. ASSUME TypeOK, NEW tol \in Tolerances
        PROVE  LET ranked == ListRankedWorkers(Workers, tol)
               IN \A i, j \in DOMAIN ranked :
                    /\ i < j /\ ~MissingPerfData(ranked[i]) /\ ~MissingPerfData(ranked[j])
                    => ~Dominates(ranked[j], ranked[i])
    <2> DEFINE cs == Candidates(rows, Workers)
               ranked == ListRankedWorkers(Workers, tol)
    <2>1. /\ cs \in SUBSET WorkerCandidate /\ tol \in Int /\ Lists(ranked, cs)
          /\ \A i, j \in 1 .. Len(ranked) : i < j => Before(cs, tol, ranked[i], ranked[j])
      BY <1>1, CandidatesRanked
    <2> HIDE DEF cs, ranked
    <2>2. ASSUME NEW i \in DOMAIN ranked, NEW j \in DOMAIN ranked, i < j,
                 ~MissingPerfData(ranked[i]), ~MissingPerfData(ranked[j]),
                 Dominates(ranked[j], ranked[i])
          PROVE  FALSE
      <3>1. i \in 1 .. Len(ranked) /\ j \in 1 .. Len(ranked) /\ ranked[i] \in cs /\ ranked[j] \in cs
        BY <2>1 DEF Lists
      <3>2. PICK c \in cs, d \in cs : c = ranked[i] /\ d = ranked[j]
        BY <3>1
      <3>3. c \in Warm(cs) /\ d \in Warm(cs) /\ Dominates(d, c)
        BY <2>2, <3>2 DEF Warm
      <3>4. Before(cs, tol, d, c)
        BY <2>1, <3>3, DominatingIsBefore
      <3>5. Before(cs, tol, c, d)
        BY <2>1, <2>2, <3>1, <3>2
      <3> QED BY <2>1, <3>4, <3>5, BeforeIsTotalOrder
    <2> QED BY <2>2 DEF ranked
  <1>2. TypeOK => BetterFirst
    BY <1>1 DEF BetterFirst
  <1> QED BY <1>2, RankingTypeCorrect, PTL

(* The reasons for the lead, table by table: w stays in its class or rises *)
(* to the better one, and no other worker rises.                           *)
LEMMA LeadKept ==
    ASSUME NEW old, old \in [Workers -> Figures \cup {NoRow}],
           NEW new, new \in [Workers -> Figures \cup {NoRow}],
           NEW ws \in SUBSET Workers, NEW tol \in Int,
           NEW w \in ws, NEW v \in ws \ {w},
           Improves(w, old, new), Leads(old, ws, tol, w, v)
    PROVE  Leads(new, ws, tol, w, v)
  <1> DEFINE cs == Candidates(old, ws)
             ds == Candidates(new, ws)
             c(u) == Candidate(old, u)
             d(u) == Candidate(new, u)
  <1>1. \A u \in ws : old[u] # NoRow => c(u) \in WorkerCandidate /\ c(u) \in cs
    BY CandidatesType
  <1>2. \A u \in ws : new[u] # NoRow => d(u) \in WorkerCandidate /\ d(u) \in ds
    BY CandidatesType
  <1>3. \A u \in ws \ {w} : new[u] = old[u] /\ d(u) = c(u)
    BY DEF Improves, Candidate
  <1>4. /\ old[w] # NoRow /\ new[w] # NoRow /\ old[v] # NoRow /\ new[v] # NoRow
        /\ ~MissingPerfData(c(w)) /\ ~MissingPerfData(d(w))
        /\ d(w).speed_tps >= c(w).speed_tps /\ d(w).cost_per_token <= c(w).cost_per_token
        /\ d(w).worker_id = c(w).worker_id
    BY <1>3 DEF Improves, Measured, Leads, Candidate
  <1>5. Before(cs, tol, c(w), c(v))
    BY DEF Leads
  <1>6. \A u \in ws : old[u] # NoRow => (d(u) \in Warm(ds) <=> c(u) \in Warm(cs))
    BY <1>1, <1>2, <1>3, <1>4 DEF Warm
  <1>7. \A e \in Warm(ds) : \E u \in ws : e = d(u) /\ new[u] # NoRow /\ old[u] # NoRow
    BY <1>3, <1>4 DEF Warm, Candidates
  <1>8. \A e \in Warm(cs) : \E u \in ws : e = c(u) /\ old[u] # NoRow
    BY DEF Warm, Candidates
  <1>9. d(v) \in WithinTolerance(ds, tol) => c(v) \in WithinTolerance(cs, tol)
    <2> SUFFICES ASSUME d(v) \in WithinTolerance(ds, tol), NEW u \in ws, old[u] # NoRow,
                        c(u) \in Warm(cs)
                 PROVE  c(v) \in Warm(cs) /\ ReachesFloor(c(v), c(u), tol)
      BY <1>8, <1>3, <1>4, <1>6 DEF WithinTolerance
    <2>1. d(u) \in Warm(ds) /\ d(v) \in Warm(ds) /\ ReachesFloor(d(v), d(u), tol)
      BY <1>6 DEF WithinTolerance
    <2>2. c(u) \in WorkerCandidate /\ d(u) \in WorkerCandidate
          /\ c(v) \in WorkerCandidate /\ d(v) \in WorkerCandidate
      BY <1>1, <1>2, <1>3, <1>4
    <2>3. d(u).speed_tps >= c(u).speed_tps
      BY <1>3, <1>4, <2>2 DEF WorkerCandidate
    <2>4. c(v).speed_tps >= d(v).speed_tps
      BY <1>3, <2>2 DEF WorkerCandidate
    <2>5. ReachesFloor(c(v), c(u), tol)
      BY <2>1, <2>2, <2>3, <2>4, ReachesFloorMonotonic
    <2> QED BY <2>1, <2>5, <1>4, <1>6
  <1>10. c(w) \in WithinTolerance(cs, tol) => d(w) \in WithinTolerance(ds, tol)
    <2> SUFFICES ASSUME c(w) \in WithinTolerance(cs, tol), NEW u \in ws, old[u] # NoRow,
                        d(u) \in Warm(ds)
                 PROVE  ReachesFloor(d(w), d(u), tol)
      BY <1>7, <1>4, <1>6 DEF WithinTolerance
    <2>1. c(w) \in WorkerCandidate /\ d(w) \in WorkerCandidate
          /\ c(u) \in WorkerCandidate /\ d(u) \in WorkerCandidate
      BY <1>1, <1>2, <1>3, <1>4
    <2>2. CASE u = w
      <3>1. d(w).speed_tps \in Int /\ d(w).speed_tps > 0
        BY <1>4, <2>1 DEF WorkerCandidate, MissingPerfData
      <3>2. FloorPercent(tol) \in Nat /\ FloorPercent(tol) <= 100
        BY FloorPercentRange
      <3>3. d(w).speed_tps \in Nat
        BY <3>1
      <3>4. FloorPercent(tol) * d(w).speed_tps <= 100 * d(w).speed_tps
        BY <3>2, <3>3, Monotonic
      <3>5. FloorPercent(tol) * d(w).speed_tps = d(w).speed_tps * FloorPercent(tol)
        BY <3>2, <3>3
      <3> QED BY <2>2, <3>2, <3>3, <3>4, <3>5 DEF ReachesFloor
    <2>3. CASE u # w
      <3>1. c(u) \in Warm(cs) /\ ReachesFloor(c(w), c(u), tol)
        BY <1>6 DEF WithinTolerance
      <3>2. d(u).speed_tps <= c(u).speed_tps
        BY <1>3, <2>1, <2>3 DEF WorkerCandidate
      <3> QED BY <1>4, <2>1, <3>1, <3>2, ReachesFloorMonotonic
    <2> QED BY <2>2, <2>3
  <1>11. Class(cs, tol, c(w)) \in {2, 3} /\ Class(ds, tol, d(w)) \in {2, 3}
         /\ Class(ds, tol, d(w)) <= Class(cs, tol, c(w))
    BY <1>4, <1>10 DEF Class
  <1>12. Class(cs, tol, c(v)) \in {1, 2, 3} /\ Class(ds, tol, d(v)) \in {1, 2, 3}
         /\ Class(ds, tol, d(v)) >= Class(cs, tol, c(v))
    BY <1>3, <1>9 DEF Class
  <1>13. KeyLess(CostKey(c(w)), CostKey(c(v))) => KeyLess(CostKey(d(w)), CostKey(d(v)))
    BY <1>1, <1>2, <1>3, <1>4 DEF KeyLess, CostKey, WorkerCandidate
  <1>14. KeyLess(SpeedKey(c(w)), SpeedKey(c(v))) => KeyLess(SpeedKey(d(w)), SpeedKey(d(v)))
    BY <1>1, <1>2, <1>3, <1>4 DEF KeyLess, SpeedKey, WorkerCandidate
  <1> HIDE DEF cs, ds, c, d
  <1>15. Before(ds, tol, d(w), d(v))
    BY <1>5, <1>11, <1>12, <1>13, <1>14 DEF Before
  <1> QED BY <1>4, <1>15 DEF Leads, ds, d

(* A worker that becomes faster or cheaper keeps its lead, for any number  *)
(* of workers, any figures and any tolerance.                              *)
THEOREM LeadCorrect == Spec => ImprovementKeepsLead
  <1>1. ASSUME TypeOK, TypeOK', NEW w \in Workers, Improves(w, rows, rows'),
               NEW ws \in SUBSET Workers, NEW tol \in Tolerances, NEW v \in ws \ {w},
               w \in ws, Leads(rows, ws, tol, w, v)
        PROVE  Leads(rows', ws, tol, w, v)
    BY <1>1, LeadKept, RankingAssumption DEF TypeOK
  <1>2. TypeOK /\ TypeOK' /\ [Next]_vars =>
          [\A w \in Workers : Improves(w, rows, rows') =>
             \A ws \in SUBSET Workers, tol \in Tolerances :
               \A v \in ws \ {w} :
                 w \in ws /\ Leads(rows, ws, tol, w, v) => Leads(rows', ws, tol, w, v)]_rows
    BY <1>1
  <1> QED BY <1>2, RankingTypeCorrect, PTL DEF Spec, ImprovementKeepsLead
=============================================================================
