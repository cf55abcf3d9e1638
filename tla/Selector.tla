------------------------------ MODULE Selector -------------------------------
(***************************************************************************)
(* server/scheduler/selector.py: the order in which the candidates of one  *)
(* model are tried.  Speeds and costs are integers in a unit of one's      *)
(* choice and the tolerance is in percent, so that no rounding occurs;     *)
(* worker_id is a number, for the place of the id among the ids.           *)
(***************************************************************************)
EXTENDS Integers, Sequences, FiniteSets

WorkerCandidate == [worker_id : Nat, cost_per_token : Int, speed_tps : Int]

MissingPerfData(c) == c.speed_tps <= 0 \/ c.cost_per_token <= 0

Warm(cs) == {c \in cs : ~MissingPerfData(c)}

(* 1 - max(0, tol), or 0, in percent *)
FloorPercent(tol) == IF tol <= 0 THEN 100 ELSE IF tol >= 100 THEN 0 ELSE 100 - tol

(* At least the floor, which is that share of the highest speed *)
ReachesFloor(c, d, tol) == 100 * c.speed_tps >= d.speed_tps * FloorPercent(tol)

WithinToleranceOfSlowest(cs, tol) ==
    {c \in Warm(cs) : \A d \in Warm(cs) : ReachesFloor(d, c, tol)}
WithinTolerance(cs, tol) == {c \in Warm(cs) : \A d \in Warm(cs) : ReachesFloor(c, d, tol)}

(* The sort keys of the three classes *)
ColdKey(c) == <<c.worker_id, c.cost_per_token, 0>>
CostKey(c) == <<c.cost_per_token, -c.speed_tps, c.worker_id>>
SpeedKeyIdFirst(c) == <<-c.speed_tps, c.worker_id, c.cost_per_token>>
SpeedKey(c) == <<-c.speed_tps, c.cost_per_token, c.worker_id>>

KeyLess(s, t) == \/ s[1] < t[1]
                 \/ s[1] = t[1] /\ s[2] < t[2]
                 \/ s[1] = t[1] /\ s[2] = t[2] /\ s[3] < t[3]

(* list.sort(key=...), where no two keys are equal: each candidate comes   *)
(* after as many others as have a smaller key.                             *)
SortedBy(S, key) ==
    LET smaller(c) == {d \in S : KeyLess(key[d], key[c])}
    IN [i \in 1 .. Cardinality(S) |-> CHOOSE c \in S : Cardinality(smaller(c)) = i - 1]

RankCandidatesFloorTwice(cs, tol) ==
    LET within == WithinTolerance(cs, tol)
        slower == {c \in Warm(cs) : \E d \in Warm(cs) :
                     100 * c.speed_tps <= d.speed_tps * FloorPercent(tol)}
    IN SortedBy(cs \ Warm(cs), [c \in cs |-> ColdKey(c)])
       \o SortedBy(within, [c \in cs |-> CostKey(c)])
       \o SortedBy(slower, [c \in cs |-> SpeedKey(c)])
RankCandidates(cs, tol) ==
    LET within == WithinTolerance(cs, tol)
        slower == Warm(cs) \ within
    IN SortedBy(cs \ Warm(cs), [c \in cs |-> ColdKey(c)])
       \o SortedBy(within, [c \in cs |-> CostKey(c)])
       \o SortedBy(slower, [c \in cs |-> SpeedKey(c)])

-----------------------------------------------------------------------------
(* The reference: what it means for c to be tried before d.                *)

Class(cs, tol, c) == IF MissingPerfData(c) THEN 1
                     ELSE IF c \in WithinTolerance(cs, tol) THEN 2 ELSE 3

Before(cs, tol, c, d) ==
    LET class(x) == Class(cs, tol, x) IN
    \/ class(c) < class(d)
    \/ class(c) = 1 /\ class(d) = 1 /\ KeyLess(ColdKey(c), ColdKey(d))
    \/ class(c) = 2 /\ class(d) = 2 /\ KeyLess(CostKey(c), CostKey(d))
    \/ class(c) = 3 /\ class(d) = 3 /\ KeyLess(SpeedKey(c), SpeedKey(d))
=============================================================================
