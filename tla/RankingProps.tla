---------------------------- MODULE RankingProps -----------------------------
(* What the order of the candidates guarantees, whatever has reached the   *)
(* registry when the assigner reads it.                                    *)
EXTENDS Ranking

(* Type invariant of the measured, sent and stored figures. *)
TypeOK ==
    /\ speed \in [Workers -> {0} \cup Speeds]
    /\ pricing \in [Workers -> {0} \cup Speeds]
    /\ mail \subseteq Heartbeat
    /\ handling \in Heartbeat \cup {NoRow}
    /\ rows \in [Workers -> Figures \cup {NoRow}]
    /\ torn \in [Workers -> BOOLEAN]
    /\ left \in [measures : 0 .. MaxMeasures, beats : 0 .. MaxBeats, faults : 0 .. MaxFaults]

(* rank_candidates loses no candidate, lists none twice, and lists them in *)
(* the order Before states pair by pair (three lists sorted by three keys  *)
(* and put together).  A worker that is busy or off line is no candidate,  *)
(* just as one without a row.                                              *)
RankedInOrder ==
    \A tol \in Tolerances :
        LET cs == Candidates(rows, Workers)
            ranked == ListRankedWorkers(Workers, tol)
        IN /\ Len(ranked) = Cardinality(cs) /\ {ranked[i] : i \in DOMAIN ranked} = cs
           /\ \A i, j \in DOMAIN ranked : i < j => Before(cs, tol, ranked[i], ranked[j])

(* c is no worse than d in either figure and better in one. *)
Dominates(c, d) ==
    /\ c.speed_tps >= d.speed_tps /\ c.cost_per_token <= d.cost_per_token
    /\ c.speed_tps > d.speed_tps \/ c.cost_per_token < d.cost_per_token

(* No measured worker is tried before one that is both faster and cheaper: *)
(* the tolerance, which puts cheaper workers in front of faster ones, has  *)
(* an edge at which the order of comparison changes (rank_candidates).     *)
BetterFirst ==
    \A tol \in Tolerances :
        LET ranked == ListRankedWorkers(Workers, tol)
        IN \A i, j \in DOMAIN ranked :
             /\ i < j /\ ~MissingPerfData(ranked[i]) /\ ~MissingPerfData(ranked[j])
             => ~Dominates(ranked[j], ranked[i])

(* A worker that is ranked by a speed is ranked by a cost that was priced  *)
(* with one, never by the base cost, which is of another order: neither    *)
(* the await between the reading of the speed for the cost and the reading *)
(* of the speed that is sent (collect, cost_per_token), nor a restart that *)
(* forgets the speed, puts the two together, except between or after a     *)
(* failure between the two transactions of handle_heartbeat.               *)
WarmIsPriced ==
    \A w \in Workers :
        rows[w] # NoRow /\ ~torn[w] /\ rows[w].speed # 0 => rows[w].priced

(* The inductive invariant: a sent speed comes with a cost of a speed, and *)
(* the row under treatment has the cost of the heartbeat treated.          *)
PricedTogether(hb) == hb.speed # 0 => hb.priced
SentTogether ==
    /\ \A hb \in mail : PricedTogether(hb)
    /\ handling # NoRow => /\ PricedTogether(handling)
                           /\ rows[handling.worker] # NoRow
                           /\ rows[handling.worker].priced = handling.priced
                           /\ torn[handling.worker]
FiguresInv == TypeOK /\ SentTogether /\ WarmIsPriced

Measured(table, w) == table[w] # NoRow /\ ~MissingPerfData(Candidate(table, w))

(* From one table to the other only the row of w changes, for the better.  *)
Improves(w, old, new) ==
    /\ new[w] # old[w] /\ Measured(old, w) /\ Measured(new, w)
    /\ new[w].speed >= old[w].speed /\ new[w].cost <= old[w].cost
    /\ \A v \in Workers \ {w} : new[v] = old[v]

Leads(table, ws, tol, w, v) ==
    /\ table[w] # NoRow /\ table[v] # NoRow
    /\ Before(Candidates(table, ws), tol, Candidate(table, w), Candidate(table, v))

(* A worker that becomes faster or cheaper keeps its place in front of the *)
(* others, although its speed may raise the floor below which speed comes  *)
(* before cost (rank_candidates, replace_worker_models and _speeds).       *)
ImprovementKeepsLead ==
    [][\A w \in Workers : Improves(w, rows, rows') =>
         \A ws \in SUBSET Workers, tol \in Tolerances :
           \A v \in ws \ {w} :
             w \in ws /\ Leads(rows, ws, tol, w, v) => Leads(rows', ws, tol, w, v)]_rows
=============================================================================
