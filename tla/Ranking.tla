------------------------------- MODULE Ranking -------------------------------
(***************************************************************************)
(* How the figures the selector ranks by come about, for one model: the    *)
(* job loop of a worker records the speed of its last job, the heartbeat   *)
(* loop prices a token and sends both, and handle_heartbeat writes them in *)
(* two transactions, between and after which the assigner's thread reads   *)
(* the candidates.                                                         *)
(***************************************************************************)
EXTENDS Selector

CONSTANTS
    Workers,      \* worker ids, in their order
    Speeds,       \* tokens per second a job may be measured at
    Powers,       \* watts the power meter may show
    BaseCost,     \* base_cost_per_token; the electricity price is in its unit
    Tolerances,   \* scheduler_speed_tolerance_ratio, in percent
    NoRow,        \* "the worker has no row for the model"
    MaxMeasures, MaxBeats, MaxFaults   \* bounds

ASSUME RankingAssumption ==
    /\ Workers \subseteq Nat /\ IsFiniteSet(Workers)
    /\ Speeds \subseteq Nat \ {0} /\ Powers \subseteq Nat /\ BaseCost \in Nat
    /\ Tolerances \subseteq Int
    /\ {MaxMeasures, MaxBeats, MaxFaults} \subseteq Nat

Figures == [cost : Int, speed : {0} \cup Speeds, priced : BOOLEAN]
Heartbeat == [worker : Workers, cost : Int, speed : {0} \cup Speeds, priced : BOOLEAN]

ASSUME NoRowAssumption == NoRow \notin Figures /\ NoRow \notin Heartbeat

VARIABLES
    speed,      \* _model_speed_tps of every worker, 0 when absent
    pricing,    \* the speed read by a cost_per_token that awaits the meter, or 0
    mail,       \* heartbeats under way
    handling,   \* the heartbeat whose models are written and whose speeds are not
    rows,       \* worker_models joined with worker_model_stats
    torn,       \* history: the two parts of a row are of different heartbeats
    left        \* what is left of the bounds

vars == <<speed, pricing, mail, handling, rows, torn, left>>

(* priced: history, the cost is one of a measured speed *)
CostOf(power, s) == (BaseCost * power) \div s
Settled(w, s, p) == IF s = 0 THEN [cost |-> BaseCost, speed |-> 0, priced |-> FALSE]
                    ELSE [cost |-> CostOf(p, s), speed |-> s, priced |-> TRUE]

(* The registry outlives the server: what it holds at its start is what    *)
(* earlier heartbeats of each worker have left.                            *)
Init ==
    /\ speed \in [Workers -> {0} \cup Speeds]
    /\ \E registered \in SUBSET Workers, power \in [Workers -> Powers] :
         /\ rows = [w \in Workers |-> IF w \in registered THEN Settled(w, speed[w], power[w])
                                      ELSE NoRow]
         /\ \A w \in Workers \ registered : speed[w] = 0
    /\ pricing = [w \in Workers |-> 0]
    /\ mail = {} /\ handling = NoRow
    /\ torn = [w \in Workers |-> FALSE]
    /\ left = [measures |-> MaxMeasures, beats |-> MaxBeats, faults |-> MaxFaults]

Spend(what) == left[what] > 0 /\ left' = [left EXCEPT ![what] = @ - 1]

-----------------------------------------------------------------------------
(* The worker                                                              *)

(* record_model_speed_tps at the end of a job; the job loop and the        *)
(* heartbeat loop are tasks of one event loop.                             *)
Measure(w, s) ==
    /\ Spend("measures")
    /\ speed' = [speed EXCEPT ![w] = s]
    /\ UNCHANGED <<pricing, mail, handling, rows, torn>>

Send(w, cost, priced) ==
    mail' = mail \cup {[worker |-> w, cost |-> cost, speed |-> speed[w], priced |-> priced]}

(* collect: a model without a speed costs the base, without an await ...   *)
CollectWithoutSpeed(w) ==
    /\ pricing[w] = 0 /\ speed[w] = 0
    /\ Spend("beats")
    /\ Send(w, BaseCost, FALSE)
    /\ UNCHANGED <<speed, pricing, handling, rows, torn>>

(* ... otherwise the meter is awaited with the speed in hand ...           *)
AskPower(w) ==
    /\ pricing[w] = 0 /\ speed[w] # 0
    /\ Spend("beats")
    /\ pricing' = [pricing EXCEPT ![w] = speed[w]]
    /\ UNCHANGED <<speed, mail, handling, rows, torn>>

(* ... and the heartbeat gets the speed of now with that cost.             *)
CollectWithSpeed(w, power) ==
    /\ pricing[w] # 0
    /\ Send(w, CostOf(power, pricing[w]), TRUE)
    /\ pricing' = [pricing EXCEPT ![w] = 0]
    /\ UNCHANGED <<speed, handling, rows, torn, left>>

(* The figures live in the process. *)
RestartWorker(w) ==
    /\ Spend("faults")
    /\ speed' = [speed EXCEPT ![w] = 0]
    /\ pricing' = [pricing EXCEPT ![w] = 0]
    /\ UNCHANGED <<mail, handling, rows, torn>>

LoseHeartbeat(hb) ==
    /\ hb \in mail
    /\ Spend("faults")
    /\ mail' = mail \ {hb}
    /\ UNCHANGED <<speed, pricing, handling, rows, torn>>

-----------------------------------------------------------------------------
(* The server: handle_heartbeat runs without an await, so one at a time.   *)

StatOrNull(w) == IF rows[w] = NoRow THEN NoRow ELSE rows[w].speed
StatOf(w) == IF rows[w] = NoRow THEN 0 ELSE rows[w].speed

ReplaceWorkerModels(hb) ==
    /\ hb \in mail /\ handling = NoRow
    /\ mail' = mail \ {hb}
    /\ handling' = hb
    /\ rows' = [rows EXCEPT ![hb.worker] =
                  [cost |-> hb.cost, speed |-> StatOf(hb.worker), priced |-> hb.priced]]
    /\ torn' = [torn EXCEPT ![hb.worker] = TRUE]
    /\ UNCHANGED <<speed, pricing, left>>

ReplaceKnownSpeeds ==
    /\ handling # NoRow
    /\ rows' = [rows EXCEPT ![handling.worker].speed =
                  IF handling.speed = 0 THEN @ ELSE handling.speed]
    /\ torn' = [torn EXCEPT ![handling.worker] = FALSE]
    /\ handling' = NoRow
    /\ UNCHANGED <<speed, pricing, mail, left>>

(* All speeds of the worker are deleted first: one not sent is gone. *)
ReplaceWorkerModelSpeeds ==
    /\ handling # NoRow
    /\ rows' = [rows EXCEPT ![handling.worker].speed = handling.speed]
    /\ torn' = [torn EXCEPT ![handling.worker] = FALSE]
    /\ handling' = NoRow
    /\ UNCHANGED <<speed, pricing, mail, left>>

(* The second transaction fails, or the server dies before it. *)
HandlerRaises ==
    /\ handling # NoRow
    /\ Spend("faults")
    /\ handling' = NoRow
    /\ UNCHANGED <<speed, pricing, mail, rows, torn>>

(* get_candidate_workers_with_speed: table is rows, and ws the workers     *)
(* that are on line and idle                                               *)
Candidate(table, w) == [worker_id |-> w, cost_per_token |-> table[w].cost,
                        speed_tps |-> table[w].speed]
Candidates(table, ws) == {Candidate(table, w) : w \in {v \in ws : table[v] # NoRow}}

(* list_ranked_workers, whose first is pick_worker's *)
ListRankedWorkers(ws, tol) == RankCandidates(Candidates(rows, ws), tol)

WorkerStep(w) ==
    \/ \E s \in Speeds : Measure(w, s)
    \/ CollectWithoutSpeed(w) \/ AskPower(w)
    \/ \E power \in Powers : CollectWithSpeed(w, power)
    \/ RestartWorker(w)

Next ==
    \/ \E w \in Workers : WorkerStep(w)
    \/ \E hb \in mail : LoseHeartbeat(hb) \/ ReplaceWorkerModels(hb)
    \/ ReplaceWorkerModelSpeeds \/ HandlerRaises

Spec == Init /\ [][Next]_vars
=============================================================================
