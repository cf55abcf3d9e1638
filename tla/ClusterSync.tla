----------------------------- MODULE ClusterSync -----------------------------
(***************************************************************************)
(* start_cluster_sync's job of every server: one cycle announces the       *)
(* server in its own table, adds the seeds, probes neighbours, and posts   *)
(* its newer rows to some of them, whose answer it applies.  Every write   *)
(* is a load (which sets pen) and a commit.  POST /internal/cluster/gossip *)
(* runs in a thread pool of the receiving server: handler[n][m] serves the *)
(* post of m at n.                                                         *)
(***************************************************************************)
EXTENDS ClusterTable

CONSTANTS
    Seeds,          \* cluster_seed_urls
    Offers,         \* the sets of models the online workers of a server may serve
    NeighborCount,  \* cluster_neighbor_count
    Fanout,         \* cluster_gossip_fanout
    DeltaBatch,     \* cluster_delta_batch_size
    MaxCycles,      \* bound: the cycles each server runs
    MaxFaults,      \* bound: faults in all
    Together        \* bound: whether one behaviour may have both races and faults

ASSUME SyncAssumption ==
    /\ Seeds \in [Node -> SUBSET Node] /\ Offers \in [Node -> SUBSET SUBSET Model]
    /\ {NeighborCount, Fanout, DeltaBatch, MaxFaults} \subseteq Nat
    /\ MaxCycles \in [Node -> Nat] /\ Together \in BOOLEAN
    /\ DeltaBatch > 0

VARIABLES
    job,       \* the sync job of every server
    handler,   \* the gossip handlers: receiver, sender
    told,      \* history: told[n][m], the versions of n's rows that m has handled
    cycles,    \* cycles begun
    faults     \* faults so far

syncVars == <<job, handler, told, cycles, faults>>

Targets == [url : Node, id : IdKinds]

(* pc:    where the job is; "seed", "self", "mark" and "offline" precede a *)
(*        commit                                                           *)
(* todo:  the seeds or neighbours still to do, at: the one being done      *)
(* pen:   the write under way, queue: entries of the answer still to apply *)
(* max:   max_sv, svs: the versions of the rows posted                     *)
(* clean: history: this cycle has met no fault                             *)
Idle == [pc |-> "idle", todo |-> {}, at |-> NoRow, pen |-> NoRow, queue |-> <<>>,
         max |-> 0, clean |-> TRUE]
Quiet == [pc |-> "quiet", pen |-> NoRow, queue |-> <<>>, since |-> 0, svs |-> {}]

SyncInit ==
    /\ job = [n \in Node |-> Idle]
    /\ handler = [n \in Node |-> [m \in Node |-> Quiet]]
    /\ told = [n \in Node |-> [m \in Node |-> {}]]
    /\ cycles = [n \in Node |-> 0]
    /\ faults = 0

Fault == faults < MaxFaults /\ (Together \/ ~raced) /\ faults' = faults + 1
CommitWithin(n, pen) == Commit(n, pen) /\ (Together \/ ~raced' \/ faults = 0)
OnlyJob == UNCHANGED <<tableVars, handler, told, cycles, faults>>

-----------------------------------------------------------------------------
(* The job                                                                 *)

StartCycle(n, models) ==
    /\ models \in Offers[n]
    /\ job[n].pc = "idle" /\ cycles[n] < MaxCycles[n]
    /\ job' = [job EXCEPT ![n] = [Idle EXCEPT !.pc = "self", !.pen = EnsureSelfNode(n, models)]]
    /\ cycles' = [cycles EXCEPT ![n] = @ + 1]
    /\ UNCHANGED <<tableVars, handler, told, faults>>

(* A failed INSERT leaves the session unusable: the cycle is given up, in  *)
(* the fan-out loop too, where mark_node_offline fails in its turn.        *)
GiveUpCycle(n) ==
    /\ job[n].pen # NoRow /\ Conflicts(n, job[n].pen)
    /\ job' = [job EXCEPT ![n] = Idle]
    /\ OnlyJob

CommitJob(n, pc, next) ==
    /\ job[n].pc = pc /\ job[n].pen # NoRow /\ ~Conflicts(n, job[n].pen)
    /\ CommitWithin(n, job[n].pen)
    /\ job' = [job EXCEPT ![n] = next]
    /\ UNCHANGED <<handler, told, cycles, faults>>

SelfAnnounced(n) ==
    CommitJob(n, "self", [job[n] EXCEPT !.pc = "seeds", !.pen = NoRow, !.todo = Seeds[n] \ {n}])

SkipSeed(n, s) ==
    /\ job[n].pc = "seeds" /\ s \in job[n].todo /\ HasNode(n, s, "seed")
    /\ job' = [job EXCEPT ![n].todo = @ \ {s}]
    /\ OnlyJob

AddSeedKeepingModels(n, s) ==
    /\ job[n].pc = "seeds" /\ s \in job[n].todo /\ ~HasNode(n, s, "seed")
    /\ job' = [job EXCEPT ![n] = [job[n] EXCEPT !.pc = "seed", !.todo = @ \ {s},
         !.pen = Pen(n, s, Row("seed", 1, FALSE, TRUE,
                               UNION {rows[n][u].models : u \in Known(n) \cap {s}}))]]
    /\ OnlyJob
AddSeed(n, s) ==
    /\ job[n].pc = "seeds" /\ s \in job[n].todo /\ ~HasNode(n, s, "seed")
    /\ job' = [job EXCEPT ![n] = [job[n] EXCEPT !.pc = "seed", !.todo = @ \ {s},
                                    !.pen = Pen(n, s, Row("seed", 1, FALSE, TRUE, {}))]]
    /\ OnlyJob

SeedAdded(n) == CommitJob(n, "seed", [job[n] EXCEPT !.pc = "seeds", !.pen = NoRow])

Choose(n, from, to, count) ==
    /\ job[n].pc = from /\ job[n].todo = {}
    /\ \E urls \in GossipNeighbors(n, count) :
         job' = [job EXCEPT ![n] = [@ EXCEPT !.pc = to, !.todo = Named(n, urls)]]
    /\ OnlyJob

ChooseNeighbors(n) == Choose(n, "seeds", "probe", NeighborCount)

OfflineWithRevision(row) == [row EXCEPT !.alive = FALSE, !.rev = @ + 1]
Offline(row) == [row EXCEPT !.alive = FALSE]

(* update_latency or mark_node_offline: nothing if the id is not known any *)
(* more, else a load                                                       *)
Mark(n, t, alive, pc, skip) ==
    IF HasNode(n, t.url, t.id)
    THEN [job[n] EXCEPT !.pc = pc, !.todo = @ \ {t}, !.at = NoRow, !.max = 0,
              !.clean = @ /\ alive,
              !.pen = Pen(n, t.url, IF alive THEN rows[n][t.url]
                                    ELSE Offline(rows[n][t.url]))]
    ELSE [job[n] EXCEPT !.pc = skip, !.todo = @ \ {t}, !.at = NoRow, !.max = 0,
              !.clean = @ /\ alive]

Probe(n, t, alive) ==
    /\ job[n].pc = "probe" /\ t \in job[n].todo
    /\ IF alive THEN UNCHANGED faults ELSE Fault
    /\ job' = [job EXCEPT ![n] = Mark(n, t, alive, "mark", "probe")]
    /\ UNCHANGED <<tableVars, handler, told, cycles>>

Marked(n) == CommitJob(n, "mark", [job[n] EXCEPT !.pc = "probe", !.pen = NoRow])

ChooseTargets(n) == Choose(n, "probe", "gossip", Fanout)

SenderEntry(n) == [NodeToWire(n, n) EXCEPT !.alive = TRUE]

(* The request carries the rows above the cursor of the target's id, and   *)
(* that cursor.  A target still busy with an earlier post of this server   *)
(* is met by the failure of the call only.                                 *)
Post(n, t) ==
    /\ job[n].pc = "gossip" /\ t \in job[n].todo /\ handler[t.url][n] = Quiet
    /\ \E batch \in Batches(n, cursor[n][t.url][t.id], DeltaBatch) :
         LET since == cursor[n][t.url][t.id] IN
         /\ handler' = [handler EXCEPT ![t.url][n] =
              [pc |-> "apply", pen |-> NoRow, since |-> since,
               queue |-> <<SenderEntry(n)>> \o ToWire(n, batch), svs |-> Versions(n, batch)]]
         /\ job' = [job EXCEPT ![n] = [@ EXCEPT !.pc = "wait", !.at = t,
                                                !.max = MaxSent(n, since, batch)]]
    /\ UNCHANGED <<tableVars, told, cycles, faults>>

PostFails(n, t) ==
    /\ job[n].pc = "gossip" /\ t \in job[n].todo
    /\ Fault
    /\ job' = [job EXCEPT ![n] = Mark(n, t, FALSE, "offline", "gossip")]
    /\ UNCHANGED <<tableVars, handler, told, cycles>>

(* The answer is late or lost; the handler, if it runs, goes on.           *)
AnswerLost(n) ==
    /\ job[n].pc = "wait"
    /\ Fault
    /\ job' = [job EXCEPT ![n] = Mark(n, job[n].at, FALSE, "offline", "gossip")]
    /\ UNCHANGED <<tableVars, handler, told, cycles>>

Answered(n) ==
    LET h == handler[job[n].at.url][n] IN
    /\ job[n].pc = "wait" /\ h.pc = "reply"
    /\ job' = [job EXCEPT ![n] = [@ EXCEPT !.pc = "apply", !.queue = h.queue]]
    /\ handler' = [handler EXCEPT ![job[n].at.url][n] = Quiet]
    /\ UNCHANGED <<tableVars, told, cycles, faults>>

(* Any status but 200, or a connection closed by a server that restarts    *)
AnsweredError(n) ==
    LET u == job[n].at.url IN
    /\ job[n].pc = "wait" /\ handler[u][n].pc \in {"failed", "quiet"}
    /\ job' = [job EXCEPT ![n] = Mark(n, job[n].at, FALSE, "offline", "gossip")]
    /\ handler' = [handler EXCEPT ![u][n] = Quiet]
    /\ UNCHANGED <<tableVars, told, cycles, faults>>

MarkedOffline(n) == CommitJob(n, "offline", [job[n] EXCEPT !.pc = "gossip", !.pen = NoRow])

RefuseEntry(n) ==
    /\ job[n].pc = "apply" /\ job[n].pen = NoRow /\ job[n].queue # <<>>
    /\ Refused(n, Head(job[n].queue))
    /\ job' = [job EXCEPT ![n].queue = Tail(@)]
    /\ OnlyJob

TakeEntry(n) ==
    /\ job[n].pc = "apply" /\ job[n].pen = NoRow /\ job[n].queue # <<>>
    /\ ~Refused(n, Head(job[n].queue))
    /\ job' = [job EXCEPT ![n].pen = ApplyRemoteEntry(n, Head(job[n].queue))]
    /\ OnlyJob

EntryApplied(n) ==
    CommitJob(n, "apply", [job[n] EXCEPT !.pen = NoRow, !.queue = Tail(@)])

AdvanceCursor(n) ==
    /\ job[n].pc = "apply" /\ job[n].queue = <<>>
    /\ UpsertNeighborSync(n, job[n].at.url, job[n].at.id, job[n].max)
    /\ job' = [job EXCEPT ![n] = [job[n] EXCEPT !.pc = "gossip", !.todo = @ \ {job[n].at},
                                                !.at = NoRow, !.max = 0]]
    /\ UNCHANGED <<handler, told, cycles, faults>>

EndCycle(n) ==
    /\ job[n].pc = "gossip" /\ job[n].todo = {}
    /\ job' = [job EXCEPT ![n] = Idle]
    /\ OnlyJob

JobStep(n) ==
    \/ GiveUpCycle(n) \/ SelfAnnounced(n) \/ SeedAdded(n) \/ Marked(n) \/ MarkedOffline(n)
    \/ \E s \in Node : SkipSeed(n, s) \/ AddSeed(n, s)
    \/ ChooseNeighbors(n) \/ ChooseTargets(n)
    \/ \E t \in Targets : Probe(n, t, TRUE) \/ Post(n, t)
    \/ Answered(n) \/ AnsweredError(n)
    \/ RefuseEntry(n) \/ TakeEntry(n) \/ EntryApplied(n) \/ AdvanceCursor(n) \/ EndCycle(n)

JobFault(n) ==
    \/ AnswerLost(n)
    \/ \E t \in Targets : Probe(n, t, FALSE) \/ PostFails(n, t)

-----------------------------------------------------------------------------
(* cluster_gossip: at n, the post of m                                     *)

OnlyHandler == UNCHANGED <<tableVars, job, told, cycles, faults>>

HandlerRefuses(n, m) ==
    LET h == handler[n][m] IN
    /\ h.pc = "apply" /\ h.pen = NoRow /\ h.queue # <<>> /\ Refused(n, Head(h.queue))
    /\ handler' = [handler EXCEPT ![n][m].queue = Tail(@)]
    /\ OnlyHandler

HandlerTakesBetweenCycles(n, m) ==
    LET h == handler[n][m] IN
    /\ h.pc = "apply" /\ h.pen = NoRow /\ h.queue # <<>> /\ ~Refused(n, Head(h.queue))
    /\ job[n].pc = "idle"
    /\ handler' = [handler EXCEPT ![n][m].pen = ApplyRemoteEntry(n, Head(h.queue))]
    /\ OnlyHandler
HandlerTakes(n, m) ==
    LET h == handler[n][m] IN
    /\ h.pc = "apply" /\ h.pen = NoRow /\ h.queue # <<>> /\ ~Refused(n, Head(h.queue))
    /\ handler' = [handler EXCEPT ![n][m].pen = ApplyRemoteEntry(n, Head(h.queue))]
    /\ OnlyHandler

HandlerApplies(n, m) ==
    LET h == handler[n][m] IN
    /\ h.pen # NoRow /\ ~Conflicts(n, h.pen)
    /\ CommitWithin(n, h.pen)
    /\ handler' = [handler EXCEPT ![n][m] = [h EXCEPT !.pen = NoRow, !.queue = Tail(@)]]
    /\ UNCHANGED <<job, told, cycles, faults>>

HandlerFails(n, m) ==
    LET h == handler[n][m] IN
    /\ h.pen # NoRow /\ Conflicts(n, h.pen)
    /\ handler' = [handler EXCEPT ![n][m] = [Quiet EXCEPT !.pc = "failed"]]
    /\ OnlyHandler

(* since is the sender's cursor over its own versions; here it selects     *)
(* among the receiver's.                                                   *)
HandlerReplies(n, m) ==
    LET h == handler[n][m] IN
    /\ h.pc = "apply" /\ h.queue = <<>>
    /\ \E batch \in Batches(n, h.since, DeltaBatch) :
         handler' = [handler EXCEPT ![n][m] =
                       [Quiet EXCEPT !.pc = "reply", !.queue = ToWire(n, batch)]]
    /\ told' = [told EXCEPT ![m][n] = @ \cup h.svs]
    /\ UNCHANGED <<tableVars, job, cycles, faults>>

(* Nobody waits for the answer any more.                                   *)
HandlerDropped(n, m) ==
    /\ handler[n][m].pc \in {"reply", "failed"}
    /\ ~(job[m].pc = "wait" /\ job[m].at.url = n)
    /\ handler' = [handler EXCEPT ![n][m] = Quiet]
    /\ OnlyHandler

HandlerStep(n, m) ==
    \/ HandlerRefuses(n, m) \/ HandlerTakes(n, m) \/ HandlerApplies(n, m)
    \/ HandlerFails(n, m) \/ HandlerReplies(n, m) \/ HandlerDropped(n, m)

-----------------------------------------------------------------------------
(* A server dies and comes back on its database.                           *)
RestartServer(n) ==
    /\ Fault
    /\ job' = [job EXCEPT ![n] = Idle]
    /\ handler' = [handler EXCEPT ![n] = [m \in Node |-> Quiet]]
    /\ UNCHANGED <<tableVars, told, cycles>>
=============================================================================
