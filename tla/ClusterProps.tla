----------------------------- MODULE ClusterProps ----------------------------
(* What the gossip between servers guarantees, and what the docs claim. *)
EXTENDS Cluster

(* Every cycle and every gossip handler that has begun goes on: their      *)
(* waits all carry a timeout or are for another thread of this list.  No   *)
(* fairness for the start of a cycle, faults, or a request's way.          *)
ClusterFairness ==
    /\ \A n \in Node : WF_clusterVars(JobStep(n) /\ UNCHANGED routeVars)
    /\ \A n, m \in Node : WF_clusterVars(HandlerStep(n, m) /\ UNCHANGED routeVars)
ClusterFairSpec == ClusterSpec /\ ClusterFairness

JobState == [pc : {"idle", "self", "seeds", "seed", "probe", "mark", "gossip", "wait",
                   "apply", "offline"},
             todo : SUBSET (Node \cup Targets), at : Targets \cup {NoRow},
             pen : Pens \cup {NoRow}, queue : Seq(Entry), max : Nat, clean : BOOLEAN]
HandlerState == [pc : {"quiet", "apply", "reply", "failed"}, pen : Pens \cup {NoRow},
                 queue : Seq(Entry), since : Nat, svs : SUBSET Nat]

ServersTypeOK ==
    /\ rows \in [Node -> [Node -> Columns \cup {NoRow}]]
    /\ cursor \in [Node -> [Node -> [IdKinds -> Nat]]]
    /\ raced \in BOOLEAN
    /\ job \in [Node -> JobState]
    /\ handler \in [Node -> [Node -> HandlerState]]
    /\ told \in [Node -> [Node -> SUBSET Nat]]
    /\ cycles \in [Node -> Nat] /\ faults \in 0 .. MaxFaults
RouteTypeOK ==
    /\ wanted \in Model /\ unheard \in BOOLEAN
    /\ Ways \subseteq Seq(Node) \ {<<>>}
    /\ \A w \in Ways : calls[w] \in Calls

(* Type invariant of the cluster's tables, threads and requests. *)
ClusterTypeOK == ServersTypeOK /\ RouteTypeOK

(* A row known under a seed's made-up id offers no model, so that only a   *)
(* row under its node's configured id, which X-DLLM-Seen-Nodes can name,   *)
(* is ever a candidate for forwarding (_seed_nodes, apply_remote_entry,    *)
(* upsert_node).  A commit over a row changed since it was read breaks it. *)
SeedRowsOfferNothing ==
    ~raced => \A n \in Node : \A u \in Known(n) :
                rows[n][u].id = "seed" => rows[n][u].models = {} /\ rows[n][u].rev = 1

(* A forwarded request never comes back to a server that is waiting for    *)
(* its answer, whatever the servers on its way believe of each other and   *)
(* however often they fall through to the next candidate                   *)
(* (chat_completions, X-DLLM-Seen-Nodes).                                  *)
NoWayBack ==
    ~raced => \A w \in Ways : \A i, j \in DOMAIN w : w[i] = w[j] => i = j

(* At most one server answers a request from a worker of its own, and none *)
(* answers one that the client sees turned down, unless somebody went on   *)
(* without an answer: after a timeout, or because it died.                 *)
OneAnswer ==
    ~unheard => \A w, v \in Ways :
        calls[v].pc = "served" =>
            /\ calls[w].pc = "served" => w = v
            /\ Len(w) = 1 => calls[w].pc # "failed"

(* No server is ever known with a revision it has not announced: losses,   *)
(* repetitions, races and restarts may set a row back, never ahead         *)
(* (ensure_self_node, apply_remote_entry, upsert_node).                    *)
NoRevisionAhead ==
    \A n \in Node : \A u \in Known(n) : rows[n][u].id = "own" => rows[n][u].rev <= cycles[u]

(* Only a server's own row is marked is_self: get_self_node, which expects *)
(* one row at most, does not raise in the gossip handler, and forwarding   *)
(* loses no remote node.                                                   *)
OnlyOwnRowIsSelf == \A n \in Node : \A u \in Known(n) : rows[n][u].self => u = n

(* The cursor of a neighbour never passes a row the neighbour has not      *)
(* handled: batches that are cut off, lost posts and lost answers leave    *)
(* nothing out (export_deltas, upsert_neighbor_sync).                      *)
NothingSkipped ==
    ~raced => \A n, m \in Node, k \in IdKinds : \A u \in Known(n) :
                rows[n][u].sv <= cursor[n][m][k] => rows[n][u].sv \in told[n][m]

(* A sync cycle that has begun ends, although the servers post to each     *)
(* other and wait for each other's answers (_job, cluster_gossip).         *)
CycleEnds == \A n \in Node : job[n].pc # "idle" ~> job[n].pc = "idle"

-----------------------------------------------------------------------------
(* The inductive invariant: what is written down of a server, in a row, in *)
(* a write under way or in an entry on its way, is credible, and every     *)
(* step only passes it on.                                                 *)

(* x is said of a server that has announced itself so many times.          *)
Credible(x, announced, racy) ==
    /\ x.rev <= announced \/ x.rev = 1
    /\ x.id = "own" => announced > 0
    /\ ~racy /\ x.id = "seed" => x.models = {} /\ x.rev = 1

RowsInv ==
    \A n \in Node : \A u \in Known(n) :
        Credible(rows[n][u], cycles[u], raced) /\ (rows[n][u].self => u = n)
PenInv(n, pen) ==
    pen # NoRow => /\ Credible(pen.new, cycles[pen.url], raced) /\ (pen.new.self => pen.url = n)
                   /\ pen.old # NoRow => rows[n][pen.url] # NoRow
QueueInv(q) == \A i \in 1 .. Len(q) : Credible(q[i], cycles[q[i].url], raced)

JobInv(n) ==
    /\ PenInv(n, job[n].pen) /\ QueueInv(job[n].queue)
    /\ job[n].pen # NoRow => \/ job[n].pc \in {"self", "seed", "mark", "offline"}
                             \/ job[n].pc = "apply" /\ job[n].queue # <<>>
    /\ job[n].pc = "self" /\ job[n].pen # NoRow => job[n].pen.url = n
    /\ job[n].pc \in {"wait", "apply"} => job[n].at \in Targets
    /\ job[n].pc \notin {"idle", "self"} => rows[n][n] # NoRow
HandlerInv(n, m) ==
    /\ PenInv(n, handler[n][m].pen) /\ QueueInv(handler[n][m].queue)
    /\ handler[n][m].pen # NoRow => handler[n][m].pc = "apply" /\ handler[n][m].queue # <<>>

ClusterInv ==
    /\ ServersTypeOK /\ RowsInv
    /\ \A n \in Node : JobInv(n)
    /\ \A n, m \in Node : HandlerInv(n, m)

-----------------------------------------------------------------------------
(* The inductive invariant of a request's way.  As long as every answer is *)
(* heard, the calls that have not failed stand in a row, each of them      *)
(* waiting for the next one or relaying its answer.                        *)

Under(w, v) == Len(w) < Len(v) /\ \A i \in 1 .. Len(w) : w[i] = v[i]
Alive(w) == calls[w].pc # "failed"
HangsOn(w, v) == calls[w].pc \in {"forwarding", "relayed"} /\ calls[w].asked = v[Len(w) + 1]

OneBranch ==
    \A w, v \in Ways :
        /\ Alive(v) /\ Under(w, v) => HangsOn(w, v)
        /\ Alive(w) /\ Alive(v) => w = v \/ Under(w, v) \/ Under(v, w)
        /\ <<w[1]>> \in Ways /\ w[1] = v[1]

(* The candidates still to try are on no way that leads to the call, and   *)
(* the one asked has the call its answer comes from.                       *)
TodoNew == ~raced => \A w \in Ways : Range(calls[w].todo) \cap Range(w) = {}
AskedIsThere == \A w \in Ways : calls[w].asked # NoRow => Append(w, calls[w].asked) \in Ways

RouteInv ==
    /\ RouteTypeOK /\ NoWayBack /\ TodoNew /\ AskedIsThere
    /\ ~unheard => OneBranch

-----------------------------------------------------------------------------
(* Claimed in server_architecture.md:207 of apply_remote_entry: it compares *)
(* by revision and refuses older updates.  Taken here for entries whose     *)
(* check and commit nobody came between.                                    *)
OlderIsRefused ==
    [][\A n \in Node :
         ~raced' /\ (EntryApplied(n) \/ \E m \in Node : HandlerApplies(n, m)) =>
             \A u \in Known(n) : rows'[n][u].rev >= rows[n][u].rev]_clusterVars
=============================================================================
