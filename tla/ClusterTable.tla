----------------------------- MODULE ClusterTable ----------------------------
(***************************************************************************)
(* Tables cluster_nodes and cluster_neighbor_sync of every server of a     *)
(* cluster (ClusterRepository, ClusterService).                            *)
(*                                                                         *)
(* A server is written as the base URL it is configured with.  base_url is *)
(* unique in the table, so rows[n][u] is the row about server u at server  *)
(* n.  Its node_id is either the id u is configured with ("own") or the    *)
(* id _seed_nodes makes up of u's URL ("seed"): an entry (kind, u) names   *)
(* one id.  revision is u's own counter, sv is n's counter state_version,  *)
(* which orders the changes of n's table.  Left out: the worker counts,    *)
(* the latency and the times, which only order candidates, and tombstone,  *)
(* which no code ever sets.                                                *)
(*                                                                         *)
(* upsert_node reads the row and writes at its commit the columns that     *)
(* differ from what it read; between the two another thread of the server  *)
(* may commit.  A pen is a write under way.                                *)
(***************************************************************************)
EXTENDS Naturals, FiniteSets, Sequences, FiniteSetsExt

CONSTANTS
    Node,     \* the servers
    Model,    \* the model names
    NoRow     \* "no such row"

IdKinds == {"own", "seed"}
Columns == [id : IdKinds, rev : Nat, self : BOOLEAN, alive : BOOLEAN,
            models : SUBSET Model, sv : Nat]

ASSUME NodeAssumption == IsFiniteSet(Node) /\ NoRow \notin Columns

VARIABLES
    rows,     \* cluster_nodes of every server
    cursor,   \* cluster_neighbor_sync: last_sent_state_version per node_id
    raced     \* history: two writers of a table got in each other's way

tableVars == <<rows, cursor, raced>>

TableInit ==
    /\ rows = [n \in Node |-> [u \in Node |-> NoRow]]
    /\ cursor = [n \in Node |-> [u \in Node |-> [k \in IdKinds |-> 0]]]
    /\ raced = FALSE

Known(n) == {u \in Node : rows[n][u] # NoRow}
MaxStateVersion(n) == Max({0} \cup {rows[n][u].sv : u \in Known(n)})

(* get_node: by node_id, so only a row that has that kind of id *)
HasNode(n, u, kind) == rows[n][u] # NoRow /\ rows[n][u].id = kind

AliveRemote(n) == {u \in Known(n) : ~rows[n][u].self /\ rows[n][u].alive}

-----------------------------------------------------------------------------
(* Writes                                                                  *)

Pens == [url : Node, old : Columns \cup {NoRow}, new : Columns, max : Nat]
Entry == [url : Node, id : IdKinds, rev : Nat, alive : BOOLEAN, models : SUBSET Model]

(* The row and the version read by upsert_node, update_latency and         *)
(* mark_node_offline before they commit new.                               *)
Pen(n, u, new) ==
    [url |-> u, old |-> rows[n][u], new |-> new, max |-> MaxStateVersion(n)]

Row(kind, rev, self, alive, models) ==
    [id |-> kind, rev |-> rev, self |-> self, alive |-> alive, models |-> models, sv |-> 0]

(* The unit of work writes the columns that were changed after the load.   *)
Flushed(pen, cur) ==
    IF pen.old = NoRow THEN pen.new
    ELSE [c \in DOMAIN cur |-> IF pen.new[c] # pen.old[c] THEN pen.new[c] ELSE cur[c]]

(* An INSERT fails on base_url when another thread has inserted the row.   *)
Conflicts(n, pen) == pen.old = NoRow /\ rows[n][pen.url] # NoRow

(* _next_state_version runs between the load and the commit, and the       *)
(* highest version may have fallen meanwhile: a row that had it may be     *)
(* written by a thread that counted before.                                *)
NextStateVersions(n, pen) ==
    LET ends == {pen.max, MaxStateVersion(n)} IN {v + 1 : v \in Min(ends) .. Max(ends)}

Commit(n, pen) ==
    \E v \in NextStateVersions(n, pen) :
        /\ rows' = [rows EXCEPT ![n][pen.url] =
                      [Flushed(pen, rows[n][pen.url]) EXCEPT !.sv = v]]
        /\ raced' = (raced \/ rows[n][pen.url] # pen.old \/ v <= MaxStateVersion(n))
        /\ UNCHANGED cursor

UpsertNeighborSync(n, u, kind, v) ==
    /\ cursor' = [cursor EXCEPT ![n][u][kind] = v]
    /\ UNCHANGED <<rows, raced>>

-----------------------------------------------------------------------------
(* ClusterService                                                          *)

(* ensure_self_node: revision is known only to the row found by node_id.   *)
EnsureSelfNode(n, models) ==
    Pen(n, n, Row("own", IF HasNode(n, n, "own") THEN rows[n][n].rev + 1 ELSE 1,
                  TRUE, TRUE, models))

(* apply_remote_entry: older revisions of the same node_id are refused.    *)
Refused(n, e) == HasNode(n, e.url, e.id) /\ e.rev < rows[n][e.url].rev
ApplyRemoteEntryAsSelf(n, e) ==
    Pen(n, e.url, Row(e.id, e.rev, HasNode(n, e.url, e.id) => rows[n][e.url].self,
                      e.alive, e.models))
ApplyRemoteEntry(n, e) ==
    Pen(n, e.url, Row(e.id, e.rev, HasNode(n, e.url, e.id) /\ rows[n][e.url].self,
                      e.alive, e.models))

NodeToWireWithoutModels(n, u) ==
    [url |-> u, id |-> rows[n][u].id, rev |-> rows[n][u].rev, alive |-> rows[n][u].alive]
NodeToWire(n, u) ==
    [url |-> u, id |-> rows[n][u].id, rev |-> rows[n][u].rev,
     alive |-> rows[n][u].alive, models |-> rows[n][u].models]

(* export_deltas(since, limit): a batch is the limit rows of lowest        *)
(* state_version above since, in that order.                               *)
Batches(n, since, limit) ==
    LET newer == {u \in Known(n) : rows[n][u].sv > since}
        sv(u) == rows[n][u].sv
    IN {batch \in [1 .. Min({limit, Cardinality(newer)}) -> newer] :
          /\ \A i, j \in DOMAIN batch :
               i < j => batch[i] # batch[j] /\ sv(batch[i]) <= sv(batch[j])
          /\ \A i \in DOMAIN batch, u \in newer \ Range(batch) : sv(batch[i]) <= sv(u)}
ToWire(n, batch) == [i \in DOMAIN batch |-> NodeToWire(n, batch[i])]
Versions(n, batch) == {rows[n][batch[i]].sv : i \in DOMAIN batch}
MaxSentOfTable(n, since, batch) == MaxStateVersion(n)
MaxSent(n, since, batch) == Max({since} \cup Versions(n, batch))

(* choose_gossip_neighbors: the count nearest of the alive remote nodes;   *)
(* which ones are nearest is left open.                                    *)
GossipNeighbors(n, count) ==
    {s \in SUBSET AliveRemote(n) :
        Cardinality(s) = Min({count, Cardinality(AliveRemote(n))})}
Named(n, urls) == {[url |-> u, id |-> rows[n][u].id] : u \in urls}

(* choose_forward_candidates: exclude_node_ids are ids, not URLs *)
ForwardCandidatesAnew(n, model, seen) ==
    {u \in AliveRemote(n) : u # n /\ model \in rows[n][u].models}
ForwardCandidates(n, model, seen) ==
    {u \in AliveRemote(n) :
        /\ ~(rows[n][u].id = "own" /\ u \in seen)
        /\ model \in rows[n][u].models}
=============================================================================
