----------------------------- MODULE Forwarding ------------------------------
(***************************************************************************)
(* One chat request on its way through the servers: chat_completions where *)
(* it waits for a worker of its own, picks nodes out of cluster_nodes and  *)
(* posts the request to one after the other, all with the same headers.    *)
(*                                                                         *)
(* A way is the sequence of servers through which the request has come to  *)
(* a server, that server included.  A list of candidates names a server    *)
(* once, so that a way stands for one call of chat_completions; a server   *)
(* may be reached on several.  Left out: the text of the answer, and the   *)
(* tables of the queue, which are Dispatch's.                              *)
(***************************************************************************)
EXTENDS ClusterTable

CONSTANTS
    MaxHops,         \* cluster_request_max_hops
    MaxCandidates,   \* cluster_request_max_candidates
    SentTo           \* bound: the servers the client may send its request to

ASSUME ForwardingAssumption ==
    {MaxHops, MaxCandidates} \subseteq Nat /\ SentTo \subseteq Node /\ NoRow \notin Node

VARIABLES
    wanted,    \* the model asked for
    calls,     \* the call at the end of each way, also when it is over
    unheard    \* history: somebody went on without an answer, or died waiting for it

routeVars == <<wanted, calls, unheard>>

(* todo: the candidates not yet tried; asked: the one posted to, until it  *)
(* fails                                                                   *)
Calls == [pc : {"waiting", "forwarding", "served", "relayed", "failed"},
          todo : Seq(Node), asked : Node \cup {NoRow}]
Arrived == [pc |-> "waiting", todo |-> <<>>, asked |-> NoRow]

Ways == DOMAIN calls
At(w) == w[Len(w)]

(* X-DLLM-Forward-Hop counts the servers after the first.                  *)
(* X-DLLM-Seen-Nodes holds their configured ids, joined by the own one.    *)
Hop(w) == Len(w) - 1
Seen(w) == Range(w)

RouteInit == wanted \in Model /\ calls = [w \in {} |-> Arrived] /\ unheard = FALSE

Becomes(w, call) ==
    calls' = [v \in Ways \cup {w} |-> IF v = w THEN call ELSE calls[v]]
Unremarked == UNCHANGED <<wanted, unheard>>

ClientAsks(n) ==
    /\ Ways = {} /\ n \in SentTo
    /\ Becomes(<<n>>, Arrived) /\ Unremarked

(* A worker of this server was bound and its job is done: status 200.  Any *)
(* other end: 502 and 504 of a job that failed or took too long, 503 when  *)
(* no worker was bound.                                                    *)
Served(w) ==
    /\ calls[w].pc = "waiting"
    /\ Becomes(w, [calls[w] EXCEPT !.pc = "served"]) /\ Unremarked
Fails(w) ==
    /\ calls[w].pc = "waiting"
    /\ Becomes(w, [calls[w] EXCEPT !.pc = "failed"]) /\ Unremarked

(* The nearest of the candidates; which ones are nearest is left open.     *)
CandidateLists(n, seen) ==
    LET candidates == ForwardCandidates(n, wanted, seen) IN
    {list \in [1 .. Min({MaxCandidates, Cardinality(candidates)}) -> candidates] :
        \A i, j \in DOMAIN list : list[i] = list[j] => i = j}

ChooseCandidates(w) ==
    /\ calls[w].pc = "waiting" /\ Hop(w) < MaxHops
    /\ \E list \in CandidateLists(At(w), Seen(w)) :
         Becomes(w, [calls[w] EXCEPT !.pc = "forwarding", !.todo = list])
    /\ Unremarked

(* The loop over the candidates: every post carries the ids of w, also     *)
(* those after a failed one.                                               *)
Free(w) == calls[w].pc = "forwarding" /\ calls[w].asked = NoRow

PostTo(w) ==
    /\ Free(w) /\ calls[w].todo # <<>>
    /\ LET u == Head(calls[w].todo) IN
       calls' = [v \in Ways \cup {Append(w, u)} |->
                   IF v = Append(w, u) THEN Arrived
                   ELSE IF v = w THEN [calls[w] EXCEPT !.todo = Tail(@), !.asked = u]
                   ELSE calls[v]]
    /\ Unremarked

(* The post itself raises. *)
Unreachable(w) ==
    /\ Free(w) /\ calls[w].todo # <<>>
    /\ Becomes(w, [calls[w] EXCEPT !.todo = Tail(@)]) /\ Unremarked

Awaits(w) == calls[w].pc = "forwarding" /\ calls[w].asked # NoRow
Answer(w) == calls[Append(w, calls[w].asked)].pc

Relays(w) ==
    /\ Awaits(w) /\ Answer(w) \in {"served", "relayed"}
    /\ Becomes(w, [calls[w] EXCEPT !.pc = "relayed"]) /\ Unremarked

NextCandidateAfterAny(w) ==   \* fault: the status of the answer is not looked at
    /\ Awaits(w) /\ Answer(w) \in {"served", "relayed", "failed"}
    /\ Becomes(w, [calls[w] EXCEPT !.asked = NoRow]) /\ Unremarked
NextCandidate(w) ==
    /\ Awaits(w) /\ Answer(w) = "failed"
    /\ Becomes(w, [calls[w] EXCEPT !.asked = NoRow]) /\ Unremarked

(* The timeout of the client: the call that was made goes on.              *)
GivesUp(w) ==
    /\ Awaits(w) /\ Answer(w) # "failed"
    /\ Becomes(w, [calls[w] EXCEPT !.asked = NoRow])
    /\ unheard' = TRUE /\ UNCHANGED wanted

Exhausted(w) ==
    /\ Free(w) /\ calls[w].todo = <<>>
    /\ Becomes(w, [calls[w] EXCEPT !.pc = "failed"]) /\ Unremarked

ForwardStep(w) ==
    \/ Served(w) \/ Fails(w) \/ ChooseCandidates(w)
    \/ PostTo(w) \/ Unreachable(w) \/ Relays(w) \/ NextCandidate(w) \/ GivesUp(w)
    \/ Exhausted(w)

(* The process of n dies with its calls; who waits for one sees its        *)
(* connection closed.                                                      *)
CutOff(n) ==
    LET cut == {w \in Ways : At(w) = n /\ calls[w].pc \in {"waiting", "forwarding"}} IN
    /\ calls' = [w \in Ways |->
                    IF w \in cut THEN [calls[w] EXCEPT !.pc = "failed"] ELSE calls[w]]
    /\ unheard' = (unheard \/ \E w \in cut : Awaits(w))
    /\ UNCHANGED wanted
=============================================================================
