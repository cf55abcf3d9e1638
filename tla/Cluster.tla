------------------------------- MODULE Cluster -------------------------------
(***************************************************************************)
(* The servers of a cluster and one chat request on its way through them:  *)
(* the tables are written by the sync jobs and the gossip handlers and     *)
(* read by chat_completions where it picks the nodes to forward to.        *)
(***************************************************************************)
EXTENDS ClusterSync, Forwarding

CONSTANT AskedLate   \* bound: whether the client waits until the servers are quiet

ASSUME AskedAssumption == AskedLate \in BOOLEAN

clusterVars == <<tableVars, syncVars, routeVars>>

ClusterInit == TableInit /\ SyncInit /\ RouteInit

AtRest(n) == job[n] = Idle /\ \A m \in Node : handler[n][m] = Quiet

RouteStep ==
    \/ /\ AskedLate => \A n \in Node : cycles[n] = MaxCycles[n] /\ AtRest(n)
       /\ \E n \in Node : ClientAsks(n)
    \/ \E w \in Ways : ForwardStep(w)

ServerStep(n) ==
    \/ JobStep(n)
    \/ \E m \in Node : HandlerStep(n, m)

ClusterNext ==
    \/ \E n \in Node, models \in SUBSET Model : StartCycle(n, models) /\ UNCHANGED routeVars
    \/ \E n \in Node : (ServerStep(n) \/ JobFault(n)) /\ UNCHANGED routeVars
    \/ \E n \in Node : RestartServer(n) /\ CutOff(n)
    \/ RouteStep /\ UNCHANGED <<tableVars, syncVars>>

ClusterSpec == ClusterInit /\ [][ClusterNext]_clusterVars
=============================================================================
