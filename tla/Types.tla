-------------------------------- MODULE Types --------------------------------
(***************************************************************************)
(* The vocabulary shared by the modules of the dispatch core: the clients' *)
(* requests, the workers, the models, and the identifiers the server       *)
(* writes into the column workers.current_job_id.                          *)
(*                                                                         *)
(* A chat request r is a number; numbers are given in order of arrival, so *)
(* that r also stands for awaiting_reqs.created_at.  The handler of r      *)
(* makes up two identifiers: req_id when the request is queued and job_id  *)
(* once a worker is bound to it.                                           *)
(***************************************************************************)
EXTENDS Naturals, FiniteSets

CONSTANTS
    Requests,   \* the chat requests, numbered in order of arrival
    Workers,    \* the worker ids
    Models,     \* the model names, numbered in the order of their names
    ModelOf,    \* the model a request asks for
    Serves,     \* the models a worker reports in its heartbeats
    None,       \* SQL NULL, and "no row"
    Faults,     \* which of FaultKinds may occur
    MaxFaults,  \* how many faults may occur in all
    Deadlines   \* whether the handlers' deadlines may expire

(* "loss":   a worker's HTTP call, or the answer to it, is lost or delayed *)
(* "worker": a worker process dies and comes back with the same id         *)
(* "server": the server process dies and comes back on the same database   *)
(* "db":     a statement of the database session raises                    *)
(* "stale":  a worker's last heartbeat becomes older than the cutoff       *)
FaultKinds == {"loss", "worker", "server", "db", "stale"}

ReqId(r) == <<"req", r>>
JobId(r) == <<"job", r>>
JobIds == {"job"} \X Requests
TaskIds == {"req", "job"} \X Requests

ASSUME RequestsAssumption ==
    Requests \subseteq Nat /\ IsFiniteSet(Requests) /\ Models \subseteq Nat
ASSUME ModelsAssumption ==
    /\ ModelOf \in [Requests -> Models]
    /\ Serves \in [Workers -> SUBSET Models]
ASSUME NoneAssumption == None \notin Workers \cup Requests \cup TaskIds
ASSUME FaultsAssumption ==
    Faults \subseteq FaultKinds /\ MaxFaults \in Nat /\ Deadlines \in BOOLEAN
=============================================================================
