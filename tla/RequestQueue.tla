---------------------------- MODULE RequestQueue -----------------------------
(***************************************************************************)
(* The table awaiting_reqs and the operations of AwaitingRequestRepository *)
(* on it.  Each operation below is one SQL statement or one committed      *)
(* transaction; what happens between two of them is up to the callers.     *)
(***************************************************************************)
EXTENDS Types

VARIABLE reqs   \* reqs[r] is the row with req_id ReqId(r), or NoReq

ReqRow == [status : {"absent", "pending"}, worker : {None}]
            \cup [status : {"assigned"}, worker : Workers]
NoReq == [status |-> "absent", worker |-> None]

RequestQueueInit == reqs = [r \in Requests |-> NoReq]

HasRow(r) == reqs[r].status # "absent"

CreateRequest(r) ==
    reqs' = [reqs EXCEPT ![r] = [status |-> "pending", worker |-> None]]

PendingRequests == {r \in Requests : reqs[r].status = "pending"}

(* The order of the batch: by model name, then by arrival. *)
Before(q, r) == \/ ModelOf[q] < ModelOf[r]
                \/ ModelOf[q] = ModelOf[r] /\ q < r

(* assign_worker_to_request returns the row only if it is still pending. *)
AssignableBlindly(r) == TRUE   \* fault: the status is not checked again
Assignable(r) == reqs[r].status = "pending"

AssignWorker(r, w) ==
    reqs' = [reqs EXCEPT ![r] = [status |-> "assigned", worker |-> w]]

(* One UPDATE: every assigned row of the given workers is pending again. *)
ReleaseKeepingWorker(W) ==     \* fault: assigned_worker_id is not reset
    reqs' = [r \in Requests |->
               IF reqs[r].status = "assigned" /\ reqs[r].worker \in W
               THEN [reqs[r] EXCEPT !.status = "pending"] ELSE reqs[r]]

ReleaseAssigned(W) ==
    reqs' = [r \in Requests |->
               IF reqs[r].status = "assigned" /\ reqs[r].worker \in W
               THEN [status |-> "pending", worker |-> None] ELSE reqs[r]]

DeleteRequest(r) == reqs' = [reqs EXCEPT ![r] = NoReq]
=============================================================================
