------------------------------ MODULE JobQueue -------------------------------
(***************************************************************************)
(* The table jobs and the operations of JobRepository on it.               *)
(***************************************************************************)
EXTENDS Types

VARIABLE jobs   \* jobs[r] is the row with job_id JobId(r), or NoJob

JobStatus == {"absent", "pending", "running", "done", "failed"}
JobRow == [status : JobStatus,
           worker : Workers \cup {None},
           created : Nat,           \* position in the order of created_at
           output : {"none", "empty", "text"}]
NoJob == [status |-> "absent", worker |-> None, created |-> 0, output |-> "none"]

Terminal == {"done", "failed"}
Leased == {"running", "done", "failed"}

(* A report of a worker: complete with output_text and error.  The error   *)
(* column is "null" for None, "blank" for the empty string, or a message.  *)
Reports == [worker : Workers, req : Requests, error : {"null", "blank", "message"}]

JobQueueInit == jobs = [r \in Requests |-> NoJob]

Created == {r \in Requests : jobs[r].status # "absent"}

CreateJob(r, w) ==
    jobs' = [jobs EXCEPT ![r] = [status |-> "pending", worker |-> w,
                                 created |-> Cardinality(Created) + 1,
                                 output |-> "none"]]

(* The UPDATE ... RETURNING of lease_next_for_worker: the oldest pending   *)
(* job of w becomes running.                                               *)
NextOfAnyWorker(w, r) ==   \* fault: the lease does not filter by worker
    /\ jobs[r].status = "pending"
    /\ \A q \in Requests : jobs[q].status = "pending" => jobs[r].created <= jobs[q].created

NextOfAnyStatus(w, r) ==   \* fault: the lease does not filter by status
    /\ jobs[r].status # "absent" /\ jobs[r].worker = w
    /\ \A q \in Requests : jobs[q].status = "pending" /\ jobs[q].worker = w
                              => jobs[r].created <= jobs[q].created

NextForWorker(w, r) ==
    /\ jobs[r].status = "pending" /\ jobs[r].worker = w
    /\ \A q \in Requests : jobs[q].status = "pending" /\ jobs[q].worker = w
                              => jobs[r].created <= jobs[q].created

Lease(r) == jobs' = [jobs EXCEPT ![r].status = "running"]

(* complete_job writes the outcome whatever the status of the row is, and  *)
(* takes an empty error for success.                                       *)
CompleteJob(m) ==
    jobs' = [jobs EXCEPT ![m.req].status = IF m.error = "message" THEN "failed" ELSE "done",
                         ![m.req].output = IF m.error = "null" THEN "text" ELSE "empty"]
=============================================================================
