--------------------------- MODULE WorkerRegistry ----------------------------
(***************************************************************************)
(* The tables workers and worker_models and the operations of              *)
(* WorkerRepository on them.  The ORM writes only the columns whose value  *)
(* differs from the one it loaded, which is why the operations that load a *)
(* row in one statement and write it in a later one take the loaded row.   *)
(* The timestamp last_heartbeat is reduced to fresh: whether it is newer   *)
(* than the cutoff of the heartbeat cleaner.                               *)
(***************************************************************************)
EXTENDS Types

VARIABLE workers   \* workers[w] is the row of w joined with its models

WorkerStatus == {"absent", "online", "offline"}
WorkerRow == [status : WorkerStatus,
              current_job_id : TaskIds \cup {None},
              fresh : BOOLEAN,
              models : SUBSET Models]
NoWorker == [status |-> "absent", current_job_id |-> None,
             fresh |-> FALSE, models |-> {}]

(* What a session keeps of a row it has loaded. *)
Loaded(w) == [status |-> workers[w].status, job |-> workers[w].current_job_id]
LoadedRow == [status : WorkerStatus, job : TaskIds \cup {None}]
NothingLoaded == [status |-> "absent", job |-> None]

WorkerRegistryInit == workers = [w \in Workers |-> NoWorker]

Idle(w) == workers[w].status = "online" /\ workers[w].current_job_id = None

HasOnlineModel(m) == \E w \in Workers : workers[w].status = "online" /\ m \in workers[w].models

(* get_candidate_workers_with_speed *)
Candidates(m) == {w \in Workers : Idle(w) /\ m \in workers[w].models}

(* The compare-and-set of reserve_job_if_idle succeeds exactly when Idle. *)
Reservable(w) == Idle(w)

(* A write of the column current_job_id alone: reserve_job_if_idle and     *)
(* set_job, and the second half of clear_job_if_matches with id = None.    *)
WriteCurrentJob(w, id) ==
    workers' = [workers EXCEPT ![w].current_job_id = id]

(* The first half of clear_job_if_matches: does the loaded row match?      *)
Matches(w, id) == workers[w].current_job_id = id

(* upsert_worker, given the row it loaded: only changed columns are sent.  *)
UpsertKeepingJob(w, row, job) ==      \* fault: an idle worker clears nothing
    workers' = [workers EXCEPT
                 ![w].status = IF row.status = "online" THEN @ ELSE "online",
                 ![w].current_job_id = IF job = None THEN @ ELSE job,
                 ![w].fresh = TRUE]

UpsertWorker(w, row, job) ==
    workers' = [workers EXCEPT
                 ![w].status = IF row.status = "online" THEN @ ELSE "online",
                 ![w].current_job_id = IF row.job = job THEN @ ELSE job,
                 ![w].fresh = TRUE]

(* replace_worker_models: DELETE and INSERTs in one transaction. *)
ReplaceModels(w) == workers' = [workers EXCEPT ![w].models = Serves[w]]

(* set_offline_if_stale reads the stale workers ...                        *)
StaleWorkers == {w \in Workers : workers[w].status = "online" /\ ~workers[w].fresh}

(* ... and writes them later; a job that was loaded as NULL is not dirty.  *)
MarkOffline(W, row) ==
    workers' = [w \in Workers |->
                 IF w \in W
                 THEN [workers[w] EXCEPT
                         !.status = "offline",
                         !.current_job_id = IF row[w].job = None THEN @ ELSE None]
                 ELSE workers[w]]

(* Time passes: no heartbeat of w has arrived since the cutoff. *)
GrowStale(w) == /\ workers[w].status = "online" /\ workers[w].fresh
                /\ workers' = [workers EXCEPT ![w].fresh = FALSE]
=============================================================================
