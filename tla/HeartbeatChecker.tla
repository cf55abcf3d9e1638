-------------------------- MODULE HeartbeatChecker ---------------------------
(***************************************************************************)
(* The background job that takes workers without a recent heartbeat off    *)
(* line and returns their assigned requests to the queue.  One thread,     *)
(* three statements, two transactions.                                     *)
(***************************************************************************)
EXTENDS RequestQueue, WorkerRegistry

VARIABLE cln

Cleaner == [pc : {"idle", "scanned", "marked"},
            stale : SUBSET Workers,            \* the rows selected, then changed
            row : [Workers -> LoadedRow]]      \* their columns when they were loaded

ClnIdle == [pc |-> "idle", stale |-> {}, row |-> [w \in Workers |-> NothingLoaded]]

CleanerInit == cln = ClnIdle

ScanStale ==
    /\ cln.pc = "idle"
    /\ StaleWorkers # {}
    /\ cln' = [pc |-> "scanned", stale |-> StaleWorkers,
               row |-> [w \in Workers |-> IF w \in StaleWorkers THEN Loaded(w)
                                          ELSE NothingLoaded]]
    /\ UNCHANGED <<reqs, workers>>

Mark ==
    /\ cln.pc = "scanned"
    /\ MarkOffline(cln.stale, cln.row)
    /\ cln' = [ClnIdle EXCEPT !.pc = "marked", !.stale = cln.stale]
    /\ UNCHANGED reqs

ReleaseRequests ==
    /\ cln.pc = "marked"
    /\ ReleaseAssigned(cln.stale)
    /\ cln' = ClnIdle
    /\ UNCHANGED workers

(* A statement raises: what has been committed stays, the rest is dropped. *)
CleanupRaises ==
    /\ cln.pc # "idle"
    /\ cln' = ClnIdle
    /\ UNCHANGED <<reqs, workers>>

CleanerStep == ScanStale \/ Mark \/ ReleaseRequests
=============================================================================
