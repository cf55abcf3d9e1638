--------------------------- MODULE RequestAssigner ---------------------------
(***************************************************************************)
(* The background job that binds workers to pending requests: one thread   *)
(* that, every dispatch_interval_sec, takes the batch of pending requests, *)
(* ranks the candidate workers of each model in it, and walks the batch in *)
(* order, reserving for each request the best worker left.                 *)
(*                                                                         *)
(* The session of a batch expires its objects at every commit and          *)
(* rollback.  An expired row is read again when an attribute of it is      *)
(* used, and if the row has been deleted in between, that read raises and  *)
(* the whole batch is abandoned: asg.loaded is the set of requests whose   *)
(* object is not expired.                                                  *)
(*                                                                         *)
(* The order of the ranked list is left open here: any worker of the list  *)
(* may be popped.                                                          *)
(***************************************************************************)
EXTENDS RequestQueue, WorkerRegistry

VARIABLE asg

Assigner == [pc : {"idle", "rank", "next", "pop", "reserved", "loaded", "assigned"},
             batch : SUBSET Requests,               \* pending_reqs still ahead
             loaded : SUBSET Requests,
             unranked : SUBSET Models,
             pool : [Models -> SUBSET Workers],     \* worker_pool_by_model
             claimed : SUBSET Workers,              \* claimed_workers
             req : Requests \cup {None},            \* the loop variable req
             worker : Workers \cup {None},          \* the worker popped last
             seen : BOOLEAN,                        \* its loaded row holds ReqId(req)
             given : SUBSET Workers]                \* history: the workers this batch has bound

AsgIdle == [pc |-> "idle", batch |-> {}, loaded |-> {}, unranked |-> {},
            pool |-> [m \in Models |-> {}], claimed |-> {},
            req |-> None, worker |-> None, seen |-> FALSE, given |-> {}]

AssignerInit == asg = AsgIdle

(* Using an attribute of the object of r reads its row again if expired.   *)
Readable(r) == r \in asg.loaded \/ HasRow(r)

Scan ==
    /\ asg.pc = "idle"
    /\ PendingRequests # {}
    /\ asg' = [AsgIdle EXCEPT !.pc = "rank",
                              !.batch = PendingRequests,
                              !.loaded = PendingRequests,
                              !.unranked = {ModelOf[r] : r \in PendingRequests}]
    /\ UNCHANGED <<reqs, workers>>

(* list_ranked_workers, model by model, in the order of the names.         *)
RankModel ==
    /\ asg.pc = "rank"
    /\ \E m \in asg.unranked :
         /\ \A n \in asg.unranked : m <= n
         /\ asg' = [asg EXCEPT !.pool[m] = Candidates(m),
                               !.unranked = @ \ {m},
                               !.pc = IF asg.unranked = {m} THEN "next" ELSE "rank"]
    /\ UNCHANGED <<reqs, workers>>

BatchTail(r) == r \in asg.batch /\ \A q \in asg.batch \ {r} : Before(q, r)   \* fault: newest first
BatchHead(r) == r \in asg.batch /\ \A q \in asg.batch \ {r} : Before(r, q)

(* The loop takes the next request and uses its model_name.                *)
TakeRequest ==
    /\ asg.pc = "next"
    /\ \E r \in asg.batch :
         /\ BatchHead(r)
         /\ asg' = IF Readable(r)
                   THEN [asg EXCEPT !.pc = "pop", !.req = r,
                                    !.batch = @ \ {r}, !.loaded = @ \cup {r}]
                   ELSE AsgIdle
    /\ UNCHANGED <<reqs, workers>>

BatchDone ==
    /\ asg.pc = "next"
    /\ asg.batch = {}
    /\ asg' = AsgIdle
    /\ UNCHANGED <<reqs, workers>>

(* The workers of the ranked list that have not been claimed by a request  *)
(* earlier in the batch; the others are popped and skipped.                *)
LeftInPool == asg.pool[ModelOf[asg.req]] \ asg.claimed

(* No worker is left for this request: it stays pending until a later batch. *)
PoolExhausted ==
    /\ asg.pc = "pop"
    /\ LeftInPool = {}
    /\ asg' = [asg EXCEPT !.pc = "next", !.req = None]
    /\ UNCHANGED <<reqs, workers>>

(* reserve_job_if_idle for the worker popped; both its outcomes expire     *)
(* every object of the session.                                            *)
Reserve ==
    /\ asg.pc = "pop"
    /\ \E w \in LeftInPool :
         LET popped == [asg EXCEPT !.pool[ModelOf[asg.req]] = @ \ {w}, !.loaded = {}] IN
           \/ /\ ~Readable(asg.req)
              /\ asg' = AsgIdle
              /\ UNCHANGED workers
           \/ /\ Readable(asg.req) /\ Reservable(w)
              /\ WriteCurrentJob(w, ReqId(asg.req))
              /\ asg' = [popped EXCEPT !.pc = "reserved", !.worker = w]
           \/ /\ Readable(asg.req) /\ ~Reservable(w)
              /\ asg' = popped
              /\ UNCHANGED workers
    /\ UNCHANGED reqs

(* The worker is read back, then the expired object of the request is.     *)
ReadBack ==
    /\ asg.pc = "reserved"
    /\ asg' = IF HasRow(asg.req)
              THEN [asg EXCEPT !.pc = "loaded", !.loaded = {asg.req},
                               !.seen = Matches(asg.worker, ReqId(asg.req))]
              ELSE AsgIdle
    /\ UNCHANGED <<reqs, workers>>

Assign ==
    /\ asg.pc = "loaded"
    /\ Assignable(asg.req)
    /\ AssignWorker(asg.req, asg.worker)
    /\ asg' = [asg EXCEPT !.pc = "assigned", !.loaded = {},
                          !.given = @ \cup {asg.worker}]
    /\ UNCHANGED workers

(* assign_worker found no pending row: the reservation is given back.  The *)
(* row of the worker is not read again, so the write is decided by seen.   *)
GiveBack ==
    /\ asg.pc = "loaded"
    /\ ~Assignable(asg.req)
    /\ IF asg.seen THEN WriteCurrentJob(asg.worker, None) ELSE UNCHANGED workers
    /\ asg' = [asg EXCEPT !.pc = "pop", !.worker = None, !.seen = FALSE,
                          !.loaded = IF asg.seen THEN {} ELSE @]
    /\ UNCHANGED reqs

(* The row is deleted between the SELECT and the UPDATE of assign_worker:  *)
(* the UPDATE matches no row and raises.                                   *)
AssignRaises ==
    /\ asg.pc = "loaded"
    /\ ~HasRow(asg.req)
    /\ asg' = AsgIdle
    /\ UNCHANGED <<reqs, workers>>

(* The refresh after the commit, and the end of the iteration.             *)
ClaimForgotten == asg.claimed   \* fault: no claimed_workers.add
Claim == asg.claimed \cup {asg.worker}

Confirm ==
    /\ asg.pc = "assigned"
    /\ asg' = IF HasRow(asg.req)
              THEN [asg EXCEPT !.pc = "next", !.claimed = Claim,
                               !.loaded = {asg.req}, !.req = None,
                               !.worker = None, !.seen = FALSE]
              ELSE AsgIdle
    /\ UNCHANGED <<reqs, workers>>

(* Any statement of the session may raise; the batch is abandoned.         *)
BatchRaises ==
    /\ asg.pc # "idle"
    /\ asg' = AsgIdle
    /\ UNCHANGED <<reqs, workers>>

AssignerStep ==
    \/ Scan \/ RankModel \/ TakeRequest \/ BatchDone \/ PoolExhausted
    \/ Reserve \/ ReadBack \/ Assign \/ GiveBack \/ AssignRaises \/ Confirm
=============================================================================
