----------------------------- MODULE RequestLife -----------------------------
(***************************************************************************)
(* What the server promises of each request, with no tables, batches,      *)
(* heartbeats or messages in it: a request is bound to one worker for      *)
(* good, is handed out once, to that worker only, and its client is told   *)
(* what that worker has reported, or the truth about why nothing was: a    *)
(* request turned down or passed on to another node is never run here.     *)
(***************************************************************************)
CONSTANTS Requests, Workers, None

VARIABLES
    bound,     \* the worker of a request, or None
    hands,     \* the workers that have it in hand
    outcome,   \* open, running, or what was reported last
    answer,    \* what the handler has decided to answer
    sent       \* whether it has

Outcomes == {"text", "empty", "failed"}

Init ==
    /\ bound = [r \in Requests |-> None]
    /\ hands = [r \in Requests |-> {}]
    /\ outcome = [r \in Requests |-> "open"]
    /\ answer = [r \in Requests |-> "none"]
    /\ sent = [r \in Requests |-> FALSE]

Bind(r) ==
    /\ bound[r] = None /\ answer[r] = "none"
    /\ \E w \in Workers : bound' = [bound EXCEPT ![r] = w]
    /\ UNCHANGED <<hands, outcome, answer, sent>>

HandOut(r) ==
    /\ bound[r] # None /\ outcome[r] = "open"
    /\ outcome' = [outcome EXCEPT ![r] = "running"]
    /\ hands' = [hands EXCEPT ![r] = {bound[r]}]
    /\ UNCHANGED <<bound, answer, sent>>

PutDown(r) ==
    /\ hands' = [hands EXCEPT ![r] = {}]
    /\ UNCHANGED <<bound, outcome, answer, sent>>

(* The same job may be reported more than once. *)
Report(r) ==
    /\ outcome[r] # "open"
    /\ \E o \in Outcomes : outcome' = [outcome EXCEPT ![r] = o]
    /\ UNCHANGED <<bound, hands, answer, sent>>

Truthful(r, a) ==
    \/ a \in Outcomes /\ outcome[r] = a
    \/ a \in {"unavailable", "relayed"} /\ bound[r] = None
    \/ a = "timeout" /\ bound[r] # None /\ outcome[r] \notin Outcomes

Decide(r) ==
    /\ answer[r] = "none"
    /\ \E a \in Outcomes \cup {"unavailable", "relayed", "timeout"} :
         Truthful(r, a) /\ answer' = [answer EXCEPT ![r] = a]
    /\ UNCHANGED <<bound, hands, outcome, sent>>

Fail(r) ==
    /\ ~sent[r]
    /\ answer' = [answer EXCEPT ![r] = "error"]
    /\ UNCHANGED <<bound, hands, outcome, sent>>

Send(r) ==
    /\ answer[r] # "none"
    /\ sent' = [sent EXCEPT ![r] = TRUE]
    /\ UNCHANGED <<bound, hands, outcome, answer>>

Next == \E r \in Requests :
    \/ Bind(r) \/ HandOut(r) \/ PutDown(r) \/ Report(r)
    \/ Decide(r) \/ Fail(r) \/ Send(r)

Spec == Init /\ [][Next]_<<bound, hands, outcome, answer, sent>>
=============================================================================
