----------------------------- MODULE TextStream ------------------------------
(***************************************************************************)
(* What a streamed request promises its client: the text arrives from its  *)
(* beginning and without gaps, possibly with repetitions, and a client     *)
(* that is told "stop" after a counted answer has all of it.  A stream may *)
(* fail, or be cut: a failure whose message is empty looks like a stop.    *)
(***************************************************************************)
EXTENDS Naturals

VARIABLES
    made,       \* how many pieces the model has produced
    complete,   \* whether these are the whole text
    seen,       \* the pieces the client has received
    ended       \* none, stop, cut or failed

Init == made = 0 /\ complete = FALSE /\ seen = {} /\ ended = "none"

Make ==
    /\ ~complete
    /\ made' = made + 1
    /\ UNCHANGED <<complete, seen, ended>>

Finish == complete' = TRUE /\ UNCHANGED <<made, seen, ended>>

Deliver ==
    /\ ended = "none"
    /\ \E n \in 0 .. made : seen \subseteq 1 .. n /\ seen' = 1 .. n
    /\ UNCHANGED <<made, complete, ended>>

Stop ==
    /\ ended = "none" /\ complete
    /\ seen' = 1 .. made
    /\ ended' = "stop"
    /\ UNCHANGED <<made, complete>>

Break ==
    /\ ended = "none"
    /\ ended' \in {"cut", "failed"}
    /\ UNCHANGED <<made, complete, seen>>

Next == Make \/ Finish \/ Deliver \/ Stop \/ Break
Spec == Init /\ [][Next]_<<made, complete, seen, ended>>
=============================================================================
