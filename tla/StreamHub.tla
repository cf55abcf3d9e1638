------------------------------ MODULE StreamHub ------------------------------
(***************************************************************************)
(* JobStreamHub for one streamed job: the channel that carries what the    *)
(* worker uploads to the handler that streams it to the client.            *)
(*                                                                         *)
(* The model's output is numbered: piece p is the p-th delta the back end  *)
(* produced, and a chunk of text is an interval of pieces.                 *)
(***************************************************************************)
EXTENDS Naturals, Sequences

VARIABLE hub
(* hub.open:  _channels has an entry for the job, and it is not closed     *)
(* hub.queue: everything ever put into the channel's asyncio.Queue         *)
(* hub.taken: how much of it the handler has taken out again               *)

(* The events of a channel.  A done event carries the usage of the report: *)
(* "zero" when the worker reported an error, "counted" otherwise.          *)
Delta(lo, hi) == [type |-> "delta", lo |-> lo, hi |-> hi, usage |-> "none"]
Done(usage)   == [type |-> "done", lo |-> 0, hi |-> 0, usage |-> usage]
Failure       == [type |-> "error", lo |-> 0, hi |-> 0, usage |-> "none"]
Event == [type : {"delta", "done", "error"}, lo : Nat, hi : Nat,
          usage : {"none", "zero", "counted"}]

HubInit == hub = [open |-> FALSE, queue |-> <<>>, taken |-> 0]

EnsureNothing == UNCHANGED hub   \* fault: the channel is first made by subscribe

(* ensure and subscribe: setdefault.                                       *)
Ensure == hub' = [hub EXCEPT !.open = TRUE]
Subscribe == hub' = [hub EXCEPT !.open = TRUE]

(* publish_*: nothing happens once the channel is gone.                    *)
Publish(event) ==
    \/ hub.open /\ hub' = [hub EXCEPT !.queue = Append(@, event)]
    \/ ~hub.open /\ UNCHANGED hub

Close == hub' = [hub EXCEPT !.open = FALSE]

(* Queue.get of the handler.                                               *)
Nonempty == hub.taken < Len(hub.queue)
Front == hub.queue[hub.taken + 1]
Take == Nonempty /\ hub' = [hub EXCEPT !.taken = @ + 1]
TakeAndClose == Nonempty /\ hub' = [hub EXCEPT !.taken = @ + 1, !.open = FALSE]

(* Piece p is in the first n events.                                       *)
Carries(event, p) == event.type = "delta" /\ p \in event.lo .. event.hi
Among(n, p) == \E i \in 1 .. n : Carries(hub.queue[i], p)
Published(p) == Among(Len(hub.queue), p)
Received(p) == Among(hub.taken, p)
=============================================================================
