------------------------------ MODULE EventLoop ------------------------------
(***************************************************************************)
(* The single asyncio event loop of the server process.  A coroutine that  *)
(* has not reached an await keeps the loop: no other coroutine runs, but   *)
(* the threads (the background jobs and the pull_job endpoint) do.         *)
(***************************************************************************)
EXTENDS Types

VARIABLE loop   \* who holds the loop, or Free

Free == <<"free", None>>
LoopHolders == {Free} \cup ({"chat"} \X Requests) \cup ({"heartbeat"} \X Workers)
                      \cup ({"complete", "unset"} \X Workers)

EventLoopInit == loop = Free

Chat(r) == <<"chat", r>>
Heartbeat(w) == <<"heartbeat", w>>

Acquire(holder) == loop = Free /\ loop' = holder
Holding(holder) == loop = holder /\ UNCHANGED loop
Release(holder) == loop = holder /\ loop' = Free
RunToAwait == loop = Free /\ UNCHANGED loop
=============================================================================
