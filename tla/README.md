# DistributedLLM: a TLA+ development

DistributedLLM is an inference scheduler. A server offers an OpenAI-compatible
API, queues chat requests, binds each to one of the machines (workers) that
serve its model, and hands the job over when the worker pulls. Servers can form
a cluster, tell each other what they serve, and pass requests on.

This directory models the dispatch core of one server together with its
workers, the path of a streamed answer from the model to the client, the order
in which workers are tried and the figures it rests on, the measurement of a
job's energy, and the gossip and forwarding between servers. TLC checks the
models on small instances; TLAPS proves their main safety properties for every
size of instance. Section 1 is the inventory of the system, section 2 the models
and what is shown of them, section 3 what is left.

Paths below are relative to the repository.

## 1. The system

### Components

| Component | State | Operations | Talks to |
|---|---|---|---|
| Request queue (`server/request_queue`) | table `awaiting_reqs`: pending or assigned, the worker | create, get, pending in order of model and arrival, assign, release, delete | called by the handler, the assigner and the cleaner |
| Job queue (`server/job_queue`) | table `jobs`: pending, running, done, failed | create, lease for a worker, complete, get | called by the handler and the worker endpoints |
| Worker registry (`server/worker_registry`) | tables `workers` (on line, current job, last heartbeat), `worker_models`, `worker_model_stats` | upsert, reserve if idle, set job, clear job if it matches, mark stale workers off line, replace models and speeds, candidates of a model | called by everybody |
| Chat handler (`server/api/openai_compat.py`) | the locals of a coroutine per request | queue, poll for a worker, forward, create the job, poll for the outcome, clean up; stream | the three tables, the streaming hub, other servers |
| Request assigner (`server/background/request_assigner.py`) | the locals of one batch | rank the workers of each model, reserve and assign in order | the tables, the selector |
| Selector (`server/scheduler`) | none | rank candidates by missing data, speed class, cost | called by the assigner |
| Heartbeat cleaner (`server/background/heartbeat_timeout_checker.py`) | the locals of one run | mark stale workers off line, release their requests | the tables |
| Worker endpoints (`server/api/worker_mgmt.py`) | none | register, heartbeat, pull, complete, chunk | the tables, the streaming hub |
| Streaming hub (`server/streaming/job_stream.py`) | a queue per streamed job | ensure, subscribe, publish, close | the handler and the worker endpoints |
| Worker (`worker/`) | the active jobs of the collector, the job loop, the streaming buffer, measured speeds | pull, infer, report, flush chunks, send heartbeats with costs and speeds | the worker endpoints, an inference back end, the power meter |
| Power host and attribution (`power_host/`, `worker/cost_engine`) | the last sample, subscriber queues, the locals of a tracker per job | filter spikes, publish, add up a job's energy | the worker's job loop |
| Cluster gossip (`server/cluster`, `server/background/cluster_sync.py`, `server/api/cluster_internal.py`) | table `cluster_nodes` with revisions and state versions, a cursor per neighbour | announce self, add seeds, probe, exchange deltas, mark off line | other servers |
| Forwarding (in the chat handler) | hop count and nodes seen, in headers | choose candidates, post, fall through to the next | other servers |
| Key manager (`server/key_manager`) | table `api_keys` | bootstrap, check | every public endpoint |
| Web console (`server/web`) | stores of workers, jobs, nodes, the key | refresh, select | the admin API |

### What is hard

The server process is one asyncio loop (coroutines: the chat handlers,
heartbeat and complete) plus threads (the background jobs, and `pull_job` and
the gossip endpoint, which FastAPI runs in its thread pool). No operation spans
more than one transaction, so all of them interleave through the tables. The
workers and the other servers are other processes with HTTP calls that time
out. In particular:

* `workers.current_job_id` has five writers (reserve, set job, clear, heartbeat,
  cleaner) and three meanings (a reservation, a job, what the worker says);
* the assigner works on a snapshot of the queue and on ranked lists computed
  before it starts, while handlers delete their requests;
* the cleaner releases requests whose handlers have read the worker already;
* a request that is being forwarded still stands in the queue, so that a local
  worker may be reserved for it meanwhile;
* a lost answer to `pull` leaves a job leased that nobody runs, and a lost
  answer to `complete` makes the worker report the same job a second time;
* a crash of the server skips the `finally` blocks that do all the cleaning;
* cost and speed of a worker are read at two sides of an `await` on the worker
  and written in two transactions on the server, and the ranking reads between;
* a tracker adds up energy from samples that are queued, dropped, late, or taken
  before its job began, and the job loop waits for it;
* a row about a server is written by that server's sync job, by gossip handlers
  and by the local sync job, each of which reads it first and commits later,
  and the same server goes by two ids (its own, and one made up from a seed URL);
* two servers post to each other from the job that has to answer.

What makes the parts correct: no job runs on two workers or without a lease; no
request is bound twice in one batch; requests of a model are bound in order;
rows do not outlive their handlers; every request gets an answer, and the true
one; every worker comes back to the pool whatever went wrong; a stream has no
gaps and a stop means all of it; a better worker is never tried after a worse
one; no time of a job is left out or counted twice; a cluster never believes
what nobody said, and no request goes round in circles. `PROJECT.json` lists the
hazards one by one, each at its line and with the properties that guard it.

## 2. The models

### Modules

| Module | Models | State |
|---|---|---|
| `Types` | identifiers and the constants | |
| `RequestQueue` | `request_queue/repository.py` | `reqs` |
| `JobQueue` | `job_queue/repository.py` | `jobs` |
| `WorkerRegistry` | `worker_registry/repository.py` | `workers` |
| `EventLoop` | the asyncio loop (external) | `loop` |
| `ChatCompletions` | the non-streamed path of `chat_completions`, with forwarding | `chat` |
| `RequestAssigner` | `request_assigner.py` | `asg` |
| `HeartbeatChecker` | `heartbeat_timeout_checker.py` | `cln` |
| `WorkerRuntime` | the job loop and the heartbeat loop of a worker | `runner`, `hb`, `reports` |
| `WorkerMgmt` | heartbeat, pull and complete, with the calls to them | `completing` |
| `Dispatch` | the composition, faults, fairness, `TypeOK` | `budget` |
| `RequestLife` | what the server promises of each request (abstract) | `bound`, `hands`, `outcome`, `answer`, `sent` |
| `DispatchProps` | the properties, the mapping to `RequestLife`, the inductive invariant `JobInv` | |
| `MCDispatch` | instances for TLC | |
| `DispatchProofs`, `LifecycleProofs`, `RequestLifeProofs` | theorems | |
| `StreamHub` | `streaming/job_stream.py`, the channel of one job | `hub` |
| `StreamWorker` | the job loop, inference and flush task of a streamed job | `runner`, `infer`, `flush`, `chunks`, `reports` |
| `JobStream` | `stream_iter` and the endpoints between the two; faults, fairness, `TypeOK` | `job`, `stream`, `end`, `spent` |
| `TextStream` | what a streamed request promises its client (abstract) | `made`, `complete`, `seen`, `ended` |
| `JobStreamProps` | the properties, and the mapping of `JobStream` to `TextStream` | |
| `JobStreamProofs` | theorems | |
| `Selector` | `scheduler/selector.py`, and the order it should produce | |
| `Ranking` | the figures of a model's workers, from their measurement to the list | `speed`, `pricing`, `mail`, `handling`, `rows` |
| `RankingProps`, `MCRanking` | the properties; the instance for TLC | |
| `RankingProofs` | theorems | |
| `PowerFeed` | `LocalPowerApi`, the connection, `track`, and the job loop's wait for it | `reading`, `latest`, `queue`, `wire`, `task`, `active`, `runner` |
| `PowerProps`, `MCPower` | the properties and `PowerInv`; the instance for TLC | |
| `PowerProofs` | theorems | |
| `ClusterTable` | `cluster/repository.py`, `cluster/service.py` | `rows`, `cursor` |
| `ClusterSync` | `cluster_sync.py`'s job and the gossip handler of every server | `job`, `handler` |
| `Forwarding` | the calls of one chat request on its way over the servers: candidates, posts, failures, timeouts | `wanted`, `calls`, `unheard` |
| `Cluster` | the composition of the two, with restarts | |
| `ClusterProps`, `MCCluster` | the properties, `ClusterInv` and `RouteInv`; instances for TLC | |
| `ClusterProofs`, `CursorProofs` | theorems | |

There are five compositions. `Dispatch` has several requests that compete for
several workers of one server, none of them streamed. `JobStream` has one
streamed request and the worker bound to it, and looks at its text. They share
the code of `pull` and `complete`; the rows of the worker and of the request,
which the streaming handler treats as the other one does, are left to
`Dispatch`. `Ranking` follows the figures by which `Dispatch`'s assigner, where any
candidate may be popped, chooses. `PowerFeed` is the other thing the job loop
waits for. `Cluster` is what a forwarding handler of `Dispatch` sees of the other
servers.

#### Dispatch

The three tables are the components' shared state; a repository's operations
are operators on its table, and the modules of the processes call them. An
action is one statement of a session or one committed transaction, which is
the grain at which the processes of the server interleave:

* **Threads** (assigner, cleaner, pull) may be interrupted between any two
  statements.
* **Coroutines** (a handler, heartbeat, complete) hold `loop` between two
  awaits: no other coroutine runs, but the threads do. A handler gives the
  loop up in the `sleep` of its two polling loops and while it awaits another
  server.
* **The ORM.** A session writes only the columns that differ from those it
  loaded, so an operation that loads a row and writes it later carries the
  loaded row along (`hb[w].row`, `cln.row`). The session of the assigner expires
  its objects at each commit; using an expired object of a deleted row raises
  and ends the batch (`asg.loaded`, `Readable`). `clear_job_if_matches` of the
  assigner compares a value loaded earlier (`asg.seen`).
* **Order.** Requests are numbered by arrival, so `r` also stands for
  `created_at`; `jobs[r].created` is the position of a job among the jobs.
* **Time.** `last_heartbeat` is reduced to whether it is newer than the
  cleaner's cutoff (`fresh`). The deadlines of a handler may expire at any
  poll when `Deadlines` is TRUE.
* **Ranking.** Any worker of the ranked list may be popped; which one is best
  is the business of `Ranking`.
* **Forwarding.** `CanForward` says that the cluster is enabled and the request
  has hops left. A handler forwards at once when no local worker on line serves
  the model and there are candidates, later when nothing was assigned in its
  budget; its row stays in the queue meanwhile (`pc = "forwarding"`). The other
  server's answer is `relayed`; when every candidate fails the request is turned
  down.
* **Messages.** A call of a worker is in flight until the server handles it. A
  worker has one heartbeat under way (`heartbeat_loop` awaits the answer).
  An answer that is lost and one that comes after the client's timeout are the
  same to the worker, so both are `CompleteRaises`; the report itself may still
  be handled later, after the worker has gone on to another one.

`RequestLife` says what all this is for, in six actions and no tables: a request
is bound to one worker for good, handed out once and to that worker only, and
answered with what was reported or the truth about why nothing was. A request
that was turned down or relayed never runs here. The mapping reads `bound` and
`answer` off the handler's locals, `hands` off the job loops and `outcome` off the
job's row (`Life` in `DispatchProps`). The binding counts from the moment the
handler has read it: until then the cleaner may take it back.

#### Streaming

* **Text.** Piece `p` is the `p`-th delta the back end produced; an upload and
  a delta event are intervals of pieces. `flush.acked` and `flush.drained`
  delimit the string `pending` of the flush task: what was taken from
  `delta_queue` and not yet answered.
* **Grain.** An action is the run of a coroutine to its next await. `hub.queue`
  is everything ever put into the channel and `hub.taken` what the handler has
  got out of it, so that the past of a stream can be spoken of.
* **Calls.** An upload is in flight until it is handled. A worker that has
  given up on one may send the next while the first still arrives
  (`AwaitsChunk` tells them apart), in any order.
* **The deadline.** `Deadline` may fire whenever the handler is serving, also
  with events still in the channel. The outcome then comes from the job's row,
  and the whole text is sent after what was sent before (`replayed`).
* **Empty errors.** A report whose error is the empty string counts as success
  with no text; the client sees a stop (`StoppedWithUsage` and `cut` tell it
  apart from a real one).
* **No subscriber.** A client that leaves before the generator has started
  leaves the channel open, as the generator's `finally` never runs; so does an
  exception between `ensure` and the job's creation.

#### Ranking

* **Numbers.** Speeds and costs are integers in units of one's choice, the
  tolerance a percentage, so that `ReachesFloor` compares products and nothing
  is rounded. A worker's number is the place of its id among the ids.
* **The list.** `RankCandidates` sorts three classes by three keys, as the code
  does. `SortedBy` puts each candidate after as many as have a smaller key; the
  library's sort rests on an operator of TLC's module that the prover cannot see
  into. `Before` is the reference: when one candidate comes before another.
* **The figures.** The job loop records a speed (`Measure`); the heartbeat loop
  awaits the power meter with a speed in hand (`AskPower`) and sends the speed of
  afterwards with the cost it computed (`CollectWithSpeed`). The endpoint writes
  the models with their costs and then the speeds, in two transactions; the
  second may fail. `torn` marks a row between them. The assigner may read in any
  state, so the list is a state function and properties speak of it directly.

#### Power

* **Time** is one clock in seconds for host and worker (they share the machine);
  a reading is stamped when it begins, and published when it is over.
* **The filter** is left open up to what it guarantees: a value between the last
  published one and the new one.
* **A connection** is a queue of `QueueSize` samples, of which the oldest is
  dropped, and a wire of `WireSize`. `_subscribe` puts the latest sample first.
* **A tracker** is `track` from await to await; `AddUp` is its segment, cut at
  `SegmentCap` and divided by the number of active tasks. It ends when it has
  been told to, at its next sample or timeout, or when the connection fails.

#### Cluster

* **Names.** A server is written as the URL it is configured with; `rows[n][u]` is
  the row about `u` at `n`, and its `node_id` is either `u`'s own or the one made up
  from a seed URL (`id` is `own` or `seed`). Look-ups by id and by URL, and the
  fall-back from one to the other, are modelled as they are.
* **Pens.** `upsert_node`, `update_latency` and `mark_node_offline` load a row and
  commit later: a pen holds what was loaded and what will be written. `Flushed`
  writes only changed columns. `raced` records that another thread has
  committed in between, or that the version counted was not the highest.
* **The cycle** goes statement by statement: self, seeds, probes, posts, the
  answer's entries one by one, the cursor. A handler per sender serves the
  posts; the same sender's next post waits until that handler is free.
* **Left open:** which neighbours are nearest, what a server's workers offer at
  the start of a cycle, and when each cycle begins.
* **Ways.** One chat request may reach a server more than once. A way is the
  sequence of servers through which it came, and `calls[w]` the run of
  `chat_completions` at its end; `Hop` and `Seen` are the two headers. A call
  chooses its candidates once, then posts to one after the other with the same
  headers: a post that raises (`Unreachable`), an answer other than 200
  (`NextCandidate`) and a timeout (`GivesUp`) lead to the next, and after the last
  the call fails (`Exhausted`). So a server that was asked below a candidate that
  failed is not in the headers, and may be asked again.
* **Unheard answers.** A call goes on when the client that made it has timed out,
  and when the server that waits for it has died (`CutOff`); `unheard` records
  that. What a server answers from its own workers, and when, is left open
  (`Served`, `Fails`): that is `Dispatch`.

### Faults

In `Dispatch`, `Faults` selects which kinds may occur and `MaxFaults` bounds how many:
`loss` (a call or its answer is lost or late), `worker` (the worker dies and comes
back with the id it has stored), `server` (the process dies: handlers, batch and
cleanup are gone, rows stay), `db` (a statement raises, in the batch, the
cleaner, a handler, its `finally` block, or a heartbeat), `stale` (a heartbeat is
overdue). `MaxFaults` is the only bound on behaviours besides the number of
requests; each request is sent once.

In `JobStream` the kinds are `chunk`, `report`, `pull` (the call or its answer is
lost, or late), `worker`, `server` (the process dies), `db` (creating the job
raises) and `client` (the client disconnects). `Length` bounds the text and
`MaxFailures` is the number of failed uploads in a row that abort a job (5 in the
code).

In `Ranking` a worker restarts, a heartbeat is lost, or the second transaction of
a heartbeat fails. In `PowerFeed` a connection cannot be opened or breaks; a slow
or silent host, late samples and timeouts are not faults but ordinary steps. In
`Cluster` a probe fails, a post does not arrive, an answer is lost or late while
its handler goes on, or a server restarts on its database, which also cuts off
the forwarding calls it has under way; races between the writers of a table,
and posts of a request that raise or time out, are ordinary steps.

### Properties

Dispatch, safety (`DispatchProps`):

* `ExecutionMatchesLease`: a worker handles only jobs whose row names it and
  has been leased. Pull replies and reports that are lost or repeated, and
  restarts, are what could break it.
* `JobHeldByItsWorker`: if the registry says a worker holds a job, the job's
  handler has bound that very worker. Requests are released and bound again
  while the handler keeps its local copy.
* `BatchClaimsOnce`: a batch never reserves a worker that it bound before, even
  when a heartbeat wiped that reservation; this is what `claimed_workers` is for.
  The property does not look at `claimed_workers` but at a history of the
  assignments the batch has committed (`asg.given`): to forget a claim breaks it.
* `FifoWithinModel`: requests of one model are bound in order of arrival, also
  when batches are abandoned half way. It is stated for runs without `stale`
  faults: releasing the request of an off-line worker puts an older request
  back behind a newer one that is bound already.
* `RowTracksHandler`: the assigner and the cleaner, which write rows whose
  handler may delete them, neither lose a row nor bring one back.
* `JobLifecycle` (action property): a job goes forward, never changes hands and
  is not completed before it was leased.
* `LifePromise`: `Dispatch` implements `RequestLife`.

Liveness: `EveryRequestAnswered`, `EveryRequestServed`, `WorkersReturnToPool`.

A stream, safety (`JobStreamProps`):

* `NoGap`: the client gets no piece before all pieces in front of it, although
  uploads are repeated with more text and the late one may still arrive.
* `StopMeansComplete`: a stop after a success comes after every piece, of an
  inference that ended well. The report must wait for the flush task, and an
  abort after the inference has ended must not be taken for a success.
* `RepeatsNeedRetries`: a piece is repeated at most once per upload whose
  answer was lost. (The server does not recognise a repeated upload.)
* `DoneMeansComplete`: a row that holds the text of a job is about a complete,
  unaborted one, so that the deadline never replays half a text.
* `TextPromise`: `JobStream` implements `TextStream`. Its `Deliver` makes the text
  seen a longer prefix, its `Stop` requires all of it, and a stream that is over
  never changes again.

Liveness: `StreamEnds`, `RunnerComesBack`.

The ranking (`RankingProps`):

* `RankedInOrder`: the list loses no candidate, has none twice, and any two stand
  in the order `Before` states for them.
* `BetterFirst`: a worker at least as fast and as cheap as another, and better in
  one of the two, is tried first. Inside the tolerance cost counts first and
  below it speed, so the edge between them is where this could fail.
* `WarmIsPriced`: a row with a speed never carries the base cost, which is of
  another order than a cost computed from a speed, except between the two
  transactions of a heartbeat or after the second has failed.
* `ImprovementKeepsLead` (action property): when the figures of one worker
  improve it keeps every lead it had, although its speed raises the floor for all.

The power feed (`PowerProps`):

* `SamplesInOrder`: samples reach a tracker in the order they were read, and a
  queue that drops samples always keeps the latest.
* `NoTimeLost`: the segments of a job that was tracked to its end add up to its
  time at least, unless one was cut at the cap: timeouts, late samples and a
  broken connection leave no time out.
* `CountedOnce`: and to no more than the time since its first sample, unless a
  wait timed out. The two exceptions are real: the first sample may be older
  than the job, and a late sample moves the clock of a tracker back.
* `NeverShared`: a worker's power is never divided between two jobs, because the
  job loop awaits the tracker of one job before it pulls the next.
* `ReportComes` (liveness): a silent host does not hold up the job's report.

The cluster (`ClusterProps`):

* `SeedRowsOfferNothing`: a row under a made-up id offers no model, so it is never
  a forward candidate; `X-DLLM-Seen-Nodes` could not name it.
* `NoWayBack`: a forwarded request never comes back to a server that is waiting
  for its answer, whatever the servers on its way believe of each other and
  however often they fall through to the next candidate.
* `OneAnswer`: one server at most answers a request from a worker of its own, and
  then the client is not turned down, unless somebody went on without an answer.
  That a server is asked again after a candidate failed does no harm because a
  failure is final for all that hangs on it.
* `NoRevisionAhead`: no row, anywhere, has a revision its server has not announced.
* `OnlyOwnRowIsSelf`: `get_self_node` never meets two rows, and no rumour makes a
  server exclude another from its candidates.
* `NothingSkipped`: the cursor of a neighbour does not pass a row it was not told.
* `CycleEnds` (liveness): servers that post to each other from the jobs that
  have to answer do not wait for ever.

`SeedRowsOfferNothing`, `NoWayBack` and `NothingSkipped` hold until two writers of
one table get in each other's way (`raced`); after that they do not, see "Known
divergences".

### Runs

| Run | Instance | Shows | States |
|---|---|---|---|
| `leases` | 1 request, 2 workers, any one fault, forwarding, deadlines | `TypeOK`, `ExecutionMatchesLease`, `JobHeldByItsWorker`, `RowTracksHandler`, `JobLifecycle`, `LifePromise` | 400 k |
| `batches` | 2 requests, 2 workers, one failing statement | `FifoWithinModel` | 2.8 M |
| `answered` | 1 request, 1 worker, any two faults, forwarding, deadlines | `EveryRequestAnswered`, `WorkersReturnToPool` | 260 k |
| `served` | 2 requests for 2 models, 1 worker, no deadlines, one failing statement | `EveryRequestServed`, `BatchClaimsOnce` | 230 k |
| `streams` | 3 pieces, abort after 2 failures, any three faults, deadline | `TypeOK`, `NoGap`, `StopMeansComplete`, `RepeatsNeedRetries`, `DoneMeansComplete`, `TextPromise`, `StreamEnds`, `RunnerComesBack` | 300 k |
| `ranking` | 3 workers in every registered state, one measurement, one heartbeat, one fault, tolerances 0, 25 and 100 % | `TypeOK`, `RankedInOrder`, `BetterFirst`, `WarmIsPriced`, `ImprovementKeepsLead` | 310 k |
| `power` | 2 jobs, a queue of 2 samples, 3 seconds, timeout after 2, one failed connection | `TypeOK`, `SamplesInOrder`, `NoTimeLost`, `CountedOnce`, `NeverShared`, `ReportComes` | 520 k |
| `cluster` | 2 servers that are each other's seeds, two cycles and one, batches of one row, a fault or races | `ClusterTypeOK`, `SeedRowsOfferNothing`, `NoRevisionAhead`, `OnlyOwnRowIsSelf`, `NothingSkipped` | 880 k |
| `forwarding` | 3 servers, the second knows the first and the third the second, one cycle of these two, races and a fault together; then a request, 3 hops, 2 candidates | `NoWayBack`, `OneAnswer`, `CycleEnds` | 270 k |

The bounds are the smallest at which the interesting cases occur. In
`served`, two requests and one worker make them compete for a reservation, and
put a second request in a batch after the first is bound; their models are
numbered against their order of arrival, so that the batch order is not the
order of arrival. Two workers are needed for a request that is bound a second
time elsewhere; with one request its row, its job and its handler can disagree
in every way. `leases` and `batches` use the symmetry of the workers, which no
definition tells apart; the temporal runs do not. Two faults in `answered` allow
a lost heartbeat after a lost report, or a crash of the worker after one of the
server. Three pieces suffice for an upload that is answered, one that is lost
and one that repeats it with more text; three faults allow a second upload to
overtake a late one and an abort to meet a report.

In `ranking` three workers fill all three classes at once, or two sides of the
edge with a third that sets the floor; the initial states are all tables that
heartbeats of the past can have left, so that one measurement and one heartbeat
are enough for every step from one table to the next. 25 % puts a floor between
the speeds, 0 and 100 % are the ends of the range. In `power` a queue of two can
overflow while a third sample is on the wire, and three seconds are a sample,
a timeout of two and what comes late (at the end of the clock a timeout needs no
wait, so that a bounded run can end). In `cluster` a second cycle is what meets
the row that gossip has renamed, and a batch of one row is always cut off.
`Together = FALSE` explores races and faults apart; `forwarding` allows both.
With two servers nobody hears of a third by rumour; in `forwarding` the first
hears of the third only through the second. That run ends its cycles with
many tables, over each of which the request then goes: two candidates are what a
call needs to fall through, three servers what it takes to be asked again below
another one, and `MaxHops` of 3 is one more than three servers allow without a
return. `SentTo` is the server the client asks, the one that may learn of both
others. `AskedLate` lets the request start only when the servers are quiet, and
`NeighborCount` of 0 leaves out the probes there, which nobody else waits for and
`cluster` has; the theorems have neither bound, and hold for any number of
servers, with requests and gossip interleaved.

Deadlock is checked in the runs of `Dispatch` and `JobStream`: heartbeats never
end, and `JobStream` may stop only where `Terminated` says so. `ranking`, `power` and
the cluster runs stop when their clock, measurements or cycles are used up.

The other runs each show one sentence of the documentation that the code
does not keep. TLC finds the behaviour; `findings` in `PROJECT.json` quotes the
sentence.

| Run | The sentence (`server/docs/server_architecture.md`) | What happens |
|---|---|---|
| `terminal_claim` | `:32`, complete moves pending or running to done or failed | the retry after a lost answer turns done into failed |
| `failure_claim` | `:133`, a failure is an HTTP error | an exception with an empty text counts as success |
| `older_claim` | `:206-207`, `apply_remote_entry` compares by revision and refuses older updates | an entry under the id made up from a seed's URL finds no row to be compared with, and overwrites the newer row of the same URL, even the receiver's own |

### Known divergences

Met while modelling, and part of the models, but not a run of their own; the
documents are those of `server/docs` unless named otherwise.

* An empty `current_job_id` does not mean idle (`server_architecture.md:220`): a
  heartbeat collected before a job was pulled arrives after it. `leases` shows
  that the job is not run twice, `answered` that the next heartbeat repairs it.
* The `finally` block does not always clear `current_job_id` (`:134`): it may read
  the row between the assigner's reservation and its assignment. Heartbeats
  repair that too.
* Nor does it always clean up (`:183`): creating the job may raise after `ensure`,
  and a client may leave before the generator starts. The channel stays until
  the process ends.
* `greedy_select` by lowest cost (`:85`) is called by nobody; the server tries the
  whole ranked list.
* With a tolerance of 0 the speed does not come strictly first
  (`server_config_reference.md:48`): workers without figures come before all.
* The energy of a job may include time before it began (`README.md:17`): the first
  sample of a subscription is the latest one, whatever its age. And after a wait
  has timed out, a sample that was late moves `prev_ts` back, so that the time
  between the two is counted twice (`CountedOnce` excludes it).
* A seed that fails its probe once is not written anew (`_seed_nodes` finds the row
  and goes on), and dead rows are never chosen; it comes back when it posts
  itself (`server_config_reference.md:74`).
* A row that gossip has improved may go back to revision 1 not only by an entry
  (`older_claim`) but also by the next cycle's `_seed_nodes`, which finds no row
  under the made-up id and writes one without a comparison; of that the document
  says nothing.
* `X-DLLM-Seen-Nodes` is not the set of visited nodes (`server_architecture.md:229`)
  but that of the nodes on the way to the present one: every candidate gets the
  same headers, so a server that was asked below a candidate that failed can be
  asked again (`NoWayBack` and `OneAnswer` are what holds instead). Nor does it
  always prevent loops: after two writers have mixed a seed's id with the models
  of the same server, a request can be forwarded back to it. The hop limit ends
  that.
* The answer to a gossip post is selected by the sender's cursor, which counts the
  sender's versions and not those of the server that answers (`HandlerReplies`),
  so rows may be missing from answers; a row of theirs that changes later, or
  their own posts, bring them.
* State versions are not strictly increasing: two threads may compute the same
  next one, or a row that held the highest may be written by a thread that
  counted earlier (`NextStateVersions`), and a cursor then passes a row. This is
  why `NothingSkipped` ends with a race.

### Fairness

`FairSpec` of `Dispatch` assumes that

* every handler's step is taken again and again when it is possible again and
  again (strong fairness): asyncio serves ready coroutines in FIFO order, and a
  handler's step is possible only when the loop is free, so it may be disabled
  in between by others; the same goes for a worker's heartbeat and for reports;
* the assigner and the cleaner go on (weak fairness): APScheduler starts them at
  an interval, and a thread is not starved by the loop;
* a worker's loops go on (weak fairness): inference ends, with a result or an
  exception, and the client of a call gives up after its timeout. The timeout is
  part of `RunnerMove` only while nothing is under way for it (`NothingComes`);
  a timeout that beats an answer is a fault of kind `loss`.

No fault is ever assumed to happen, and none is assumed away except by the
budget. `EveryRequestAnswered` needs the deadlines: after a lost pull reply the
job stays `running` and only the deadline ends the wait. A call to another
server ends by its timeout, which is part of the handler's step.
`EveryRequestServed` runs without deadlines, so that they cannot hide a request
that was forgotten, and with faults that do not lose a job.

`FairSpec` of `JobStream` assumes that coroutines which can go on do, that an
inference ends, and that a call the worker waits for is handled, or fails when
its request is gone (the client has a timeout). The deadline of the handler is
not among these: `StreamEnds` shows that a stream ends without it, for every
fault but those that lose the job itself (a dead worker, a lost pull reply, a
lost report), after which only the deadline ends it.

`FairSpec` of `PowerFeed` assumes that the clock goes on, the tracker's coroutine
does, and an inference ends. Nothing is assumed of the power host: `ReportComes`
rests on the timeout of `recv_sample`. `ClusterFairSpec` assumes that a sync job
and a gossip handler that can go on do; a post that is not answered is answered
by an error once its handler is gone, as the connection is then closed, and no
cycle has to begin.

### Theorems

Assumptions of the dispatch core: finitely many requests, numbered by naturals;
`None` is neither a request, a worker nor an identifier; `ModelOf` and `Serves` are
functions of the right type (`Types`). Nothing bounds the numbers of requests,
workers, models or faults, and every kind of fault may occur.

* `TypeCorrect`: `Spec => []TypeOK`. `TypeOK` is strengthened to `TypeInv` by the
  facts that the assigner has a request and a worker in the states that use
  them, and that a busy runner has a job; the proof has one lemma per process.
* `LeaseCorrect` and `BindingCorrect`: `Spec => []ExecutionMatchesLease` and
  `Spec => []JobHeldByItsWorker`. Neither is inductive. `JobInv` adds why they
  hold: the worker of a job is fixed in the handler's locals and in the job's
  row and these agree (`JobsKeepTheirHandler`, `UnboundHandlers`, `JobsAreNew`), and
  every heartbeat and report in flight that names a job comes from the worker
  that leased it (`HeartbeatsMatchLease`, `ReportsMatchLease`). A late heartbeat
  may therefore write a job id into the registry, but only its worker's. Steps
  that touch none of this go through `JobInvFrame`.
* `LifecycleCorrect`: `Spec => JobLifecycle`, from `JobInv`: a handler creates its
  job only once (`JobsAreNew`), and a report is about a leased job.
* `RowsCorrect`: `Spec => []RowTracksHandler`. It rests on `RowsKept`: neither
  background job adds or removes a row, because `assign_worker_to_request` checks
  the status again and releasing touches assigned rows only.
* `BatchCorrect`: `Spec => []BatchClaimsOnce`, from `BatchInv`: the workers a batch has
  bound are among those it has claimed, also between the commit of an assignment
  and the claim that follows it, when the pool is not looked at; and a worker is
  left in the pool only if it is not claimed.
* `FifoCorrect`: `Spec /\ []NoneOverdue => []FifoWithinModel`, and `FifoWhileFresh`:
  `Spec => []FifoWithinModel` when `stale` is not among `Faults`, as in the run. Every
  other fault may occur. The condition is needed: releasing the request of a
  worker that went off line puts it back behind a younger one already bound.
  The inductive invariant is `FifoInv`. A request is numbered when its handler
  inserts it and never enters the queue again (`ArrivalOrder`), a batch holds
  requests that have arrived (`BatchArrived`), and its heart is `BatchOrder`: if an
  older request of the same model still waits, then every younger one is behind
  it in the batch, or the pool of their model is exhausted for both. That is
  why an abandoned batch, a vanished row or an empty pool cannot let a younger
  request overtake.
* `LifeCorrect`: `Spec => LifePromise`, the refinement of `RequestLife`. First every
  step is sorted into a few kinds by what it does to handlers, jobs and job
  loops (`EveryStepIsOfAKind`); then `LifeInv` adds to `JobInv` that a handler has an
  answer from its `finally` block on and not before, that a finished job says how
  it ended, and that an idle job loop has let go of its job; then each kind is
  mapped to an action of `RequestLife` or to a stutter.
* `AnswersAreTrue` reads off `RequestLife` alone what that promise means: a request
  that was turned down or relayed was never bound, is in no worker's hand and is
  not reported on here, and one answered with a result has been reported.

For a stream, whatever `Length`, `MaxFailures` and the faults are
(`JobStreamProofs`):

* `StreamTypeCorrect`, `NoGapCorrect`, `StopCorrect` and `DoneCorrect`:
  `Spec => []TypeOK`, `[]NoGap`, `[]StopMeansComplete` and `[]DoneMeansComplete`,
  all from `StreamInv` (`StreamInvariant`). Its first part, `TextInv`, is why there
  are no gaps: the channel as a whole is in order, everything answered is in it
  as long as it is open, and an upload in flight starts at the latest where the
  answered text ends. `SuccessInv` is why a stop is complete: a success, be it a
  report, a row or an event, exists only when all that was produced has been
  answered.
* `RepeatsCorrect`: `Spec => []RepeatsNeedRetries`. Counting what was received is not
  inductive; `CopiesInv` counts what carries a piece, in the channel and in
  flight, and compares it with the faults so far and with whether the piece is
  answered or part of the upload waited for (`Sent`). A send is of pieces nothing
  answered has carried, a handled chunk moves from one count to the other, and
  what is given up is paid for: by a fault, or by the crash of the server that
  took the request along.
* `TextCorrect`: `Spec => TextPromise`, the refinement of `TextStream`. It needs
  three more invariants (`RefInv`): events carry only pieces that exist, the
  pieces received are always a prefix, and a replay comes from a complete text.
* `StopIsWhole` and `TextGrows` follow from `TextStream` alone: a client has the text
  up to some piece, all of a complete one when it is told stop (also by a
  replay, which `StopMeansComplete` does not speak of), never less than before, and
  nothing more after the end.

For the ranking, whatever the workers, figures and tolerances (`RankingProofs`):

* `BeforeIsTotalOrder`: the reference order is irreflexive, transitive and total
  on any set of candidates with different ids, for any integer tolerance, also one
  below 0 or above 100. `DominatingIsBefore` is `BetterFirst` in terms of that order: the
  floor is a share of the highest speed, so a worker that reaches it takes every
  faster one along.
* `RankingIsOrdered`: for any finite set of candidates with different ids and any
  tolerance, `RankCandidates` lists each exactly once and in the order `Before`. Its
  lemma `SortedByOrder` needs no induction on lists: under a strict total order no
  two members have the same number of smaller ones, and a one-to-one map
  between finite sets of the same size leaves no place of the list empty.
* `RankedInOrderCorrect` and `BetterFirstCorrect`: `Spec => []RankedInOrder` and
  `Spec => []BetterFirst`, from the two above and the type invariant: every
  candidate the assigner can read, between any two transactions, is one of a set
  with different ids.
* `RankingTypeCorrect`; `WarmIsPricedCorrect`: `Spec => []WarmIsPriced`, from
  `SentTogether`: a heartbeat with a speed has a cost of a speed, because a speed
  that was read is never taken away within the process that read it, and the
  row under treatment has the cost of the heartbeat under treatment.
* `LeadCorrect`: `Spec => ImprovementKeepsLead`. A raised floor can push others below
  it, never the worker that raised it, nor lift one it led.

For the power feed, whatever the sizes, timeouts, jobs and faults
(`PowerProofs`), all from `PowerInv`:

* `SamplesStayInOrder`: what waits in the queue is newer than what is on the wire,
  and nothing is newer than the latest sample (`Coming`).
* `NoTimeIsLost` and `TimeIsCountedOnce`: `total` is the time up to `prev_ts`
  (`Accounted`), and without timeouts every sample still to come is newer than
  `prev_ts`, except the one a subscription begins with (`Ahead`).
* `PowerIsNeverShared`: a tracker that counts is that of the job loop's job
  (`OneTracker`). `PowerTypes` is type correctness.

For the cluster, whatever the servers, seeds, batch sizes, hops, cycles and
faults (`ClusterProofs`), all from `ClusterInv`:

* `RevisionsAreAnnounced`, `SelfIsOne` and `SeedsOfferNothing`: whatever is written
  down about a server, be it a row, a write under way or an entry in a message,
  is `Credible`: its revision has been announced or is 1, and a made-up id offers
  nothing. Each step only hands on what was credible. A commit over a row that
  was changed since its load could mix two credible rows into one that is not,
  which is what `raced` excludes; the revision survives even that, as both sides
  have announced ones.
* `NoRequestComesBack` and `OneServerAnswers`: `ClusterSpec => []NoWayBack` and
  `[]OneAnswer`, from `RouteInv` (`RouteInvariant`). For the first, a candidate goes by
  its own id, by `ClusterInv`, so the headers name it if it is on the way, and
  what is still to try never is (`TodoNew`). For the second, as long as every
  answer is heard, the calls that have not failed stand in one row, each waiting
  for the next or relaying its answer (`OneBranch`): a call moves on to its next
  candidate only when all below the last one is over and failed.
* `ClusterTypes`.
* `NoRowIsSkipped` (`CursorProofs`): `ClusterSpec => []NothingSkipped`, from `SkipInv`
  (`SkipInvariant`) on top of `ClusterInv`. Until a race, a neighbour has handled
  every row up to its cursor (`CursorCovered`), and whatever a post under way will
  move the cursor over is in that very post or handled already (`PostCovered`). What
  makes a batch that was cut off safe is that the cut is by version (`BatchCovers`)
  and that without a race a version is above all others, so that a row written
  meanwhile is above the cursor. That there is a highest version is the one
  induction, on finite sets, of these proofs (`MaxOfNaturals`, by `WFMin` over their
  strict subsets).

Each of these invariants was checked by TLC, on the instance of the component's
run, before it was proved. Every invariant, action property and refinement the
passing runs check is thus proved for all sizes. Model-checked only are the
liveness properties `EveryRequestAnswered`, `EveryRequestServed`,
`WorkersReturnToPool`, `StreamEnds`, `RunnerComesBack`, `CycleEnds` and `ReportComes`
(fairness and `ENABLED` are beyond the prover), the absence of deadlock where it is
checked, which is about `ENABLED` too, and the three counterexamples.

### Left out of the modelled parts

Payloads, usage figures and average power in the registry; the contents of
models in `Dispatch` (a worker's list does not change between heartbeats); a
failing insert of the request itself, which leaves nothing behind; the role
chunk that opens a stream and empty deltas, which carry no text; the rows a
streaming generator that never starts leaves behind (a crash of the server
leaves the same in `Dispatch`); failing statements of `pull` and `complete`, which
look to the worker like a lost call; SQLite's locking, as every step is at most
one transaction; more than one server process on one database, which the
deployment does not use (`scripts/docker-entrypoint-server.sh:42`). In `Ranking`,
rounding of floating point and the other models of a worker; in `PowerFeed`, the
readings of the meter and the HTTP endpoint of the latest sample; in `Cluster`,
worker counts and latency, which only order candidates, `tombstone`, which no
code sets, and what happens to a request at the server that answers it, which is
`Dispatch` again. A forwarded request that times out may be executed by two
servers, in the model too: its headers carry no id by which the first could be
told to stop. For a streamed one a status of 200 begins the answer, and what
comes after it is passed on as it is.

## 3. What is left

All parts that keep state which several actors change are modelled. No
invariant is left to prove; the liveness properties would need another prover.
What follows is not modelled:

* **Key manager and authentication**: a look-up, and one insert at start-up.
* **Worker registration**: one call before the loops start; that a restart
  reuses the stored id is part of `WorkerCrash`.
* **Web console stores**: caches that poll the admin API; nothing flows back to
  the scheduler. A detail that arrives after another job was selected is shown
  for it until the next poll (`stores/jobs.ts:134`).
* **Console views and charts, admin API**: presentation and read-only queries.
* **Inference back ends and power readers**: adapters of external services and of
  the operating system.
* **Length predictor**: an offline script nothing imports.
* **Configuration, schemas, database set-up**: declarations; what the session
  settings imply is in `RequestAssigner`.
* **Message conversion**: a pure function with unit tests.
