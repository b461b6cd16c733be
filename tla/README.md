# TLA+ verification of etherscan

`etherscan` copies Ethereum blocks into a transaction graph and computes a
"Gravitas" score for every wallet with a bulk-synchronous-parallel (BSP) graph
algorithm, on one machine (the monolith) or on a master and a set of workers
(the microservices). This directory models the parts of the program whose
correctness depends on the order in which goroutines, messages and failures
meet, checks them with TLC, and proves theorems about them with TLAPS.

Line references are to the Go files at the root of the repository.

## 1. The system

| Component | State it keeps | Operations | What makes it correct |
|---|---|---|---|
| Block inserter (`blockinserter/`) | a subscription | upsert each new block number | every head is inserted; a processed block may be set back only to be scanned again |
| Block scanner (`scanner/`, on `pipeline/`) | a pipeline per pass | fetch unprocessed blocks, store wallets, then transactions, then mark the block | a processed block's data is stored |
| Transaction graph (`txgraph/store/memory`, `txgraph/store/cdb`) | blocks, transactions, wallets; the CDB store also three write caches | upserts, range queries, filling gaps between block numbers | foreign keys, flush order, processed means stored |
| Score stores (`scorestore/`) | scores per wallet and scorer | upsert, search | last write wins, nil means stored |
| BSP engine (`bspgraph/`) | vertices, two message queues each, superstep, aggregators | step, send message, reset | a message sent in superstep *s* is seen in *s+1*, once |
| Gravitas (`gravitas/`, both services) | a BSP graph, the scores | load wallets, run three supersteps, persist | scores do not depend on scheduling or partition |
| Distributed job (`dbspgraph/`) | coordinators, barriers, executors of master and workers, one stream per worker | run a job in lock step, relay messages, commit or abort | rounds agree, nothing is lost or late, success means stored everywhere, everyone returns |
| Worker pool (`dbspgraph/worker_pool.go`) | connected workers, health monitors | add, remove, reserve, close | one owner per stream, none forgotten, no lost wake-up |
| Address partitions (`depl/monolith/partition`) | sorted boundaries | extents, lookup | every address in exactly one partition |
| Service group (`depl/monolith/service`) | the services of the monolith | run until one fails | returns when its services do |
| gRPC APIs, frontend, Ethereum client | none of their own | calls, streams of rows, a page of results | a failed call may still be carried out; a page shows what is there |
| Entry points (`depl/*/main.go`) | a process with a context | start, signal, end | a service that fails takes its process down, and no other |

How they interact. Block inserter and scanner share the transaction graph,
directly or over gRPC; Gravitas reads it and writes the score store. In the
distributed form the master node calls `Master.RunJob` periodically. That
reserves the workers of the pool, sends each a partition, and drives them
through *barriers*: in each superstep PRE, POST and POST_KEEP_RUNNING, and at
the end EXECUTED_GRAPH, PERSISTED_RESULTS and COMPLETED_JOB. A message to a
vertex of another partition is relayed through the master.

What is hard. The master runs a goroutine per worker besides its own, each
worker a receive loop besides its own, and each stream two more; they meet in
unbuffered and one-place channels, and any `select` with a cancelled context
may go either way. Workers, connections and storage fail at any time. Several
parts (`batchUpsert`, `UpsertScores`, `persistScores`, `loadWallets`, the
pipeline) share a pattern of workers, a `doneCh` and a one-place `errCh`.
`PROJECT.json` lists the hazards at their lines with the property that
covers each, or why none does.

## 2. Modules

| Group | Modules | What it is about |
|---|---|---|
| Distributed job | `JobState`, `MasterCoordinator`, `WorkerCoordinator`, `DistributedJob`, `RoundBarrier`, `JobInvariants`, `RelayInvariants` | one job of a master and its workers, to the last payload |
| Stream | `WorkerStream` | the goroutines inside one stream, which `JobState` takes as a FIFO |
| Worker pool | `WorkerPool` | what happens to a stream before and after a job |
| Writing in batches | `UpsertContract`, `BatchUpsert` | what a caller of a bulk statement may rely on, which `TxGraphStore` and `ScoreStore` take as a step with an outcome; the inserters behind it, which implement it |
| Ingest | `TxGraphStore`, `ScannerPipeline`, `Ingest`, `IngestInvariants` | block inserter and scanners on one transaction graph |
| Gravitas | `GravitasDeployment`, `PartitionRange`, `BSPGraph`, `GraphLoader`, `ScoreStore`, `Gravitas`, `GravitasInvariants` | from the transaction graph to the scores, in the monolith and in a job |
| Proofs | `DistributedJobProofs`, `MessageProofs`, `StrayProofs`, `WorkerPoolProofs`, `BatchUpsertProofs`, `WorkerStreamProofs`, `IngestProofs`, `GravitasProofs` | theorems |

Composition. Within a group the modules extend each other and share their
variables; the last one has `Next`. Between groups, a module assumes of another
only what that one shows: `Gravitas` has the barriers of `RoundBarrier`
(`LockStep`) and delivers a relayed message in its superstep (`RelayedInStep`);
the job has streams that deliver in order (`PayloadsInOrder`) and may break
without anybody noticing (`MasterTold` is refuted); a bulk statement returns an
error, or nil with or without all rows, and rows of it may be written after an
error but not after nil (`FulfilsContract`).

Every module has one action per handler, method, critical section or channel
operation, and each `MC` module gives it the instance that TLC checks.

## 3. The distributed job

### Modules and correspondence

| Module | Code | Contents |
|---|---|---|
| `JobState` | `proto/api.proto`, `stream.go` | constants, variables, payloads, initial state, sending, a stream that breaks |
| `MasterCoordinator` | `master_job_coordinator.go`, `barrier.go:11-105`, `executor.go:46-117`, `master.go` | the master's `RunJob` and one handler per worker |
| `WorkerCoordinator` | `worker_job_coordinator.go`, `barrier.go:107-176`, `executor.go:151-207`, `worker.go`, `bspgraph/executor.go`, `bspgraph/graph.go` | a worker's `RunJob` and its receive loop |
| `DistributedJob` | all of these | `Next`, fairness, properties |
| `RoundBarrier` | `barrier.go` | what the barrier promises: nobody leaves a round that somebody has not entered |
| `JobInvariants`, `RelayInvariants` | - | the inductive invariants: where the facts are that make the properties hold |
| `MCDistributedJob` | - | instance and symmetry for TLC |

Program counters. `mpc` is where the master's `RunJob` is: `start`
(before `StartJob`), `publish` (sending partitions), `check` (head of the
executor's loop), `wait` and `notify` (in `WaitForWorkers` and
`NotifyWorkers` for the step type `mphase`), `complete` (before
`CompleteJob`), `done`. `hpc[w]` is the handler of worker *w*: `recv`, `join`
and `joined` (the two channel operations of `barrier.Wait`), `reply`, `relay`,
`exit`. `wpc[w]` is the worker's `RunJob`: `idle` (no job yet), `load`
(`StartJob`), `check`, `enter` and `wait` (sending to and waiting at a barrier),
`compute` (`Graph.step`), `complete`, `done`. `rpc[w]` is its receive loop,
which has the payload `rmsg[w]` in hand while it delivers it (`notify`) or
sends a message on that is not for this graph (`bounce`).

Granularity. A rendezvous on an unbuffered channel is one step of both sides.
A blocking send is a step that is not enabled while the stream is full. Each
`select` with a `jobCtx.Done()` case has a separate action for that case, which
is enabled once the context is cancelled and does not disable the other cases.

Data. Vertices are abstracted to counts: how many messages wait in either
queue of a worker's graph (`inbox`), whether any vertex was active (`active`),
what the vertices added to the aggregator (`value`, `prev`). An address is the
worker whose partition holds it, and whether its graph really has the vertex
(`known`); with `Strays = TRUE` a vertex may write to one that does not exist.
`arrived`, `passed`, `inround`, `round`, `sentTo`, `tally` and `strayed` are
history that no guard reads.

Failures. Up to `MaxFaults` of: a stream that breaks and loses any suffix of
what is in flight in each direction, `StartJob` or `CompleteJob` that fails,
a step that fails, a context that expires. A worker's failing `CompleteJob`
may have stored any part of the scores; `persisted` contains a worker only if
`CompleteJob` returned nil. Whether nil means stored is a question about
`persistScores`, which `BatchUpsert` answers (section 6).

Disconnects. `MasterSeesDisconnect` and `WorkerSeesDisconnect` are the
callbacks of a broken stream. `Spec` never forces them, so the safety
properties also hold if a disconnect is noticed late or never.

### Runs

| Run | Instance | Shows |
|---|---|---|
| `job_faults` | 2 workers, streams of 2, supersteps 0..2, 1 relayed message per worker and superstep; 1 failure, or messages to vertices that do not exist | `CommitIsTotal`, `NoMessageMissed`, `RelayedInStep`, `StraysAbort` |
| `job_three` | 3 workers, streams of 1, 1 relayed message, no failure | `TypeOK`, `CommitInv`, `AgreeOnRounds`, `AggregatorsAgree`, and the refinement `LockStep` |
| `job_progress` | 2 workers, streams of 1, no relayed messages, 1 failure or none, `FairSpec` | `EveryoneReturns`, and without a failure `FaultFreeJobSucceeds` |
| `job_stray_deadlock` | 2 workers, streams of 1, 3 messages, strays, no failure | `SomeoneCanGoOn` is violated (finding) |

Bounds. `MaxStep = 1` gives every run supersteps 0, 1 and 2, so that both
message buffers are used and reused and the decision to go on falls either way.
`StreamCap`: a direction of the real stream holds at least three payloads (two
one-place channels and gRPC's window); 1 and 2 are enough for every send to
block sometimes, and a smaller capacity gives fewer interleavings of data in
flight, but more of goroutines that block. One failure at any point and of any
kind is enough for every abort path; a second would have to hit the abort
itself, where `Spec` already lets every `select` go either way. Two workers are
enough for relays in both directions; three make one handler run ahead while
two others disagree. Deadlock is checked in all passing job runs: the only
state without another step is `Finished`, which stutters. The constraint `FaultsOrStrays` of
`job_faults` leaves out behaviours with both a failure and a stray message: a
stray message is itself what makes the job abort.

Fairness. `FairSpec` adds weak fairness of "some step that is not a failure".
The Go scheduler runs a goroutine that can go on; the system does not stop
while one can. It is the weakest assumption under which `EveryoneReturns` can
hold, and it assumes nothing about which goroutine or which `select` case is
taken: no goroutine of a job can loop forever while another waits, because each
superstep needs all of them. `job_progress` has no relayed messages: then at
most one payload of a worker is unread at a time, the reader of a stream never
blocks, and a disconnect is always noticed. With more in flight a disconnect
can be lost inside the stream (section 4). That a job that relays does not get
stuck is shown by the deadlock check of `job_three`.

Finding (`job_stray_deadlock`). When vertices write to addresses that nobody
holds, a worker's receive loop sends the message back to the master
(`worker_job_coordinator.go:181` through the graph's relayer to `:187`), while
the master's handler for that worker sends it another message, or the reply of
a barrier as in the run's trace (`master_job_coordinator.go:225`). With both directions full, each waits for
the other to read, and the message that would abort the job is never read.
The run shows it with capacity 1; with the real, larger buffers it takes more
such messages. `SomeoneCanGoOn` states it without fairness: unless everyone
returned, some step other than a failure is possible.

### What is proved

For every finite non-empty set of workers, every capacity, and any number of
supersteps, messages and failures (the assumptions `WorkersAssumption` and
`BoundsAssumption` of `JobState`):

every safety property of the job is a theorem, `TypeOK`, `CommitIsTotal`,
`LockStep`, `AgreeOnRounds`, `AggregatorsAgree`, `RelayedInStep`,
`NoMessageMissed` and `StraysAbort`. Each rests on the ones before it, by the
inductive invariants `TypeOK`, `CommitInv`, and
`LockInv` in `AgreeInv` in `SumInv` in `RelayInv` in `InboxInv` in `StrayInv`;
section 9 has a table of all theorems.

`TypeOK` is inductive as it stands because its parts about handlers and
receivers say which kind of payload each program point has in hand.

Argument for the commit. `CommitIsTotal` is not inductive: that the master
returns nil depends on barrier counts, and that a worker does depends on a step
that travelled through a handler, a stream and a receive loop. `CommitInv`
(module `JobInvariants`) has four parts. `BarrierBooks`: while the master
collects, `cnt` is the number of workers in `inround`; while it replies, `cnt`
plus that number is the number of workers; so the loop's end means that *all*
workers joined this barrier. `OwnPersisted`: a PERSISTED_RESULTS or
COMPLETED_JOB step that is anywhere on its way from *w* (at the worker, on the
stream, in the handler, in the round) means that *w* persisted.
`AllKnownPersisted`: such a step anywhere on its way from the master means that
*all* did. The proof splits `OwnPersisted` and `AllKnownPersisted` into their
places and shows for each action where a step can go. The step from the first
to the second is the one action in which `cnt` reaches the number of workers,
by `BarrierBooks` and cardinality of subsets. TLC checks `CommitInv` itself in
`job_three`.

Argument for the aggregators. Between its PRE and POST barriers a superstep's
sum grows by what each worker adds, at most one each (`TallyBooks`: while nobody
has left POST it is the sum before plus the number of workers that have added);
the share of a worker travels in its step (`WorkerSums`), the master has gathered
the shares of exactly those whose steps joined (`MasterSums`), and broadcasts the
sum when all have. That nobody is past a barrier which still waits for
somebody's step is `JoinBooks`; it is what makes "nobody has left POST" true
whenever the books need it.

Argument for relayed messages (`RelayInv`). A worker relays only while it
computes, so its POST step is behind the message: in the same stream
(`UpStream`: no step is before it), not yet in the handler that has it in hand
(`AtHandler`). Until that step is there the POST barrier is shut (`Shut`,
`Held`), so the destination is still between the two barriers, ready for it
(`Ready`); and the reply that would let it go is behind the message on the way
down (`DownStream`).

Argument for the queues (`InboxInv`). For a worker in superstep *s*, the messages
in its queue for *s + 1* and those in flight add up to what was sent (`Queued`;
`Flight` counts places in streams and handlers), unless it is *doomed*: a message is lost
only with a stream or in an abort, and then the worker will never compute *s + 1*,
because the master aborts before it lets anybody go on (`Aborting`), because
the worker itself gets no more replies (`CutOff`), or because somebody's POST
step will never come (`Missing`). Each reason is stable, and each is
incompatible with computing *s + 1*. The property alone would need none of
this without failures; with them it is the part that matters, since a job that
aborts goes on computing for a while. `ActiveBooks` and `StepBound` say that the
barrier counts active vertices, and that without messages they stop.

Argument for stray messages (`StrayInv`). The vertex that wrote the message was
active, so that the KEEP barrier of its superstep lets nobody stop (`Sender`,
`NobodyStops`, by `ActiveBooks`): scores can only be stored in a later superstep.
Until then the message is somewhere (`StrayFound`) with a barrier shut behind
it: up to POST on its way to its destination, up to KEEP on its way back
(`StraysUp`); or it was lost, with a stream or a receiver whose worker
cannot pass that barrier (`StrayLost`); or the master has seen it, or dropped
it, and aborts before it opens the next one (`Aborting`).

## 4. A stream

`WorkerStream` has both ends of one stream: at the master `HandleSendRecv`,
which is `JobStream`, and `handleRecv`; at the worker the two goroutines of
`remoteMasterStream`. `out` and `in` are the channels of one payload between
them and their owners, `hand` the payload that a reader has in hand, `ctx` the
context they share. The coordinators of the job register their callbacks
(`master_job_coordinator.go:73`; the pool, which owns a stream before its job,
registers none and watches gRPC's context: that part is in `WorkerPool`), send,
take and close whenever they like; the pool may close as well. gRPC is external: a FIFO in each direction
that may break and lose any suffix. Its flow-control window is left out, so
`Send` does not block; the job's streams of bounded capacity have that part.

Run `stream`: three payloads in each direction, so that one is in `in`, one in
hand and one on its way, and one failure (a connection that breaks, or a send
that fails). What is taken is a prefix of what was sent, whoever stops first
(`PayloadsInOrder`); a coordinator that registered, even after the disconnect, is
told, unless the reader gave up with a payload in hand (`ToldUnlessBlocked`).
Deadlock is checked: an end that nobody closes can be closed.

Finding (`stream_unnoticed`). The exception is real. When a send of the master
fails, `HandleSendRecv` returns and its deferred `cancelFn` ends the context;
the reader, which waits for room in `recvMsgCh`, may take `<-ctx.Done()`
(`stream.go:84`) and return without `handleDisconnect`. The coordinator is
never told and its job waits at the next barrier. The worker's end does not
have this flaw: there an error of `HandleSendRecv` cancels the job
(`worker.go:90-96`), the model's `ClientErrorTold`.

## 5. The worker pool

`WorkerPool` has one action per critical section or channel operation of
`worker_pool.go`, and the parts of `Master.RunJob` and `JobStream` around it.
Critical sections that cannot block are one step; the one of `ReserveWorkers`
waits for the monitors with the mutex held, and is two (`ReserveChecks`,
`ReserveTakes`), with `held` telling everyone else to wait. The window between
the unlock and the wait of `ReserveWorkers` is its own program point
(`unlocked`). The pool is closed by the goroutine that runs the jobs, after the
last one (`depl/microservices/gravitas/service/master.go:117-126`), so jobs do
not overlap with `Close`.

Run `pool`: four streams, two wanted per job, one disconnect of its own.
Four streams allow two jobs of two workers, with a newcomer during either.
It checks that workers handed to a job are only the job's (`HandedOver`), no
stream is closed twice (`ClosedOnce`), none is forgotten (`NoneForgotten`),
`ReserveWorkers` never sleeps on enough workers (`NoLostWakeup`), it ends once
its context does as long as no monitor is blocked (`ReserveEndsUnblocked`), and
`Close` ends (`CloseEnds`). Deadlock is not checked: a pool at rest is a normal
end. Fairness: goroutines that can go on do; nothing makes jobs start or end,
workers come or go, or timeouts expire.

Finding (`pool_deadlock`). A stream that ends just before its worker is
reserved makes the monitor call `removeWorker`, which waits for the mutex that
`ReserveWorkers` holds while it waits for that monitor. Neither ends, and
cancelling the context does not help, although the comment of `ReserveWorkers`
says that it does.

## 6. Writing in batches

`BatchUpsert` models `batchUpsert` of the CDB graph: a caller that feeds
batches through a one-place channel and then collects, from every inserter, one
entry of `doneCh` or the first error; and the inserters, each of which emits
its error without blocking and then, deferred, its `doneCh` entry. A failing
statement may or may not have been executed. `UpsertScores`
(`scorestore/cdb/cdb.go:78-126`) and `persistScores`
(`depl/microservices/gravitas/service/worker.go:207-264`) have the same shape.

Run `upsert`: three inserters for the six of the code, five batches
(one more than the inserters and the channel hold when all inserters have given
up, so that the caller blocks then), up to three failing. `CallerReturns`, and
`InsertersEnd` once the channel is closed; after nil nothing is in flight, so
the caller may reuse the slice (`NothingInFlight`). Deadlock is not checked: the call
ends. Fairness: each goroutine that can go on does, and statements come back.

`UpsertContract` is the call without its goroutines: rows are written in any order,
statements fail, the call returns once, an error only after a statement failed, nil
after all rows are written or one failed, and after nil nothing is written. The
call implements it (`FulfilsContract`: same variables, the rows are the batches). It
is what one step with an `Outcome` in `TxGraphStore` stands for: there the rows
written before the return are `stored`, those that may still come are `late`.
Two more theorems (`BatchUpsertProofs`): without a failed statement the result is right
(`FaithfulWithoutFailure`, which the contract implies), and `CallGoesOn`, which says with
the guards of the code instead of `ENABLED` why the call cannot hang: `errCh` has
room for the error that the feeding caller needs to see once every inserter has given up.

Finding (`upsert_lost_error`). With a failing inserter the caller can count its
`doneCh` entry and those of all others before it looks at `errCh`, and return
nil although rows are missing; `cdb.go:68-70` relies on the opposite. After an
error during feeding the other inserters are left waiting on a channel that is
never closed; `InsertersEnd` excludes that case by its premise.

## 7. Ingest: block inserter, scanners, transaction graph

`TxGraphStore` is `graph.Graph` as its callers see it: the tables, in memory or
in CockroachDB, there with or without the three write caches. A call is a
record that moves through the program points of its method; which mutexes it
holds follows from where it is (`HoldsBlockC`, `HoldsTxC`, `HoldsWalletC`), so
a lock that is released on no path would show. A bulk statement has an
`Outcome`: all rows, an error with any part of the rows, written at once or
later (`late`), or, as `BatchUpsert` found, nil without all rows (`Loses`). Over
gRPC the client may get an error at any point while the server carries on with
the call (`RPCFails`, `Orphan`). When the process with the graph ends, the caches
are gone, and with an in-memory graph, the default of the `txgraph` microservice,
everything is (`StoreCrash`). In memory, `refreshBlocks` reads the map without its lock
(`memory.go:64`): if that meets an upsert the Go runtime ends the process
(`MapRace`). So does a failed query of the unprocessed blocks, whose nil rows are
closed before the error is looked at (`cdb.go:456-460`): it is one of the failures of
`GraphProcessEnds`. Rows that an inserter has in hand after its call failed are
bounds of the cache's list, not copies: once a later flush has cut that list and it is
refilled, they may turn into rows that were just cached (`late.lists`,
`LateRowReplaced`).

`ScannerPipeline` is a scanner service with its pipeline: source, dispatcher
and fetchers with their tokens, the fifos of the parser, sink, the error channel
and the context of a pass. `place[s][b]` says which goroutine or channel has
block *b*. `Ingest` adds the block inserter, the service group (a service that fails
ends its process, which is started again) and signals. A header may be announced any
number of times (`HeaderArrives`), in any order.

Run `ingest`: two blocks with one transaction each, and eight deployments: in
memory in the monolith, with two workers per stage; in memory in a process of its own;
CockroachDB in the monolith with caches; microservices without caches, with one and
with two scanners; microservices with caches. `known` are the blocks in the table at
first, `heads` the numbers that are announced: with both blocks in it the instances
grow beyond five minutes, so it is the second where a refresh finds the first missing,
or meets it in the table; the first, where it is to be announced again; or none, where
both blocks are known and processed at once. Caches of two
rows, so that each fills and is flushed on the way. One failure: each of the properties
is about what one failure may break, and two calls are in the graph at once without any.
With two scanners there is one block and no failure. 564 thousand states.

- `ProcessedMeansStored`: a block that the table calls processed has its
  transactions and wallets in the tables, whatever was cached, failed, crashed
  or was carried out late. Its premises exclude exactly the three ways in which that is
  not so. `~lost`: rows are gone although their upsert returned nil, by the lost
  error of `batchUpsert` (finding of section 6), or because the process of a remote
  graph ends, with rows in its caches or in its memory, while its clients live on.
  `~late.early`: a leftover inserter read a refilled list of blocks. All of them happen.
  With no premise (`ProcessedIsComplete`) TLC finds the default `txgraph` microservice
  started again while a scanner is between `InsertTxs` and `UpsertBlocks`: the block is
  marked in the empty graph, whatever `graph.go:46-47` says. With `~lost` alone it finds
  the late mark: a flush fails and leaves an inserter behind, a later one succeeds and
  cuts the list, and the inserter stores a mark that was only just cached, before the
  transactions that `cdb.go:69-70` says come first.
- `WalletsFirst`: no bulk statement for transactions meets an unknown wallet.
- `NothingDropped`: a pass that ends without an error and without being cancelled
  marked every block that it was given.
- That no processed block is set back is what `memory.go:104` says of the upsert. On
  CockroachDB it is not so (`cdb.go:375`), and no property says it is: a header that is
  announced again (`block_inserter.go:58-59`) sets the block back without any failure, and
  so do a refresh by a second scanner and a late row. The block is then scanned again,
  which is idempotent.
- `CallsGoOn`, `ShutdownGoesOn`: of the calls inside the graph one can always
  continue, and a service whose context is done can always continue until it
  ends. They are stated with `ENABLED` instead of liveness: a lasso search over
  this instance is out of reach, and what they exclude is that the goroutines of
  a group all wait for each other.

Deadlock is checked too.

## 8. Gravitas: loading, computing, storing

`PartitionRange` is `range.go` as a pure algorithm over addresses of any base
and width: boundaries are computed as numbers and printed without leading zeros,
as `fmt.Sprintf("%x")` does, and compared as strings. `BSPGraph` is the graph
processor with the compute function of `gravitas/compute.go`: compute workers
that take vertices, the pending counter, the two queues of a vertex (a queue is
the number and sum of its messages), relaying. `GraphLoader` is `loadWallets`
with its fetchers and its adder, which monolith and worker node each have a copy
of. `ScoreStore` is both stores, their `Search`, and the frontend's page of it.
`Gravitas` composes them: the monolith's service, or jobs of worker nodes, with a
transaction graph that grows meanwhile.

Run `gravitas`: three wallets, among them the largest address, addresses of two
binary digits, one or two nodes, one or two passes, and one failure: a query
that fails or is cut short, a store call that fails or lies, a worker that
crashes, a job or service that is cancelled, a remote store in memory that starts
again. Two passes show what one leaves to the next; the search is made in the last
pass; the tables grow only while a graph is about to be loaded (later is the same as
before the next pass).

- `ScoresAreBalances`: a stored score is the balance of its wallet over exactly
  the transactions that were loaded for its pass, however messages, aborted
  jobs and crashes fall. Premise: `BoundariesInOrder` (see `LoadedByOwner`). Values
  are integers: what `big.Float` of 53 bits and the ten printed digits of a score
  do to them is left out.
- `ScoresComplete`: these contain every transaction that was there when the
  pass began, unless a result set broke off unnoticed (the iterators of
  CockroachDB never ask `rows.Err()`), or a row of an older load came in between
  (below); `cut` has the passes of both kinds.
- `CompletedPassVisible`: a pass that reported success left no wallet with an older
  score or with none. Excluded by premise: the wallet ff..ff, which is in no
  partition (`range.go:92`), and store calls that lied or came late (`disturbed`).
  A store in memory may be a process of its own, the default of the scorestore
  microservice (`depl/microservices/scorestore/main.go:57`): when it starts again it
  has neither scores nor scorer, whatever passes reported before or report that were
  storing then, and the promise is void (`StoreRestarts`, in `disturbed` too).
- `LoadedByOwner`: a wallet is loaded by the worker to which messages for it are
  relayed: `PartitionExtents` and `PartitionForAddr` agree. Its premise
  (`BoundariesInOrder`) is that the ends of the partitions are in the order of strings,
  as they are for up to as many partitions as the base has digits: 16 in the code,
  which has no such limit. No partition has the wallet ff..ff, so the property says
  nothing of it.
- `TotalCountIsThere`: a search never announces more rows than there are to be read.
  The page may still be shorter than it could be, with no error: the result set may
  break off, and the iterator (`scorestore/cdb/iterator.go:22-24`) never asks
  `rows.Err()` (`ResultsBreakOff`).
- `PassGoesOn`: loading, supersteps and barriers never all wait for each other
  (`ENABLED`, for the reason above), while no stray message is under way. The relay
  here is a set without a limit, which never blocks its sender: what full streams do
  is a matter of the job, where the deadlock check of `job_three` shows that messages
  which a graph takes block nobody for good, and `job_stray_deadlock` that stray ones may
  block everyone. For
  safety the limit is no matter: a step that would block need not be taken.

Ends out of order. With four workers and base 3 the ends print as 2, 11, 20 and 22, so
worker 0 loads [00, 2), the address 11 in it, while `PartitionForAddr` finds worker 2,
which loads it as well: TLC evaluates this as the assumption `UnsortedEnds` of
`MCGravitas`. In the program it takes more than 16 workers, as
`dbspgraph/integration_test.go:51` has; that "our partition ranges are already sorted"
(`range.go:86-87`) is then false, two workers load the wallet, and messages from it are
counted twice.

Rows of an older load. `loadWallets` cancels its context when it fails and returns
without waiting: a fetcher that has its row may still send it, and `addVertices` may
still add it (`left`, `LateRowAdded`). If that is during the next load, after the newer
row of the same wallet, the graph has other transactions for it than this load fetched.
The run has these rows, so the balances hold with them, over what is in the graph then.
A leftover fetcher takes no further address here, and its row comes during the next load
or never; two goroutines that write the map of vertices at once, which may end the
process, are a crash of the worker.

The last address. A job with the wallet ff..ff in the table succeeds and leaves it without
a score, as `range.go:92` has it in no partition, although the range is said to use "the
full wallet address value space" (`range.go:18-19`). MCGravitas has that wallet, and
the properties about completeness say which wallet they leave out.

Deadlock is not checked: when the passes are over the system rests.

Noticed while reading, and abstracted by the models: conversions of values are the
identity, so what is said of balances is said of integers, while the program relays
`big.Float` of 53 bits and stores scores with the ten significant digits of
`big.Float.String` (`scorestore/cdb/cdb.go:62`, `scorestoreapi/client.go:35`); both
stores ignore the offset of a search; nothing in production calls
`UpsertScorer`; after an abort the store mixes the scores of two passes, which
no comment denies (`master_job_coordinator.go:152`).

## 9. Proved, and only model-checked

The theorems hold for every value of the constants that satisfies the named
assumptions: `WorkersAssumption` (finitely many workers, at least one) and
`BoundsAssumption` for the job, which is then about any number of workers, any
length of the streams, any number of supersteps, relayed messages and failures;
`InsertersAssumption` and its like for the batches, `StreamAssumption` for a
stream (any number of payloads and failures); `ChainAssumption`,
`CacheAssumption`, `ClientsAssumption`, `DeploymentsAssumption` and
`ErrCapAssumption` for ingest (any chain, any sizes of the caches and of `errCh`,
and any deployments, with any number of scanners, stage workers and failures);
none but its types for the pool. For Gravitas, which is then about any number of
nodes, wallets, transactions, passes, fetchers, compute workers and failures, and
addresses of any base and width: `DeploymentsAssumption` (what is configured makes
sense, and nodes, wallets and transactions are finitely many), `WalletsAssumption`
and `TxAssumption` (a wallet has an address; a transaction has wallets and
non-negative value and fee), `TablesAssumption` (the foreign key of the transactions
that are there at the start) and `NoScoreAssumption` (the value that stands for no
score is none). That the ends of partitions are in order is no assumption but a
premise, `BoundariesInOrder`, of what is said of owners and values. TLC evaluates all of them in the
runs. Each proof is one of an inductive invariant: a lemma says that `Init`
establishes it, one lemma per process that its steps keep it, and a theorem
combines them.

| Module | Theorem | Statement, and the argument |
|---|---|---|
| `DistributedJobProofs` | `TypeCorrect` | `TypeOK` of the job, one lemma per process; in particular a goroutine that handles a payload handles one of its kind |
| `DistributedJobProofs` | `CommitInvariant`, `CommitTotal` | `CommitInv` and `CommitIsTotal`. The property alone is not inductive: that scores are stored is known to a worker, then travels with its `PERSISTED_RESULTS` step over stream and handler to the barrier (`OwnPersisted`), and back with the replies (`AllKnownPersisted`). That the barrier lets go only when all are there needs its loop counter against the set of joined workers (`BarrierBooks`) |
| `DistributedJobProofs` | `LockInvariant`, `BarrierImplemented` | The job implements `RoundBarrier` (`LockStep`). `TokenBooks`: a worker's step, or the reply to it, is in one place at a time, of outgoing stream, handler, barrier, returning stream and receiver. `RoundBooks`: a step on its way asks for the round the master is at, and a reply is evidence that every worker has entered that round. A step of the job is then `Arrive`, `Pass` or a stutter |
| `DistributedJobProofs` | `AgreeInvariant`, `RoundsAgree` | `AgreeOnRounds`. Workers of the same round *head for* the same barrier, and the replies on their way to them carry the same value; who is a round ahead heads for where its reply will send the other (`WorkersAgree`, with `After`). The master is related to each worker likewise (`MasterAgrees`). Rests on `LockInv` |
| `DistributedJobProofs` | `SumInvariant`, `SumsAgree` | `AggregatorsAgree`, by `SumInv` (section 3): a superstep's sum is the sum before it plus the number of workers that added to it, which follows from cardinalities of sets of workers |
| `MessageProofs` | `RelayInvariant`, `RelaysInStep` | `RelayedInStep`, by `RelayInv`: where a relayed message is, the step of its sender and the reply for its receiver are behind it |
| `MessageProofs` | `InboxInvariant`, `MessagesArrive` | `NoMessageMissed`, by `InboxInv`: per worker and superstep, queued plus in flight is sent, or the worker is doomed. `Copies*`, `Sent*` and `Taken*` are lemmas on how the number of copies of a message in a family of streams changes |
| `StrayProofs` | `StrayInvariant`, `StraysAborted` | `StraysAbort`, by `StrayInv`: a stray message is found, lost with a worker that cannot go on, or the reason of an abort that comes in time |
| `WorkerPoolProofs` | `PoolInvariant` and five that follow | `TypeOK`, `HandedOver`, `ClosedOnce`, `NoneForgotten`, `NoLostWakeup`: all safety properties of the pool. `MonitorBooks` relates a stream's monitor to its context and closes, `PlaceBooks` says where a worker may be |
| `BatchUpsertProofs` | `UpsertInvariant` and five that follow | `TypeOK`, `NothingInFlight`, `FaithfulWithoutFailure`, `CallGoesOn` and the refinement `FulfilsContract`: entries of `doneCh` and those the caller took count the inserters that ended (`Counted`); without a failure each batch that was fed is in the channel, with an inserter or stored (`CleanBooks`); while the caller feeds, whoever left has left an error in `errCh` (`FeedBooks`). A step of the call is then a row written, a statement that failed or a return that the contract allows, or invisible |
| `WorkerStreamProofs` | `StreamInvariant` and three that follow | `TypeOK`, `PayloadsInOrder`, `ToldUnlessBlocked`: all safety properties of a stream. `Chain` describes one direction as a row of queues, each counting on from the last: what the owner took, `recvMsgCh`, the reader's hand, the connection, `sendMsgCh`; nothing is missing between them before the stream is over, and afterwards only at the end. `ToldBooks` says why a context is done or a reader ended |
| `GravitasProofs` | `GravitasInvariant`, and one for each safety property of the run: `TypesCorrect`, `BalancesStored`, `CompletelyStored`, `CompletedVisible`, `OwnersLoad`, `CountsAreThere` | `TypeOK`, `ScoresAreBalances`, `ScoresComplete`, `CompletedPassVisible`, `LoadedByOwner`, `TotalCountIsThere`; and `PassesGoOn`, what can be said of `PassGoesOn` without `ENABLED`. See below |
| `IngestProofs` | `IngestInvariant` and seven more | `TypeOK`, `NothingDropped`, `ProcessedMeansStored` and `WalletsFirst`: all of its properties but the `ENABLED` ones, and of these what can be said without: `CachesLockedOnce`, `LocksInOrder`, `ShutdownsGoOn`. See below |

`CommitInv` is an invariant of the run `job_three`. The others of the job, up to
`StrayInv`, `IngestInv`, `UnderWay`, `GravitasInv` and `ReasonBooks` hold on the instances of `job_faults`,
`job_three`, `ingest` and `gravitas` too; what follows from them (`LockStep`, `AgreeOnRounds`,
`AggregatorsAgree`, `RelayedInStep`, `NoMessageMissed`, `StraysAbort`, the properties
of ingest and of Gravitas) is what these runs check.

Argument for ingest. `IngestInv` (module `IngestInvariants`) has six parts.
`ServiceBooks`: who has a call in the graph, and that a payload in a parser's hand
names the rows of that call. `Shaped`: the program points of each method.
`FlowBooks`: a stage that ended left nothing in the channel before it, and
without an error none ended before its predecessor; no more payloads are with parsers than
there are parsers alive. With a pass at its end that gives `NothingDropped`.
`TableBooks`: foreign keys. `AcceptedBooks` is the one that `ProcessedMeansStored` and
`WalletsFirst` rest on: neither is inductive, because with caches a transaction
may be marked long before it, or its wallets, reach a table. So it says where each row
that something relies on is: *accepted*, in the table or in the cache, before
whoever relies on it was accepted (`Backed`, per call); and for a call that flushes,
which caches it has emptied and still holds the mutex of (`Emptied`), so that nobody
fills them again before the table that relies on them is written. The premise
`~lost` of the two properties is needed exactly where rows go: a bulk
statement that returned nil without all rows, or a crash of the graph's process
that its clients survive. `MarksBacked`, for the marks in the table and in
the hands of leftover inserters, has `~late.early` as its premise too, which is all that
`LateRowReplaced` can break: a wallet or a transaction that such an inserter stores early
was accepted, and foreign keys keep it in order.

Mutexes of the caches: no two calls hold the same one, also when a client gives up and the
server carries on with its call (`OneHolder`, inductive with `IngestInv`), and
the calls inside the graph do not all wait for one another (`NoRing`): who holds the
wallets' mutex waits for none, who holds another waits only for a later one. This is
`CallsGoOn` without `ENABLED`; that a call which waits for no mutex has a step is
left to TLC.

Shutdown (`ShutdownsGoOn`, that is `NoHang`). A service that is to end is at a place
where it looks at its context or has returned from a call, or a call in the graph waits
for no other. `UnderWay` is needed for it: who waits for a call has made one, which is then
in the graph unless it has returned. For a cancelled pass, that waits in many
places, the argument follows its channels (`PassDrains`): if no goroutine goes on, the
source has ended and no token is out, so the dispatcher has; a payload can then
only be with a parser or the sink whose call is under way, and without
such a payload no parser is left, the sink has ended, `errCh` is empty, and so the pass is
over, which is a step again. This is `ShutdownGoesOn` without `ENABLED`.

Argument for Gravitas. `GravitasInv` (module `GravitasInvariants`) is proved in the order
in which its parts rest on each other, and each part (1 to 6) is a theorem; 7 rests on them.

1. `Control` (`ControlInvariant`): types; where each node, its graph and the job may be
   at the same time (`PlaceBooks`); per node, that the wallets counted by
   `loadWallets` are those on their way through its channels plus one per fetcher
   that failed (`LoadBooks`), that the pool's pending counter is the number of
   vertices fed or in hand (`StepBooks`), and whose transactions a vertex has
   (`VertexBooks`). With what `PartitionForAddr` finds by binary search
   (`PartitionSound`: the search is a function on pairs, and its range shrinks), a
   wallet within a node's extents has that node as owner if the ends are in order:
   `LoadedByOwner`.
2. `SearchBooks` (`CountsAreThere`): a table whose rows were counted does not shrink before
   they are read; it shrinks only with the process, and only in memory, where a
   search is one critical section.
3. `TableBooks` and `LedgerBooks` (`LedgersComplete`): what a pass has to load is on its
   way with a fetcher, added, or in the ledger (`LoadComplete`); `loadWallets` returns
   without an error only when as many vertices were seen as wallets were counted, and
   a set with that many is all of them.
4. `ComputeBooks` (`ComputationKept`), for ends in order: until a graph fails or is reset,
   a vertex is, by its
   superstep, before its sends, between them and its sum, or after it
   (`ValueBooks`), and its queue holds exactly the messages that were sent to it and are
   not in the relay. Graphs are one superstep apart only across the barrier, and never
   once a graph stopped (`BarrierBooks`). After the second superstep there are no
   unsent and no relayed messages, so the sum of the queue is all that the wallet
   earned; no vertex is active, so the third is the last (`StepBound`). When all
   stopped, each value is a balance, and stays one while the job stores it
   (`FinalBooks`).
5. `RowBooks` (`RowsKept`): each score, stored, in a call, or on its way after a call that
   failed, is the balance over the ledger of its pass (for ends in order), and that ledger is closed:
   ledgers grow only while graphs are loaded, and no score is of a pass that
   still loads. This gives `ScoresAreBalances` and `ScoresComplete` across passes, aborts,
   crashes and late rows.
6. `VisibleBooks` (`VisibleKept`): while a node stores, each wallet that is due has its score
   or its row in the call; before it says so, its score. A wallet's owner (`OwnerThere`)
   therefore has stored it when a pass completes, and later rows are of later passes.
7. `NoStall` (`PassesGoOn`): while a pass is under way, some node or the master is at a
   guard that holds. It follows from `Control` and `ComputeBooks` with `ReasonBooks`: a
   fetcher that went left its error in `errCh`, and the graph of a worker fails only when
   its context is done. In a load, if no thread goes on, then from the last channel to
   the first each is empty and all fetchers are there, so what was counted is what was
   added, and `loadWallets` returns (`LoadsGoOn`). In a superstep a compute worker is free
   or has a vertex (`StepGoesOn`). Between the graphs of a job (`SomeGraphGoesOn`) those
   that are a superstep behind, or all at the same barrier, pass it, as soon as the relay
   to them is empty, and a message in the relay is delivered, none being stray (`NoStrays`).
   An aborted job ends when its last worker is gone. This is `PassGoesOn` without `ENABLED`,
   for ends in order.

Sums are the folds of the community modules. What a fold over a finite set computes,
whichever element it takes last (`FoldExists`, `FoldUnique`, `SumAdd`), is proved by
induction on the size of its subsets. The prover cannot instantiate an
induction theorem, so the induction is about a set of numbers (`NatSets`, from the
library's well-foundedness of `<`); the binary search likewise (`SearchExists`).

Only model-checked:

- liveness (`EveryoneReturns`, `FaultFreeJobSucceeds`, `ReserveEndsUnblocked`,
  `CloseEnds`, `CallerReturns`, `InsertersEnd`) and whatever uses `ENABLED`
  (`CallsGoOn`, `ShutdownGoesOn`, `PassGoesOn`): the prover has no rules for
  `ENABLED` and for fairness that these would need. `CallGoesOn`, `LocksInOrder`,
  `ShutdownsGoOn` and `PassesGoOn` are the part of them that needs neither, for the batches,
  the mutexes, the ends of services and the passes.

## 10. Not modelled

The encoding of values on the wire and the precision of `big.Float`; logging and
metrics; dialling, listening, flags, DNS, HTTP and templates; deployment files;
`pipeline.Broadcast`, `BroadcastToNeighbors` and `FindWallet`, which only tests
call. The compare-and-swap loops of the aggregators are single steps, since the
executor calls `Set` and `Delta` only between supersteps. The receiver of a worker
that still delivers to a graph which `AbortJob` resets is a hazard without a property
(see its note in `PROJECT.json`). A call to a remote score store that breaks off is
modelled for `UpsertScores` alone: a search that fails changes nothing but the page. Liveness is checked for the job, the pool and the
batches; for ingest and Gravitas only in the `ENABLED` form.

## 11. Running

    tlc -workers 2 -config job_faults.cfg MCDistributedJob
    tlc -workers 2 -config pool.cfg MCWorkerPool
    tlc -workers 2 -config upsert.cfg MCBatchUpsert
    tlc -workers 2 -config ingest.cfg MCIngest
    tlc -workers 2 -config gravitas.cfg MCGravitas
    tlc -workers 2 -config stream.cfg MCWorkerStream

The runs that show a violation are named after their cfg: `job_stray_deadlock`
(`MCDistributedJob`), `pool_deadlock` (`MCWorkerPool`), `stream_unnoticed`
(`MCWorkerStream`) and `upsert_lost_error` (`MCBatchUpsert`). The proofs:

    tlapm BatchUpsertProofs.tla
    tlapm DistributedJobProofs.tla
    tlapm GravitasProofs.tla
    tlapm IngestProofs.tla
    tlapm MessageProofs.tla
    tlapm StrayProofs.tla
    tlapm WorkerPoolProofs.tla
    tlapm WorkerStreamProofs.tla

Each `.cfg` names its module in `PROJECT.json` under `runs`; `mutants` there
gives, for every property, a change of one definition under which TLC finds the
property violated (the operators with a comment "Mutant:").
