------------------------------ MODULE Gravitas ------------------------------
(***************************************************************************)
(* The computation of scores from the transaction graph to the score       *)
(* store: in the monolith, as a service that makes pass after pass and     *)
(* ends with its process, or as jobs of a master and its workers, each     *)
(* with the graph of a partition.  What the coordinators of a job do       *)
(* between them is in DistributedJob; here a job has the barriers of       *)
(* RoundBarrier and may be aborted at any time.                            *)
(***************************************************************************)
EXTENDS GraphLoader, ScoreStore

VARIABLES
  at,        \* where each node is
  ctx,       \* the context of the monolith's service
  job,       \* "off", "on", or "executed": all workers passed that barrier
  aborted,   \* the job's context is cancelled
  since,     \* history: the tables when each pass began,
  ledger,    \* the transactions that were loaded for it,
  completed  \* and the passes that reported success

passVars == <<at, ctx, job, aborted, since, ledger, completed>>
vars == <<dep, pass, failures, graphVars, tx, wallet, loadVars, scoreVars, passVars>>

deployment == <<dep, failures>>
tables == <<tx, wallet>>
history == <<since, ledger, completed>>

Passes == 1 .. dep.passes

Init ==
  /\ DeploymentInit /\ GraphInit /\ LoadInit /\ ScoreInit
  /\ tx = dep.txs /\ wallet = dep.wallets
  /\ at = [n \in Nodes |-> "idle"]
  /\ ctx = "live" /\ job = "off" /\ aborted = FALSE
  /\ since = [p \in Passes |-> [txs |-> {}, wallets |-> {}]]
  /\ ledger = [p \in Passes |-> {}]
  /\ completed = {}

Goto(n, to) == at' = [at EXCEPT ![n] = to]

PassBegins ==
  /\ pass < dep.passes
  /\ pass' = pass + 1
  /\ since' = [since EXCEPT ![pass + 1] = [txs |-> tx, wallets |-> wallet]]
  /\ UNCHANGED <<ledger, completed>>

\* The scanner goes on.  Bound: only while a graph is about to be loaded; what
\* comes later is the same for this pass as what comes before the next one.
GraphGrows ==
  /\ dep.grows /\ \E n \in dep.nodes : at[n] \in {"start", "load"}
  /\ \/ \E w \in Wallets \ wallet : wallet' = wallet \cup {w} /\ UNCHANGED tx
     \/ \E t \in Txs \ tx :
          /\ {TxFrom[t], TxTo[t]} \subseteq wallet
          /\ tx' = tx \cup {t} /\ UNCHANGED wallet
  /\ UNCHANGED <<deployment, pass, graphVars, loadVars, scoreVars, passVars>>

\* The executor of a graph that is loaded.
Executor(n) ==
  /\ NewExecutor(n)
  /\ ledger' = [ledger EXCEPT ![pass] = @ \cup UNION {vertex[n][w].txs : w \in Wallets}]
  /\ Goto(n, "run")
  /\ UNCHANGED <<since, completed>>

\* persistScores: every vertex with its value.
ScoresAll(n) ==
  toStore' = [toStore EXCEPT ![n] =
    {[wallet |-> w, value |-> [pass |-> pass, value |-> vertex[n][w].value]] : w \in VerticesOf(n)}]

-----------------------------------------------------------------------------
(***************************************************************************)
(* The monolith: updateGraphScores.                                        *)
(***************************************************************************)

Is(n, a) == n \in dep.nodes /\ at[n] = a
Mine(n, a) == Monolith /\ Is(n, a)

MonolithPassBegins(n) ==
  /\ Mine(n, "idle")
  /\ PassBegins /\ LoadBegins(n) /\ Goto(n, "load")
  /\ UNCHANGED <<deployment, graphVars, tables, scoreVars, ctx, job, aborted>>

MonolithLoads(n) ==
  /\ Mine(n, "load")
  /\ \/ (LoadWallets(n) \/ FetchTxs(n)) /\ UNCHANGED vertex
     \/ AddVertices(n)
     \/ ctx = "done" /\ LoadCancelled(n) /\ UNCHANGED vertex
  /\ UNCHANGED <<deployment, pass, tables, scoreVars, passVars,
                 superstep, run, feed, busy, pending, activeIn, stepErr, counted, relay>>

\* After a load that was cut short by the context the graph keeps its vertices.
MonolithLoaded(n) ==
  /\ Mine(n, "load") /\ load[n].at \in {"ok", "cancelled"}
  /\ IF ctx = "done"
       THEN Goto(n, "idle") /\ UNCHANGED <<graphVars, history>>
       ELSE Executor(n)
  /\ load' = [load EXCEPT ![n] = NoLoad]
  /\ UNCHANGED <<deployment, pass, tables, where, got, cut, left, scoreVars, ctx, job, aborted>>

MonolithStores(n) ==
  /\ Mine(n, "run") /\ run[n] = "stop"
  /\ ScoresAll(n) /\ Goto(n, "store")
  /\ UNCHANGED <<deployment, pass, graphVars, tables, loadVars, scorer, score, lateScores,
                 disturbed, search, ctx, job, aborted, history>>

MonolithPassCompletes(n) ==
  /\ Mine(n, "store") /\ toStore[n] = {}
  /\ Reset(n) /\ Goto(n, "idle")
  /\ completed' = completed \cup {pass}
  /\ UNCHANGED <<deployment, pass, tables, loadVars, scoreVars, ctx, job, aborted, since, ledger,
                 feed, busy, pending, activeIn, stepErr, relay>>

\* The error of a pass is the service's, and ends all services.
MonolithFails(n) ==
  /\ \/ Mine(n, "load") /\ load[n].at = "err"
     \/ Mine(n, "run") /\ run[n] = "err"
     \/ Mine(n, "failed")
  /\ Goto(n, "returned") /\ ctx' = "done"
  /\ UNCHANGED <<deployment, pass, graphVars, tables, loadVars, scoreVars, job, aborted, history>>

Signal ==
  /\ Monolith /\ ctx = "live" /\ Fail
  /\ ctx' = "done"
  /\ UNCHANGED <<dep, pass, graphVars, tables, loadVars, scoreVars, at, job, aborted, history>>

ServiceStops(n) ==
  /\ Mine(n, "idle") /\ ctx = "done"
  /\ Goto(n, "returned")
  /\ UNCHANGED <<deployment, pass, graphVars, tables, loadVars, scoreVars, ctx, job, aborted, history>>

\* It is started again, with an empty graph, and an empty store in memory.
ProcessEnds(n) ==
  /\ Mine(n, "returned")
  /\ Reset(n) /\ Goto(n, "idle")
  /\ ctx' = "live"
  /\ load' = [load EXCEPT ![n] = NoLoad] /\ left' = [left EXCEPT ![n] = {}]
  /\ IF Cdb
       THEN UNCHANGED <<score, scorer, search, completed>>
       ELSE /\ score' = [w \in Wallets |-> NoScore] /\ scorer' = FALSE
            /\ search' = [search EXCEPT !.at = "shown", !.shown = 0]
            /\ completed' = {}
  /\ UNCHANGED <<deployment, pass, tables, where, got, cut, toStore, lateScores, disturbed,
                 job, aborted, since, ledger, feed, busy, pending, activeIn, stepErr, relay>>

-----------------------------------------------------------------------------
(***************************************************************************)
(* A job: the runner of a worker.                                          *)
(***************************************************************************)

Working(n, a) == ~Monolith /\ Is(n, a)

JobBegins ==
  /\ ~Monolith /\ job = "off"
  /\ PassBegins
  /\ job' = "on"
  /\ at' = [n \in Nodes |-> IF n \in dep.nodes THEN "start" ELSE at[n]]
  /\ UNCHANGED <<deployment, graphVars, tables, loadVars, scoreVars, ctx, aborted>>

StartJob(n) ==
  /\ Working(n, "start")
  /\ Reset(n) /\ LoadBegins(n) /\ Goto(n, "load")
  /\ UNCHANGED <<deployment, pass, tables, scoreVars, ctx, job, aborted, history,
                 feed, busy, pending, activeIn, stepErr, relay>>

WorkerLoads(n, How(_)) ==
  /\ Working(n, "load") /\ How(n)
  /\ UNCHANGED <<deployment, pass, tables, scoreVars, passVars,
                 superstep, run, feed, busy, pending, activeIn, stepErr, counted, relay>>

WorkerLoadsWallets(n) == WorkerLoads(n, LoadWallets) /\ UNCHANGED vertex
WorkerFetchesTxs(n) == WorkerLoads(n, FetchTxs) /\ UNCHANGED vertex
WorkerAddsVertices(n) == WorkerLoads(n, AddVertices)

\* Nothing interrupts the load; the executor then notices an aborted job.
WorkerLoaded(n) ==
  /\ Working(n, "load") /\ load[n].at = "ok"
  /\ Executor(n)
  /\ load' = [load EXCEPT ![n] = NoLoad]
  /\ UNCHANGED <<deployment, pass, tables, where, got, cut, left, scoreVars, ctx, job, aborted>>

\* The barrier EXECUTED_GRAPH.
GraphExecuted ==
  /\ job = "on" /\ ~aborted
  /\ \A n \in dep.nodes : at[n] = "run" /\ run[n] = "stop"
  /\ job' = "executed"
  /\ UNCHANGED <<deployment, pass, graphVars, tables, loadVars, scoreVars, at, ctx, aborted, history>>

CompleteJob(n) ==
  /\ Working(n, "run") /\ job = "executed"
  /\ ScoresAll(n) /\ Goto(n, "store")
  /\ UNCHANGED <<deployment, pass, graphVars, tables, loadVars, scorer, score, lateScores,
                 disturbed, search, ctx, job, aborted, history>>

ScoresPersisted(n) ==
  /\ Working(n, "store") /\ toStore[n] = {}
  /\ Reset(n) /\ Goto(n, "persisted")
  /\ UNCHANGED <<deployment, pass, tables, loadVars, scoreVars, ctx, job, aborted, history,
                 feed, busy, pending, activeIn, stepErr, relay>>

\* An error of the runner, or of the executor, ends the stream of the worker; then
\* the master cancels the job.
WorkerFails(n) ==
  /\ \/ Working(n, "load") /\ load[n].at = "err"
     \/ Working(n, "failed")
  /\ Reset(n) /\ Goto(n, "gone")
  /\ load' = [load EXCEPT ![n] = NoLoad]
  /\ aborted' = TRUE
  /\ UNCHANGED <<deployment, pass, tables, where, got, cut, left, scoreVars, ctx, job, history,
                 feed, busy, pending, activeIn, stepErr, relay>>

\* A step that began is finished; so is a call of the score store.
AbortJob(n) ==
  /\ aborted
  /\ \/ Working(n, "start") \/ Working(n, "persisted")
     \/ Working(n, "run") /\ run[n] # "step"
  /\ Reset(n) /\ Goto(n, "gone")
  /\ UNCHANGED <<deployment, pass, tables, loadVars, scoreVars, ctx, job, aborted, history,
                 feed, busy, pending, activeIn, stepErr, relay>>

\* A connection is lost, or master or a worker is told to stop.
JobCancelled ==
  /\ job # "off" /\ ~aborted /\ Fail
  /\ aborted' = TRUE
  /\ UNCHANGED <<dep, pass, graphVars, tables, loadVars, scoreVars, at, ctx, job, history>>

\* The abort by a stray message, which may never come.
Bounced(n, t) ==
  /\ ~Monolith /\ RelayBounces(n, t)
  /\ relay' = relay \ {<<n, t>>}
  /\ aborted' = TRUE
  /\ UNCHANGED <<deployment, pass, tables, loadVars, scoreVars, at, ctx, job, history,
                 vertex, superstep, run, feed, busy, pending, activeIn, stepErr, counted>>

\* The process of a worker ends, with the call that it was in, and is restarted.
WorkerCrashes(n) ==
  /\ ~Monolith /\ at[n] \in {"load", "run", "store", "persisted"} /\ Fail
  /\ Reset(n) /\ Goto(n, "gone")
  /\ load' = [load EXCEPT ![n] = NoLoad] /\ NobodyIn(n) /\ left' = [left EXCEPT ![n] = {}]
  /\ feed' = [feed EXCEPT ![n] = {}] /\ busy' = [busy EXCEPT ![n] = {}]
  /\ pending' = [pending EXCEPT ![n] = 0] /\ stepErr' = [stepErr EXCEPT ![n] = FALSE]
  /\ toStore' = [toStore EXCEPT ![n] = {}]
  /\ lateScores' = IF Cdb THEN lateScores \cup toStore[n] ELSE lateScores
  /\ aborted' = TRUE
  /\ UNCHANGED <<dep, pass, tables, got, cut, scorer, score, disturbed, search, ctx, job, history,
                 activeIn, relay>>

JobEnds ==
  /\ job # "off"
  /\ \A n \in dep.nodes : at[n] = IF aborted THEN "gone" ELSE "persisted"
  /\ job' = "off" /\ aborted' = FALSE /\ relay' = {}
  /\ at' = [n \in Nodes |-> "idle"]
  /\ completed' = IF aborted THEN completed ELSE completed \cup {pass}
  /\ UNCHANGED <<deployment, pass, tables, loadVars, scoreVars, ctx, since, ledger,
                 vertex, superstep, run, feed, busy, pending, activeIn, stepErr, counted>>

-----------------------------------------------------------------------------
LoadGoesWrong(n) ==
  /\ Is(n, "load") /\ Fail /\ LoadFaults(n)
  /\ UNCHANGED <<dep, pass, graphVars, tables, scoreVars, passVars>>

LateRow(n) ==
  /\ Is(n, "load")
  /\ \E r \in left[n] : LateRowAdded(n, r)
  /\ UNCHANGED <<deployment, pass, tables, scoreVars, passVars,
                 superstep, run, feed, busy, pending, activeIn, stepErr, counted, relay>>

GraphRuns(n) ==
  /\ Is(n, "run")
  /\ \/ GraphStep(n)
     \/ (IF Monolith THEN ctx = "done" ELSE aborted) /\ StepContextDone(n)
  /\ UNCHANGED <<deployment, pass, tables, loadVars, scoreVars, passVars>>

StoresScores(n) ==
  /\ Is(n, "store")
  /\ \/ MemoryUpsertScores(n)
     \/ \E r \in toStore[n] : BulkUpsertScores(n, r)
  /\ UNCHANGED <<deployment, pass, graphVars, tables, loadVars, passVars>>

\* Mutant: the error of the store is ignored.
StoreErrorIgnored(n) ==
  /\ Is(n, "store")
  /\ \/ UnknownScorer(n) /\ UNCHANGED failures
     \/ Fail /\ UpsertScoresFails(n)
  /\ UNCHANGED <<dep, pass, graphVars, tables, loadVars, passVars>>

StoreFails(n) ==
  /\ Is(n, "store")
  /\ \/ UnknownScorer(n) /\ UNCHANGED failures
     \/ Fail /\ UpsertScoresFails(n)
  /\ Goto(n, "failed")
  /\ UNCHANGED <<dep, pass, graphVars, tables, loadVars, ctx, job, aborted, history>>

StoreLosesError(n) ==
  /\ Is(n, "store") /\ Fail /\ UpsertScoresLosesError(n)
  /\ UNCHANGED <<dep, pass, graphVars, tables, loadVars, passVars>>

OtherStoreCalls ==
  /\ \/ (UpsertScorer \/ Searches \/ \E r \in lateScores : LateScoreStored(r)) /\ UNCHANGED failures
     \/ Fail /\ StoreRestarts
  /\ UNCHANGED <<dep, pass, graphVars, tables, loadVars, passVars>>

\* The steps of the program itself on a node.
NodeStep(n) ==
  \/ MonolithPassBegins(n) \/ MonolithLoads(n) \/ MonolithLoaded(n) \/ MonolithStores(n)
  \/ MonolithPassCompletes(n) \/ MonolithFails(n) \/ ServiceStops(n) \/ ProcessEnds(n)
  \/ StartJob(n) \/ WorkerLoadsWallets(n) \/ WorkerFetchesTxs(n) \/ WorkerAddsVertices(n)
  \/ WorkerLoaded(n) \/ CompleteJob(n) \/ ScoresPersisted(n) \/ WorkerFails(n) \/ AbortJob(n)
  \/ GraphRuns(n) \/ StoresScores(n) \/ StoreFails(n)
  \/ \E t \in Txs : Bounced(n, t)

JobStep == JobBegins \/ GraphExecuted \/ JobEnds \/ \E t \in Txs : Bounced(Nobody, t)

Faults ==
  \/ Signal \/ JobCancelled
  \/ \E n \in Nodes : LoadGoesWrong(n) \/ LateRow(n) \/ WorkerCrashes(n) \/ StoreLosesError(n)

Next ==
  \/ \E n \in Nodes : NodeStep(n)
  \/ JobStep \/ Faults \/ GraphGrows \/ OtherStoreCalls

Spec == Init /\ [][Next]_vars

-----------------------------------------------------------------------------
TypeOK ==
  /\ DeploymentTypeOK /\ GraphTypeOK /\ LoadTypeOK
  /\ at \in [Nodes -> {"idle", "start", "load", "run", "store", "persisted", "failed", "gone",
                       "returned"}]
  /\ ctx \in {"live", "done"} /\ job \in {"off", "on", "executed"} /\ aborted \in BOOLEAN
  /\ since \in [Passes -> [txs : SUBSET Txs, wallets : SUBSET Wallets]]
  /\ ledger \in [Passes -> SUBSET Txs] /\ completed \subseteq Passes
  /\ scorer \in BOOLEAN /\ disturbed \in BOOLEAN
  /\ \A w \in Scored : score[w].pass \in 1 .. pass /\ score[w].value \in Int

\* A stored score is the balance of the wallet over exactly the transactions that
\* were loaded for its pass: none is missed or counted twice, no value is left
\* from another pass, however messages, aborted jobs and crashes fall (compute.go).
\* Premise: no wallet is loaded twice, the ends of the partitions being in order.
Balance(w, T) ==
  MapThenSumSet(LAMBDA t : TxValue[t], {t \in T : TxTo[t] = w})
    - Cost({t \in T : TxFrom[t] = w})

ScoresAreBalances == BoundariesInOrder =>
  \A w \in Scored : score[w].value = Balance(w, ledger[score[w].pass])

\* What was in the tables when a pass began is in its scores, unless a result set broke
\* off unnoticed or a row of an older load came in between (both are in cut), or the
\* sender is the wallet ff..f (worker.go:272-391).
ScoresComplete ==
  \A w \in Scored : score[w].pass \notin cut =>
    {t \in since[score[w].pass].txs : Addr[TxFrom[t]] # MaxAddr} \subseteq ledger[score[w].pass]

\* A pass that reported success left no wallet with an older score, nor without
\* one: all but the wallet ff..f, unless a store call lied or came late, or a store in
\* memory lost all that it had.
CompletedPassVisible ==
  ~disturbed =>
    \A p \in completed \ cut : \A w \in since[p].wallets :
      Addr[w] # MaxAddr => score[w] # NoScore /\ score[w].pass >= p

FoundWhereLoaded == \A n \in Nodes : \A w \in VerticesOf(n) : OwnerOf(w) = n

\* A wallet is loaded only by the worker that messages for it are relayed to:
\* PartitionExtents and PartitionForAddr agree on the partition of each wallet, at both
\* of its boundaries, through loads, resets and crashes (range.go:72-97).  Premise: the
\* ends of the partitions are sorted, which they are for up to Base workers.
LoadedByOwner == BoundariesInOrder => FoundWhereLoaded

\* The frontend never announces more results than there are rows to be read, although
\* it counts them first and passes go on storing (scorestore/cdb/cdb.go:153-177).
TotalCountIsThere == search.at = "read" => search.total <= search.rows

\* A pass goes on until it ends, by steps of the program alone: the threads of the
\* load, of the supersteps and of the barriers never all wait for one another (worker.go,
\* bspgraph/graph.go:194-253).  Premise: no stray message, which may block the job.
NoStrays == \A t \in Txs : \A n \in Nodes \cup {Nobody} : ~RelayBounces(n, t)

PassGoesOn ==
  NoStrays /\ (\E n \in dep.nodes : at[n] \notin {"idle", "returned"}) =>
    (\E n \in dep.nodes : ENABLED NodeStep(n)) \/ ENABLED JobStep
=============================================================================
