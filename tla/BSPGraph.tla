------------------------------ MODULE BSPGraph ------------------------------
(***************************************************************************)
(* The graph processor with the Gravitas computation: one graph in the     *)
(* monolith, one per worker in a job.  Each graph runs its supersteps with *)
(* a pool of workers; between graphs the step barrier and the relaying     *)
(* that DistributedJob has in detail appear as what it shows of them:      *)
(* nobody leaves a barrier before all entered it (LockStep), and a message *)
(* arrives in the superstep in which it was sent (RelayedInStep).          *)
(*                                                                         *)
(* The messages of a queue are summed up: their number and their value.    *)
(*                                                                         *)
(* The relay is a set without a limit, and its steps need not be taken: it *)
(* shows what may be computed, never that a job gets on.  That messages    *)
(* which a graph takes do not hold it up is DistributedJob's (job_progress *)
(* has it); stray ones may block it for good there (job_stray_deadlock).   *)
(* A transaction is one message: two graphs that both loaded its sender,   *)
(* with boundaries out of order, are not told apart there.                 *)
(***************************************************************************)
EXTENDS GravitasDeployment, FiniteSetsExt, PartitionRange

CONSTANTS
  Addr,             \* address of each wallet
  TxFrom, TxTo, TxValue, TxFee

ASSUME WalletsAssumption == Addr \in [Wallets -> Address]
ASSUME TxAssumption ==
  /\ TxFrom \in [Txs -> Wallets] /\ TxTo \in [Txs -> Wallets]
  /\ TxValue \in [Txs -> Nat] /\ TxFee \in [Txs -> Nat]

VARIABLES
  vertex,      \* the vertices of each graph
  superstep,
  run,         \* where the executor of each graph is
  feed,        \* vertices that step has not handed out yet
  busy,        \* vertices in the hands of stepWorkers
  pending,     \* pendingInStep
  activeIn,    \* activeInStep
  stepErr,     \* errCh of the graph
  counted,     \* aggregators wallet_count and tx_count
  relay        \* messages under way to another graph: <<node, tx>>

graphVars == <<vertex, superstep, run, feed, busy, pending, activeIn, stepErr, counted, relay>>

NoMsgs == [n |-> 0, sum |-> 0]
Enqueue(q, t) == [n |-> q.n + 1, sum |-> q.sum + TxValue[t]]
EnqueueAll(q, T) ==
  [n |-> q.n + Cardinality(T), sum |-> q.sum + MapThenSumSet(LAMBDA t : TxValue[t], T)]
PendingMessages(q) == q.n # 0

NoVertex == [on |-> FALSE, value |-> 0, txs |-> {}, active |-> FALSE,
             queue |-> [i \in {0, 1} |-> NoMsgs]]
NoVertices == [w \in Wallets |-> NoVertex]

VerticesOf(n) == {w \in Wallets : vertex[n][w].on}

\* A vertex that exists keeps its queues and its active flag.
AddVertex(V, w, T) ==
  IF V[w].on THEN [V EXCEPT ![w].value = 0, ![w].txs = T]
  ELSE [V EXCEPT ![w] = [NoVertex EXCEPT !.on = TRUE, !.txs = T, !.active = TRUE]]

\* The node whose partition holds a wallet.
OwnerOf(w) ==
  LET part == PartitionForAddr(NewFullRange(Cardinality(dep.nodes)), Addr[w])
  IN IF part = Nobody THEN Nobody
     ELSE CHOOSE n \in dep.nodes : Cardinality({m \in dep.nodes : m < n}) = part

\* The ends of the partitions are in the order of strings, as PartitionForAddr takes
\* for granted.  Nothing sees to it: an end is printed without leading zeros, so with
\* more partitions than the base has digits (16) the first ends are too short.
BoundariesInOrder ==
  LET ends == NewFullRange(Cardinality(dep.nodes)).splits
  IN \A p, q \in DOMAIN ends : p <= q =>
       \A a \in Address : Before(a, ends[p]) => Before(a, ends[q])

GraphInit ==
  /\ vertex = [n \in Nodes |-> NoVertices]
  /\ superstep = [n \in Nodes |-> 0]
  /\ run = [n \in Nodes |-> "off"]
  /\ feed = [n \in Nodes |-> {}] /\ busy = [n \in Nodes |-> {}]
  /\ pending = [n \in Nodes |-> 0] /\ activeIn = [n \in Nodes |-> 0]
  /\ stepErr = [n \in Nodes |-> FALSE]
  /\ counted = [n \in Nodes |-> [wallets |-> 0, txs |-> 0]]
  /\ relay = {}

\* Reset of the graph, with the executor gone.
Reset(n) ==
  /\ vertex' = [vertex EXCEPT ![n] = NoVertices]
  /\ superstep' = [superstep EXCEPT ![n] = 0]
  /\ run' = [run EXCEPT ![n] = "off"]
  /\ counted' = [counted EXCEPT ![n] = [wallets |-> 0, txs |-> 0]]

\* NewExecutor, with the aggregators registered anew.
NewExecutor(n) ==
  /\ superstep' = [superstep EXCEPT ![n] = 0]
  /\ run' = [run EXCEPT ![n] = "pre"]
  /\ counted' = [counted EXCEPT ![n] = [wallets |-> 0, txs |-> 0]]
  /\ UNCHANGED <<vertex, feed, busy, pending, activeIn, stepErr, relay>>

-----------------------------------------------------------------------------
(***************************************************************************)
(* A superstep.                                                            *)
(***************************************************************************)

\* RunToCompletion sees that the context is done only between supersteps.
StepContextDone(n) ==
  /\ run[n] = "pre"
  /\ run' = [run EXCEPT ![n] = "err"]
  /\ UNCHANGED <<vertex, superstep, feed, busy, pending, activeIn, stepErr, counted, relay>>

\* All graphs are at the barrier before the superstep, or have left it.
StepBegins(n) ==
  /\ run[n] = "pre"
  /\ \A m \in dep.nodes : run[m] \in {"pre", "step", "post"} /\ superstep[m] = superstep[n]
  /\ run' = [run EXCEPT ![n] = IF VerticesOf(n) = {} THEN "post" ELSE "step"]
  /\ feed' = [feed EXCEPT ![n] = VerticesOf(n)]
  /\ pending' = [pending EXCEPT ![n] = Cardinality(VerticesOf(n))]
  /\ activeIn' = [activeIn EXCEPT ![n] = 0]
  /\ UNCHANGED <<vertex, superstep, busy, stepErr, counted, relay>>

\* vertexCh is unbuffered: step hands a vertex to a worker that is free.
WorkerTakes(n, w) ==
  /\ run[n] = "step" /\ w \in feed[n]
  /\ Cardinality(busy[n]) < dep.workers
  /\ feed' = [feed EXCEPT ![n] = @ \ {w}]
  /\ busy' = [busy EXCEPT ![n] = @ \cup {w}]
  /\ UNCHANGED <<vertex, superstep, run, pending, activeIn, stepErr, counted, relay>>

Buffer(n) == superstep[n] % 2
NextBuffer(n) == (superstep[n] + 1) % 2

Cost(T) == MapThenSumSet(LAMBDA t : TxValue[t] + TxFee[t], T)

\* The worker is done with a vertex; the last one ends the superstep.
WorkerFinishes(n, w) ==
  /\ busy' = [busy EXCEPT ![n] = @ \ {w}]
  /\ pending' = [pending EXCEPT ![n] = @ - 1]

InHand(n, w) == run[n] = "step" /\ w \in busy[n]
Runs(n, w) == vertex[n][w].active \/ PendingMessages(vertex[n][w].queue[Buffer(n)])

\* Mutant: it is not counted.
VertexSkippedUncounted(n, w) ==
  /\ InHand(n, w) /\ ~Runs(n, w)
  /\ busy' = [busy EXCEPT ![n] = @ \ {w}]
  /\ UNCHANGED <<vertex, superstep, run, feed, pending, activeIn, stepErr, counted, relay>>

\* A frozen vertex without messages is skipped.
VertexSkipped(n, w) ==
  /\ InHand(n, w) /\ ~Runs(n, w)
  /\ WorkerFinishes(n, w)
  /\ UNCHANGED <<vertex, superstep, run, feed, activeIn, stepErr, counted, relay>>

\* Superstep 0: wallets and transactions are counted, the vertex stays active.
ComputeCounts(n, w) ==
  /\ InHand(n, w) /\ Runs(n, w) /\ superstep[n] = 0
  /\ counted' = [counted EXCEPT ![n].wallets = @ + 1,
                                ![n].txs = @ + Cardinality(vertex[n][w].txs)]
  /\ activeIn' = [activeIn EXCEPT ![n] = @ + 1]
  /\ vertex' = [vertex EXCEPT ![n][w].active = TRUE, ![n][w].queue[Buffer(n)] = NoMsgs]
  /\ WorkerFinishes(n, w)
  /\ UNCHANGED <<superstep, run, feed, stepErr, relay>>

\* SendMessage: to a local vertex, or to the relayer where there is one.
Local(n, T) == {t \in T : vertex[n][TxTo[t]].on}

\* Mutant: the messages go to the queue of this superstep.
QueuedNow(n, T) ==
  [x \in Wallets |->
     LET mine == {t \in T : TxTo[t] = x}
     IN IF mine = {} THEN vertex[n][x]
        ELSE [vertex[n][x] EXCEPT !.queue[Buffer(n)] = EnqueueAll(@, mine)]]

Queued(n, T) ==
  [x \in Wallets |->
     LET mine == {t \in T : TxTo[t] = x}
     IN IF mine = {} THEN vertex[n][x]
        ELSE [vertex[n][x] EXCEPT !.queue[NextBuffer(n)] = EnqueueAll(@, mine)]]

\* Superstep 1: every transaction sends its value, then their cost is taken off
\* the wallet and the vertex freezes.
ComputeSends(n, w) ==
  /\ InHand(n, w) /\ Runs(n, w) /\ superstep[n] = 1
  /\ LET T == vertex[n][w].txs
     IN /\ Monolith => Local(n, T) = T
        /\ vertex' = [vertex EXCEPT ![n] =
             [Queued(n, Local(n, T)) EXCEPT
                ![w].value = @ - Cost(T), ![w].txs = {}, ![w].active = FALSE,
                ![w].queue[Buffer(n)] = NoMsgs]]
        /\ relay' = relay \cup {<<OwnerOf(TxTo[t]), t>> : t \in T \ Local(n, T)}
  /\ activeIn' = [activeIn EXCEPT ![n] = @ + 1]
  /\ WorkerFinishes(n, w)
  /\ UNCHANGED <<superstep, run, feed, stepErr, counted>>

\* Without a relayer an unknown recipient is an error; the messages before it
\* are sent, the vertex keeps its value and its transactions.
ComputeFails(n, w) ==
  /\ InHand(n, w) /\ Runs(n, w) /\ superstep[n] = 1
  /\ LET T == vertex[n][w].txs
     IN /\ Monolith /\ Local(n, T) # T
        /\ \E S \in SUBSET Local(n, T) :
             vertex' = [vertex EXCEPT ![n] = [Queued(n, S) EXCEPT ![w].active = TRUE]]
  /\ stepErr' = [stepErr EXCEPT ![n] = TRUE]
  /\ activeIn' = [activeIn EXCEPT ![n] = @ + 1]
  /\ WorkerFinishes(n, w)
  /\ UNCHANGED <<superstep, run, feed, counted, relay>>

\* Superstep 2: what was sent is added.  Later supersteps only freeze.
ComputeAdds(n, w) ==
  /\ InHand(n, w) /\ Runs(n, w) /\ superstep[n] >= 2
  /\ vertex' = [vertex EXCEPT
       ![n][w].value = IF superstep[n] = 2 THEN @ + vertex[n][w].queue[Buffer(n)].sum ELSE @,
       ![n][w].active = FALSE,
       ![n][w].queue[Buffer(n)] = NoMsgs]
  /\ activeIn' = [activeIn EXCEPT ![n] = @ + 1]
  /\ WorkerFinishes(n, w)
  /\ UNCHANGED <<superstep, run, feed, stepErr, counted, relay>>

\* stepCompletedCh; one error of the superstep is kept.
StepCompletes(n) ==
  /\ run[n] = "step" /\ feed[n] = {} /\ pending[n] = 0
  /\ run' = [run EXCEPT ![n] = IF stepErr[n] THEN "err" ELSE "post"]
  /\ stepErr' = [stepErr EXCEPT ![n] = FALSE]
  /\ UNCHANGED <<vertex, superstep, feed, busy, pending, activeIn, counted, relay>>

\* PostStepKeepRunning: the run stops once no vertex of any graph was active.
LeftStep(m, s) ==
  superstep[m] = s + 1 \/ (superstep[m] = s /\ run[m] \in {"post", "stop"})

StepEnds(n) ==
  /\ run[n] = "post"
  /\ \A m \in dep.nodes : LeftStep(m, superstep[n])
  /\ \A t \in Txs : <<n, t>> \notin relay /\ <<Nobody, t>> \notin relay
  /\ IF \A m \in dep.nodes : activeIn[m] = 0
       THEN /\ run' = [run EXCEPT ![n] = "stop"]
            /\ UNCHANGED superstep
       ELSE /\ run' = [run EXCEPT ![n] = "pre"]
            /\ superstep' = [superstep EXCEPT ![n] = @ + 1]
  /\ UNCHANGED <<vertex, feed, busy, pending, activeIn, stepErr, counted, relay>>

-----------------------------------------------------------------------------
\* The receiver of a worker delivers a relayed message.
RelayDelivered(n, t) ==
  /\ <<n, t>> \in relay /\ run[n] \in {"pre", "step", "post"}
  /\ vertex[n][TxTo[t]].on
  /\ vertex' = [vertex EXCEPT ![n][TxTo[t]].queue[NextBuffer(n)] = Enqueue(@, t)]
  /\ relay' = relay \ {<<n, t>>}
  /\ UNCHANGED <<superstep, run, feed, busy, pending, activeIn, stepErr, counted>>

\* A stray message, whose recipient no graph has.  If neither stream of its way is
\* full, it is bounced and the master aborts the job; else it may be there for good.
RelayBounces(n, t) ==
  /\ <<n, t>> \in relay
  /\ IF n = Nobody THEN TRUE
     ELSE run[n] \in {"pre", "step", "post"} /\ ~vertex[n][TxTo[t]].on

GraphStep(n) ==
  \/ StepBegins(n) \/ StepCompletes(n) \/ StepEnds(n)
  \/ \E w \in Wallets :
       \/ WorkerTakes(n, w) \/ VertexSkipped(n, w) \/ ComputeCounts(n, w)
       \/ ComputeSends(n, w) \/ ComputeFails(n, w) \/ ComputeAdds(n, w)
  \/ \E t \in Txs : RelayDelivered(n, t)

GraphTypeOK ==
  /\ vertex \in [Nodes -> [Wallets ->
       [on : BOOLEAN, value : Int, txs : SUBSET Txs, active : BOOLEAN,
        queue : [{0, 1} -> [n : Nat, sum : Nat]]]]]
  /\ superstep \in [Nodes -> Nat]
  /\ run \in [Nodes -> {"off", "pre", "step", "post", "stop", "err"}]
  /\ feed \in [Nodes -> SUBSET Wallets] /\ busy \in [Nodes -> SUBSET Wallets]
  /\ \A n \in Nodes : pending[n] = Cardinality(feed[n] \cup busy[n]) /\ feed[n] \cap busy[n] = {}
  /\ activeIn \in [Nodes -> 0 .. Cardinality(Wallets)]
  /\ stepErr \in [Nodes -> BOOLEAN]
  /\ counted \in [Nodes -> [wallets : Nat, txs : Nat]]
  /\ relay \subseteq (Nodes \cup {Nobody}) \X Txs
=============================================================================
