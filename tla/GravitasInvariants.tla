------------------------- MODULE GravitasInvariants -------------------------
(***************************************************************************)
(* The inductive invariant of the computation of scores: what its safety   *)
(* properties rest on, part by part.                                       *)
(***************************************************************************)
EXTENDS Gravitas

Score == [pass : 1 .. pass, value : Int]
Row == [wallet : Wallets, value : Score]

StoreTypes ==
  /\ scorer \in BOOLEAN /\ disturbed \in BOOLEAN
  /\ score \in [Wallets -> Score \cup {NoScore}]
  /\ toStore \in [Nodes -> SUBSET Row] /\ lateScores \subseteq Row
  /\ search \in [at : {"idle", "counted", "read", "shown"}, total : Nat, rows : Nat, shown : Nat]

Queues == [{0, 1} -> [n : Nat, sum : Nat]]
VertexRecord == [on : BOOLEAN, value : Int, txs : SUBSET Txs, active : BOOLEAN, queue : Queues]

\* The number of the superstep is bounded by what is computed.
GraphTypes ==
  /\ vertex \in [Nodes -> [Wallets -> VertexRecord]]
  /\ superstep \in [Nodes -> Nat]
  /\ run \in [Nodes -> {"off", "pre", "step", "post", "stop", "err"}]
  /\ feed \in [Nodes -> SUBSET Wallets] /\ busy \in [Nodes -> SUBSET Wallets]
  /\ pending \in [Nodes -> Nat] /\ activeIn \in [Nodes -> Nat]
  /\ stepErr \in [Nodes -> BOOLEAN]
  /\ counted \in [Nodes -> [wallets : Nat, txs : Nat]]
  /\ relay \subseteq (Nodes \cup {Nobody}) \X Txs

Places == {"none", "todo", "addrCh", "fetch", "vertexCh", "added"}
LoadRecord ==
  [at : {"off", "iterate", "wait", "ok", "err", "cancelled"}, num : 0 .. Cardinality(Wallets),
   known : BOOLEAN, seen : 0 .. Cardinality(Wallets), fetchers : 0 .. dep.fetchers,
   err : BOOLEAN, done : BOOLEAN]

PassTypes ==
  /\ at \in [Nodes -> {"idle", "start", "load", "run", "store", "persisted", "failed", "gone",
                       "returned"}]
  /\ ctx \in {"live", "done"} /\ job \in {"off", "on", "executed"} /\ aborted \in BOOLEAN
  /\ since \in [Passes -> [txs : SUBSET Txs, wallets : SUBSET Wallets]]
  /\ ledger \in [Passes -> SUBSET Txs]
  /\ completed \subseteq 1 .. pass /\ cut \subseteq 1 .. pass

Types ==
  /\ DeploymentTypeOK /\ GraphTypes /\ LoadTypeOK /\ PassTypes /\ StoreTypes

-----------------------------------------------------------------------------
(***************************************************************************)
(* Where a node, its graph and its job are.                                *)
(***************************************************************************)

Loading == \E n \in dep.nodes : at[n] \in {"start", "load"}

NodeBooks(n) ==
  /\ n \notin dep.nodes => at[n] = "idle" /\ vertex[n] = NoVertices
  /\ pass = 0 => at[n] \in {"idle", "returned"}
  /\ at[n] \in {"idle", "start", "load", "gone", "persisted"} => run[n] = "off" /\ superstep[n] = 0
  /\ at[n] = "run" => run[n] # "off"
  /\ at[n] \in {"store", "failed"} => run[n] = "stop"
  /\ run[n] \in {"pre", "step", "post"} => at[n] = "run"
  /\ run[n] # "step" => feed[n] = {} /\ busy[n] = {} /\ ~stepErr[n]
  /\ stepErr[n] => Monolith
  /\ at[n] # "store" => toStore[n] = {}
  /\ IF at[n] = "load" THEN load[n].at # "off"
     ELSE IF at[n] = "returned" THEN load[n].at \in {"off", "err"} ELSE load[n] = NoLoad
  /\ load[n].at = "cancelled" => Monolith /\ ctx = "done"
  /\ Monolith => at[n] \notin {"start", "persisted", "gone"}
  /\ ~Monolith => at[n] # "returned"
  /\ at[n] = "gone" => aborted

JobBooks ==
  /\ job = "off" => ~aborted /\ relay = {}
  /\ Monolith => job = "off"
  /\ ~Monolith => \A n \in dep.nodes :
       /\ job = "off" <=> at[n] = "idle"
       /\ at[n] \in {"store", "persisted", "failed"} => job = "executed"
       /\ job = "executed" => ~Loading /\ (at[n] = "run" => run[n] = "stop")
  /\ Loading => relay = {} /\ \A n \in dep.nodes : superstep[n] = 0 /\ run[n] \in {"off", "pre", "err"}

PlaceBooks == (\A n \in Nodes : NodeBooks(n)) /\ JobBooks

-----------------------------------------------------------------------------
(***************************************************************************)
(* Loading.                                                                *)
(***************************************************************************)

Extents(n) == PartitionExtents(NewFullRange(Cardinality(dep.nodes)), PartitionOf(n))
Within(n, w) == InExtents(Addr[w], Extents(n))

\* Wallets that were counted, and not lost with a fetcher that failed.
Under(n) == {w \in Wallets : where[n][w] \in {"addrCh", "fetch", "vertexCh", "added"}}

LoadBooks(n) ==
  IF load[n].at \in {"iterate", "wait"}
    THEN /\ load[n].num = Cardinality(Under(n)) + (dep.fetchers - load[n].fetchers)
         /\ load[n].num + Cardinality(In(n, "todo")) <= Cardinality(Wallets)
         /\ load[n].seen = Cardinality(In(n, "added"))
         /\ Cardinality(In(n, "fetch")) <= load[n].fetchers
         /\ load[n].at = "wait" => In(n, "todo") = {}
         /\ load[n].known => load[n].at = "wait"
         /\ load[n].done => load[n].known /\ load[n].seen = load[n].num
         /\ \A w \in In(n, "added") : vertex[n][w].on
    ELSE /\ load[n] = [NoLoad EXCEPT !.at = load[n].at]
         /\ \A w \in Wallets : where[n][w] = "none"

VertexBooks(n, w) ==
  /\ where[n][w] # "none" \/ vertex[n][w].on => Within(n, w)
  /\ \A t \in got[n][w] \cup vertex[n][w].txs : TxFrom[t] = w
  /\ \A r \in left[n] : r.wallet = w => Within(n, w) /\ \A t \in r.txs : TxFrom[t] = w
  /\ ~vertex[n][w].on => vertex[n][w] = NoVertex
  /\ w \in feed[n] \cup busy[n] => vertex[n][w].on
  /\ at[n] \in {"idle", "start", "load", "gone", "persisted"} /\ vertex[n][w].on =>
       /\ vertex[n][w].value = 0 /\ vertex[n][w].active
       /\ vertex[n][w].queue = NoVertex.queue

StepBooks(n) ==
  /\ feed[n] \cap busy[n] = {} /\ pending[n] = Cardinality(feed[n] \cup busy[n])
  /\ activeIn[n] <= Cardinality(Wallets)
  /\ run[n] = "step" => activeIn[n] <= Cardinality(VerticesOf(n) \ (feed[n] \cup busy[n]))

GraphBooks == \A n \in Nodes :
  LoadBooks(n) /\ StepBooks(n) /\ \A w \in Wallets : VertexBooks(n, w)

-----------------------------------------------------------------------------
(***************************************************************************)
(* What a pass has to load, and to store.                                  *)
(***************************************************************************)

Due(n) == {w \in since[pass].wallets : Within(n, w)}
DueTxs(w) == {t \in since[pass].txs : TxFrom[t] = w}

TableBooks ==
  /\ \A t \in tx : TxFrom[t] \in wallet
  /\ pass \in Passes => since[pass].txs \subseteq tx /\ since[pass].wallets \subseteq wallet
  /\ \A p \in Passes :
       /\ \A t \in since[p].txs : TxFrom[t] \in since[p].wallets
       /\ p > pass => ledger[p] = {}

LoadComplete(n) == pass \in Passes \ cut =>
  \A w \in Due(n) :
    /\ at[n] = "load" /\ load[n].at \in {"iterate", "wait"} =>
         /\ load[n].fetchers = dep.fetchers => where[n][w] # "none"
         /\ where[n][w] \in {"fetch", "vertexCh"} => DueTxs(w) \subseteq got[n][w]
         /\ where[n][w] = "added" => DueTxs(w) \subseteq vertex[n][w].txs
    /\ at[n] = "load" /\ load[n].at = "ok" => vertex[n][w].on /\ DueTxs(w) \subseteq vertex[n][w].txs
    /\ at[n] = "run" => vertex[n][w].on
    /\ at[n] \in {"run", "store", "persisted", "failed"} => DueTxs(w) \subseteq ledger[pass]

\* What the ledger of a pass has to hold: once all graphs ran, it does.
Needed(p) == {t \in since[p].txs : Addr[TxFrom[t]] # MaxAddr}
Complete(p) == p \notin cut => Needed(p) \subseteq ledger[p]

LedgerBooks ==
  /\ \A n \in dep.nodes : LoadComplete(n)
  /\ job = "executed" => Complete(pass)

\* A score that may be in the table.
Right(w, s) ==
  /\ BoundariesInOrder => s.value = Balance(w, ledger[s.pass])
  /\ Complete(s.pass)
  /\ Loading => s.pass < pass

RowBooks ==
  /\ \A w \in Scored : Right(w, score[w])
  /\ \A r \in lateScores : Right(r.wallet, r.value)
  /\ \A n \in Nodes : \A r \in toStore[n] : Right(r.wallet, r.value) /\ r.value.pass = pass

Current(w) == w \in Scored /\ score[w].pass = pass

StoreBooks(n) == ~disturbed /\ pass \in Passes \ cut =>
  \A w \in Due(n) :
    /\ at[n] = "store" => Current(w) \/ \E r \in toStore[n] : r.wallet = w
    /\ at[n] = "persisted" => Current(w)

SearchBooks == search.at = "counted" => search.total <= Cardinality(Scored)

VisibleBooks == (\A n \in dep.nodes : StoreBooks(n)) /\ CompletedPassVisible

-----------------------------------------------------------------------------
(***************************************************************************)
(* The computation, while no graph has failed or been reset, of graphs     *)
(* that have each wallet once.                                             *)
(***************************************************************************)

Intact ==
  /\ BoundariesInOrder
  /\ \A n \in dep.nodes :
       at[n] \in {"start", "load"} \/ (at[n] = "run" /\ run[n] # "err" /\ ~stepErr[n])

Running == {n \in dep.nodes : at[n] = "run"}

\* Has the superstep k come and gone for a vertex?
Computed(n, w, k) ==
  \/ superstep[n] > k
  \/ superstep[n] = k /\ \/ run[n] \in {"post", "stop"}
                         \/ run[n] = "step" /\ w \notin feed[n] \cup busy[n]

Spent(w) == {t \in ledger[pass] : TxFrom[t] = w}
Earned(w) == {t \in ledger[pass] : TxTo[t] = w}
Unsent(t) == \E n \in Running : t \in vertex[n][TxFrom[t]].txs
Delivered(n, w) == {t \in Earned(w) : ~Unsent(t) /\ <<n, t>> \notin relay}
Income(T) == MapThenSumSet(LAMBDA t : TxValue[t], T)

ValueBooks(n, w) ==
  LET v == vertex[n][w]
      sent == Computed(n, w, 1)
      added == Computed(n, w, 2)
  IN /\ v.txs = IF sent THEN {} ELSE Spent(w)
     /\ v.active = ~sent
     /\ v.value = IF added THEN Balance(w, ledger[pass]) ELSE IF sent THEN 0 - Cost(Spent(w)) ELSE 0
     /\ v.queue[1] = NoMsgs
     /\ v.queue[0] = IF added THEN NoMsgs ELSE EnqueueAll(NoMsgs, Delivered(n, w))

RelayBooks(n, t) ==
  /\ n = OwnerOf(TxTo[t]) /\ t \in ledger[pass] /\ ~Unsent(t)
  /\ n # Nobody => superstep[n] = 1

Ahead(n, m) ==
  /\ superstep[n] = superstep[m] + 1 /\ run[n] = "pre" /\ run[m] = "post"
  /\ \E k \in dep.nodes : activeIn[k] # 0

BarrierBooks ==
  /\ \A n, m \in Running :
       /\ superstep[n] = superstep[m] \/ Ahead(n, m) \/ Ahead(m, n)
       /\ run[n] = "stop" =>
            superstep[m] = superstep[n] /\ run[m] \in {"post", "stop"} /\ activeIn[m] = 0
  /\ \A n \in Running :
       /\ run[n] \in {"step", "post", "stop"} /\ superstep[n] < 2 =>
            activeIn[n] = Cardinality(VerticesOf(n) \ (feed[n] \cup busy[n]))
       /\ run[n] \in {"step", "post", "stop"} /\ superstep[n] > 2 => activeIn[n] = 0

\* Each transaction is sent, or was, by a graph that runs.
SenderBooks == \A t \in ledger[pass] : \E n \in Running : vertex[n][TxFrom[t]].on

ComputeBooks == Intact =>
  /\ BarrierBooks /\ SenderBooks
  /\ \A n \in Running : \A w \in VerticesOf(n) : ValueBooks(n, w)
  /\ \A m \in relay : RelayBooks(m[1], m[2])

FinalBooks == BoundariesInOrder /\ job = "executed" =>
  \A n \in Running : \A w \in VerticesOf(n) : vertex[n][w].value = Balance(w, ledger[pass])

StepBound == BoundariesInOrder => \A n \in Nodes : superstep[n] <= 3

Control == Types /\ PlaceBooks /\ GraphBooks

GravitasInv ==
  /\ Control
  /\ SearchBooks /\ TotalCountIsThere
  /\ TableBooks /\ LedgerBooks
  /\ ComputeBooks /\ FinalBooks /\ StepBound
  /\ RowBooks /\ VisibleBooks

-----------------------------------------------------------------------------
(***************************************************************************)
(* That a pass is never stuck.                                             *)
(***************************************************************************)

\* Who went has left the reason: a fetcher in errCh, the graph of a worker in its context.
ReasonBooks == \A n \in Nodes :
  /\ load[n].at \in {"iterate", "wait"} /\ load[n].fetchers # dep.fetchers => load[n].err
  /\ run[n] = "err" => Monolith \/ aborted

\* A thread of the load is past what it waited for.
LoadGoesOn(n) ==
  \/ load[n].at \in {"ok", "err", "cancelled"}
  \/ AtSelect(n) /\ load[n].err
  \/ load[n].at = "iterate" /\ (In(n, "todo") = {} \/ Cardinality(In(n, "addrCh")) < dep.fetchers)
  \/ In(n, "addrCh") # {} /\ Cardinality(In(n, "fetch")) < load[n].fetchers
  \/ In(n, "fetch") # {} /\ Cardinality(In(n, "vertexCh")) < dep.fetchers
  \/ In(n, "vertexCh") # {}
  \/ load[n].at = "wait" /\ (~load[n].known \/ load[n].done)
  \/ load[n].known /\ load[n].seen = load[n].num /\ ~load[n].done

\* The executor of a graph is, or a thread that it waits for: a compute worker, or
\* the receiver with a message.
ComputeGoesOn(n) ==
  \/ feed[n] # {} /\ Cardinality(busy[n]) < dep.workers
  \/ busy[n] # {}
  \/ feed[n] = {} /\ pending[n] = 0
RunGoesOn(n) ==
  \/ run[n] = "step" /\ ComputeGoesOn(n)
  \/ run[n] = "pre" /\ \A m \in dep.nodes : run[m] \in {"pre", "step", "post"} /\ superstep[m] = superstep[n]
  \/ run[n] = "post" /\ (\A m \in dep.nodes : LeftStep(m, superstep[n]))
                     /\ \A t \in Txs : <<n, t>> \notin relay /\ <<Nobody, t>> \notin relay
  \/ run[n] \in {"pre", "step", "post"} /\ \E t \in Txs : <<n, t>> \in relay /\ vertex[n][TxTo[t]].on
  \/ run[n] \in {"stop", "err"} /\ (Monolith \/ job = "executed")
  \/ run[n] # "step" /\ ~Monolith /\ aborted

NodeGoesOn(n) ==
  \/ at[n] \in {"start", "store", "failed"}
  \/ at[n] = "load" /\ LoadGoesOn(n)
  \/ at[n] = "run" /\ RunGoesOn(n)
  \/ at[n] = "persisted" /\ aborted

\* The master is past its barrier.
JobGoesOn ==
  \/ job = "on" /\ ~aborted /\ \A n \in dep.nodes : at[n] = "run" /\ run[n] = "stop"
  \/ job # "off" /\ \A n \in dep.nodes : at[n] = IF aborted THEN "gone" ELSE "persisted"

\* While a pass is under way, a node or the master goes on.
NoStall ==
  BoundariesInOrder /\ NoStrays /\ (\E n \in dep.nodes : at[n] \notin {"idle", "returned"}) =>
    (\E n \in dep.nodes : NodeGoesOn(n)) \/ JobGoesOn
=============================================================================
