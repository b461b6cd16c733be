---------------------------- MODULE GraphLoader ----------------------------
(***************************************************************************)
(* Loading a graph from the transaction graph: loadWallets iterates the    *)
(* wallets of the partition, fetchers look up their transactions, and      *)
(* addVertices adds them to the graph.  The monolith's gravitas service    *)
(* and the workers of the distributed one each have a copy of the code;    *)
(* only the monolith's listens to a context.                               *)
(***************************************************************************)
EXTENDS BSPGraph

\* Foreign key of the table of transactions.
ASSUME TablesAssumption ==
  \A d \in Deployments : \A t \in d.txs : {TxFrom[t], TxTo[t]} \subseteq d.wallets

VARIABLES
  tx, wallet,      \* the tables
  load,            \* the call of loadWallets on each node
  where,           \* where each wallet is on its way into the graph
  got,             \* the transactions fetched for it
  cut,             \* passes for which a result set broke off and looked complete, or
                   \* a row of an older load replaced one of theirs
  left             \* rows that goroutines of loads that returned still hold

loadVars == <<load, where, got, cut, left>>

NoLoad == [at |-> "off", num |-> 0, known |-> FALSE, seen |-> 0, fetchers |-> 0,
           err |-> FALSE, done |-> FALSE]

LoadInit ==
  /\ load = [n \in Nodes |-> NoLoad]
  /\ where = [n \in Nodes |-> [w \in Wallets |-> "none"]]
  /\ got = [n \in Nodes |-> [w \in Wallets |-> {}]]
  /\ cut = {}
  /\ left = [n \in Nodes |-> {}]

In(n, p) == {w \in Wallets : where[n][w] = p}
Goes(n, w, p) == where' = [where EXCEPT ![n][w] = p]
NobodyIn(n) == where' = [where EXCEPT ![n] = [w \in Wallets |-> "none"]]

\* The goroutines of a load that returned end when they next see localCtx done.  Till
\* then a fetcher may send the row that it has, and addVertices may add it.
LeavesRows(n) ==
  /\ left' = [left EXCEPT ![n] =
       @ \cup {[wallet |-> w, txs |-> got[n][w]] : w \in In(n, "fetch") \cup In(n, "vertexCh")}]
  /\ NobodyIn(n)

\* The extents of the node's partition; the wallets of the table in them.
PartitionOf(n) == Cardinality({m \in dep.nodes : m < n})
WalletsInPartition(n) ==
  {w \in wallet : InExtents(Addr[w],
     PartitionExtents(NewFullRange(Cardinality(dep.nodes)), PartitionOf(n)))}
WalletTxs(w) == {t \in tx : TxFrom[t] = w}

LoadBegins(n) ==
  /\ load' = [load EXCEPT ![n] = [NoLoad EXCEPT !.at = "iterate", !.fetchers = dep.fetchers]]
  /\ where' = [where EXCEPT ![n] =
       [w \in Wallets |-> IF w \in WalletsInPartition(n) THEN "todo" ELSE "none"]]
  /\ got' = [got EXCEPT ![n] = [w \in Wallets |-> {}]]
  /\ UNCHANGED <<cut, left>>

\* Mutant: the wallets are not counted while they are sent.
WalletSentUncounted(n, w) ==
  /\ load[n].at = "iterate" /\ where[n][w] = "todo"
  /\ Cardinality(In(n, "addrCh")) < dep.fetchers
  /\ Goes(n, w, "addrCh")
  /\ UNCHANGED <<load, got, cut, left>>

WalletSent(n, w) ==
  /\ load[n].at = "iterate" /\ where[n][w] = "todo"
  /\ Cardinality(In(n, "addrCh")) < dep.fetchers
  /\ Goes(n, w, "addrCh")
  /\ load' = [load EXCEPT ![n].num = @ + 1]
  /\ UNCHANGED <<got, cut, left>>

\* All are sent: the number goes to addVertices, loadWallets waits for it.
WalletsEnd(n) ==
  /\ load[n].at = "iterate" /\ In(n, "todo") = {}
  /\ load' = [load EXCEPT ![n].at = "wait"]
  /\ UNCHANGED <<where, got, cut, left>>

\* The result set breaks off; the iterator of CockroachDB does not say so.
WalletsCut(n) ==
  /\ load[n].at = "iterate" /\ In(n, "todo") # {}
  /\ where' = [where EXCEPT ![n] =
       [w \in Wallets |-> IF @[w] = "todo" THEN "none" ELSE @[w]]]
  /\ cut' = cut \cup {pass}
  /\ UNCHANGED <<load, got, left>>

\* The query fails, or a remote iterator reports an error.
WalletsFail(n) ==
  /\ load[n].at = "iterate"
  /\ load' = [load EXCEPT ![n] = [NoLoad EXCEPT !.at = "err"]]
  /\ LeavesRows(n)
  /\ UNCHANGED <<got, cut>>

-----------------------------------------------------------------------------
(***************************************************************************)
(* The fetchers.                                                           *)
(***************************************************************************)

\* The transactions are those of the moment of the query.
FetchWalletTxs(n, w) ==
  /\ where[n][w] = "addrCh"
  /\ Cardinality(In(n, "fetch")) < load[n].fetchers
  /\ Goes(n, w, "fetch")
  /\ got' = [got EXCEPT ![n][w] = WalletTxs(w)]
  /\ UNCHANGED <<load, cut, left>>

WalletTxsCut(n, w) ==
  /\ where[n][w] = "fetch" /\ got[n][w] # {}
  /\ \E T \in SUBSET got[n][w] :
       T # got[n][w] /\ got' = [got EXCEPT ![n][w] = T]
  /\ cut' = cut \cup {pass}
  /\ UNCHANGED <<load, where, left>>

\* Mutant: the fetcher drops the wallet and goes on.
FetchIgnoresError(n, w) ==
  /\ where[n][w] = "fetch"
  /\ Goes(n, w, "none")
  /\ UNCHANGED <<load, got, cut, left>>

\* The fetcher reports the error, unless one is waiting already, and returns.
FetchFails(n, w) ==
  /\ where[n][w] = "fetch"
  /\ Goes(n, w, "none")
  /\ load' = [load EXCEPT ![n].fetchers = @ - 1, ![n].err = TRUE]
  /\ UNCHANGED <<got, cut, left>>

VertexSent(n, w) ==
  /\ where[n][w] = "fetch"
  /\ Cardinality(In(n, "vertexCh")) < dep.fetchers
  /\ Goes(n, w, "vertexCh")
  /\ UNCHANGED <<load, got, cut, left>>

-----------------------------------------------------------------------------
(***************************************************************************)
(* addVertices, and the end of loadWallets.  All transactions of a wallet  *)
(* are sent by it, so that AddEdge finds its vertex in either copy.        *)
(***************************************************************************)

VertexAdded(n, w) ==
  /\ where[n][w] = "vertexCh"
  /\ Goes(n, w, "added")
  /\ vertex' = [vertex EXCEPT ![n] = AddVertex(@, w, got[n][w])]
  /\ load' = [load EXCEPT ![n].seen = @ + 1]
  /\ UNCHANGED <<got, cut, left>>

\* A row of an older load comes late, and replaces what there is.  Bound: during the
\* next load; before it the graph is reset, and later its executor runs.
LateRowAdded(n, r) ==
  /\ load[n].at \in {"iterate", "wait", "ok"} /\ r \in left[n]
  /\ left' = [left EXCEPT ![n] = @ \ {r}]
  /\ vertex' = [vertex EXCEPT ![n] = AddVertex(@, r.wallet, r.txs)]
  /\ cut' = IF vertex[n][r.wallet].on /\ vertex[n][r.wallet].txs # r.txs THEN cut \cup {pass} ELSE cut
  /\ UNCHANGED <<load, where, got>>

NumberLearnt(n) ==
  /\ load[n].at = "wait" /\ ~load[n].known
  /\ load' = [load EXCEPT ![n].known = TRUE]
  /\ UNCHANGED <<where, got, cut, left>>

AllAdded(n) ==
  /\ load[n].known /\ load[n].seen = load[n].num /\ ~load[n].done
  /\ load' = [load EXCEPT ![n].done = TRUE]
  /\ UNCHANGED <<where, got, cut, left>>

LoadReturns(n, at) ==
  /\ load' = [load EXCEPT ![n] = [NoLoad EXCEPT !.at = at]]
  /\ LeavesRows(n)
  /\ UNCHANGED <<got, cut>>

AtSelect(n) == load[n].at = "wait" \/ (load[n].at = "iterate" /\ In(n, "todo") # {})

LoadSucceeds(n) == load[n].at = "wait" /\ load[n].done /\ LoadReturns(n, "ok")
LoadGetsError(n) == AtSelect(n) /\ load[n].err /\ LoadReturns(n, "err")
LoadCancelled(n) == AtSelect(n) /\ LoadReturns(n, "cancelled")

LoadWallets(n) ==
  \/ WalletsEnd(n) \/ LoadSucceeds(n) \/ LoadGetsError(n)
  \/ \E w \in Wallets : WalletSent(n, w)

FetchTxs(n) == \E w \in Wallets : FetchWalletTxs(n, w) \/ VertexSent(n, w)

AddVertices(n) ==
  \/ (NumberLearnt(n) \/ AllAdded(n)) /\ UNCHANGED vertex
  \/ \E w \in Wallets : VertexAdded(n, w)

\* Calls that fail, or look complete although they are not.
LoadFaults(n) ==
  /\ load[n].at \in {"iterate", "wait"}
  /\ WalletsCut(n) \/ WalletsFail(n) \/ \E w \in Wallets : WalletTxsCut(n, w) \/ FetchFails(n, w)

LoadTypeOK ==
  /\ tx \subseteq Txs /\ wallet \subseteq Wallets
  /\ load \in [Nodes ->
       [at : {"off", "iterate", "wait", "ok", "err", "cancelled"}, num : 0 .. Cardinality(Wallets),
        known : BOOLEAN, seen : 0 .. Cardinality(Wallets), fetchers : 0 .. dep.fetchers,
        err : BOOLEAN, done : BOOLEAN]]
  /\ where \in [Nodes -> [Wallets -> {"none", "todo", "addrCh", "fetch", "vertexCh", "added"}]]
  /\ got \in [Nodes -> [Wallets -> SUBSET Txs]]
  /\ cut \subseteq 1 .. dep.passes
  /\ left \in [Nodes -> SUBSET [wallet : Wallets, txs : SUBSET Txs]]
=============================================================================
