------------------------------- MODULE Ingest -------------------------------
(***************************************************************************)
(* How blocks get into the transaction graph: the block inserter, which    *)
(* follows the head of the chain, and one or several scanners, as services *)
(* of the monolith, which ends when one of them fails, or as processes of  *)
(* their own.  Whatever ends is started again.                             *)
(***************************************************************************)
EXTENDS ScannerPipeline

vars == <<storeVars, scanVars>>

Init == StoreInit /\ ScanInit

-----------------------------------------------------------------------------
(***************************************************************************)
(* The block inserter.                                                     *)
(***************************************************************************)

InserterGoes(to) == svc' = [svc EXCEPT ![Inserter] = to]

Subscribes ==
  /\ svc[Inserter] = "idle" /\ ctx[Inserter] = "live"
  /\ InserterGoes("listen")
  /\ Still /\ UNCHANGED <<place, pipe>>

\* Subscribing fails, or the subscription ends with an error.
SubscriptionFails ==
  /\ svc[Inserter] = "listen" \/ (svc[Inserter] = "idle" /\ ctx[Inserter] = "live")
  /\ Fail
  /\ InserterGoes("failed")
  /\ StoreStill /\ UNCHANGED <<call, place, pipe>>

\* A new head.  Numbers announced while nobody was subscribed are missing; a reorganised
\* chain, or a new subscription, announces a number again.
HeaderArrives(b) ==
  /\ svc[Inserter] = "listen" /\ b \in dep.heads
  /\ CallUpsertBlocks(Inserter, b, "new")
  /\ InserterGoes("upsert")
  /\ StoreStill /\ UNCHANGED <<place, pipe, failures>>

HeaderUpserted ==
  /\ svc[Inserter] = "upsert"
  /\ \/ Returned(Inserter, "ok") /\ InserterGoes("listen")
     \/ Returned(Inserter, "err") /\ InserterGoes("failed")
  /\ EndCall(Inserter)
  /\ StoreStill /\ UNCHANGED <<place, pipe, failures>>

InserterStops ==
  /\ svc[Inserter] \in {"idle", "listen"} /\ ctx[Inserter] = "done"
  /\ InserterGoes("returned")
  /\ Still /\ UNCHANGED <<place, pipe>>

BlockInserter ==
  \/ Subscribes \/ SubscriptionFails \/ HeaderUpserted \/ InserterStops
  \/ \E b \in Blocks : HeaderArrives(b)

-----------------------------------------------------------------------------
(***************************************************************************)
(* Services and processes.                                                 *)
(***************************************************************************)

Deployed == dep.scanners \cup {Inserter}

\* The services that share a process, and its context, with v.
Together(v) == IF dep.remote THEN {v} ELSE Deployed
Cancel(v) == ctx' = [u \in Services |-> IF u \in Together(v) THEN "done" ELSE ctx[u]]

\* A service that returns an error takes its process down with it.
ServiceFails(v) ==
  /\ svc[v] = "failed"
  /\ svc' = [svc EXCEPT ![v] = "returned"]
  /\ Cancel(v)
  /\ UNCHANGED <<dep, tables, caches, call, late, failures, lost, place, pipe>>

Signal(v) ==
  /\ v \in Deployed /\ ctx[v] = "live"
  /\ Fail
  /\ Cancel(v)
  /\ UNCHANGED <<dep, tables, caches, call, late, lost, svc, place, pipe>>

Restarted(V) ==
  /\ svc' = [v \in Services |-> IF v \in V THEN "idle" ELSE svc[v]]
  /\ ctx' = [v \in Services |-> IF v \in V THEN "live" ELSE ctx[v]]
  /\ place' = [s \in Scanners |-> IF s \in V THEN Nowhere ELSE place[s]]
  /\ pipe' = [s \in Scanners |-> IF s \in V THEN FreshPipe ELSE pipe[s]]

\* Group.Run waits for all services, runMain of a microservice for its one.
ProcessEnds(v) ==
  /\ v \in Deployed /\ ctx[v] = "done"
  /\ \A u \in Together(v) : svc[u] = "returned"
  /\ Restarted(Together(v))
  /\ IF dep.remote THEN UNCHANGED <<tables, caches, late, lost, dep>> ELSE StoreCrash
  /\ UNCHANGED <<call, failures>>

\* The process with the graph ends at any point.  In the monolith it is the
\* only one; over gRPC the calls of the others end with an error.  Among the failures is
\* the panic of a failed query of the unprocessed blocks.
GraphProcessEnds ==
  /\ Fail \/ (MapRace /\ UNCHANGED failures)
  /\ StoreCrash
  /\ IF dep.remote
       THEN /\ call' = [c \in Callers |->
                          IF c = Orphan \/ call[c].at = "idle" THEN NoCall
                          ELSE [call[c] EXCEPT !.at = "err"]]
            /\ UNCHANGED <<ctx, svc, place, pipe>>
       ELSE /\ call' = [c \in Callers |-> NoCall]
            /\ Restarted(Deployed)

Process ==
  \/ GraphProcessEnds
  \/ \E v \in Services : ServiceFails(v) \/ Signal(v) \/ ProcessEnds(v)

Next ==
  \/ BlockInserter
  \/ Process
  \/ \E s \in Scanners : Scanner(s)
  \/ \E c \in Callers : GraphCall(c) /\ UNCHANGED scanVars
  \/ \E c \in Clients : RPCFails(c) /\ UNCHANGED scanVars
  \/ (OrphanEnds \/ LateRowStored \/ LateRowReplaced) /\ UNCHANGED scanVars

Spec == Init /\ [][Next]_vars

-----------------------------------------------------------------------------
TypeOK ==
  /\ StoreTypeOK
  /\ svc \in [Services -> {"idle", "listing", "scan", "listen", "upsert", "failed", "returned"}]
  /\ place \in [Scanners -> [Blocks -> {"none", "iterator", "source", "token", "fetch",
                                        "fetched", "wallets", "txs", "parsed", "sink"}]]
  /\ pipe \in [Scanners ->
       [source : {"run", "end"}, dispatcher : {"run", "drain", "end"}, parsers : Nat,
        sink : {"run", "end"}, iterator : {"ok", "err"}, errs : 0 .. ErrCap,
        failed : BOOLEAN, todo : SUBSET Blocks]]

ProcessedIsComplete ==
  \A b \in Blocks : block[b] = "processed" =>
    TxsOf(b) \subseteq tx /\ WalletsOf(TxsOf(b)) \subseteq wallet

\* A block that the tables call processed has its transactions and wallets in the tables,
\* whatever was cached, announced again, failed or crashed (graph.go:46-47, cdb.go:68-70,
\* 170-238, tx_parser.go:53).  It is not so when rows were lost that had been acknowledged,
\* as those of a graph in memory whose process starts again while the scanners live on,
\* nor when an inserter that a failed flush left over takes a mark out of the refilled
\* cache (cdb.go:244-247, 326).
ProcessedMeansStored == ~lost /\ ~late.early => ProcessedIsComplete

\* No statement meets an unknown wallet: every flush of transactions comes after
\* one of their wallets (cdb.go:210, tx_parser.go:53).
WalletsFirst ==
  ~lost => \A c \in Callers :
    /\ InTable(c, "txs") => WalletsOf(IF Cached THEN txC ELSE call[c].txs) \subseteq wallet
    /\ Memory /\ At(c, "txs", "start") => WalletsOf(call[c].txs) \subseteq wallet

\* A pass that ends without an error, and was not cancelled, marked every block
\* that it was given (pipeline.go:46-49).
NothingDropped ==
  \A s \in Scanners : AllEnded(s) /\ ~PassCancelled(s) => pipe[s].todo = {}

\* Of the callers that are inside the graph one can always go on: no ring of
\* mutexes, none left locked by a call that returned (cdb.go:170-238).
InTheGraph == {c \in Callers : call[c].at \notin {"idle", "ok", "err"}}
CallsGoOn == InTheGraph # {} => \E c \in InTheGraph : ENABLED GraphCall(c)

\* A service whose context is done, and a pass whose context is, goes on until it
\* ends, by a step of its own or of a call: no stage waits for one that is gone.
\* (stage.go:27-53, pipeline.go:60-114)
Ending(v) == svc[v] # "returned" /\ (ctx[v] = "done" \/ (svc[v] = "scan" /\ PassCancelled(v)))
ShutdownGoesOn ==
  \A v \in Services : Ending(v) =>
     \/ v = Inserter /\ ENABLED BlockInserter
     \/ v \in Scanners /\ ENABLED Scanner(v)
     \/ ENABLED ServiceFails(v)
     \/ \E c \in InTheGraph : ENABLED GraphCall(c)
=============================================================================
