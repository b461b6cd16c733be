-------------------------- MODULE ScannerPipeline --------------------------
(***************************************************************************)
(* The scanner: a service that, pass after pass, sends the unprocessed     *)
(* blocks through a pipeline.  Its stages are a dynamic pool of block      *)
(* fetchers, a fixed pool of transaction parsers and the sink.  The stage  *)
(* channels are unbuffered: a payload moves when the next thread takes it. *)
(* place says where the payload of each block is; the workers of a pool    *)
(* are alike, so that it and the number of live workers stand for them.    *)
(***************************************************************************)
EXTENDS TxGraphStore

CONSTANT ErrCap   \* capacity of errCh: stages and two

ASSUME ErrCapAssumption == ErrCap \in Nat \ {0}

VARIABLES
  svc,    \* where each service is
  place,  \* where the payload of each block is, per scanner
  pipe    \* the pipeline of the current pass, per scanner; todo is history: the
          \* blocks of the pass that were not marked yet

scanVars == <<svc, place, pipe>>

Nowhere == [b \in Blocks |-> "none"]

FreshPipe ==
  [source |-> "run", dispatcher |-> "run", parsers |-> dep.workers, sink |-> "run",
   iterator |-> "ok", errs |-> 0, failed |-> FALSE, todo |-> {}]

ScanInit ==
  /\ svc = [v \in Services |-> "idle"]
  /\ place = [s \in Scanners |-> Nowhere]
  /\ pipe = [s \in Scanners |-> FreshPipe]

Is(s, b, p) == place[s][b] = p
Some(s, P) == \E b \in Blocks : place[s][b] \in P
Count(s, P) == Cardinality({b \in Blocks : place[s][b] \in P})
Move(s, b, p) == place' = [place EXCEPT ![s][b] = p]

\* pCtx is cancelled by the service's context and by the first error.
PassCancelled(s) == ctx[s] = "done" \/ pipe[s].failed

\* maybeEmitError: with errCh full the error is dropped.
Emitted(s) == IF pipe[s].errs < ErrCap THEN pipe[s].errs + 1 ELSE ErrCap

StoreStill == UNCHANGED <<dep, ctx, tables, caches, late, lost>>
Still == StoreStill /\ UNCHANGED <<call, failures>>

-----------------------------------------------------------------------------
(***************************************************************************)
(* The service's loop.                                                     *)
(***************************************************************************)

BeginsPass(s) ==
  /\ svc[s] = "idle" /\ ctx[s] = "live" /\ s \in dep.scanners
  /\ CallBlocks(Lister(s))
  /\ svc' = [svc EXCEPT ![s] = "listing"]
  /\ StoreStill /\ UNCHANGED <<place, pipe, failures>>

\* Blocks() of a local graph returns when the list is there; over gRPC the
\* iterator gets it, or the error, when it is first asked.
BlocksListed(s) ==
  /\ svc[s] = "listing"
  /\ Returned(Lister(s), "ok")
  /\ place' = [place EXCEPT ![s] =
       [b \in Blocks |-> IF call[Lister(s)].blocks[b] = "new" THEN "iterator" ELSE "none"]]
  /\ EndCall(Lister(s))
  /\ svc' = [svc EXCEPT ![s] = "scan"]
  /\ pipe' = [pipe EXCEPT ![s] = [FreshPipe EXCEPT !.todo = Marked(call[Lister(s)].blocks)]]
  /\ StoreStill /\ UNCHANGED failures

BlocksFail(s) ==
  /\ svc[s] = "listing"
  /\ Returned(Lister(s), "err")
  /\ EndCall(Lister(s))
  /\ IF dep.remote
       THEN /\ svc' = [svc EXCEPT ![s] = "scan"]
            /\ pipe' = [pipe EXCEPT ![s] = [FreshPipe EXCEPT !.iterator = "err"]]
       ELSE /\ svc' = [svc EXCEPT ![s] = "failed"]
            /\ UNCHANGED pipe
  /\ StoreStill /\ UNCHANGED <<place, failures>>

\* Process returns once all threads ended and errCh is drained; the service
\* goes on with the next pass unless there was an error.
AllEnded(s) ==
  /\ svc[s] = "scan"
  /\ pipe[s].source = "end" /\ pipe[s].dispatcher = "end" /\ pipe[s].sink = "end"
  /\ pipe[s].parsers = 0 /\ pipe[s].errs = 0

PassEnds(s) ==
  /\ AllEnded(s)
  /\ svc' = [svc EXCEPT ![s] = IF pipe[s].failed THEN "failed" ELSE "idle"]
  /\ pipe' = [pipe EXCEPT ![s] = FreshPipe]
  /\ Still /\ UNCHANGED <<place>>

ScannerStops(s) ==
  /\ svc[s] = "idle" /\ ctx[s] = "done"
  /\ svc' = [svc EXCEPT ![s] = "returned"]
  /\ Still /\ UNCHANGED <<place, pipe>>

-----------------------------------------------------------------------------
(***************************************************************************)
(* Source and block iterator.                                              *)
(***************************************************************************)

Scanning(s) == svc[s] = "scan"

SourceNext(s, b) ==
  /\ Scanning(s) /\ pipe[s].source = "run"
  /\ Is(s, b, "iterator") /\ ~Some(s, {"source"})
  /\ Move(s, b, "source")
  /\ Still /\ UNCHANGED <<svc, pipe>>

\* The stream of a remote iterator breaks: the blocks it had left are skipped.
IteratorBreaks(s) ==
  /\ dep.remote /\ Scanning(s) /\ pipe[s].source = "run"
  /\ pipe[s].iterator = "ok" /\ ~Some(s, {"source"})
  /\ Fail
  /\ pipe' = [pipe EXCEPT ![s].iterator = "err"]
  /\ place' = [place EXCEPT ![s] = [b \in Blocks |-> IF @[b] = "iterator" THEN "none" ELSE @[b]]]
  /\ StoreStill /\ UNCHANGED <<svc, call>>

SourceEnds(s) ==
  /\ Scanning(s) /\ pipe[s].source = "run"
  /\ ~Some(s, {"iterator", "source"})
  /\ pipe' = [pipe EXCEPT ![s] =
       [pipe[s] EXCEPT !.source = "end", !.errs = IF pipe[s].iterator = "err" THEN Emitted(s) ELSE @]]
  /\ Still /\ UNCHANGED <<svc, place>>

\* Mutant: the source does not hear of an error in a later stage.
SourceStopsOnShutdownOnly(s) ==
  /\ Scanning(s) /\ pipe[s].source = "run"
  /\ ctx[s] = "done" /\ Some(s, {"source"})
  /\ pipe' = [pipe EXCEPT ![s].source = "end"]
  /\ place' = [place EXCEPT ![s] =
       [b \in Blocks |-> IF @[b] \in {"iterator", "source"} THEN "none" ELSE @[b]]]
  /\ Still /\ UNCHANGED <<svc>>

\* It notices the cancelled context only while it sends a payload.
SourceStops(s) ==
  /\ Scanning(s) /\ pipe[s].source = "run"
  /\ PassCancelled(s) /\ Some(s, {"source"})
  /\ pipe' = [pipe EXCEPT ![s].source = "end"]
  /\ place' = [place EXCEPT ![s] =
       [b \in Blocks |-> IF @[b] \in {"iterator", "source"} THEN "none" ELSE @[b]]]
  /\ Still /\ UNCHANGED <<svc>>

-----------------------------------------------------------------------------
(***************************************************************************)
(* Stage 0: the dynamic worker pool.  Its dispatcher takes a payload, then *)
(* a token; a worker is a goroutine per payload, and gives its token back. *)
(***************************************************************************)

TokensOut(s) == Count(s, {"fetch", "fetched"})

DispatcherTakes(s, b) ==
  /\ pipe[s].dispatcher = "run" /\ Scanning(s)
  /\ Is(s, b, "source") /\ ~Some(s, {"token"})
  /\ Move(s, b, "token")
  /\ Still /\ UNCHANGED <<svc, pipe>>

DispatcherSpawns(s, b) ==
  /\ pipe[s].dispatcher = "run"
  /\ Is(s, b, "token") /\ TokensOut(s) < dep.workers
  /\ Move(s, b, "fetch")
  /\ Still /\ UNCHANGED <<svc, pipe>>

\* Mutant: the stage ends without waiting for its workers.
DispatcherDoesNotWait(s) ==
  /\ pipe[s].dispatcher = "run" /\ Scanning(s)
  /\ \/ PassCancelled(s)
     \/ pipe[s].source = "end" /\ ~Some(s, {"source", "token"})
  /\ pipe' = [pipe EXCEPT ![s].dispatcher = "end"]
  /\ place' = [place EXCEPT ![s] = [b \in Blocks |-> IF @[b] = "token" THEN "none" ELSE @[b]]]
  /\ Still /\ UNCHANGED <<svc>>

DispatcherDrains(s) ==
  /\ pipe[s].dispatcher = "run" /\ Scanning(s)
  /\ \/ PassCancelled(s)
     \/ pipe[s].source = "end" /\ ~Some(s, {"source", "token"})
  /\ pipe' = [pipe EXCEPT ![s].dispatcher = "drain"]
  /\ place' = [place EXCEPT ![s] = [b \in Blocks |-> IF @[b] = "token" THEN "none" ELSE @[b]]]
  /\ Still /\ UNCHANGED <<svc>>

\* All tokens are back; the stage closes its output.
DispatcherEnds(s) ==
  /\ pipe[s].dispatcher = "drain"
  /\ TokensOut(s) = 0
  /\ pipe' = [pipe EXCEPT ![s].dispatcher = "end"]
  /\ Still /\ UNCHANGED <<svc, place>>

BlockFetched(s, b) ==
  /\ Is(s, b, "fetch")
  /\ Move(s, b, "fetched")
  /\ Still /\ UNCHANGED <<svc, pipe>>

BlockFetchFails(s, b) ==
  /\ Is(s, b, "fetch")
  /\ Fail
  /\ Move(s, b, "none")
  /\ pipe' = [pipe EXCEPT ![s].errs = Emitted(s)]
  /\ StoreStill /\ UNCHANGED <<svc, call>>

FetchedDropped(s, b) ==
  /\ Is(s, b, "fetched") /\ PassCancelled(s)
  /\ Move(s, b, "none")
  /\ Still /\ UNCHANGED <<svc, pipe>>

-----------------------------------------------------------------------------
(***************************************************************************)
(* Stage 1: the fixed pool of transaction parsers, each a FIFO.            *)
(***************************************************************************)

Parsing == {"wallets", "txs", "parsed"}
IdleParser(s) == Count(s, Parsing) < pipe[s].parsers

\* Mutant: the transactions go first.
ParserTakesTxsFirst(s, b) ==
  /\ Is(s, b, "fetched") /\ IdleParser(s)
  /\ Move(s, b, "txs") /\ CallInsertTxs(Carrier(s, b), TxsOf(b))
  /\ StoreStill /\ UNCHANGED <<svc, pipe, failures>>

\* A block without transactions needs no call.
ParserTakes(s, b) ==
  /\ Is(s, b, "fetched") /\ IdleParser(s)
  /\ IF TxsOf(b) = {}
       THEN Move(s, b, "parsed") /\ UNCHANGED call
       ELSE Move(s, b, "wallets") /\ CallUpsertWallets(Carrier(s, b), WalletsOf(TxsOf(b)))
  /\ StoreStill /\ UNCHANGED <<svc, pipe, failures>>

WalletsUpserted(s, b) ==
  /\ Is(s, b, "wallets") /\ Returned(Carrier(s, b), "ok")
  /\ CallInsertTxs(Carrier(s, b), TxsOf(b))
  /\ Move(s, b, "txs")
  /\ StoreStill /\ UNCHANGED <<svc, pipe, failures>>

TxsInserted(s, b) ==
  /\ Is(s, b, "txs") /\ Returned(Carrier(s, b), "ok")
  /\ EndCall(Carrier(s, b))
  /\ Move(s, b, "parsed")
  /\ StoreStill /\ UNCHANGED <<svc, pipe, failures>>

\* Mutant: the parser ignores an error of the graph.
ParserIgnoresError(s, b) ==
  /\ place[s][b] \in {"wallets", "txs"} /\ Returned(Carrier(s, b), "err")
  /\ EndCall(Carrier(s, b))
  /\ Move(s, b, "parsed")
  /\ StoreStill /\ UNCHANGED <<svc, pipe, failures>>

\* The worker that gets an error returns; the others go on.
ParserFails(s, b) ==
  /\ place[s][b] \in {"wallets", "txs"} /\ Returned(Carrier(s, b), "err")
  /\ EndCall(Carrier(s, b))
  /\ Move(s, b, "none")
  /\ pipe' = [pipe EXCEPT ![s] = [pipe[s] EXCEPT !.errs = Emitted(s), !.parsers = @ - 1]]
  /\ StoreStill /\ UNCHANGED <<svc, failures>>

ParsedDropped(s, b) ==
  /\ Is(s, b, "parsed") /\ PassCancelled(s)
  /\ Move(s, b, "none")
  /\ pipe' = [pipe EXCEPT ![s].parsers = @ - 1]
  /\ Still /\ UNCHANGED <<svc>>

\* Mutant: a worker that has a payload in hand stops.
ParserStopsBusy(s) ==
  /\ Scanning(s)
  /\ PassCancelled(s) \/ (pipe[s].dispatcher = "end" /\ ~Some(s, {"fetched"}))
  /\ pipe' = [pipe EXCEPT ![s].parsers = @ - 1]
  /\ Still /\ UNCHANGED <<svc, place>>

ParserStops(s) ==
  /\ Scanning(s) /\ IdleParser(s)
  /\ PassCancelled(s) \/ (pipe[s].dispatcher = "end" /\ ~Some(s, {"fetched"}))
  /\ pipe' = [pipe EXCEPT ![s].parsers = @ - 1]
  /\ Still /\ UNCHANGED <<svc, place>>

-----------------------------------------------------------------------------
(***************************************************************************)
(* The sink marks blocks as processed; Process collects the errors.        *)
(***************************************************************************)

SinkTakes(s, b) ==
  /\ pipe[s].sink = "run"
  /\ Is(s, b, "parsed") /\ ~Some(s, {"sink"})
  /\ CallUpsertBlocks(Carrier(s, b), b, "processed")
  /\ Move(s, b, "sink")
  /\ StoreStill /\ UNCHANGED <<svc, pipe, failures>>

SinkConsumed(s, b) ==
  /\ Is(s, b, "sink") /\ Returned(Carrier(s, b), "ok")
  /\ EndCall(Carrier(s, b))
  /\ Move(s, b, "none")
  /\ pipe' = [pipe EXCEPT ![s].todo = @ \ {b}]
  /\ StoreStill /\ UNCHANGED <<svc, failures>>

SinkFails(s, b) ==
  /\ Is(s, b, "sink") /\ Returned(Carrier(s, b), "err")
  /\ EndCall(Carrier(s, b))
  /\ Move(s, b, "none")
  /\ pipe' = [pipe EXCEPT ![s] = [pipe[s] EXCEPT !.errs = Emitted(s), !.sink = "end"]]
  /\ StoreStill /\ UNCHANGED <<svc, failures>>

SinkStops(s) ==
  /\ Scanning(s) /\ pipe[s].sink = "run" /\ ~Some(s, {"sink"})
  /\ PassCancelled(s) \/ (pipe[s].parsers = 0 /\ ~Some(s, {"parsed"}))
  /\ pipe' = [pipe EXCEPT ![s].sink = "end"]
  /\ Still /\ UNCHANGED <<svc, place>>

CollectsError(s) ==
  /\ pipe[s].errs > 0
  /\ pipe' = [pipe EXCEPT ![s] = [pipe[s] EXCEPT !.errs = @ - 1, !.failed = TRUE]]
  /\ Still /\ UNCHANGED <<svc, place>>

Scanner(s) ==
  \/ BeginsPass(s) \/ BlocksListed(s) \/ BlocksFail(s) \/ PassEnds(s) \/ ScannerStops(s)
  \/ SourceEnds(s) \/ SourceStops(s) \/ IteratorBreaks(s)
  \/ DispatcherDrains(s) \/ DispatcherEnds(s)
  \/ ParserStops(s) \/ SinkStops(s) \/ CollectsError(s)
  \/ \E b \in Blocks :
       \/ SourceNext(s, b) \/ DispatcherTakes(s, b) \/ DispatcherSpawns(s, b)
       \/ BlockFetched(s, b) \/ BlockFetchFails(s, b) \/ FetchedDropped(s, b)
       \/ ParserTakes(s, b) \/ WalletsUpserted(s, b) \/ TxsInserted(s, b)
       \/ ParserFails(s, b) \/ ParsedDropped(s, b)
       \/ SinkTakes(s, b) \/ SinkConsumed(s, b) \/ SinkFails(s, b)
=============================================================================
