-------------------------- MODULE IngestInvariants --------------------------
(***************************************************************************)
(* The inductive invariants behind the safety properties of Ingest.        *)
(***************************************************************************)
EXTENDS Ingest

\* Who is in a call, and what a thread of the pipeline called last.
BooksOf(s) ==
  /\ svc[s] # "idle" \/ ctx[s] = "done" => s \in dep.scanners
  /\ svc[s] # "scan" => pipe[s] = FreshPipe /\ \A b \in Blocks : place[s][b] = "none"
  /\ call[Lister(s)] # NoCall => svc[s] = "listing" /\ call[Lister(s)].kind = "list"
  /\ \A b \in Blocks :
       /\ call[Carrier(s, b)] # NoCall => place[s][b] \in {"wallets", "txs", "sink"}
       /\ place[s][b] = "wallets" =>
            /\ call[Carrier(s, b)].kind = "wallets"
            /\ call[Carrier(s, b)].wallets = WalletsOf(TxsOf(b))
       /\ place[s][b] = "txs" =>
            call[Carrier(s, b)].kind = "txs" /\ call[Carrier(s, b)].txs = TxsOf(b)

ServiceBooks ==
  /\ \A s \in Scanners : BooksOf(s)
  /\ call[Inserter] # NoCall => svc[Inserter] = "upsert"
  /\ ~dep.remote => call[Orphan] = NoCall

\* The steps of each method, and the rows that it has.
StepsOf(kind) ==
  CASE kind = "none" -> {"idle"}
    [] kind = "list" -> {"start", "blocks", "refresh", "query", "ok", "err"}
    [] kind = "wallets" -> {"start", "wallets", "ok", "err"}
    [] kind = "txs" -> {"start", "lockWalletC", "wallets", "txs", "ok", "err"}
    [] OTHER -> {"start", "lockTxC", "lockWalletC", "wallets", "txs", "blocks", "ok", "err"}
Shaped(r) ==
  /\ r.at \in StepsOf(r.kind)
  /\ r.kind = "list" => \A b \in Blocks : r.blocks[b] # "processed"
  /\ r.kind # "txs" => r.txs = {}

-----------------------------------------------------------------------------
\* No error has been seen or is about to be.
Calm(p, done) == ~done /\ ~p.failed /\ p.errs = 0 /\ p.iterator = "ok"

\* Payloads in the hand of a parser.
Busy(P) == Cardinality({b \in Blocks : P[b] \in Parsing})

\* A pass: place P of the blocks, pipeline p with n parsers at first.  A stage that
\* ended left nothing behind, and without an error it ended after the one before.
Flow(P, p, done, n) ==
  /\ p.source = "end" =>
       /\ \A b \in Blocks : P[b] \notin {"iterator", "source"}
       /\ p.iterator = "err" => p.errs > 0 \/ p.failed \/ done
  /\ p.dispatcher # "run" => \A b \in Blocks : P[b] # "token"
  /\ p.dispatcher = "end" => \A b \in Blocks : P[b] \notin {"fetch", "fetched"}
  /\ p.sink = "end" => \A b \in Blocks : P[b] # "sink"
  /\ \A a, b \in Blocks : P[a] = "sink" /\ P[b] = "sink" => a = b
  /\ Busy(P) <= p.parsers
  /\ Calm(p, done) =>
       /\ \A b \in p.todo : P[b] # "none"
       /\ p.dispatcher # "run" => p.source = "end"
       /\ p.parsers < n => p.dispatcher = "end"
       /\ p.sink = "end" => p.parsers = 0

FlowOf(s) == svc[s] = "scan" => Flow(place[s], pipe[s], ctx[s] = "done", dep.workers)
FlowBooks == \A s \in Scanners : FlowOf(s)

-----------------------------------------------------------------------------
\* A call asks for rows whose ground is laid: T and W are the transactions and the
\* wallets that were accepted, into the tables or the caches.
Backed(r, T, W, cached) ==
  /\ \A b \in Blocks : r.blocks[b] = "processed" => TxsOf(b) \subseteq T
  /\ WalletsOf(r.txs) \subseteq W
  /\ r.kind = "txs" /\ (r.at = "ok" \/ (cached /\ r.at \in {"lockWalletC", "wallets", "txs"})) =>
       r.txs \subseteq T
  /\ r.kind = "wallets" /\ (r.at = "ok" \/ (cached /\ r.at = "wallets")) => r.wallets \subseteq W

\* What a flush has emptied stays so until it is done.
Emptied(r, TC, WC, cached) ==
  /\ cached /\ r.kind = "blocks" /\ r.at = "blocks" => TC = {}
  /\ cached /\ r.at = "txs" => WC = {}

\* What holds of the tables whatever is lost.
TableBooks ==
  /\ \A t \in tx : WalletsOf({t}) \subseteq wallet
  /\ ~Cached => txC = {} /\ walletC = {} /\ blockC = NoMarks

\* A mark in the table, or about to come late, has its transactions there, unless an
\* inserter has taken a mark out of the refilled cache.
MarksBacked ==
  ~late.early =>
    \A b \in Blocks : block[b] = "processed" \/ late.blocks[b] = "processed" => TxsOf(b) \subseteq tx

\* Everything that comes before a mark or a transaction was accepted before it.
AcceptedBooks ==
  /\ MarksBacked
  /\ \A b \in Blocks : blockC[b] = "processed" => TxsOf(b) \subseteq tx \cup txC
  /\ \A s \in Scanners, b \in Blocks :
       place[s][b] \in {"parsed", "sink"} => TxsOf(b) \subseteq tx \cup txC
  /\ WalletsOf(txC) \subseteq wallet \cup walletC
  /\ \A c \in Callers : /\ Backed(call[c], tx \cup txC, wallet \cup walletC, Cached)
                        /\ Emptied(call[c], txC, walletC, Cached)

IngestInv ==
  /\ TypeOK /\ ServiceBooks /\ FlowBooks
  /\ \A c \in Callers : Shaped(call[c])
  /\ TableBooks
  /\ ~lost => AcceptedBooks

-----------------------------------------------------------------------------
\* Each cache has at most one call that holds its mutex.
OneHolder ==
  \A c, d \in Callers : c # d =>
    /\ ~(HoldsBlockC(c) /\ HoldsBlockC(d))
    /\ ~(HoldsTxC(c) /\ HoldsTxC(d))
    /\ ~(HoldsWalletC(c) /\ HoldsWalletC(d))

\* Call c is at a mutex that call d holds.
WaitsFor(c, d) ==
  \/ At(c, "blocks", "start") /\ HoldsBlockC(d)
  \/ (At(c, "txs", "start") \/ call[c].at = "lockTxC") /\ HoldsTxC(d)
  \/ (At(c, "wallets", "start") \/ call[c].at = "lockWalletC") /\ HoldsWalletC(d)

\* The calls inside the graph do not all wait for one another.
NoRing ==
  InTheGraph # {} => \E c \in InTheGraph : \A d \in Callers : ~WaitsFor(c, d)

-----------------------------------------------------------------------------
\* Who waits for a call has made one, and a service is where one of its kind can be.
HasCalled(s) ==
  /\ svc[s] \notin {"listen", "upsert"}
  /\ svc[s] = "listing" => call[Lister(s)].kind = "list"
  /\ \A b \in Blocks : place[s][b] = "sink" => call[Carrier(s, b)].kind = "blocks"
UnderWay ==
  /\ svc[Inserter] \notin {"listing", "scan"}
  /\ svc[Inserter] = "upsert" => call[Inserter].kind = "blocks"
  /\ \A s \in Scanners : HasCalled(s)

\* A thread of a cancelled pass is past what it waited for: it can collect an error, end,
\* or drop or hand on what it has.
ThreadGoesOn(s) ==
  \/ AllEnded(s) \/ pipe[s].errs > 0
  \/ pipe[s].source = "run"
  \/ pipe[s].dispatcher = "run" \/ (pipe[s].dispatcher = "drain" /\ TokensOut(s) = 0)
  \/ IdleParser(s)
  \/ pipe[s].sink = "run" /\ ~Some(s, {"sink"})
  \/ \E b \in Blocks :
       \/ place[s][b] \in {"fetch", "fetched", "parsed"}
       \/ place[s][b] \in {"wallets", "txs", "sink"} /\ call[Carrier(s, b)].at \in {"ok", "err"}

\* A service that is to end is not waiting, or has a call under way.
ServiceGoesOn(v) ==
  \/ svc[v] \in {"idle", "listen", "failed"}
  \/ svc[v] = "upsert" /\ call[v].at \in {"ok", "err"}
  \/ svc[v] = "listing" /\ call[Lister(v)].at \in {"ok", "err"}
  \/ svc[v] = "scan" /\ ThreadGoesOn(v)

\* No shutdown hangs: a service that is to end goes on by itself, or a call inside the
\* graph does, which waits for no other.
NoHang ==
  \A v \in Services : Ending(v) =>
    ServiceGoesOn(v) \/ \E c \in InTheGraph : \A d \in Callers : ~WaitsFor(c, d)
=============================================================================
