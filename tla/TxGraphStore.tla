---------------------------- MODULE TxGraphStore ----------------------------
(***************************************************************************)
(* The transaction graph: the tables blocks, txs and wallets, in memory or *)
(* in CockroachDB, there with three write caches in front of them or       *)
(* without, and the methods of graph.Graph that the block inserter and the *)
(* scanners call, directly or over gRPC.                                   *)
(*                                                                         *)
(* A call is a record that moves through the steps of its method; which of *)
(* the mutexes it holds follows from where it is.  A bulk statement is one *)
(* step, a flush of several caches is one step per table.                  *)
(***************************************************************************)
EXTENDS Integers, FiniteSets

CONSTANTS
  MaxBlock,         \* the chain ends here
  Txs, Wallets,
  BlockOf, TxTo,    \* block and recipient of each transaction
  ZeroAddress,      \* the wallet 00..0
  BlockCacheSize, TxCacheSize, WalletCacheSize,
  Scanners,         \* scanner services
  Inserter,         \* the block inserter service
  Orphan,           \* a call whose client gave up
  Deployments       \* the ways the program is deployed, each with the bounds heads
                    \* (the blocks announced), known (those in the table at first) and
                    \* failures (of statements, RPCs and fetches)

Blocks == 1 .. MaxBlock

\* The threads that call the graph: the inserter, and of each scanner the one
\* that lists the blocks and the one that has the payload of block b in hand.
Lister(s) == <<s, 0>>
Carrier(s, b) == <<s, b>>
Clients == (Scanners \X (0 .. MaxBlock)) \cup {Inserter}
Callers == Clients \cup {Orphan}
Services == Scanners \cup {Inserter}
ServiceOf(c) == IF c = Inserter THEN Inserter ELSE c[1]

ASSUME ChainAssumption ==
  /\ MaxBlock \in Nat
  /\ BlockOf \in [Txs -> Blocks]
  /\ TxTo \in [Txs -> Wallets] /\ ZeroAddress \in Wallets
ASSUME CacheAssumption ==
  {BlockCacheSize, TxCacheSize, WalletCacheSize} \subseteq Nat
ASSUME ClientsAssumption ==
  Orphan \notin Clients /\ Inserter \notin Scanners \cup (Scanners \X (0 .. MaxBlock))
ASSUME DeploymentsAssumption ==
  \A d \in Deployments :
    /\ d.backend \in {"memory", "cdb"} /\ d.cache \in BOOLEAN /\ d.remote \in BOOLEAN
    /\ d.scanners \subseteq Scanners /\ IsFiniteSet(d.scanners) /\ d.workers \in Nat \ {0}
    /\ d.known \in 0 .. MaxBlock /\ d.heads \subseteq Blocks /\ d.failures \in Nat
    /\ d.backend = "memory" => d.known = 0

VARIABLES
  dep,                     \* the deployment
  ctx,                     \* the context of each service
  block,                   \* table block: "absent", "new" or "processed"
  tx, wallet,              \* tables tx and wallet
  blockC, txC, walletC,    \* the caches
  call,                    \* the call each client is in
  late,                    \* rows that inserters have in hand whose call returned an error
  failures,
  lost                     \* rows are gone whose upsert returned nil

tables == <<block, tx, wallet>>
caches == <<blockC, txC, walletC>>
storeVars == <<dep, ctx, tables, caches, call, late, failures, lost>>

NoMarks == [b \in Blocks |-> "absent"]
Marks(S, m) == [b \in Blocks |-> IF b \in S THEN m ELSE "absent"]
Marked(f) == {b \in Blocks : f[b] # "absent"}
Over(f, g) == [b \in Blocks |-> IF f[b] = "absent" THEN g[b] ELSE f[b]]

From(t) == ZeroAddress
WalletsOf(T) == {From(t) : t \in T} \cup {TxTo[t] : t \in T}
TxsOf(b) == {t \in Txs : BlockOf[t] = b}

NoCall == [kind |-> "none", at |-> "idle", blocks |-> NoMarks, txs |-> {}, wallets |-> {}]

\* The inserters of a failed flush hold parts of the cache's list.  A later flush resets
\* the list, and it is refilled in place: then what they have in hand changes, until they
\* read it.  early is history: a mark got into their hands in this way.
CacheNames == {"blocks", "txs", "wallets"}
Unheld == [k \in CacheNames |-> "none"]
NoRows == [blocks |-> NoMarks, txs |-> {}, wallets |-> {}, lists |-> Unheld, early |-> FALSE]

Cached == dep.backend = "cdb" /\ dep.cache
Memory == dep.backend = "memory"

StoreInit ==
  /\ dep \in Deployments
  /\ ctx = [v \in Services |-> "live"]
  /\ block = Marks(1 .. dep.known, "new")
  /\ tx = {} /\ wallet = {}
  /\ blockC = NoMarks /\ txC = {} /\ walletC = {}
  /\ call = [c \in Callers |-> NoCall]
  /\ late = NoRows
  /\ failures = 0 /\ lost = FALSE

Fail == failures < dep.failures /\ failures' = failures + 1

-----------------------------------------------------------------------------
(***************************************************************************)
(* The client's side of a call.                                            *)
(***************************************************************************)

\* Without caches an upsert goes straight to its table.
FirstStep(kind) == IF Memory \/ Cached \/ kind = "list" THEN "start" ELSE kind

Call(c, r) == [call EXCEPT ![c] = [r EXCEPT !.at = FirstStep(r.kind)]]

CallUpsertBlocks(c, b, m) ==
  call' = Call(c, [NoCall EXCEPT !.kind = "blocks", !.blocks = Marks({b}, m)])
CallInsertTxs(c, T) == call' = Call(c, [NoCall EXCEPT !.kind = "txs", !.txs = T])
CallUpsertWallets(c, W) == call' = Call(c, [NoCall EXCEPT !.kind = "wallets", !.wallets = W])
CallBlocks(c) == call' = Call(c, [NoCall EXCEPT !.kind = "list"])

Returned(c, r) == call[c].at = r
EndCall(c) == call' = [call EXCEPT ![c] = NoCall]

\* The connection breaks, the request or the reply is lost, or the context of
\* the client is done: the client gets an error.  What the server began it ends,
\* because the handlers ignore their context.
RPCFails(c) ==
  /\ dep.remote /\ c \in Clients
  /\ call[c].at \notin {"idle", "err"}
  /\ Fail \/ (ctx[ServiceOf(c)] = "done" /\ UNCHANGED failures)
  /\ \/ /\ call[c].at \in {FirstStep(call[c].kind), "ok"}
        /\ call' = [call EXCEPT ![c].at = "err"]
     \/ /\ call[c].at # "ok" /\ call[Orphan].at = "idle"
        /\ call' = [call EXCEPT ![c].at = "err", ![Orphan] = call[c]]
  /\ UNCHANGED <<dep, ctx, tables, caches, late, lost>>

\* Nobody waits for the answer of an abandoned call.
OrphanEnds ==
  /\ call[Orphan].at \in {"ok", "err"}
  /\ EndCall(Orphan)
  /\ UNCHANGED <<dep, ctx, tables, caches, late, failures, lost>>

-----------------------------------------------------------------------------
(***************************************************************************)
(* CockroachDB: the caches.  The mutexes are taken in the order blockC,    *)
(* txC, walletC, and held until the call returns.                          *)
(***************************************************************************)

At(c, kind, at) == call[c].kind = kind /\ call[c].at = at
Goto(c, at) == call' = [call EXCEPT ![c].at = at]

\* list calls write past the caches.
Flushes(c) == Cached /\ call[c].kind # "list"

\* Mutant: an error leaves walletC locked.
HoldsWalletCAfterError(c) ==
  Flushes(c) /\ call[c].at \in {"wallets", "txs", "blocks", "err"}

HoldsWalletC(c) == Flushes(c) /\ call[c].at \in {"wallets", "txs", "blocks"}
HoldsTxC(c) ==
  /\ Flushes(c)
  /\ \/ call[c].kind = "blocks" /\ call[c].at \in {"lockWalletC", "wallets", "txs", "blocks"}
     \/ call[c].kind = "txs" /\ call[c].at \in {"lockWalletC", "wallets", "txs"}
HoldsBlockC(c) ==
  /\ Flushes(c) /\ call[c].kind = "blocks"
  /\ call[c].at \in {"lockTxC", "lockWalletC", "wallets", "txs", "blocks"}

\* A block that is in the cache is not replaced, whatever its mark.
CacheBlocks(c) ==
  /\ Cached /\ At(c, "blocks", "start")
  /\ \A d \in Callers : ~HoldsBlockC(d)
  /\ blockC' = Over(blockC, call[c].blocks)
  /\ Goto(c, IF Cardinality(Marked(blockC')) >= BlockCacheSize THEN "lockTxC" ELSE "ok")
  /\ UNCHANGED <<dep, ctx, tables, txC, walletC, late, failures, lost>>

CacheTxs(c) ==
  /\ Cached /\ At(c, "txs", "start")
  /\ \A d \in Callers : ~HoldsTxC(d)
  /\ txC' = txC \cup call[c].txs
  /\ Goto(c, IF Cardinality(txC') >= TxCacheSize THEN "lockWalletC" ELSE "ok")
  /\ UNCHANGED <<dep, ctx, tables, blockC, walletC, late, failures, lost>>

CacheWallets(c) ==
  /\ Cached /\ At(c, "wallets", "start")
  /\ \A d \in Callers : ~HoldsWalletC(d)
  /\ walletC' = walletC \cup call[c].wallets
  /\ Goto(c, IF Cardinality(walletC') >= WalletCacheSize THEN "wallets" ELSE "ok")
  /\ UNCHANGED <<dep, ctx, tables, blockC, txC, late, failures, lost>>

LockTxC(c) ==
  /\ At(c, "blocks", "lockTxC")
  /\ \A d \in Callers : ~HoldsTxC(d)
  /\ Goto(c, "lockWalletC")
  /\ UNCHANGED <<dep, ctx, tables, caches, late, failures, lost>>

LockWalletC(c) ==
  /\ call[c].at = "lockWalletC"
  /\ \A d \in Callers : ~HoldsWalletC(d)
  /\ Goto(c, "wallets")
  /\ UNCHANGED <<dep, ctx, tables, caches, late, failures, lost>>

-----------------------------------------------------------------------------
(***************************************************************************)
(* CockroachDB: batchUpsert, as far as its callers see it (BatchUpsert has *)
(* its goroutines).  It stores all rows and returns nil; or a batch fails, *)
(* then part of the rows is stored and part may be stored later, and the   *)
(* result is the error or, when that was lost, nil.  Rows that violate a   *)
(* foreign key fail.                                                       *)
(***************************************************************************)

Stored(S, L, r) == [stored |-> S, late |-> L, result |-> r]

Outcome(R, valid, o) ==
  \/ /\ valid = R
     /\ o = Stored(R, {}, "nil")
     /\ UNCHANGED failures
  \/ /\ R # {}
     /\ \E S \in SUBSET valid : \E L \in SUBSET (valid \ S) :
          \/ S # R /\ o = Stored(S, {}, "nil")
          \/ o = Stored(S, L, "err")
     /\ IF valid = R THEN Fail ELSE UNCHANGED failures

Loses(R, o) == lost' = (lost \/ (o.result = "nil" /\ o.stored # R))

\* What the inserters of failed flushes hold of the caches' lists after call c has
\* flushed cache k.
ListsAfter(c, k, o) ==
  IF ~Flushes(c) THEN late.lists
  ELSE [late.lists EXCEPT ![k] =
         CASE @ = "none" /\ o.late # {} -> "held"
           [] @ = "held" /\ o.result = "nil" -> "refilled"
           [] OTHER -> @]

\* The step after the flush of a table; only an unflushed table has one.
After(c, o, next) ==
  Goto(c, CASE o.result = "err" -> "err"
            [] o.result = "nil" /\ call[c].kind = call[c].at -> "ok"
            [] OTHER -> next)

InTable(c, table) ==
  /\ ~Memory
  /\ call[c].at = table

BulkUpsertWallets(c) ==
  /\ InTable(c, "wallets")
  /\ LET R == IF Cached THEN walletC ELSE call[c].wallets
     IN \E S \in SUBSET R : \E L \in SUBSET (R \ S), r \in {"nil", "err"} :
          LET o == Stored(S, L, r)
          IN /\ Outcome(R, R, o)
             /\ Loses(R, o)
             /\ wallet' = wallet \cup S
             /\ late' = [late EXCEPT !.wallets = @ \cup L, !.lists = ListsAfter(c, "wallets", o)]
             /\ walletC' = IF r = "nil" THEN {} ELSE walletC
             /\ After(c, o, "txs")
  /\ UNCHANGED <<dep, ctx, block, tx, blockC, txC>>

BulkUpsertTxs(c) ==
  /\ InTable(c, "txs")
  /\ LET R == IF Cached THEN txC ELSE call[c].txs
         valid == {t \in R : WalletsOf({t}) \subseteq wallet}
     IN \E S \in SUBSET R : \E L \in SUBSET (R \ S), r \in {"nil", "err"} :
          LET o == Stored(S, L, r)
          IN /\ Outcome(R, valid, o)
             /\ Loses(R, o)
             /\ tx' = tx \cup S
             /\ late' = [late EXCEPT !.txs = @ \cup L, !.lists = ListsAfter(c, "txs", o)]
             /\ txC' = IF r = "nil" THEN {} ELSE txC
             /\ After(c, o, "blocks")
  /\ UNCHANGED <<dep, ctx, block, wallet, blockC, walletC>>

BulkUpsertBlocks(c) ==
  /\ InTable(c, "blocks")
  /\ LET rows == IF Flushes(c) THEN blockC ELSE call[c].blocks
         R == Marked(rows)
         Only(S) == [b \in Blocks |-> IF b \in S THEN rows[b] ELSE "absent"]
     IN \E S \in SUBSET R : \E L \in SUBSET (R \ S), r \in {"nil", "err"} :
          LET o == Stored(S, L, r)
          IN /\ Outcome(R, R, o)
             /\ Loses(R, o)
             /\ block' = Over(Only(S), block)
             /\ late' = [late EXCEPT !.blocks = Over(Only(L), @), !.lists = ListsAfter(c, "blocks", o)]
             /\ blockC' = IF Flushes(c) /\ r = "nil" THEN NoMarks ELSE blockC
             /\ After(c, o, "query")
  /\ UNCHANGED <<dep, ctx, tx, wallet, txC, walletC>>

\* An inserter that was left over when batchUpsert returned an error stores a row.
LateRowStored ==
  /\ \/ \E w \in late.wallets :
          /\ wallet' = wallet \cup {w}
          /\ late' = [late EXCEPT !.wallets = @ \ {w}]
          /\ UNCHANGED <<block, tx>>
     \/ \E t \in late.txs :
          /\ WalletsOf({t}) \subseteq wallet
          /\ tx' = tx \cup {t}
          /\ late' = [late EXCEPT !.txs = @ \ {t}]
          /\ UNCHANGED <<block, wallet>>
     \/ \E b \in Marked(late.blocks) :
          /\ block' = [block EXCEPT ![b] = late.blocks[b]]
          /\ late' = [late EXCEPT !.blocks[b] = "absent"]
          /\ UNCHANGED <<tx, wallet>>
  /\ UNCHANGED <<dep, ctx, caches, call, failures, lost>>

\* A row in the hand of a leftover inserter, not read yet, is overwritten by one that
\* is now in the refilled list.
LateRowReplaced ==
  /\ \/ /\ late.lists["wallets"] = "refilled"
        /\ \E v \in late.wallets, w \in walletC :
             late' = [late EXCEPT !.wallets = (@ \ {v}) \cup {w}]
     \/ /\ late.lists["txs"] = "refilled"
        /\ \E s \in late.txs, t \in txC :
             late' = [late EXCEPT !.txs = (@ \ {s}) \cup {t}]
     \/ /\ late.lists["blocks"] = "refilled"
        /\ \E a \in Marked(late.blocks), b \in Marked(blockC) :
             late' = [late EXCEPT !.blocks = Over(Marks({b}, blockC[b]), [@ EXCEPT ![a] = "absent"]),
                                  !.early = TRUE]
  /\ UNCHANGED <<dep, ctx, tables, caches, call, failures, lost>>

-----------------------------------------------------------------------------
(***************************************************************************)
(* CockroachDB: the blocks to be scanned.                                  *)
(***************************************************************************)

Largest(S) == IF S = {} THEN 0 ELSE CHOOSE n \in S : \A k \in S : k <= n

Missing(seen) == {b \in Blocks : b < Largest(seen)} \ seen

\* The numbers are read largest first.  A result set that breaks off looks like
\* one that ends: rows.Err() is not asked.
RefreshReads(c) ==
  /\ ~Memory /\ At(c, "list", "start")
  /\ \E k \in 1 .. MaxBlock + 1 :
       /\ IF k = 1 THEN UNCHANGED failures ELSE Fail
       /\ call' = [call EXCEPT ![c].at = "blocks",
            ![c].blocks = Marks(Missing({b \in Marked(block) : b >= k}), "new")]
  /\ UNCHANGED <<dep, ctx, tables, caches, late, lost>>

Unprocessed == {b \in Blocks : block[b] = "new"}

\* Again a result set that breaks off is taken for all.
QueryUnprocessed(c) ==
  /\ At(c, "list", "query")
  /\ \E S \in SUBSET Unprocessed :
       /\ IF S = Unprocessed THEN UNCHANGED failures ELSE ~Memory /\ Fail
       /\ call' = [call EXCEPT ![c].at = "ok", ![c].blocks = Marks(S, "new")]
  /\ UNCHANGED <<dep, ctx, tables, caches, late, lost>>

\* The query of the refresh.  When the second one fails, rows.Close() is deferred on
\* rows that are nil, and the process panics: GraphProcessEnds has that.
QueryFails(c) ==
  /\ ~Memory /\ At(c, "list", "start")
  /\ Fail
  /\ Goto(c, "err")
  /\ UNCHANGED <<dep, ctx, tables, caches, late, lost>>

-----------------------------------------------------------------------------
(***************************************************************************)
(* The graph in memory.                                                    *)
(***************************************************************************)

\* A processed block stays processed.
MemoryUpsertBlocks(c) ==
  /\ Memory /\ At(c, "blocks", "start")
  /\ block' = [b \in Blocks |-> IF block[b] = "processed" THEN "processed"
                                ELSE Over(call[c].blocks, block)[b]]
  /\ Goto(c, "ok")
  /\ UNCHANGED <<dep, ctx, tx, wallet, caches, late, failures, lost>>

\* The transactions before the one with an unknown wallet stay.
MemoryInsertTxs(c) ==
  /\ Memory /\ At(c, "txs", "start")
  /\ LET known == {t \in call[c].txs : WalletsOf({t}) \subseteq wallet}
     IN IF known = call[c].txs
          THEN tx' = tx \cup known /\ Goto(c, "ok")
          ELSE \E S \in SUBSET known : tx' = tx \cup S /\ Goto(c, "err")
  /\ UNCHANGED <<dep, ctx, block, wallet, caches, late, failures, lost>>

MemoryUpsertWallets(c) ==
  /\ Memory /\ At(c, "wallets", "start")
  /\ wallet' = wallet \cup call[c].wallets
  /\ Goto(c, "ok")
  /\ UNCHANGED <<dep, ctx, block, tx, caches, late, failures, lost>>

MemoryFindsLargest(c) ==
  /\ Memory /\ At(c, "list", "start")
  /\ call' = [call EXCEPT ![c].at = "refresh",
       ![c].blocks = Marks({b \in Blocks : b < Largest(Marked(block))}, "new")]
  /\ UNCHANGED <<dep, ctx, tables, caches, late, failures, lost>>

MemoryInsertsMissing(c) ==
  /\ Memory /\ At(c, "list", "refresh")
  /\ block' = Over(block, call[c].blocks)
  /\ Goto(c, "query")
  /\ UNCHANGED <<dep, ctx, tx, wallet, caches, late, failures, lost>>

\* The refresh reads the map without the lock while another call writes it:
\* the Go runtime notices and ends the process.
MapRace ==
  /\ Memory
  /\ \E c, d \in Callers : At(c, "list", "refresh") /\ At(d, "blocks", "start")

-----------------------------------------------------------------------------
\* The process that holds the graph ends: the caches are gone, and with the
\* in-memory graph everything is.  Over gRPC the clients live on, and rely on
\* rows that were acknowledged but only cached, or only in memory.  The statements that
\* CockroachDB has begun it ends.
StoreCrash ==
  /\ lost' = (lost \/ (dep.remote /\ ~(txC = {} /\ walletC = {} /\ (Memory => tx = {} /\ wallet = {}))))
  /\ blockC' = NoMarks /\ txC' = {} /\ walletC' = {}
  /\ IF Memory
       THEN block' = NoMarks /\ tx' = {} /\ wallet' = {} /\ late' = NoRows
       ELSE late' = [late EXCEPT !.lists = Unheld] /\ UNCHANGED tables
  /\ UNCHANGED dep

\* A step of a method of the graph: called directly in the monolith, otherwise by
\* the server's method of the same name, which does not look at its context.
GraphCall(c) ==
  \/ CacheBlocks(c) \/ CacheTxs(c) \/ CacheWallets(c) \/ LockTxC(c) \/ LockWalletC(c)
  \/ BulkUpsertWallets(c) \/ BulkUpsertTxs(c) \/ BulkUpsertBlocks(c)
  \/ RefreshReads(c) \/ QueryUnprocessed(c) \/ QueryFails(c)
  \/ MemoryUpsertBlocks(c) \/ MemoryInsertTxs(c) \/ MemoryUpsertWallets(c)
  \/ MemoryFindsLargest(c) \/ MemoryInsertsMissing(c)

StoreTypeOK ==
  /\ dep \in Deployments
  /\ ctx \in [Services -> {"live", "done"}]
  /\ block \in [Blocks -> {"absent", "new", "processed"}]
  /\ tx \subseteq Txs /\ wallet \subseteq Wallets
  /\ blockC \in [Blocks -> {"absent", "new", "processed"}]
  /\ txC \subseteq Txs /\ walletC \subseteq Wallets
  /\ call \in [Callers ->
       [kind : {"none", "blocks", "txs", "wallets", "list"},
        at : {"idle", "start", "lockTxC", "lockWalletC", "wallets", "txs", "blocks",
              "refresh", "query", "ok", "err"},
        blocks : [Blocks -> {"absent", "new", "processed"}],
        txs : SUBSET Txs, wallets : SUBSET Wallets]]
  /\ late \in [blocks : [Blocks -> {"absent", "new", "processed"}],
               txs : SUBSET Txs, wallets : SUBSET Wallets,
               lists : [CacheNames -> {"none", "held", "refilled"}], early : BOOLEAN]
  /\ failures \in Nat /\ lost \in BOOLEAN
=============================================================================
