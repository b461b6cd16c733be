---------------------------- MODULE IngestProofs ----------------------------
(***************************************************************************)
(* The safety of Ingest, for any chain, any caches and any deployments.    *)
(***************************************************************************)
EXTENDS IngestInvariants, FiniteSetTheorems, TLAPS

MarkSet == {"absent", "new", "processed"}
Kinds == {"none", "blocks", "txs", "wallets", "list"}
Steps == {"idle", "start", "lockTxC", "lockWalletC", "wallets", "txs", "blocks",
          "refresh", "query", "ok", "err"}
Records == [kind : Kinds, at : Steps, blocks : [Blocks -> MarkSet],
            txs : SUBSET Txs, wallets : SUBSET Wallets]
Lists == [CacheNames -> {"none", "held", "refilled"}]
LateRows == [blocks : [Blocks -> MarkSet], txs : SUBSET Txs, wallets : SUBSET Wallets,
             lists : Lists, early : BOOLEAN]

\* The type invariant, table by table.
TablesOK ==
  /\ block \in [Blocks -> MarkSet] /\ tx \subseteq Txs /\ wallet \subseteq Wallets
  /\ blockC \in [Blocks -> MarkSet] /\ txC \subseteq Txs /\ walletC \subseteq Wallets
  /\ late \in LateRows /\ failures \in Nat /\ lost \in BOOLEAN
CallsOK == call \in [Callers -> Records]
DeploymentOK == dep \in Deployments /\ ctx \in [Services -> {"live", "done"}]
ServicesOK == svc \in [Services -> {"idle", "listing", "scan", "listen", "upsert", "failed", "returned"}]
Places == {"none", "iterator", "source", "token", "fetch", "fetched", "wallets", "txs", "parsed", "sink"}
PlacesOK == place \in [Scanners -> [Blocks -> Places]]
Pipes == [source : {"run", "end"}, dispatcher : {"run", "drain", "end"}, parsers : Nat,
          sink : {"run", "end"}, iterator : {"ok", "err"}, errs : 0 .. ErrCap,
          failed : BOOLEAN, todo : SUBSET Blocks]
PipesOK == pipe \in [Scanners -> Pipes]

LEMMA TypeParts ==
  /\ TypeOK <=> /\ TablesOK /\ CallsOK /\ DeploymentOK /\ ServicesOK /\ PlacesOK /\ PipesOK
  /\ TypeOK' <=> /\ TablesOK' /\ CallsOK' /\ DeploymentOK' /\ ServicesOK' /\ PlacesOK' /\ PipesOK'
  BY DEF TypeOK, StoreTypeOK, TablesOK, CallsOK, DeploymentOK, ServicesOK, PlacesOK, PipesOK,
     MarkSet, Kinds, Steps, Records, LateRows, Lists, Places, Pipes

LEMMA Constants ==
  /\ MaxBlock \in Nat /\ BlockOf \in [Txs -> Blocks] /\ TxTo \in [Txs -> Wallets]
  /\ ZeroAddress \in Wallets
  /\ ErrCap \in Nat /\ ErrCap > 0
  /\ Inserter \notin Scanners /\ Orphan \notin Clients
  /\ \A s \in Scanners : /\ Lister(s) \in Clients /\ Lister(s) # Inserter
                         /\ \A b \in Blocks : Carrier(s, b) \in Clients /\ Carrier(s, b) # Inserter
  BY ChainAssumption, ErrCapAssumption, ClientsAssumption
     DEF Blocks, Lister, Carrier, Clients

\* The rows of blocks that the methods build.
LEMMA MarkFunctions ==
  /\ NoMarks \in [Blocks -> MarkSet]
  /\ \A S, m : m \in MarkSet => Marks(S, m) \in [Blocks -> MarkSet]
  /\ \A f, g : f \in [Blocks -> MarkSet] /\ g \in [Blocks -> MarkSet] => Over(f, g) \in [Blocks -> MarkSet]
  BY DEF NoMarks, Marks, Over, MarkSet

LEMMA NoCallRecord == NoCall \in Records /\ NoRows \in LateRows
  BY MarkFunctions DEF NoCall, NoRows, Records, LateRows, Lists, Unheld, Kinds, Steps

LEMMA ListsTyped ==
  ASSUME late \in LateRows, NEW c, NEW k \in CacheNames, NEW o
  PROVE  ListsAfter(c, k, o) \in Lists
  BY DEF ListsAfter, LateRows, Lists

\* A list of transactions names wallets only.
LEMMA WalletsTyped == \A T : T \subseteq Txs => WalletsOf(T) \subseteq Wallets
  BY Constants DEF WalletsOf, From

LEMMA FirstStepTyped == \A k \in Kinds : FirstStep(k) \in Steps \/ k = "none"
  BY DEF FirstStep, Kinds, Steps

-----------------------------------------------------------------------------
(***************************************************************************)
(* A step of a call changes its record, and no other.                      *)
(***************************************************************************)
LEMMA StepsOfKinds ==
  /\ StepsOf("none") = {"idle"}
  /\ StepsOf("list") = {"start", "blocks", "refresh", "query", "ok", "err"}
  /\ StepsOf("wallets") = {"start", "wallets", "ok", "err"}
  /\ StepsOf("txs") = {"start", "lockWalletC", "wallets", "txs", "ok", "err"}
  /\ StepsOf("blocks") = {"start", "lockTxC", "lockWalletC", "wallets", "txs", "blocks", "ok", "err"}
  BY DEF StepsOf

\* The record after a step of a method.
Moves(c) ==
  /\ CallsOK'
  /\ \A d \in Callers : d # c => call'[d] = call[d]
  /\ call[c].kind # "none"
  /\ call'[c].kind = call[c].kind
  /\ call'[c].txs = call[c].txs /\ call'[c].wallets = call[c].wallets
  /\ call[c].kind # "list" => call'[c].blocks = call[c].blocks
  /\ Shaped(call'[c])

LEMMA GotoMoves ==
  ASSUME NEW c \in Callers, NEW at, CallsOK, Shaped(call[c]), Goto(c, at),
         call[c].kind # "none", at \in StepsOf(call[c].kind)
  PROVE  Moves(c) /\ call'[c].at = at /\ call'[c].blocks = call[c].blocks
<1>1. call[c] \in Records /\ at \in Steps
  BY StepsOfKinds DEF CallsOK, Records, Kinds, Steps
<1>2. call' = [call EXCEPT ![c] = [call[c] EXCEPT !.at = at]]
  BY DEF Goto
<1>3. [call[c] EXCEPT !.at = at] \in Records
  BY <1>1 DEF Records
<1>4. CallsOK' /\ call'[c] = [call[c] EXCEPT !.at = at] /\ \A d \in Callers : d # c => call'[d] = call[d]
  BY <1>2, <1>3 DEF CallsOK
<1>5. /\ call'[c].at = at /\ call'[c].kind = call[c].kind /\ call'[c].blocks = call[c].blocks
      /\ call'[c].txs = call[c].txs /\ call'[c].wallets = call[c].wallets
  BY <1>1, <1>4 DEF Records
<1>6. QED
  BY <1>4, <1>5 DEF Moves, Shaped

\* A list call also replaces its rows, by new ones.
LEMMA ListMoves ==
  ASSUME NEW c \in Callers, NEW at, NEW S, CallsOK, Shaped(call[c]),
         call' = [call EXCEPT ![c].at = at, ![c].blocks = Marks(S, "new")],
         call[c].kind = "list", at \in StepsOf("list")
  PROVE  Moves(c) /\ call'[c].at = at /\ call'[c].blocks = Marks(S, "new")
<1>1. call[c] \in Records /\ at \in Steps /\ Marks(S, "new") \in [Blocks -> MarkSet]
  BY StepsOfKinds, MarkFunctions DEF CallsOK, Steps, MarkSet
<1>2. call' = [call EXCEPT ![c] = [call[c] EXCEPT !.at = at, !.blocks = Marks(S, "new")]]
  <2> DEFINE r == [call[c] EXCEPT !.at = at]
             f == [call EXCEPT ![c] = r]
  <2>1. f[c] = r /\ call' = [f EXCEPT ![c] = [r EXCEPT !.blocks = Marks(S, "new")]]
    BY DEF CallsOK
  <2>2. [r EXCEPT !.blocks = Marks(S, "new")] = [call[c] EXCEPT !.at = at, !.blocks = Marks(S, "new")]
    OBVIOUS
  <2>3. [f EXCEPT ![c] = [r EXCEPT !.blocks = Marks(S, "new")]]
          = [call EXCEPT ![c] = [r EXCEPT !.blocks = Marks(S, "new")]]
    BY DEF CallsOK
  <2> HIDE DEF f
  <2>4. QED
    BY <2>1, <2>2, <2>3
<1>3. [call[c] EXCEPT !.at = at, !.blocks = Marks(S, "new")] \in Records
  BY <1>1 DEF Records
<1>4. /\ CallsOK' /\ call'[c] = [call[c] EXCEPT !.at = at, !.blocks = Marks(S, "new")]
      /\ \A d \in Callers : d # c => call'[d] = call[d]
  BY <1>2, <1>3 DEF CallsOK
<1>5. /\ call'[c].at = at /\ call'[c].kind = call[c].kind /\ call'[c].blocks = Marks(S, "new")
      /\ call'[c].txs = call[c].txs /\ call'[c].wallets = call[c].wallets
  <2> DEFINE r == [call[c] EXCEPT !.at = at]
             q == [r EXCEPT !.blocks = Marks(S, "new")]
  <2>1. r \in Records /\ r.at = at /\ r.kind = call[c].kind /\ r.txs = call[c].txs /\ r.wallets = call[c].wallets
    BY <1>1 DEF Records
  <2>2. call'[c] = q
    BY <1>4
  <2> HIDE DEF r
  <2>3. q.at = r.at /\ q.kind = r.kind /\ q.blocks = Marks(S, "new") /\ q.txs = r.txs /\ q.wallets = r.wallets
    BY <2>1 DEF Records
  <2> HIDE DEF q
  <2>4. QED
    BY <2>1, <2>2, <2>3
<1>6. \A b \in Blocks : Marks(S, "new")[b] # "processed"
  BY DEF Marks
<1>7. QED
  BY <1>4, <1>5, <1>6 DEF Moves, Shaped

LEMMA AfterMoves ==
  ASSUME NEW c \in Callers, NEW S, NEW L, NEW r \in {"nil", "err"}, NEW next, CallsOK, Shaped(call[c]),
         After(c, Stored(S, L, r), next), call[c].kind # "none", "err" \in StepsOf(call[c].kind),
         "ok" \in StepsOf(call[c].kind), call[c].kind # call[c].at => next \in StepsOf(call[c].kind)
  PROVE  /\ Moves(c) /\ call'[c].blocks = call[c].blocks
         /\ r = "err" => call'[c].at = "err"
         /\ r = "nil" /\ call[c].kind = call[c].at => call'[c].at = "ok"
         /\ r = "nil" /\ call[c].kind # call[c].at => call'[c].at = next
<1>1. CASE r = "err"
  <2>1. Goto(c, "err")
    BY <1>1 DEF After, Stored
  <2>2. QED
    BY <1>1, <2>1, GotoMoves
<1>2. CASE r = "nil" /\ call[c].kind = call[c].at
  <2>1. Goto(c, "ok")
    BY <1>2 DEF After, Stored
  <2>2. QED
    BY <1>2, <2>1, GotoMoves
<1>3. CASE r = "nil" /\ call[c].kind # call[c].at
  <2>1. Goto(c, next)
    BY <1>3 DEF After, Stored
  <2>2. QED
    BY <1>3, <2>1, GotoMoves
<1>4. QED
  BY <1>1, <1>2, <1>3

LEMMA FailureCounted ==
  ASSUME failures \in Nat, Fail \/ UNCHANGED failures
  PROVE  failures' \in Nat
  BY DEF Fail

LEMMA OutcomeCounted ==
  ASSUME NEW R, NEW valid, NEW o, failures \in Nat, Outcome(R, valid, o)
  PROVE  failures' \in Nat
  BY DEF Outcome, Fail

\* What a step of a method does to the types and to its record.
GraphStep(c) == TablesOK' /\ Moves(c) /\ UNCHANGED <<dep, ctx>>

\* A call in its method has a kind whose steps it is at.
LEMMA WhereTheCallIs ==
  ASSUME NEW c \in Callers, CallsOK, Shaped(call[c])
  PROVE  /\ call[c] \in Records /\ call[c].at \in StepsOf(call[c].kind)
         /\ call[c].kind = "none" => call[c].at = "idle"
         /\ call[c].at = "lockTxC" => call[c].kind = "blocks"
         /\ call[c].at = "lockWalletC" => call[c].kind \in {"blocks", "txs"}
         /\ call[c].at = "wallets" => call[c].kind \in {"blocks", "txs", "wallets"}
         /\ call[c].at = "txs" => call[c].kind \in {"blocks", "txs"}
         /\ call[c].at = "blocks" => call[c].kind \in {"blocks", "list"}
<1>1. call[c] \in Records /\ call[c].kind \in Kinds
  BY DEF CallsOK, Records
<1>2. call[c].at \in StepsOf(call[c].kind)
  BY DEF Shaped
<1>3. QED
  BY <1>1, <1>2, StepsOfKinds DEF Kinds

LEMMA CachingSteps ==
  ASSUME TypeOK, NEW c \in Callers, Shaped(call[c]),
         CacheBlocks(c) \/ CacheTxs(c) \/ CacheWallets(c) \/ LockTxC(c) \/ LockWalletC(c)
  PROVE  GraphStep(c)
<1>0. TablesOK /\ CallsOK /\ call[c] \in Records
  BY TypeParts DEF CallsOK
<1>1. CASE CacheBlocks(c)
  <2>1. TablesOK'
    <3>1. blockC' \in [Blocks -> MarkSet]
      BY <1>0, <1>1, MarkFunctions DEF CacheBlocks, TablesOK, Records
    <3>2. QED
      BY <1>0, <1>1, <3>1 DEF CacheBlocks, TablesOK, tables
  <2>2. Moves(c)
    BY <1>0, <1>1, GotoMoves, StepsOfKinds DEF CacheBlocks, At
  <2>3. QED
    BY <1>1, <2>1, <2>2 DEF CacheBlocks, GraphStep
<1>2. CASE CacheTxs(c)
  <2>1. TablesOK'
    BY <1>0, <1>2 DEF CacheTxs, TablesOK, tables, Records
  <2>2. Moves(c)
    BY <1>0, <1>2, GotoMoves, StepsOfKinds DEF CacheTxs, At
  <2>3. QED
    BY <1>2, <2>1, <2>2 DEF CacheTxs, GraphStep
<1>3. CASE CacheWallets(c)
  <2>1. TablesOK'
    BY <1>0, <1>3 DEF CacheWallets, TablesOK, tables, Records
  <2>2. Moves(c)
    BY <1>0, <1>3, GotoMoves, StepsOfKinds DEF CacheWallets, At
  <2>3. QED
    BY <1>3, <2>1, <2>2 DEF CacheWallets, GraphStep
<1>4. CASE LockTxC(c)
  <2>1. TablesOK'
    BY <1>0, <1>4 DEF LockTxC, TablesOK, tables, caches
  <2>2. Moves(c)
    BY <1>0, <1>4, GotoMoves, StepsOfKinds DEF LockTxC, At
  <2>3. QED
    BY <1>4, <2>1, <2>2 DEF LockTxC, GraphStep
<1>5. CASE LockWalletC(c)
  <2>1. TablesOK'
    BY <1>0, <1>5 DEF LockWalletC, TablesOK, tables, caches
  <2>2. "wallets" \in StepsOf(call[c].kind) /\ call[c].kind # "none"
    BY <1>0, <1>5, WhereTheCallIs, StepsOfKinds DEF LockWalletC
  <2>3. Moves(c)
    BY <1>0, <1>5, <2>2, GotoMoves DEF LockWalletC
  <2>4. QED
    BY <1>5, <2>1, <2>3 DEF LockWalletC, GraphStep
<1>6. QED
  BY <1>1, <1>2, <1>3, <1>4, <1>5

LEMMA BulkSteps ==
  ASSUME TypeOK, NEW c \in Callers, Shaped(call[c]),
         BulkUpsertWallets(c) \/ BulkUpsertTxs(c) \/ BulkUpsertBlocks(c)
  PROVE  GraphStep(c)
<1>0. TablesOK /\ CallsOK /\ call[c] \in Records
  BY TypeParts DEF CallsOK
<1>1. CASE BulkUpsertWallets(c)
  <2> DEFINE R == IF Cached THEN walletC ELSE call[c].wallets
  <2>1. PICK S \in SUBSET R : \E L \in SUBSET (R \ S), r \in {"nil", "err"} :
          /\ Outcome(R, R, Stored(S, L, r)) /\ Loses(R, Stored(S, L, r))
          /\ wallet' = wallet \cup S
          /\ late' = [late EXCEPT !.wallets = @ \cup L, !.lists = ListsAfter(c, "wallets", Stored(S, L, r))]
          /\ walletC' = IF r = "nil" THEN {} ELSE walletC
          /\ After(c, Stored(S, L, r), "txs")
    BY <1>1 DEF BulkUpsertWallets
  <2>2. PICK L \in SUBSET (R \ S), r \in {"nil", "err"} :
          /\ Outcome(R, R, Stored(S, L, r)) /\ Loses(R, Stored(S, L, r))
          /\ wallet' = wallet \cup S
          /\ late' = [late EXCEPT !.wallets = @ \cup L, !.lists = ListsAfter(c, "wallets", Stored(S, L, r))]
          /\ walletC' = IF r = "nil" THEN {} ELSE walletC
          /\ After(c, Stored(S, L, r), "txs")
    BY <2>1
  <2>3. R \subseteq Wallets
    BY <1>0 DEF TablesOK, Records
  <2>4. failures' \in Nat /\ lost' \in BOOLEAN
    BY <1>0, <2>2, OutcomeCounted DEF TablesOK, Loses
  <2>5. late' \in LateRows /\ wallet' \subseteq Wallets /\ walletC' \subseteq Wallets
    BY <1>0, <2>2, <2>3, ListsTyped DEF TablesOK, LateRows, CacheNames
  <2>6. TablesOK'
    BY <1>0, <1>1, <2>4, <2>5 DEF TablesOK, BulkUpsertWallets
  <2>7. /\ call[c].kind \in {"blocks", "txs", "wallets"} /\ call[c].at = "wallets"
    BY <1>0, <1>1, WhereTheCallIs DEF BulkUpsertWallets, InTable
  <2>8. Moves(c)
    BY <1>0, <2>2, <2>7, AfterMoves, StepsOfKinds
  <2>9. QED
    BY <1>1, <2>6, <2>8 DEF BulkUpsertWallets, GraphStep
<1>2. CASE BulkUpsertTxs(c)
  <2> DEFINE R == IF Cached THEN txC ELSE call[c].txs
             valid == {t \in R : WalletsOf({t}) \subseteq wallet}
  <2>1. PICK S \in SUBSET R : \E L \in SUBSET (R \ S), r \in {"nil", "err"} :
          /\ Outcome(R, valid, Stored(S, L, r)) /\ Loses(R, Stored(S, L, r))
          /\ tx' = tx \cup S
          /\ late' = [late EXCEPT !.txs = @ \cup L, !.lists = ListsAfter(c, "txs", Stored(S, L, r))]
          /\ txC' = IF r = "nil" THEN {} ELSE txC
          /\ After(c, Stored(S, L, r), "blocks")
    BY <1>2 DEF BulkUpsertTxs
  <2>2. PICK L \in SUBSET (R \ S), r \in {"nil", "err"} :
          /\ Outcome(R, valid, Stored(S, L, r)) /\ Loses(R, Stored(S, L, r))
          /\ tx' = tx \cup S
          /\ late' = [late EXCEPT !.txs = @ \cup L, !.lists = ListsAfter(c, "txs", Stored(S, L, r))]
          /\ txC' = IF r = "nil" THEN {} ELSE txC
          /\ After(c, Stored(S, L, r), "blocks")
    BY <2>1
  <2>3. R \subseteq Txs
    BY <1>0 DEF TablesOK, Records
  <2>4. failures' \in Nat /\ lost' \in BOOLEAN
    BY <1>0, <2>2, OutcomeCounted DEF TablesOK, Loses
  <2>5. late' \in LateRows /\ tx' \subseteq Txs /\ txC' \subseteq Txs
    BY <1>0, <2>2, <2>3, ListsTyped DEF TablesOK, LateRows, CacheNames
  <2>6. TablesOK'
    BY <1>0, <1>2, <2>4, <2>5 DEF TablesOK, BulkUpsertTxs
  <2>7. /\ call[c].kind \in {"blocks", "txs"} /\ call[c].at = "txs"
    BY <1>0, <1>2, WhereTheCallIs DEF BulkUpsertTxs, InTable
  <2>8. Moves(c)
    BY <1>0, <2>2, <2>7, AfterMoves, StepsOfKinds
  <2>9. QED
    BY <1>2, <2>6, <2>8 DEF BulkUpsertTxs, GraphStep
<1>3. CASE BulkUpsertBlocks(c)
  <2> DEFINE rows == IF Flushes(c) THEN blockC ELSE call[c].blocks
             R == Marked(rows)
             Only(S) == [b \in Blocks |-> IF b \in S THEN rows[b] ELSE "absent"]
  <2>1. PICK S \in SUBSET R : \E L \in SUBSET (R \ S), r \in {"nil", "err"} :
          /\ Outcome(R, R, Stored(S, L, r)) /\ Loses(R, Stored(S, L, r))
          /\ block' = Over(Only(S), block)
          /\ late' = [late EXCEPT !.blocks = Over(Only(L), @), !.lists = ListsAfter(c, "blocks", Stored(S, L, r))]
          /\ blockC' = IF Flushes(c) /\ r = "nil" THEN NoMarks ELSE blockC
          /\ After(c, Stored(S, L, r), "query")
    BY <1>3 DEF BulkUpsertBlocks
  <2>2. PICK L \in SUBSET (R \ S), r \in {"nil", "err"} :
          /\ Outcome(R, R, Stored(S, L, r)) /\ Loses(R, Stored(S, L, r))
          /\ block' = Over(Only(S), block)
          /\ late' = [late EXCEPT !.blocks = Over(Only(L), @), !.lists = ListsAfter(c, "blocks", Stored(S, L, r))]
          /\ blockC' = IF Flushes(c) /\ r = "nil" THEN NoMarks ELSE blockC
          /\ After(c, Stored(S, L, r), "query")
    BY <2>1
  <2>3. \A T : Only(T) \in [Blocks -> MarkSet]
    BY <1>0 DEF TablesOK, Records, MarkSet
  <2>4. failures' \in Nat /\ lost' \in BOOLEAN
    BY <1>0, <2>2, OutcomeCounted DEF TablesOK, Loses
  <2> HIDE DEF Only, R
  <2>5. block' \in [Blocks -> MarkSet] /\ blockC' \in [Blocks -> MarkSet]
    BY <1>0, <2>2, <2>3, MarkFunctions DEF TablesOK
  <2>6. late' \in LateRows
    <3>1. Over(Only(L), late.blocks) \in [Blocks -> MarkSet]
      BY <1>0, <2>3, MarkFunctions DEF TablesOK, LateRows
    <3>2. QED
      BY <1>0, <2>2, <3>1, ListsTyped DEF TablesOK, LateRows, CacheNames
  <2>7. TablesOK'
    BY <1>0, <1>3, <2>4, <2>5, <2>6 DEF TablesOK, BulkUpsertBlocks
  <2>8. /\ call[c].kind \in {"blocks", "list"} /\ call[c].at = "blocks"
    BY <1>0, <1>3, WhereTheCallIs DEF BulkUpsertBlocks, InTable
  <2>9. Moves(c)
    BY <1>0, <2>2, <2>8, AfterMoves, StepsOfKinds
  <2>10. QED
    BY <1>3, <2>7, <2>9 DEF BulkUpsertBlocks, GraphStep
<1>4. QED
  BY <1>1, <1>2, <1>3

LEMMA ListSteps ==
  ASSUME TypeOK, NEW c \in Callers, Shaped(call[c]),
         \/ RefreshReads(c) \/ QueryUnprocessed(c) \/ QueryFails(c)
         \/ MemoryFindsLargest(c) \/ MemoryInsertsMissing(c)
  PROVE  GraphStep(c)
<1>0. TablesOK /\ CallsOK /\ call[c] \in Records
  BY TypeParts DEF CallsOK
<1>1. CASE RefreshReads(c)
  <2>1. PICK k \in 1 .. MaxBlock + 1 :
          /\ Fail \/ UNCHANGED failures
          /\ call' = [call EXCEPT ![c].at = "blocks",
                  ![c].blocks = Marks(Missing({b \in Marked(block) : b >= k}), "new")]
    BY <1>1 DEF RefreshReads
  <2>2. TablesOK'
    BY <1>0, <1>1, <2>1, FailureCounted DEF TablesOK, tables, caches, RefreshReads
  <2>3. Moves(c)
    BY <1>0, <1>1, <2>1, ListMoves, StepsOfKinds DEF RefreshReads, At
  <2>4. QED
    BY <1>1, <2>2, <2>3 DEF RefreshReads, GraphStep
<1>2. CASE QueryUnprocessed(c)
  <2>1. PICK S : /\ Fail \/ UNCHANGED failures
                 /\ call' = [call EXCEPT ![c].at = "ok", ![c].blocks = Marks(S, "new")]
    BY <1>2 DEF QueryUnprocessed
  <2>2. TablesOK'
    BY <1>0, <1>2, <2>1, FailureCounted DEF TablesOK, tables, caches, QueryUnprocessed
  <2>3. Moves(c)
    BY <1>0, <1>2, <2>1, ListMoves, StepsOfKinds DEF QueryUnprocessed, At
  <2>4. QED
    BY <1>2, <2>2, <2>3 DEF QueryUnprocessed, GraphStep
<1>3. CASE QueryFails(c)
  <2>1. TablesOK'
    BY <1>0, <1>3, FailureCounted DEF TablesOK, tables, caches, QueryFails
  <2>2. Moves(c)
    BY <1>0, <1>3, GotoMoves, StepsOfKinds DEF QueryFails, At
  <2>3. QED
    BY <1>3, <2>1, <2>2 DEF QueryFails, GraphStep
<1>4. CASE MemoryFindsLargest(c)
  <2>1. TablesOK'
    BY <1>0, <1>4 DEF TablesOK, tables, caches, MemoryFindsLargest
  <2>2. Moves(c)
    BY <1>0, <1>4, ListMoves, StepsOfKinds DEF MemoryFindsLargest, At
  <2>3. QED
    BY <1>4, <2>1, <2>2 DEF MemoryFindsLargest, GraphStep
<1>5. CASE MemoryInsertsMissing(c)
  <2>1. block' \in [Blocks -> MarkSet]
    BY <1>0, <1>5, MarkFunctions DEF TablesOK, Records, MemoryInsertsMissing
  <2>2. TablesOK'
    BY <1>0, <1>5, <2>1 DEF TablesOK, tables, caches, MemoryInsertsMissing
  <2>3. Moves(c)
    BY <1>0, <1>5, GotoMoves, StepsOfKinds DEF MemoryInsertsMissing, At
  <2>4. QED
    BY <1>5, <2>2, <2>3 DEF MemoryInsertsMissing, GraphStep
<1>6. QED
  BY <1>1, <1>2, <1>3, <1>4, <1>5

LEMMA MemorySteps ==
  ASSUME TypeOK, NEW c \in Callers, Shaped(call[c]),
         MemoryUpsertBlocks(c) \/ MemoryInsertTxs(c) \/ MemoryUpsertWallets(c)
  PROVE  GraphStep(c)
<1>0. TablesOK /\ CallsOK /\ call[c] \in Records
  BY TypeParts DEF CallsOK
<1>1. CASE MemoryUpsertBlocks(c)
  <2>1. block' \in [Blocks -> MarkSet]
    <3>1. Over(call[c].blocks, block) \in [Blocks -> MarkSet]
      BY <1>0, MarkFunctions DEF TablesOK, Records
    <3>2. QED
      BY <1>1, <3>1 DEF MemoryUpsertBlocks, MarkSet
  <2>2. TablesOK'
    BY <1>0, <1>1, <2>1 DEF TablesOK, caches, MemoryUpsertBlocks
  <2>3. Moves(c)
    BY <1>0, <1>1, GotoMoves, StepsOfKinds DEF MemoryUpsertBlocks, At
  <2>4. QED
    BY <1>1, <2>2, <2>3 DEF MemoryUpsertBlocks, GraphStep
<1>2. CASE MemoryInsertTxs(c)
  <2>1. /\ tx' \subseteq tx \cup call[c].txs
        /\ Goto(c, "ok") \/ Goto(c, "err")
    BY <1>2 DEF MemoryInsertTxs
  <2>2. TablesOK'
    BY <1>0, <1>2, <2>1 DEF TablesOK, caches, MemoryInsertTxs, Records
  <2>3. Moves(c)
    BY <1>0, <1>2, <2>1, GotoMoves, StepsOfKinds DEF MemoryInsertTxs, At
  <2>4. QED
    BY <1>2, <2>2, <2>3 DEF MemoryInsertTxs, GraphStep
<1>3. CASE MemoryUpsertWallets(c)
  <2>1. TablesOK'
    BY <1>0, <1>3 DEF TablesOK, caches, MemoryUpsertWallets, Records
  <2>2. Moves(c)
    BY <1>0, <1>3, GotoMoves, StepsOfKinds DEF MemoryUpsertWallets, At
  <2>3. QED
    BY <1>3, <2>1, <2>2 DEF MemoryUpsertWallets, GraphStep
<1>4. QED
  BY <1>1, <1>2, <1>3

LEMMA GraphCallSteps ==
  ASSUME TypeOK, NEW c \in Callers, Shaped(call[c]), GraphCall(c)
  PROVE  GraphStep(c)
  BY CachingSteps, BulkSteps, ListSteps, MemorySteps DEF GraphCall

\* The books hold as long as no call is made and none changes its kind or rows.
LEMMA CallsKeepBooks ==
  ASSUME ServiceBooks, UNCHANGED <<svc, place, pipe, dep, ctx>>,
         \A d \in Clients : /\ call'[d] # NoCall => call[d] # NoCall
                            /\ call'[d].kind = call[d].kind
                            /\ call[d].kind # "none" => /\ call'[d].txs = call[d].txs
                                                        /\ call'[d].wallets = call[d].wallets,
         ~dep.remote => call'[Orphan] = NoCall
  PROVE  ServiceBooks'
<1>1. FreshPipe' = FreshPipe
  BY DEF FreshPipe
<1>2. ASSUME NEW s \in Scanners PROVE BooksOf(s)'
  <2>1. BooksOf(s)
    BY DEF ServiceBooks
  <2>2. /\ Lister(s) \in Clients /\ \A b \in Blocks : Carrier(s, b) \in Clients
    BY Constants
  <2>3. /\ svc[s] # "idle" \/ ctx[s] = "done" => s \in dep.scanners
        /\ svc[s] # "scan" => pipe[s] = FreshPipe /\ \A b \in Blocks : place[s][b] = "none"
        /\ call'[Lister(s)] # NoCall => svc[s] = "listing" /\ call'[Lister(s)].kind = "list"
    BY <2>1, <2>2 DEF BooksOf
  <2>4. ASSUME NEW b \in Blocks
        PROVE  /\ call'[Carrier(s, b)] # NoCall => place[s][b] \in {"wallets", "txs", "sink"}
               /\ place[s][b] = "wallets" =>
                    /\ call'[Carrier(s, b)].kind = "wallets"
                    /\ call'[Carrier(s, b)].wallets = WalletsOf(TxsOf(b))
               /\ place[s][b] = "txs" =>
                    call'[Carrier(s, b)].kind = "txs" /\ call'[Carrier(s, b)].txs = TxsOf(b)
    BY <2>1, <2>2 DEF BooksOf
  <2>5. QED
    BY <1>1, <2>3, <2>4 DEF BooksOf
<1>3. call'[Inserter] # NoCall => svc[Inserter] = "upsert"
  BY DEF ServiceBooks, Clients
<1>4. QED
  BY <1>2, <1>3 DEF ServiceBooks

\* A step of a call.
LEMMA GraphCallKeepsBooks ==
  ASSUME TypeOK, ServiceBooks, \A d \in Callers : Shaped(call[d]), NEW c \in Callers, GraphCall(c),
         UNCHANGED scanVars
  PROVE  /\ TypeOK' /\ ServiceBooks' /\ (FlowBooks => FlowBooks')
         /\ \A d \in Callers : Shaped(call'[d])
<1>1. GraphStep(c)
  BY GraphCallSteps
<1>2. TypeOK'
  BY <1>1, TypeParts DEF GraphStep, Moves, DeploymentOK, ServicesOK, PlacesOK, PipesOK, scanVars
<1>3. ServiceBooks'
  <2>1. \A d \in Callers : /\ call'[d] # NoCall => call[d] # NoCall
                           /\ call'[d].kind = call[d].kind /\ call'[d].txs = call[d].txs
                           /\ call'[d].wallets = call[d].wallets
    BY <1>1 DEF GraphStep, Moves, NoCall
  <2>2. ~dep.remote => call'[Orphan] = NoCall
    BY <2>1 DEF ServiceBooks, Callers
  <2>3. UNCHANGED <<svc, place, pipe, dep, ctx>>
    BY <1>1 DEF GraphStep, scanVars
  <2>4. QED
    BY <2>1, <2>2, <2>3, CallsKeepBooks DEF Callers
<1>4. FlowBooks => FlowBooks'
  BY <1>1 DEF FlowBooks, FlowOf, GraphStep, scanVars
<1>5. \A d \in Callers : Shaped(call'[d])
  BY <1>1 DEF GraphStep, Moves
<1>6. QED
  BY <1>2, <1>3, <1>4, <1>5

-----------------------------------------------------------------------------
(***************************************************************************)
(* The parsers that have a payload.                                        *)
(***************************************************************************)
LEMMA BusyNumber ==
  ASSUME NEW P
  PROVE  /\ IsFiniteSet({b \in Blocks : P[b] \in Parsing})
         /\ Busy(P) \in Nat
<1>1. IsFiniteSet(Blocks)
  BY FS_Interval, Constants DEF Blocks
<1>2. QED
  BY <1>1, FS_Subset, FS_CardinalityType DEF Busy

LEMMA BusyLess ==
  ASSUME NEW P, NEW Q, \A b \in Blocks : Q[b] \in Parsing => P[b] \in Parsing
  PROVE  Busy(Q) <= Busy(P)
<1>1. {b \in Blocks : Q[b] \in Parsing} \subseteq {b \in Blocks : P[b] \in Parsing}
  OBVIOUS
<1>2. QED
  BY <1>1, BusyNumber, FS_Subset DEF Busy

LEMMA BusyMoves ==
  ASSUME NEW P \in [Blocks -> Places], NEW b \in Blocks, NEW y
  PROVE  /\ Busy([P EXCEPT ![b] = y]) \in Nat /\ Busy(P) \in Nat
         /\ P[b] \in Parsing \/ y \notin Parsing => Busy([P EXCEPT ![b] = y]) <= Busy(P)
         /\ P[b] \in Parsing => Busy(P) > 0
         /\ P[b] \in Parsing /\ y \notin Parsing => Busy([P EXCEPT ![b] = y]) = Busy(P) - 1
         /\ Busy([P EXCEPT ![b] = y]) <= Busy(P) + 1
<1> DEFINE Q == [P EXCEPT ![b] = y]
           S == {a \in Blocks : P[a] \in Parsing}
           T == {a \in Blocks : Q[a] \in Parsing}
<1>0. Q[b] = y /\ \A a \in Blocks : a # b => Q[a] = P[a]
  OBVIOUS
<1> HIDE DEF Q
<1>1. IsFiniteSet(S) /\ IsFiniteSet(T) /\ Busy(P) = Cardinality(S) /\ Busy(Q) = Cardinality(T)
      /\ Busy(P) \in Nat /\ Busy(Q) \in Nat
  BY BusyNumber DEF Busy
<1>2. P[b] \in Parsing \/ y \notin Parsing => T \subseteq S
  BY <1>0
<1>3. P[b] \in Parsing => b \in S
  OBVIOUS
<1>4. P[b] \in Parsing /\ y \notin Parsing => T = S \ {b}
  BY <1>0
<1>5. T \subseteq S \cup {b}
  BY <1>0
<1> HIDE DEF S, T
<1>6. P[b] \in Parsing => Busy(P) > 0
  BY <1>1, <1>3, FS_EmptySet
<1>7. P[b] \in Parsing \/ y \notin Parsing => Busy(Q) <= Busy(P)
  BY <1>1, <1>2, FS_Subset
<1>8. P[b] \in Parsing /\ y \notin Parsing => Busy(Q) = Busy(P) - 1
  BY <1>1, <1>3, <1>4, FS_RemoveElement
<1>9. Busy(Q) <= Busy(P) + 1
  <2>1. IsFiniteSet(S \cup {b}) /\ Cardinality(S \cup {b}) <= Cardinality(S) + 1
    BY <1>1, FS_AddElement, SMTT(40)
  <2>2. Cardinality(T) <= Cardinality(S \cup {b}) /\ Cardinality(S \cup {b}) \in Nat
    BY <2>1, <1>5, FS_Subset, FS_CardinalityType
  <2>3. QED
    BY <1>1, <2>1, <2>2
<1>10. QED
  BY <1>1, <1>6, <1>7, <1>8, <1>9 DEF Q

-----------------------------------------------------------------------------
(***************************************************************************)
(* The calls that the services make.                                       *)
(***************************************************************************)
LEMMA FirstSteps ==
  /\ FirstStep("blocks") \in {"start", "blocks"}
  /\ FirstStep("txs") \in {"start", "txs"}
  /\ FirstStep("wallets") \in {"start", "wallets"}
  /\ FirstStep("list") = "start"
  BY DEF FirstStep

LEMMA CallMade ==
  ASSUME CallsOK, NEW c \in Callers, NEW r \in Records, call' = Call(c, r),
         FirstStep(r.kind) \in StepsOf(r.kind), FirstStep(r.kind) \in Steps,
         r.kind = "list" => \A b \in Blocks : r.blocks[b] # "processed",
         r.kind # "txs" => r.txs = {}
  PROVE  /\ CallsOK' /\ call'[c].kind = r.kind /\ call'[c].at = FirstStep(r.kind)
         /\ call'[c].blocks = r.blocks /\ call'[c].txs = r.txs /\ call'[c].wallets = r.wallets
         /\ \A d \in Callers : d # c => call'[d] = call[d]
         /\ Shaped(call'[c])
<1>1. [r EXCEPT !.at = FirstStep(r.kind)] \in Records
  BY DEF Records
<1>2. CallsOK' /\ call'[c] = [r EXCEPT !.at = FirstStep(r.kind)] /\ \A d \in Callers : d # c => call'[d] = call[d]
  BY <1>1 DEF CallsOK, Call
<1>3. /\ call'[c].kind = r.kind /\ call'[c].at = FirstStep(r.kind)
      /\ call'[c].blocks = r.blocks /\ call'[c].txs = r.txs /\ call'[c].wallets = r.wallets
  BY <1>2 DEF Records
<1>4. QED
  BY <1>2, <1>3 DEF Shaped

\* The four calls, each with what it asks for.
LEMMA BlocksCall ==
  ASSUME CallsOK, NEW c \in Callers, NEW b \in Blocks, NEW m \in MarkSet, CallUpsertBlocks(c, b, m)
  PROVE  /\ CallsOK' /\ call'[c].kind = "blocks" /\ call'[c].at \in {"start", "blocks"}
         /\ call'[c].at = FirstStep("blocks")
         /\ call'[c].blocks = Marks({b}, m) /\ call'[c].txs = {} /\ call'[c].wallets = {}
         /\ (Cached => call'[c].at = "start")
         /\ \A d \in Callers : d # c => call'[d] = call[d]
         /\ Shaped(call'[c])
<1> DEFINE r == [NoCall EXCEPT !.kind = "blocks", !.blocks = Marks({b}, m)]
<1>1. r = [kind |-> "blocks", at |-> "idle", blocks |-> Marks({b}, m), txs |-> {}, wallets |-> {}]
  <2> DEFINE q == [NoCall EXCEPT !.kind = "blocks"]
  <2>1. q = [kind |-> "blocks", at |-> "idle", blocks |-> NoMarks, txs |-> {}, wallets |-> {}]
    BY DEF NoCall
  <2>2. r = [q EXCEPT !.blocks = Marks({b}, m)]
    OBVIOUS
  <2> HIDE DEF q, r
  <2>3. QED
    BY <2>1, <2>2
<1>2. r \in Records /\ r.kind = "blocks" /\ r.blocks = Marks({b}, m) /\ r.txs = {} /\ r.wallets = {}
  BY <1>1, MarkFunctions DEF Records, Kinds, Steps
<1>3. call' = Call(c, r)
  BY DEF CallUpsertBlocks
<1> HIDE DEF r
<1>4. Cached => FirstStep("blocks") = "start"
  BY DEF FirstStep
<1>5. QED
  BY <1>2, <1>3, <1>4, CallMade, FirstSteps, StepsOfKinds DEF Steps

LEMMA TxsCall ==
  ASSUME CallsOK, NEW c \in Callers, NEW T \in SUBSET Txs, CallInsertTxs(c, T)
  PROVE  /\ CallsOK' /\ call'[c].kind = "txs" /\ call'[c].at \in {"start", "txs"}
         /\ call'[c].blocks = NoMarks /\ call'[c].txs = T /\ call'[c].wallets = {}
         /\ (Cached => call'[c].at = "start")
         /\ \A d \in Callers : d # c => call'[d] = call[d]
         /\ Shaped(call'[c])
<1> DEFINE r == [NoCall EXCEPT !.kind = "txs", !.txs = T]
<1>1. r = [kind |-> "txs", at |-> "idle", blocks |-> NoMarks, txs |-> T, wallets |-> {}]
  <2> DEFINE q == [NoCall EXCEPT !.kind = "txs"]
  <2>1. q = [kind |-> "txs", at |-> "idle", blocks |-> NoMarks, txs |-> {}, wallets |-> {}]
    BY DEF NoCall
  <2>2. r = [q EXCEPT !.txs = T]
    OBVIOUS
  <2> HIDE DEF q, r
  <2>3. QED
    BY <2>1, <2>2
<1>2. r \in Records /\ r.kind = "txs" /\ r.blocks = NoMarks /\ r.txs = T /\ r.wallets = {}
  BY <1>1, MarkFunctions DEF Records, Kinds, Steps
<1>3. call' = Call(c, r)
  BY DEF CallInsertTxs
<1> HIDE DEF r
<1>4. Cached => FirstStep("txs") = "start"
  BY DEF FirstStep
<1>5. QED
  BY <1>2, <1>3, <1>4, CallMade, FirstSteps, StepsOfKinds DEF Steps

LEMMA WalletsCall ==
  ASSUME CallsOK, NEW c \in Callers, NEW W \in SUBSET Wallets, CallUpsertWallets(c, W)
  PROVE  /\ CallsOK' /\ call'[c].kind = "wallets" /\ call'[c].at \in {"start", "wallets"}
         /\ call'[c].blocks = NoMarks /\ call'[c].txs = {} /\ call'[c].wallets = W
         /\ (Cached => call'[c].at = "start")
         /\ \A d \in Callers : d # c => call'[d] = call[d]
         /\ Shaped(call'[c])
<1> DEFINE r == [NoCall EXCEPT !.kind = "wallets", !.wallets = W]
<1>1. r = [kind |-> "wallets", at |-> "idle", blocks |-> NoMarks, txs |-> {}, wallets |-> W]
  <2> DEFINE q == [NoCall EXCEPT !.kind = "wallets"]
  <2>1. q = [kind |-> "wallets", at |-> "idle", blocks |-> NoMarks, txs |-> {}, wallets |-> {}]
    BY DEF NoCall
  <2>2. r = [q EXCEPT !.wallets = W]
    OBVIOUS
  <2> HIDE DEF q, r
  <2>3. QED
    BY <2>1, <2>2
<1>2. r \in Records /\ r.kind = "wallets" /\ r.blocks = NoMarks /\ r.txs = {} /\ r.wallets = W
  BY <1>1, MarkFunctions DEF Records, Kinds, Steps
<1>3. call' = Call(c, r)
  BY DEF CallUpsertWallets
<1> HIDE DEF r
<1>4. Cached => FirstStep("wallets") = "start"
  BY DEF FirstStep
<1>5. QED
  BY <1>2, <1>3, <1>4, CallMade, FirstSteps, StepsOfKinds DEF Steps

LEMMA ListCall ==
  ASSUME CallsOK, NEW c \in Callers, CallBlocks(c)
  PROVE  /\ CallsOK' /\ call'[c].kind = "list" /\ call'[c].at = "start"
         /\ call'[c].blocks = NoMarks /\ call'[c].txs = {} /\ call'[c].wallets = {}
         /\ \A d \in Callers : d # c => call'[d] = call[d]
         /\ Shaped(call'[c])
<1> DEFINE r == [NoCall EXCEPT !.kind = "list"]
<1>1. r = [kind |-> "list", at |-> "idle", blocks |-> NoMarks, txs |-> {}, wallets |-> {}]
  BY DEF NoCall
<1>2. r \in Records /\ r.kind = "list" /\ r.blocks = NoMarks /\ r.txs = {} /\ r.wallets = {}
  BY <1>1, MarkFunctions DEF Records, Kinds, Steps
<1>3. call' = Call(c, r)
  BY DEF CallBlocks
<1>4. \A b \in Blocks : NoMarks[b] # "processed"
  BY DEF NoMarks
<1> HIDE DEF r
<1>5. QED
  BY <1>2, <1>3, <1>4, CallMade, FirstSteps, StepsOfKinds DEF Steps

LEMMA CallEnded ==
  ASSUME CallsOK, NEW c \in Callers, EndCall(c)
  PROVE  /\ CallsOK' /\ call'[c] = NoCall
         /\ \A d \in Callers : d # c => call'[d] = call[d]
         /\ Shaped(call'[c])
<1>1. CallsOK' /\ call'[c] = NoCall /\ \A d \in Callers : d # c => call'[d] = call[d]
  BY NoCallRecord DEF CallsOK, EndCall
<1>2. Shaped(NoCall)
  BY StepsOfKinds DEF Shaped, NoCall
<1>3. QED
  BY <1>1, <1>2

-----------------------------------------------------------------------------
(***************************************************************************)
(* A step of a scanner leaves the others, the inserter and the tables      *)
(* alone.                                                                  *)
(***************************************************************************)
Away(s) ==
  /\ \A d \in Scanners : d # s => /\ place'[d] = place[d] /\ pipe'[d] = pipe[d]
                                  /\ svc'[d] = svc[d]
  /\ svc'[Inserter] = svc[Inserter]
  /\ \A c \in Callers : (\A k \in 0 .. MaxBlock : c # <<s, k>>) => call'[c] = call[c]
  /\ UNCHANGED <<dep, ctx>>

TypesAfter ==
  /\ TablesOK' /\ CallsOK' /\ ServicesOK' /\ PlacesOK' /\ PipesOK'
  /\ \A c \in Callers : Shaped(call'[c])

LEMMA Threads ==
  ASSUME NEW s \in Scanners, NEW d \in Scanners, d # s
  PROVE  /\ \A k \in 0 .. MaxBlock : Lister(d) # <<s, k>>
         /\ \A b \in Blocks, k \in 0 .. MaxBlock : Carrier(d, b) # <<s, k>>
  BY DEF Lister, Carrier

LEMMA NotThreads ==
  ASSUME NEW s \in Scanners, NEW k \in 0 .. MaxBlock
  PROVE  <<s, k>> \in Callers /\ <<s, k>> \in Clients /\ Inserter # <<s, k>> /\ Orphan # <<s, k>>
  BY ClientsAssumption DEF Clients, Callers

LEMMA AwayBooks ==
  ASSUME NEW s \in Scanners, ServiceBooks, Away(s), BooksOf(s)'
  PROVE  ServiceBooks'
<1>1. ASSUME NEW d \in Scanners, d # s PROVE BooksOf(d)'
  <2>1. call'[Lister(d)] = call[Lister(d)] /\ \A b \in Blocks : call'[Carrier(d, b)] = call[Carrier(d, b)]
    BY <1>1, Threads, Constants DEF Away, Callers
  <2>2. /\ place'[d] = place[d] /\ pipe'[d] = pipe[d] /\ svc'[d] = svc[d]
        /\ UNCHANGED <<dep, ctx>> /\ BooksOf(d)
    BY <1>1 DEF Away, ServiceBooks
  <2>3. FreshPipe' = FreshPipe
    BY <2>2 DEF FreshPipe
  <2>4. QED
    BY <2>1, <2>2, <2>3 DEF BooksOf
<1>2. call'[Inserter] = call[Inserter] /\ call'[Orphan] = call[Orphan]
  BY NotThreads DEF Away, Callers, Clients
<1>3. QED
  BY <1>1, <1>2 DEF ServiceBooks, Away

LEMMA AwayFlow ==
  ASSUME NEW s \in Scanners, FlowBooks, Away(s), FlowOf(s)'
  PROVE  FlowBooks'
<1>1. ASSUME NEW d \in Scanners, d # s PROVE FlowOf(d)'
  BY <1>1 DEF FlowBooks, FlowOf, Away
<1>2. QED
  BY <1>1 DEF FlowBooks

LEMMA StoreStays ==
  ASSUME TablesOK, StoreStill, UNCHANGED failures \/ Fail
  PROVE  TablesOK' /\ UNCHANGED <<dep, ctx, lost>>
  BY FailureCounted DEF StoreStill, TablesOK, tables, caches

LEMMA Moved ==
  ASSUME PlacesOK, NEW s \in Scanners, NEW b \in Blocks, NEW y \in Places, Move(s, b, y)
  PROVE  /\ PlacesOK' /\ place'[s] = [place[s] EXCEPT ![b] = y]
         /\ \A d \in Scanners : d # s => place'[d] = place[d]
         /\ place'[s][b] = y /\ \A a \in Blocks : a # b => place'[s][a] = place[s][a]
<1>1. [place[s] EXCEPT ![b] = y] \in [Blocks -> Places] /\ [place[s] EXCEPT ![b] = y][b] = y
      /\ \A a \in Blocks : a # b => [place[s] EXCEPT ![b] = y][a] = place[s][a]
  BY DEF PlacesOK
<1>2. place' = [place EXCEPT ![s] = [place[s] EXCEPT ![b] = y]]
  BY DEF Move
<1>3. QED
  BY <1>1, <1>2 DEF PlacesOK

LEMMA Piped ==
  ASSUME PipesOK, NEW s \in Scanners, NEW q \in Pipes, pipe' = [pipe EXCEPT ![s] = q]
  PROVE  /\ PipesOK' /\ pipe'[s] = q
         /\ \A d \in Scanners : d # s => pipe'[d] = pipe[d]
  BY DEF PipesOK

\* A payload moves on, without a call.
LEMMA PayloadMoves ==
  ASSUME TypeOK, ServiceBooks, NEW s \in Scanners, NEW b \in Blocks, NEW y \in Places \ {"wallets", "txs"},
         \A c \in Callers : Shaped(call[c]), place[s][b] \notin {"none", "wallets", "txs", "sink"},
         Move(s, b, y), Still, svc' = svc
  PROVE  /\ TablesOK' /\ CallsOK' /\ ServicesOK' /\ PlacesOK' /\ \A c \in Callers : Shaped(call'[c])
         /\ svc[s] = "scan" /\ UNCHANGED <<dep, ctx>>
         /\ \A d \in Scanners : d # s => place'[d] = place[d] /\ svc'[d] = svc[d]
         /\ svc'[Inserter] = svc[Inserter] /\ call' = call
         /\ BooksOf(s)'
<1>1. /\ TablesOK /\ CallsOK /\ ServicesOK /\ PlacesOK
  BY TypeParts
<1>2. TablesOK' /\ UNCHANGED <<dep, ctx, call>>
  BY <1>1, StoreStays DEF Still
<1>3. CallsOK' /\ ServicesOK' /\ \A c \in Callers : Shaped(call'[c])
  BY <1>1, <1>2 DEF CallsOK, ServicesOK
<1>4. /\ PlacesOK' /\ \A d \in Scanners : d # s => place'[d] = place[d]
      /\ place'[s][b] = y /\ \A a \in Blocks : a # b => place'[s][a] = place[s][a]
  BY <1>1, Moved, ZenonT(40)
<1>5. BooksOf(s) /\ svc[s] = "scan"
  BY DEF ServiceBooks, BooksOf
<1>6. BooksOf(s)'
  BY <1>2, <1>4, <1>5 DEF BooksOf
<1>7. QED
  BY <1>1, <1>2, <1>3, <1>4, <1>5, <1>6

-----------------------------------------------------------------------------
(***************************************************************************)
(* What a step does to a pass: P and p before it, Q and q after it.        *)
(***************************************************************************)

\* A payload that moves goes to a stage that still takes it.
LEMMA FlowMoves ==
  ASSUME NEW P \in [Blocks -> Places], NEW p \in Pipes, NEW d, NEW n, Flow(P, p, d, n),
         NEW b \in Blocks, NEW y \in Places, y # "none" \/ ~Calm(p, d),
         y \in {"iterator", "source"} => p.source = "run",
         y = "token" => p.dispatcher = "run",
         y \in {"fetch", "fetched"} => p.dispatcher # "end",
         y = "sink" => p.sink = "run" /\ \A a \in Blocks : P[a] # "sink",
         Busy([P EXCEPT ![b] = y]) <= p.parsers
  PROVE  Flow([P EXCEPT ![b] = y], p, d, n)
<1> DEFINE Q == [P EXCEPT ![b] = y]
<1>1. Q[b] = y /\ \A a \in Blocks : a # b => Q[a] = P[a]
  OBVIOUS
<1>2. p.todo \subseteq Blocks
  BY DEF Pipes
<1> HIDE DEF Q
<1>3. Flow(Q, p, d, n)
  BY <1>1, <1>2 DEF Flow, Q
<1>4. QED
  BY <1>3 DEF Q

LEMMA NewPass ==
  ASSUME NEW P \in [Blocks -> {"none", "iterator"}], NEW p \in Pipes, NEW d,
         p.source = "run", p.dispatcher = "run", p.sink = "run", p.parsers \in Nat,
         Calm(p, d) => \A b \in p.todo : P[b] # "none"
  PROVE  Flow(P, p, d, p.parsers)
<1>1. Busy(P) <= p.parsers
  <2>1. {b \in Blocks : P[b] \in Parsing} = {}
    BY DEF Parsing
  <2>2. Busy(P) = 0
    BY <2>1, FS_EmptySet DEF Busy
  <2>3. QED
    BY <2>2
<1>2. QED
  BY <1>1 DEF Flow

LEMMA FlowHurried ==
  ASSUME NEW P, NEW p, NEW n, NEW d, NEW e, Flow(P, p, d, n), d => e
  PROVE  Flow(P, p, e, n)
  BY DEF Flow, Calm

\* The pass of a scanner whose threads run.
LEMMA InPass ==
  ASSUME TypeOK, FlowBooks, NEW s \in Scanners, svc[s] = "scan"
  PROVE  /\ place[s] \in [Blocks -> Places] /\ pipe[s] \in Pipes
         /\ Flow(place[s], pipe[s], ctx[s] = "done", dep.workers)
         /\ Busy(place[s]) \in Nat /\ Busy(place[s]) <= pipe[s].parsers
  BY TypeParts, BusyNumber DEF FlowBooks, FlowOf, Flow, PlacesOK, PipesOK

LEMMA PassStepFlow ==
  ASSUME NEW s \in Scanners, UNCHANGED <<dep, ctx>>,
         svc'[s] = "scan" => Flow(place'[s], pipe'[s], ctx[s] = "done", dep.workers)
  PROVE  FlowOf(s)'
  BY DEF FlowOf

\* What every step of a scanner shows.
PassStep(s) == TypesAfter /\ Away(s) /\ BooksOf(s)' /\ FlowOf(s)'

LEMMA CancelledNotCalm ==
  ASSUME NEW s \in Scanners, PassCancelled(s)
  PROVE  ~Calm(pipe[s], ctx[s] = "done")
  BY DEF PassCancelled, Calm

\* Source, dispatcher and fetchers hand payloads on.
LEMMA HandingOn ==
  ASSUME TypeOK, ServiceBooks, FlowBooks, \A c \in Callers : Shaped(call[c]),
         NEW s \in Scanners, NEW b \in Blocks,
         \/ SourceNext(s, b) \/ DispatcherTakes(s, b) \/ DispatcherSpawns(s, b)
         \/ BlockFetched(s, b) \/ FetchedDropped(s, b)
  PROVE  PassStep(s)
<1>0. PICK y \in Places :
        /\ place[s][b] \notin {"none", "wallets", "txs", "parsed", "sink"} /\ y \notin Parsing \cup {"iterator", "sink"}
        /\ Move(s, b, y) /\ Still /\ svc' = svc /\ pipe' = pipe
        /\ y # "none" \/ PassCancelled(s)
        /\ y = "source" => pipe[s].source = "run"
        /\ y = "token" => pipe[s].dispatcher = "run"
        /\ y = "fetch" => pipe[s].dispatcher = "run"
        /\ y = "fetched" => place[s][b] = "fetch"
  <2> USE DEF Places, Parsing, Is
  <2>1. CASE SourceNext(s, b)
    BY <2>1 DEF SourceNext
  <2>2. CASE DispatcherTakes(s, b)
    BY <2>2 DEF DispatcherTakes
  <2>3. CASE DispatcherSpawns(s, b)
    BY <2>3 DEF DispatcherSpawns
  <2>4. CASE BlockFetched(s, b)
    BY <2>4 DEF BlockFetched
  <2>5. CASE FetchedDropped(s, b)
    BY <2>5 DEF FetchedDropped
  <2>6. QED
    BY <2>1, <2>2, <2>3, <2>4, <2>5
<1>1. /\ TablesOK' /\ CallsOK' /\ ServicesOK' /\ PlacesOK' /\ \A c \in Callers : Shaped(call'[c])
      /\ svc[s] = "scan" /\ UNCHANGED <<dep, ctx>>
      /\ \A d \in Scanners : d # s => place'[d] = place[d] /\ svc'[d] = svc[d]
      /\ svc'[Inserter] = svc[Inserter] /\ call' = call
      /\ BooksOf(s)'
  BY <1>0, PayloadMoves DEF Parsing
<1>2. PipesOK'
  BY <1>0, TypeParts DEF PipesOK
<1>3. place'[s] = [place[s] EXCEPT ![b] = y]
  BY <1>0, Moved, TypeParts
<1>4. Flow(place[s], pipe[s], ctx[s] = "done", dep.workers) /\ place[s] \in [Blocks -> Places] /\ pipe[s] \in Pipes
      /\ Busy(place[s]) \in Nat /\ Busy(place[s]) <= pipe[s].parsers
  BY <1>1, InPass
<1>5. Busy([place[s] EXCEPT ![b] = y]) <= pipe[s].parsers
  <2>1. Busy([place[s] EXCEPT ![b] = y]) <= Busy(place[s]) /\ Busy([place[s] EXCEPT ![b] = y]) \in Nat
    BY <1>0, <1>4, BusyMoves
  <2>2. QED
    BY <2>1, <1>4 DEF Pipes
<1>6. Flow([place[s] EXCEPT ![b] = y], pipe[s], ctx[s] = "done", dep.workers)
  <2>1. y \in {"fetch", "fetched"} => pipe[s].dispatcher # "end"
    BY <1>0, <1>4 DEF Flow
  <2>2. y # "none" \/ ~Calm(pipe[s], ctx[s] = "done")
    BY <1>0, CancelledNotCalm
  <2>3. y \notin {"iterator", "sink"}
    BY <1>0
  <2>4. QED
    BY <1>0, <1>4, <1>5, <2>1, <2>2, <2>3, FlowMoves
<1>7. FlowOf(s)'
  BY <1>0, <1>1, <1>3, <1>6, PassStepFlow
<1>8. QED
  BY <1>0, <1>1, <1>2, <1>7 DEF PassStep, TypesAfter, Away

\* A step of a stage that makes no call: payloads Q stay where they are or are
\* dropped, those of a call stay.
LEMMA StageStep ==
  ASSUME TypeOK, ServiceBooks, FlowBooks, \A c \in Callers : Shaped(call[c]),
         NEW s \in Scanners, svc[s] = "scan", NEW Q \in [Blocks -> Places], NEW q \in Pipes,
         StoreStill, call' = call, UNCHANGED failures \/ Fail, svc' = svc,
         place' = [place EXCEPT ![s] = Q], pipe' = [pipe EXCEPT ![s] = q],
         \A b \in Blocks : Q[b] = place[s][b] \/ (Q[b] = "none" /\ place[s][b] \notin {"wallets", "txs", "sink"}),
         Flow(Q, q, ctx[s] = "done", dep.workers)
  PROVE  PassStep(s)
<1>1. TablesOK /\ CallsOK /\ ServicesOK /\ PlacesOK /\ PipesOK
  BY TypeParts
<1>2. TablesOK' /\ UNCHANGED <<dep, ctx>>
  BY <1>1, StoreStays
<1>3. PlacesOK' /\ place'[s] = Q /\ \A d \in Scanners : d # s => place'[d] = place[d]
  BY <1>1 DEF PlacesOK
<1>4. PipesOK' /\ pipe'[s] = q /\ \A d \in Scanners : d # s => pipe'[d] = pipe[d]
  BY <1>1, Piped
<1>5. TypesAfter
  BY <1>1, <1>2, <1>3, <1>4 DEF TypesAfter, CallsOK, ServicesOK
<1>6. Away(s)
  BY <1>2, <1>3, <1>4 DEF Away
<1>7. BooksOf(s)
  BY DEF ServiceBooks
<1>8. BooksOf(s)'
  BY <1>2, <1>3, <1>7 DEF BooksOf
<1>9. FlowOf(s)'
  BY <1>2, <1>3, <1>4, PassStepFlow
<1>10. QED
  BY <1>5, <1>6, <1>8, <1>9 DEF PassStep

LEMMA PlaceStays ==
  ASSUME PlacesOK, NEW s \in Scanners, UNCHANGED place
  PROVE  place' = [place EXCEPT ![s] = place[s]]
  BY DEF PlacesOK

LEMMA NobodyThere ==
  ASSUME NEW s \in Scanners, NEW S, Count(s, S) = 0
  PROVE  \A b \in Blocks : place[s][b] \notin S
<1>1. IsFiniteSet({b \in Blocks : place[s][b] \in S})
  <2>1. IsFiniteSet(Blocks)
    BY FS_Interval, Constants DEF Blocks
  <2>2. QED
    BY <2>1, FS_Subset
<1>2. {b \in Blocks : place[s][b] \in S} = {}
  BY <1>1, FS_EmptySet DEF Count
<1>3. QED
  BY <1>2

LEMMA EmittedTyped ==
  ASSUME NEW s \in Scanners, pipe[s] \in Pipes
  PROVE  Emitted(s) \in 0 .. ErrCap /\ Emitted(s) > 0
  BY Constants DEF Emitted, Pipes

LEMMA SourceSteps ==
  ASSUME TypeOK, ServiceBooks, FlowBooks, \A c \in Callers : Shaped(call[c]),
         NEW s \in Scanners, SourceEnds(s) \/ SourceStops(s) \/ IteratorBreaks(s)
  PROVE  PassStep(s)
<1> DEFINE P == place[s]
           p == pipe[s]
           done == ctx[s] = "done"
<1>0. svc[s] = "scan"
  BY DEF SourceEnds, SourceStops, IteratorBreaks, Scanning
<1>1. /\ P \in [Blocks -> Places] /\ p \in Pipes /\ Flow(P, p, done, dep.workers)
      /\ Busy(P) \in Nat /\ Busy(P) <= p.parsers
  BY <1>0, InPass
<1>2. PlacesOK /\ PipesOK
  BY TypeParts
<1>3. CASE SourceEnds(s)
  <2> DEFINE q == [p EXCEPT !.source = "end", !.errs = IF p.iterator = "err" THEN Emitted(s) ELSE @]
  <2>1. Emitted(s) \in 0 .. ErrCap /\ Emitted(s) > 0
    BY <1>1, EmittedTyped
  <2>2. q \in Pipes /\ q.source = "end" /\ q.errs = (IF p.iterator = "err" THEN Emitted(s) ELSE p.errs)
        /\ q.dispatcher = p.dispatcher /\ q.parsers = p.parsers /\ q.sink = p.sink
        /\ q.iterator = p.iterator /\ q.failed = p.failed /\ q.todo = p.todo
    BY <1>1, <2>1 DEF Pipes
  <2>3. pipe' = [pipe EXCEPT ![s] = q] /\ place' = [place EXCEPT ![s] = P]
    <3>1. place' = [place EXCEPT ![s] = P]
      BY <1>2, <1>3, PlaceStays DEF SourceEnds
    <3>2. pipe' = [pipe EXCEPT ![s] = q]
      BY <1>2, <1>3 DEF SourceEnds, PipesOK
    <3>3. QED
      BY <3>1, <3>2
  <2>4. \A b \in Blocks : P[b] \notin {"iterator", "source"}
    BY <1>3 DEF SourceEnds, Some
  <2> HIDE DEF q
  <2>5. Flow(P, q, done, dep.workers)
    BY <1>1, <2>1, <2>2, <2>4 DEF Flow, Calm
  <2>6. StoreStill /\ call' = call /\ UNCHANGED failures /\ svc' = svc
    BY <1>3 DEF SourceEnds, Still
  <2>7. QED
    BY <1>0, <1>1, <2>2, <2>3, <2>5, <2>6, StageStep
<1>4. CASE SourceStops(s)
  <2> DEFINE q == [p EXCEPT !.source = "end"]
             Q == [b \in Blocks |-> IF P[b] \in {"iterator", "source"} THEN "none" ELSE P[b]]
  <2>1. q \in Pipes /\ q.source = "end" /\ q.errs = p.errs
        /\ q.dispatcher = p.dispatcher /\ q.parsers = p.parsers /\ q.sink = p.sink
        /\ q.iterator = p.iterator /\ q.failed = p.failed /\ q.todo = p.todo
    BY <1>1 DEF Pipes
  <2>2. Q \in [Blocks -> Places]
    BY <1>1 DEF Places
  <2>3. pipe' = [pipe EXCEPT ![s] = q] /\ place' = [place EXCEPT ![s] = Q]
    BY <1>4 DEF SourceStops
  <2>4. done \/ p.failed
    BY <1>4 DEF SourceStops, PassCancelled
  <2>5. Busy(Q) <= Busy(P) /\ Busy(Q) \in Nat
    BY BusyLess, BusyNumber DEF Parsing
  <2>6. Busy(Q) <= q.parsers
    BY <1>1, <2>1, <2>5 DEF Pipes
  <2>7. \A b \in Blocks : Q[b] \in {"none", P[b]} /\ Q[b] \notin {"iterator", "source"}
    OBVIOUS
  <2> HIDE DEF q, Q
  <2>8. Flow(Q, q, done, dep.workers)
    <3>1. ~Calm(q, done)
      BY <2>1, <2>4 DEF Calm
    <3>2. /\ q.dispatcher # "run" => \A b \in Blocks : Q[b] # "token"
          /\ q.dispatcher = "end" => \A b \in Blocks : Q[b] \notin {"fetch", "fetched"}
          /\ q.sink = "end" => \A b \in Blocks : Q[b] # "sink"
          /\ \A a, b \in Blocks : Q[a] = "sink" /\ Q[b] = "sink" => a = b
      BY <1>1, <2>1, <2>7 DEF Flow
    <3>3. QED
      BY <2>1, <2>4, <2>6, <2>7, <3>1, <3>2 DEF Flow
  <2>9. \A b \in Blocks : Q[b] = P[b] \/ (Q[b] = "none" /\ P[b] \notin {"wallets", "txs", "sink"})
    BY DEF Q
  <2>10. StoreStill /\ call' = call /\ UNCHANGED failures /\ svc' = svc
    BY <1>4 DEF SourceStops, Still
  <2>11. QED
    BY <1>0, <2>1, <2>2, <2>3, <2>8, <2>9, <2>10, StageStep
<1>5. CASE IteratorBreaks(s)
  <2> DEFINE q == [p EXCEPT !.iterator = "err"]
             Q == [b \in Blocks |-> IF P[b] = "iterator" THEN "none" ELSE P[b]]
  <2>1. q \in Pipes /\ q.source = "run" /\ q.errs = p.errs
        /\ q.dispatcher = p.dispatcher /\ q.parsers = p.parsers /\ q.sink = p.sink
        /\ q.iterator = "err" /\ q.failed = p.failed /\ q.todo = p.todo
    BY <1>1, <1>5 DEF Pipes, IteratorBreaks
  <2>2. Q \in [Blocks -> Places]
    BY <1>1 DEF Places
  <2>3. pipe' = [pipe EXCEPT ![s] = q] /\ place' = [place EXCEPT ![s] = Q]
    BY <1>5 DEF IteratorBreaks
  <2>5. Busy(Q) <= Busy(P) /\ Busy(Q) \in Nat
    BY BusyLess, BusyNumber DEF Parsing
  <2>6. Busy(Q) <= q.parsers
    BY <1>1, <2>1, <2>5 DEF Pipes
  <2>7. \A b \in Blocks : Q[b] \in {"none", P[b]}
    OBVIOUS
  <2> HIDE DEF q, Q
  <2>8. Flow(Q, q, done, dep.workers)
    <3>1. ~Calm(q, done)
      BY <2>1 DEF Calm
    <3>2. /\ q.dispatcher # "run" => \A b \in Blocks : Q[b] # "token"
          /\ q.dispatcher = "end" => \A b \in Blocks : Q[b] \notin {"fetch", "fetched"}
          /\ q.sink = "end" => \A b \in Blocks : Q[b] # "sink"
          /\ \A a, b \in Blocks : Q[a] = "sink" /\ Q[b] = "sink" => a = b
      BY <1>1, <2>1, <2>7 DEF Flow
    <3>3. QED
      BY <2>1, <2>6, <3>1, <3>2 DEF Flow
  <2>9. \A b \in Blocks : Q[b] = P[b] \/ (Q[b] = "none" /\ P[b] \notin {"wallets", "txs", "sink"})
    BY DEF Q
  <2>10. StoreStill /\ call' = call /\ Fail /\ svc' = svc
    BY <1>5 DEF IteratorBreaks
  <2>11. QED
    BY <1>0, <2>1, <2>2, <2>3, <2>8, <2>9, <2>10, StageStep
<1>6. QED
  BY <1>3, <1>4, <1>5

LEMMA DispatcherSteps ==
  ASSUME TypeOK, ServiceBooks, FlowBooks, \A c \in Callers : Shaped(call[c]),
         NEW s \in Scanners, DispatcherDrains(s) \/ (DispatcherEnds(s) /\ svc[s] = "scan")
  PROVE  PassStep(s)
<1> DEFINE P == place[s]
           p == pipe[s]
           done == ctx[s] = "done"
<1>0. svc[s] = "scan"
  BY DEF DispatcherDrains, Scanning
<1>1. /\ P \in [Blocks -> Places] /\ p \in Pipes /\ Flow(P, p, done, dep.workers)
      /\ Busy(P) \in Nat /\ Busy(P) <= p.parsers
  BY <1>0, InPass
<1>2. PlacesOK /\ PipesOK
  BY TypeParts
<1>3. CASE DispatcherDrains(s)
  <2> DEFINE q == [p EXCEPT !.dispatcher = "drain"]
             Q == [b \in Blocks |-> IF P[b] = "token" THEN "none" ELSE P[b]]
  <2>1. q \in Pipes /\ q.source = p.source /\ q.errs = p.errs /\ q.dispatcher = "drain" /\ q.parsers = p.parsers
        /\ q.sink = p.sink /\ q.iterator = p.iterator /\ q.failed = p.failed /\ q.todo = p.todo
    BY <1>1 DEF Pipes
  <2>2. Q \in [Blocks -> Places]
    BY <1>1 DEF Places
  <2>3. pipe' = [pipe EXCEPT ![s] = q] /\ place' = [place EXCEPT ![s] = Q]
    BY <1>3 DEF DispatcherDrains
  <2>4. p.dispatcher = "run" /\ (done \/ p.failed \/ (p.source = "end" /\ Q = P))
    <3>1. CASE PassCancelled(s)
      BY <1>3, <3>1 DEF DispatcherDrains, PassCancelled
    <3>2. CASE p.source = "end" /\ ~Some(s, {"source", "token"})
      <4>1. \A b \in Blocks : P[b] # "token"
        BY <3>2 DEF Some
      <4>2. QED
        BY <1>1, <1>3, <3>2, <4>1 DEF DispatcherDrains
    <3>3. QED
      BY <1>3, <3>1, <3>2 DEF DispatcherDrains
  <2>5. Busy(Q) <= Busy(P) /\ Busy(Q) \in Nat
    BY BusyLess, BusyNumber DEF Parsing
  <2>6. Busy(Q) <= q.parsers
    BY <1>1, <2>1, <2>5 DEF Pipes
  <2>7. \A b \in Blocks : Q[b] \in {"none", P[b]} /\ Q[b] # "token"
    OBVIOUS
  <2> HIDE DEF q, Q
  <2>8. Flow(Q, q, done, dep.workers)
    <3>1. /\ q.source = "end" => \A b \in Blocks : Q[b] \notin {"iterator", "source"}
          /\ q.sink = "end" => \A b \in Blocks : Q[b] # "sink"
          /\ \A a, b \in Blocks : Q[a] = "sink" /\ Q[b] = "sink" => a = b
      BY <1>1, <2>1, <2>7 DEF Flow
    <3>2. q.source = "end" => (q.iterator = "err" => q.errs > 0 \/ q.failed \/ done)
      BY <1>1, <2>1 DEF Flow
    <3>3. Calm(q, done) =>
            /\ \A b \in q.todo : Q[b] # "none"
            /\ q.source = "end"
            /\ q.parsers < dep.workers => q.dispatcher = "end"
            /\ q.sink = "end" => q.parsers = 0
      <4>1. Calm(q, done) => Calm(p, done) /\ p.source = "end" /\ Q = P
        BY <2>1, <2>4 DEF Calm
      <4>2. QED
        BY <1>1, <2>1, <2>4, <4>1 DEF Flow
    <3>4. QED
      BY <2>1, <2>6, <2>7, <3>1, <3>2, <3>3 DEF Flow
  <2>9. \A b \in Blocks : Q[b] = P[b] \/ (Q[b] = "none" /\ P[b] \notin {"wallets", "txs", "sink"})
    BY DEF Q
  <2>10. StoreStill /\ call' = call /\ UNCHANGED failures /\ svc' = svc
    BY <1>3 DEF DispatcherDrains, Still
  <2>11. QED
    BY <1>0, <2>1, <2>2, <2>3, <2>8, <2>9, <2>10, StageStep
<1>4. CASE DispatcherEnds(s)
  <2> DEFINE q == [p EXCEPT !.dispatcher = "end"]
  <2>1. q \in Pipes /\ q.source = p.source /\ q.errs = p.errs /\ q.dispatcher = "end" /\ q.parsers = p.parsers
        /\ q.sink = p.sink /\ q.iterator = p.iterator /\ q.failed = p.failed /\ q.todo = p.todo
    BY <1>1 DEF Pipes
  <2>2. pipe' = [pipe EXCEPT ![s] = q] /\ place' = [place EXCEPT ![s] = P]
    BY <1>2, <1>4, PlaceStays DEF DispatcherEnds
  <2>3. \A b \in Blocks : P[b] \notin {"fetch", "fetched"}
    BY <1>4, NobodyThere DEF DispatcherEnds, TokensOut
  <2>4. p.dispatcher = "drain"
    BY <1>4 DEF DispatcherEnds
  <2> HIDE DEF q
  <2>5. Flow(P, q, done, dep.workers)
    BY <1>1, <2>1, <2>3, <2>4 DEF Flow, Calm
  <2>6. StoreStill /\ call' = call /\ UNCHANGED failures /\ svc' = svc
    BY <1>4 DEF DispatcherEnds, Still
  <2>7. QED
    BY <1>0, <1>1, <2>1, <2>2, <2>5, <2>6, StageStep
<1>5. QED
  BY <1>3, <1>4

LEMMA IdleParsers ==
  ASSUME NEW s \in Scanners, IdleParser(s)
  PROVE  Busy(place[s]) < pipe[s].parsers
  BY DEF IdleParser, Count, Busy

LEMMA EndingSteps ==
  ASSUME TypeOK, ServiceBooks, FlowBooks, \A c \in Callers : Shaped(call[c]),
         NEW s \in Scanners, ParserStops(s) \/ SinkStops(s) \/ (CollectsError(s) /\ svc[s] = "scan")
  PROVE  PassStep(s)
<1> DEFINE P == place[s]
           p == pipe[s]
           done == ctx[s] = "done"
<1>0. svc[s] = "scan"
  BY DEF ParserStops, SinkStops, Scanning
<1>1. /\ P \in [Blocks -> Places] /\ p \in Pipes /\ Flow(P, p, done, dep.workers)
      /\ Busy(P) \in Nat /\ Busy(P) <= p.parsers
  BY <1>0, InPass
<1>2. PlacesOK /\ PipesOK
  BY TypeParts
<1>3. CASE ParserStops(s)
  <2> DEFINE q == [p EXCEPT !.parsers = @ - 1]
  <2>0. Busy(P) < p.parsers /\ p.parsers - 1 \in Nat /\ Busy(P) <= p.parsers - 1
    <3>1. Busy(P) < p.parsers
      BY <1>3, IdleParsers DEF ParserStops
    <3>2. p.parsers \in Nat
      BY <1>1 DEF Pipes
    <3>3. QED
      BY <1>1, <3>1, <3>2
  <2>1. q \in Pipes /\ q.source = p.source /\ q.errs = p.errs /\ q.dispatcher = p.dispatcher /\ q.parsers = p.parsers - 1
        /\ q.sink = p.sink /\ q.iterator = p.iterator /\ q.failed = p.failed /\ q.todo = p.todo
    BY <1>1, <2>0 DEF Pipes
  <2>2. pipe' = [pipe EXCEPT ![s] = q] /\ place' = [place EXCEPT ![s] = P]
    BY <1>2, <1>3, PlaceStays DEF ParserStops
  <2>3. done \/ p.failed \/ p.dispatcher = "end"
    BY <1>3 DEF ParserStops, PassCancelled
  <2> HIDE DEF q
  <2>4. Calm(q, done) => /\ Calm(p, done) /\ q.dispatcher = "end"
                         /\ q.sink = "end" => p.parsers = 0
    BY <1>1, <2>1, <2>3 DEF Flow, Calm
  <2>5. Flow(P, q, done, dep.workers)
    BY <1>1, <2>0, <2>1, <2>4 DEF Flow
  <2>6. StoreStill /\ call' = call /\ UNCHANGED failures /\ svc' = svc
    BY <1>3 DEF ParserStops, Still
  <2>7. QED
    BY <1>0, <1>1, <2>1, <2>2, <2>5, <2>6, StageStep
<1>4. CASE SinkStops(s)
  <2> DEFINE q == [p EXCEPT !.sink = "end"]
  <2>1. q \in Pipes /\ q.source = p.source /\ q.errs = p.errs /\ q.dispatcher = p.dispatcher /\ q.parsers = p.parsers
        /\ q.sink = "end" /\ q.iterator = p.iterator /\ q.failed = p.failed /\ q.todo = p.todo
    BY <1>1 DEF Pipes
  <2>2. pipe' = [pipe EXCEPT ![s] = q] /\ place' = [place EXCEPT ![s] = P]
    BY <1>2, <1>4, PlaceStays DEF SinkStops
  <2>3. done \/ p.failed \/ p.parsers = 0
    BY <1>4 DEF SinkStops, PassCancelled
  <2>4. \A b \in Blocks : P[b] # "sink"
    BY <1>4 DEF SinkStops, Some
  <2> HIDE DEF q
  <2>5. Flow(P, q, done, dep.workers)
    BY <1>1, <2>1, <2>3, <2>4 DEF Flow, Calm
  <2>6. StoreStill /\ call' = call /\ UNCHANGED failures /\ svc' = svc
    BY <1>4 DEF SinkStops, Still
  <2>7. QED
    BY <1>0, <1>1, <2>1, <2>2, <2>5, <2>6, StageStep
<1>5. CASE CollectsError(s)
  <2> DEFINE q == [p EXCEPT !.errs = @ - 1, !.failed = TRUE]
  <2>0. p.errs - 1 \in 0 .. ErrCap
    BY <1>1, <1>5, Constants DEF CollectsError, Pipes
  <2>1. q \in Pipes /\ q.source = p.source /\ q.errs = p.errs - 1 /\ q.dispatcher = p.dispatcher /\ q.parsers = p.parsers
        /\ q.sink = p.sink /\ q.iterator = p.iterator /\ q.failed = TRUE /\ q.todo = p.todo
    BY <1>1, <2>0 DEF Pipes
  <2>2. pipe' = [pipe EXCEPT ![s] = q] /\ place' = [place EXCEPT ![s] = P]
    <3>1. place' = [place EXCEPT ![s] = P]
      BY <1>2, <1>5, PlaceStays DEF CollectsError
    <3>2. pipe' = [pipe EXCEPT ![s] = q]
      BY <1>5 DEF CollectsError
    <3>3. QED
      BY <3>1, <3>2
  <2> HIDE DEF q
  <2>3. Flow(P, q, done, dep.workers)
    BY <1>1, <2>1 DEF Flow, Calm
  <2>4. StoreStill /\ call' = call /\ UNCHANGED failures /\ svc' = svc
    BY <1>5 DEF CollectsError, Still
  <2>5. QED
    BY <1>0, <1>1, <2>1, <2>2, <2>3, <2>4, StageStep
<1>6. QED
  BY <1>3, <1>4, <1>5

LEMMA DroppingSteps ==
  ASSUME TypeOK, ServiceBooks, FlowBooks, \A c \in Callers : Shaped(call[c]),
         NEW s \in Scanners, NEW b \in Blocks, BlockFetchFails(s, b) \/ ParsedDropped(s, b)
  PROVE  PassStep(s)
<1> DEFINE P == place[s]
           p == pipe[s]
           done == ctx[s] = "done"
<1>0. svc[s] = "scan"
  BY DEF BlockFetchFails, ParsedDropped, Is, ServiceBooks, BooksOf
<1>1. /\ P \in [Blocks -> Places] /\ p \in Pipes /\ Flow(P, p, done, dep.workers)
      /\ Busy(P) \in Nat /\ Busy(P) <= p.parsers
  BY <1>0, InPass
<1>2. PlacesOK /\ PipesOK
  BY TypeParts
<1> DEFINE Q == [P EXCEPT ![b] = "none"]
<1>3. /\ Q \in [Blocks -> Places] /\ \A a \in Blocks : Q[a] = IF a = b THEN "none" ELSE P[a]
      /\ place' = [place EXCEPT ![s] = Q]
  BY <1>1 DEF Places, BlockFetchFails, ParsedDropped, Move
<1>4. P[b] \in {"fetch", "parsed"}
  BY DEF BlockFetchFails, ParsedDropped, Is
<1>5. \A a \in Blocks : Q[a] = P[a] \/ (Q[a] = "none" /\ P[a] \notin {"wallets", "txs", "sink"})
  BY <1>3, <1>4
<1>6. /\ Busy(Q) \in Nat /\ Busy(Q) <= Busy(P)
      /\ P[b] = "parsed" => Busy(Q) = Busy(P) - 1 /\ Busy(P) > 0
  BY <1>1, BusyMoves DEF Parsing
<1> HIDE DEF Q
<1>7. CASE BlockFetchFails(s, b)
  <2> DEFINE q == [p EXCEPT !.errs = Emitted(s)]
  <2>0. Emitted(s) \in 0 .. ErrCap /\ Emitted(s) > 0
    BY <1>1, EmittedTyped
  <2>1. q \in Pipes /\ q.source = p.source /\ q.errs = Emitted(s) /\ q.dispatcher = p.dispatcher /\ q.parsers = p.parsers
        /\ q.sink = p.sink /\ q.iterator = p.iterator /\ q.failed = p.failed /\ q.todo = p.todo
    BY <1>1, <2>0 DEF Pipes
  <2>2. pipe' = [pipe EXCEPT ![s] = q]
    BY <1>7 DEF BlockFetchFails
  <2> HIDE DEF q
  <2>3. Busy(Q) <= q.parsers
    BY <1>1, <1>6, <2>1 DEF Pipes
  <2>4. ~Calm(q, done)
    BY <2>0, <2>1 DEF Calm
  <2>5. Flow(Q, q, done, dep.workers)
    BY <1>1, <1>3, <2>0, <2>1, <2>3, <2>4 DEF Flow
  <2>6. StoreStill /\ call' = call /\ Fail /\ svc' = svc
    BY <1>7 DEF BlockFetchFails
  <2>7. QED
    BY <1>0, <1>3, <1>5, <2>1, <2>2, <2>5, <2>6, StageStep
<1>8. CASE ParsedDropped(s, b)
  <2> DEFINE q == [p EXCEPT !.parsers = @ - 1]
  <2>0. p.parsers - 1 \in Nat /\ Busy(Q) <= p.parsers - 1
    <3>1. P[b] = "parsed"
      BY <1>8 DEF ParsedDropped, Is
    <3>2. p.parsers \in Nat
      BY <1>1 DEF Pipes
    <3>3. QED
      BY <1>1, <1>6, <3>1, <3>2
  <2>1. q \in Pipes /\ q.source = p.source /\ q.errs = p.errs /\ q.dispatcher = p.dispatcher /\ q.parsers = p.parsers - 1
        /\ q.sink = p.sink /\ q.iterator = p.iterator /\ q.failed = p.failed /\ q.todo = p.todo
    BY <1>1, <2>0 DEF Pipes
  <2>2. pipe' = [pipe EXCEPT ![s] = q]
    BY <1>8 DEF ParsedDropped
  <2> HIDE DEF q
  <2>3. ~Calm(q, done)
    BY <1>8, <2>1, CancelledNotCalm DEF ParsedDropped, Calm
  <2>4. Flow(Q, q, done, dep.workers)
    BY <1>1, <1>3, <2>0, <2>1, <2>3 DEF Flow
  <2>5. StoreStill /\ call' = call /\ UNCHANGED failures /\ svc' = svc
    BY <1>8 DEF ParsedDropped, Still
  <2>6. QED
    BY <1>0, <1>3, <1>5, <2>1, <2>2, <2>4, <2>5, StageStep
<1>9. QED
  BY <1>7, <1>8

-----------------------------------------------------------------------------
(***************************************************************************)
(* Parsers and sink: steps with a call for a block.                        *)
(***************************************************************************)
LEMMA CallStep ==
  ASSUME TypeOK, ServiceBooks, FlowBooks, \A c \in Callers : Shaped(call[c]),
         NEW s \in Scanners, NEW b \in Blocks, svc[s] = "scan", NEW y \in Places, NEW q \in Pipes,
         StoreStill, UNCHANGED failures, svc' = svc,
         Move(s, b, y), pipe' = [pipe EXCEPT ![s] = q],
         CallsOK', \A d \in Callers : d # Carrier(s, b) => call'[d] = call[d],
         Shaped(call'[Carrier(s, b)]),
         call'[Carrier(s, b)] # NoCall => y \in {"wallets", "txs", "sink"},
         y = "wallets" => /\ call'[Carrier(s, b)].kind = "wallets"
                          /\ call'[Carrier(s, b)].wallets = WalletsOf(TxsOf(b)),
         y = "txs" => call'[Carrier(s, b)].kind = "txs" /\ call'[Carrier(s, b)].txs = TxsOf(b),
         Flow([place[s] EXCEPT ![b] = y], q, ctx[s] = "done", dep.workers)
  PROVE  PassStep(s)
<1>1. TablesOK /\ CallsOK /\ ServicesOK /\ PlacesOK /\ PipesOK
  BY TypeParts
<1>2. TablesOK' /\ UNCHANGED <<dep, ctx>>
  BY <1>1, StoreStays
<1>3. /\ PlacesOK' /\ \A d \in Scanners : d # s => place'[d] = place[d]
      /\ place'[s] = [place[s] EXCEPT ![b] = y]
      /\ place'[s][b] = y /\ \A a \in Blocks : a # b => place'[s][a] = place[s][a]
  BY <1>1, Moved, SMTT(40)
<1>4. PipesOK' /\ pipe'[s] = q /\ \A d \in Scanners : d # s => pipe'[d] = pipe[d]
  BY <1>1, Piped
<1>5. TypesAfter
  <2>1. \A d \in Callers : Shaped(call'[d])
    OBVIOUS
  <2>2. QED
    BY <1>1, <1>2, <1>3, <1>4, <2>1 DEF TypesAfter, ServicesOK
<1>6. Away(s)
  <2>1. b \in 0 .. MaxBlock /\ Carrier(s, b) = <<s, b>>
    BY Constants DEF Blocks, Carrier
  <2>2. QED
    BY <1>2, <1>3, <1>4, <2>1 DEF Away
<1>7. BooksOf(s)
  BY DEF ServiceBooks
<1>8. BooksOf(s)'
  <2>1. call'[Lister(s)] = call[Lister(s)] /\ \A a \in Blocks : a # b => call'[Carrier(s, a)] = call[Carrier(s, a)]
    BY Constants DEF Lister, Carrier, Callers, Blocks
  <2>2. QED
    BY <1>2, <1>3, <1>7, <2>1 DEF BooksOf
<1>9. FlowOf(s)'
  BY <1>2, <1>3, <1>4, PassStepFlow
<1>10. QED
  BY <1>5, <1>6, <1>8, <1>9 DEF PassStep

LEMMA PipeStays ==
  ASSUME PipesOK, NEW s \in Scanners, UNCHANGED pipe
  PROVE  pipe' = [pipe EXCEPT ![s] = pipe[s]]
  BY DEF PipesOK

LEMMA RowsOfABlock ==
  ASSUME NEW b \in Blocks
  PROVE  TxsOf(b) \in SUBSET Txs /\ WalletsOf(TxsOf(b)) \in SUBSET Wallets
  BY WalletsTyped DEF TxsOf

LEMMA ParserTakesStep ==
  ASSUME TypeOK, ServiceBooks, FlowBooks, \A d \in Callers : Shaped(call[d]),
         NEW s \in Scanners, NEW b \in Blocks, ParserTakes(s, b)
  PROVE  PassStep(s)
<1> DEFINE P == place[s]
           p == pipe[s]
           c == Carrier(s, b)
           done == ctx[s] = "done"
<1>0. svc[s] = "scan" /\ c \in Callers /\ CallsOK /\ PlacesOK /\ PipesOK
  BY Constants, TypeParts DEF ServiceBooks, BooksOf, Callers, ParserTakes, Is
<1>1. /\ P \in [Blocks -> Places] /\ p \in Pipes /\ Flow(P, p, done, dep.workers)
      /\ Busy(P) \in Nat /\ Busy(P) <= p.parsers
  BY <1>0, InPass
<1>2. pipe' = [pipe EXCEPT ![s] = p]
  BY <1>0, PipeStays DEF ParserTakes
<1>3. P[b] = "fetched" /\ Busy(P) < p.parsers
  BY IdleParsers DEF ParserTakes, Is
<1>4. ASSUME NEW y \in Parsing
      PROVE  Flow([P EXCEPT ![b] = y], p, done, dep.workers)
  <2>1. Busy([P EXCEPT ![b] = y]) <= Busy(P) + 1 /\ Busy([P EXCEPT ![b] = y]) \in Nat
    BY <1>1, BusyMoves
  <2>2. Busy([P EXCEPT ![b] = y]) <= p.parsers
    BY <1>1, <1>3, <2>1 DEF Pipes
  <2>3. y \in Places /\ y \notin {"none", "iterator", "source", "token", "fetch", "fetched", "sink"}
    BY DEF Parsing, Places
  <2>4. QED
    BY <1>1, <2>2, <2>3, FlowMoves
<1>5. StoreStill /\ UNCHANGED failures /\ svc' = svc
  BY DEF ParserTakes
<1>6. CASE TxsOf(b) = {}
  <2>1. Move(s, b, "parsed") /\ call' = call
    BY <1>6 DEF ParserTakes
  <2>2. call[c] = NoCall
    BY <1>3 DEF ServiceBooks, BooksOf
  <2>3. CallsOK' /\ (\A d \in Callers : d # c => call'[d] = call[d]) /\ Shaped(call'[c]) /\ call'[c] = NoCall
    BY <1>0, <2>1, <2>2 DEF CallsOK
  <2>4. "parsed" \in Parsing /\ "parsed" \in Places
    BY DEF Parsing, Places
  <2>5. QED
    BY <1>0, <1>1, <1>2, <1>4, <1>5, <2>1, <2>3, <2>4, CallStep
<1>7. CASE TxsOf(b) # {}
  <2>1. Move(s, b, "wallets") /\ CallUpsertWallets(c, WalletsOf(TxsOf(b)))
    BY <1>7 DEF ParserTakes
  <2>2. /\ CallsOK' /\ (\A d \in Callers : d # c => call'[d] = call[d]) /\ Shaped(call'[c])
        /\ call'[c].kind = "wallets" /\ call'[c].wallets = WalletsOf(TxsOf(b))
    BY <1>0, <2>1, RowsOfABlock, WalletsCall
  <2>3. "wallets" \in Parsing /\ "wallets" \in Places
    BY DEF Parsing, Places
  <2>4. QED
    BY <1>0, <1>1, <1>2, <1>4, <1>5, <2>1, <2>2, <2>3, CallStep
<1>8. QED
  BY <1>6, <1>7

LEMMA ParserSteps ==
  ASSUME TypeOK, ServiceBooks, FlowBooks, \A d \in Callers : Shaped(call[d]),
         NEW s \in Scanners, NEW b \in Blocks, WalletsUpserted(s, b) \/ TxsInserted(s, b)
  PROVE  PassStep(s)
<1> DEFINE P == place[s]
           p == pipe[s]
           c == Carrier(s, b)
           done == ctx[s] = "done"
<1>0. svc[s] = "scan" /\ c \in Callers /\ CallsOK /\ PlacesOK /\ PipesOK
  BY Constants, TypeParts DEF ServiceBooks, BooksOf, Callers, WalletsUpserted, TxsInserted, Is
<1>1. /\ P \in [Blocks -> Places] /\ p \in Pipes /\ Flow(P, p, done, dep.workers)
      /\ Busy(P) \in Nat /\ Busy(P) <= p.parsers
  BY <1>0, InPass
<1>2. pipe' = [pipe EXCEPT ![s] = p]
  BY <1>0, PipeStays DEF WalletsUpserted, TxsInserted
<1>3. P[b] \in Parsing
  BY DEF WalletsUpserted, TxsInserted, Is, Parsing
<1>4. ASSUME NEW y \in Parsing
      PROVE  Flow([P EXCEPT ![b] = y], p, done, dep.workers)
  <2>1. Busy([P EXCEPT ![b] = y]) <= Busy(P) /\ Busy([P EXCEPT ![b] = y]) \in Nat
    BY <1>1, <1>3, BusyMoves
  <2>2. Busy([P EXCEPT ![b] = y]) <= p.parsers
    BY <1>1, <2>1 DEF Pipes
  <2>3. y \in Places /\ y \notin {"none", "iterator", "source", "token", "fetch", "fetched", "sink"}
    BY DEF Parsing, Places
  <2>4. QED
    BY <1>1, <2>2, <2>3, FlowMoves
<1>5. StoreStill /\ UNCHANGED failures /\ svc' = svc
  BY DEF WalletsUpserted, TxsInserted
<1>6. CASE WalletsUpserted(s, b)
  <2>1. Move(s, b, "txs") /\ CallInsertTxs(c, TxsOf(b))
    BY <1>6 DEF WalletsUpserted
  <2>2. /\ CallsOK' /\ (\A d \in Callers : d # c => call'[d] = call[d]) /\ Shaped(call'[c])
        /\ call'[c].kind = "txs" /\ call'[c].txs = TxsOf(b)
    BY <1>0, <2>1, RowsOfABlock, TxsCall
  <2>3. "txs" \in Parsing /\ "txs" \in Places
    BY DEF Parsing, Places
  <2>4. QED
    BY <1>0, <1>1, <1>2, <1>4, <1>5, <2>1, <2>2, <2>3, CallStep
<1>7. CASE TxsInserted(s, b)
  <2>1. Move(s, b, "parsed") /\ EndCall(c)
    BY <1>7 DEF TxsInserted
  <2>2. /\ CallsOK' /\ (\A d \in Callers : d # c => call'[d] = call[d]) /\ Shaped(call'[c])
        /\ call'[c] = NoCall
    BY <1>0, <2>1, CallEnded
  <2>3. "parsed" \in Parsing /\ "parsed" \in Places
    BY DEF Parsing, Places
  <2>4. QED
    BY <1>0, <1>1, <1>2, <1>4, <1>5, <2>1, <2>2, <2>3, CallStep
<1>8. QED
  BY <1>6, <1>7

LEMMA SinkTakesStep ==
  ASSUME TypeOK, ServiceBooks, FlowBooks, \A d \in Callers : Shaped(call[d]),
         NEW s \in Scanners, NEW b \in Blocks, SinkTakes(s, b)
  PROVE  PassStep(s)
<1> DEFINE P == place[s]
           p == pipe[s]
           c == Carrier(s, b)
           done == ctx[s] = "done"
<1>0. svc[s] = "scan" /\ c \in Callers /\ CallsOK /\ PlacesOK /\ PipesOK
  BY Constants, TypeParts DEF ServiceBooks, BooksOf, Callers, SinkTakes, Is
<1>1. /\ P \in [Blocks -> Places] /\ p \in Pipes /\ Flow(P, p, done, dep.workers)
      /\ Busy(P) \in Nat /\ Busy(P) <= p.parsers
  BY <1>0, InPass
<1>2. pipe' = [pipe EXCEPT ![s] = p]
  BY <1>0, PipeStays DEF SinkTakes
<1>3. P[b] = "parsed" /\ p.sink = "run" /\ \A a \in Blocks : P[a] # "sink"
  BY DEF SinkTakes, Is, Some
<1>4. Flow([P EXCEPT ![b] = "sink"], p, done, dep.workers)
  <2>1. Busy([P EXCEPT ![b] = "sink"]) <= Busy(P) /\ Busy([P EXCEPT ![b] = "sink"]) \in Nat
    BY <1>1, <1>3, BusyMoves DEF Parsing
  <2>2. Busy([P EXCEPT ![b] = "sink"]) <= p.parsers
    BY <1>1, <2>1 DEF Pipes
  <2>3. "sink" \in Places
    BY DEF Places
  <2>4. QED
    BY <1>1, <1>3, <2>2, <2>3, FlowMoves
<1>5. StoreStill /\ UNCHANGED failures /\ svc' = svc
  BY DEF SinkTakes
<1>6. Move(s, b, "sink") /\ CallUpsertBlocks(c, b, "processed")
  BY DEF SinkTakes
<1>7. CallsOK' /\ (\A d \in Callers : d # c => call'[d] = call[d]) /\ Shaped(call'[c])
  BY <1>0, <1>6, BlocksCall DEF MarkSet
<1>8. "sink" \in Places
  BY DEF Places
<1>9. QED
  BY <1>0, <1>1, <1>2, <1>4, <1>5, <1>6, <1>7, <1>8, CallStep

LEMMA AnswerSteps ==
  ASSUME TypeOK, ServiceBooks, FlowBooks, \A d \in Callers : Shaped(call[d]),
         NEW s \in Scanners, NEW b \in Blocks,
         ParserFails(s, b) \/ SinkConsumed(s, b) \/ SinkFails(s, b)
  PROVE  PassStep(s)
<1> DEFINE P == place[s]
           p == pipe[s]
           c == Carrier(s, b)
           done == ctx[s] = "done"
<1>0. svc[s] = "scan" /\ c \in Callers /\ CallsOK /\ PlacesOK /\ PipesOK
  BY Constants, TypeParts DEF ServiceBooks, BooksOf, Callers, ParserFails, SinkConsumed, SinkFails, Is
<1>1. /\ P \in [Blocks -> Places] /\ p \in Pipes /\ Flow(P, p, done, dep.workers)
      /\ Busy(P) \in Nat /\ Busy(P) <= p.parsers
  BY <1>0, InPass
<1> DEFINE Q == [P EXCEPT ![b] = "none"]
<1>2. P[b] \in {"wallets", "txs", "sink"} /\ Q[b] = "none" /\ \A a \in Blocks : a # b => Q[a] = P[a]
  BY <1>1 DEF ParserFails, SinkConsumed, SinkFails, Is
<1>3. /\ Busy(Q) \in Nat /\ Busy(Q) <= Busy(P)
      /\ P[b] # "sink" => Busy(Q) = Busy(P) - 1 /\ Busy(P) > 0
  BY <1>1, <1>2, BusyMoves DEF Parsing
<1> HIDE DEF Q
<1>4. Move(s, b, "none") /\ EndCall(c) /\ StoreStill /\ UNCHANGED failures /\ svc' = svc
  BY DEF ParserFails, SinkConsumed, SinkFails
<1>5. /\ CallsOK' /\ (\A d \in Callers : d # c => call'[d] = call[d]) /\ Shaped(call'[c])
      /\ call'[c] = NoCall
  BY <1>0, <1>4, CallEnded
<1>6. ASSUME NEW q \in Pipes, pipe' = [pipe EXCEPT ![s] = q], Flow(Q, q, done, dep.workers)
      PROVE  PassStep(s)
  <2>1. "none" \in Places
    BY DEF Places
  <2>2. Flow([P EXCEPT ![b] = "none"], q, done, dep.workers)
    BY <1>6 DEF Q
  <2>3. QED
    BY <1>0, <1>4, <1>5, <1>6, <2>1, <2>2, CallStep
<1>7. Emitted(s) \in 0 .. ErrCap /\ Emitted(s) > 0
  BY <1>1, EmittedTyped
<1>8. CASE ParserFails(s, b)
  <2> DEFINE q == [p EXCEPT !.errs = Emitted(s), !.parsers = @ - 1]
  <2>0. p.parsers - 1 \in Nat /\ Busy(Q) <= p.parsers - 1
    <3>1. P[b] # "sink" /\ p.parsers \in Nat
      BY <1>1, <1>8 DEF ParserFails, Pipes
    <3>2. QED
      BY <1>1, <1>3, <3>1
  <2>1. q \in Pipes /\ q.source = p.source /\ q.errs = Emitted(s) /\ q.dispatcher = p.dispatcher /\ q.parsers = p.parsers - 1
        /\ q.sink = p.sink /\ q.iterator = p.iterator /\ q.failed = p.failed /\ q.todo = p.todo
    BY <1>1, <1>7, <2>0 DEF Pipes
  <2>2. pipe' = [pipe EXCEPT ![s] = q]
    BY <1>8 DEF ParserFails
  <2> HIDE DEF q
  <2>3. ~Calm(q, done)
    BY <1>7, <2>1 DEF Calm
  <2>4. Flow(Q, q, done, dep.workers)
    BY <1>1, <1>2, <1>7, <2>0, <2>1, <2>3 DEF Flow
  <2>5. QED
    BY <1>6, <2>1, <2>2, <2>4
<1>9. CASE SinkConsumed(s, b)
  <2> DEFINE q == [p EXCEPT !.todo = @ \ {b}]
  <2>1. q \in Pipes /\ q.source = p.source /\ q.errs = p.errs /\ q.dispatcher = p.dispatcher /\ q.parsers = p.parsers
        /\ q.sink = p.sink /\ q.iterator = p.iterator /\ q.failed = p.failed /\ q.todo = p.todo \ {b}
    BY <1>1 DEF Pipes
  <2>2. pipe' = [pipe EXCEPT ![s] = q]
    BY <1>9 DEF SinkConsumed
  <2> HIDE DEF q
  <2>3. Calm(q, done) => Calm(p, done)
    BY <2>1 DEF Calm
  <2>4. Busy(Q) <= q.parsers /\ p.todo \subseteq Blocks
    BY <1>1, <1>3, <2>1 DEF Pipes
  <2>5. Flow(Q, q, done, dep.workers)
    BY <1>1, <1>2, <2>1, <2>3, <2>4 DEF Flow
  <2>6. QED
    BY <1>6, <2>1, <2>2, <2>5
<1>10. CASE SinkFails(s, b)
  <2> DEFINE q == [p EXCEPT !.errs = Emitted(s), !.sink = "end"]
  <2>1. q \in Pipes /\ q.source = p.source /\ q.errs = Emitted(s) /\ q.dispatcher = p.dispatcher /\ q.parsers = p.parsers
        /\ q.sink = "end" /\ q.iterator = p.iterator /\ q.failed = p.failed /\ q.todo = p.todo
    BY <1>1, <1>7 DEF Pipes
  <2>2. pipe' = [pipe EXCEPT ![s] = q]
    BY <1>10 DEF SinkFails
  <2> HIDE DEF q
  <2>3. ~Calm(q, done)
    BY <1>7, <2>1 DEF Calm
  <2>4. Busy(Q) <= q.parsers
    BY <1>1, <1>3, <2>1 DEF Pipes
  <2>5. \A a \in Blocks : Q[a] # "sink"
    <3>1. \A a \in Blocks : a # b => P[a] # "sink"
      BY <1>1, <1>10 DEF SinkFails, Is, Flow
    <3>2. QED
      BY <1>2, <3>1
  <2>6. Flow(Q, q, done, dep.workers)
    BY <1>1, <1>2, <1>7, <2>1, <2>3, <2>4, <2>5 DEF Flow
  <2>7. QED
    BY <1>6, <2>1, <2>2, <2>6
<1>11. QED
  BY <1>8, <1>9, <1>10

-----------------------------------------------------------------------------
(***************************************************************************)
(* Where a pass begins and ends.                                           *)
(***************************************************************************)
LEMMA FreshPipeTyped ==
  ASSUME DeploymentOK
  PROVE  /\ FreshPipe \in Pipes /\ FreshPipe.source = "run" /\ FreshPipe.dispatcher = "run"
         /\ FreshPipe.sink = "run" /\ FreshPipe.parsers = dep.workers /\ dep.workers \in Nat
         /\ FreshPipe.errs = 0 /\ FreshPipe.iterator = "ok" /\ FreshPipe.todo = {}
  BY DeploymentsAssumption, Constants DEF DeploymentOK, FreshPipe, Pipes

LEMMA ServiceGoes ==
  ASSUME ServicesOK, NEW v \in Services,
         NEW to \in {"idle", "listing", "scan", "listen", "upsert", "failed", "returned"},
         svc' = [svc EXCEPT ![v] = to]
  PROVE  ServicesOK' /\ svc'[v] = to /\ \A w \in Services : w # v => svc'[w] = svc[w]
  BY DEF ServicesOK

LEMMA ListingSteps ==
  ASSUME TypeOK, ServiceBooks, FlowBooks, \A d \in Callers : Shaped(call[d]),
         NEW s \in Scanners, BeginsPass(s) \/ BlocksListed(s) \/ BlocksFail(s)
  PROVE  PassStep(s)
<1> DEFINE c == Lister(s)
<1>0. /\ TablesOK /\ CallsOK /\ DeploymentOK /\ ServicesOK /\ PlacesOK /\ PipesOK
      /\ c \in Callers /\ c = <<s, 0>> /\ 0 \in 0 .. MaxBlock /\ s \in Services /\ s # Inserter
      /\ BooksOf(s) /\ Inserter \in Services
  BY Constants, TypeParts DEF ServiceBooks, Callers, Lister, Services
<1>1. StoreStill /\ UNCHANGED failures
  BY DEF BeginsPass, BlocksListed, BlocksFail
<1>2. TablesOK' /\ UNCHANGED <<dep, ctx>> /\ FreshPipe' = FreshPipe
  BY <1>0, <1>1, StoreStays DEF FreshPipe
<1>3. svc[s] # "scan" /\ pipe[s] = FreshPipe
      /\ \A b \in Blocks : place[s][b] = "none" /\ call[Carrier(s, b)] = NoCall
  <2>1. svc[s] \in {"idle", "listing"}
    BY DEF BeginsPass, BlocksListed, BlocksFail
  <2>2. QED
    BY <1>0, <2>1 DEF BooksOf
<1>4. \A b \in Blocks : Carrier(s, b) # c /\ Carrier(s, b) \in Callers
  <2>1. \A b \in Blocks : b # 0
    BY Constants DEF Blocks
  <2>2. \A b \in Blocks : Carrier(s, b) # c
    BY <2>1 DEF Carrier, Lister
  <2>3. QED
    BY <2>2, Constants DEF Callers
<1>5. CASE BeginsPass(s)
  <2>1. /\ CallsOK' /\ Shaped(call'[c]) /\ call'[c].kind = "list" /\ \A d \in Callers : d # c => call'[d] = call[d]
    BY <1>0, <1>5, ListCall DEF BeginsPass
  <2>2. /\ svc' = [svc EXCEPT ![s] = "listing"] /\ s \in dep.scanners /\ place' = place /\ pipe' = pipe
    BY <1>5 DEF BeginsPass
  <2>3. ServicesOK' /\ svc'[s] = "listing" /\ \A v \in Services : v # s => svc'[v] = svc[v]
    BY <1>0, <2>2, ServiceGoes
  <2>4. TypesAfter
    BY <1>0, <1>2, <2>1, <2>2, <2>3 DEF TypesAfter, PlacesOK, PipesOK
  <2>5. Away(s)
    BY <1>0, <1>2, <2>1, <2>2, <2>3 DEF Away, Services
  <2>6. BooksOf(s)'
    BY <1>2, <1>3, <1>4, <2>1, <2>2, <2>3 DEF BooksOf
  <2>7. FlowOf(s)'
    BY <2>3 DEF FlowOf
  <2>8. QED
    BY <2>4, <2>5, <2>6, <2>7 DEF PassStep
<1>6. CASE BlocksListed(s)
  <2> DEFINE P == [b \in Blocks |-> IF call[c].blocks[b] = "new" THEN "iterator" ELSE "none"]
             q == [FreshPipe EXCEPT !.todo = Marked(call[c].blocks)]
  <2>1. /\ CallsOK' /\ Shaped(call'[c]) /\ call'[c] = NoCall /\ \A d \in Callers : d # c => call'[d] = call[d]
    BY <1>0, <1>6, CallEnded DEF BlocksListed
  <2>2. /\ svc' = [svc EXCEPT ![s] = "scan"] /\ place' = [place EXCEPT ![s] = P]
        /\ pipe' = [pipe EXCEPT ![s] = q] /\ call[c].at = "ok" /\ svc[s] = "listing"
    BY <1>6 DEF BlocksListed, Returned
  <2>3. ServicesOK' /\ svc'[s] = "scan" /\ \A v \in Services : v # s => svc'[v] = svc[v]
    BY <1>0, <2>2, ServiceGoes
  <2>4. P \in [Blocks -> {"none", "iterator"}] /\ P \in [Blocks -> Places]
        /\ \A b \in Blocks : P[b] = IF call[c].blocks[b] = "new" THEN "iterator" ELSE "none"
    BY DEF Places
  <2>5. /\ q \in Pipes /\ q.source = "run" /\ q.dispatcher = "run" /\ q.sink = "run"
        /\ q.parsers = dep.workers /\ dep.workers \in Nat /\ q.todo = Marked(call[c].blocks)
    <3>1. Marked(call[c].blocks) \subseteq Blocks
      BY DEF Marked
    <3>2. QED
      BY <1>0, <3>1, FreshPipeTyped DEF Pipes
  <2>6. call[c].kind = "list" /\ call[c] \in Records
    BY <1>0, <2>2 DEF BooksOf, NoCall, CallsOK
  <2>7. \A b \in q.todo : P[b] # "none"
    <3>1. \A b \in Blocks : call[c].blocks[b] \in {"absent", "new"}
      BY <1>0, <2>6 DEF Shaped, Records, MarkSet
    <3>2. \A b \in Blocks : call[c].blocks[b] # "absent" => P[b] = "iterator"
      BY <2>4, <3>1
    <3> HIDE DEF q, P
    <3>3. QED
      BY <2>5, <3>2 DEF Marked
  <2> HIDE DEF P, q
  <2>8. Flow(P, q, ctx[s] = "done", dep.workers)
    BY <2>4, <2>5, <2>7, NewPass
  <2>9. PlacesOK' /\ place'[s] = P /\ \A d \in Scanners : d # s => place'[d] = place[d]
    BY <1>0, <2>2, <2>4 DEF PlacesOK
  <2>10. PipesOK' /\ pipe'[s] = q /\ \A d \in Scanners : d # s => pipe'[d] = pipe[d]
    BY <1>0, <2>2, <2>5, Piped
  <2>11. TypesAfter
    BY <1>0, <1>2, <2>1, <2>3, <2>9, <2>10 DEF TypesAfter
  <2>12. Away(s)
    BY <1>0, <1>2, <2>1, <2>3, <2>9, <2>10 DEF Away, Services
  <2>13. BooksOf(s)'
    <3>1. s \in dep.scanners
      BY <1>0, <2>2 DEF BooksOf
    <3>2. \A b \in Blocks : call'[Carrier(s, b)] = NoCall /\ P[b] \in {"none", "iterator"}
      BY <1>3, <1>4, <2>1, <2>4
    <3>3. QED
      BY <1>0, <1>2, <2>1, <2>3, <2>9, <3>1, <3>2 DEF BooksOf
  <2>14. FlowOf(s)'
    BY <1>2, <2>8, <2>9, <2>10, PassStepFlow
  <2>15. QED
    BY <2>11, <2>12, <2>13, <2>14 DEF PassStep
<1>7. CASE BlocksFail(s)
  <2>1. /\ CallsOK' /\ Shaped(call'[c]) /\ call'[c] = NoCall /\ \A d \in Callers : d # c => call'[d] = call[d]
    BY <1>0, <1>7, CallEnded DEF BlocksFail
  <2>2. PICK to \in {"scan", "failed"} : svc' = [svc EXCEPT ![s] = to]
    BY <1>7 DEF BlocksFail
  <2>3. ServicesOK' /\ svc'[s] = to /\ \A v \in Services : v # s => svc'[v] = svc[v]
    BY <1>0, <2>2, ServiceGoes
  <2>4. place' = place /\ svc[s] = "listing"
    BY <1>7 DEF BlocksFail
  <2> DEFINE q == [FreshPipe EXCEPT !.iterator = "err"]
  <2>5. /\ q \in Pipes /\ q.source = "run" /\ q.dispatcher = "run" /\ q.sink = "run"
        /\ q.parsers = dep.workers /\ dep.workers \in Nat /\ q.iterator = "err"
    BY <1>0, FreshPipeTyped DEF Pipes
  <2>6. \/ to = "scan" /\ pipe' = [pipe EXCEPT ![s] = q]
        \/ to = "failed" /\ pipe' = pipe
    <3>1. svc'[s] = to
      BY <2>3
    <3>2. CASE dep.remote
      <4>1. svc' = [svc EXCEPT ![s] = "scan"] /\ pipe' = [pipe EXCEPT ![s] = q]
        BY <1>7, <3>2 DEF BlocksFail
      <4>2. to = "scan"
        BY <1>0, <3>1, <4>1, ServiceGoes
      <4>3. QED
        BY <4>1, <4>2
    <3>3. CASE ~dep.remote
      <4>1. svc' = [svc EXCEPT ![s] = "failed"] /\ pipe' = pipe
        BY <1>7, <3>3 DEF BlocksFail
      <4>2. to = "failed"
        BY <1>0, <3>1, <4>1, ServiceGoes
      <4>3. QED
        BY <4>1, <4>2
    <3>4. QED
      BY <3>2, <3>3
  <2> HIDE DEF q
  <2>7. PipesOK' /\ \A d \in Scanners : d # s => pipe'[d] = pipe[d]
    BY <1>0, <2>5, <2>6, Piped DEF PipesOK
  <2>8. to = "scan" => pipe'[s] = q
    BY <1>0, <2>5, <2>6, Piped
  <2>9. to = "failed" => pipe'[s] = pipe[s]
    BY <2>6
  <2>10. place[s] \in [Blocks -> {"none", "iterator"}]
    BY <1>0, <1>3 DEF PlacesOK
  <2>11. Flow(place[s], q, ctx[s] = "done", dep.workers)
    <3>1. ~Calm(q, ctx[s] = "done")
      BY <2>5 DEF Calm
    <3>2. QED
      BY <2>5, <2>10, <3>1, NewPass
  <2>12. TypesAfter
    BY <1>0, <1>2, <2>1, <2>3, <2>4, <2>7 DEF TypesAfter, PlacesOK
  <2>13. Away(s)
    BY <1>0, <1>2, <2>1, <2>3, <2>4, <2>7 DEF Away, Services
  <2>14. BooksOf(s)'
    <3>1. s \in dep.scanners
      BY <1>0, <2>4 DEF BooksOf
    <3>2. \A b \in Blocks : call'[Carrier(s, b)] = NoCall /\ place'[s][b] = "none"
      BY <1>3, <1>4, <2>1, <2>4
    <3>3. QED
      BY <1>0, <1>2, <1>3, <2>1, <2>3, <2>9, <3>1, <3>2 DEF BooksOf
  <2>15. FlowOf(s)'
    BY <1>2, <2>3, <2>4, <2>8, <2>11, PassStepFlow
  <2>16. QED
    BY <2>12, <2>13, <2>14, <2>15 DEF PassStep
<1>8. QED
  BY <1>5, <1>6, <1>7

LEMMA ReturningSteps ==
  ASSUME TypeOK, ServiceBooks, FlowBooks, \A d \in Callers : Shaped(call[d]),
         NEW s \in Scanners, PassEnds(s) \/ ScannerStops(s)
  PROVE  PassStep(s)
<1>0. /\ TablesOK /\ CallsOK /\ DeploymentOK /\ ServicesOK /\ PlacesOK /\ PipesOK
      /\ s \in Services /\ s # Inserter /\ BooksOf(s) /\ Inserter \in Services
  BY Constants, TypeParts DEF ServiceBooks, Services
<1>1. StoreStill /\ UNCHANGED <<failures, call, place>>
  BY DEF PassEnds, ScannerStops, Still
<1>2. TablesOK' /\ UNCHANGED <<dep, ctx>> /\ FreshPipe' = FreshPipe
  BY <1>0, <1>1, StoreStays DEF FreshPipe
<1>3. \A b \in Blocks : place[s][b] = "none"
  <2>1. CASE PassEnds(s)
    <3>1. svc[s] = "scan" /\ pipe[s].source = "end" /\ pipe[s].dispatcher = "end"
          /\ pipe[s].sink = "end" /\ pipe[s].parsers = 0
      BY <2>1 DEF PassEnds, AllEnded
    <3>2. /\ place[s] \in [Blocks -> Places] /\ Flow(place[s], pipe[s], ctx[s] = "done", dep.workers)
          /\ Busy(place[s]) = 0
      BY <3>1, InPass
    <3>3. \A b \in Blocks : place[s][b] \notin Parsing
      <4>1. Count(s, Parsing) = 0
        BY <3>2 DEF Count, Busy
      <4>2. QED
        BY <4>1, NobodyThere
    <3>4. QED
      BY <3>1, <3>2, <3>3 DEF Flow, Places, Parsing
  <2>2. CASE ScannerStops(s)
    BY <1>0, <2>2 DEF ScannerStops, BooksOf
  <2>3. QED
    BY <2>1, <2>2
<1>4. s \in dep.scanners
  BY <1>0 DEF PassEnds, AllEnded, ScannerStops, BooksOf
<1>5. PICK to \in {"idle", "failed", "returned"} : svc' = [svc EXCEPT ![s] = to]
  BY DEF PassEnds, ScannerStops
<1>6. pipe' = [pipe EXCEPT ![s] = FreshPipe]
  <2>1. CASE PassEnds(s)
    BY <2>1 DEF PassEnds
  <2>2. CASE ScannerStops(s)
    <3>1. pipe[s] = FreshPipe /\ pipe' = pipe
      BY <1>0, <2>2 DEF ScannerStops, BooksOf
    <3>2. QED
      BY <1>0, <3>1 DEF PipesOK
  <2>3. QED
    BY <2>1, <2>2
<1>7. ServicesOK' /\ svc'[s] = to /\ \A v \in Services : v # s => svc'[v] = svc[v]
  BY <1>0, <1>5, ServiceGoes
<1>8. PipesOK' /\ pipe'[s] = FreshPipe /\ \A d \in Scanners : d # s => pipe'[d] = pipe[d]
  BY <1>0, <1>6, Piped, FreshPipeTyped
<1>9. CallsOK' /\ PlacesOK' /\ \A c \in Callers : Shaped(call'[c])
  BY <1>0, <1>1 DEF CallsOK, PlacesOK
<1>10. TypesAfter
  BY <1>2, <1>7, <1>8, <1>9 DEF TypesAfter
<1>11. Away(s)
  BY <1>0, <1>1, <1>2, <1>7, <1>8 DEF Away, Services
<1>12. BooksOf(s)'
  <2>1. call'[Lister(s)] = NoCall /\ \A b \in Blocks : call'[Carrier(s, b)] = NoCall
    <3>1. svc[s] # "listing"
      BY DEF PassEnds, AllEnded, ScannerStops
    <3>2. QED
      BY <1>0, <1>1, <1>3, <3>1 DEF BooksOf
  <2>2. QED
    BY <1>1, <1>2, <1>3, <1>4, <1>7, <1>8, <2>1 DEF BooksOf
<1>13. FlowOf(s)'
  BY <1>7 DEF FlowOf
<1>14. QED
  BY <1>10, <1>11, <1>12, <1>13 DEF PassStep

LEMMA ScannerSteps ==
  ASSUME TypeOK, ServiceBooks, FlowBooks, \A d \in Callers : Shaped(call[d]),
         NEW s \in Scanners, Scanner(s)
  PROVE  PassStep(s)
<1>1. pipe[s].dispatcher = "drain" \/ pipe[s].errs > 0 => svc[s] = "scan"
  <2>1. BooksOf(s) /\ DeploymentOK
    BY TypeParts DEF ServiceBooks
  <2>2. QED
    BY <2>1, FreshPipeTyped DEF BooksOf
<1>2. CASE \/ BeginsPass(s) \/ BlocksListed(s) \/ BlocksFail(s) \/ PassEnds(s) \/ ScannerStops(s)
           \/ SourceEnds(s) \/ SourceStops(s) \/ IteratorBreaks(s)
  BY <1>2, ListingSteps, ReturningSteps, SourceSteps
<1>3. CASE \/ DispatcherDrains(s) \/ DispatcherEnds(s)
           \/ ParserStops(s) \/ SinkStops(s) \/ CollectsError(s)
  <2>1. DispatcherEnds(s) \/ CollectsError(s) => svc[s] = "scan"
    BY <1>1 DEF DispatcherEnds, CollectsError
  <2>2. QED
    BY <1>3, <2>1, DispatcherSteps, EndingSteps
<1>4. CASE \E b \in Blocks :
             \/ SourceNext(s, b) \/ DispatcherTakes(s, b) \/ DispatcherSpawns(s, b)
             \/ BlockFetched(s, b) \/ BlockFetchFails(s, b) \/ FetchedDropped(s, b)
             \/ ParserTakes(s, b) \/ WalletsUpserted(s, b) \/ TxsInserted(s, b)
             \/ ParserFails(s, b) \/ ParsedDropped(s, b)
             \/ SinkTakes(s, b) \/ SinkConsumed(s, b) \/ SinkFails(s, b)
  BY <1>4, HandingOn, DroppingSteps, ParserTakesStep, ParserSteps, SinkTakesStep, AnswerSteps
<1>5. QED
  BY <1>2, <1>3, <1>4 DEF Scanner

-----------------------------------------------------------------------------
(***************************************************************************)
(* The other steps: the inserter, failing RPCs, late rows and processes.   *)
(***************************************************************************)
CoreInv == TypeOK /\ ServiceBooks /\ FlowBooks /\ \A c \in Callers : Shaped(call[c])

LEMMA InserterSteps ==
  ASSUME CoreInv, BlockInserter
  PROVE  CoreInv'
<1>0. /\ TablesOK /\ CallsOK /\ DeploymentOK /\ ServicesOK /\ PlacesOK /\ PipesOK
      /\ ServiceBooks /\ FlowBooks /\ \A c \in Callers : Shaped(call[c])
      /\ Inserter \in Services /\ Inserter \in Callers
  BY TypeParts DEF CoreInv, Services, Callers, Clients
<1>1. StoreStill /\ (UNCHANGED failures \/ Fail) /\ UNCHANGED <<place, pipe>>
  BY DEF BlockInserter, Subscribes, SubscriptionFails, HeaderArrives, HeaderUpserted, InserterStops, Still
<1>2. TablesOK' /\ UNCHANGED <<dep, ctx>> /\ FreshPipe' = FreshPipe
  BY <1>0, <1>1, StoreStays DEF FreshPipe
<1>3. \E to \in {"listen", "upsert", "failed", "returned"} : InserterGoes(to)
  BY DEF BlockInserter, Subscribes, SubscriptionFails, HeaderArrives, HeaderUpserted, InserterStops
<1>4. ServicesOK' /\ \A s \in Scanners : svc'[s] = svc[s]
  BY <1>0, <1>3, Constants, ServiceGoes DEF InserterGoes, Services
<1>5. /\ CallsOK' /\ \A c \in Callers : Shaped(call'[c])
      /\ \A d \in Callers : d # Inserter => call'[d] = call[d]
      /\ call'[Inserter] # NoCall => svc'[Inserter] = "upsert"
  <2>1. CASE Subscribes \/ SubscriptionFails \/ InserterStops
    <3>1. call' = call
      BY <2>1 DEF Subscribes, SubscriptionFails, InserterStops, Still
    <3>2. svc[Inserter] # "upsert"
      BY <2>1 DEF Subscribes, SubscriptionFails, InserterStops
    <3>3. QED
      BY <1>0, <3>1, <3>2 DEF ServiceBooks, CallsOK
  <2>2. ASSUME NEW b \in Blocks, HeaderArrives(b)
        PROVE  /\ CallsOK' /\ \A c \in Callers : Shaped(call'[c])
               /\ \A d \in Callers : d # Inserter => call'[d] = call[d]
               /\ call'[Inserter] # NoCall => svc'[Inserter] = "upsert"
             <3>1. CallUpsertBlocks(Inserter, b, "new") /\ InserterGoes("upsert")
      BY <2>2 DEF HeaderArrives
    <3>2. svc'[Inserter] = "upsert"
      BY <1>0, <3>1 DEF InserterGoes, ServicesOK
    <3>3. QED
      BY <1>0, <3>1, <3>2, BlocksCall DEF MarkSet
  <2>3. CASE HeaderUpserted
    <3>1. EndCall(Inserter)
      BY <2>3 DEF HeaderUpserted
    <3>2. QED
      BY <1>0, <3>1, CallEnded
  <2>4. QED
    BY <2>1, <2>2, <2>3 DEF BlockInserter
<1>6. PlacesOK' /\ PipesOK'
  BY <1>0, <1>1 DEF PlacesOK, PipesOK
<1>7. ASSUME NEW s \in Scanners PROVE BooksOf(s)'
  <2>1. call'[Lister(s)] = call[Lister(s)] /\ \A b \in Blocks : call'[Carrier(s, b)] = call[Carrier(s, b)]
    BY <1>5, Constants DEF Callers
  <2>2. QED
    BY <1>0, <1>1, <1>2, <1>4, <2>1 DEF ServiceBooks, BooksOf
<1>8. ServiceBooks'
  <2>1. call'[Orphan] = call[Orphan]
    BY <1>5, Constants DEF Callers, Clients
  <2>2. QED
    BY <1>0, <1>2, <1>5, <1>7, <2>1 DEF ServiceBooks
<1>9. FlowBooks'
  BY <1>0, <1>1, <1>2, <1>4 DEF FlowBooks, FlowOf
<1>10. QED
  BY <1>2, <1>4, <1>5, <1>6, <1>8, <1>9, TypeParts DEF CoreInv, DeploymentOK

LEMMA OnlyCalls ==
  ASSUME CoreInv, UNCHANGED <<dep, ctx, svc, place, pipe>>, TablesOK', CallsOK',
         ServiceBooks', \A c \in Callers : Shaped(call'[c])
  PROVE  CoreInv'
<1>1. DeploymentOK' /\ ServicesOK' /\ PlacesOK' /\ PipesOK'
  BY TypeParts DEF CoreInv, DeploymentOK, ServicesOK, PlacesOK, PipesOK
<1>2. FlowBooks'
  BY DEF CoreInv, FlowBooks, FlowOf
<1>3. QED
  BY <1>1, <1>2, TypeParts DEF CoreInv

\* An RPC that fails ends its call with an error; an abandoned one moves to Orphan.
LEMMA FailedRPC ==
  ASSUME CallsOK, NEW c \in Clients, RPCFails(c), \A d \in Callers : Shaped(call[d])
  PROVE  /\ CallsOK' /\ call[c].kind # "none" /\ call[c] \in Records
         /\ call'[c] = [call[c] EXCEPT !.at = "err"] /\ call'[c].at = "err"
         /\ call'[c].kind = call[c].kind /\ call'[c].txs = call[c].txs
         /\ call'[c].wallets = call[c].wallets /\ call'[c].blocks = call[c].blocks
         /\ \A d \in Clients : d # c => call'[d] = call[d]
         /\ \/ call'[Orphan] = call[Orphan]
            \/ call'[Orphan] = call[c] /\ call[c].at # "ok"
         /\ Shaped(call'[c])
<1> DEFINE r == [call[c] EXCEPT !.at = "err"]
<1>1. call[c] \in Records /\ c \in Callers /\ Orphan \in Callers /\ c # Orphan
  BY Constants DEF CallsOK, Callers
<1>2. r \in Records /\ r.at = "err" /\ r.kind = call[c].kind /\ r.txs = call[c].txs
      /\ r.wallets = call[c].wallets /\ r.blocks = call[c].blocks
  BY <1>1 DEF Records, Steps
<1> HIDE DEF r
<1>3. \/ call' = [call EXCEPT ![c] = r]
      \/ call' = [[call EXCEPT ![c] = r] EXCEPT ![Orphan] = call[c]] /\ call[c].at # "ok"
  <2>1. \/ call' = [call EXCEPT ![c].at = "err"]
        \/ call' = [call EXCEPT ![c].at = "err", ![Orphan] = call[c]] /\ call[c].at # "ok"
    BY DEF RPCFails
  <2>2. QED
    BY <2>1 DEF r
<1>4. /\ CallsOK' /\ call'[c] = r
      /\ \A d \in Clients : d # c => call'[d] = call[d]
      /\ call'[Orphan] = call[Orphan] \/ (call'[Orphan] = call[c] /\ call[c].at # "ok")
  <2>1. \A d \in Clients : d # Orphan /\ d \in Callers
    BY Constants DEF Callers
  <2>2. QED
    BY <1>1, <1>2, <1>3, <2>1 DEF CallsOK
<1>5. call[c].kind # "none"
  BY <1>1, WhereTheCallIs DEF RPCFails
<1>6. Shaped(r)
  <2>1. "err" \in StepsOf(call[c].kind)
    BY <1>1, <1>5, StepsOfKinds DEF Records, Kinds
  <2>2. QED
    BY <1>1, <1>2, <2>1 DEF Shaped
<1>7. QED
  BY <1>1, <1>2, <1>4, <1>5, <1>6 DEF r

LEMMA RPCFailsStep ==
  ASSUME CoreInv, NEW c \in Clients, RPCFails(c), UNCHANGED scanVars
  PROVE  CoreInv'
<1>0. TablesOK /\ CallsOK /\ ServiceBooks /\ (\A d \in Callers : Shaped(call[d])) /\ c \in Callers
  BY TypeParts DEF CoreInv, Callers
<1>1. TablesOK' /\ UNCHANGED <<dep, ctx>> /\ dep.remote
  BY <1>0, FailureCounted DEF RPCFails, TablesOK, tables, caches
<1>2. /\ CallsOK' /\ call[c].kind # "none" /\ call'[c].kind = call[c].kind
      /\ call'[c].txs = call[c].txs /\ call'[c].wallets = call[c].wallets
      /\ \A d \in Clients : d # c => call'[d] = call[d]
      /\ call'[Orphan] \in {call[Orphan], call[c]} /\ Shaped(call'[c])
  BY <1>0, FailedRPC
<1>3. \A d \in Callers : Shaped(call'[d])
  BY <1>0, <1>2 DEF Callers
<1>4. ServiceBooks'
  <2>1. call[c] # NoCall
    BY <1>2 DEF NoCall
  <2>2. UNCHANGED <<svc, place, pipe, dep, ctx>>
    BY <1>1 DEF scanVars
  <2>3. QED
    BY <1>0, <1>1, <1>2, <2>1, <2>2, CallsKeepBooks
<1>5. QED
  BY <1>1, <1>2, <1>3, <1>4, OnlyCalls DEF scanVars

LEMMA OrphanEndsStep ==
  ASSUME CoreInv, OrphanEnds, UNCHANGED scanVars
  PROVE  CoreInv'
<1>0. TablesOK /\ CallsOK /\ ServiceBooks /\ (\A d \in Callers : Shaped(call[d])) /\ Orphan \in Callers
  BY TypeParts DEF CoreInv, Callers
<1>1. TablesOK' /\ UNCHANGED <<dep, ctx>>
  BY <1>0 DEF OrphanEnds, TablesOK, tables, caches
<1>2. /\ CallsOK' /\ call'[Orphan] = NoCall /\ Shaped(call'[Orphan])
      /\ \A d \in Callers : d # Orphan => call'[d] = call[d]
  BY <1>0, CallEnded DEF OrphanEnds
<1>3. ServiceBooks'
  <2>1. \A d \in Clients : call'[d] = call[d]
    BY <1>2, Constants DEF Callers
  <2>2. UNCHANGED <<svc, place, pipe, dep, ctx>>
    BY <1>1 DEF scanVars
  <2>3. QED
    BY <1>0, <1>2, <2>1, <2>2, CallsKeepBooks
<1>4. \A d \in Callers : Shaped(call'[d])
  BY <1>0, <1>2
<1>5. QED
  BY <1>1, <1>2, <1>3, <1>4, OnlyCalls DEF scanVars

LEMMA LateRowTyped ==
  ASSUME TablesOK, LateRowStored
  PROVE  TablesOK'
<1>0. UNCHANGED <<dep, ctx, caches, call, failures, lost>>
  BY DEF LateRowStored
<1>1. CASE \E w \in late.wallets :
             /\ wallet' = wallet \cup {w}
             /\ late' = [late EXCEPT !.wallets = @ \ {w}]
             /\ UNCHANGED <<block, tx>>
  BY <1>0, <1>1 DEF TablesOK, LateRows, caches
<1>2. CASE \E t \in late.txs :
             /\ WalletsOf({t}) \subseteq wallet
             /\ tx' = tx \cup {t}
             /\ late' = [late EXCEPT !.txs = @ \ {t}]
             /\ UNCHANGED <<block, wallet>>
  BY <1>0, <1>2 DEF TablesOK, LateRows, caches
<1>3. CASE \E b \in Marked(late.blocks) :
             /\ block' = [block EXCEPT ![b] = late.blocks[b]]
             /\ late' = [late EXCEPT !.blocks[b] = "absent"]
             /\ UNCHANGED <<tx, wallet>>
  <2>1. PICK b \in Blocks : /\ block' = [block EXCEPT ![b] = late.blocks[b]]
                            /\ late' = [late EXCEPT !.blocks[b] = "absent"]
                            /\ UNCHANGED <<tx, wallet>>
    BY <1>3 DEF Marked
  <2>2. late.blocks \in [Blocks -> MarkSet]
    BY DEF TablesOK, LateRows
  <2>3. block' \in [Blocks -> MarkSet] /\ [late.blocks EXCEPT ![b] = "absent"] \in [Blocks -> MarkSet]
    BY <2>1, <2>2 DEF TablesOK, MarkSet
  <2>4. late' = [late EXCEPT !.blocks = [late.blocks EXCEPT ![b] = "absent"]]
    BY <2>1
  <2>5. late' \in LateRows
    BY <2>3, <2>4 DEF TablesOK, LateRows
  <2>6. QED
    BY <1>0, <2>1, <2>3, <2>5 DEF TablesOK, caches
<1>4. QED
  BY <1>1, <1>2, <1>3 DEF LateRowStored

LEMMA LateRowStep ==
  ASSUME CoreInv, LateRowStored, UNCHANGED scanVars
  PROVE  CoreInv'
<1>1. TablesOK' /\ UNCHANGED <<dep, ctx, call>> /\ CallsOK
  BY LateRowTyped, TypeParts DEF CoreInv, LateRowStored
<1>2. CallsOK' /\ (\A d \in Callers : Shaped(call'[d])) /\ ServiceBooks
  BY <1>1 DEF CoreInv, CallsOK
<1>3. ServiceBooks'
  <2>1. UNCHANGED <<svc, place, pipe, dep, ctx>>
    BY <1>1 DEF scanVars
  <2>2. QED
    BY <1>1, <1>2, <2>1, CallsKeepBooks DEF ServiceBooks
<1>4. QED
  BY <1>1, <1>2, <1>3, OnlyCalls DEF scanVars

\* An inserter that finds another row in its hand found one of the cache.
LEMMA ReplacedTyped ==
  ASSUME TablesOK, LateRowReplaced
  PROVE  TablesOK' /\ UNCHANGED <<dep, ctx, tables, caches, call, lost>>
<1>0. UNCHANGED <<dep, ctx, tables, caches, call, failures, lost>>
  BY DEF LateRowReplaced
<1>1. late' \in LateRows
  <2>1. CASE \E v \in late.wallets, w \in walletC :
               late' = [late EXCEPT !.wallets = (@ \ {v}) \cup {w}]
    BY <2>1 DEF TablesOK, LateRows
  <2>2. CASE \E s \in late.txs, t \in txC : late' = [late EXCEPT !.txs = (@ \ {s}) \cup {t}]
    BY <2>2 DEF TablesOK, LateRows
  <2>3. CASE \E a \in Marked(late.blocks), b \in Marked(blockC) :
               late' = [late EXCEPT !.blocks = Over(Marks({b}, blockC[b]), [@ EXCEPT ![a] = "absent"]),
                                    !.early = TRUE]
    <3>1. PICK a \in Blocks, b \in Blocks :
            late' = [late EXCEPT !.blocks = Over(Marks({b}, blockC[b]), [late.blocks EXCEPT ![a] = "absent"]),
                                 !.early = TRUE]
      BY <2>3 DEF Marked
    <3>2. [late.blocks EXCEPT ![a] = "absent"] \in [Blocks -> MarkSet] /\ blockC[b] \in MarkSet
      BY DEF TablesOK, LateRows, MarkSet
    <3>3. Over(Marks({b}, blockC[b]), [late.blocks EXCEPT ![a] = "absent"]) \in [Blocks -> MarkSet]
      BY <3>2 DEF Over, Marks, MarkSet
    <3>4. QED
      BY <3>1, <3>3 DEF TablesOK, LateRows
  <2>4. QED
    BY <2>1, <2>2, <2>3 DEF LateRowReplaced
<1>2. QED
  BY <1>0, <1>1 DEF TablesOK, tables, caches

LEMMA ReplacedStep ==
  ASSUME CoreInv, LateRowReplaced, UNCHANGED scanVars
  PROVE  CoreInv'
<1>1. TablesOK' /\ UNCHANGED <<dep, ctx, call>> /\ CallsOK
  BY ReplacedTyped, TypeParts DEF CoreInv
<1>2. CallsOK' /\ (\A d \in Callers : Shaped(call'[d])) /\ ServiceBooks
  BY <1>1 DEF CoreInv, CallsOK
<1>3. ServiceBooks'
  <2>1. UNCHANGED <<svc, place, pipe, dep, ctx>>
    BY <1>1 DEF scanVars
  <2>2. QED
    BY <1>1, <1>2, <2>1, CallsKeepBooks DEF ServiceBooks
<1>4. QED
  BY <1>1, <1>2, <1>3, OnlyCalls DEF scanVars

LEMMA Parties ==
  ASSUME TypeOK
  PROVE  /\ dep.scanners \subseteq Scanners /\ Deployed \subseteq Services /\ Inserter \in Deployed
         /\ \A s \in Scanners : s \in Deployed <=> s \in dep.scanners
         /\ \A v \in Services : v \in Scanners \/ v = Inserter
  BY DeploymentsAssumption, Constants, TypeParts DEF DeploymentOK, Deployed, Services

\* Contexts are cancelled: of services that are deployed, and for good.
LEMMA CancelStep ==
  ASSUME CoreInv, NEW v \in Services, Cancel(v), v \in Deployed,
         UNCHANGED <<dep, call, place, pipe>>, TablesOK', ServicesOK',
         \A w \in Services : svc'[w] = svc[w] \/ (svc[w] = "failed" /\ svc'[w] = "returned")
  PROVE  CoreInv'
<1>0. TypeOK /\ CallsOK /\ DeploymentOK /\ ServicesOK /\ PlacesOK /\ PipesOK /\ ServiceBooks /\ FlowBooks
  BY TypeParts DEF CoreInv
<1>1. /\ ctx' \in [Services -> {"live", "done"}]
      /\ \A w \in Services : ctx'[w] = ctx[w] \/ (ctx'[w] = "done" /\ w \in Deployed)
      /\ \A w \in Services : ctx[w] = "done" => ctx'[w] = "done"
  <2>1. Together(v) \subseteq Deployed
    BY DEF Together
  <2>2. QED
    BY <1>0, <2>1 DEF Cancel, DeploymentOK
<1>2. DeploymentOK' /\ CallsOK' /\ PlacesOK' /\ PipesOK' /\ FreshPipe' = FreshPipe
  BY <1>0, <1>1 DEF DeploymentOK, CallsOK, PlacesOK, PipesOK, FreshPipe
<1>3. ASSUME NEW s \in Scanners PROVE BooksOf(s)' /\ FlowOf(s)'
  <2>1. BooksOf(s) /\ FlowOf(s) /\ s \in Services
    BY <1>0 DEF ServiceBooks, FlowBooks, Services
  <2>2. svc'[s] = "scan" <=> svc[s] = "scan"
    BY <2>1
  <2>3. svc'[s] = "listing" <=> svc[s] = "listing"
    BY <2>1
  <2>4. svc'[s] # "idle" \/ ctx'[s] = "done" => s \in dep.scanners
    BY <1>0, <1>1, <2>1, Parties DEF BooksOf
  <2>5. BooksOf(s)'
    BY <1>2, <2>1, <2>2, <2>3, <2>4 DEF BooksOf
  <2>6. FlowOf(s)'
    BY <1>1, <2>1, <2>2, FlowHurried DEF FlowOf
  <2>7. QED
    BY <2>5, <2>6
<1>4. ServiceBooks'
  <2>1. Inserter \in Services
    BY DEF Services
  <2>2. QED
    BY <1>0, <1>3, <2>1 DEF ServiceBooks
<1>5. FlowBooks'
  BY <1>3 DEF FlowBooks
<1>6. \A c \in Callers : Shaped(call'[c])
  BY DEF CoreInv
<1>7. QED
  BY <1>0, <1>2, <1>4, <1>5, <1>6, TypeParts DEF CoreInv

LEMMA ServiceFailsStep ==
  ASSUME CoreInv, NEW v \in Services, ServiceFails(v)
  PROVE  CoreInv'
<1>0. TypeOK /\ TablesOK /\ ServicesOK /\ ServiceBooks
  BY TypeParts DEF CoreInv
<1>1. TablesOK'
  BY <1>0 DEF ServiceFails, TablesOK, tables, caches
<1>2. svc[v] = "failed" /\ svc' = [svc EXCEPT ![v] = "returned"]
  BY DEF ServiceFails
<1>3. ServicesOK' /\ svc'[v] = "returned" /\ \A w \in Services : w # v => svc'[w] = svc[w]
  BY <1>0, <1>2, ServiceGoes
<1>4. v \in Deployed
  BY <1>0, <1>2, Parties DEF ServiceBooks, BooksOf
<1>5. UNCHANGED <<dep, call, place, pipe>> /\ Cancel(v)
  BY DEF ServiceFails
<1>6. QED
  BY <1>1, <1>2, <1>3, <1>4, <1>5, CancelStep

LEMMA SignalStep ==
  ASSUME CoreInv, NEW v \in Services, Signal(v)
  PROVE  CoreInv'
<1>0. TypeOK /\ TablesOK /\ ServicesOK
  BY TypeParts DEF CoreInv
<1>1. TablesOK'
  BY <1>0, FailureCounted DEF Signal, TablesOK, tables, caches
<1>2. svc' = svc /\ v \in Deployed /\ Cancel(v) /\ UNCHANGED <<dep, call, place, pipe>>
  BY DEF Signal
<1>3. ServicesOK'
  BY <1>0, <1>2 DEF ServicesOK
<1>4. QED
  BY <1>1, <1>2, <1>3, CancelStep

LEMMA CrashTyped ==
  ASSUME TablesOK, StoreCrash, failures' \in Nat
  PROVE  TablesOK' /\ dep' = dep
<1>1. NoMarks \in [Blocks -> MarkSet] /\ NoRows \in LateRows
  BY MarkFunctions, NoCallRecord
<1>2. lost' \in BOOLEAN /\ blockC' = NoMarks /\ txC' = {} /\ walletC' = {} /\ dep' = dep
  BY DEF StoreCrash, TablesOK
<1>3. block' \in [Blocks -> MarkSet] /\ tx' \subseteq Txs /\ wallet' \subseteq Wallets /\ late' \in LateRows
  <2>1. CASE Memory
    BY <1>1, <2>1 DEF StoreCrash
  <2>2. CASE ~Memory
    BY <2>2 DEF StoreCrash, TablesOK, tables, LateRows, Lists, Unheld
  <2>3. QED
    BY <2>1, <2>2
<1>4. QED
  BY <1>1, <1>2, <1>3 DEF TablesOK

\* Services that are started again begin anew; they are in no call.
LEMMA RestartStep ==
  ASSUME CoreInv, NEW V \in SUBSET Services, Restarted(V), TablesOK', dep' = dep,
         \A c \in Callers : call'[c] \in {call[c], NoCall},
         \A s \in Scanners : s \in V => /\ call'[Lister(s)] = NoCall
                                        /\ \A b \in Blocks : call'[Carrier(s, b)] = NoCall,
         \A s \in Scanners : s \notin V => /\ call'[Lister(s)] = call[Lister(s)]
                                           /\ \A b \in Blocks : call'[Carrier(s, b)] = call[Carrier(s, b)],
         call' \in [Callers -> Records],
         Inserter \in V => call'[Inserter] = NoCall
  PROVE  CoreInv'
<1>0. TypeOK /\ DeploymentOK /\ ServicesOK /\ PlacesOK /\ PipesOK /\ ServiceBooks /\ FlowBooks
      /\ \A c \in Callers : Shaped(call[c])
  BY TypeParts DEF CoreInv
<1>1. FreshPipe' = FreshPipe /\ FreshPipe \in Pipes
  BY <1>0, FreshPipeTyped DEF FreshPipe
<1>2. Nowhere \in [Blocks -> Places] /\ \A b \in Blocks : Nowhere[b] = "none"
  BY DEF Nowhere, Places
<1>3. \A v \in Services : /\ svc'[v] = IF v \in V THEN "idle" ELSE svc[v]
                          /\ ctx'[v] = IF v \in V THEN "live" ELSE ctx[v]
  BY DEF Restarted
<1>4. \A s \in Scanners : /\ place'[s] = IF s \in V THEN Nowhere ELSE place[s]
                          /\ pipe'[s] = IF s \in V THEN FreshPipe ELSE pipe[s]
  BY DEF Restarted
<1>5. DeploymentOK' /\ ServicesOK' /\ PlacesOK' /\ PipesOK' /\ CallsOK'
  <2>1. DeploymentOK'
    BY <1>0 DEF Restarted, DeploymentOK
  <2>2. ServicesOK'
    BY <1>0 DEF Restarted, ServicesOK
  <2>3. PlacesOK'
    BY <1>0, <1>2 DEF Restarted, PlacesOK
  <2>4. PipesOK'
    BY <1>0, <1>1 DEF Restarted, PipesOK
  <2>5. QED
    BY <2>1, <2>2, <2>3, <2>4 DEF CallsOK
<1>6. ASSUME NEW s \in Scanners PROVE BooksOf(s)' /\ FlowOf(s)'
  <2>0. BooksOf(s) /\ FlowOf(s) /\ s \in Services
    BY <1>0 DEF ServiceBooks, FlowBooks, Services
  <2>1. CASE s \in V
    <3>1. svc'[s] = "idle" /\ ctx'[s] = "live" /\ place'[s] = Nowhere /\ pipe'[s] = FreshPipe
      BY <1>3, <1>4, <2>0, <2>1
    <3>2. BooksOf(s)'
      BY <1>1, <1>2, <2>1, <3>1 DEF BooksOf
    <3>3. FlowOf(s)'
      BY <3>1 DEF FlowOf
    <3>4. QED
      BY <3>2, <3>3
  <2>2. CASE s \notin V
    <3>1. svc'[s] = svc[s] /\ ctx'[s] = ctx[s] /\ place'[s] = place[s] /\ pipe'[s] = pipe[s]
      BY <1>3, <1>4, <2>0, <2>2
    <3>2. BooksOf(s)'
      BY <1>1, <2>0, <2>2, <3>1 DEF BooksOf
    <3>3. FlowOf(s)'
      BY <2>0, <3>1 DEF FlowOf
    <3>4. QED
      BY <3>2, <3>3
  <2>3. QED
    BY <2>1, <2>2
<1>7. ServiceBooks'
  <2>1. Inserter \in Services /\ Inserter \in Callers /\ Orphan \in Callers
    BY DEF Services, Callers, Clients
  <2>2. call'[Inserter] # NoCall => svc'[Inserter] = "upsert"
    BY <1>0, <1>3, <2>1 DEF ServiceBooks
  <2>3. ~dep.remote => call'[Orphan] = NoCall
    BY <1>0, <2>1 DEF ServiceBooks
  <2>4. QED
    BY <1>6, <2>2, <2>3 DEF ServiceBooks
<1>8. FlowBooks'
  BY <1>6 DEF FlowBooks
<1>9. \A c \in Callers : Shaped(call'[c])
  <2>1. Shaped(NoCall)
    BY StepsOfKinds DEF Shaped, NoCall
  <2>2. QED
    BY <1>0, <2>1
<1>10. QED
  BY <1>0, <1>5, <1>7, <1>8, <1>9, TypeParts DEF CoreInv

\* A service that has returned is in no call.
LEMMA ReturnedNoCalls ==
  ASSUME CoreInv
  PROVE  /\ \A s \in Scanners : svc[s] = "returned" =>
              call[Lister(s)] = NoCall /\ \A b \in Blocks : call[Carrier(s, b)] = NoCall
         /\ svc[Inserter] = "returned" => call[Inserter] = NoCall
<1>1. ServiceBooks
  BY DEF CoreInv
<1>2. ASSUME NEW s \in Scanners, svc[s] = "returned"
      PROVE  call[Lister(s)] = NoCall /\ \A b \in Blocks : call[Carrier(s, b)] = NoCall
  <2>1. BooksOf(s)
    BY <1>1 DEF ServiceBooks
  <2>2. \A b \in Blocks : place[s][b] = "none"
    BY <1>2, <2>1 DEF BooksOf
  <2>3. QED
    BY <1>2, <2>1, <2>2 DEF BooksOf
<1>3. QED
  BY <1>1, <1>2 DEF ServiceBooks

LEMMA ProcessEndsStep ==
  ASSUME CoreInv, NEW v \in Services, ProcessEnds(v)
  PROVE  CoreInv'
<1>0. TypeOK /\ TablesOK /\ CallsOK
  BY TypeParts DEF CoreInv
<1>1. /\ Restarted(Together(v)) /\ v \in Deployed /\ UNCHANGED <<call, failures>>
      /\ \A w \in Together(v) : svc[w] = "returned"
  BY DEF ProcessEnds
<1>2. TablesOK' /\ dep' = dep
  <2>1. CASE dep.remote
    BY <1>0, <1>1, <2>1 DEF ProcessEnds, TablesOK, tables, caches
  <2>2. CASE ~dep.remote
    <3>1. StoreCrash /\ failures' \in Nat
      BY <1>0, <1>1, <2>2 DEF ProcessEnds, TablesOK
    <3>2. QED
      BY <1>0, <3>1, CrashTyped
  <2>3. QED
    BY <2>1, <2>2
<1>3. Together(v) \in SUBSET Services
  BY <1>0, <1>1, Parties DEF Together
<1>4. \A s \in Scanners : s \in Together(v) =>
           call[Lister(s)] = NoCall /\ \A b \in Blocks : call[Carrier(s, b)] = NoCall
  BY <1>1, ReturnedNoCalls
<1>5. Inserter \in Together(v) => call[Inserter] = NoCall
  BY <1>1, ReturnedNoCalls
<1>6. call' = call /\ call' \in [Callers -> Records]
  BY <1>0, <1>1 DEF CallsOK
<1>7. QED
  BY <1>1, <1>2, <1>3, <1>4, <1>5, <1>6, RestartStep

\* Of the calls of the others, over gRPC, each ends with an error.
LEMMA BrokenCalls ==
  ASSUME CallsOK, \A c \in Callers : Shaped(call[c]),
         call' = [c \in Callers |-> IF c = Orphan \/ call[c].at = "idle" THEN NoCall
                                    ELSE [call[c] EXCEPT !.at = "err"]]
  PROVE  /\ CallsOK' /\ \A c \in Callers : Shaped(call'[c])
         /\ \A d \in Clients : /\ call'[d] # NoCall => call[d] # NoCall
                               /\ call'[d].kind = call[d].kind
                               /\ call[d].kind # "none" => /\ call'[d].txs = call[d].txs
                                                           /\ call'[d].wallets = call[d].wallets
                                                           /\ call'[d].blocks = call[d].blocks
                                                           /\ call'[d].at = "err"
         /\ call'[Orphan] = NoCall
<1>1. ASSUME NEW c \in Callers
      PROVE  /\ call'[c] \in Records /\ Shaped(call'[c])
             /\ c # Orphan => /\ call'[c] # NoCall => call[c] # NoCall
                              /\ call'[c].kind = call[c].kind
                              /\ call[c].kind # "none" => /\ call'[c].txs = call[c].txs
                                                          /\ call'[c].wallets = call[c].wallets
                                                          /\ call'[c].blocks = call[c].blocks
                                                          /\ call'[c].at = "err"
  <2>0. call[c] \in Records /\ call[c].at \in StepsOf(call[c].kind) /\ call[c].kind \in Kinds
        /\ (call[c].kind = "none" => call[c].at = "idle")
    BY WhereTheCallIs DEF Records
  <2>1. CASE c = Orphan \/ call[c].at = "idle"
    <3>1. call'[c] = NoCall
      BY <2>1
    <3>2. Shaped(NoCall) /\ NoCall.kind = "none"
      BY StepsOfKinds DEF Shaped, NoCall
    <3>3. call[c].at = "idle" => call[c].kind = "none"
      BY <2>0, StepsOfKinds DEF Kinds
    <3>4. QED
      BY <2>1, <3>1, <3>2, <3>3, NoCallRecord
  <2>2. CASE c # Orphan /\ call[c].at # "idle"
    <3> DEFINE r == [call[c] EXCEPT !.at = "err"]
    <3>1. call'[c] = r
      BY <2>2
    <3>2. r \in Records /\ r.at = "err" /\ r.kind = call[c].kind /\ r.txs = call[c].txs
          /\ r.wallets = call[c].wallets /\ r.blocks = call[c].blocks
      BY <2>0 DEF Records, Steps
    <3> HIDE DEF r
    <3>3. call[c].kind # "none" /\ "err" \in StepsOf(call[c].kind)
      BY <2>0, <2>2, StepsOfKinds DEF Kinds
    <3>4. Shaped(r)
      BY <3>2, <3>3 DEF Shaped
    <3>5. call[c] # NoCall
      BY <3>3 DEF NoCall
    <3>6. QED
      BY <3>1, <3>2, <3>4, <3>5
  <2>3. QED
    BY <2>1, <2>2
<1>2. CallsOK'
  BY <1>1 DEF CallsOK
<1>3. call'[Orphan] = NoCall /\ \A d \in Clients : d \in Callers /\ d # Orphan
  BY Constants DEF Callers
<1>4. QED
  BY <1>1, <1>2, <1>3

LEMMA GraphProcessEndsStep ==
  ASSUME CoreInv, GraphProcessEnds
  PROVE  CoreInv'
<1>0. TypeOK /\ TablesOK /\ CallsOK /\ ServiceBooks /\ \A c \in Callers : Shaped(call[c])
  BY TypeParts DEF CoreInv
<1>1. StoreCrash /\ failures' \in Nat
  BY <1>0, FailureCounted DEF GraphProcessEnds, TablesOK
<1>2. TablesOK' /\ dep' = dep
  BY <1>0, <1>1, CrashTyped
<1>3. CASE dep.remote
  <2>1. /\ call' = [c \in Callers |-> IF c = Orphan \/ call[c].at = "idle" THEN NoCall
                                      ELSE [call[c] EXCEPT !.at = "err"]]
        /\ UNCHANGED <<ctx, svc, place, pipe>>
    BY <1>3 DEF GraphProcessEnds
  <2>2. /\ CallsOK' /\ \A c \in Callers : Shaped(call'[c])
        /\ \A d \in Clients : /\ call'[d] # NoCall => call[d] # NoCall
                              /\ call'[d].kind = call[d].kind
                              /\ call[d].kind # "none" => /\ call'[d].txs = call[d].txs
                                                          /\ call'[d].wallets = call[d].wallets
        /\ call'[Orphan] = NoCall
    BY <1>0, <2>1, BrokenCalls
  <2>3. ServiceBooks'
    BY <1>0, <1>2, <2>1, <2>2, CallsKeepBooks
  <2>4. QED
    BY <1>1, <1>2, <2>1, <2>2, <2>3, OnlyCalls
<1>4. CASE ~dep.remote
  <2>1. call' = [c \in Callers |-> NoCall] /\ Restarted(Deployed)
    BY <1>4 DEF GraphProcessEnds
  <2>2. call' \in [Callers -> Records] /\ \A c \in Callers : call'[c] = NoCall
    BY <2>1, NoCallRecord
  <2>3. \A s \in Scanners : s \notin Deployed => /\ call[Lister(s)] = NoCall
                                                 /\ \A b \in Blocks : call[Carrier(s, b)] = NoCall
    <3>1. ASSUME NEW s \in Scanners, s \notin Deployed
          PROVE  call[Lister(s)] = NoCall /\ \A b \in Blocks : call[Carrier(s, b)] = NoCall
      <4>1. BooksOf(s) /\ svc[s] = "idle"
        BY <1>0, <3>1, Parties DEF ServiceBooks, BooksOf
      <4>2. \A b \in Blocks : place[s][b] = "none"
        BY <4>1 DEF BooksOf
      <4>3. QED
        BY <4>1, <4>2 DEF BooksOf
    <3>2. QED
      BY <3>1
  <2>4. \A s \in Scanners : Lister(s) \in Callers /\ \A b \in Blocks : Carrier(s, b) \in Callers
    BY Constants DEF Callers
  <2>5. Deployed \in SUBSET Services /\ Inserter \in Callers
    BY <1>0, Parties DEF Callers, Clients
  <2>6. /\ \A s \in Scanners : s \in Deployed => /\ call'[Lister(s)] = NoCall
                                                 /\ \A b \in Blocks : call'[Carrier(s, b)] = NoCall
        /\ \A s \in Scanners : s \notin Deployed => /\ call'[Lister(s)] = call[Lister(s)]
                                                    /\ \A b \in Blocks : call'[Carrier(s, b)] = call[Carrier(s, b)]
        /\ Inserter \in Deployed => call'[Inserter] = NoCall
        /\ \A c \in Callers : call'[c] \in {call[c], NoCall}
    BY <2>2, <2>3, <2>4, <2>5
  <2>7. QED
    BY <1>1, <1>2, <2>1, <2>2, <2>5, <2>6, RestartStep
<1>5. QED
  BY <1>3, <1>4

-----------------------------------------------------------------------------
LEMMA CoreInit ==
  ASSUME Init
  PROVE  CoreInv
<1>0. DeploymentOK
  BY DEF Init, StoreInit, DeploymentOK
<1>1. TablesOK
  <2>1. block \in [Blocks -> MarkSet]
    BY MarkFunctions DEF Init, StoreInit, MarkSet
  <2>2. QED
    BY <2>1, MarkFunctions, NoCallRecord DEF Init, StoreInit, TablesOK
<1>2. CallsOK /\ \A c \in Callers : call[c] = NoCall
  BY NoCallRecord DEF Init, StoreInit, CallsOK
<1>3. ServicesOK /\ \A v \in Services : svc[v] = "idle" /\ ctx[v] = "live"
  BY DEF Init, StoreInit, ScanInit, ServicesOK
<1>4. PlacesOK /\ \A s \in Scanners, b \in Blocks : place[s][b] = "none"
  BY DEF Init, ScanInit, PlacesOK, Nowhere, Places
<1>5. PipesOK /\ \A s \in Scanners : pipe[s] = FreshPipe
  BY <1>0, FreshPipeTyped DEF Init, ScanInit, PipesOK
<1>7. ServiceBooks
  <2>1. \A s \in Scanners : /\ s \in Services /\ Lister(s) \in Callers
                            /\ \A b \in Blocks : Carrier(s, b) \in Callers
    BY Constants DEF Services, Callers
  <2>2. Inserter \in Callers /\ Orphan \in Callers
    BY DEF Callers, Clients
  <2>3. \A s \in Scanners : BooksOf(s)
    BY <1>2, <1>3, <1>4, <1>5, <2>1 DEF BooksOf
  <2>4. QED
    BY <1>2, <2>2, <2>3 DEF ServiceBooks
<1>8. FlowBooks
  BY <1>3 DEF FlowBooks, FlowOf, Services
<1>9. \A c \in Callers : Shaped(call[c])
  BY <1>2, StepsOfKinds DEF Shaped, NoCall
<1>10. QED
  BY <1>0, <1>1, <1>2, <1>3, <1>4, <1>5, <1>7, <1>8, <1>9, TypeParts DEF CoreInv

LEMMA CoreStep ==
  ASSUME CoreInv, [Next]_vars
  PROVE  CoreInv'
<1>0. TypeOK /\ ServiceBooks /\ FlowBooks /\ \A c \in Callers : Shaped(call[c])
  BY DEF CoreInv
<1>1. CASE BlockInserter
  BY <1>1, InserterSteps
<1>2. CASE Process
  BY <1>2, GraphProcessEndsStep, ServiceFailsStep, SignalStep, ProcessEndsStep DEF Process
<1>3. ASSUME NEW s \in Scanners, Scanner(s)
      PROVE  CoreInv'
  <2>1. PassStep(s)
    BY <1>0, <1>3, ScannerSteps
  <2>2. ServiceBooks' /\ FlowBooks'
    BY <1>0, <2>1, AwayBooks, AwayFlow DEF PassStep
  <2>3. DeploymentOK'
    BY <1>0, <1>3, <2>1, TypeParts DEF PassStep, Away, DeploymentOK
  <2>4. QED
    BY <2>1, <2>2, <2>3, TypeParts DEF CoreInv, PassStep, TypesAfter
<1>4. ASSUME NEW c \in Callers, GraphCall(c), UNCHANGED scanVars
      PROVE  CoreInv'
  BY <1>0, <1>4, GraphCallKeepsBooks DEF CoreInv
<1>5. CASE \E c \in Clients : RPCFails(c) /\ UNCHANGED scanVars
  BY <1>5, RPCFailsStep
<1>6. CASE (OrphanEnds \/ LateRowStored \/ LateRowReplaced) /\ UNCHANGED scanVars
  BY <1>6, OrphanEndsStep, LateRowStep, ReplacedStep
<1>7. CASE UNCHANGED vars
  <2>1. UNCHANGED <<dep, ctx, block, tx, wallet, blockC, txC, walletC, call, late, failures, lost,
                    svc, place, pipe>>
    BY <1>7 DEF vars, storeVars, scanVars, tables, caches
  <2>2. TypeOK'
    <3>1. TablesOK /\ CallsOK /\ DeploymentOK /\ ServicesOK /\ PlacesOK /\ PipesOK
      BY <1>0, TypeParts
    <3>2. TablesOK' /\ CallsOK' /\ DeploymentOK'
      BY <2>1, <3>1 DEF TablesOK, CallsOK, DeploymentOK
    <3>3. ServicesOK' /\ PlacesOK' /\ PipesOK'
      BY <2>1, <3>1 DEF ServicesOK, PlacesOK, PipesOK
    <3>4. QED
      BY <3>2, <3>3, TypeParts
  <2>3. ServiceBooks'
    <3>1. ~dep.remote => call'[Orphan] = NoCall
      BY <1>0, <2>1 DEF ServiceBooks
    <3>2. QED
      BY <1>0, <2>1, <3>1, CallsKeepBooks
  <2>4. FlowBooks'
    BY <1>0, <2>1 DEF FlowBooks, FlowOf
  <2>5. QED
    BY <1>0, <2>1, <2>2, <2>3, <2>4 DEF CoreInv
<1>8. QED
  BY <1>1, <1>2, <1>3, <1>4, <1>5, <1>6, <1>7 DEF Next

LEMMA CoreInvariant == Spec => []CoreInv
<1>1. Init => CoreInv
  BY CoreInit
<1>2. CoreInv /\ [Next]_vars => CoreInv'
  BY CoreStep
<1>3. QED
  BY <1>1, <1>2, PTL DEF Spec

\* Whatever the chain, the caches and the deployment, the tables, caches, calls and
\* pipelines keep their types: no counter of errors or of live parsers runs over.
THEOREM TypeCorrect == Spec => []TypeOK
<1>1. CoreInv => TypeOK
  BY DEF CoreInv
<1>2. QED
  BY <1>1, CoreInvariant, PTL

\* A pass that ends without an error, and was not cancelled, marked every block
\* that it was given, for any number of blocks, parsers and fetchers.
THEOREM PassesComplete == Spec => []NothingDropped
<1>1. ASSUME CoreInv PROVE NothingDropped
  <2>1. SUFFICES ASSUME NEW s \in Scanners, AllEnded(s), ~PassCancelled(s)
                 PROVE  pipe[s].todo = {}
    BY DEF NothingDropped
  <2>2. TypeOK /\ FlowBooks
    BY <1>1 DEF CoreInv
  <2>3. svc[s] = "scan" /\ pipe[s].source = "end" /\ pipe[s].dispatcher = "end"
        /\ pipe[s].sink = "end" /\ pipe[s].parsers = 0 /\ pipe[s].errs = 0
    BY <2>1 DEF AllEnded
  <2>4. /\ place[s] \in [Blocks -> Places] /\ pipe[s] \in Pipes
        /\ Flow(place[s], pipe[s], ctx[s] = "done", dep.workers) /\ Busy(place[s]) = 0
    BY <2>2, <2>3, InPass
  <2>5. ctx[s] # "done" /\ ~pipe[s].failed
    BY <2>1 DEF PassCancelled
  <2>6. \A b \in Blocks : place[s][b] \notin Parsing
    <3>1. Count(s, Parsing) = 0
      BY <2>4 DEF Count, Busy
    <3>2. QED
      BY <3>1, NobodyThere
  <2>7. \A b \in Blocks : place[s][b] = "none"
    BY <2>3, <2>4, <2>6 DEF Flow, Places, Parsing
  <2>8. Calm(pipe[s], ctx[s] = "done")
    <3>1. pipe[s].iterator # "err"
      BY <2>3, <2>4, <2>5 DEF Flow
    <3>2. QED
      BY <2>3, <2>4, <2>5, <3>1 DEF Calm, Pipes
  <2>9. \A b \in pipe[s].todo : b \in Blocks /\ place[s][b] # "none"
    BY <2>4, <2>8 DEF Flow, Pipes
  <2>10. QED
    BY <2>7, <2>9
<1>2. QED
  BY <1>1, CoreInvariant, PTL

-----------------------------------------------------------------------------
(***************************************************************************)
(* The rows: what was accepted before what.                                *)
(***************************************************************************)
LEMMA WalletSets ==
  /\ WalletsOf({}) = {}
  /\ \A S, T : WalletsOf(S \cup T) = WalletsOf(S) \cup WalletsOf(T)
  /\ \A S, T : S \subseteq T => WalletsOf(S) \subseteq WalletsOf(T)
  /\ \A T, W : WalletsOf(T) \subseteq W <=> \A t \in T : WalletsOf({t}) \subseteq W
  BY DEF WalletsOf

LEMMA BackedMore ==
  ASSUME NEW r, NEW T, NEW W, NEW k, NEW T2, NEW W2, Backed(r, T, W, k), T \subseteq T2, W \subseteq W2
  PROVE  Backed(r, T2, W2, k)
  BY DEF Backed

\* A call that asks for no rows with ground to be laid.
LEMMA BareBacked ==
  ASSUME NEW r, NEW T, NEW W, NEW k, NEW TC, NEW WC, Shaped(r), r.kind \in {"none", "list"},
         \A b \in Blocks : r.blocks[b] # "processed"
  PROVE  Backed(r, T, W, k) /\ Emptied(r, TC, WC, k)
<1>1. r.txs = {} /\ r.at # "txs"
  BY StepsOfKinds DEF Shaped
<1>2. QED
  BY <1>1, WalletSets DEF Backed, Emptied

LEMMA EmptyCall ==
  ASSUME NEW T, NEW W, NEW k, NEW TC, NEW WC
  PROVE  Backed(NoCall, T, W, k) /\ Emptied(NoCall, TC, WC, k)
  BY WalletSets DEF Backed, Emptied, NoCall, NoMarks

\* An answer that is an error relies on no more than the call did.
LEMMA ErrorBacked ==
  ASSUME NEW r, NEW q, NEW T, NEW W, NEW k, NEW TC, NEW WC, Backed(r, T, W, k),
         q.at = "err", q.kind = r.kind, q.blocks = r.blocks, q.txs = r.txs
  PROVE  Backed(q, T, W, k) /\ Emptied(q, TC, WC, k)
  BY DEF Backed, Emptied

\* Who holds a mutex keeps the others from adding to its cache.
LEMMA EmptiedStays ==
  ASSUME NEW d \in Callers, Shaped(call[d]), Emptied(call[d], txC, walletC, Cached), dep' = dep,
         (txC = {} => txC' = {}) \/ ~HoldsTxC(d), (walletC = {} => walletC' = {}) \/ ~HoldsWalletC(d)
  PROVE  Emptied(call[d], txC', walletC', Cached)
<1>1. call[d].kind = "list" => call[d].at # "txs"
  BY StepsOfKinds DEF Shaped
<1>2. QED
  BY <1>1 DEF Emptied, HoldsTxC, HoldsWalletC, Flushes

LEMMA AcceptedKept ==
  ASSUME CoreInv, AcceptedBooks, NEW c \in Callers, \A d \in Callers : d # c => call'[d] = call[d],
         UNCHANGED <<dep, place>>,
         tx \cup txC \subseteq tx' \cup txC', wallet \cup walletC \subseteq wallet' \cup walletC',
         (txC = {} => txC' = {}) \/ \A d \in Callers : ~HoldsTxC(d),
         (walletC = {} => walletC' = {}) \/ \A d \in Callers : ~HoldsWalletC(d),
         Backed(call'[c], tx' \cup txC', wallet' \cup walletC', Cached),
         Emptied(call'[c], txC', walletC', Cached),
         MarksBacked',
         \A b \in Blocks : blockC'[b] = "processed" => TxsOf(b) \subseteq tx' \cup txC',
         WalletsOf(txC') \subseteq wallet' \cup walletC'
  PROVE  AcceptedBooks'
<1>1. Cached' = Cached
  BY DEF Cached
<1>2. ASSUME NEW d \in Callers
      PROVE  /\ Backed(call'[d], tx' \cup txC', wallet' \cup walletC', Cached)
             /\ Emptied(call'[d], txC', walletC', Cached)
  <2>1. CASE d = c
    BY <2>1
  <2>2. CASE d # c
    <3>1. call'[d] = call[d] /\ Shaped(call[d])
      BY <2>2 DEF CoreInv
    <3>2. Backed(call[d], tx \cup txC, wallet \cup walletC, Cached) /\ Emptied(call[d], txC, walletC, Cached)
      BY DEF AcceptedBooks
    <3>3. Backed(call[d], tx' \cup txC', wallet' \cup walletC', Cached)
      BY <3>2, BackedMore
    <3>4. Emptied(call[d], txC', walletC', Cached)
      BY <3>1, <3>2, EmptiedStays
    <3>5. QED
      BY <3>1, <3>3, <3>4
  <2>3. QED
    BY <2>1, <2>2
<1>3. \A s \in Scanners, b \in Blocks :
        place'[s][b] \in {"parsed", "sink"} => TxsOf(b) \subseteq tx' \cup txC'
  BY DEF AcceptedBooks
<1>4. QED
  BY <1>1, <1>2, <1>3 DEF AcceptedBooks

LEMMA BacksOf ==
  ASSUME AcceptedBooks, NEW c \in Callers
  PROVE  /\ Backed(call[c], tx \cup txC, wallet \cup walletC, Cached)
         /\ Emptied(call[c], txC, walletC, Cached)
  BY DEF AcceptedBooks

\* Its own books, for a step that only moves a list call.
LEMMA ListBacked ==
  ASSUME NEW c \in Callers, Moves(c), call[c].kind = "list"
  PROVE  /\ Backed(call'[c], tx' \cup txC', wallet' \cup walletC', Cached)
         /\ Emptied(call'[c], txC', walletC', Cached)
<1>1. Shaped(call'[c]) /\ call'[c].kind = "list"
  BY DEF Moves
<1>2. \A b \in Blocks : call'[c].blocks[b] # "processed"
  BY <1>1 DEF Shaped
<1>3. QED
  BY <1>1, <1>2, BareBacked

LEMMA CachingAccepts ==
  ASSUME CoreInv, TableBooks, AcceptedBooks, NEW c \in Callers, UNCHANGED scanVars,
         CacheBlocks(c) \/ CacheTxs(c) \/ CacheWallets(c) \/ LockTxC(c) \/ LockWalletC(c)
  PROVE  AcceptedBooks'
<1>0. TypeOK /\ Shaped(call[c])
  BY DEF CoreInv
<1>1. GraphStep(c)
  BY <1>0, CachingSteps
<1>2. /\ \A d \in Callers : d # c => call'[d] = call[d]
      /\ call'[c].kind = call[c].kind /\ call'[c].txs = call[c].txs /\ call'[c].wallets = call[c].wallets
      /\ (call[c].kind # "list" => call'[c].blocks = call[c].blocks) /\ UNCHANGED <<dep, ctx>>
  BY <1>1 DEF GraphStep, Moves
<1>3. UNCHANGED <<tx, wallet, block, late, lost>> /\ Cached' = Cached
  BY <1>2 DEF CacheBlocks, CacheTxs, CacheWallets, LockTxC, LockWalletC, tables, Cached
<1>4. /\ Backed(call[c], tx \cup txC, wallet \cup walletC, Cached)
      /\ Emptied(call[c], txC, walletC, Cached)
  BY BacksOf
<1>5. CallsOK /\ TablesOK
  BY TypeParts DEF CoreInv
<1>7. CASE CacheBlocks(c)
  <2>1. /\ UNCHANGED <<txC, walletC>> /\ call[c].kind = "blocks" /\ blockC' = Over(blockC, call[c].blocks)
        /\ \E at \in {"lockTxC", "ok"} : Goto(c, at)
    BY <1>7 DEF CacheBlocks, At
  <2>2. call'[c].at \in {"lockTxC", "ok"}
    BY <1>5, <2>1 DEF Goto, CallsOK, Records
  <2>3. /\ Backed(call'[c], tx' \cup txC', wallet' \cup walletC', Cached)
        /\ Emptied(call'[c], txC', walletC', Cached)
    BY <1>2, <1>3, <1>4, <2>1, <2>2 DEF Backed, Emptied
  <2>4. \A b \in Blocks : blockC'[b] = "processed" => TxsOf(b) \subseteq tx' \cup txC'
    BY <1>3, <1>4, <2>1 DEF Over, Backed, AcceptedBooks
  <2>5. /\ MarksBacked'
        /\ WalletsOf(txC') \subseteq wallet' \cup walletC'
    BY <1>3, <2>1 DEF AcceptedBooks, MarksBacked
  <2>6. AcceptedBooks'
    BY <1>2, <1>3, <2>1, <2>3, <2>4, <2>5, AcceptedKept DEF scanVars
  <2>7. QED
    BY <2>6
<1>8. CASE CacheTxs(c)
  <2>1. /\ UNCHANGED <<blockC, walletC>> /\ call[c].kind = "txs" /\ txC' = txC \cup call[c].txs
        /\ \A d \in Callers : ~HoldsTxC(d)
        /\ \E at \in {"lockWalletC", "ok"} : Goto(c, at)
    BY <1>8 DEF CacheTxs, At
  <2>2. call'[c].at \in {"lockWalletC", "ok"}
    BY <1>5, <2>1 DEF Goto, CallsOK, Records
  <2>3. /\ Backed(call'[c], tx' \cup txC', wallet' \cup walletC', Cached)
        /\ Emptied(call'[c], txC', walletC', Cached)
    BY <1>2, <1>3, <1>4, <2>1, <2>2 DEF Backed, Emptied
  <2>4. \A b \in Blocks : blockC'[b] = "processed" => TxsOf(b) \subseteq tx' \cup txC'
    BY <1>3, <2>1 DEF AcceptedBooks
  <2>5. MarksBacked'
    BY <1>3 DEF AcceptedBooks, MarksBacked
  <2>6. WalletsOf(txC') \subseteq wallet' \cup walletC'
    <3>1. WalletsOf(txC') = WalletsOf(txC) \cup WalletsOf(call[c].txs)
      BY <2>1, WalletSets
    <3>2. WalletsOf(txC) \subseteq wallet \cup walletC /\ WalletsOf(call[c].txs) \subseteq wallet \cup walletC
      BY <1>4 DEF AcceptedBooks, Backed
    <3>3. QED
      BY <1>3, <2>1, <3>1, <3>2
  <2>7. AcceptedBooks'
    BY <1>2, <1>3, <2>1, <2>3, <2>4, <2>5, <2>6, AcceptedKept DEF scanVars
  <2>8. QED
    BY <2>7
<1>9. CASE CacheWallets(c)
  <2>1. /\ UNCHANGED <<blockC, txC>> /\ call[c].kind = "wallets" /\ walletC' = walletC \cup call[c].wallets
        /\ \A d \in Callers : ~HoldsWalletC(d)
        /\ \E at \in {"wallets", "ok"} : Goto(c, at)
    BY <1>9 DEF CacheWallets, At
  <2>2. call'[c].at \in {"wallets", "ok"}
    BY <1>5, <2>1 DEF Goto, CallsOK, Records
  <2>3. /\ Backed(call'[c], tx' \cup txC', wallet' \cup walletC', Cached)
        /\ Emptied(call'[c], txC', walletC', Cached)
    BY <1>2, <1>3, <1>4, <2>1, <2>2 DEF Backed, Emptied
  <2>4. \A b \in Blocks : blockC'[b] = "processed" => TxsOf(b) \subseteq tx' \cup txC'
    BY <1>3, <2>1 DEF AcceptedBooks
  <2>5. MarksBacked'
    BY <1>3 DEF AcceptedBooks, MarksBacked
  <2>6. WalletsOf(txC') \subseteq wallet' \cup walletC'
    BY <1>3, <2>1 DEF AcceptedBooks
  <2>7. AcceptedBooks'
    BY <1>2, <1>3, <2>1, <2>3, <2>4, <2>5, <2>6, AcceptedKept DEF scanVars
  <2>8. QED
    BY <2>7
<1>10. CASE LockTxC(c) \/ LockWalletC(c)
  <2>1. UNCHANGED caches
    BY <1>10 DEF LockTxC, LockWalletC
  <2>2. \/ call'[c].at = "lockWalletC" /\ call[c].kind = "blocks"
        \/ call'[c].at = "wallets" /\ call[c].at = "lockWalletC"
    BY <1>5, <1>10 DEF LockTxC, LockWalletC, Goto, At, CallsOK, Records
  <2>3. call[c].at = "lockWalletC" => call[c].kind \in {"blocks", "txs"}
    BY <1>5, WhereTheCallIs DEF CoreInv
  <2>4. /\ Backed(call'[c], tx' \cup txC', wallet' \cup walletC', Cached)
        /\ Emptied(call'[c], txC', walletC', Cached)
    <3>1. call'[c].blocks = call[c].blocks
      BY <1>2, <2>2, <2>3
    <3>2. QED
      BY <1>2, <1>3, <1>4, <2>1, <2>2, <2>3, <3>1 DEF Backed, Emptied, caches
  <2>5. \A b \in Blocks : blockC'[b] = "processed" => TxsOf(b) \subseteq tx' \cup txC'
    BY <1>3, <2>1 DEF AcceptedBooks, caches
  <2>6. /\ MarksBacked'
        /\ WalletsOf(txC') \subseteq wallet' \cup walletC'
    BY <1>3, <2>1 DEF AcceptedBooks, MarksBacked, caches
  <2>7. AcceptedBooks'
    BY <1>2, <1>3, <2>1, <2>4, <2>5, <2>6, AcceptedKept DEF caches, scanVars
  <2>8. QED
    BY <2>7
<1>11. QED
  BY <1>7, <1>8, <1>9, <1>10

\* What an upsert stored, when it lost nothing.
LEMMA Stores ==
  ASSUME NEW R, NEW valid \in SUBSET R, NEW S, NEW L, NEW r \in {"nil", "err"}, lost \in BOOLEAN,
         Outcome(R, valid, Stored(S, L, r)), Loses(R, Stored(S, L, r))
  PROVE  /\ lost => lost'
         /\ S \subseteq valid
         /\ ~lost' /\ r = "nil" => S = R
         /\ L \subseteq valid
  BY DEF Outcome, Stored, Loses

LEMMA GraphCallTables ==
  ASSUME CoreInv, TableBooks, NEW c \in Callers, GraphCall(c)
  PROVE  TableBooks' /\ (lost => lost')
<1>0. TypeOK /\ Shaped(call[c]) /\ CallsOK /\ TablesOK /\ call[c] \in Records
  BY TypeParts DEF CoreInv, CallsOK
<1>1. GraphStep(c) /\ Cached' = Cached /\ (Memory => ~Cached)
  <2>1. GraphStep(c)
    BY <1>0, GraphCallSteps
  <2>2. QED
    BY <2>1 DEF GraphStep, Cached, Memory
<1>2. CASE CacheBlocks(c) \/ CacheTxs(c) \/ CacheWallets(c) \/ LockTxC(c) \/ LockWalletC(c)
  <2>1. UNCHANGED <<tx, wallet, lost>> /\ (~Cached => UNCHANGED caches)
    BY <1>2 DEF CacheBlocks, CacheTxs, CacheWallets, LockTxC, LockWalletC, tables
  <2>2. QED
    BY <1>1, <2>1 DEF TableBooks, caches
<1>3. CASE BulkUpsertWallets(c)
  <2> DEFINE R == IF Cached THEN walletC ELSE call[c].wallets
  <2>1. PICK S \in SUBSET R, L \in SUBSET R, r \in {"nil", "err"} :
          /\ Outcome(R, R, Stored(S, L, r)) /\ Loses(R, Stored(S, L, r))
          /\ wallet' = wallet \cup S /\ walletC' = IF r = "nil" THEN {} ELSE walletC
    BY <1>3 DEF BulkUpsertWallets
  <2>2. lost => lost'
    BY <1>0, <2>1, Stores DEF TablesOK
  <2>3. UNCHANGED <<tx, txC, blockC>>
    BY <1>3 DEF BulkUpsertWallets
  <2>4. QED
    BY <1>1, <2>1, <2>2, <2>3 DEF TableBooks
<1>4. CASE BulkUpsertTxs(c)
  <2> DEFINE R == IF Cached THEN txC ELSE call[c].txs
             valid == {t \in R : WalletsOf({t}) \subseteq wallet}
  <2>1. PICK S \in SUBSET R, L \in SUBSET R, r \in {"nil", "err"} :
          /\ Outcome(R, valid, Stored(S, L, r)) /\ Loses(R, Stored(S, L, r))
          /\ tx' = tx \cup S /\ txC' = IF r = "nil" THEN {} ELSE txC
    BY <1>4 DEF BulkUpsertTxs
  <2>2. (lost => lost') /\ S \subseteq valid
    <3>1. valid \in SUBSET R
      OBVIOUS
    <3> HIDE DEF R, valid
    <3>2. QED
      BY <1>0, <2>1, <3>1, Stores DEF TablesOK
  <2>3. UNCHANGED <<wallet, walletC, blockC>>
    BY <1>4 DEF BulkUpsertTxs
  <2>4. QED
    BY <1>1, <2>1, <2>2, <2>3 DEF TableBooks
<1>5. CASE BulkUpsertBlocks(c)
  <2> DEFINE rows == IF Flushes(c) THEN blockC ELSE call[c].blocks
             R == Marked(rows)
  <2>1. PICK S \in SUBSET R, L \in SUBSET R, r \in {"nil", "err"} :
          /\ Outcome(R, R, Stored(S, L, r)) /\ Loses(R, Stored(S, L, r))
          /\ blockC' = IF Flushes(c) /\ r = "nil" THEN NoMarks ELSE blockC
    BY <1>5 DEF BulkUpsertBlocks
  <2> HIDE DEF R
  <2>2. lost => lost'
    BY <1>0, <2>1, Stores DEF TablesOK
  <2>3. UNCHANGED <<tx, wallet, txC, walletC>>
    BY <1>5 DEF BulkUpsertBlocks
  <2>4. QED
    BY <1>1, <2>1, <2>2, <2>3 DEF TableBooks, Flushes
<1>6. CASE \/ RefreshReads(c) \/ QueryUnprocessed(c) \/ QueryFails(c)
           \/ MemoryFindsLargest(c) \/ MemoryInsertsMissing(c) \/ MemoryUpsertBlocks(c)
  <2>1. UNCHANGED <<tx, wallet, lost, caches>>
    BY <1>6 DEF RefreshReads, QueryUnprocessed, QueryFails, MemoryFindsLargest, MemoryInsertsMissing,
                MemoryUpsertBlocks, tables
  <2>2. QED
    BY <1>1, <2>1 DEF TableBooks, caches
<1>7. CASE MemoryInsertTxs(c)
  <2>1. UNCHANGED <<wallet, lost, caches>>
    BY <1>7 DEF MemoryInsertTxs
  <2>2. PICK S : tx' = tx \cup S /\ \A t \in S : WalletsOf({t}) \subseteq wallet
    BY <1>7 DEF MemoryInsertTxs
  <2>3. QED
    BY <1>1, <2>1, <2>2 DEF TableBooks, caches
<1>8. CASE MemoryUpsertWallets(c)
  <2>1. UNCHANGED <<tx, lost, caches>> /\ wallet \subseteq wallet'
    BY <1>8 DEF MemoryUpsertWallets
  <2>2. QED
    BY <1>1, <2>1 DEF TableBooks, caches
<1>9. QED
  BY <1>2, <1>3, <1>4, <1>5, <1>6, <1>7, <1>8 DEF GraphCall

LEMMA BulkAccepts ==
  ASSUME CoreInv, TableBooks, AcceptedBooks, NEW c \in Callers, UNCHANGED scanVars,
         BulkUpsertWallets(c) \/ BulkUpsertTxs(c) \/ BulkUpsertBlocks(c), ~lost'
  PROVE  AcceptedBooks'
<1>0. /\ TypeOK /\ Shaped(call[c]) /\ CallsOK /\ TablesOK /\ call[c] \in Records
      /\ call[c].at \in StepsOf(call[c].kind)
  BY TypeParts, WhereTheCallIs DEF CoreInv, CallsOK
<1>1. GraphStep(c)
  BY <1>0, BulkSteps
<1>2. /\ \A d \in Callers : d # c => call'[d] = call[d]
      /\ call'[c].kind = call[c].kind /\ call'[c].txs = call[c].txs /\ call'[c].wallets = call[c].wallets
      /\ (call[c].kind # "list" => call'[c].blocks = call[c].blocks) /\ UNCHANGED <<dep, ctx>>
      /\ Moves(c) /\ Cached' = Cached /\ place' = place
  BY <1>1 DEF GraphStep, Moves, Cached, scanVars
<1>3. /\ Backed(call[c], tx \cup txC, wallet \cup walletC, Cached)
      /\ Emptied(call[c], txC, walletC, Cached)
  BY BacksOf
<1>4. CASE BulkUpsertWallets(c)
  <2> DEFINE R == IF Cached THEN walletC ELSE call[c].wallets
  <2>1. PICK S \in SUBSET R, L \in SUBSET R, r \in {"nil", "err"} :
          /\ Outcome(R, R, Stored(S, L, r)) /\ Loses(R, Stored(S, L, r))
          /\ wallet' = wallet \cup S /\ walletC' = (IF r = "nil" THEN {} ELSE walletC)
          /\ After(c, Stored(S, L, r), "txs")
          /\ late' = [late EXCEPT !.wallets = @ \cup L, !.lists = ListsAfter(c, "wallets", Stored(S, L, r))]
    BY <1>4 DEF BulkUpsertWallets
  <2>2. r = "nil" => S = R
    BY <1>0, <2>1, Stores DEF TablesOK
  <2>3. UNCHANGED <<tx, block, txC, blockC>> /\ late'.blocks = late.blocks /\ late'.early = late.early
    BY <1>0, <1>4, <2>1 DEF BulkUpsertWallets, TablesOK, LateRows
  <2>4. wallet \cup walletC \subseteq wallet' \cup walletC' /\ (walletC = {} => walletC' = {})
    BY <2>1, <2>2 DEF TableBooks
  <2>5. call[c].kind \in {"blocks", "txs", "wallets"} /\ call[c].at = "wallets"
    BY <1>0, <1>4, WhereTheCallIs DEF BulkUpsertWallets, InTable
  <2>6. /\ r = "err" => call'[c].at = "err"
        /\ r = "nil" /\ call[c].kind = "wallets" => call'[c].at = "ok"
        /\ r = "nil" /\ call[c].kind # "wallets" => call'[c].at = "txs"
    BY <1>0, <2>1, <2>5, AfterMoves, StepsOfKinds
  <2>7. /\ Backed(call'[c], tx' \cup txC', wallet' \cup walletC', Cached)
        /\ Emptied(call'[c], txC', walletC', Cached)
    <3>1. call'[c].blocks = call[c].blocks
      BY <1>2, <2>5
    <3>2. Backed(call[c], tx' \cup txC', wallet' \cup walletC', Cached)
      BY <1>3, <2>3, <2>4, BackedMore
    <3>3. CASE r = "err"
      BY <1>2, <2>6, <3>1, <3>2, <3>3, ErrorBacked
    <3>4. CASE r = "nil" /\ call[c].kind = "wallets"
      <4>1. call[c].wallets \subseteq wallet' \cup walletC'
        <5>1. CASE Cached
          BY <2>5, <3>2, <3>4, <5>1 DEF Backed
        <5>2. CASE ~Cached
          BY <2>1, <2>2, <3>4, <5>2
        <5>3. QED
          BY <5>1, <5>2
      <4>2. QED
        BY <1>2, <2>6, <3>1, <3>2, <3>4, <4>1 DEF Backed, Emptied
    <3>5. CASE r = "nil" /\ call[c].kind # "wallets"
      BY <1>2, <2>1, <2>5, <2>6, <3>1, <3>2, <3>5 DEF Backed, Emptied
    <3>6. QED
      BY <3>3, <3>4, <3>5
  <2>8. /\ MarksBacked'
        /\ \A b \in Blocks : blockC'[b] = "processed" => TxsOf(b) \subseteq tx' \cup txC'
        /\ WalletsOf(txC') \subseteq wallet' \cup walletC'
    BY <2>3, <2>4 DEF AcceptedBooks, MarksBacked
  <2>9. QED
    BY <1>2, <2>3, <2>4, <2>7, <2>8, AcceptedKept
<1>5. CASE BulkUpsertTxs(c)
  <2> DEFINE R == IF Cached THEN txC ELSE call[c].txs
             valid == {t \in R : WalletsOf({t}) \subseteq wallet}
  <2>1. PICK S \in SUBSET R, L \in SUBSET R, r \in {"nil", "err"} :
          /\ Outcome(R, valid, Stored(S, L, r)) /\ Loses(R, Stored(S, L, r))
          /\ tx' = tx \cup S /\ txC' = (IF r = "nil" THEN {} ELSE txC)
          /\ After(c, Stored(S, L, r), "blocks")
          /\ late' = [late EXCEPT !.txs = @ \cup L, !.lists = ListsAfter(c, "txs", Stored(S, L, r))]
    BY <1>5 DEF BulkUpsertTxs
  <2>2. r = "nil" => S = R
    <3>1. valid \in SUBSET R
      OBVIOUS
    <3> HIDE DEF R, valid
    <3>2. QED
      BY <1>0, <2>1, <3>1, Stores DEF TablesOK
  <2>3. UNCHANGED <<wallet, block, walletC, blockC>> /\ late'.blocks = late.blocks /\ late'.early = late.early
    BY <1>0, <1>5, <2>1 DEF BulkUpsertTxs, TablesOK, LateRows
  <2>4. tx \cup txC \subseteq tx' \cup txC' /\ (txC = {} => txC' = {}) /\ txC' \subseteq txC /\ tx \subseteq tx'
    BY <2>1, <2>2 DEF TableBooks
  <2>5. call[c].kind \in {"blocks", "txs"} /\ call[c].at = "txs"
    BY <1>0, <1>5, WhereTheCallIs DEF BulkUpsertTxs, InTable
  <2>6. /\ r = "err" => call'[c].at = "err"
        /\ r = "nil" /\ call[c].kind = "txs" => call'[c].at = "ok"
        /\ r = "nil" /\ call[c].kind # "txs" => call'[c].at = "blocks"
    BY <1>0, <2>1, <2>5, AfterMoves, StepsOfKinds
  <2>7. /\ Backed(call'[c], tx' \cup txC', wallet' \cup walletC', Cached)
        /\ Emptied(call'[c], txC', walletC', Cached)
    <3>1. call'[c].blocks = call[c].blocks
      BY <1>2, <2>5
    <3>2. Backed(call[c], tx' \cup txC', wallet' \cup walletC', Cached)
      BY <1>3, <2>3, <2>4, BackedMore
    <3>3. CASE r = "err"
      BY <1>2, <2>6, <3>1, <3>2, <3>3, ErrorBacked
    <3>4. CASE r = "nil" /\ call[c].kind = "txs"
      <4>1. call[c].txs \subseteq tx' \cup txC'
        <5>1. CASE Cached
          BY <2>5, <3>2, <3>4, <5>1 DEF Backed
        <5>2. CASE ~Cached
          BY <2>1, <2>2, <3>4, <5>2
        <5>3. QED
          BY <5>1, <5>2
      <4>2. QED
        BY <1>2, <2>6, <3>1, <3>2, <3>4, <4>1 DEF Backed, Emptied
    <3>5. CASE r = "nil" /\ call[c].kind # "txs"
      BY <1>2, <2>1, <2>5, <2>6, <3>1, <3>2, <3>5 DEF Backed, Emptied
    <3>6. QED
      BY <3>3, <3>4, <3>5
  <2>8. /\ MarksBacked'
        /\ \A b \in Blocks : blockC'[b] = "processed" => TxsOf(b) \subseteq tx' \cup txC'
    BY <2>3, <2>4 DEF AcceptedBooks, MarksBacked
  <2>9. WalletsOf(txC') \subseteq wallet' \cup walletC'
    <3>1. WalletsOf(txC') \subseteq WalletsOf(txC)
      BY <2>4, WalletSets
    <3>2. QED
      BY <2>3, <3>1 DEF AcceptedBooks
  <2>10. QED
    BY <1>2, <2>3, <2>4, <2>7, <2>8, <2>9, AcceptedKept
<1>6. CASE BulkUpsertBlocks(c)
  <2> DEFINE rows == IF Flushes(c) THEN blockC ELSE call[c].blocks
             R == Marked(rows)
             Only(S) == [b \in Blocks |-> IF b \in S THEN rows[b] ELSE "absent"]
  <2>a. PICK S \in SUBSET R : \E L \in SUBSET (R \ S), r \in {"nil", "err"} :
          /\ block' = Over(Only(S), block)
          /\ late' = [late EXCEPT !.blocks = Over(Only(L), @), !.lists = ListsAfter(c, "blocks", Stored(S, L, r))]
          /\ blockC' = (IF Flushes(c) /\ r = "nil" THEN NoMarks ELSE blockC)
          /\ After(c, Stored(S, L, r), "query")
    BY <1>6 DEF BulkUpsertBlocks
  <2>1. PICK L \in SUBSET (R \ S), r \in {"nil", "err"} :
          /\ block' = Over(Only(S), block)
          /\ late' = [late EXCEPT !.blocks = Over(Only(L), @), !.lists = ListsAfter(c, "blocks", Stored(S, L, r))]
          /\ blockC' = (IF Flushes(c) /\ r = "nil" THEN NoMarks ELSE blockC)
          /\ After(c, Stored(S, L, r), "query")
    BY <2>a
  <2>2. UNCHANGED <<wallet, tx, walletC, txC>>
    BY <1>6 DEF BulkUpsertBlocks
  <2>3. call[c].kind \in {"blocks", "list"} /\ call[c].at = "blocks"
    BY <1>0, <1>6, WhereTheCallIs DEF BulkUpsertBlocks, InTable
  <2>4. \A b \in Blocks : rows[b] = "processed" => TxsOf(b) \subseteq tx
    <3>1. CASE call[c].kind = "list"
      BY <1>0, <3>1 DEF Shaped, Flushes
    <3>2. CASE call[c].kind = "blocks"
      <4>1. txC = {}
        BY <1>3, <2>3, <3>2 DEF Emptied, TableBooks
      <4>2. CASE Cached
        BY <3>2, <4>1, <4>2 DEF Flushes, AcceptedBooks
      <4>3. CASE ~Cached
        BY <1>3, <4>1, <4>3 DEF Flushes, Backed
      <4>4. QED
        BY <4>2, <4>3
    <3>3. QED
      BY <2>3, <3>1, <3>2
  <2>5. \A T, b : b \in Blocks /\ Only(T)[b] = "processed" => TxsOf(b) \subseteq tx
    BY <2>4
  <2>6. late'.blocks = Over(Only(L), late.blocks) /\ late'.early = late.early
    BY <1>0, <2>1 DEF TablesOK, LateRows
  <2> HIDE DEF Only
  <2>7. MarksBacked'
    BY <2>1, <2>2, <2>5, <2>6 DEF Over, AcceptedBooks, MarksBacked
  <2>8. \A b \in Blocks : blockC'[b] = "processed" => TxsOf(b) \subseteq tx' \cup txC'
    BY <2>1, <2>2 DEF NoMarks, AcceptedBooks
  <2>9. /\ Backed(call'[c], tx' \cup txC', wallet' \cup walletC', Cached)
        /\ Emptied(call'[c], txC', walletC', Cached)
    <3>1. CASE call[c].kind = "list"
      BY <1>2, <3>1, ListBacked
    <3>2. CASE call[c].kind = "blocks"
      <4>1. call'[c].at \in {"ok", "err"}
        BY <1>0, <2>1, <2>3, <3>2, AfterMoves, StepsOfKinds
      <4>2. call'[c].blocks = call[c].blocks
        BY <1>2, <3>2
      <4>3. QED
        BY <1>2, <1>3, <2>2, <3>2, <4>1, <4>2 DEF Backed, Emptied
    <3>3. QED
      BY <2>3, <3>1, <3>2
  <2>10. WalletsOf(txC') \subseteq wallet' \cup walletC'
    BY <2>2 DEF AcceptedBooks
  <2>11. QED
    BY <1>2, <2>2, <2>7, <2>8, <2>9, <2>10, AcceptedKept
<1>7. QED
  BY <1>4, <1>5, <1>6

LEMMA ListAccepts ==
  ASSUME CoreInv, AcceptedBooks, NEW c \in Callers, UNCHANGED scanVars,
         \/ RefreshReads(c) \/ QueryUnprocessed(c) \/ QueryFails(c)
         \/ MemoryFindsLargest(c) \/ MemoryInsertsMissing(c)
  PROVE  AcceptedBooks'
<1>0. TypeOK /\ Shaped(call[c])
  BY DEF CoreInv
<1>1. GraphStep(c)
  BY <1>0, ListSteps
<1>2. /\ \A d \in Callers : d # c => call'[d] = call[d]
      /\ Moves(c) /\ UNCHANGED <<dep, ctx>> /\ Cached' = Cached /\ place' = place
  BY <1>1 DEF GraphStep, Moves, Cached, scanVars
<1>3. call[c].kind = "list" /\ UNCHANGED <<tx, wallet, txC, walletC, blockC, late>>
  BY DEF RefreshReads, QueryUnprocessed, QueryFails, MemoryFindsLargest, MemoryInsertsMissing,
         tables, caches, At
<1>4. \A b \in Blocks : block'[b] = "processed" => block[b] = "processed"
  <2>1. CASE MemoryInsertsMissing(c)
    BY <1>0, <1>3, <2>1 DEF MemoryInsertsMissing, Over, Shaped
  <2>2. CASE RefreshReads(c) \/ QueryUnprocessed(c) \/ QueryFails(c) \/ MemoryFindsLargest(c)
    BY <2>2 DEF RefreshReads, QueryUnprocessed, QueryFails, MemoryFindsLargest, tables
  <2>3. QED
    BY <2>1, <2>2
<1>5. /\ Backed(call'[c], tx' \cup txC', wallet' \cup walletC', Cached)
      /\ Emptied(call'[c], txC', walletC', Cached)
  BY <1>2, <1>3, ListBacked
<1>6. /\ MarksBacked'
      /\ \A b \in Blocks : blockC'[b] = "processed" => TxsOf(b) \subseteq tx' \cup txC'
      /\ WalletsOf(txC') \subseteq wallet' \cup walletC'
  BY <1>3, <1>4 DEF AcceptedBooks, MarksBacked
<1>7. QED
  BY <1>2, <1>3, <1>5, <1>6, AcceptedKept

LEMMA MemoryAccepts ==
  ASSUME CoreInv, TableBooks, AcceptedBooks, NEW c \in Callers, UNCHANGED scanVars,
         MemoryUpsertBlocks(c) \/ MemoryInsertTxs(c) \/ MemoryUpsertWallets(c)
  PROVE  AcceptedBooks'
<1>0. TypeOK /\ Shaped(call[c]) /\ CallsOK
  BY TypeParts DEF CoreInv
<1>1. GraphStep(c)
  BY <1>0, MemorySteps
<1>2. /\ \A d \in Callers : d # c => call'[d] = call[d]
      /\ call'[c].kind = call[c].kind /\ call'[c].txs = call[c].txs /\ call'[c].wallets = call[c].wallets
      /\ (call[c].kind # "list" => call'[c].blocks = call[c].blocks)
      /\ UNCHANGED <<dep, ctx>> /\ Cached' = Cached /\ place' = place
  BY <1>1 DEF GraphStep, Moves, Cached, scanVars
<1>3. Backed(call[c], tx \cup txC, wallet \cup walletC, Cached)
  BY BacksOf
<1>4. ~Cached /\ UNCHANGED <<txC, walletC, blockC, late>> /\ txC = {} /\ walletC = {}
  BY DEF MemoryUpsertBlocks, MemoryInsertTxs, MemoryUpsertWallets, Memory, Cached, caches, TableBooks
<1>5. /\ call'[c].blocks = call[c].blocks /\ call'[c].at \in {"ok", "err"}
      /\ tx \subseteq tx' /\ wallet \subseteq wallet'
      /\ call[c].kind = "txs" /\ call'[c].at = "ok" => call[c].txs \subseteq tx'
      /\ call[c].kind = "wallets" /\ call'[c].at = "ok" => call[c].wallets \subseteq wallet'
      /\ \A b \in Blocks : block'[b] = "processed" => block[b] = "processed" \/ TxsOf(b) \subseteq tx'
  <2>1. CASE MemoryUpsertBlocks(c)
    <3>1. call[c].kind = "blocks" /\ Goto(c, "ok") /\ UNCHANGED <<tx, wallet>>
      BY <2>1 DEF MemoryUpsertBlocks, At
    <3>2. call'[c].at = "ok"
      BY <1>0, <3>1 DEF Goto, CallsOK, Records
    <3>3. \A b \in Blocks : block'[b] = "processed" =>
            block[b] = "processed" \/ call[c].blocks[b] = "processed"
      BY <2>1 DEF MemoryUpsertBlocks, Over
    <3>4. QED
      BY <1>2, <1>3, <1>4, <3>1, <3>2, <3>3 DEF Backed
  <2>2. CASE MemoryInsertTxs(c)
    <3>1. /\ call[c].kind = "txs" /\ UNCHANGED <<block, wallet>> /\ tx \subseteq tx'
          /\ \/ Goto(c, "ok") /\ call[c].txs \subseteq tx'
             \/ Goto(c, "err")
      BY <2>2 DEF MemoryInsertTxs, At
    <3>2. call'[c].at = "err" \/ (call'[c].at = "ok" /\ call[c].txs \subseteq tx')
      BY <1>0, <3>1 DEF Goto, CallsOK, Records
    <3>3. QED
      BY <1>2, <3>1, <3>2
  <2>3. CASE MemoryUpsertWallets(c)
    <3>1. /\ call[c].kind = "wallets" /\ UNCHANGED <<block, tx>> /\ Goto(c, "ok")
          /\ wallet' = wallet \cup call[c].wallets
      BY <2>3 DEF MemoryUpsertWallets, At
    <3>2. call'[c].at = "ok"
      BY <1>0, <3>1 DEF Goto, CallsOK, Records
    <3>3. QED
      BY <1>2, <3>1, <3>2
  <2>4. QED
    BY <2>1, <2>2, <2>3
<1>6. /\ Backed(call'[c], tx' \cup txC', wallet' \cup walletC', Cached)
      /\ Emptied(call'[c], txC', walletC', Cached)
  BY <1>2, <1>3, <1>4, <1>5 DEF Backed, Emptied
<1>7. /\ MarksBacked'
      /\ \A b \in Blocks : blockC'[b] = "processed" => TxsOf(b) \subseteq tx' \cup txC'
      /\ WalletsOf(txC') \subseteq wallet' \cup walletC'
  BY <1>4, <1>5 DEF AcceptedBooks, MarksBacked
<1>8. QED
  BY <1>2, <1>4, <1>5, <1>6, <1>7, AcceptedKept

LEMMA GraphCallAccepts ==
  ASSUME CoreInv, TableBooks, AcceptedBooks, NEW c \in Callers, UNCHANGED scanVars, GraphCall(c), ~lost'
  PROVE  AcceptedBooks'
  BY CachingAccepts, BulkAccepts, ListAccepts, MemoryAccepts DEF GraphCall

-----------------------------------------------------------------------------
(***************************************************************************)
(* The clients: what they ask for has its ground laid.                     *)
(***************************************************************************)
LEMMA BlocksAsked ==
  ASSUME NEW r, NEW b \in Blocks, NEW m, NEW T, NEW W, NEW k, NEW TC, NEW WC,
         r.kind = "blocks", r.at \in {"start", "blocks"}, r.blocks = Marks({b}, m), r.txs = {},
         k => r.at = "start", m = "processed" => TxsOf(b) \subseteq T
  PROVE  Backed(r, T, W, k) /\ Emptied(r, TC, WC, k)
<1>1. \A a \in Blocks : r.blocks[a] = "processed" => a = b /\ m = "processed"
  BY DEF Marks
<1>2. QED
  BY <1>1, WalletSets DEF Backed, Emptied

LEMMA TxsAsked ==
  ASSUME NEW r, NEW T, NEW W, NEW k, NEW TC, NEW WC,
         r.kind = "txs", r.at \in {"start", "txs"}, r.blocks = NoMarks,
         k => r.at = "start", WalletsOf(r.txs) \subseteq W
  PROVE  Backed(r, T, W, k) /\ Emptied(r, TC, WC, k)
  BY DEF Backed, Emptied, NoMarks

LEMMA WalletsAsked ==
  ASSUME NEW r, NEW T, NEW W, NEW k, NEW TC, NEW WC,
         r.kind = "wallets", r.at \in {"start", "wallets"}, r.blocks = NoMarks, r.txs = {},
         k => r.at = "start"
  PROVE  Backed(r, T, W, k) /\ Emptied(r, TC, WC, k)
  BY WalletSets DEF Backed, Emptied, NoMarks

\* A step that leaves the rows alone.
LEMMA StillAccepted ==
  ASSUME AcceptedBooks, UNCHANGED <<dep, tables, caches, late>>,
         \A d \in Callers :
           \/ call'[d] = call[d]
           \/ /\ Backed(call'[d], tx \cup txC, wallet \cup walletC, Cached)
              /\ Emptied(call'[d], txC, walletC, Cached),
         \A s \in Scanners, b \in Blocks :
           place'[s][b] \in {"parsed", "sink"} =>
             place[s][b] \in {"parsed", "sink"} \/ TxsOf(b) \subseteq tx \cup txC
  PROVE  AcceptedBooks'
<1>1. Cached' = Cached /\ UNCHANGED <<block, tx, wallet, blockC, txC, walletC, late>>
  BY DEF Cached, tables, caches
<1>2. \A d \in Callers : /\ Backed(call'[d], tx \cup txC, wallet \cup walletC, Cached)
                         /\ Emptied(call'[d], txC, walletC, Cached)
  BY BacksOf
<1>3. \A s \in Scanners, b \in Blocks :
        place'[s][b] \in {"parsed", "sink"} => TxsOf(b) \subseteq tx \cup txC
  BY DEF AcceptedBooks
<1>4. QED
  BY <1>1, <1>2, <1>3 DEF AcceptedBooks, MarksBacked

\* Where a payload may move to.
Grounded(y, b) == y \in {"parsed", "sink"} => TxsOf(b) \subseteq tx \cup txC

LEMMA MovedOnGround ==
  ASSUME PlacesOK, NEW s \in Scanners, NEW b \in Blocks, NEW y \in Places, Move(s, b, y), Grounded(y, b)
  PROVE  \A d \in Scanners, a \in Blocks :
           place'[d][a] \in {"parsed", "sink"} =>
             place[d][a] \in {"parsed", "sink"} \/ TxsOf(a) \subseteq tx \cup txC
<1>1. /\ \A d \in Scanners : d # s => place'[d] = place[d]
      /\ place'[s][b] = y /\ \A a \in Blocks : a # b => place'[s][a] = place[s][a]
  BY Moved, ZenonT(40)
<1>2. QED
  BY <1>1 DEF Grounded

\* Steps of a scanner that make no call and end none.
LEMMA QuietSteps ==
  ASSUME PlacesOK, NEW s \in Scanners,
         \/ PassEnds(s) \/ ScannerStops(s) \/ SourceEnds(s) \/ SourceStops(s) \/ IteratorBreaks(s)
         \/ DispatcherDrains(s) \/ DispatcherEnds(s) \/ ParserStops(s) \/ SinkStops(s)
         \/ CollectsError(s)
         \/ \E b \in Blocks :
              \/ SourceNext(s, b) \/ DispatcherTakes(s, b) \/ DispatcherSpawns(s, b)
              \/ BlockFetched(s, b) \/ BlockFetchFails(s, b) \/ FetchedDropped(s, b)
              \/ ParsedDropped(s, b)
  PROVE  /\ StoreStill /\ UNCHANGED call
         /\ \/ UNCHANGED place
            \/ /\ place' = [place EXCEPT ![s] = [b \in Blocks |-> place'[s][b]]]
               /\ \A b \in Blocks : place'[s][b] = place[s][b] \/ place'[s][b] = "none"
            \/ \E b \in Blocks, y \in {"none", "source", "token", "fetch", "fetched"} :
                 Move(s, b, y) /\ place[s][b] # "none"
<1>1. StoreStill /\ UNCHANGED call
  BY DEF PassEnds, ScannerStops, SourceEnds, SourceStops, IteratorBreaks, DispatcherDrains,
         DispatcherEnds, ParserStops, SinkStops, CollectsError, SourceNext, DispatcherTakes,
         DispatcherSpawns, BlockFetched, BlockFetchFails, FetchedDropped, ParsedDropped, Still
<1>2. \/ UNCHANGED place
      \/ /\ place' = [place EXCEPT ![s] = [b \in Blocks |-> place'[s][b]]]
         /\ \A b \in Blocks : place'[s][b] = place[s][b] \/ place'[s][b] = "none"
      \/ \E b \in Blocks, y \in {"none", "source", "token", "fetch", "fetched"} :
           Move(s, b, y) /\ place[s][b] # "none"
  <2>1. CASE \/ PassEnds(s) \/ ScannerStops(s) \/ SourceEnds(s) \/ DispatcherEnds(s)
             \/ ParserStops(s) \/ SinkStops(s) \/ CollectsError(s)
    BY <2>1 DEF PassEnds, ScannerStops, SourceEnds, DispatcherEnds, ParserStops, SinkStops,
       CollectsError
  <2>2. CASE SourceStops(s) \/ IteratorBreaks(s) \/ DispatcherDrains(s)
    <3>1. PICK P \in SUBSET Places :
            place' = [place EXCEPT ![s] = [b \in Blocks |-> IF @[b] \in P THEN "none" ELSE @[b]]]
      <4>1. CASE SourceStops(s)
        BY <4>1 DEF SourceStops, Places
      <4>2. CASE IteratorBreaks(s)
        <5>1. place' = [place EXCEPT ![s] = [b \in Blocks |-> IF @[b] \in {"iterator"} THEN "none" ELSE @[b]]]
          BY <4>2 DEF IteratorBreaks
        <5>2. QED
          BY <5>1 DEF Places
      <4>3. CASE DispatcherDrains(s)
        <5>1. place' = [place EXCEPT ![s] = [b \in Blocks |-> IF @[b] \in {"token"} THEN "none" ELSE @[b]]]
          BY <4>3 DEF DispatcherDrains
        <5>2. QED
          BY <5>1 DEF Places
      <4>4. QED
        BY <2>2, <4>1, <4>2, <4>3
    <3>2. place'[s] = [b \in Blocks |-> IF place[s][b] \in P THEN "none" ELSE place[s][b]]
      BY <3>1 DEF PlacesOK
    <3>3. QED
      BY <3>1, <3>2 DEF PlacesOK
  <2>3. ASSUME NEW b \in Blocks,
               \/ SourceNext(s, b) \/ DispatcherTakes(s, b) \/ DispatcherSpawns(s, b)
               \/ BlockFetched(s, b) \/ BlockFetchFails(s, b) \/ FetchedDropped(s, b)
               \/ ParsedDropped(s, b)
        PROVE  \E y \in {"none", "source", "token", "fetch", "fetched"} :
                 Move(s, b, y) /\ place[s][b] # "none"
    BY <2>3 DEF SourceNext, DispatcherTakes, DispatcherSpawns, BlockFetched, BlockFetchFails,
       FetchedDropped, ParsedDropped, Is
  <2>4. QED
    BY <2>1, <2>2, <2>3
<1>3. QED
  BY <1>1, <1>2

LEMMA QuietAccepts ==
  ASSUME CoreInv, AcceptedBooks, NEW s \in Scanners,
         \/ PassEnds(s) \/ ScannerStops(s) \/ SourceEnds(s) \/ SourceStops(s) \/ IteratorBreaks(s)
         \/ DispatcherDrains(s) \/ DispatcherEnds(s) \/ ParserStops(s) \/ SinkStops(s)
         \/ CollectsError(s)
         \/ \E b \in Blocks :
              \/ SourceNext(s, b) \/ DispatcherTakes(s, b) \/ DispatcherSpawns(s, b)
              \/ BlockFetched(s, b) \/ BlockFetchFails(s, b) \/ FetchedDropped(s, b)
              \/ ParsedDropped(s, b)
  PROVE  AcceptedBooks'
<1>0. PlacesOK
  BY TypeParts DEF CoreInv
<1>1. /\ StoreStill /\ UNCHANGED call
      /\ \/ UNCHANGED place
         \/ /\ place' = [place EXCEPT ![s] = [b \in Blocks |-> place'[s][b]]]
            /\ \A b \in Blocks : place'[s][b] = place[s][b] \/ place'[s][b] = "none"
         \/ \E b \in Blocks, y \in {"none", "source", "token", "fetch", "fetched"} : Move(s, b, y)
  BY <1>0, QuietSteps
<1>3. \A d \in Scanners, a \in Blocks :
        place'[d][a] \in {"parsed", "sink"} =>
          place[d][a] \in {"parsed", "sink"} \/ TxsOf(a) \subseteq tx \cup txC
  <2>1. CASE UNCHANGED place
    BY <2>1
  <2>2. CASE /\ place' = [place EXCEPT ![s] = [b \in Blocks |-> place'[s][b]]]
             /\ \A b \in Blocks : place'[s][b] = place[s][b] \/ place'[s][b] = "none"
    <3>1. \A d \in Scanners : d # s => place'[d] = place[d]
      BY <1>0, <2>2 DEF PlacesOK
    <3>2. QED
      BY <2>2, <3>1
  <2>3. ASSUME NEW b \in Blocks, NEW y \in {"none", "source", "token", "fetch", "fetched"}, Move(s, b, y)
        PROVE  \A d \in Scanners, a \in Blocks :
                 place'[d][a] \in {"parsed", "sink"} =>
                   place[d][a] \in {"parsed", "sink"} \/ TxsOf(a) \subseteq tx \cup txC
    <3>1. y \in Places /\ Grounded(y, b) /\ Move(s, b, y)
      BY <2>3 DEF Places, Grounded
    <3>2. QED
      BY <1>0, <3>1, MovedOnGround, Zenon
  <2>4. QED
    BY <1>1, <2>1, <2>2, <2>3
<1>4. QED
  BY <1>1, <1>3, StillAccepted DEF StoreStill

\* A step in which a thread of scanner s begins or ends a call, and moves its payload.
LEMMA ThreadAccepts ==
  ASSUME CoreInv, AcceptedBooks, NEW s \in Scanners, NEW c \in Callers, StoreStill,
         \A d \in Callers : d # c => call'[d] = call[d],
         Backed(call'[c], tx \cup txC, wallet \cup walletC, Cached),
         Emptied(call'[c], txC, walletC, Cached),
         NEW b \in Blocks, NEW y \in Places, Move(s, b, y), Grounded(y, b)
  PROVE  AcceptedBooks'
<1>0. PlacesOK
  BY TypeParts DEF CoreInv
<1>1. \A d \in Scanners, a \in Blocks :
        place'[d][a] \in {"parsed", "sink"} =>
          place[d][a] \in {"parsed", "sink"} \/ TxsOf(a) \subseteq tx \cup txC
  BY <1>0, MovedOnGround, Zenon
<1>2. QED
  BY <1>1, StillAccepted DEF StoreStill

LEMMA ListingAccepts ==
  ASSUME CoreInv, AcceptedBooks, NEW s \in Scanners, BeginsPass(s) \/ BlocksListed(s) \/ BlocksFail(s)
  PROVE  AcceptedBooks'
<1>0. CallsOK /\ PlacesOK /\ Lister(s) \in Callers /\ StoreStill
  BY TypeParts, Constants DEF CoreInv, Callers, BeginsPass, BlocksListed, BlocksFail
<1>1. CASE BeginsPass(s)
  <2>1. CallBlocks(Lister(s)) /\ UNCHANGED place
    BY <1>1 DEF BeginsPass
  <2>2. /\ \A d \in Callers : d # Lister(s) => call'[d] = call[d]
        /\ Shaped(call'[Lister(s)]) /\ call'[Lister(s)].kind = "list"
    BY <1>0, <2>1, ListCall
  <2>3. /\ Backed(call'[Lister(s)], tx \cup txC, wallet \cup walletC, Cached)
        /\ Emptied(call'[Lister(s)], txC, walletC, Cached)
    <3>1. \A b \in Blocks : call'[Lister(s)].blocks[b] # "processed"
      BY <2>2 DEF Shaped
    <3>2. QED
      BY <2>2, <3>1, BareBacked
  <2>4. \A d \in Callers :
           \/ call'[d] = call[d]
           \/ /\ Backed(call'[d], tx \cup txC, wallet \cup walletC, Cached)
              /\ Emptied(call'[d], txC, walletC, Cached)
    BY <2>2, <2>3
  <2>5. QED
    BY <1>0, <2>1, <2>4, StillAccepted DEF StoreStill
<1>2. CASE BlocksListed(s) \/ BlocksFail(s)
  <2>1. EndCall(Lister(s))
    BY <1>2 DEF BlocksListed, BlocksFail
  <2>2. \A d \in Callers : d # Lister(s) => call'[d] = call[d]
    BY <1>0, <2>1, CallEnded
  <2>3. call'[Lister(s)] = NoCall
    BY <1>0, <2>1, CallEnded
  <2>4. \A d \in Scanners, a \in Blocks :
          place'[d][a] \in {"parsed", "sink"} => place[d][a] \in {"parsed", "sink"}
    <3>1. CASE BlocksFail(s)
      BY <3>1 DEF BlocksFail
    <3>2. CASE BlocksListed(s)
      <4>1. place' = [place EXCEPT ![s] =
              [b \in Blocks |-> IF call[Lister(s)].blocks[b] = "new" THEN "iterator" ELSE "none"]]
        BY <3>2 DEF BlocksListed
      <4>2. /\ \A d \in Scanners : d # s => place'[d] = place[d]
            /\ \A a \in Blocks : place'[s][a] \in {"iterator", "none"}
        BY <1>0, <4>1 DEF PlacesOK
      <4>3. QED
        BY <4>2
    <3>3. QED
      BY <1>2, <3>1, <3>2
  <2>5. \A d \in Callers :
           \/ call'[d] = call[d]
           \/ /\ Backed(call'[d], tx \cup txC, wallet \cup walletC, Cached)
              /\ Emptied(call'[d], txC, walletC, Cached)
    BY <2>2, <2>3, EmptyCall
  <2>6. QED
    BY <1>0, <2>4, <2>5, StillAccepted DEF StoreStill
<1>3. QED
  BY <1>1, <1>2

\* The parsers and the sink: a block is marked when its rows have been accepted.
LEMMA PayloadAccepts ==
  ASSUME CoreInv, AcceptedBooks, NEW s \in Scanners, NEW b \in Blocks,
         \/ ParserTakes(s, b) \/ WalletsUpserted(s, b) \/ TxsInserted(s, b) \/ ParserFails(s, b)
         \/ SinkTakes(s, b) \/ SinkConsumed(s, b) \/ SinkFails(s, b)
  PROVE  AcceptedBooks'
<1> DEFINE c == Carrier(s, b)
<1>0. /\ CallsOK /\ PlacesOK /\ c \in Callers /\ StoreStill /\ BooksOf(s)
      /\ TxsOf(b) \in SUBSET Txs /\ WalletsOf(TxsOf(b)) \in SUBSET Wallets
  BY TypeParts, Constants, RowsOfABlock
     DEF CoreInv, ServiceBooks, Callers, ParserTakes, WalletsUpserted, TxsInserted, ParserFails,
         SinkTakes, SinkConsumed, SinkFails
<1>1. Backed(call[c], tx \cup txC, wallet \cup walletC, Cached)
  BY <1>0, BacksOf
<1>2. \A y \in {"none", "wallets", "txs", "parsed", "sink"} : y \in Places
  BY DEF Places
<1>a. /\ Grounded("none", b) /\ Grounded("wallets", b) /\ Grounded("txs", b)
      /\ TxsOf(b) \subseteq tx \cup txC => Grounded("parsed", b) /\ Grounded("sink", b)
  BY DEF Grounded
<1>3. CASE ParserTakes(s, b)
  <2>1. CASE TxsOf(b) = {}
    <3>1. Move(s, b, "parsed") /\ UNCHANGED call
      BY <1>3, <2>1 DEF ParserTakes
    <3>2. \A d \in Callers : d # c => call'[d] = call[d]
      BY <3>1
    <3>3. /\ Backed(call'[c], tx \cup txC, wallet \cup walletC, Cached)
          /\ Emptied(call'[c], txC, walletC, Cached)
      BY <1>0, <3>1, BacksOf
    <3>4. QED
      BY <1>0, <1>2, <1>a, <2>1, <3>1, <3>2, <3>3, ThreadAccepts
  <2>2. CASE TxsOf(b) # {}
    <3>1. Move(s, b, "wallets") /\ CallUpsertWallets(c, WalletsOf(TxsOf(b)))
      BY <1>3, <2>2 DEF ParserTakes
    <3>2. /\ \A d \in Callers : d # c => call'[d] = call[d]
          /\ call'[c].kind = "wallets" /\ call'[c].at \in {"start", "wallets"}
          /\ call'[c].blocks = NoMarks /\ call'[c].txs = {} /\ (Cached => call'[c].at = "start")
      BY <1>0, <3>1, WalletsCall
    <3>3. /\ Backed(call'[c], tx \cup txC, wallet \cup walletC, Cached)
          /\ Emptied(call'[c], txC, walletC, Cached)
      BY <3>2, WalletsAsked
    <3>4. QED
      BY <1>0, <1>2, <1>a, <3>1, <3>2, <3>3, ThreadAccepts
  <2>3. QED
    BY <2>1, <2>2
<1>4. CASE WalletsUpserted(s, b)
  <2>1. /\ place[s][b] = "wallets" /\ call[c].at = "ok"
        /\ Move(s, b, "txs") /\ CallInsertTxs(c, TxsOf(b))
    BY <1>4 DEF WalletsUpserted, Is, Returned
  <2>2. WalletsOf(TxsOf(b)) \subseteq wallet \cup walletC
    <3>1. call[c].kind = "wallets" /\ call[c].wallets = WalletsOf(TxsOf(b))
      BY <1>0, <2>1 DEF BooksOf
    <3>2. QED
      BY <1>1, <2>1, <3>1 DEF Backed
  <2>3. /\ \A d \in Callers : d # c => call'[d] = call[d]
        /\ call'[c].kind = "txs" /\ call'[c].at \in {"start", "txs"}
        /\ call'[c].blocks = NoMarks /\ call'[c].txs = TxsOf(b) /\ (Cached => call'[c].at = "start")
    BY <1>0, <2>1, TxsCall
  <2>4. /\ Backed(call'[c], tx \cup txC, wallet \cup walletC, Cached)
        /\ Emptied(call'[c], txC, walletC, Cached)
    BY <2>2, <2>3, TxsAsked
  <2>5. QED
    BY <1>0, <1>2, <1>a, <2>1, <2>3, <2>4, ThreadAccepts
<1>5. CASE SinkTakes(s, b)
  <2>1. place[s][b] = "parsed" /\ Move(s, b, "sink") /\ CallUpsertBlocks(c, b, "processed")
    BY <1>5 DEF SinkTakes, Is
  <2>2. TxsOf(b) \subseteq tx \cup txC
    BY <2>1 DEF AcceptedBooks
  <2>3. /\ \A d \in Callers : d # c => call'[d] = call[d]
        /\ call'[c].kind = "blocks" /\ call'[c].at \in {"start", "blocks"}
        /\ call'[c].blocks = Marks({b}, "processed") /\ call'[c].txs = {}
        /\ (Cached => call'[c].at = "start")
    BY <1>0, <2>1, BlocksCall DEF MarkSet
  <2>4. /\ Backed(call'[c], tx \cup txC, wallet \cup walletC, Cached)
        /\ Emptied(call'[c], txC, walletC, Cached)
    BY <2>2, <2>3, BlocksAsked
  <2>5. QED
    BY <1>0, <1>2, <1>a, <2>1, <2>2, <2>3, <2>4, ThreadAccepts
<1>6. CASE TxsInserted(s, b) \/ ParserFails(s, b) \/ SinkConsumed(s, b) \/ SinkFails(s, b)
  <2>1. /\ EndCall(c)
        /\ Move(s, b, "none") \/ (Move(s, b, "parsed") /\ place[s][b] = "txs" /\ call[c].at = "ok")
    BY <1>6 DEF TxsInserted, ParserFails, SinkConsumed, SinkFails, Is, Returned
  <2>2. /\ \A d \in Callers : d # c => call'[d] = call[d]
        /\ call'[c] = NoCall
    BY <1>0, <2>1, CallEnded
  <2>3. place[s][b] = "txs" /\ call[c].at = "ok" => TxsOf(b) \subseteq tx \cup txC
    BY <1>0, <1>1 DEF BooksOf, Backed
  <2>4. /\ Backed(call'[c], tx \cup txC, wallet \cup walletC, Cached)
        /\ Emptied(call'[c], txC, walletC, Cached)
    BY <2>2, EmptyCall
  <2>5. QED
    <3>1. CASE Move(s, b, "none")
      BY <1>0, <1>2, <1>a, <2>2, <2>4, <3>1, ThreadAccepts
    <3>2. CASE Move(s, b, "parsed") /\ TxsOf(b) \subseteq tx \cup txC
      BY <1>0, <1>2, <1>a, <2>2, <2>4, <3>2, ThreadAccepts
    <3>3. QED
      BY <2>1, <2>3, <3>1, <3>2
<1>7. QED
  BY <1>3, <1>4, <1>5, <1>6

LEMMA ScannerAccepts ==
  ASSUME CoreInv, AcceptedBooks, NEW s \in Scanners, Scanner(s)
  PROVE  AcceptedBooks'
  BY QuietAccepts, ListingAccepts, PayloadAccepts DEF Scanner

-----------------------------------------------------------------------------
\* The inserter announces blocks, it marks none.
LEMMA InserterAccepts ==
  ASSUME CoreInv, AcceptedBooks, BlockInserter
  PROVE  AcceptedBooks'
<1>0. CallsOK /\ Inserter \in Callers /\ StoreStill /\ UNCHANGED place
  BY TypeParts DEF CoreInv, Callers, Clients, BlockInserter, Subscribes, SubscriptionFails,
     HeaderArrives, HeaderUpserted, InserterStops, Still
<1>1. CASE Subscribes \/ SubscriptionFails \/ InserterStops
  <2>1. UNCHANGED call
    BY <1>1 DEF Subscribes, SubscriptionFails, InserterStops, Still
  <2>2. QED
    BY <1>0, <2>1, StillAccepted DEF StoreStill
<1>2. CASE HeaderUpserted
  <2>1. EndCall(Inserter)
    BY <1>2 DEF HeaderUpserted
  <2>2. (\A d \in Callers : d # Inserter => call'[d] = call[d]) /\ call'[Inserter] = NoCall
    BY <1>0, <2>1, CallEnded
  <2>3. \A d \in Callers :
           \/ call'[d] = call[d]
           \/ /\ Backed(call'[d], tx \cup txC, wallet \cup walletC, Cached)
              /\ Emptied(call'[d], txC, walletC, Cached)
    BY <2>2, EmptyCall
  <2>4. QED
    BY <1>0, <2>3, StillAccepted DEF StoreStill
<1>3. ASSUME NEW b \in Blocks, HeaderArrives(b)
      PROVE  AcceptedBooks'
  <2>1. CallUpsertBlocks(Inserter, b, "new")
    BY <1>3 DEF HeaderArrives
  <2>2. /\ \A d \in Callers : d # Inserter => call'[d] = call[d]
        /\ call'[Inserter].kind = "blocks" /\ call'[Inserter].at \in {"start", "blocks"}
        /\ call'[Inserter].blocks = Marks({b}, "new") /\ call'[Inserter].txs = {}
        /\ (Cached => call'[Inserter].at = "start")
    BY <1>0, <2>1, BlocksCall DEF MarkSet
  <2>a. "new" = "processed" => TxsOf(b) \subseteq tx \cup txC
    OBVIOUS
  <2>3. /\ Backed(call'[Inserter], tx \cup txC, wallet \cup walletC, Cached)
        /\ Emptied(call'[Inserter], txC, walletC, Cached)
    BY <2>2, <2>a, BlocksAsked
  <2>4. QED
    BY <1>0, <2>2, <2>3, StillAccepted DEF StoreStill
<1>4. QED
  BY <1>1, <1>2, <1>3 DEF BlockInserter

LEMMA RPCAccepts ==
  ASSUME CoreInv, AcceptedBooks, NEW c \in Clients, RPCFails(c), UNCHANGED scanVars
  PROVE  AcceptedBooks'
<1>0. CallsOK /\ (\A d \in Callers : Shaped(call[d])) /\ c \in Callers
  BY TypeParts DEF CoreInv, Callers
<1>1. /\ call'[c].at = "err" /\ call'[c].kind = call[c].kind /\ call'[c].txs = call[c].txs
      /\ call'[c].blocks = call[c].blocks
      /\ \A d \in Clients : d # c => call'[d] = call[d]
      /\ call'[Orphan] = call[Orphan] \/ call'[Orphan] = call[c]
  BY <1>0, FailedRPC
<1>2. /\ Backed(call[c], tx \cup txC, wallet \cup walletC, Cached)
      /\ Emptied(call[c], txC, walletC, Cached)
  BY <1>0, BacksOf
<1>3. /\ Backed(call'[c], tx \cup txC, wallet \cup walletC, Cached)
      /\ Emptied(call'[c], txC, walletC, Cached)
  BY <1>1, <1>2, ErrorBacked
<1>4. \A d \in Callers :
         \/ call'[d] = call[d]
         \/ /\ Backed(call'[d], tx \cup txC, wallet \cup walletC, Cached)
            /\ Emptied(call'[d], txC, walletC, Cached)
  BY <1>1, <1>2, <1>3 DEF Callers
<1>5. UNCHANGED <<dep, tables, caches, late, place>>
  BY DEF RPCFails, scanVars
<1>6. QED
  BY <1>4, <1>5, StillAccepted

LEMMA OrphanAccepts ==
  ASSUME CoreInv, AcceptedBooks, OrphanEnds, UNCHANGED scanVars
  PROVE  AcceptedBooks'
<1>0. CallsOK /\ Orphan \in Callers
  BY TypeParts DEF CoreInv, Callers
<1>1. (\A d \in Callers : d # Orphan => call'[d] = call[d]) /\ call'[Orphan] = NoCall
  BY <1>0, CallEnded DEF OrphanEnds
<1>2. \A d \in Callers :
         \/ call'[d] = call[d]
         \/ /\ Backed(call'[d], tx \cup txC, wallet \cup walletC, Cached)
            /\ Emptied(call'[d], txC, walletC, Cached)
  BY <1>1, EmptyCall
<1>3. UNCHANGED <<dep, tables, caches, late, place>>
  BY DEF OrphanEnds, scanVars
<1>4. QED
  BY <1>2, <1>3, StillAccepted

\* Rows that are stored late were accepted, or asked for with their ground laid.
LEMMA LateAccepts ==
  ASSUME CoreInv, AcceptedBooks, LateRowStored, UNCHANGED scanVars
  PROVE  AcceptedBooks'
<1>0. TablesOK /\ UNCHANGED <<dep, caches, call, place>>
  BY TypeParts DEF CoreInv, LateRowStored, scanVars
<1>1. UNCHANGED <<blockC, txC, walletC>> /\ Cached' = Cached
  BY <1>0 DEF caches, Cached
<1>2. /\ tx \subseteq tx' /\ wallet \subseteq wallet' /\ late'.early = late.early
      /\ \A b \in Blocks : block'[b] = "processed" \/ late'.blocks[b] = "processed" =>
                             block[b] = "processed" \/ late.blocks[b] = "processed"
  <2>1. CASE \E w \in late.wallets :
               /\ wallet' = wallet \cup {w}
               /\ late' = [late EXCEPT !.wallets = @ \ {w}]
               /\ UNCHANGED <<block, tx>>
    BY <1>0, <2>1 DEF TablesOK, LateRows
  <2>2. CASE \E t \in late.txs :
               /\ WalletsOf({t}) \subseteq wallet
               /\ tx' = tx \cup {t}
               /\ late' = [late EXCEPT !.txs = @ \ {t}]
               /\ UNCHANGED <<block, wallet>>
    BY <1>0, <2>2 DEF TablesOK, LateRows
  <2>3. CASE \E b \in Marked(late.blocks) :
               /\ block' = [block EXCEPT ![b] = late.blocks[b]]
               /\ late' = [late EXCEPT !.blocks[b] = "absent"]
               /\ UNCHANGED <<tx, wallet>>
    <3>1. PICK b \in Blocks : /\ block' = [block EXCEPT ![b] = late.blocks[b]]
                              /\ late' = [late EXCEPT !.blocks[b] = "absent"]
                              /\ UNCHANGED <<tx, wallet>>
      BY <2>3 DEF Marked
    <3>2. late' = [late EXCEPT !.blocks = [late.blocks EXCEPT ![b] = "absent"]]
      BY <3>1
    <3>3. /\ late'.blocks = [late.blocks EXCEPT ![b] = "absent"] /\ late'.early = late.early
          /\ late.blocks \in [Blocks -> MarkSet]
      BY <1>0, <3>2 DEF TablesOK, LateRows
    <3>4. QED
      BY <1>0, <3>1, <3>3 DEF TablesOK
  <2>4. QED
    BY <2>1, <2>2, <2>3 DEF LateRowStored
<1>3. \A d \in Callers : /\ Backed(call'[d], tx' \cup txC', wallet' \cup walletC', Cached')
                         /\ Emptied(call'[d], txC', walletC', Cached')
  <2>1. ASSUME NEW d \in Callers
        PROVE  /\ Backed(call'[d], tx' \cup txC', wallet' \cup walletC', Cached')
               /\ Emptied(call'[d], txC', walletC', Cached')
    <3>1. /\ Backed(call[d], tx \cup txC, wallet \cup walletC, Cached)
          /\ Emptied(call[d], txC, walletC, Cached)
      BY BacksOf
    <3>2. tx \cup txC \subseteq tx' \cup txC' /\ wallet \cup walletC \subseteq wallet' \cup walletC'
      BY <1>1, <1>2
    <3>3. Backed(call[d], tx' \cup txC', wallet' \cup walletC', Cached)
      BY <3>1, <3>2, BackedMore
    <3>4. QED
      BY <1>0, <1>1, <3>1, <3>3
  <2>2. QED
    BY <2>1
<1>4. /\ MarksBacked'
      /\ \A b \in Blocks : blockC'[b] = "processed" => TxsOf(b) \subseteq tx' \cup txC'
      /\ WalletsOf(txC') \subseteq wallet' \cup walletC'
      /\ \A s \in Scanners, b \in Blocks :
           place'[s][b] \in {"parsed", "sink"} => TxsOf(b) \subseteq tx' \cup txC'
  BY <1>0, <1>1, <1>2 DEF AcceptedBooks, MarksBacked
<1>5. QED
  BY <1>3, <1>4 DEF AcceptedBooks

LEMMA ReplacedAccepts ==
  ASSUME CoreInv, AcceptedBooks, LateRowReplaced, UNCHANGED scanVars
  PROVE  AcceptedBooks'
<1>1. TablesOK /\ UNCHANGED <<dep, block, tx, wallet, blockC, txC, walletC, call, place>>
  BY TypeParts DEF CoreInv, LateRowReplaced, tables, caches, scanVars
<1>2. late'.early \/ (late'.blocks = late.blocks /\ late'.early = late.early)
  BY <1>1 DEF LateRowReplaced, TablesOK, LateRows
<1>3. MarksBacked'
  BY <1>1, <1>2 DEF AcceptedBooks, MarksBacked
<1>4. Cached' = Cached
  BY <1>1 DEF Cached
<1>5. QED
  BY <1>1, <1>3, <1>4 DEF AcceptedBooks

\* With every call and every payload gone, only the tables remain to be right.
LEMMA AfterCrash ==
  ASSUME CoreInv, AcceptedBooks, StoreCrash, \A d \in Callers : call'[d] = NoCall,
         \A s \in Scanners, b \in Blocks : place'[s][b] = "none"
  PROVE  AcceptedBooks'
<1>1. blockC' = NoMarks /\ txC' = {} /\ walletC' = {}
  BY DEF StoreCrash
<1>2. MarksBacked'
  <2>1. CASE Memory
    BY <2>1 DEF StoreCrash, NoRows, NoMarks, MarksBacked
  <2>2. CASE ~Memory
    <3>1. UNCHANGED <<block, tx, wallet>> /\ late'.blocks = late.blocks /\ late'.early = late.early
      BY <2>2, TypeParts DEF CoreInv, StoreCrash, tables, TablesOK, LateRows
    <3>2. QED
      BY <3>1 DEF AcceptedBooks, MarksBacked
  <2>3. QED
    BY <2>1, <2>2
<1>3. \A d \in Callers : /\ Backed(call'[d], tx' \cup txC', wallet' \cup walletC', Cached')
                         /\ Emptied(call'[d], txC', walletC', Cached')
  BY EmptyCall
<1>4. \A b \in Blocks : blockC'[b] # "processed"
  BY <1>1 DEF NoMarks
<1>5. QED
  BY <1>1, <1>2, <1>3, <1>4, WalletSets DEF AcceptedBooks

\* In the monolith a process that ends takes all callers along.
LEMMA NobodyLeft ==
  ASSUME CoreInv, ~dep.remote, NEW v \in Services, ProcessEnds(v)
  PROVE  /\ \A d \in Callers : call'[d] = NoCall
         /\ \A s \in Scanners, b \in Blocks : place'[s][b] = "none"
<1>0. TypeOK /\ ServiceBooks /\ PlacesOK /\ MaxBlock \in Nat
  BY TypeParts, Constants DEF CoreInv
<1>1. /\ call' = call /\ Restarted(Deployed) /\ \A w \in Deployed : svc[w] = "returned"
  BY DEF ProcessEnds, Together
<1>2. ASSUME NEW s \in Scanners
      PROVE  /\ call[Lister(s)] = NoCall /\ \A b \in Blocks : call[Carrier(s, b)] = NoCall
             /\ \A b \in Blocks : place'[s][b] = "none"
  <2>1. BooksOf(s) /\ svc[s] \in {"idle", "returned"}
    BY <1>0, <1>1, Parties DEF ServiceBooks, BooksOf
  <2>2. \A b \in Blocks : place[s][b] = "none"
    BY <2>1 DEF BooksOf
  <2>3. place'[s] = Nowhere \/ place'[s] = place[s]
    BY <1>1 DEF Restarted
  <2>4. \A b \in Blocks : place'[s][b] = "none"
    BY <2>2, <2>3 DEF Nowhere
  <2>5. QED
    BY <2>1, <2>2, <2>4 DEF BooksOf
<1>3. call[Inserter] = NoCall /\ call[Orphan] = NoCall
  <2>1. svc[Inserter] = "returned"
    BY <1>0, <1>1, Parties
  <2>2. QED
    BY <1>0, <2>1 DEF ServiceBooks
<1>4. ASSUME NEW d \in Callers PROVE call[d] = NoCall
  <2>1. CASE d \in {Inserter, Orphan}
    BY <1>3, <2>1
  <2>2. ASSUME NEW s \in Scanners, NEW k \in 0 .. MaxBlock, d = <<s, k>>
        PROVE  call[d] = NoCall
    <3>1. CASE k = 0
      BY <1>2, <2>2, <3>1 DEF Lister
    <3>2. CASE k # 0
      <4>1. k \in Blocks
        BY <1>0, <3>2 DEF Blocks
      <4>2. QED
        BY <1>2, <2>2, <4>1 DEF Carrier
    <3>3. QED
      BY <3>1, <3>2
  <2>3. QED
    BY <2>1, <2>2 DEF Callers, Clients
<1>5. QED
  BY <1>1, <1>2, <1>4

LEMMA ProcessAccepts ==
  ASSUME CoreInv, AcceptedBooks, Process, ~lost'
  PROVE  AcceptedBooks'
<1>0. CallsOK /\ (\A c \in Callers : Shaped(call[c])) /\ PlacesOK
  BY TypeParts DEF CoreInv
<1>1. ASSUME NEW v \in Services, ServiceFails(v) \/ Signal(v)
      PROVE  AcceptedBooks'
  <2>1. UNCHANGED <<dep, tables, caches, late, call, place>>
    BY <1>1 DEF ServiceFails, Signal
  <2>2. QED
    BY <2>1, StillAccepted
<1>2. ASSUME NEW v \in Services, ProcessEnds(v)
      PROVE  AcceptedBooks'
  <2>1. CASE dep.remote
    <3>1. UNCHANGED <<dep, tables, caches, late, call>> /\ Restarted(Together(v))
      BY <1>2, <2>1 DEF ProcessEnds
    <3>2. \A s \in Scanners : place'[s] = Nowhere \/ place'[s] = place[s]
      BY <3>1 DEF Restarted
    <3>3. \A s \in Scanners, b \in Blocks :
            place'[s][b] \in {"parsed", "sink"} => place[s][b] \in {"parsed", "sink"}
      BY <3>2 DEF Nowhere
    <3>4. QED
      BY <3>1, <3>3, StillAccepted
  <2>2. CASE ~dep.remote
    <3>1. StoreCrash
      BY <1>2, <2>2 DEF ProcessEnds
    <3>2. QED
      BY <1>2, <2>2, <3>1, NobodyLeft, AfterCrash
  <2>3. QED
    BY <2>1, <2>2
<1>3. ASSUME GraphProcessEnds
      PROVE  AcceptedBooks'
  <2>0. StoreCrash
    BY <1>3 DEF GraphProcessEnds
  <2>1. CASE ~dep.remote
    <3>1. call' = [c \in Callers |-> NoCall] /\ Restarted(Deployed)
      BY <1>3, <2>1 DEF GraphProcessEnds
    <3>2. ASSUME NEW s \in Scanners PROVE \A b \in Blocks : place'[s][b] = "none"
      <4>1. CASE s \in Deployed
        BY <3>1, <4>1 DEF Restarted, Nowhere
      <4>2. CASE s \notin Deployed
        <5>1. BooksOf(s) /\ svc[s] = "idle" /\ place'[s] = place[s]
          BY <3>1, <4>2, Parties DEF CoreInv, ServiceBooks, BooksOf, Restarted
        <5>2. QED
          BY <5>1 DEF BooksOf
      <4>3. QED
        BY <4>1, <4>2
    <3>3. \A d \in Callers : call'[d] = NoCall
      BY <3>1
    <3>4. QED
      BY <2>0, <3>2, <3>3, AfterCrash
  <2>2. CASE dep.remote
    <3>1. /\ txC = {} /\ walletC = {} /\ txC' = {} /\ walletC' = {} /\ blockC' = NoMarks
          /\ UNCHANGED <<tx, wallet, dep>>
      BY <2>0, <2>2 DEF StoreCrash, tables
    <3>9. MarksBacked'
      <4>1. CASE Memory
        BY <2>0, <4>1 DEF StoreCrash, NoRows, NoMarks, MarksBacked
      <4>2. CASE ~Memory
        <5>1. UNCHANGED <<block, tx>> /\ late'.blocks = late.blocks /\ late'.early = late.early
          BY <2>0, <4>2, TypeParts DEF CoreInv, StoreCrash, tables, TablesOK, LateRows
        <5>2. QED
          BY <5>1 DEF AcceptedBooks, MarksBacked
      <4>3. QED
        BY <4>1, <4>2
    <3>2. /\ call' = [c \in Callers |-> IF c = Orphan \/ call[c].at = "idle" THEN NoCall
                                        ELSE [call[c] EXCEPT !.at = "err"]]
          /\ place' = place
      BY <1>3, <2>2 DEF GraphProcessEnds
    <3>3. Cached' = Cached
      BY <3>1 DEF Cached
    <3>4. ASSUME NEW d \in Callers
          PROVE  /\ Backed(call'[d], tx \cup txC, wallet \cup walletC, Cached)
                 /\ Emptied(call'[d], txC, walletC, Cached)
      <4>1. CASE d = Orphan \/ call[d].at = "idle"
        <5>1. call'[d] = NoCall
          BY <3>2, <4>1
        <5>2. QED
          BY <5>1, EmptyCall
      <4>2. CASE d # Orphan /\ call[d].at # "idle"
        <5> DEFINE r == [call[d] EXCEPT !.at = "err"]
        <5>1. call'[d] = r
          BY <3>2, <4>2
        <5>2. r.at = "err" /\ r.kind = call[d].kind /\ r.txs = call[d].txs /\ r.blocks = call[d].blocks
          BY <1>0 DEF CallsOK, Records
        <5>3. Backed(call[d], tx \cup txC, wallet \cup walletC, Cached)
          BY BacksOf
        <5> HIDE DEF r
        <5>4. Backed(r, tx \cup txC, wallet \cup walletC, Cached) /\ Emptied(r, txC, walletC, Cached)
          BY <5>2, <5>3, ErrorBacked
        <5>5. QED
          BY <5>1, <5>4
      <4>3. QED
        BY <4>1, <4>2
    <3>5. \A b \in Blocks : blockC'[b] # "processed"
      BY <3>1 DEF NoMarks
    <3>6. \A d \in Callers : /\ Backed(call'[d], tx' \cup txC', wallet' \cup walletC', Cached')
                             /\ Emptied(call'[d], txC', walletC', Cached')
      BY <3>1, <3>3, <3>4
    <3>7. /\ \A s \in Scanners, b \in Blocks :
               place'[s][b] \in {"parsed", "sink"} => TxsOf(b) \subseteq tx' \cup txC'
          /\ WalletsOf(txC') \subseteq wallet' \cup walletC'
      BY <3>1, <3>2 DEF AcceptedBooks
    <3>8. QED
      BY <3>5, <3>6, <3>7, <3>9 DEF AcceptedBooks
  <2>3. QED
    BY <2>1, <2>2
<1>4. QED
  BY <1>1, <1>2, <1>3 DEF Process

LEMMA CrashTables ==
  ASSUME TableBooks, StoreCrash
  PROVE  TableBooks' /\ (lost => lost')
<1>1. blockC' = NoMarks /\ txC' = {} /\ walletC' = {} /\ (lost => lost')
  BY DEF StoreCrash
<1>2. \A t \in tx' : WalletsOf({t}) \subseteq wallet'
  <2>1. CASE Memory
    BY <2>1 DEF StoreCrash
  <2>2. CASE ~Memory
    BY <2>2 DEF StoreCrash, tables, TableBooks
  <2>3. QED
    BY <2>1, <2>2
<1>3. NoMarks' = NoMarks
  BY DEF NoMarks
<1>4. QED
  BY <1>1, <1>2, <1>3 DEF TableBooks

\* Foreign keys hold, caches that are not used stay empty, and what is lost stays lost.
LEMMA TablesKept ==
  ASSUME CoreInv, TableBooks, [Next]_vars
  PROVE  TableBooks' /\ (lost => lost')
<1>1. ASSUME UNCHANGED <<dep, tables, caches, lost>>
      PROVE  TableBooks' /\ (lost => lost')
  BY <1>1 DEF TableBooks, Cached, tables, caches
<1>2. CASE BlockInserter
  <2>1. StoreStill
    BY <1>2 DEF BlockInserter, Subscribes, SubscriptionFails, HeaderArrives, HeaderUpserted,
       InserterStops, Still
  <2>2. QED
    BY <1>1, <2>1 DEF StoreStill
<1>3. ASSUME NEW s \in Scanners, Scanner(s)
      PROVE  TableBooks' /\ (lost => lost')
  <2>1. StoreStill
    BY <1>3 DEF Scanner, BeginsPass, BlocksListed, BlocksFail, PassEnds, ScannerStops, SourceEnds,
       SourceStops, IteratorBreaks, DispatcherDrains, DispatcherEnds, ParserStops, SinkStops,
       CollectsError, SourceNext, DispatcherTakes, DispatcherSpawns, BlockFetched, BlockFetchFails,
       FetchedDropped, ParserTakes, WalletsUpserted, TxsInserted, ParserFails, ParsedDropped,
       SinkTakes, SinkConsumed, SinkFails, Still
  <2>2. QED
    BY <1>1, <2>1 DEF StoreStill
<1>4. CASE Process
  <2>1. ASSUME NEW v \in Services, ServiceFails(v) \/ Signal(v)
        PROVE  TableBooks' /\ (lost => lost')
    BY <1>1, <2>1 DEF ServiceFails, Signal
  <2>2. ASSUME NEW v \in Services, ProcessEnds(v)
        PROVE  TableBooks' /\ (lost => lost')
    <3>1. CASE dep.remote
      BY <1>1, <2>2, <3>1 DEF ProcessEnds
    <3>2. CASE ~dep.remote
      BY <2>2, <3>2, CrashTables DEF ProcessEnds
    <3>3. QED
      BY <3>1, <3>2
  <2>3. CASE GraphProcessEnds
    BY <2>3, CrashTables DEF GraphProcessEnds
  <2>4. QED
    BY <1>4, <2>1, <2>2, <2>3 DEF Process
<1>5. ASSUME NEW c \in Callers, GraphCall(c)
      PROVE  TableBooks' /\ (lost => lost')
  BY <1>5, GraphCallTables
<1>6. ASSUME NEW c \in Clients, RPCFails(c)
      PROVE  TableBooks' /\ (lost => lost')
  BY <1>1, <1>6 DEF RPCFails
<1>7. CASE OrphanEnds
  BY <1>1, <1>7 DEF OrphanEnds
<1>8. CASE LateRowStored
  <2>1. /\ UNCHANGED <<dep, caches, lost>> /\ wallet \subseteq wallet'
        /\ \A t \in tx' : t \in tx \/ WalletsOf({t}) \subseteq wallet
    BY <1>8 DEF LateRowStored
  <2>2. QED
    BY <2>1 DEF TableBooks, Cached, caches
<1>9. CASE LateRowReplaced
  BY <1>1, <1>9 DEF LateRowReplaced
<1>10. CASE UNCHANGED vars
  BY <1>1, <1>10 DEF vars, storeVars
<1>11. QED
  BY <1>2, <1>3, <1>4, <1>5, <1>6, <1>7, <1>8, <1>9, <1>10 DEF Next

LEMMA AcceptedStep ==
  ASSUME CoreInv, TableBooks, AcceptedBooks, [Next]_vars, ~lost'
  PROVE  AcceptedBooks'
<1>1. CASE BlockInserter
  BY <1>1, InserterAccepts
<1>2. CASE Process
  BY <1>2, ProcessAccepts
<1>3. ASSUME NEW s \in Scanners, Scanner(s)
      PROVE  AcceptedBooks'
  BY <1>3, ScannerAccepts
<1>4. ASSUME NEW c \in Callers, GraphCall(c), UNCHANGED scanVars
      PROVE  AcceptedBooks'
  BY <1>4, GraphCallAccepts DEF scanVars
<1>5. ASSUME NEW c \in Clients, RPCFails(c), UNCHANGED scanVars
      PROVE  AcceptedBooks'
  BY <1>5, RPCAccepts
<1>6. CASE (OrphanEnds \/ LateRowStored \/ LateRowReplaced) /\ UNCHANGED scanVars
  BY <1>6, OrphanAccepts, LateAccepts, ReplacedAccepts
<1>7. CASE UNCHANGED vars
  <2>1. UNCHANGED <<dep, tables, caches, late, call, place>>
    BY <1>7 DEF vars, storeVars, scanVars
  <2>2. QED
    BY <2>1, StillAccepted
<1>8. QED
  BY <1>1, <1>2, <1>3, <1>4, <1>5, <1>6, <1>7 DEF Next

LEMMA RowsInit ==
  ASSUME Init
  PROVE  TableBooks /\ AcceptedBooks
<1>1. /\ tx = {} /\ wallet = {} /\ blockC = NoMarks /\ txC = {} /\ walletC = {}
      /\ block = Marks(1 .. dep.known, "new") /\ late = NoRows
      /\ \A c \in Callers : call[c] = NoCall
  BY DEF Init, StoreInit
<1>2. \A s \in Scanners, b \in Blocks : place[s][b] = "none"
  BY DEF Init, ScanInit, Nowhere
<1>3. \A b \in Blocks : block[b] # "processed" /\ late.blocks[b] # "processed" /\ blockC[b] # "processed"
  BY <1>1 DEF Marks, NoRows, NoMarks
<1>4. \A c \in Callers : /\ Backed(call[c], tx \cup txC, wallet \cup walletC, Cached)
                         /\ Emptied(call[c], txC, walletC, Cached)
  BY <1>1, EmptyCall
<1>5. QED
  BY <1>1, <1>2, <1>3, <1>4, WalletSets DEF TableBooks, AcceptedBooks, MarksBacked

\* Who calls what, how far each pass is, and what was accepted before what: the
\* conjunction that every step of the inserter, the scanners, the graph and the
\* processes keeps.
THEOREM IngestInvariant == Spec => []IngestInv
<1>1. Init => IngestInv
  BY CoreInit, RowsInit DEF CoreInv, IngestInv
<1>2. IngestInv /\ [Next]_vars => IngestInv'
  <2>1. SUFFICES ASSUME IngestInv, [Next]_vars PROVE IngestInv'
    OBVIOUS
  <2>2. CoreInv /\ TableBooks /\ (~lost => AcceptedBooks)
    BY <2>1 DEF IngestInv, CoreInv
  <2>3. CoreInv'
    BY <2>1, <2>2, CoreStep
  <2>4. TableBooks' /\ (lost => lost')
    BY <2>1, <2>2, TablesKept
  <2>5. ~lost' => AcceptedBooks'
    BY <2>1, <2>2, <2>4, AcceptedStep
  <2>6. QED
    BY <2>3, <2>4, <2>5 DEF CoreInv, IngestInv
<1>3. QED
  BY <1>1, <1>2, PTL DEF Spec

\* A block that the tables call processed has its transactions and wallets in the
\* tables, whatever was cached, announced again, failed, broken off or crashed, unless
\* the graph acknowledged rows that it did not keep (lost: an error that batchUpsert
\* dropped, or the process of a remote graph that started again with rows in its caches
\* or in memory) or a leftover inserter read a refilled cache (late.early).
THEOREM ProcessedIsStored == Spec => []ProcessedMeansStored
<1>1. ASSUME IngestInv PROVE ProcessedMeansStored
  <2>1. SUFFICES ASSUME ~lost, ~late.early, NEW b \in Blocks, block[b] = "processed"
                 PROVE  TxsOf(b) \subseteq tx /\ WalletsOf(TxsOf(b)) \subseteq wallet
    BY DEF ProcessedMeansStored, ProcessedIsComplete
  <2>2. TxsOf(b) \subseteq tx
    BY <1>1, <2>1 DEF IngestInv, AcceptedBooks, MarksBacked
  <2>3. \A t \in TxsOf(b) : WalletsOf({t}) \subseteq wallet
    BY <1>1, <2>2 DEF IngestInv, TableBooks
  <2>4. QED
    BY <2>2, <2>3, WalletSets
<1>2. QED
  BY <1>1, IngestInvariant, PTL

LEMMA WalletsAreFirst ==
  ASSUME IngestInv
  PROVE  WalletsFirst
<1>1. SUFFICES ASSUME ~lost, NEW c \in Callers
               PROVE  /\ InTable(c, "txs") =>
                           WalletsOf(IF Cached THEN txC ELSE call[c].txs) \subseteq wallet
                      /\ Memory /\ At(c, "txs", "start") => WalletsOf(call[c].txs) \subseteq wallet
  BY DEF WalletsFirst
<1>2. /\ AcceptedBooks /\ TableBooks
      /\ Backed(call[c], tx \cup txC, wallet \cup walletC, Cached)
      /\ Emptied(call[c], txC, walletC, Cached)
  BY <1>1, BacksOf DEF IngestInv
<1>3. CASE Cached
  <2>1. ~Memory /\ WalletsOf(txC) \subseteq wallet \cup walletC
    BY <1>2, <1>3 DEF Cached, Memory, AcceptedBooks
  <2>2. call[c].at = "txs" => walletC = {}
    BY <1>2, <1>3 DEF Emptied
  <2>3. QED
    BY <1>3, <2>1, <2>2 DEF InTable
<1>4. CASE ~Cached
  <2>1. WalletsOf(call[c].txs) \subseteq wallet
    BY <1>2, <1>4 DEF Backed, TableBooks
  <2>2. QED
    BY <1>4, <2>1
<1>5. QED
  BY <1>3, <1>4

\* No statement that inserts transactions meets an unknown wallet, with or without
\* caches, directly or over gRPC, whoever flushes them.
THEOREM WalletsComeFirst == Spec => []WalletsFirst
<1>1. IngestInv => WalletsFirst
  BY WalletsAreFirst
<1>2. QED
  BY <1>1, IngestInvariant, PTL

-----------------------------------------------------------------------------
(***************************************************************************)
(* The mutexes of the caches: one holder each, and no ring.                *)
(***************************************************************************)

\* A call that is neither in the method's body nor at a lock holds nothing.
Outside(r) == r.at \in {"idle", "start", "ok", "err"}
HoldsNothing(c) == ~HoldsBlockC(c) /\ ~HoldsTxC(c) /\ ~HoldsWalletC(c)

LEMMA OutsideHoldsNothing ==
  \A c \in Callers : Outside(call[c]) => HoldsNothing(c)
  BY DEF Outside, HoldsNothing, HoldsBlockC, HoldsTxC, HoldsWalletC

\* A lock is taken only when no call holds it.
LEMMA LocksTaken ==
  ASSUME TypeOK, NEW c \in Callers, Shaped(call[c]), GraphCall(c), Cached
  PROVE  /\ HoldsBlockC(c)' => HoldsBlockC(c) \/ \A d \in Callers : ~HoldsBlockC(d)
         /\ HoldsTxC(c)' => HoldsTxC(c) \/ \A d \in Callers : ~HoldsTxC(d)
         /\ HoldsWalletC(c)' => HoldsWalletC(c) \/ \A d \in Callers : ~HoldsWalletC(d)
<1>0. CallsOK /\ call[c] \in Records /\ ~Memory /\ Moves(c) /\ dep' = dep
  BY TypeParts, GraphCallSteps DEF CallsOK, Cached, Memory, GraphStep
<1>1. call'[c].kind = call[c].kind /\ Cached'
  BY <1>0 DEF Moves, Cached
<1>2. \A at : Goto(c, at) => call'[c].at = at
  BY <1>0 DEF Goto, CallsOK
<1>3. CASE CacheBlocks(c)
  <2>1. call[c].kind = "blocks" /\ call'[c].at \in {"lockTxC", "ok"} /\ \A d \in Callers : ~HoldsBlockC(d)
    BY <1>2, <1>3 DEF CacheBlocks, At
  <2>2. QED
    BY <1>1, <2>1 DEF HoldsBlockC, HoldsTxC, HoldsWalletC
<1>4. CASE CacheTxs(c)
  <2>1. call[c].kind = "txs" /\ call'[c].at \in {"lockWalletC", "ok"} /\ \A d \in Callers : ~HoldsTxC(d)
    BY <1>2, <1>4 DEF CacheTxs, At
  <2>2. QED
    BY <1>1, <2>1 DEF HoldsBlockC, HoldsTxC, HoldsWalletC
<1>5. CASE CacheWallets(c)
  <2>1. call[c].kind = "wallets" /\ call'[c].at \in {"wallets", "ok"} /\ \A d \in Callers : ~HoldsWalletC(d)
    BY <1>2, <1>5 DEF CacheWallets, At
  <2>2. QED
    BY <1>1, <2>1 DEF HoldsBlockC, HoldsTxC, HoldsWalletC
<1>6. CASE LockTxC(c)
  <2>1. /\ call[c].kind = "blocks" /\ call[c].at = "lockTxC" /\ call'[c].at = "lockWalletC"
        /\ \A d \in Callers : ~HoldsTxC(d)
    BY <1>2, <1>6 DEF LockTxC, At
  <2>2. QED
    BY <1>1, <2>1 DEF HoldsBlockC, HoldsTxC, HoldsWalletC, Flushes, Cached
<1>7. CASE LockWalletC(c)
  <2>1. /\ call[c].at = "lockWalletC" /\ call'[c].at = "wallets"
        /\ \A d \in Callers : ~HoldsWalletC(d)
    BY <1>2, <1>7 DEF LockWalletC
  <2>2. QED
    BY <1>1, <2>1 DEF HoldsBlockC, HoldsTxC, Flushes, Cached
<1>8. CASE BulkUpsertWallets(c) \/ BulkUpsertTxs(c) \/ BulkUpsertBlocks(c)
  <2>1. /\ call[c].at \in {"wallets", "txs", "blocks"}
        /\ \/ call'[c].at \in {"ok", "err"}
           \/ call[c].at = "wallets" /\ call[c].kind # "wallets" /\ call'[c].at = "txs"
           \/ call[c].at = "txs" /\ call[c].kind # "txs" /\ call'[c].at = "blocks"
           \/ call[c].kind = "list"
    <3>1. PICK o, next : /\ After(c, o, next) /\ o.result \in {"nil", "err"}
                         /\ \/ call[c].at = "wallets" /\ next = "txs"
                            \/ call[c].at = "txs" /\ next = "blocks"
                            \/ call[c].at = "blocks" /\ next = "query"
      BY <1>8 DEF BulkUpsertWallets, BulkUpsertTxs, BulkUpsertBlocks, InTable, Stored
    <3>2. /\ o.result = "err" => call'[c].at = "err"
          /\ o.result = "nil" /\ call[c].kind = call[c].at => call'[c].at = "ok"
          /\ o.result = "nil" /\ call[c].kind # call[c].at => call'[c].at = next
      BY <1>2, <3>1 DEF After
    <3>3. call[c].at = "blocks" => call[c].kind \in {"blocks", "list"}
      BY <1>0, WhereTheCallIs
    <3>4. CASE o.result = "err"
      BY <3>1, <3>2, <3>4
    <3>5. CASE o.result = "nil" /\ call[c].kind = call[c].at
      BY <3>1, <3>2, <3>5
    <3>6. CASE o.result = "nil" /\ call[c].kind # call[c].at
      <4>1. call'[c].at = next
        BY <3>2, <3>6
      <4>2. QED
        BY <3>1, <3>3, <3>6, <4>1
    <3>7. QED
      BY <3>1, <3>4, <3>5, <3>6
  <2>2. QED
    BY <1>0, <1>1, <2>1, WhereTheCallIs DEF HoldsBlockC, HoldsTxC, HoldsWalletC, Flushes, Cached
<1>9. CASE RefreshReads(c) \/ QueryUnprocessed(c) \/ QueryFails(c)
  <2>1. call[c].kind = "list"
    BY <1>9 DEF RefreshReads, QueryUnprocessed, QueryFails, At
  <2>2. QED
    BY <1>1, <2>1 DEF HoldsBlockC, HoldsTxC, HoldsWalletC, Flushes
<1>10. QED
  BY <1>0, <1>3, <1>4, <1>5, <1>6, <1>7, <1>8, <1>9 DEF GraphCall, MemoryUpsertBlocks, MemoryInsertTxs,
     MemoryUpsertWallets, MemoryFindsLargest, MemoryInsertsMissing

LEMMA NoLockWithoutCaches ==
  ~Cached => \A c \in Callers : HoldsNothing(c)
  BY DEF HoldsNothing, HoldsBlockC, HoldsTxC, HoldsWalletC, Flushes

\* The deployment stays.
LEMMA DeploymentStays ==
  ASSUME CoreInv, [Next]_vars
  PROVE  dep' = dep
<1>1. CASE BlockInserter
  BY <1>1 DEF BlockInserter, Subscribes, SubscriptionFails, HeaderArrives, HeaderUpserted,
     InserterStops, Still, StoreStill
<1>2. CASE Process
  BY <1>2 DEF Process, GraphProcessEnds, ServiceFails, Signal, ProcessEnds, StoreCrash
<1>3. ASSUME NEW s \in Scanners, Scanner(s) PROVE dep' = dep
  BY <1>3, ScannerSteps DEF CoreInv, PassStep, Away
<1>4. ASSUME NEW c \in Callers, GraphCall(c) PROVE dep' = dep
  BY <1>4, GraphCallSteps DEF CoreInv, GraphStep
<1>5. ASSUME NEW c \in Clients, RPCFails(c) PROVE dep' = dep
  BY <1>5 DEF RPCFails
<1>6. CASE OrphanEnds \/ LateRowStored \/ LateRowReplaced
  BY <1>6 DEF OrphanEnds, LateRowStored, LateRowReplaced
<1>7. CASE UNCHANGED vars
  BY <1>7 DEF vars, storeVars
<1>8. QED
  BY <1>1, <1>2, <1>3, <1>4, <1>5, <1>6, <1>7 DEF Next

\* A client that begins or ends a call is outside the graph.
LEMMA ClientsStayOutside ==
  ASSUME CoreInv, Cached, BlockInserter \/ \E s \in Scanners : Scanner(s)
  PROVE  \A c \in Callers : call'[c] = call[c] \/ Outside(call'[c])
<1>0. CallsOK /\ Inserter \in Callers
  BY TypeParts DEF CoreInv, Callers, Clients
<1>1. ASSUME NEW d \in Callers, EndCall(d)
      PROVE  \A c \in Callers : call'[c] = call[c] \/ Outside(call'[c])
  BY <1>0, <1>1, CallEnded DEF NoCall, Outside
<1>2. CASE BlockInserter
  <2>1. CASE \E b \in Blocks : HeaderArrives(b)
    <3>1. PICK b \in Blocks : CallUpsertBlocks(Inserter, b, "new")
      BY <2>1 DEF HeaderArrives
    <3>2. QED
      BY <1>0, <3>1, BlocksCall DEF MarkSet, Outside
  <2>2. CASE HeaderUpserted
    BY <1>0, <1>1, <2>2 DEF HeaderUpserted
  <2>3. CASE Subscribes \/ SubscriptionFails \/ InserterStops
    BY <2>3 DEF Subscribes, SubscriptionFails, InserterStops, Still
  <2>4. QED
    BY <1>2, <2>1, <2>2, <2>3 DEF BlockInserter
<1>3. ASSUME NEW s \in Scanners, Scanner(s)
      PROVE  \A c \in Callers : call'[c] = call[c] \/ Outside(call'[c])
  <2>0. /\ Lister(s) \in Callers
        /\ \A b \in Blocks : /\ Carrier(s, b) \in Callers /\ TxsOf(b) \in SUBSET Txs
                             /\ WalletsOf(TxsOf(b)) \in SUBSET Wallets
    BY Constants, RowsOfABlock DEF Callers
  <2>1. CASE BeginsPass(s)
    <3>1. CallBlocks(Lister(s))
      BY <2>1 DEF BeginsPass
    <3>2. QED
      BY <1>0, <2>0, <3>1, ListCall DEF Outside
  <2>2. CASE BlocksListed(s) \/ BlocksFail(s)
    <3>1. EndCall(Lister(s))
      BY <2>2 DEF BlocksListed, BlocksFail
    <3>2. QED
      BY <1>1, <2>0, <3>1
  <2>3. ASSUME NEW b \in Blocks,
               TxsInserted(s, b) \/ ParserFails(s, b) \/ SinkConsumed(s, b) \/ SinkFails(s, b)
        PROVE  \A c \in Callers : call'[c] = call[c] \/ Outside(call'[c])
    <3>1. EndCall(Carrier(s, b))
      BY <2>3 DEF TxsInserted, ParserFails, SinkConsumed, SinkFails
    <3>2. QED
      BY <1>1, <2>0, <3>1
  <2>4. ASSUME NEW b \in Blocks, ParserTakes(s, b)
        PROVE  \A c \in Callers : call'[c] = call[c] \/ Outside(call'[c])
    <3>1. UNCHANGED call \/ CallUpsertWallets(Carrier(s, b), WalletsOf(TxsOf(b)))
      BY <2>4 DEF ParserTakes
    <3>2. QED
      BY <1>0, <2>0, <3>1, WalletsCall DEF Outside
  <2>5. ASSUME NEW b \in Blocks, WalletsUpserted(s, b)
        PROVE  \A c \in Callers : call'[c] = call[c] \/ Outside(call'[c])
    <3>1. CallInsertTxs(Carrier(s, b), TxsOf(b))
      BY <2>5 DEF WalletsUpserted
    <3>2. QED
      BY <1>0, <2>0, <3>1, TxsCall DEF Outside
  <2>6. ASSUME NEW b \in Blocks, SinkTakes(s, b)
        PROVE  \A c \in Callers : call'[c] = call[c] \/ Outside(call'[c])
    <3>1. CallUpsertBlocks(Carrier(s, b), b, "processed")
      BY <2>6 DEF SinkTakes
    <3>2. QED
      BY <1>0, <2>0, <3>1, BlocksCall DEF MarkSet, Outside
  <2>7. CASE \/ PassEnds(s) \/ ScannerStops(s) \/ SourceEnds(s) \/ SourceStops(s) \/ IteratorBreaks(s)
             \/ DispatcherDrains(s) \/ DispatcherEnds(s) \/ ParserStops(s) \/ SinkStops(s)
             \/ CollectsError(s)
             \/ \E b \in Blocks :
                  \/ SourceNext(s, b) \/ DispatcherTakes(s, b) \/ DispatcherSpawns(s, b)
                  \/ BlockFetched(s, b) \/ BlockFetchFails(s, b) \/ FetchedDropped(s, b)
                  \/ ParsedDropped(s, b)
    BY <2>7 DEF PassEnds, ScannerStops, SourceEnds, SourceStops, IteratorBreaks, DispatcherDrains,
       DispatcherEnds, ParserStops, SinkStops, CollectsError, SourceNext, DispatcherTakes,
       DispatcherSpawns, BlockFetched, BlockFetchFails, FetchedDropped, ParsedDropped, Still
  <2>8. QED
    BY <1>3, <2>1, <2>2, <2>3, <2>4, <2>5, <2>6, <2>7 DEF Scanner
<1>4. QED
  BY <1>2, <1>3

\* A step keeps one holder: a call holds what it held or was handed, or took a lock
\* that nobody held.
LEMMA OneHolderStep ==
  ASSUME CoreInv, OneHolder, [Next]_vars
  PROVE  OneHolder'
<1>0. CallsOK /\ dep' = dep /\ (Cached' <=> Cached) /\ \A c \in Callers : Shaped(call[c])
  BY DeploymentStays, TypeParts DEF CoreInv, Cached
<1>1. CASE ~Cached
  BY <1>0, <1>1 DEF OneHolder, HoldsBlockC, HoldsTxC, HoldsWalletC, Flushes
<1>2. ASSUME Cached, \A c \in Callers : call'[c] = call[c] \/ Outside(call'[c])
      PROVE  OneHolder'
  BY <1>0, <1>2 DEF OneHolder, Outside, HoldsBlockC, HoldsTxC, HoldsWalletC, Flushes
<1>3. ASSUME Cached, NEW c \in Callers, GraphCall(c) PROVE OneHolder'
  <2>1. \A d \in Callers : d # c => call'[d] = call[d]
    BY <1>0, <1>3, GraphCallSteps DEF CoreInv, GraphStep, Moves
  <2>2. \A d \in Callers : d # c => /\ HoldsBlockC(d)' => HoldsBlockC(d)
                                    /\ HoldsTxC(d)' => HoldsTxC(d)
                                    /\ HoldsWalletC(d)' => HoldsWalletC(d)
    BY <1>0, <2>1 DEF HoldsBlockC, HoldsTxC, HoldsWalletC, Flushes
  <2>3. /\ HoldsBlockC(c)' => HoldsBlockC(c) \/ \A d \in Callers : ~HoldsBlockC(d)
        /\ HoldsTxC(c)' => HoldsTxC(c) \/ \A d \in Callers : ~HoldsTxC(d)
        /\ HoldsWalletC(c)' => HoldsWalletC(c) \/ \A d \in Callers : ~HoldsWalletC(d)
    BY <1>0, <1>3, LocksTaken DEF CoreInv
  <2>4. QED
    BY <2>2, <2>3 DEF OneHolder
<1>4. ASSUME Cached, NEW c \in Clients, RPCFails(c) PROVE OneHolder'
  <2>0. c \in Callers /\ Orphan \in Callers /\ Orphan # c
    BY ClientsAssumption DEF Callers
  <2>1. CASE call' = [call EXCEPT ![c].at = "err"]
    <3>1. \A d \in Callers : call'[d] = call[d] \/ Outside(call'[d])
      BY <1>0, <2>0, <2>1 DEF CallsOK, Records, Outside
    <3>2. QED
      BY <1>2, <1>4, <3>1
  <2>2. CASE call[Orphan].at = "idle" /\ call' = [call EXCEPT ![c].at = "err", ![Orphan] = call[c]]
    <3>1. /\ Outside(call'[c]) /\ call'[Orphan] = call[c]
          /\ \A d \in Callers : d # c /\ d # Orphan => call'[d] = call[d]
      BY <1>0, <2>0, <2>2 DEF CallsOK, Records, Outside
    <3>2. \A d \in Callers : d # c /\ d # Orphan => /\ HoldsBlockC(d)' => HoldsBlockC(d)
                                                    /\ HoldsTxC(d)' => HoldsTxC(d)
                                                    /\ HoldsWalletC(d)' => HoldsWalletC(d)
      BY <1>0, <3>1 DEF HoldsBlockC, HoldsTxC, HoldsWalletC, Flushes
    <3>3. ~HoldsBlockC(c)' /\ ~HoldsTxC(c)' /\ ~HoldsWalletC(c)'
      BY <3>1 DEF Outside, HoldsBlockC, HoldsTxC, HoldsWalletC
    <3>4. /\ HoldsBlockC(Orphan)' => HoldsBlockC(c)
          /\ HoldsTxC(Orphan)' => HoldsTxC(c)
          /\ HoldsWalletC(Orphan)' => HoldsWalletC(c)
      BY <1>0, <3>1 DEF HoldsBlockC, HoldsTxC, HoldsWalletC, Flushes
    <3>5. QED
      BY <2>0, <3>2, <3>3, <3>4 DEF OneHolder
  <2>3. QED
    BY <1>4, <2>1, <2>2 DEF RPCFails
<1>5. CASE Cached /\ Process
  <2>1. \A c \in Callers : call'[c] = call[c] \/ Outside(call'[c])
    <3>1. CASE GraphProcessEnds
      <4>1. \/ call' = [c \in Callers |-> IF c = Orphan \/ call[c].at = "idle" THEN NoCall
                                        ELSE [call[c] EXCEPT !.at = "err"]]
            \/ call' = [c \in Callers |-> NoCall]
        BY <3>1, Zenon DEF GraphProcessEnds
      <4>2. QED
        BY <1>0, <4>1 DEF CallsOK, Records, NoCall, Outside
    <3>2. CASE \E v \in Services : ServiceFails(v) \/ Signal(v) \/ ProcessEnds(v)
      BY <3>2 DEF ServiceFails, Signal, ProcessEnds
    <3>3. QED
      BY <1>5, <3>1, <3>2 DEF Process
  <2>2. QED
    BY <1>2, <1>5, <2>1
<1>6. CASE Cached /\ (OrphanEnds \/ LateRowStored \/ LateRowReplaced)
  <2>1. \A c \in Callers : call'[c] = call[c] \/ Outside(call'[c])
    <3>1. CASE OrphanEnds
      BY <1>0, <3>1, CallEnded DEF OrphanEnds, NoCall, Outside, Callers
    <3>2. CASE LateRowStored \/ LateRowReplaced
      BY <3>2 DEF LateRowStored, LateRowReplaced
    <3>3. QED
      BY <1>6, <3>1, <3>2
  <2>2. QED
    BY <1>2, <1>6, <2>1
<1>7. CASE UNCHANGED vars
  BY <1>7 DEF vars, storeVars, OneHolder, HoldsBlockC, HoldsTxC, HoldsWalletC, Flushes, Cached
<1>8. CASE Cached /\ (BlockInserter \/ \E s \in Scanners : Scanner(s))
  <2>1. \A c \in Callers : call'[c] = call[c] \/ Outside(call'[c])
    BY <1>8, ClientsStayOutside
  <2>2. QED
    BY <1>2, <1>8, <2>1
<1>9. QED
  BY <1>1, <1>3, <1>4, <1>5, <1>6, <1>7, <1>8 DEF Next

\* The locks are taken in one order: who holds the wallets' mutex waits for none, who
\* holds another one waits only for one that comes later in that order.
LEMMA RingFree ==
  ASSUME CallsOK, \A c \in Callers : Shaped(call[c])
  PROVE  NoRing
<1>1. ASSUME NEW c \in Callers, HoldsWalletC(c)
      PROVE  c \in InTheGraph /\ \A d \in Callers : ~WaitsFor(c, d)
  BY <1>1 DEF HoldsWalletC, InTheGraph, WaitsFor, At
<1>2. ASSUME NEW c \in Callers, HoldsTxC(c), NEW d \in Callers, WaitsFor(c, d)
      PROVE  HoldsWalletC(d)
  BY <1>2 DEF HoldsTxC, WaitsFor, At
<1>3. ASSUME NEW c \in Callers, HoldsBlockC(c), NEW d \in Callers, WaitsFor(c, d)
      PROVE  HoldsTxC(d) \/ HoldsWalletC(d)
  BY <1>3 DEF HoldsBlockC, WaitsFor, At
<1>4. ASSUME NEW c \in Callers, HoldsBlockC(c) \/ HoldsTxC(c) PROVE c \in InTheGraph
  BY <1>4 DEF HoldsBlockC, HoldsTxC, InTheGraph
<1>5. ASSUME NEW c \in Callers, HoldsTxC(c)
      PROVE  \E e \in InTheGraph : \A d \in Callers : ~WaitsFor(e, d)
  BY <1>1, <1>2, <1>4, <1>5
<1>6. ASSUME NEW c \in Callers, HoldsBlockC(c)
      PROVE  \E e \in InTheGraph : \A d \in Callers : ~WaitsFor(e, d)
  BY <1>1, <1>3, <1>4, <1>5, <1>6
<1>7. ASSUME NEW c \in Callers, NEW d \in Callers, WaitsFor(c, d)
      PROVE  HoldsBlockC(d) \/ HoldsTxC(d) \/ HoldsWalletC(d)
  BY <1>7 DEF WaitsFor
<1>8. QED
  BY <1>1, <1>5, <1>6, <1>7 DEF NoRing, InTheGraph

\* No cache is ever locked by two calls, whoever else fails, gives up or crashes, and
\* a call that a client abandoned keeps its locks.
THEOREM CachesLockedOnce == Spec => []OneHolder
<1>1. Init => OneHolder
  BY DEF Init, StoreInit, OneHolder, HoldsBlockC, HoldsTxC, HoldsWalletC, NoCall
<1>2. IngestInv /\ OneHolder /\ [Next]_vars => OneHolder'
  BY OneHolderStep DEF IngestInv, CoreInv
<1>3. QED
  BY <1>1, <1>2, IngestInvariant, PTL DEF Spec

\* Among the calls inside the graph one waits for no mutex, for any number of clients:
\* the flush of a cache takes the locks of the later caches in one order.
THEOREM LocksInOrder == Spec => []NoRing
<1>1. IngestInv => NoRing
  BY RingFree, TypeParts DEF IngestInv
<1>2. QED
  BY <1>1, IngestInvariant, PTL

-----------------------------------------------------------------------------
(***************************************************************************)
(* A service that is to end does not hang.                                 *)
(***************************************************************************)

\* The calls of two threads, and of two services, are different ones.
LEMMA DifferentThreads ==
  ASSUME NEW s \in Scanners
  PROVE  /\ Lister(s) \in Callers /\ Inserter \in Callers /\ Lister(s) # Inserter /\ Lister(s) # Orphan
         /\ \A b \in Blocks : /\ Carrier(s, b) \in Callers /\ Carrier(s, b) # Lister(s)
                              /\ Carrier(s, b) # Orphan /\ Carrier(s, b) # Inserter
                              /\ \A a \in Blocks : a # b => Carrier(s, a) # Carrier(s, b)
<1>1. Lister(s) \in Clients /\ Lister(s) # Inserter /\ \A b \in Blocks : Carrier(s, b) \in Clients /\ Carrier(s, b) # Inserter
  BY Constants
<1>2. \A b \in Blocks : b # 0 /\ b \in Nat
  BY Constants DEF Blocks
<1>3. \A c \in Clients : c \in Callers /\ c # Orphan
  BY ClientsAssumption DEF Callers
<1>4. \A a, b \in Blocks : (a # b => Carrier(s, a) # Carrier(s, b)) /\ Carrier(s, b) # Lister(s)
  BY <1>2 DEF Carrier, Lister
<1>5. QED
  BY <1>1, <1>3, <1>4 DEF Clients, Callers

\* Nobody begins to wait, and no call changes its kind.
LEMMA UnderWayKept ==
  ASSUME UnderWay,
         \A v \in Services : svc'[v] = svc[v] \/ svc'[v] \in {"idle", "returned"},
         \A s \in Scanners, b \in Blocks : place'[s][b] = "sink" => place[s][b] = "sink",
         \A c \in Clients : call[c].kind # "none" => call'[c].kind = call[c].kind
  PROVE  UnderWay'
<1>1. \A s \in Scanners : /\ s \in Services /\ Lister(s) \in Clients
                          /\ \A b \in Blocks : Carrier(s, b) \in Clients
  BY Constants DEF Services
<1>2. Inserter \in Services /\ Inserter \in Clients
  BY DEF Services, Clients
<1>3. /\ svc'[Inserter] \notin {"listing", "scan"}
      /\ svc'[Inserter] = "upsert" => call'[Inserter].kind = "blocks"
  BY <1>2 DEF UnderWay
<1>4. ASSUME NEW s \in Scanners PROVE HasCalled(s)'
  <2>1. HasCalled(s)
    BY DEF UnderWay
  <2>2. /\ svc'[s] \notin {"listen", "upsert"}
        /\ svc'[s] = "listing" => call'[Lister(s)].kind = "list"
    BY <1>1, <2>1 DEF HasCalled
  <2>3. ASSUME NEW b \in Blocks, place'[s][b] = "sink" PROVE call'[Carrier(s, b)].kind = "blocks"
    BY <1>1, <2>1, <2>3 DEF HasCalled
  <2>4. QED
    BY <2>2, <2>3 DEF HasCalled
<1>5. QED
  BY <1>3, <1>4 DEF UnderWay

\* The payload of b moves, and the call of its thread changes.
LEMMA PayloadHasCalled ==
  ASSUME PlacesOK, NEW s \in Scanners, HasCalled(s), NEW b \in Blocks, NEW y \in Places, Move(s, b, y),
         svc'[s] = svc[s], \A c \in Callers : c # Carrier(s, b) => call'[c] = call[c],
         y = "sink" => call'[Carrier(s, b)].kind = "blocks"
  PROVE  HasCalled(s)'
<1>1. place'[s][b] = y /\ \A a \in Blocks : a # b => place'[s][a] = place[s][a]
  BY DEF Move, PlacesOK
<1>2. call'[Lister(s)] = call[Lister(s)]
  BY DifferentThreads
<1>3. \A a \in Blocks : a # b => call'[Carrier(s, a)] = call[Carrier(s, a)]
  BY DifferentThreads
<1>4. ASSUME NEW a \in Blocks, place'[s][a] = "sink" PROVE call'[Carrier(s, a)].kind = "blocks"
  <2>1. CASE a = b
    BY <1>1, <1>4, <2>1
  <2>2. CASE a # b
    BY <1>1, <1>3, <1>4, <2>2 DEF HasCalled
  <2>3. QED
    BY <2>1, <2>2
<1>5. QED
  BY <1>2, <1>4 DEF HasCalled

LEMMA ScannerHasCalled ==
  ASSUME CoreInv, NEW s \in Scanners, HasCalled(s), Scanner(s)
  PROVE  HasCalled(s)'
<1>0. /\ CallsOK /\ ServicesOK /\ PlacesOK /\ s \in Services /\ Lister(s) \in Callers
      /\ \A b \in Blocks : /\ Carrier(s, b) \in Callers /\ TxsOf(b) \in SUBSET Txs
                           /\ WalletsOf(TxsOf(b)) \in SUBSET Wallets
  BY TypeParts, Constants, RowsOfABlock DEF CoreInv, Services, Callers
<1>1. svc[s] # "scan" => \A b \in Blocks : place[s][b] = "none"
  BY DEF CoreInv, ServiceBooks, BooksOf
<1>2. CASE BeginsPass(s)
  <2>1. CallBlocks(Lister(s)) /\ svc[s] = "idle" /\ place' = place
    BY <1>2 DEF BeginsPass
  <2>2. call'[Lister(s)].kind = "list" /\ svc'[s] = "listing"
    BY <1>0, <1>2, <2>1, ListCall DEF BeginsPass, ServicesOK
  <2>3. QED
    BY <1>1, <2>1, <2>2 DEF HasCalled
<1>3. CASE BlocksListed(s) \/ BlocksFail(s)
  <2>1. svc[s] = "listing" /\ svc'[s] \in {"scan", "failed"}
    BY <1>0, <1>3 DEF BlocksListed, BlocksFail, ServicesOK
  <2>2. \A b \in Blocks : place'[s][b] # "sink"
    BY <1>0, <1>1, <1>3, <2>1 DEF BlocksListed, BlocksFail, PlacesOK
  <2>3. QED
    BY <2>1, <2>2 DEF HasCalled
<1>4. CASE PassEnds(s) \/ ScannerStops(s)
  <2>1. svc'[s] \in {"failed", "idle", "returned"} /\ UNCHANGED <<place, call>>
    BY <1>0, <1>4 DEF PassEnds, ScannerStops, ServicesOK, Still
  <2>2. QED
    BY <2>1 DEF HasCalled
<1>5. CASE SourceEnds(s) \/ DispatcherEnds(s) \/ ParserStops(s) \/ SinkStops(s) \/ CollectsError(s)
  <2>1. UNCHANGED <<svc, place, call>>
    BY <1>5 DEF SourceEnds, DispatcherEnds, ParserStops, SinkStops, CollectsError, Still
  <2>2. QED
    BY <2>1 DEF HasCalled
<1>6. CASE SourceStops(s) \/ IteratorBreaks(s) \/ DispatcherDrains(s)
  <2>1. /\ UNCHANGED <<svc, call>>
        /\ \A b \in Blocks : place'[s][b] = "sink" => place[s][b] = "sink"
    BY <1>0, <1>6 DEF SourceStops, IteratorBreaks, DispatcherDrains, Still, PlacesOK
  <2>2. QED
    BY <2>1 DEF HasCalled
<1>7. ASSUME NEW b \in Blocks,
             \/ SourceNext(s, b) \/ DispatcherTakes(s, b) \/ DispatcherSpawns(s, b)
             \/ BlockFetched(s, b) \/ BlockFetchFails(s, b) \/ FetchedDropped(s, b) \/ ParsedDropped(s, b)
      PROVE  HasCalled(s)'
  <2>1. /\ UNCHANGED <<svc, call>>
        /\ \E y \in Places \ {"sink"} : Move(s, b, y)
    BY <1>7 DEF SourceNext, DispatcherTakes, DispatcherSpawns, BlockFetched, BlockFetchFails,
       FetchedDropped, ParsedDropped, Still, Places
  <2>2. QED
    BY <1>0, <2>1, PayloadHasCalled
<1>8. ASSUME NEW b \in Blocks,
             TxsInserted(s, b) \/ ParserFails(s, b) \/ SinkConsumed(s, b) \/ SinkFails(s, b)
      PROVE  HasCalled(s)'
  <2>1. /\ UNCHANGED svc /\ EndCall(Carrier(s, b))
        /\ \E y \in Places \ {"sink"} : Move(s, b, y)
    BY <1>8 DEF TxsInserted, ParserFails, SinkConsumed, SinkFails, Places
  <2>2. \A c \in Callers : c # Carrier(s, b) => call'[c] = call[c]
    BY <1>0, <2>1, CallEnded
  <2>3. QED
    BY <1>0, <2>1, <2>2, PayloadHasCalled
<1>9. ASSUME NEW b \in Blocks, ParserTakes(s, b) PROVE HasCalled(s)'
  <2>1. /\ UNCHANGED svc /\ \E y \in Places \ {"sink"} : Move(s, b, y)
        /\ UNCHANGED call \/ CallUpsertWallets(Carrier(s, b), WalletsOf(TxsOf(b)))
    BY <1>9 DEF ParserTakes, Places
  <2>2. \A c \in Callers : c # Carrier(s, b) => call'[c] = call[c]
    BY <1>0, <2>1, WalletsCall
  <2>3. QED
    BY <1>0, <2>1, <2>2, PayloadHasCalled
<1>10. ASSUME NEW b \in Blocks, WalletsUpserted(s, b) PROVE HasCalled(s)'
  <2>1. UNCHANGED svc /\ Move(s, b, "txs") /\ "txs" \in Places /\ CallInsertTxs(Carrier(s, b), TxsOf(b))
    BY <1>10 DEF WalletsUpserted, Places
  <2>2. \A c \in Callers : c # Carrier(s, b) => call'[c] = call[c]
    BY <1>0, <2>1, TxsCall
  <2>3. QED
    BY <1>0, <2>1, <2>2, PayloadHasCalled
<1>11. ASSUME NEW b \in Blocks, SinkTakes(s, b) PROVE HasCalled(s)'
  <2>1. UNCHANGED svc /\ Move(s, b, "sink") /\ "sink" \in Places /\ CallUpsertBlocks(Carrier(s, b), b, "processed")
    BY <1>11 DEF SinkTakes, Places
  <2>2. /\ \A c \in Callers : c # Carrier(s, b) => call'[c] = call[c]
        /\ call'[Carrier(s, b)].kind = "blocks"
    BY <1>0, <2>1, BlocksCall DEF MarkSet
  <2>3. QED
    BY <1>0, <2>1, <2>2, PayloadHasCalled
<1>12. QED
  BY <1>2, <1>3, <1>4, <1>5, <1>6, <1>7, <1>8, <1>9, <1>10, <1>11 DEF Scanner

LEMMA UnderWayStep ==
  ASSUME CoreInv, UnderWay, [Next]_vars
  PROVE  UnderWay'
<1>0. /\ CallsOK /\ ServicesOK /\ PlacesOK /\ \A c \in Callers : Shaped(call[c]) /\ call[c] \in Records
      /\ \A c \in Clients : c \in Callers /\ c # Orphan
  BY TypeParts, ClientsAssumption DEF CoreInv, CallsOK, Callers
<1>1. ASSUME UNCHANGED <<svc, place>>,
             \A c \in Clients : call[c].kind # "none" => call'[c].kind = call[c].kind
      PROVE  UnderWay'
  BY <1>1, UnderWayKept
<1>2. ASSUME NEW c \in Callers, GraphCall(c), UNCHANGED scanVars PROVE UnderWay'
  <2>1. \A d \in Callers : call'[d].kind = call[d].kind
    BY <1>0, <1>2, GraphCallSteps DEF CoreInv, GraphStep, Moves
  <2>2. QED
    BY <1>0, <1>1, <1>2, <2>1 DEF scanVars
<1>3. ASSUME NEW c \in Clients, RPCFails(c), UNCHANGED scanVars PROVE UnderWay'
  <2>1. \/ call' = [call EXCEPT ![c].at = "err"]
        \/ call' = [call EXCEPT ![c].at = "err", ![Orphan] = call[c]]
    BY <1>3 DEF RPCFails
  <2>2. \A d \in Clients : call'[d].kind = call[d].kind
    BY <1>0, <2>1 DEF CallsOK, Records
  <2>3. QED
    BY <1>1, <1>3, <2>2 DEF scanVars
<1>4. CASE (OrphanEnds \/ LateRowStored \/ LateRowReplaced) /\ UNCHANGED scanVars
  <2>1. \A d \in Clients : call'[d] = call[d]
    BY <1>0, <1>4, CallEnded DEF OrphanEnds, LateRowStored, LateRowReplaced, Callers
  <2>2. QED
    BY <1>1, <1>4, <2>1 DEF scanVars
<1>5. CASE BlockInserter
  <2>0. UNCHANGED place /\ Inserter \in Callers /\ Inserter \in Services
    BY <1>5 DEF BlockInserter, Subscribes, SubscriptionFails, HeaderArrives, HeaderUpserted,
       InserterStops, Callers, Clients, Services
  <2>1. /\ \A c \in Callers : c # Inserter => call'[c] = call[c]
        /\ svc'[Inserter] \notin {"listing", "scan"}
        /\ svc'[Inserter] = "upsert" => call'[Inserter].kind = "blocks"
        /\ \A v \in Services : v # Inserter => svc'[v] = svc[v]
    <3>1. ASSUME NEW b \in Blocks, HeaderArrives(b)
          PROVE  /\ \A c \in Callers : c # Inserter => call'[c] = call[c]
                 /\ svc'[Inserter] = "upsert" /\ call'[Inserter].kind = "blocks"
                 /\ \A v \in Services : v # Inserter => svc'[v] = svc[v]
      <4>1. CallUpsertBlocks(Inserter, b, "new") /\ InserterGoes("upsert")
        BY <3>1 DEF HeaderArrives
      <4>2. QED
        BY <1>0, <2>0, <4>1, BlocksCall DEF MarkSet, InserterGoes, ServicesOK
    <3>2. CASE HeaderUpserted
      <4>1. EndCall(Inserter) /\ (InserterGoes("listen") \/ InserterGoes("failed"))
        BY <3>2 DEF HeaderUpserted
      <4>2. QED
        BY <1>0, <2>0, <4>1, CallEnded DEF InserterGoes, ServicesOK
    <3>3. CASE Subscribes \/ SubscriptionFails \/ InserterStops
      <4>1. UNCHANGED call /\ \E to \in {"listen", "failed", "returned"} : InserterGoes(to)
        BY <3>3 DEF Subscribes, SubscriptionFails, InserterStops, Still
      <4>2. QED
        BY <1>0, <2>0, <4>1 DEF InserterGoes, ServicesOK
    <3>4. QED
      BY <1>5, <3>1, <3>2, <3>3 DEF BlockInserter
  <2>2. ASSUME NEW s \in Scanners PROVE HasCalled(s)'
    <3>1. svc'[s] = svc[s]
      BY <2>1, Constants DEF Services
    <3>2. call'[Lister(s)] = call[Lister(s)] /\ \A b \in Blocks : call'[Carrier(s, b)] = call[Carrier(s, b)]
      BY <2>1, DifferentThreads
    <3>3. QED
      BY <2>0, <3>1, <3>2 DEF UnderWay, HasCalled
  <2>3. QED
    BY <2>1, <2>2 DEF UnderWay
<1>6. CASE Process
  <2>1. ASSUME NEW V, Restarted(V)
        PROVE  /\ \A v \in Services : svc'[v] = svc[v] \/ svc'[v] = "idle"
               /\ \A s \in Scanners, b \in Blocks : place'[s][b] = "sink" => place[s][b] = "sink"
    BY <2>1 DEF Restarted, Nowhere
  <2>2. CASE GraphProcessEnds /\ dep.remote
    <3>1. /\ UNCHANGED <<svc, place>>
          /\ call' = [c \in Callers |-> IF c = Orphan \/ call[c].at = "idle" THEN NoCall
                                        ELSE [call[c] EXCEPT !.at = "err"]]
      BY <2>2 DEF GraphProcessEnds
    <3>2. \A c \in Callers : call[c].kind # "none" => call[c].at # "idle"
      BY <1>0, StepsOfKinds DEF Shaped, Records, Kinds
    <3>3. \A c \in Clients : call[c].kind # "none" => call'[c].kind = call[c].kind
      BY <1>0, <3>1, <3>2 DEF Records
    <3>4. QED
      BY <1>1, <3>1, <3>3
  <2>3. CASE GraphProcessEnds /\ ~dep.remote
    <3>1. Restarted(Deployed)
      BY <2>3 DEF GraphProcessEnds
    <3>2. svc'[Inserter] = "idle"
      BY <3>1 DEF Restarted, Deployed, Services
    <3>3. ASSUME NEW s \in Scanners PROVE svc'[s] = "idle" /\ \A b \in Blocks : place'[s][b] # "sink"
      <4>1. CASE s \in Deployed
        BY <3>1, <4>1 DEF Restarted, Nowhere, Services
      <4>2. CASE s \notin Deployed
        <5>1. svc[s] = "idle" /\ \A b \in Blocks : place[s][b] = "none"
          BY <4>2 DEF CoreInv, ServiceBooks, BooksOf, Deployed
        <5>2. QED
          BY <3>1, <4>2, <5>1 DEF Restarted, Services
      <4>3. QED
        BY <4>1, <4>2
    <3>4. QED
      BY <3>2, <3>3 DEF UnderWay, HasCalled
  <2>4. ASSUME NEW v \in Services, ServiceFails(v) PROVE UnderWay'
    <3>1. UNCHANGED <<place, call>> /\ \A u \in Services : svc'[u] = svc[u] \/ svc'[u] = "returned"
      BY <1>0, <2>4 DEF ServiceFails, ServicesOK
    <3>2. QED
      BY <3>1, UnderWayKept
  <2>5. ASSUME NEW v \in Services, Signal(v) PROVE UnderWay'
    BY <1>1, <2>5 DEF Signal
  <2>6. ASSUME NEW v \in Services, ProcessEnds(v) PROVE UnderWay'
    <3>1. Restarted(Together(v)) /\ UNCHANGED call
      BY <2>6 DEF ProcessEnds
    <3>2. QED
      BY <2>1, <3>1, UnderWayKept
  <2>7. QED
    BY <1>6, <2>2, <2>3, <2>4, <2>5, <2>6 DEF Process
<1>7. ASSUME NEW s \in Scanners, Scanner(s) PROVE UnderWay'
  <2>1. Away(s) /\ HasCalled(s)'
    BY <1>7, ScannerSteps, ScannerHasCalled DEF CoreInv, PassStep, UnderWay
  <2>2. svc'[Inserter] = svc[Inserter] /\ call'[Inserter] = call[Inserter]
    BY <2>1, NotThreads, DifferentThreads DEF Away
  <2>3. ASSUME NEW d \in Scanners, d # s PROVE HasCalled(d)'
    <3>1. /\ place'[d] = place[d] /\ svc'[d] = svc[d] /\ call'[Lister(d)] = call[Lister(d)]
          /\ \A b \in Blocks : call'[Carrier(d, b)] = call[Carrier(d, b)]
      BY <2>1, <2>3, Threads, DifferentThreads DEF Away
    <3>2. QED
      BY <3>1 DEF UnderWay, HasCalled
  <2>4. QED
    BY <2>1, <2>2, <2>3 DEF UnderWay
<1>8. CASE UNCHANGED vars
  BY <1>1, <1>8 DEF vars, storeVars, scanVars
<1>9. QED
  BY <1>2, <1>3, <1>4, <1>5, <1>6, <1>7, <1>8 DEF Next

\* A call that was made has returned or is inside the graph.
LEMMA CalledOrBack ==
  ASSUME CoreInv, NEW c \in Callers, call[c].kind # "none"
  PROVE  call[c].at \in {"ok", "err"} \/ c \in InTheGraph
<1>1. call[c] \in Records /\ Shaped(call[c])
  BY TypeParts DEF CoreInv, CallsOK
<1>2. call[c].at # "idle"
  BY <1>1, StepsOfKinds DEF Shaped, Records, Kinds
<1>3. QED
  BY <1>2 DEF InTheGraph

\* In a cancelled pass the payloads leave, then the stages end.
LEMMA PassDrains ==
  ASSUME CoreInv, UnderWay, NEW s \in Scanners, svc[s] = "scan", ~ThreadGoesOn(s)
  PROVE  InTheGraph # {}
<1>1. /\ pipe[s].parsers \in Nat /\ pipe[s].errs \in Nat
      /\ pipe[s].source \in {"run", "end"} /\ pipe[s].dispatcher \in {"run", "drain", "end"}
      /\ pipe[s].sink \in {"run", "end"}
  BY TypeParts, ErrCapAssumption DEF CoreInv, PipesOK, Pipes
<1>2. /\ ~AllEnded(s) /\ ~(pipe[s].errs > 0) /\ pipe[s].source # "run" /\ pipe[s].dispatcher # "run"
      /\ ~(pipe[s].dispatcher = "drain" /\ TokensOut(s) = 0) /\ ~IdleParser(s)
      /\ ~(pipe[s].sink = "run" /\ ~Some(s, {"sink"}))
      /\ \A b \in Blocks : place[s][b] \notin {"fetch", "fetched", "parsed"}
  BY DEF ThreadGoesOn
<1>3. pipe[s].dispatcher = "end"
  <2>1. {b \in Blocks : place[s][b] \in {"fetch", "fetched"}} = {}
    BY <1>2
  <2>2. TokensOut(s) = 0
    BY <2>1, FS_EmptySet DEF TokensOut, Count
  <2>3. QED
    BY <1>1, <1>2, <2>2
<1>4. CASE \E b \in Blocks : place[s][b] \in {"wallets", "txs", "sink"}
  <2>1. PICK b \in Blocks : place[s][b] \in {"wallets", "txs", "sink"}
    BY <1>4
  <2>2. call[Carrier(s, b)].kind \in {"wallets", "txs", "blocks"} /\ Carrier(s, b) \in Callers
    BY <2>1, DifferentThreads DEF CoreInv, ServiceBooks, BooksOf, UnderWay, HasCalled
  <2>3. call[Carrier(s, b)].at \notin {"ok", "err"}
    BY <2>1 DEF ThreadGoesOn
  <2>4. QED
    BY <2>2, <2>3, CalledOrBack
<1>5. CASE \A b \in Blocks : place[s][b] \notin {"wallets", "txs", "sink"}
  <2>1. {b \in Blocks : place[s][b] \in Parsing} = {}
    BY <1>2, <1>5 DEF Parsing
  <2>2. Count(s, Parsing) = 0
    BY <2>1, FS_EmptySet DEF Count
  <2>3. pipe[s].parsers = 0 /\ pipe[s].errs = 0
    BY <1>1, <1>2, <2>2 DEF IdleParser
  <2>4. pipe[s].sink = "end"
    BY <1>1, <1>2, <1>5 DEF Some
  <2>5. AllEnded(s)
    BY <1>1, <1>2, <1>3, <2>3, <2>4 DEF AllEnded
  <2>6. QED
    BY <1>2, <2>5
<1>6. QED
  BY <1>4, <1>5

LEMMA EndingGoesOn ==
  ASSUME CoreInv, UnderWay
  PROVE  NoHang
<1>1. NoRing
  BY RingFree, TypeParts DEF CoreInv
<1>2. ASSUME NEW v \in Services, Ending(v), ~ServiceGoesOn(v) PROVE InTheGraph # {}
  <2>1. svc[v] \in {"listing", "scan", "upsert"}
    BY <1>2, TypeParts DEF CoreInv, ServicesOK, Ending, ServiceGoesOn
  <2>2. CASE svc[v] = "upsert"
    <3>1. v = Inserter /\ v \in Callers /\ call[v].kind = "blocks"
      BY <2>2 DEF Services, UnderWay, HasCalled, Callers, Clients
    <3>2. call[v].at \notin {"ok", "err"}
      BY <1>2, <2>2 DEF ServiceGoesOn
    <3>3. QED
      BY <3>1, <3>2, CalledOrBack
  <2>3. CASE svc[v] \in {"listing", "scan"}
    <3>1. v \in Scanners
      BY <2>3 DEF Services, UnderWay
    <3>2. CASE svc[v] = "listing"
      <4>1. call[Lister(v)].kind = "list" /\ Lister(v) \in Callers
        BY <3>1, <3>2, DifferentThreads DEF UnderWay, HasCalled
      <4>2. call[Lister(v)].at \notin {"ok", "err"}
        BY <1>2, <3>2 DEF ServiceGoesOn
      <4>3. QED
        BY <4>1, <4>2, CalledOrBack
    <3>3. CASE svc[v] = "scan"
      BY <1>2, <3>1, <3>3, PassDrains DEF ServiceGoesOn
    <3>4. QED
      BY <2>3, <3>2, <3>3
  <2>4. QED
    BY <2>1, <2>2, <2>3
<1>3. QED
  BY <1>1, <1>2 DEF NoHang, NoRing

\* Whatever is cancelled, fails or breaks off, a service that is to end is never stuck:
\* it goes on by itself or waits for a call that is not blocked, for any number of
\* blocks, fetchers, parsers and clients.
THEOREM ShutdownsGoOn == Spec => []NoHang
<1>1. Init => UnderWay
  BY DEF Init, StoreInit, ScanInit, UnderWay, HasCalled, Nowhere, Services
<1>2. IngestInv /\ UnderWay /\ [Next]_vars => UnderWay'
  BY UnderWayStep DEF IngestInv, CoreInv
<1>3. IngestInv /\ UnderWay => NoHang
  BY EndingGoesOn DEF IngestInv, CoreInv
<1>4. QED
  BY <1>1, <1>2, <1>3, IngestInvariant, PTL DEF Spec
=============================================================================
