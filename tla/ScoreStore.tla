----------------------------- MODULE ScoreStore -----------------------------
(***************************************************************************)
(* The score store, in memory or in CockroachDB: one value per wallet (and *)
(* scorer; there is one, balance_eth).  In memory a call is atomic.  In    *)
(* CockroachDB six inserters store batches, here single rows, and go on    *)
(* after an error; a search counts and reads in two statements.            *)
(***************************************************************************)
EXTENDS GravitasDeployment

CONSTANTS
  NoScore,
  ResultsPerPage

ASSUME PageAssumption == ResultsPerPage \in Nat
ASSUME NoScoreAssumption == NoScore \notin [pass : Nat, value : Int]

VARIABLES
  scorer,      \* the scorer is registered
  score,       \* the table
  toStore,     \* rows of each node's call that are not stored yet
  lateScores,  \* rows of calls that returned an error, on their way
  disturbed,   \* a call returned nil without its rows, a late row was stored, or all were lost
  search       \* a search of the frontend

scoreVars == <<scorer, score, toStore, lateScores, disturbed, search>>

Scored == {w \in Wallets : score[w] # NoScore}

NoSearch == [at |-> "idle", total |-> 0, rows |-> 0, shown |-> 0]

ScoreInit ==
  /\ scorer = dep.scorer
  /\ score = [w \in Wallets |-> NoScore]
  /\ toStore = [n \in Nodes |-> {}]
  /\ lateScores = {}
  /\ disturbed = FALSE
  /\ search = NoSearch

\* No service calls it: it is done by hand, once.
UpsertScorer ==
  /\ ~scorer
  /\ scorer' = TRUE
  /\ UNCHANGED <<score, toStore, lateScores, disturbed, search>>

Cdb == dep.store = "cdb"

\* A batch of rows, each a wallet and its value.
BulkUpsertScores(n, r) ==
  /\ Cdb /\ scorer /\ r \in toStore[n]
  /\ score' = [score EXCEPT ![r.wallet] = r.value]
  /\ toStore' = [toStore EXCEPT ![n] = @ \ {r}]
  /\ UNCHANGED <<scorer, lateScores, disturbed, search>>

LateScoreStored(r) ==
  /\ r \in lateScores
  /\ score' = [score EXCEPT ![r.wallet] = r.value]
  /\ lateScores' = lateScores \ {r}
  /\ disturbed' = TRUE
  /\ UNCHANGED <<scorer, toStore, search>>

MemoryUpsertScores(n) ==
  /\ ~Cdb /\ scorer /\ toStore[n] # {}
  /\ score' = [w \in Wallets |->
       IF \E r \in toStore[n] : r.wallet = w
         THEN (CHOOSE r \in toStore[n] : r.wallet = w).value ELSE score[w]]
  /\ toStore' = [toStore EXCEPT ![n] = {}]
  /\ UNCHANGED <<scorer, lateScores, disturbed, search>>

\* No row is stored without its scorer.
UnknownScorer(n) ==
  /\ ~scorer /\ toStore[n] # {}
  /\ toStore' = [toStore EXCEPT ![n] = {}]
  /\ UNCHANGED <<scorer, score, lateScores, disturbed, search>>

\* The call returns an error; part of the other batches is stored all the same.  A call
\* to a remote store may also break: then all or none of it is done, here row by row too.
UpsertScoresFails(n) ==
  /\ Cdb \/ ~Monolith
  /\ scorer /\ toStore[n] # {}
  /\ \E L \in SUBSET toStore[n] :
       (Cdb \/ L \in {{}, toStore[n]}) /\ lateScores' = lateScores \cup L
  /\ toStore' = [toStore EXCEPT ![n] = {}]
  /\ UNCHANGED <<scorer, score, disturbed, search>>

\* The error stays in errCh, because the inserters' ends are counted first.
UpsertScoresLosesError(n) ==
  /\ Cdb /\ scorer /\ toStore[n] # {}
  /\ toStore' = [toStore EXCEPT ![n] = {}]
  /\ disturbed' = TRUE
  /\ UNCHANGED <<scorer, score, lateScores, search>>

\* A store in memory starts again, in a process of its own: it has neither scores nor scorer.
StoreRestarts ==
  /\ ~Cdb /\ ~Monolith
  /\ scorer' = FALSE /\ score' = [w \in Wallets |-> NoScore]
  /\ lateScores' = {} /\ disturbed' = TRUE
  /\ search' = [search EXCEPT !.at = "shown", !.shown = 0]
  /\ UNCHANGED toStore

-----------------------------------------------------------------------------
\* The number of rows, then the rows; the page does not look at the offset.
\* Bound: one search, in the last pass.
SearchBegins ==
  /\ search.at = "idle" /\ pass = dep.passes
  /\ UNCHANGED <<scorer, score, toStore, lateScores, disturbed>>

SearchCounts ==
  /\ Cdb /\ SearchBegins
  /\ search' = [NoSearch EXCEPT !.at = "counted", !.total = Cardinality(Scored)]

\* Mutant: the rows are those that were there before they were counted.
SearchReadsBefore ==
  /\ Cdb /\ search.at = "counted"
  /\ search' = [search EXCEPT !.at = "read", !.rows = search.total, !.total = Cardinality(Scored)]
  /\ UNCHANGED <<scorer, score, toStore, lateScores, disturbed>>

SearchReads ==
  /\ Cdb /\ search.at = "counted"
  /\ search' = [search EXCEPT !.at = "read", !.rows = Cardinality(Scored)]
  /\ UNCHANGED <<scorer, score, toStore, lateScores, disturbed>>

MemorySearch ==
  /\ ~Cdb /\ SearchBegins
  /\ search' = [NoSearch EXCEPT !.at = "read", !.total = Cardinality(Scored),
                                !.rows = Cardinality(Scored)]

\* The frontend takes a page of the rows and shows the total with it.
RunQuery ==
  /\ search.at = "read"
  /\ search' = [search EXCEPT !.at = "shown",
       !.shown = IF search.rows < ResultsPerPage THEN search.rows ELSE ResultsPerPage]
  /\ UNCHANGED <<scorer, score, toStore, lateScores, disturbed>>

\* The result set breaks off in the page; the iterator of CockroachDB does not say so.
ResultsBreakOff ==
  /\ Cdb /\ search.at = "read"
  /\ \E k \in 0 .. search.rows - 1 :
       k < ResultsPerPage /\ search' = [search EXCEPT !.at = "shown", !.shown = k]
  /\ UNCHANGED <<scorer, score, toStore, lateScores, disturbed>>

Searches == SearchCounts \/ SearchReads \/ MemorySearch \/ RunQuery \/ ResultsBreakOff
=============================================================================
