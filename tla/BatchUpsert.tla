---------------------------- MODULE BatchUpsert ----------------------------
(***************************************************************************)
(* One call that writes many rows: batchUpsert of the CockroachDB stores,  *)
(* and, built the same way, UpsertScores and WorkerNode.persistScores.     *)
(* The caller feeds batches to inserter goroutines through sliceCh, then   *)
(* collects one doneCh entry of each, or the first error it sees.          *)
(***************************************************************************)
EXTENDS Integers, FiniteSets

CONSTANTS
  Inserters,    \* the numWorkers inserter goroutines
  NumBatches,   \* batches the rows are cut into
  MaxFailures   \* statements that fail

ASSUME InsertersAssumption == IsFiniteSet(Inserters) /\ Inserters # {}
ASSUME BatchesAssumption == NumBatches \in Nat /\ MaxFailures \in Nat

Batches == 1 .. NumBatches
NoBatch == 0

VARIABLES
  caller,   \* where the caller is
  next,     \* the next batch to feed
  sliceCh,  \* the batch the channel holds, or NoBatch
  closed,   \* "closed" once sliceCh is
  ipc,      \* where each inserter is
  item,     \* the batch each inserter works on
  errCh,    \* errors in errCh, at most one
  doneCh,   \* entries in doneCh
  got,      \* entries of doneCh that the caller took
  result,   \* what the call returned
  stored,   \* batches that are in the database
  failed    \* batches whose statement returned an error

vars == <<caller, next, sliceCh, closed, ipc, item, errCh, doneCh, got, result, stored, failed>>

Init ==
  /\ caller = "feed" /\ next = 1
  /\ sliceCh = NoBatch /\ closed = "open"
  /\ ipc = [i \in Inserters |-> "take"]
  /\ item = [i \in Inserters |-> NoBatch]
  /\ errCh = 0 /\ doneCh = 0 /\ got = 0
  /\ result = "none"
  /\ stored = {} /\ failed = {}

Returns(r) == caller' = "returned" /\ result' = r

-----------------------------------------------------------------------------
(***************************************************************************)
(* The caller.                                                             *)
(***************************************************************************)

\* Mutant: one batch too many.
FeedsPastEnd ==
  /\ caller = "feed" /\ next <= NumBatches + 1
  /\ sliceCh = NoBatch
  /\ sliceCh' = next
  /\ next' = next + 1
  /\ UNCHANGED <<caller, closed, ipc, item, errCh, doneCh, got, result, stored, failed>>

Feeds ==
  /\ caller = "feed" /\ next <= NumBatches
  /\ sliceCh = NoBatch
  /\ sliceCh' = next
  /\ next' = next + 1
  /\ UNCHANGED <<caller, closed, ipc, item, errCh, doneCh, got, result, stored, failed>>

\* Mutant: the caller does not look at errCh while it feeds.
FeedIgnoresError ==
  /\ caller = "feed" /\ next > NumBatches
  /\ errCh = 1
  /\ errCh' = 0
  /\ Returns("err")
  /\ UNCHANGED <<next, sliceCh, closed, ipc, item, doneCh, got, stored, failed>>

FeedSeesError ==
  /\ caller = "feed" /\ next <= NumBatches
  /\ errCh = 1
  /\ errCh' = 0
  /\ Returns("err")
  /\ UNCHANGED <<next, sliceCh, closed, ipc, item, doneCh, got, stored, failed>>

ClosesSliceCh ==
  /\ caller = "feed" /\ next > NumBatches
  /\ closed' = "closed"
  /\ caller' = "collect"
  /\ UNCHANGED <<next, sliceCh, ipc, item, errCh, doneCh, got, result, stored, failed>>

CollectsDone ==
  /\ caller = "collect" /\ got < Cardinality(Inserters)
  /\ doneCh > 0
  /\ doneCh' = doneCh - 1
  /\ got' = got + 1
  /\ UNCHANGED <<caller, next, sliceCh, closed, ipc, item, errCh, result, stored, failed>>

CollectsError ==
  /\ caller = "collect" /\ got < Cardinality(Inserters)
  /\ errCh = 1
  /\ errCh' = 0
  /\ Returns("err")
  /\ UNCHANGED <<next, sliceCh, closed, ipc, item, doneCh, got, stored, failed>>

\* Mutant: one inserter too few is waited for.
ReturnsNilEarly ==
  /\ caller = "collect" /\ got >= Cardinality(Inserters) - 1
  /\ Returns("nil")
  /\ UNCHANGED <<next, sliceCh, closed, ipc, item, errCh, doneCh, got, stored, failed>>

ReturnsNil ==
  /\ caller = "collect" /\ got = Cardinality(Inserters)
  /\ Returns("nil")
  /\ UNCHANGED <<next, sliceCh, closed, ipc, item, errCh, doneCh, got, stored, failed>>

-----------------------------------------------------------------------------
(***************************************************************************)
(* Inserter i.                                                             *)
(***************************************************************************)

Takes(i) ==
  /\ ipc[i] = "take"
  /\ sliceCh # NoBatch
  /\ item' = [item EXCEPT ![i] = sliceCh]
  /\ sliceCh' = NoBatch
  /\ ipc' = [ipc EXCEPT ![i] = "insert"]
  /\ UNCHANGED <<caller, next, closed, errCh, doneCh, got, result, stored, failed>>

\* Mutant: a closed channel is not drained.
SeesClosedEarly(i) ==
  /\ ipc[i] = "take"
  /\ closed = "closed"
  /\ ipc' = [ipc EXCEPT ![i] = "leave"]
  /\ UNCHANGED <<caller, next, sliceCh, closed, item, errCh, doneCh, got, result, stored, failed>>

SeesClosed(i) ==
  /\ ipc[i] = "take"
  /\ closed = "closed" /\ sliceCh = NoBatch
  /\ ipc' = [ipc EXCEPT ![i] = "leave"]
  /\ UNCHANGED <<caller, next, sliceCh, closed, item, errCh, doneCh, got, result, stored, failed>>

Upserts(i) ==
  /\ ipc[i] = "insert"
  /\ stored' = stored \cup {item[i]}
  /\ item' = [item EXCEPT ![i] = NoBatch]
  /\ ipc' = [ipc EXCEPT ![i] = "take"]
  /\ UNCHANGED <<caller, next, sliceCh, closed, errCh, doneCh, got, result, failed>>

\* The statement returns an error: it was rolled back, or the connection broke
\* after it was committed.
UpsertFails(i) ==
  /\ ipc[i] = "insert"
  /\ Cardinality(failed) < MaxFailures
  /\ failed' = failed \cup {item[i]}
  /\ stored' \in {stored, stored \cup {item[i]}}
  /\ ipc' = [ipc EXCEPT ![i] = "emit"]
  /\ UNCHANGED <<caller, next, sliceCh, closed, item, errCh, doneCh, got, result>>

\* Mutant: the inserter blocks while errCh is full.
EmitsErrorBlocking(i) ==
  /\ ipc[i] = "emit"
  /\ errCh = 0
  /\ errCh' = 1
  /\ ipc' = [ipc EXCEPT ![i] = "leave"]
  /\ UNCHANGED <<caller, next, sliceCh, closed, item, doneCh, got, result, stored, failed>>

\* maybeEmitError: with errCh full the error is dropped.
EmitsError(i) ==
  /\ ipc[i] = "emit"
  /\ errCh' = 1
  /\ ipc' = [ipc EXCEPT ![i] = "leave"]
  /\ UNCHANGED <<caller, next, sliceCh, closed, item, doneCh, got, result, stored, failed>>

\* The deferred send, after the error if there was one.
Leaves(i) ==
  /\ ipc[i] = "leave"
  /\ doneCh' = doneCh + 1
  /\ ipc' = [ipc EXCEPT ![i] = "end"]
  /\ UNCHANGED <<caller, next, sliceCh, closed, item, errCh, got, result, stored, failed>>

Caller == Feeds \/ FeedSeesError \/ ClosesSliceCh \/ CollectsDone \/ CollectsError \/ ReturnsNil
Inserter(i) ==
  Takes(i) \/ SeesClosed(i) \/ Upserts(i) \/ UpsertFails(i) \/ EmitsError(i) \/ Leaves(i)

Next == Caller \/ \E i \in Inserters : Inserter(i)

Spec == Init /\ [][Next]_vars

\* Every goroutine that can go on does; a statement comes back.
FairSpec ==
  /\ Spec
  /\ WF_vars(Caller)
  /\ \A i \in Inserters : WF_vars(Inserter(i))

-----------------------------------------------------------------------------
TypeOK ==
  /\ caller \in {"feed", "collect", "returned"}
  /\ next \in 1 .. NumBatches + 1
  /\ sliceCh \in Batches \cup {NoBatch} /\ closed \in {"open", "closed"}
  /\ ipc \in [Inserters -> {"take", "insert", "emit", "leave", "end"}]
  /\ item \in [Inserters -> Batches \cup {NoBatch}]
  /\ errCh \in {0, 1}
  /\ doneCh \in 0 .. Cardinality(Inserters) /\ got \in 0 .. Cardinality(Inserters)
  /\ result \in {"none", "nil", "err"}
  /\ stored \in SUBSET Batches /\ failed \in SUBSET Batches

\* After a nil result nothing is written any more: the caller may reset the
\* slice whose batches the inserters share (cdb.go:247).
NothingInFlight == result = "nil" => \A i \in Inserters : ipc[i] \notin {"insert", "emit"}

UC == INSTANCE UpsertContract WITH Rows <- Batches

\* Goroutines and channels together do what one bulk statement would: one result,
\* an error only with a cause, nothing written after nil, and without a failed
\* statement nil only when all is written (cdb.go:275-364).
FulfilsContract == UC!Spec

\* The caller returns, even when every inserter gave up.
CallerReturns == <>(caller = "returned")

\* Once sliceCh is closed no inserter goroutine is left behind.
InsertersEnd == (closed = "closed") ~> (\A i \in Inserters : ipc[i] = "end")

\* nil means stored: what a processed block relies on (cdb.go:68-70).
NilMeansStored == result = "nil" => stored = Batches
=============================================================================
