------------------------- MODULE BatchUpsertProofs -------------------------
(***************************************************************************)
(* The safety of one call that writes many rows, for any number of         *)
(* inserters and batches and any statements that fail.                     *)
(***************************************************************************)
EXTENDS BatchUpsert, FiniteSetTheorems, TLAPS

Ended == {i \in Inserters : ipc[i] = "end"}
AfterLoop == {"leave", "end"}

\* An error is only returned when a statement failed, and nil without any
\* failure only once every batch is stored.
FaithfulWithoutFailure ==
  failed = {} => /\ result # "err"
                 /\ result = "nil" => stored = Batches

\* Until the call returns one of its goroutines can go on: the caller can feed, stop
\* feeding or collect, or an inserter has work, whichever of them gave up and whatever
\* is in the channels (cdb.go:287-361).
CallGoesOn ==
  caller # "returned" =>
    \/ caller = "feed" /\ (next > NumBatches \/ sliceCh = NoBatch \/ errCh = 1)
    \/ caller = "collect" /\ (got = Cardinality(Inserters) \/ doneCh > 0 \/ errCh = 1)
    \/ \E i \in Inserters :
         \/ ipc[i] \in {"insert", "emit", "leave"}
         \/ ipc[i] = "take" /\ (sliceCh # NoBatch \/ closed = "closed")

\* The types, and what the counters count: an inserter that ended has left one
\* entry in doneCh, which the caller took or did not take yet.
Counted ==
  /\ doneCh \in Nat /\ got \in Nat
  /\ got + doneCh = Cardinality(Ended)
  /\ \A i \in Inserters : ipc[i] = "insert" => item[i] # NoBatch

\* How far the caller is.
CallerBooks ==
  /\ caller = "feed" => closed = "open"
  /\ caller = "collect" => closed = "closed" /\ next > NumBatches
  /\ result = "none" <=> caller # "returned"
  /\ result = "nil" => got = Cardinality(Inserters) /\ next > NumBatches

\* Without a failure no inserter leaves before the last batch was taken, and a
\* batch that was fed is in the channel, with an inserter or in the database.
CleanBooks ==
  failed = {} =>
    /\ errCh = 0 /\ result # "err"
    /\ \A i \in Inserters : ipc[i] # "emit"
    /\ \A i \in Inserters : ipc[i] \in AfterLoop => closed = "closed" /\ sliceCh = NoBatch
    /\ closed = "closed" => next > NumBatches
    /\ \A b \in 1 .. next - 1 :
         b \in stored \/ b = sliceCh \/ \E i \in Inserters : ipc[i] = "insert" /\ item[i] = b

\* While the caller feeds, sliceCh is open: an inserter that left has left an error.
FeedBooks ==
  caller = "feed" => \A i \in Inserters : ipc[i] \in AfterLoop => errCh = 1

UpsertInv == TypeOK /\ Counted /\ CallerBooks /\ CleanBooks /\ FeedBooks

-----------------------------------------------------------------------------
LEMMA EndedCounts ==
  ASSUME TypeOK
  PROVE  /\ IsFiniteSet(Ended) /\ Cardinality(Ended) \in Nat
         /\ Cardinality(Inserters) \in Nat /\ Cardinality(Inserters) > 0
         /\ Cardinality(Ended) <= Cardinality(Inserters)
         /\ Cardinality(Ended) = Cardinality(Inserters) => Ended = Inserters
<1>1. Ended \subseteq Inserters /\ IsFiniteSet(Ended)
  BY InsertersAssumption, FS_Subset DEF Ended
<1>2. Cardinality(Ended) \in Nat /\ Cardinality(Inserters) \in Nat
  BY <1>1, InsertersAssumption, FS_CardinalityType
<1>3. Cardinality(Inserters) # 0
  BY InsertersAssumption, FS_EmptySet
<1>4. /\ Cardinality(Ended) <= Cardinality(Inserters)
      /\ Cardinality(Ended) = Cardinality(Inserters) => Ended = Inserters
  BY <1>1, InsertersAssumption, FS_Subset
<1>5. QED
  BY <1>1, <1>2, <1>3, <1>4

LEMMA UpsertInit == Init => UpsertInv
<1> SUFFICES ASSUME Init PROVE UpsertInv
  OBVIOUS
<1>1. Ended = {} /\ Cardinality({}) = 0
  BY FS_EmptySet DEF Init, Ended
<1>2. TypeOK
  <2>1. Cardinality(Inserters) \in Nat
    BY InsertersAssumption, FS_CardinalityType
  <2>2. QED
    BY <2>1, BatchesAssumption DEF Init, TypeOK, Batches, NoBatch
<1>3. QED
  BY <1>1, <1>2 DEF Init, UpsertInv, Counted, CallerBooks, CleanBooks, FeedBooks, AfterLoop

\* A step that leaves the inserters' places alone keeps the count of those that ended.
LEMMA EndedKept == ipc' = ipc => Ended' = Ended
  BY DEF Ended

\* The caller's steps.
LEMMA UpsertCaller ==
  ASSUME UpsertInv, Caller
  PROVE  UpsertInv'
<1> USE DEF UpsertInv
<1>1. Cardinality(Inserters) \in Nat /\ Ended' = Ended /\ Cardinality(Ended) <= Cardinality(Inserters)
  BY EndedCounts, EndedKept DEF Caller, Feeds, FeedSeesError, ClosesSliceCh, CollectsDone,
     CollectsError, ReturnsNil
<1>2. TypeOK'
  <2>1. CASE Feeds
    BY <2>1, BatchesAssumption DEF TypeOK, Feeds, Batches
  <2>2. CASE FeedSeesError \/ CollectsError \/ ClosesSliceCh \/ ReturnsNil
    BY <2>2 DEF TypeOK, FeedSeesError, CollectsError, ClosesSliceCh, ReturnsNil, Returns
  <2>3. CASE CollectsDone
    BY <1>1, <2>3 DEF TypeOK, CollectsDone
  <2>4. QED
    BY <2>1, <2>2, <2>3 DEF Caller
<1>3. Counted'
  BY <1>1 DEF TypeOK, Counted, Caller, Feeds, FeedSeesError, ClosesSliceCh,
     CollectsDone, CollectsError, ReturnsNil, Returns
<1>4. CallerBooks'
  BY <1>1 DEF TypeOK, CallerBooks, Caller, Feeds, FeedSeesError, ClosesSliceCh,
     CollectsDone, CollectsError, ReturnsNil, Returns
<1>5. CleanBooks'
  <2>1. CASE Feeds
    BY <2>1, BatchesAssumption DEF TypeOK, CallerBooks, CleanBooks, Feeds, AfterLoop, NoBatch
  <2>2. CASE FeedSeesError \/ CollectsError
    BY <2>2 DEF CleanBooks, FeedSeesError, CollectsError
  <2>3. CASE ClosesSliceCh \/ CollectsDone \/ ReturnsNil
    BY <2>3, BatchesAssumption DEF TypeOK, CallerBooks, CleanBooks, ClosesSliceCh, CollectsDone, ReturnsNil, Returns, AfterLoop
  <2>4. QED
    BY <2>1, <2>2, <2>3 DEF Caller
<1>6. FeedBooks'
  BY DEF FeedBooks, Caller, Feeds, FeedSeesError, ClosesSliceCh, CollectsDone, CollectsError,
     ReturnsNil, Returns
<1>7. QED
  BY <1>2, <1>3, <1>4, <1>5, <1>6

LEMMA UpsertInserter ==
  ASSUME UpsertInv, NEW i \in Inserters, Inserter(i)
  PROVE  UpsertInv'
<1> USE DEF UpsertInv
<1> USE BatchesAssumption
<1>0. CallerBooks' /\ FeedBooks'
  BY DEF TypeOK, CallerBooks, FeedBooks, Inserter, Takes, SeesClosed, Upserts, UpsertFails,
     EmitsError, Leaves, AfterLoop
<1>1. CASE Leaves(i)
  <2>1. Ended' = Ended \cup {i} /\ i \notin Ended
    BY <1>1 DEF Leaves, Ended, TypeOK
  <2>2. Cardinality(Ended') = Cardinality(Ended) + 1
    BY <2>1, EndedCounts, FS_AddElement
  <2>3. TypeOK'
    <3>1. /\ ipc' \in [Inserters -> {"take", "insert", "emit", "leave", "end"}]
          /\ doneCh' \in Nat /\ got' \in Nat /\ got' + doneCh' = Cardinality(Ended')
      BY <1>1, <2>2, EndedCounts DEF Leaves, TypeOK, Counted
    <3>2. Cardinality(Ended') <= Cardinality(Inserters) /\ Cardinality(Inserters) \in Nat
      BY <2>1, InsertersAssumption, FS_Subset, FS_CardinalityType DEF Ended
    <3>3. QED
      BY <1>1, <3>1, <3>2 DEF Leaves, TypeOK
  <2>4. Counted' /\ CleanBooks'
    BY <1>1, <2>2, EndedCounts DEF Leaves, TypeOK, Counted, CleanBooks, AfterLoop
  <2>5. QED
    BY <1>0, <2>3, <2>4
<1>2. CASE Takes(i) \/ SeesClosed(i) \/ Upserts(i) \/ UpsertFails(i) \/ EmitsError(i)
  <2>1. Ended' = Ended
    BY <1>2 DEF Takes, SeesClosed, Upserts, UpsertFails, EmitsError, Ended, TypeOK
  <2>2. TypeOK'
    BY <1>2 DEF Takes, SeesClosed, Upserts, UpsertFails, EmitsError, TypeOK, Counted, Batches, NoBatch
  <2>3. Counted'
    BY <1>2, <2>1 DEF Takes, SeesClosed, Upserts, UpsertFails, EmitsError, TypeOK, Counted, NoBatch
  <2>4. CleanBooks'
    <3>1. CASE Takes(i)
      BY <1>2, <3>1 DEF Takes, TypeOK, CleanBooks, AfterLoop, NoBatch
    <3>2. CASE SeesClosed(i)
      BY <1>2, <3>2 DEF SeesClosed, TypeOK, CleanBooks, AfterLoop
    <3>3. CASE Upserts(i)
      BY <1>2, <3>3 DEF Upserts, TypeOK, CleanBooks, AfterLoop
    <3>4. CASE UpsertFails(i) \/ EmitsError(i)
      BY <1>2, <3>4 DEF UpsertFails, EmitsError, TypeOK, CleanBooks
    <3>5. QED
      BY <1>2, <3>1, <3>2, <3>3, <3>4
  <2>5. QED
    BY <1>0, <2>2, <2>3, <2>4
<1>3. QED
  BY <1>1, <1>2 DEF Inserter

\* The invariant is inductive.
THEOREM UpsertInvariant == Spec => []UpsertInv
<1>1. Init => UpsertInv
  BY UpsertInit
<1>2. UpsertInv /\ [Next]_vars => UpsertInv'
  <2> SUFFICES ASSUME UpsertInv, [Next]_vars PROVE UpsertInv'
    OBVIOUS
  <2>1. CASE UNCHANGED vars
    BY <2>1 DEF vars, UpsertInv, TypeOK, Counted, Ended, CallerBooks, CleanBooks, FeedBooks
  <2>2. QED
    BY <2>1, UpsertCaller, UpsertInserter DEF Next
<1>3. QED
  BY <1>1, <1>2, PTL DEF Spec

\* Every variable keeps its type, and no channel or counter leaves its bounds.
THEOREM TypeCorrect == Spec => []TypeOK
<1>1. UpsertInv => TypeOK
  BY DEF UpsertInv
<1>2. QED
  BY <1>1, UpsertInvariant, PTL

\* The caller and the inserters never all wait: with the channel full and every
\* inserter gone there is an error to read, and until all have ended one goes on.
THEOREM NeverStuck == Spec => []CallGoesOn
<1>1. ASSUME UpsertInv, caller # "returned",
             \A i \in Inserters : /\ ipc[i] \in {"take", "end"}
                                  /\ ipc[i] = "take" => sliceCh = NoBatch /\ closed # "closed"
      PROVE  \/ caller = "feed" /\ (next > NumBatches \/ sliceCh = NoBatch \/ errCh = 1)
             \/ caller = "collect" /\ (got = Cardinality(Inserters) \/ doneCh > 0 \/ errCh = 1)
  <2>1. CASE caller = "feed"
    <3>1. PICK i \in Inserters : TRUE
      BY InsertersAssumption
    <3>2. CASE ipc[i] = "take"
      BY <1>1, <2>1, <3>2
    <3>3. CASE ipc[i] = "end"
      BY <1>1, <2>1, <3>3 DEF UpsertInv, FeedBooks, AfterLoop
    <3>4. QED
      BY <1>1, <3>2, <3>3
  <2>2. CASE caller = "collect"
    <3>1. \A i \in Inserters : ipc[i] = "end"
      BY <1>1, <2>2 DEF UpsertInv, CallerBooks
    <3>2. Ended = Inserters
      BY <3>1 DEF Ended
    <3>3. QED
      BY <1>1, <2>2, <3>2, EndedCounts DEF UpsertInv, Counted
  <2>3. QED
    BY <1>1, <2>1, <2>2 DEF UpsertInv, TypeOK
<1>2. UpsertInv => CallGoesOn
  <2>1. SUFFICES ASSUME UpsertInv, caller # "returned",
                        ~\E i \in Inserters :
                            \/ ipc[i] \in {"insert", "emit", "leave"}
                            \/ ipc[i] = "take" /\ (sliceCh # NoBatch \/ closed = "closed")
                 PROVE  \/ caller = "feed" /\ (next > NumBatches \/ sliceCh = NoBatch \/ errCh = 1)
                        \/ caller = "collect" /\ (got = Cardinality(Inserters) \/ doneCh > 0 \/ errCh = 1)
    BY DEF CallGoesOn
  <2>2. \A i \in Inserters : ipc[i] \in {"take", "insert", "emit", "leave", "end"}
    BY <2>1 DEF UpsertInv, TypeOK
  <2>3. QED
    BY <1>1, <2>1, <2>2
<1>3. QED
  BY <1>2, UpsertInvariant, PTL

-----------------------------------------------------------------------------
(***************************************************************************)
(* The contract, step by step.                                             *)
(***************************************************************************)

\* Until the call returned nil an inserter may be at work; with nil all ended.
LEMMA AllEnded ==
  ASSUME UpsertInv, got = Cardinality(Inserters)
  PROVE  \A i \in Inserters : ipc[i] = "end"
  BY EndedCounts DEF UpsertInv, Counted, Ended

LEMMA QuietAfterNil ==
  ASSUME UpsertInv
  PROVE  NothingInFlight
  BY AllEnded DEF UpsertInv, CallerBooks, NothingInFlight

\* Once every inserter ended and none failed, each batch is in the database.
LEMMA AllStored ==
  ASSUME UpsertInv, got = Cardinality(Inserters), next > NumBatches, failed = {}
  PROVE  stored = Batches
<1>1. \A i \in Inserters : ipc[i] = "end"
  BY AllEnded
<1>2. sliceCh = NoBatch /\ \A i \in Inserters : ipc[i] # "insert"
  BY <1>1, InsertersAssumption DEF UpsertInv, CleanBooks, AfterLoop
<1>3. \A b \in Batches : b \in stored
  BY <1>2, BatchesAssumption DEF UpsertInv, TypeOK, CleanBooks, Batches, NoBatch
<1>4. QED
  BY <1>3 DEF UpsertInv, TypeOK

LEMMA CallerFulfils ==
  ASSUME UpsertInv, Caller
  PROVE  [UC!Next]_(UC!vars)
<1>1. CASE Feeds \/ ClosesSliceCh \/ CollectsDone
  BY <1>1 DEF Feeds, ClosesSliceCh, CollectsDone, UC!vars
<1>2. CASE FeedSeesError \/ CollectsError
  <2>1. errCh = 1 /\ result = "none" /\ result' = "err" /\ UNCHANGED <<stored, failed>>
    BY <1>2 DEF FeedSeesError, CollectsError, Returns, UpsertInv, CallerBooks
  <2>2. failed # {}
    BY <2>1 DEF UpsertInv, CleanBooks
  <2>3. QED
    BY <2>1, <2>2 DEF UC!ReturnErr, UC!Next
<1>3. CASE ReturnsNil
  <2>1. /\ got = Cardinality(Inserters) /\ next > NumBatches
        /\ result = "none" /\ result' = "nil" /\ UNCHANGED <<stored, failed>>
    BY <1>3 DEF ReturnsNil, Returns, UpsertInv, CallerBooks
  <2>2. failed # {} \/ stored = Batches
    BY <2>1, AllStored
  <2>3. QED
    BY <2>1, <2>2 DEF UC!ReturnNil, UC!Next
<1>4. QED
  BY <1>1, <1>2, <1>3 DEF Caller

LEMMA InserterFulfils ==
  ASSUME UpsertInv, NEW i \in Inserters, Inserter(i)
  PROVE  [UC!Next]_(UC!vars)
<1>1. CASE Takes(i) \/ SeesClosed(i) \/ EmitsError(i) \/ Leaves(i)
  BY <1>1 DEF Takes, SeesClosed, EmitsError, Leaves, UC!vars
<1>2. ASSUME ipc[i] = "insert" PROVE result # "nil" /\ item[i] \in Batches
  BY <1>2, QuietAfterNil DEF NothingInFlight, UpsertInv, TypeOK, Counted
<1>3. CASE Upserts(i)
  BY <1>2, <1>3 DEF Upserts, UC!Store, UC!Next
<1>4. CASE UpsertFails(i)
  BY <1>2, <1>4 DEF UpsertFails, UC!StoreFails, UC!Next
<1>5. QED
  BY <1>1, <1>3, <1>4 DEF Inserter

\* A call of batchUpsert does what UpsertContract says: every step of the caller
\* and of the inserters writes a row, returns a result that the contract allows, or
\* is not visible.
THEOREM ContractFulfilled == Spec => FulfilsContract
<1>1. Init => UC!Init
  BY DEF Init, UC!Init
<1>2. UpsertInv /\ [Next]_vars => [UC!Next]_(UC!vars)
  <2> SUFFICES ASSUME UpsertInv, [Next]_vars PROVE [UC!Next]_(UC!vars)
    OBVIOUS
  <2>1. CASE UNCHANGED vars
    BY <2>1 DEF vars, UC!vars
  <2>2. QED
    BY <2>1, CallerFulfils, InserterFulfils DEF Next
<1>3. QED
  BY <1>1, <1>2, UpsertInvariant, PTL DEF Spec, FulfilsContract, UC!Spec

\* A nil result means that every inserter ended, so none writes any more.
THEOREM NilMeansQuiet == Spec => []NothingInFlight
<1>1. UpsertInv => NothingInFlight
  BY QuietAfterNil
<1>2. QED
  BY <1>1, UpsertInvariant, PTL

\* Without a failure of a statement the call returns nil only, and only when
\* every batch is stored.
THEOREM Faithful == Spec => []FaithfulWithoutFailure
<1>1. UpsertInv => FaithfulWithoutFailure
  BY AllStored DEF FaithfulWithoutFailure, UpsertInv, CallerBooks, CleanBooks
<1>2. QED
  BY <1>1, UpsertInvariant, PTL
=============================================================================
