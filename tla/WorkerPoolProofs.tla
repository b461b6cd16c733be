-------------------------- MODULE WorkerPoolProofs --------------------------
(***************************************************************************)
(* The safety of the worker pool, for any number of connections, jobs and  *)
(* disconnects.                                                            *)
(***************************************************************************)
EXTENDS WorkerPool, TLAPS

\* A stream's monitor against its context.
MonitorBooks ==
  \A w \in Streams :
    /\ ctx[w] = "none" => monitor[w] = "none"
    /\ monitor[w] = "remove" => ctx[w] = "done"
    /\ monitor[w] \in {"none", "watch", "remove"} => closes[w] = 0

\* Where a worker may be: in the pool from the moment it has a monitor, and in
\* a job only while one runs; neither is closed before the pool or the job is.
PlaceBooks ==
  /\ \A w \in connected : monitor[w] # "none" /\ (pool = "open" => closes[w] = 0)
  /\ \A w \in reserved : closes[w] = 0
  /\ reserved # {} => node = "job"
  /\ pool # "open" => node = "idle"

PoolInv ==
  /\ TypeOK /\ MonitorBooks /\ PlaceBooks
  /\ HandedOver /\ ClosedOnce /\ NoneForgotten /\ NoLostWakeup

LEMMA PoolInit == Init => PoolInv
  BY DEF Init, PoolInv, TypeOK, MonitorBooks, PlaceBooks, HandedOver, ClosedOnce, NoneForgotten,
         NoLostWakeup

-----------------------------------------------------------------------------
\* A stream that opens or ends by itself.
LEMMA PoolStream ==
  ASSUME PoolInv, NEW w \in Streams, Opens(w) \/ Ends(w)
  PROVE  PoolInv'
<1> USE DEF PoolInv, TypeOK
<1>1. TypeOK' /\ MonitorBooks' /\ PlaceBooks'
  BY DEF Opens, Ends, MonitorBooks, PlaceBooks
<1>2. HandedOver' /\ ClosedOnce' /\ NoneForgotten'
  BY DEF Opens, Ends, MonitorBooks, HandedOver, ClosedOnce, NoneForgotten
<1>3. NoLostWakeup'
  BY DEF Opens, Ends, NoLostWakeup, Enough
<1>4. QED
  BY <1>1, <1>2, <1>3

\* A worker joins the pool.
LEMMA PoolAdds ==
  ASSUME PoolInv, NEW w \in Streams, AddWorker(w)
  PROVE  PoolInv'
<1> USE DEF PoolInv, TypeOK, AddWorker, NotifyOfPoolMembershipChange
<1>1. TypeOK' /\ MonitorBooks' /\ PlaceBooks'
  BY DEF MonitorBooks, PlaceBooks
<1>2. HandedOver' /\ ClosedOnce' /\ NoneForgotten' /\ NoLostWakeup'
  BY DEF HandedOver, ClosedOnce, NoneForgotten, NoLostWakeup
<1>3. QED
  BY <1>1, <1>2

\* The steps of a monitor.
LEMMA PoolMonitor ==
  ASSUME PoolInv, NEW w \in Streams, MonitorStep(w)
  PROVE  PoolInv'
<1> USE DEF PoolInv, TypeOK
<1>1. CASE MonitorSeesDisconnect(w) \/ MonitorStops(w)
  <2>1. TypeOK' /\ MonitorBooks' /\ PlaceBooks'
    BY <1>1 DEF MonitorSeesDisconnect, MonitorStops, MonitorBooks, PlaceBooks
  <2>2. HandedOver' /\ ClosedOnce' /\ NoneForgotten'
    BY <1>1 DEF MonitorSeesDisconnect, MonitorStops, HandedOver, ClosedOnce, NoneForgotten
  <2>3. NoLostWakeup'
    BY <1>1 DEF MonitorSeesDisconnect, MonitorStops, NoLostWakeup, Enough
  <2>4. QED
    BY <2>1, <2>2, <2>3
<1>2. CASE RemoveWorker(w)
  <2>1. TypeOK' /\ MonitorBooks' /\ PlaceBooks'
    BY <1>2 DEF RemoveWorker, NotifyOfPoolMembershipChange, MonitorBooks, PlaceBooks
  <2>2. HandedOver' /\ ClosedOnce' /\ NoneForgotten' /\ NoLostWakeup'
    BY <1>2 DEF RemoveWorker, NotifyOfPoolMembershipChange, MonitorBooks, HandedOver, ClosedOnce,
       NoneForgotten, NoLostWakeup
  <2>3. QED
    BY <2>1, <2>2
<1>3. CASE MonitorClosesStream(w)
  <2>1. w \notin reserved
    BY <1>3 DEF MonitorClosesStream, HandedOver
  <2>2. TypeOK' /\ MonitorBooks' /\ PlaceBooks'
    BY <1>3, <2>1 DEF MonitorClosesStream, MonitorBooks, PlaceBooks
  <2>3. HandedOver' /\ ClosedOnce' /\ NoneForgotten'
    BY <1>3 DEF MonitorClosesStream, MonitorBooks, HandedOver, ClosedOnce, NoneForgotten
  <2>4. NoLostWakeup'
    BY <1>3 DEF MonitorClosesStream, NoLostWakeup, Enough
  <2>5. QED
    BY <2>2, <2>3, <2>4
<1>4. QED
  BY <1>1, <1>2, <1>3 DEF MonitorStep

\* ReserveWorkers.
LEMMA PoolReserves ==
  ASSUME PoolInv, ReserveStep
  PROVE  PoolInv'
<1> USE DEF PoolInv, TypeOK
<1>1. CASE ReserveChecks \/ ReserveWaits \/ ReserveWakes \/ ReserveGivesUp
  <2>1. TypeOK' /\ MonitorBooks' /\ PlaceBooks'
    BY <1>1 DEF ReserveChecks, ReserveWaits, ReserveWakes, ReserveGivesUp, MonitorBooks, PlaceBooks
  <2>2. HandedOver' /\ ClosedOnce' /\ NoneForgotten'
    BY <1>1 DEF ReserveChecks, ReserveWaits, ReserveWakes, ReserveGivesUp, HandedOver, ClosedOnce,
       NoneForgotten
  <2>3. NoLostWakeup'
    BY <1>1 DEF ReserveChecks, ReserveWaits, ReserveWakes, ReserveGivesUp, NoLostWakeup, Enough
  <2>4. QED
    BY <2>1, <2>2, <2>3
<1>2. CASE ReserveTakes
  <2>1. pool = "open" /\ \A w \in connected : monitor[w] = "exit" /\ closes[w] = 0
    BY <1>2 DEF ReserveTakes, AllMonitorsExited, PlaceBooks
  <2>2. reserved = {}
    BY <1>2 DEF ReserveTakes, PlaceBooks
  <2>3. TypeOK' /\ MonitorBooks' /\ PlaceBooks'
    BY <1>2, <2>1 DEF ReserveTakes, MonitorBooks, PlaceBooks
  <2>4. HandedOver' /\ ClosedOnce' /\ NoneForgotten' /\ NoLostWakeup'
    BY <1>2, <2>1, <2>2 DEF ReserveTakes, HandedOver, ClosedOnce, NoneForgotten, NoLostWakeup
  <2>5. QED
    BY <2>3, <2>4
<1>3. QED
  BY <1>1, <1>2 DEF ReserveStep

\* The master node's jobs, and the end of the pool.
LEMMA PoolNode ==
  ASSUME PoolInv, RunJob \/ AcquireExpires \/ JobEnds \/ PoolShutsDown \/ PoolClosed
  PROVE  PoolInv'
<1> USE DEF PoolInv, TypeOK
<1>1. CASE RunJob \/ AcquireExpires \/ PoolShutsDown
  <2>1. TypeOK' /\ MonitorBooks' /\ PlaceBooks'
    BY <1>1 DEF RunJob, AcquireExpires, PoolShutsDown, MonitorBooks, PlaceBooks
  <2>2. HandedOver' /\ ClosedOnce' /\ NoneForgotten'
    BY <1>1 DEF RunJob, AcquireExpires, PoolShutsDown, HandedOver, ClosedOnce, NoneForgotten
  <2>3. NoLostWakeup'
    BY <1>1 DEF RunJob, AcquireExpires, PoolShutsDown, NoLostWakeup, Enough
  <2>4. QED
    BY <2>1, <2>2, <2>3
<1>2. CASE JobEnds
  <2>1. TypeOK'
    BY <1>2 DEF JobEnds
  <2>2. MonitorBooks' /\ PlaceBooks'
    BY <1>2 DEF JobEnds, MonitorBooks, PlaceBooks, HandedOver
  <2>3. HandedOver' /\ ClosedOnce' /\ NoneForgotten' /\ NoLostWakeup'
    BY <1>2 DEF JobEnds, PlaceBooks, HandedOver, ClosedOnce, NoneForgotten, NoLostWakeup
  <2>4. QED
    BY <2>1, <2>2, <2>3
<1>3. CASE PoolClosed
  <2>1. TypeOK' /\ MonitorBooks' /\ PlaceBooks'
    BY <1>3 DEF PoolClosed, MonitorBooks, PlaceBooks
  <2>2. HandedOver' /\ ClosedOnce' /\ NoneForgotten' /\ NoLostWakeup'
    BY <1>3 DEF PoolClosed, PlaceBooks, HandedOver, ClosedOnce, NoneForgotten, NoLostWakeup
  <2>3. QED
    BY <2>1, <2>2
<1>4. QED
  BY <1>1, <1>2, <1>3

-----------------------------------------------------------------------------
\* The invariant is inductive.
THEOREM PoolInvariant == Spec => []PoolInv
<1>1. Init => PoolInv
  BY PoolInit
<1>2. PoolInv /\ [Next]_vars => PoolInv'
  <2> SUFFICES ASSUME PoolInv, [Next]_vars PROVE PoolInv'
    OBVIOUS
  <2>1. CASE UNCHANGED vars
    BY <2>1 DEF vars, PoolInv, TypeOK, MonitorBooks, PlaceBooks, HandedOver, ClosedOnce,
       NoneForgotten, NoLostWakeup, Enough
  <2>2. QED
    BY <2>1, PoolStream, PoolAdds, PoolMonitor, PoolReserves, PoolNode DEF Next
<1>3. QED
  BY <1>1, <1>2, PTL DEF Spec

\* Every variable keeps its type; the notification channel holds at most one.
THEOREM TypeCorrect == Spec => []TypeOK
<1>1. PoolInv => TypeOK
  BY DEF PoolInv
<1>2. QED
  BY <1>1, PoolInvariant, PTL

\* The workers of a job are no longer watched by the pool nor in it.
THEOREM JobOwnsItsWorkers == Spec => []HandedOver
<1>1. PoolInv => HandedOver
  BY DEF PoolInv
<1>2. QED
  BY <1>1, PoolInvariant, PTL

\* No stream is closed twice, by the job, by its monitor or by both.
THEOREM NoDoubleClose == Spec => []ClosedOnce
<1>1. PoolInv => ClosedOnce
  BY DEF PoolInv
<1>2. QED
  BY <1>1, PoolInvariant, PTL

\* While the pool is open every live connection is in the pool or in the job.
THEOREM NoConnectionForgotten == Spec => []NoneForgotten
<1>1. PoolInv => NoneForgotten
  BY DEF PoolInv
<1>2. QED
  BY <1>1, PoolInvariant, PTL

\* The one-place notification channel never makes ReserveWorkers sleep on a
\* pool that is large enough.
THEOREM WakeupsArrive == Spec => []NoLostWakeup
<1>1. PoolInv => NoLostWakeup
  BY DEF PoolInv
<1>2. QED
  BY <1>1, PoolInvariant, PTL
=============================================================================
