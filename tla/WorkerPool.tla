----------------------------- MODULE WorkerPool -----------------------------
(***************************************************************************)
(* The master's workerPool: the streams of connected workers until a job   *)
(* reserves them.  Threads: the goroutine of the master node, which        *)
(* reserves workers for one job after the other and closes the pool in the *)
(* end; one JobStream handler per connection, which adds its stream; and   *)
(* one health monitor per stream in the pool.                              *)
(*                                                                         *)
(* Critical sections under p.mu that cannot block are one step.  The one   *)
(* of ReserveWorkers does block, and is two.                               *)
(***************************************************************************)
EXTENDS Integers, FiniteSets

CONSTANTS
  Streams,         \* the streams that are opened in one behaviour
  MinWorkers,      \* minWorkers of every job
  MaxDisconnects   \* streams that end by themselves

ASSUME StreamsAssumption == IsFiniteSet(Streams)
ASSUME PoolBoundsAssumption == MinWorkers \in Nat /\ MaxDisconnects \in Nat

VARIABLES
  ctx,        \* context of each stream: "none" before it opens, "live", "done"
  monitor,    \* where the monitor of each stream is
  connected,  \* connectedWorkers
  reserved,   \* the workers of the job that runs
  closes,     \* how often each stream was closed
  held,       \* "reserver" while ReserveWorkers holds p.mu across its wait
  stop,       \* "closed": the current stopHealthChecksCh is
  changed,    \* notifications in poolMembersChangedCh
  node,       \* where the master node is
  acquire,    \* the acquire context of RunJob
  pool        \* "open", "closing" once poolCtx is cancelled, "closed"

vars == <<ctx, monitor, connected, reserved, closes, held, stop, changed, node, acquire, pool>>

Init ==
  /\ ctx = [w \in Streams |-> "none"]
  /\ monitor = [w \in Streams |-> "none"]
  /\ connected = {} /\ reserved = {}
  /\ closes = [w \in Streams |-> 0]
  /\ held = "free" /\ stop = "open" /\ changed = 0
  /\ node = "idle" /\ acquire = "live" /\ pool = "open"

\* Mutant: the channel has no buffer, and nobody waits on it yet.
NotifyUnbuffered == changed' = IF node = "select" THEN 1 ELSE changed

\* Mutant: notifications are not merged.
NotifyEach == changed' = changed + 1

\* poolMembersChangedCh holds one notification; a second one is dropped.
NotifyOfPoolMembershipChange == changed' = 1

\* healthCheckWg is down to zero.
AllMonitorsExited == \A w \in Streams : monitor[w] \in {"none", "exit"}

-----------------------------------------------------------------------------
(***************************************************************************)
(* Streams and their monitors.                                             *)
(***************************************************************************)

Opens(w) ==
  /\ ctx[w] = "none"
  /\ ctx' = [ctx EXCEPT ![w] = "live"]
  /\ UNCHANGED <<monitor, connected, reserved, closes, held, stop, changed, node, acquire, pool>>

\* A stream ends: the worker is gone, or its JobStream handler returned
\* because the stream was closed.
Ends(w) ==
  /\ ctx[w] = "live"
  /\ closes[w] = 0 => Cardinality({v \in Streams : ctx[v] = "done" /\ closes[v] = 0}) < MaxDisconnects
  /\ ctx' = [ctx EXCEPT ![w] = "done"]
  /\ UNCHANGED <<monitor, connected, reserved, closes, held, stop, changed, node, acquire, pool>>

AddWorker(w) ==
  /\ ctx[w] # "none" /\ monitor[w] = "none"
  /\ held = "free"
  /\ connected' = connected \cup {w}
  /\ monitor' = [monitor EXCEPT ![w] = "watch"]
  /\ NotifyOfPoolMembershipChange
  /\ UNCHANGED <<ctx, reserved, closes, held, stop, node, acquire, pool>>

\* monitorWorkerHealth: the stream's context is done; removeWorker follows ...
MonitorSeesDisconnect(w) ==
  /\ monitor[w] = "watch"
  /\ ctx[w] = "done"
  /\ monitor' = [monitor EXCEPT ![w] = "remove"]
  /\ UNCHANGED <<ctx, connected, reserved, closes, held, stop, changed, node, acquire, pool>>

\* ... and needs p.mu.
RemoveWorker(w) ==
  /\ monitor[w] = "remove"
  /\ held = "free"
  /\ connected' = connected \ {w}
  /\ monitor' = [monitor EXCEPT ![w] = "exit"]
  /\ NotifyOfPoolMembershipChange
  /\ UNCHANGED <<ctx, reserved, closes, held, stop, node, acquire, pool>>

\* The pool shuts down.
MonitorClosesStream(w) ==
  /\ monitor[w] = "watch"
  /\ pool # "open"
  /\ closes' = [closes EXCEPT ![w] = @ + 1]
  /\ monitor' = [monitor EXCEPT ![w] = "exit"]
  /\ UNCHANGED <<ctx, connected, reserved, held, stop, changed, node, acquire, pool>>

\* The worker is being reserved.
MonitorStops(w) ==
  /\ monitor[w] = "watch"
  /\ stop = "closed"
  /\ monitor' = [monitor EXCEPT ![w] = "exit"]
  /\ UNCHANGED <<ctx, connected, reserved, closes, held, stop, changed, node, acquire, pool>>

-----------------------------------------------------------------------------
(***************************************************************************)
(* The master node: Master.RunJob again and again, then Master.Close.      *)
(***************************************************************************)

RunJob ==
  /\ node = "idle" /\ pool = "open"
  /\ node' = "check"
  /\ acquire' = "live"
  /\ UNCHANGED <<ctx, monitor, connected, reserved, closes, held, stop, changed, pool>>

\* ReserveWorkers has not returned.
Reserving == node \in {"check", "unlocked", "select", "stopping"}

\* workerAcquireTimeout passes, or the node is told to stop.
AcquireExpires ==
  /\ Reserving /\ acquire = "live"
  /\ acquire' = "done"
  /\ UNCHANGED <<ctx, monitor, connected, reserved, closes, held, stop, changed, node, pool>>

Enough == connected # {} /\ Cardinality(connected) >= MinWorkers

\* The head of ReserveWorkers' loop: with enough workers it keeps p.mu and
\* tells their monitors to stop.
ReserveChecks ==
  /\ node = "check"
  /\ held = "free"
  /\ IF Enough
     THEN node' = "stopping" /\ held' = "reserver" /\ stop' = "closed"
     ELSE node' = "unlocked" /\ UNCHANGED <<held, stop>>
  /\ UNCHANGED <<ctx, monitor, connected, reserved, closes, changed, acquire, pool>>

\* Without enough workers it gives p.mu back, and only then waits.
ReserveWaits ==
  /\ node = "unlocked"
  /\ node' = "select"
  /\ UNCHANGED <<ctx, monitor, connected, reserved, closes, held, stop, changed, acquire, pool>>

ReserveWakes ==
  /\ node = "select"
  /\ changed = 1
  /\ changed' = 0
  /\ node' = "check"
  /\ UNCHANGED <<ctx, monitor, connected, reserved, closes, held, stop, acquire, pool>>

\* Mutant: the acquire context is not looked at.
ReserveGivesUpOnClose ==
  /\ node = "select"
  /\ pool # "open"
  /\ node' = "idle"
  /\ UNCHANGED <<ctx, monitor, connected, reserved, closes, held, stop, changed, acquire, pool>>

ReserveGivesUp ==
  /\ node = "select"
  /\ acquire = "done" \/ pool # "open"
  /\ node' = "idle"
  /\ UNCHANGED <<ctx, monitor, connected, reserved, closes, held, stop, changed, acquire, pool>>

\* Mutant: the monitors are not waited for.
ReserveTakesAtOnce ==
  /\ node = "stopping"
  /\ reserved' = connected /\ connected' = {}
  /\ stop' = "open" /\ held' = "free"
  /\ node' = "job"
  /\ UNCHANGED <<ctx, monitor, closes, changed, acquire, pool>>

\* Mutant: no more workers are handed out than were asked for.
ReserveTakesMinimum ==
  /\ node = "stopping"
  /\ AllMonitorsExited
  /\ \E W \in SUBSET connected : Cardinality(W) = MinWorkers /\ reserved' = W
  /\ connected' = {}
  /\ stop' = "open" /\ held' = "free"
  /\ node' = "job"
  /\ UNCHANGED <<ctx, monitor, closes, changed, acquire, pool>>

\* Mutant: the pool keeps the workers it hands out.
ReserveKeeps ==
  /\ node = "stopping"
  /\ AllMonitorsExited
  /\ reserved' = connected
  /\ stop' = "open" /\ held' = "free"
  /\ node' = "job"
  /\ UNCHANGED <<ctx, monitor, connected, closes, changed, acquire, pool>>

\* Every monitor exited: all workers are handed to the job.
ReserveTakes ==
  /\ node = "stopping"
  /\ AllMonitorsExited
  /\ reserved' = connected /\ connected' = {}
  /\ stop' = "open" /\ held' = "free"
  /\ node' = "job"
  /\ UNCHANGED <<ctx, monitor, closes, changed, acquire, pool>>

\* The job is over, however it went: its streams are closed.
JobEnds ==
  /\ node = "job"
  /\ closes' = [w \in Streams |-> IF w \in reserved THEN closes[w] + 1 ELSE closes[w]]
  /\ reserved' = {}
  /\ node' = "idle"
  /\ UNCHANGED <<ctx, monitor, connected, held, stop, changed, acquire, pool>>

\* Mutant: Close takes p.mu before it waits for the monitors.
PoolShutsDownLocked ==
  /\ node = "idle" /\ pool = "open"
  /\ pool' = "closing"
  /\ held' = "reserver"
  /\ UNCHANGED <<ctx, monitor, connected, reserved, closes, stop, changed, node, acquire>>

\* Close of the pool: it shuts the monitors down, waits, and forgets them.
PoolShutsDown ==
  /\ node = "idle" /\ pool = "open"
  /\ pool' = "closing"
  /\ UNCHANGED <<ctx, monitor, connected, reserved, closes, held, stop, changed, node, acquire>>

PoolClosed ==
  /\ pool = "closing"
  /\ AllMonitorsExited /\ held = "free"
  /\ connected' = {}
  /\ pool' = "closed"
  /\ UNCHANGED <<ctx, monitor, reserved, closes, held, stop, changed, node, acquire>>

MonitorStep(w) ==
  MonitorSeesDisconnect(w) \/ RemoveWorker(w) \/ MonitorClosesStream(w) \/ MonitorStops(w)

ReserveStep == ReserveChecks \/ ReserveWaits \/ ReserveWakes \/ ReserveGivesUp \/ ReserveTakes

Next ==
  \/ \E w \in Streams : Opens(w) \/ Ends(w) \/ AddWorker(w) \/ MonitorStep(w)
  \/ RunJob \/ AcquireExpires \/ ReserveStep \/ JobEnds
  \/ PoolShutsDown \/ PoolClosed

Spec == Init /\ [][Next]_vars

\* Goroutines that can go on do.  Nothing makes a job start or end, a worker
\* come or go, or a timeout expire.
FairSpec ==
  /\ Spec
  /\ WF_vars(ReserveStep) /\ WF_vars(PoolClosed)
  /\ \A w \in Streams : WF_vars(MonitorStep(w))

-----------------------------------------------------------------------------
TypeOK ==
  /\ ctx \in [Streams -> {"none", "live", "done"}]
  /\ monitor \in [Streams -> {"none", "watch", "remove", "exit"}]
  /\ connected \in SUBSET Streams /\ reserved \in SUBSET Streams
  /\ closes \in [Streams -> Nat]
  /\ held \in {"free", "reserver"} /\ stop \in {"open", "closed"}
  /\ changed \in {0, 1}
  /\ node \in {"idle", "check", "unlocked", "select", "stopping", "job"}
  /\ acquire \in {"live", "done"}
  /\ pool \in {"open", "closing", "closed"}

\* A job's workers are its own: the pool neither watches them any more nor
\* can hand them to the next job (worker_pool.go:119-121).
HandedOver ==
  \A w \in reserved : monitor[w] = "exit" /\ w \notin connected

\* A stream is closed once: a second Close would panic on the closed sendErrCh.
ClosedOnce == \A w \in Streams : closes[w] <= 1

\* No connection is forgotten: while the pool is open, a worker that is added
\* and connected is in the pool, or in the job, until its stream is closed.
NoneForgotten ==
  \A w \in Streams :
    monitor[w] # "none" /\ ctx[w] = "live" /\ closes[w] = 0 /\ pool = "open"
      => w \in connected \cup reserved

\* ReserveWorkers never sleeps on enough workers without a notification.
NoLostWakeup == node \in {"unlocked", "select"} /\ Enough => changed = 1

\* ReserveWorkers ends once its context is cancelled (worker_pool.go:99-101).
ReserveEnds ==
  (Reserving /\ acquire = "done") ~> ~Reserving

\* So it does unless a monitor wants to remove its worker while ReserveWorkers
\* waits for the monitors with p.mu held.
BlockedMonitor == held = "reserver" /\ \E w \in Streams : monitor[w] = "remove"
ReserveEndsUnblocked == ([]~BlockedMonitor) => ReserveEnds

\* Closing the pool comes to an end.
CloseEnds == pool = "closing" ~> pool = "closed"
=============================================================================
