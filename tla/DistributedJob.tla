--------------------------- MODULE DistributedJob ---------------------------
(***************************************************************************)
(* One distributed graph job: the master and its handlers, the workers and *)
(* their receivers, and the streams between them.                          *)
(***************************************************************************)
EXTENDS MasterCoordinator, WorkerCoordinator

\* Everything returned and every stream is closed.
Finished ==
  /\ mpc = "done"
  /\ \A w \in Workers :
       /\ hpc[w] \in {"off", "published", "exit"}
       /\ wpc[w] = "done"
       /\ rpc[w] \in {"off", "exit"}
       /\ link[w] = "down"

Stutter == Finished /\ UNCHANGED vars

Next ==
  \/ MasterStep
  \/ \E w \in Workers : HandlerStep(w) \/ WorkerStep(w) \/ ReceiverStep(w) \/ LinkBreaks(w)
  \/ Stutter

Spec == Init /\ [][Next]_vars

\* While some goroutine can go on, the system does: it does not stop short of
\* where only a failure could move it.  Nothing makes a failure happen.
Fairness == WF_vars(Next /\ faults' = faults)

FairSpec == Spec /\ Fairness

-----------------------------------------------------------------------------
\* What the payloads on a stream may be, as in api.proto.
WorkerPayload == StepMsg \cup RelayMsg
MasterPayload == WorkerPayload \cup JobDetailsMsg

MasterTypeOK ==
  /\ mpc \in {"start", "publish", "check", "wait", "notify", "complete", "done"}
  /\ mphase \in Phases
  /\ mstep \in Nat
  /\ cnt \in 0 .. NumWorkers
  /\ gathered \in Int /\ mvalue \in Int
  /\ mctx \in {"live", "done"}
  /\ mres \in {"none", "ok", "err"}

HandlerTypeOK ==
  /\ hpc \in [Workers -> {"off", "published", "recv", "join", "joined", "reply", "relay", "exit"}]
  /\ hmsg \in [Workers -> WorkerPayload \cup {NoMsg}]
  /\ \A w \in Workers : hpc[w] \in {"join", "joined", "reply"} => hmsg[w] \in StepMsg
  /\ \A w \in Workers : hpc[w] = "relay" => hmsg[w] \in RelayMsg

WorkerTypeOK ==
  /\ wpc \in [Workers -> {"idle", "load", "check", "enter", "wait", "compute", "complete", "done"}]
  /\ wphase \in [Workers -> Phases]
  /\ wstep \in [Workers -> Nat]
  /\ value \in [Workers -> Int] /\ prev \in [Workers -> Int]
  /\ active \in [Workers -> {0, 1}]
  /\ nrelay \in [Workers -> Nat]
  /\ inbox \in [Workers -> [{0, 1} -> Nat]]
  /\ wctx \in [Workers -> {"live", "done"}]
  /\ wres \in [Workers -> {"none", "ok", "err"}]
  /\ persisted \in SUBSET Workers

ReceiverTypeOK ==
  /\ rpc \in [Workers -> {"off", "recv", "notify", "bounce", "exit"}]
  /\ rmsg \in [Workers -> WorkerPayload \cup {NoMsg}]
  /\ \A w \in Workers : rpc[w] = "notify" => rmsg[w] \in StepMsg
  /\ \A w \in Workers : rpc[w] = "bounce" => rmsg[w] \in RelayMsg

StreamTypeOK ==
  /\ link \in [Workers -> {"up", "down"}]
  /\ toMaster \in [Workers -> Seq(WorkerPayload)]
  /\ toWorker \in [Workers -> Seq(MasterPayload)]

HistoryTypeOK ==
  /\ faults \in Nat
  /\ arrived \in [Workers -> Nat] /\ passed \in [Workers -> Nat]
  /\ inround \in SUBSET Workers
  /\ round \in Nat
  /\ sentTo \in [Workers -> [Supersteps -> Nat]]
  /\ tally \in [Supersteps -> Int]
  /\ strayed \in Nat

\* The type invariant, one part per group of variables; a goroutine that works
\* on a payload works on one of the kind its place in the code expects.
TypeOK ==
  MasterTypeOK /\ HandlerTypeOK /\ WorkerTypeOK /\ ReceiverTypeOK /\ StreamTypeOK /\ HistoryTypeOK

AllPersisted == persisted = Workers

\* A job that anyone reports as successful is stored in full: neither the
\* master nor a worker returns nil while some worker has not persisted its
\* scores (master_job_coordinator.go:140-143).
CommitIsTotal ==
  (mres = "ok" \/ \E w \in Workers : wres[w] = "ok") => AllPersisted

\* Workers that left the same number of barriers are at the same barrier of
\* the same superstep, although each decides for itself, from the broadcast
\* count, whether the job goes on.
Position(w) == <<wphase[w], wstep[w]>>
AtBarrier(w) == wpc[w] \in {"enter", "wait"}
AgreeOnRounds ==
  \A v, w \in Workers :
    AtBarrier(v) /\ AtBarrier(w) /\ passed[v] = passed[w] => Position(v) = Position(w)

\* A relayed message reaches its destination's graph in the superstep in which
\* it was sent, so that SendMessage, which uses the superstep of the receiving
\* graph, queues it for the one after.
RelayedInStep ==
  \A w \in Workers :
    (rpc[w] = "recv" /\ toWorker[w] # <<>> /\ Head(toWorker[w]).type = "relay")
      => /\ Head(toWorker[w]).sent = wstep[w]
         /\ wphase[w] \in {"PRE", "POST"}

\* No superstep is computed without a message sent for it in the one before,
\* even while an aborted job still goes on: the queue holds exactly as many.
NoMessageMissed ==
  \A w \in Workers :
    wpc[w] = "compute" =>
      Pending(w) = IF wstep[w] = 0 THEN 0 ELSE sentTo[w][wstep[w] - 1]

\* A job in which a vertex wrote to an address that no graph holds is aborted
\* before anything is stored (master_job_coordinator.go:207-212).
StraysAbort == strayed > 0 => persisted = {}

\* After the POST barrier of a superstep every worker holds the sum of what all
\* of them aggregated up to that superstep.
AggregatorsAgree ==
  \A w \in Workers :
    (AtBarrier(w) /\ wphase[w] = "KEEP" /\ wstep[w] \in Supersteps) => value[w] = tally[wstep[w]]

\* The barrier is one: no worker leaves a round that another has not entered.
RB == INSTANCE RoundBarrier WITH arrived <- arrived, passed <- passed
LockStep == RB!Spec

\* Whatever fails, everyone returns and no goroutine or stream is left behind.
EveryoneReturns == <>Finished

\* Until everyone has returned some goroutine can go on, without a failure to
\* release it: no ring of full streams and goroutines that write to them
\* (worker_job_coordinator.go:187, master_job_coordinator.go:225).
SomeoneCanGoOn == Finished \/ ENABLED <<Next /\ faults' = faults>>_vars

\* Without a failure the job succeeds, for the master and for every worker.
FaultFreeJobSucceeds ==
  [](faults = 0) => <>(mres = "ok" /\ \A w \in Workers : wres[w] = "ok")
=============================================================================
