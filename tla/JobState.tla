------------------------------ MODULE JobState ------------------------------
(***************************************************************************)
(* The state of one distributed graph job (dbspgraph): a master, which     *)
(* coordinates the job, and the workers it reserved, each joined to the    *)
(* master by one bidirectional gRPC stream.                                *)
(*                                                                         *)
(* Goroutines of the master: RunJob itself ("master") and, per worker, one *)
(* handleWorkerPayloads ("handler").  Goroutines of a worker: RunJob       *)
(* itself ("worker") and one handleMasterPayloads ("receiver").            *)
(*                                                                         *)
(* This module holds the constants, the variables and the streams; the     *)
(* actions are in MasterCoordinator and WorkerCoordinator, and             *)
(* DistributedJob puts them together.                                      *)
(***************************************************************************)
EXTENDS Integers, Sequences, FiniteSets

CONSTANTS
  Workers,    \* the workers reserved for the job
  StreamCap,  \* payloads one direction of a stream holds before a send blocks
  MaxStep,    \* no vertex sends a message or stays active by itself from here on
  MaxRelays,  \* messages to remote vertices a worker sends in one superstep
  MaxFaults,  \* failures injected in one behaviour
  Strays      \* TRUE: vertices may also write to addresses no graph holds

ASSUME WorkersAssumption == IsFiniteSet(Workers) /\ Workers # {}
ASSUME BoundsAssumption ==
  /\ StreamCap \in Nat \ {0}
  /\ MaxStep \in Nat
  /\ MaxRelays \in Nat
  /\ MaxFaults \in Nat
  /\ Strays \in BOOLEAN

NumWorkers == Cardinality(Workers)

\* proto.Step_Type without INVALID; KEEP is POST_KEEP_RUNNING.
Phases == {"PRE", "POST", "KEEP", "EXECUTED_GRAPH", "PERSISTED_RESULTS", "COMPLETED_JOB"}

\* A Step carries at most one value: the aggregator (delta) of a POST step or
\* the active vertex count of a KEEP step.
StepMsg  == [type : {"step"}, phase : Phases, val : Int]

\* known: some graph holds the destination vertex, in the partition of dst.
\* sent: the superstep of the sender, which only the properties read.
RelayMsg == [type : {"relay"}, dst : Workers, known : BOOLEAN, sent : Nat]
JobDetailsMsg == [type : {"details"}]

Step(p, v) == [type |-> "step", phase |-> p, val |-> v]
NoMsg == [type |-> "none"]

Supersteps == 0 .. MaxStep + 1

VARIABLES
  \* The master.
  mpc,       \* where RunJob is
  mphase,    \* step type of the barrier RunJob is at or last left
  mstep,     \* superstep of the master's graph
  cnt,       \* i of the loop in WaitForWorkers and in NotifyWorkers
  gathered,  \* sum of the values of the collected steps
  mvalue,    \* the global aggregator
  mctx,      \* jobCtx of the master: "live", or "done" once cancelled
  mres,      \* what RunJob returned
  hpc,       \* where the handler of each worker is
  hmsg,      \* the payload each handler works on
  \* The workers.
  wpc,       \* where RunJob is
  wphase,    \* step type of the barrier it is at or last left
  wstep,     \* superstep of the worker's graph
  value,     \* curSum of the local aggregator
  prev,      \* prevSum of the local aggregator
  active,    \* activeInStep that graph.step returned
  nrelay,    \* messages relayed in this superstep
  inbox,     \* messages pending in queue 0 and in queue 1 of the vertices
  wctx,      \* jobCtx of the worker
  wres,      \* what RunJob returned
  persisted, \* workers whose CompleteJob stored the scores without an error
  rpc,       \* where the receiver is
  rmsg,      \* the payload it works on
  \* The streams.
  link,      \* "up" or "down"
  toMaster,  \* payloads on their way to the handler
  toWorker,  \* payloads on their way to the receiver
  faults,    \* failures injected so far
  \* History, which no guard reads.
  arrived,   \* barriers each worker entered
  passed,    \* barriers each worker left
  inround,   \* workers that joined the master's barrier and await its reply
  round,     \* barriers through which the master let every worker
  sentTo,    \* messages sent to vertices of a worker, per superstep
  tally,     \* sum of what all workers aggregated up to each superstep
  strayed    \* messages that vertices sent to addresses no graph holds

masterVars  == <<mpc, mphase, mstep, cnt, gathered, mvalue, mres>>
handlerVars == <<hpc, hmsg>>
computeVars == <<wstep, value, prev, active, nrelay>>
workerVars  == <<wpc, wphase, computeVars, wres, persisted>>
receiverVars == <<rpc, rmsg>>
streamVars  == <<link, toMaster, toWorker>>
roundVars   == <<arrived, passed, inround, round>>
dataHistory == <<sentTo, tally, strayed>>
vars == <<masterVars, mctx, handlerVars, workerVars, inbox, wctx, receiverVars,
          streamVars, faults, roundVars, dataHistory>>

-----------------------------------------------------------------------------
Init ==
  /\ mpc = "start" /\ mphase = "PRE" /\ mstep = 0
  /\ cnt = 0 /\ gathered = 0 /\ mvalue = 0
  /\ mctx = "live" /\ mres = "none"
  /\ hpc = [w \in Workers |-> "off"]
  /\ hmsg = [w \in Workers |-> NoMsg]
  /\ wpc = [w \in Workers |-> "idle"]
  /\ wphase = [w \in Workers |-> "PRE"]
  /\ wstep = [w \in Workers |-> 0]
  /\ value = [w \in Workers |-> 0]
  /\ prev = [w \in Workers |-> 0]
  /\ active = [w \in Workers |-> 0]
  /\ nrelay = [w \in Workers |-> 0]
  /\ inbox = [w \in Workers |-> [q \in {0, 1} |-> 0]]
  /\ wctx = [w \in Workers |-> "live"]
  /\ wres = [w \in Workers |-> "none"]
  /\ persisted = {}
  /\ rpc = [w \in Workers |-> "off"]
  /\ rmsg = [w \in Workers |-> NoMsg]
  /\ link = [w \in Workers |-> "up"]
  /\ toMaster = [w \in Workers |-> <<>>]
  /\ toWorker = [w \in Workers |-> <<>>]
  /\ faults = 0
  /\ arrived = [w \in Workers |-> 0]
  /\ passed = [w \in Workers |-> 0]
  /\ inround = {}
  /\ round = 0
  /\ sentTo = [w \in Workers |-> [s \in Supersteps |-> 0]]
  /\ tally = [s \in Supersteps |-> 0]
  /\ strayed = 0

-----------------------------------------------------------------------------
(***************************************************************************)
(* The streams.  A direction of a stream is the sender's sendMsgCh, the    *)
(* gRPC stream and the reader's recvMsgCh: a FIFO of at least three        *)
(* payloads, here of StreamCap.                                            *)
(***************************************************************************)

\* Mutant: steps have a channel of their own and overtake relayed messages.
SendToMasterUnordered(w, m) ==
  /\ link[w] = "up" => Len(toMaster[w]) < StreamCap
  /\ toMaster' = IF link[w] = "down" THEN toMaster
                 ELSE IF m.type = "step" THEN [toMaster EXCEPT ![w] = <<m>> \o @]
                 ELSE [toMaster EXCEPT ![w] = Append(@, m)]

\* A send blocks while its direction is full.  What is sent into a broken
\* stream is lost.
SendToMaster(w, m) ==
  /\ link[w] = "up" => Len(toMaster[w]) < StreamCap
  /\ toMaster' = IF link[w] = "up" THEN [toMaster EXCEPT ![w] = Append(@, m)]
                                   ELSE toMaster

SendToWorker(w, m) ==
  /\ link[w] = "up" => Len(toWorker[w]) < StreamCap
  /\ toWorker' = IF link[w] = "up" THEN [toWorker EXCEPT ![w] = Append(@, m)]
                                   ELSE toWorker

\* The stream of w goes down; the first i payloads to the master and the first
\* j payloads to the worker still reach the other side.
Cut(w, i, j) ==
  /\ link[w] = "up"
  /\ link' = [link EXCEPT ![w] = "down"]
  /\ toMaster' = [toMaster EXCEPT ![w] = SubSeq(@, 1, i)]
  /\ toWorker' = [toWorker EXCEPT ![w] = SubSeq(@, 1, j)]

\* One more injected failure.
Fault == faults < MaxFaults /\ faults' = faults + 1

\* The connection breaks, with any suffix of what was in flight lost.
LinkBreaks(w) ==
  /\ Fault
  /\ wpc[w] # "done" \/ mpc # "done"
  /\ \E i \in 0 .. Len(toMaster[w]), j \in 0 .. Len(toWorker[w]) : Cut(w, i, j)
  /\ UNCHANGED <<masterVars, mctx, handlerVars, workerVars, inbox, wctx,
                 receiverVars, roundVars, dataHistory>>

=============================================================================
