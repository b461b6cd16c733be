------------------------ MODULE DistributedJobProofs -------------------------
(***************************************************************************)
(* Proofs about DistributedJob, for any number of workers, any failures    *)
(* and any bounds: type correctness; nobody reports a job as successful    *)
(* whose scores are not all stored; the barrier is one (a refinement of    *)
(* RoundBarrier); the workers agree on where they are although each decides*)
(* for itself; after its POST barrier a worker holds the sum over all.     *)
(***************************************************************************)
EXTENDS JobInvariants, FiniteSetTheorems, SequenceTheorems, TLAPS

LEMMA NumWorkersType == NumWorkers \in Nat /\ NumWorkers > 0
  BY WorkersAssumption, FS_CardinalityType, FS_EmptySet DEF NumWorkers

-----------------------------------------------------------------------------
(***************************************************************************)
(* Type correctness.                                                       *)
(***************************************************************************)

LEMMA StepType ==
  ASSUME NEW p \in Phases, NEW v \in Int
  PROVE  Step(p, v) \in StepMsg
  BY DEF Step, StepMsg

\* Taking the first payload, or cutting a stream, leaves sequences of payloads.
LEMMA QueueTypes ==
  ASSUME NEW S, NEW q \in Seq(S)
  PROVE  /\ q # <<>> => Head(q) \in S /\ Tail(q) \in Seq(S)
         /\ \A m \in S : Append(q, m) \in Seq(S)
         /\ \A i \in 0 .. Len(q) : SubSeq(q, 1, i) \in Seq(S)
<1>1. q # <<>> => Head(q) \in S /\ Tail(q) \in Seq(S)
  BY HeadTailProperties
<1>2. \A m \in S : Append(q, m) \in Seq(S)
  BY AppendProperties
<1>3. ASSUME NEW i \in 0 .. Len(q)
      PROVE  SubSeq(q, 1, i) \in Seq(S)
  <2>1. i \in Int /\ \A k \in 1 .. i : q[k] \in S
    BY LenProperties, ElementOfSeq
  <2>2. QED
    BY <2>1, SubSeqProperties
<1>4. QED
  BY <1>1, <1>2, <1>3

LEMMA SendToMasterType ==
  ASSUME StreamTypeOK, NEW w \in Workers, NEW m \in WorkerPayload, SendToMaster(w, m)
  PROVE  toMaster' \in [Workers -> Seq(WorkerPayload)]
<1>1. Append(toMaster[w], m) \in Seq(WorkerPayload)
  BY QueueTypes DEF StreamTypeOK
<1>2. QED
  BY <1>1 DEF StreamTypeOK, SendToMaster

LEMMA SendToWorkerType ==
  ASSUME StreamTypeOK, NEW w \in Workers, NEW m \in MasterPayload, SendToWorker(w, m)
  PROVE  toWorker' \in [Workers -> Seq(MasterPayload)]
<1>1. Append(toWorker[w], m) \in Seq(MasterPayload)
  BY QueueTypes DEF StreamTypeOK
<1>2. QED
  BY <1>1 DEF StreamTypeOK, SendToWorker

LEMMA CutType ==
  ASSUME StreamTypeOK, NEW w \in Workers,
         NEW i \in 0 .. Len(toMaster[w]), NEW j \in 0 .. Len(toWorker[w]), Cut(w, i, j)
  PROVE  StreamTypeOK'
<1>1. SubSeq(toMaster[w], 1, i) \in Seq(WorkerPayload)
  BY QueueTypes DEF StreamTypeOK
<1>2. SubSeq(toWorker[w], 1, j) \in Seq(MasterPayload)
  BY QueueTypes DEF StreamTypeOK
<1>3. QED
  BY <1>1, <1>2 DEF StreamTypeOK, Cut

LEMMA TakeTypes ==
  ASSUME StreamTypeOK, NEW w \in Workers
  PROVE  /\ toMaster[w] # <<>> => /\ Head(toMaster[w]) \in WorkerPayload
                                  /\ Tail(toMaster[w]) \in Seq(WorkerPayload)
         /\ toWorker[w] # <<>> => /\ Head(toWorker[w]) \in MasterPayload
                                  /\ Tail(toWorker[w]) \in Seq(MasterPayload)
  BY QueueTypes DEF StreamTypeOK

LEMMA QueueLengths ==
  ASSUME StreamTypeOK, NEW w \in Workers
  PROVE  Len(toMaster[w]) \in Nat /\ Len(toWorker[w]) \in Nat
  BY LenProperties DEF StreamTypeOK

\* What a payload's type field says of the rest of it.
LEMMA PayloadKinds ==
  ASSUME NEW m \in MasterPayload
  PROVE  /\ m.type = "step" => m \in StepMsg
         /\ m.type = "relay" => m \in RelayMsg
         /\ m \in StepMsg \cup RelayMsg => m \in WorkerPayload
  BY DEF MasterPayload, WorkerPayload, StepMsg, RelayMsg, JobDetailsMsg

\* Counting one more in a table of counters.
LEMMA CountType ==
  ASSUME NEW D, NEW A, NEW f \in [D -> [A -> Nat]], NEW d \in D, NEW a \in A
  PROVE  [f EXCEPT ![d][a] = @ + 1] \in [D -> [A -> Nat]]
  OBVIOUS

LEMMA Parity ==
  ASSUME NEW n \in Nat
  PROVE  n % 2 \in {0, 1} /\ (n + 1) % 2 \in {0, 1}
  OBVIOUS

LEMMA InitType == Init => TypeOK
<1> SUFFICES ASSUME Init PROVE TypeOK
  OBVIOUS
<1>0. MasterTypeOK
  BY NumWorkersType DEF Init, MasterTypeOK, Phases
<1>1. HandlerTypeOK
  BY DEF Init, HandlerTypeOK
<1>2. WorkerTypeOK /\ ReceiverTypeOK
  BY DEF Init, WorkerTypeOK, ReceiverTypeOK, Phases
<1>3. StreamTypeOK
  BY EmptySeq DEF Init, StreamTypeOK
<1>4. HistoryTypeOK
  BY DEF Init, HistoryTypeOK
<1>5. QED
  BY <1>0, <1>1, <1>2, <1>3, <1>4 DEF TypeOK

\* A part of the type invariant holds on while its variables keep their values.
LEMMA KeptTypes ==
  ASSUME TypeOK
  PROVE  /\ UNCHANGED <<masterVars, mctx>> => MasterTypeOK'
         /\ UNCHANGED handlerVars => HandlerTypeOK'
         /\ UNCHANGED <<workerVars, inbox, wctx>> => WorkerTypeOK'
         /\ UNCHANGED receiverVars => ReceiverTypeOK'
         /\ UNCHANGED streamVars => StreamTypeOK'
         /\ UNCHANGED <<faults, roundVars, dataHistory>> => HistoryTypeOK'
<1>1. UNCHANGED <<masterVars, mctx>> => MasterTypeOK'
  BY DEF TypeOK, MasterTypeOK, masterVars, NumWorkers
<1>2. UNCHANGED handlerVars => HandlerTypeOK'
  BY DEF TypeOK, HandlerTypeOK, handlerVars
<1>3. UNCHANGED <<workerVars, inbox, wctx>> => WorkerTypeOK'
  BY DEF TypeOK, WorkerTypeOK, workerVars, computeVars
<1>4. UNCHANGED receiverVars => ReceiverTypeOK'
  BY DEF TypeOK, ReceiverTypeOK, receiverVars
<1>5. UNCHANGED streamVars => StreamTypeOK'
  BY DEF TypeOK, StreamTypeOK, streamVars
<1>6. UNCHANGED <<faults, roundVars, dataHistory>> => HistoryTypeOK'
  BY DEF TypeOK, HistoryTypeOK, roundVars, dataHistory
<1>7. QED
  BY <1>1, <1>2, <1>3, <1>4, <1>5, <1>6

LEMMA MasterStepType ==
  ASSUME TypeOK, MasterStep
  PROVE  TypeOK'

<1>1. CASE MasterStartsJob
  <2>1. MasterTypeOK'
    BY <1>1 DEF TypeOK, MasterTypeOK, MasterStartsJob
  <2>2. HandlerTypeOK' /\ WorkerTypeOK' /\ ReceiverTypeOK' /\ StreamTypeOK' /\ HistoryTypeOK'
    BY <1>1, KeptTypes DEF MasterStartsJob, MasterOnly, masterVars, handlerVars, workerVars, computeVars, receiverVars, streamVars, roundVars, dataHistory
  <2>3. QED
    BY <2>1, <2>2 DEF TypeOK
<1>2. CASE MasterStartFails
  <2>1. MasterTypeOK'
    BY <1>2 DEF TypeOK, MasterTypeOK, MasterStartFails, MasterReturns
  <2>2. HistoryTypeOK'
    BY <1>2 DEF TypeOK, HistoryTypeOK, MasterStartFails, Fault, MasterOnly, roundVars, dataHistory
  <2>3. HandlerTypeOK' /\ WorkerTypeOK' /\ ReceiverTypeOK' /\ StreamTypeOK'
    BY <1>2, KeptTypes DEF MasterStartFails, MasterOnly, masterVars, handlerVars, workerVars, computeVars, receiverVars, streamVars, roundVars, dataHistory
  <2>4. QED
    BY <2>1, <2>2, <2>3 DEF TypeOK
<1>3. ASSUME NEW w \in Workers, PublishJobDetails(w)
      PROVE  TypeOK'
  <2>1. MasterTypeOK'
    BY <1>3 DEF TypeOK, MasterTypeOK, PublishJobDetails
  <2>2. HandlerTypeOK'
    BY <1>3 DEF TypeOK, HandlerTypeOK, PublishJobDetails
  <2>3. StreamTypeOK'
    BY <1>3, SendToWorkerType DEF TypeOK, StreamTypeOK, PublishJobDetails, MasterPayload, JobDetailsMsg
  <2>4. WorkerTypeOK' /\ ReceiverTypeOK' /\ HistoryTypeOK'
    BY <1>3, KeptTypes DEF PublishJobDetails, MasterOnly, masterVars, handlerVars, workerVars, computeVars, receiverVars, streamVars, roundVars, dataHistory
  <2>5. QED
    BY <2>1, <2>2, <2>3, <2>4 DEF TypeOK
<1>4. CASE MasterBeginsSuperstep
  <2>1. MasterTypeOK'
    BY <1>4, NumWorkersType DEF TypeOK, MasterTypeOK, MasterBeginsSuperstep, EnterBarrier, Phases
  <2>2. HandlerTypeOK' /\ WorkerTypeOK' /\ ReceiverTypeOK' /\ StreamTypeOK' /\ HistoryTypeOK'
    BY <1>4, KeptTypes DEF MasterBeginsSuperstep, MasterOnly, masterVars, handlerVars, workerVars, computeVars, receiverVars, streamVars, roundVars, dataHistory
  <2>3. QED
    BY <2>1, <2>2 DEF TypeOK
<1>5. CASE AllWorkersArrived
  <2>1. MasterTypeOK'
    BY <1>5, NumWorkersType DEF TypeOK, MasterTypeOK, AllWorkersArrived, MasterReturns
  <2>2. HandlerTypeOK' /\ WorkerTypeOK' /\ ReceiverTypeOK' /\ StreamTypeOK' /\ HistoryTypeOK'
    BY <1>5, KeptTypes DEF AllWorkersArrived, MasterOnly, masterVars, handlerVars, workerVars, computeVars, receiverVars, streamVars, roundVars, dataHistory
  <2>3. QED
    BY <2>1, <2>2 DEF TypeOK
<1>6. CASE AllWorkersNotified
  <2>1. MasterTypeOK'
    BY <1>6, NumWorkersType DEF TypeOK, MasterTypeOK, AllWorkersNotified, EnterBarrier, Phases
  <2>2. HistoryTypeOK'
    BY <1>6 DEF TypeOK, HistoryTypeOK, AllWorkersNotified, Fault, MasterOnly, roundVars, dataHistory
  <2>3. HandlerTypeOK' /\ WorkerTypeOK' /\ ReceiverTypeOK' /\ StreamTypeOK'
    BY <1>6, KeptTypes DEF AllWorkersNotified, MasterOnly, masterVars, handlerVars, workerVars, computeVars, receiverVars, streamVars, roundVars, dataHistory
  <2>4. QED
    BY <2>1, <2>2, <2>3 DEF TypeOK
<1>7. CASE MasterCompletesJob
  <2>1. MasterTypeOK'
    BY <1>7, NumWorkersType DEF TypeOK, MasterTypeOK, MasterCompletesJob, EnterBarrier, Phases
  <2>2. HandlerTypeOK' /\ WorkerTypeOK' /\ ReceiverTypeOK' /\ StreamTypeOK' /\ HistoryTypeOK'
    BY <1>7, KeptTypes DEF MasterCompletesJob, MasterOnly, masterVars, handlerVars, workerVars, computeVars, receiverVars, streamVars, roundVars, dataHistory
  <2>3. QED
    BY <2>1, <2>2 DEF TypeOK
<1>8. CASE MasterCompleteFails
  <2>1. MasterTypeOK'
    BY <1>8 DEF TypeOK, MasterTypeOK, MasterCompleteFails, MasterReturns
  <2>2. HistoryTypeOK'
    BY <1>8 DEF TypeOK, HistoryTypeOK, MasterCompleteFails, Fault, MasterOnly, roundVars, dataHistory
  <2>3. HandlerTypeOK' /\ WorkerTypeOK' /\ ReceiverTypeOK' /\ StreamTypeOK'
    BY <1>8, KeptTypes DEF MasterCompleteFails, MasterOnly, masterVars, handlerVars, workerVars, computeVars, receiverVars, streamVars, roundVars, dataHistory
  <2>4. QED
    BY <2>1, <2>2, <2>3 DEF TypeOK
<1>9. CASE MasterAborts
  <2>1. MasterTypeOK'
    BY <1>9 DEF TypeOK, MasterTypeOK, MasterAborts, MasterReturns
  <2>2. HandlerTypeOK' /\ WorkerTypeOK' /\ ReceiverTypeOK' /\ StreamTypeOK' /\ HistoryTypeOK'
    BY <1>9, KeptTypes DEF MasterAborts, MasterOnly, masterVars, handlerVars, workerVars, computeVars, receiverVars, streamVars, roundVars, dataHistory
  <2>3. QED
    BY <2>1, <2>2 DEF TypeOK
<1>10. CASE MasterContextExpires
  <2>1. MasterTypeOK'
    BY <1>10 DEF TypeOK, MasterTypeOK, MasterContextExpires, masterVars
  <2>2. HistoryTypeOK'
    BY <1>10 DEF TypeOK, HistoryTypeOK, MasterContextExpires, Fault, MasterOnly, roundVars, dataHistory
  <2>3. HandlerTypeOK' /\ WorkerTypeOK' /\ ReceiverTypeOK' /\ StreamTypeOK'
    BY <1>10, KeptTypes DEF MasterContextExpires, MasterOnly, masterVars, handlerVars, workerVars, computeVars, receiverVars, streamVars, roundVars, dataHistory
  <2>4. QED
    BY <2>1, <2>2, <2>3 DEF TypeOK
<1>11. ASSUME NEW w \in Workers, MasterSeesDisconnect(w)
      PROVE  TypeOK'
  <2>1. MasterTypeOK'
    BY <1>11 DEF TypeOK, MasterTypeOK, MasterSeesDisconnect, masterVars
  <2>2. HandlerTypeOK' /\ WorkerTypeOK' /\ ReceiverTypeOK' /\ StreamTypeOK' /\ HistoryTypeOK'
    BY <1>11, KeptTypes DEF MasterSeesDisconnect, MasterOnly, masterVars, handlerVars, workerVars, computeVars, receiverVars, streamVars, roundVars, dataHistory
  <2>3. QED
    BY <2>1, <2>2 DEF TypeOK
<1>12. ASSUME NEW w \in Workers, MasterClosesStream(w)
      PROVE  TypeOK'
  <2>1. StreamTypeOK'
    BY <1>12, CutType DEF TypeOK, MasterClosesStream
  <2>2. MasterTypeOK' /\ HandlerTypeOK' /\ WorkerTypeOK' /\ ReceiverTypeOK' /\ HistoryTypeOK'
    BY <1>12, KeptTypes DEF MasterClosesStream, MasterOnly, masterVars, handlerVars, workerVars, computeVars, receiverVars, streamVars, roundVars, dataHistory
  <2>3. QED
    BY <2>1, <2>2 DEF TypeOK
<1>13. QED
  BY <1>1, <1>2, <1>3, <1>4, <1>5, <1>6, <1>7, <1>8, <1>9, <1>10, <1>11, <1>12 DEF MasterStep

LEMMA HandlerStepType ==
  ASSUME TypeOK, NEW w \in Workers, HandlerStep(w)
  PROVE  TypeOK'

<1>1. CASE HandlerTakesStep(w)
  <2>1. HandlerTypeOK'
    <3>1. Head(toMaster[w]) \in StepMsg
      BY <1>1, TakeTypes, PayloadKinds DEF TypeOK, HandlerTakesStep, MasterPayload
    <3>2. QED
      BY <3>1, <1>1 DEF TypeOK, HandlerTypeOK, HandlerTakesStep, WorkerPayload
  <2>2. StreamTypeOK'
    BY <1>1, TakeTypes DEF TypeOK, StreamTypeOK, HandlerTakesStep, HandlerOnly
  <2>3. MasterTypeOK' /\ WorkerTypeOK' /\ ReceiverTypeOK' /\ HistoryTypeOK'
    BY <1>1, KeptTypes DEF HandlerTakesStep, HandlerOnly, masterVars, handlerVars, workerVars, computeVars, receiverVars, streamVars, roundVars, dataHistory
  <2>4. QED
    BY <2>1, <2>2, <2>3 DEF TypeOK
<1>2. CASE HandlerTakesRelay(w)
  <2>1. MasterTypeOK'
    BY <1>2 DEF TypeOK, MasterTypeOK, HandlerTakesRelay, HandlerOnly
  <2>2. HandlerTypeOK'
    <3>1. Head(toMaster[w]) \in RelayMsg
      BY <1>2, TakeTypes, PayloadKinds DEF TypeOK, HandlerTakesRelay, MasterPayload
    <3>2. QED
      BY <3>1, <1>2 DEF TypeOK, HandlerTypeOK, HandlerTakesRelay, WorkerPayload, handlerVars
  <2>3. StreamTypeOK'
    BY <1>2, TakeTypes DEF TypeOK, StreamTypeOK, HandlerTakesRelay, HandlerOnly
  <2>4. WorkerTypeOK' /\ ReceiverTypeOK' /\ HistoryTypeOK'
    BY <1>2, KeptTypes DEF HandlerTakesRelay, HandlerOnly, masterVars, handlerVars, workerVars, computeVars, receiverVars, streamVars, roundVars, dataHistory
  <2>5. QED
    BY <2>1, <2>2, <2>3, <2>4 DEF TypeOK
<1>3. CASE HandlerJoins(w)
  <2>1. MasterTypeOK'
    BY <1>3, NumWorkersType DEF TypeOK, MasterTypeOK, HandlerTypeOK, StepMsg, HandlerJoins, HandlerOnly
  <2>2. HandlerTypeOK'
    BY <1>3 DEF TypeOK, HandlerTypeOK, HandlerJoins
  <2>3. HistoryTypeOK'
    BY <1>3 DEF TypeOK, HistoryTypeOK, HandlerJoins, HandlerOnly, dataHistory
  <2>4. WorkerTypeOK' /\ ReceiverTypeOK' /\ StreamTypeOK'
    BY <1>3, KeptTypes DEF HandlerJoins, HandlerOnly, masterVars, handlerVars, workerVars, computeVars, receiverVars, streamVars, roundVars, dataHistory
  <2>5. QED
    BY <2>1, <2>2, <2>3, <2>4 DEF TypeOK
<1>4. CASE HandlerNotified(w)
  <2>1. MasterTypeOK'
    BY <1>4, NumWorkersType DEF TypeOK, MasterTypeOK, HandlerNotified, HandlerOnly
  <2>2. HandlerTypeOK'
    <3>1. Broadcast \in StepMsg
      BY StepType DEF TypeOK, MasterTypeOK, Broadcast
    <3>2. QED
      BY <3>1, <1>4 DEF TypeOK, HandlerTypeOK, HandlerNotified, WorkerPayload
  <2>3. HistoryTypeOK'
    BY <1>4 DEF TypeOK, HistoryTypeOK, HandlerNotified, HandlerOnly, dataHistory
  <2>4. WorkerTypeOK' /\ ReceiverTypeOK' /\ StreamTypeOK'
    BY <1>4, KeptTypes DEF HandlerNotified, HandlerOnly, masterVars, handlerVars, workerVars, computeVars, receiverVars, streamVars, roundVars, dataHistory
  <2>5. QED
    BY <2>1, <2>2, <2>3, <2>4 DEF TypeOK
<1>5. CASE HandlerSends(w)
  <2>1. HandlerTypeOK'
    BY <1>5 DEF TypeOK, HandlerTypeOK, HandlerSends
  <2>2. StreamTypeOK'
    <3>1. hpc[w] \in {"reply", "relay"} /\ hmsg[w] \in MasterPayload
      BY <1>5 DEF TypeOK, HandlerTypeOK, HandlerSends, MasterPayload, WorkerPayload
    <3>2. hpc[w] = "relay" => hmsg[w].dst \in Workers
      BY DEF TypeOK, HandlerTypeOK, RelayMsg
    <3>3. QED
      BY <3>1, <3>2, <1>5, SendToWorkerType DEF TypeOK, StreamTypeOK, HandlerSends, HandlerOnly
  <2>3. MasterTypeOK' /\ WorkerTypeOK' /\ ReceiverTypeOK' /\ HistoryTypeOK'
    BY <1>5, KeptTypes DEF HandlerSends, HandlerOnly, masterVars, handlerVars, workerVars, computeVars, receiverVars, streamVars, roundVars, dataHistory
  <2>4. QED
    BY <2>1, <2>2, <2>3 DEF TypeOK
<1>6. CASE HandlerDrops(w)
  <2>1. HandlerTypeOK'
    BY <1>6 DEF TypeOK, HandlerTypeOK, HandlerDrops
  <2>2. MasterTypeOK' /\ WorkerTypeOK' /\ ReceiverTypeOK' /\ StreamTypeOK' /\ HistoryTypeOK'
    BY <1>6, KeptTypes DEF HandlerDrops, HandlerOnly, masterVars, handlerVars, workerVars, computeVars, receiverVars, streamVars, roundVars, dataHistory
  <2>3. QED
    BY <2>1, <2>2 DEF TypeOK
<1>7. CASE HandlerExits(w)
  <2>1. HandlerTypeOK'
    BY <1>7 DEF TypeOK, HandlerTypeOK, HandlerExits
  <2>2. MasterTypeOK' /\ WorkerTypeOK' /\ ReceiverTypeOK' /\ StreamTypeOK' /\ HistoryTypeOK'
    BY <1>7, KeptTypes DEF HandlerExits, HandlerOnly, masterVars, handlerVars, workerVars, computeVars, receiverVars, streamVars, roundVars, dataHistory
  <2>3. QED
    BY <2>1, <2>2 DEF TypeOK
<1>8. QED
  BY <1>1, <1>2, <1>3, <1>4, <1>5, <1>6, <1>7 DEF HandlerStep

LEMMA WorkerStepType ==
  ASSUME TypeOK, NEW w \in Workers, WorkerStep(w)
  PROVE  TypeOK'

<1>1. CASE WorkerTakesJob(w)
  <2>1. WorkerTypeOK'
    BY <1>1 DEF TypeOK, WorkerTypeOK, WorkerTakesJob, Goto, WorkerReturns, HeadsFor, workerVars, computeVars, Phases
  <2>2. StreamTypeOK'
    BY <1>1, TakeTypes DEF TypeOK, StreamTypeOK, WorkerTakesJob
  <2>3. MasterTypeOK' /\ HandlerTypeOK' /\ ReceiverTypeOK' /\ HistoryTypeOK'
    BY <1>1, KeptTypes DEF WorkerTakesJob, MasterSide, masterVars, handlerVars, workerVars, computeVars, receiverVars, streamVars, roundVars, dataHistory
  <2>4. QED
    BY <2>1, <2>2, <2>3 DEF TypeOK
<1>2. CASE WorkerGetsNoJob(w)
  <2>1. WorkerTypeOK'
    BY <1>2 DEF TypeOK, WorkerTypeOK, WorkerGetsNoJob, Goto, WorkerReturns, HeadsFor, workerVars, computeVars, Phases
  <2>2. MasterTypeOK' /\ HandlerTypeOK' /\ ReceiverTypeOK' /\ StreamTypeOK' /\ HistoryTypeOK'
    BY <1>2, KeptTypes DEF WorkerGetsNoJob, MasterSide, masterVars, handlerVars, workerVars, computeVars, receiverVars, streamVars, roundVars, dataHistory
  <2>3. QED
    BY <2>1, <2>2 DEF TypeOK
<1>3. CASE WorkerStartsJob(w)
  <2>1. WorkerTypeOK'
    BY <1>3 DEF TypeOK, WorkerTypeOK, WorkerStartsJob, Goto, WorkerReturns, HeadsFor, workerVars, computeVars, Phases
  <2>2. ReceiverTypeOK'
    BY <1>3 DEF TypeOK, ReceiverTypeOK, WorkerStartsJob
  <2>3. MasterTypeOK' /\ HandlerTypeOK' /\ StreamTypeOK' /\ HistoryTypeOK'
    BY <1>3, KeptTypes DEF WorkerStartsJob, MasterSide, masterVars, handlerVars, workerVars, computeVars, receiverVars, streamVars, roundVars, dataHistory
  <2>4. QED
    BY <2>1, <2>2, <2>3 DEF TypeOK
<1>4. CASE WorkerStartFails(w)
  <2>1. WorkerTypeOK'
    BY <1>4 DEF TypeOK, WorkerTypeOK, WorkerStartFails, Goto, WorkerReturns, HeadsFor, workerVars, computeVars, Phases
  <2>2. HistoryTypeOK'
    BY <1>4 DEF TypeOK, HistoryTypeOK, WorkerStartFails, Fault, roundVars, dataHistory
  <2>3. MasterTypeOK' /\ HandlerTypeOK' /\ ReceiverTypeOK' /\ StreamTypeOK'
    BY <1>4, KeptTypes DEF WorkerStartFails, MasterSide, masterVars, handlerVars, workerVars, computeVars, receiverVars, streamVars, roundVars, dataHistory
  <2>4. QED
    BY <2>1, <2>2, <2>3 DEF TypeOK
<1>5. CASE WorkerBeginsSuperstep(w)
  <2>1. WorkerTypeOK'
    BY <1>5 DEF TypeOK, WorkerTypeOK, WorkerBeginsSuperstep, Goto, WorkerReturns, HeadsFor, workerVars, computeVars, Phases
  <2>2. MasterTypeOK' /\ HandlerTypeOK' /\ ReceiverTypeOK' /\ StreamTypeOK' /\ HistoryTypeOK'
    BY <1>5, KeptTypes DEF WorkerBeginsSuperstep, MasterSide, masterVars, handlerVars, workerVars, computeVars, receiverVars, streamVars, roundVars, dataHistory
  <2>3. QED
    BY <2>1, <2>2 DEF TypeOK
<1>6. ASSUME NEW d \in Workers, NEW known \in BOOLEAN, WorkerRelays(w, d, known)
      PROVE  TypeOK'
  <2>1. WorkerTypeOK'
    BY <1>6 DEF TypeOK, WorkerTypeOK, WorkerRelays, Goto, WorkerReturns, HeadsFor, workerVars, computeVars, Phases
  <2>2. StreamTypeOK'
    <3> DEFINE m == [type |-> "relay", dst |-> d, known |-> known, sent |-> wstep[w]]
    <3>1. m \in WorkerPayload
      BY <1>6 DEF TypeOK, WorkerTypeOK, WorkerPayload, RelayMsg
    <3>2. SendToMaster(w, m)
      BY <1>6 DEF WorkerRelays
    <3>3. QED
      BY <3>1, <3>2, <1>6, SendToMasterType DEF TypeOK, StreamTypeOK, WorkerRelays
  <2>3. HistoryTypeOK'
    <3>1. wstep[w] \in Supersteps
      BY <1>6, BoundsAssumption DEF TypeOK, WorkerTypeOK, WorkerRelays, Supersteps
    <3>2. sentTo' \in [Workers -> [Supersteps -> Nat]]
      BY <1>6, <3>1, CountType DEF TypeOK, HistoryTypeOK, WorkerRelays
    <3>3. strayed' \in Nat
      BY <1>6 DEF TypeOK, HistoryTypeOK, WorkerRelays
    <3>4. QED
      BY <3>2, <3>3, <1>6 DEF TypeOK, HistoryTypeOK, WorkerRelays, roundVars
  <2>4. MasterTypeOK' /\ HandlerTypeOK' /\ ReceiverTypeOK'
    BY <1>6, KeptTypes DEF WorkerRelays, MasterSide, masterVars, handlerVars, workerVars, computeVars, receiverVars, streamVars, roundVars, dataHistory
  <2>5. QED
    BY <2>1, <2>2, <2>3, <2>4 DEF TypeOK
<1>7. ASSUME NEW act \in {0, 1}, NEW delta \in {0, 1}, WorkerEndsStep(w, act, delta)
      PROVE  TypeOK'
  <2>1. WorkerTypeOK'
    <3>1. inbox' \in [Workers -> [{0, 1} -> Nat]]
      BY <1>7 DEF TypeOK, WorkerTypeOK, WorkerEndsStep
    <3>2. value' \in [Workers -> Int] /\ active' \in [Workers -> {0, 1}] /\ nrelay' \in [Workers -> Nat]
      BY <1>7 DEF TypeOK, WorkerTypeOK, WorkerEndsStep
    <3>3. QED
      BY <3>1, <3>2, <1>7 DEF TypeOK, WorkerTypeOK, WorkerEndsStep, Goto, HeadsFor, Phases
  <2>2. HistoryTypeOK'
    <3>1. tally' \in [Supersteps -> Int]
      BY <1>7 DEF TypeOK, HistoryTypeOK, WorkerEndsStep
    <3>2. QED
      BY <3>1, <1>7 DEF TypeOK, HistoryTypeOK, WorkerEndsStep, roundVars
  <2>3. MasterTypeOK' /\ HandlerTypeOK' /\ ReceiverTypeOK' /\ StreamTypeOK'
    BY <1>7, KeptTypes DEF WorkerEndsStep, MasterSide, masterVars, handlerVars, workerVars, computeVars, receiverVars, streamVars, roundVars, dataHistory
  <2>4. QED
    BY <2>1, <2>2, <2>3 DEF TypeOK
<1>8. CASE WorkerStepFails(w)
  <2>1. WorkerTypeOK'
    BY <1>8 DEF TypeOK, WorkerTypeOK, WorkerStepFails, Goto, WorkerReturns, HeadsFor, workerVars, computeVars, Phases
  <2>2. HistoryTypeOK'
    BY <1>8 DEF TypeOK, HistoryTypeOK, WorkerStepFails, Fault, roundVars, dataHistory
  <2>3. MasterTypeOK' /\ HandlerTypeOK' /\ ReceiverTypeOK' /\ StreamTypeOK'
    BY <1>8, KeptTypes DEF WorkerStepFails, MasterSide, masterVars, handlerVars, workerVars, computeVars, receiverVars, streamVars, roundVars, dataHistory
  <2>4. QED
    BY <2>1, <2>2, <2>3 DEF TypeOK
<1>9. CASE WorkerEnters(w)
  <2>1. WorkerTypeOK'
    BY <1>9 DEF TypeOK, WorkerTypeOK, WorkerEnters, Goto, WorkerReturns, HeadsFor, workerVars, computeVars, Phases
  <2>2. StreamTypeOK'
    <3>1. Step(wphase[w], StepValue(w)) \in WorkerPayload
      BY StepType DEF TypeOK, WorkerTypeOK, WorkerPayload, StepValue
    <3>2. QED
      BY <3>1, <1>9, SendToMasterType DEF TypeOK, StreamTypeOK, WorkerEnters
  <2>3. HistoryTypeOK'
    BY <1>9 DEF TypeOK, HistoryTypeOK, WorkerEnters, Fault, roundVars, dataHistory
  <2>4. MasterTypeOK' /\ HandlerTypeOK' /\ ReceiverTypeOK'
    BY <1>9, KeptTypes DEF WorkerEnters, MasterSide, masterVars, handlerVars, workerVars, computeVars, receiverVars, streamVars, roundVars, dataHistory
  <2>5. QED
    BY <2>1, <2>2, <2>3, <2>4 DEF TypeOK
<1>10. CASE WorkerLeavesPre(w)
  <2>1. WorkerTypeOK'
    BY <1>10 DEF TypeOK, WorkerTypeOK, ReceiverTypeOK, StepMsg, WorkerLeavesPre, Leaves, Goto, HeadsFor, computeVars, Phases
  <2>2. ReceiverTypeOK'
    BY <1>10 DEF TypeOK, ReceiverTypeOK, WorkerLeavesPre, Leaves
  <2>3. HistoryTypeOK'
    BY <1>10 DEF TypeOK, HistoryTypeOK, WorkerLeavesPre, Leaves, roundVars, dataHistory
  <2>4. MasterTypeOK' /\ HandlerTypeOK' /\ StreamTypeOK'
    BY <1>10, KeptTypes DEF WorkerLeavesPre, Leaves, MasterSide, masterVars, handlerVars, workerVars, computeVars, receiverVars, streamVars, roundVars, dataHistory
  <2>5. QED
    BY <2>1, <2>2, <2>3, <2>4 DEF TypeOK
<1>11. CASE WorkerLeavesPost(w)
  <2>1. WorkerTypeOK'
    BY <1>11 DEF TypeOK, WorkerTypeOK, ReceiverTypeOK, StepMsg, WorkerLeavesPost, Leaves, Goto, HeadsFor, computeVars, Phases
  <2>2. ReceiverTypeOK'
    BY <1>11 DEF TypeOK, ReceiverTypeOK, WorkerLeavesPost, Leaves
  <2>3. HistoryTypeOK'
    BY <1>11 DEF TypeOK, HistoryTypeOK, WorkerLeavesPost, Leaves, roundVars, dataHistory
  <2>4. MasterTypeOK' /\ HandlerTypeOK' /\ StreamTypeOK'
    BY <1>11, KeptTypes DEF WorkerLeavesPost, Leaves, MasterSide, masterVars, handlerVars, workerVars, computeVars, receiverVars, streamVars, roundVars, dataHistory
  <2>5. QED
    BY <2>1, <2>2, <2>3, <2>4 DEF TypeOK
<1>12. CASE WorkerLeavesKeep(w)
  <2>1. WorkerTypeOK'
    <3>1. wstep' \in [Workers -> Nat]
      BY <1>12 DEF TypeOK, WorkerTypeOK, WorkerLeavesKeep
    <3>2. wpc' \in [Workers -> {"idle", "load", "check", "enter", "wait", "compute", "complete", "done"}]
          /\ wphase' \in [Workers -> Phases]
      BY <1>12 DEF TypeOK, WorkerTypeOK, WorkerLeavesKeep, Goto, HeadsFor, Phases
    <3>3. QED
      BY <3>1, <3>2, <1>12 DEF TypeOK, WorkerTypeOK, WorkerLeavesKeep, Leaves
  <2>2. ReceiverTypeOK'
    BY <1>12 DEF TypeOK, ReceiverTypeOK, WorkerLeavesKeep, Leaves
  <2>3. HistoryTypeOK'
    BY <1>12 DEF TypeOK, HistoryTypeOK, WorkerLeavesKeep, Leaves, roundVars, dataHistory
  <2>4. MasterTypeOK' /\ HandlerTypeOK' /\ StreamTypeOK'
    BY <1>12, KeptTypes DEF WorkerLeavesKeep, Leaves, MasterSide, masterVars, handlerVars, workerVars, computeVars, receiverVars, streamVars, roundVars, dataHistory
  <2>5. QED
    BY <2>1, <2>2, <2>3, <2>4 DEF TypeOK
<1>13. CASE WorkerLeavesExecuted(w)
  <2>1. WorkerTypeOK'
    BY <1>13 DEF TypeOK, WorkerTypeOK, ReceiverTypeOK, StepMsg, WorkerLeavesExecuted, Leaves, Goto, HeadsFor, computeVars, Phases
  <2>2. ReceiverTypeOK'
    BY <1>13 DEF TypeOK, ReceiverTypeOK, WorkerLeavesExecuted, Leaves
  <2>3. HistoryTypeOK'
    BY <1>13 DEF TypeOK, HistoryTypeOK, WorkerLeavesExecuted, Leaves, roundVars, dataHistory
  <2>4. MasterTypeOK' /\ HandlerTypeOK' /\ StreamTypeOK'
    BY <1>13, KeptTypes DEF WorkerLeavesExecuted, Leaves, MasterSide, masterVars, handlerVars, workerVars, computeVars, receiverVars, streamVars, roundVars, dataHistory
  <2>5. QED
    BY <2>1, <2>2, <2>3, <2>4 DEF TypeOK
<1>14. CASE WorkerLeavesPersisted(w)
  <2>1. WorkerTypeOK'
    BY <1>14 DEF TypeOK, WorkerTypeOK, ReceiverTypeOK, StepMsg, WorkerLeavesPersisted, Leaves, Goto, HeadsFor, computeVars, Phases
  <2>2. ReceiverTypeOK'
    BY <1>14 DEF TypeOK, ReceiverTypeOK, WorkerLeavesPersisted, Leaves
  <2>3. HistoryTypeOK'
    BY <1>14 DEF TypeOK, HistoryTypeOK, WorkerLeavesPersisted, Leaves, roundVars, dataHistory
  <2>4. MasterTypeOK' /\ HandlerTypeOK' /\ StreamTypeOK'
    BY <1>14, KeptTypes DEF WorkerLeavesPersisted, Leaves, MasterSide, masterVars, handlerVars, workerVars, computeVars, receiverVars, streamVars, roundVars, dataHistory
  <2>5. QED
    BY <2>1, <2>2, <2>3, <2>4 DEF TypeOK
<1>15. CASE WorkerCompletesJob(w)
  <2>1. WorkerTypeOK'
    BY <1>15 DEF TypeOK, WorkerTypeOK, WorkerCompletesJob, Goto, WorkerReturns, HeadsFor, workerVars, computeVars, Phases
  <2>2. MasterTypeOK' /\ HandlerTypeOK' /\ ReceiverTypeOK' /\ StreamTypeOK' /\ HistoryTypeOK'
    BY <1>15, KeptTypes DEF WorkerCompletesJob, MasterSide, masterVars, handlerVars, workerVars, computeVars, receiverVars, streamVars, roundVars, dataHistory
  <2>3. QED
    BY <2>1, <2>2 DEF TypeOK
<1>16. CASE WorkerCompleteFails(w)
  <2>1. WorkerTypeOK'
    BY <1>16 DEF TypeOK, WorkerTypeOK, WorkerCompleteFails, Goto, WorkerReturns, HeadsFor, workerVars, computeVars, Phases
  <2>2. HistoryTypeOK'
    BY <1>16 DEF TypeOK, HistoryTypeOK, WorkerCompleteFails, Fault, roundVars, dataHistory
  <2>3. MasterTypeOK' /\ HandlerTypeOK' /\ ReceiverTypeOK' /\ StreamTypeOK'
    BY <1>16, KeptTypes DEF WorkerCompleteFails, MasterSide, masterVars, handlerVars, workerVars, computeVars, receiverVars, streamVars, roundVars, dataHistory
  <2>4. QED
    BY <2>1, <2>2, <2>3 DEF TypeOK
<1>17. CASE WorkerAborts(w)
  <2>1. WorkerTypeOK'
    BY <1>17 DEF TypeOK, WorkerTypeOK, WorkerAborts, Goto, WorkerReturns, HeadsFor, workerVars, computeVars, Phases
  <2>2. MasterTypeOK' /\ HandlerTypeOK' /\ ReceiverTypeOK' /\ StreamTypeOK' /\ HistoryTypeOK'
    BY <1>17, KeptTypes DEF WorkerAborts, MasterSide, masterVars, handlerVars, workerVars, computeVars, receiverVars, streamVars, roundVars, dataHistory
  <2>3. QED
    BY <2>1, <2>2 DEF TypeOK
<1>18. CASE WorkerContextExpires(w)
  <2>1. WorkerTypeOK'
    BY <1>18 DEF TypeOK, WorkerTypeOK, WorkerContextExpires, Goto, WorkerReturns, HeadsFor, workerVars, computeVars, Phases
  <2>2. StreamTypeOK'
    BY <1>18, CutType, QueueLengths DEF TypeOK, WorkerContextExpires
  <2>3. HistoryTypeOK'
    BY <1>18 DEF TypeOK, HistoryTypeOK, WorkerContextExpires, Fault, roundVars, dataHistory
  <2>4. MasterTypeOK' /\ HandlerTypeOK' /\ ReceiverTypeOK'
    BY <1>18, KeptTypes DEF WorkerContextExpires, MasterSide, masterVars, handlerVars, workerVars, computeVars, receiverVars, streamVars, roundVars, dataHistory
  <2>5. QED
    BY <2>1, <2>2, <2>3, <2>4 DEF TypeOK
<1>19. CASE WorkerClosesStream(w)
  <2>1. StreamTypeOK'
    BY <1>19, CutType DEF TypeOK, WorkerClosesStream
  <2>2. MasterTypeOK' /\ HandlerTypeOK' /\ WorkerTypeOK' /\ ReceiverTypeOK' /\ HistoryTypeOK'
    BY <1>19, KeptTypes DEF WorkerClosesStream, MasterSide, masterVars, handlerVars, workerVars, computeVars, receiverVars, streamVars, roundVars, dataHistory
  <2>3. QED
    BY <2>1, <2>2 DEF TypeOK
<1>20. QED
  BY <1>1, <1>2, <1>3, <1>4, <1>5, <1>6, <1>7, <1>8, <1>9, <1>10, <1>11, <1>12, <1>13, <1>14, <1>15, <1>16, <1>17, <1>18, <1>19 DEF WorkerStep

LEMMA ReceiverStepType ==
  ASSUME TypeOK, NEW w \in Workers, ReceiverStep(w)
  PROVE  TypeOK'

<1>1. CASE ReceiverTakesStep(w)
  <2>1. ReceiverTypeOK'
    BY <1>1, TakeTypes, PayloadKinds DEF TypeOK, ReceiverTypeOK, ReceiverTakesStep
  <2>2. StreamTypeOK'
    BY <1>1, TakeTypes DEF TypeOK, StreamTypeOK, ReceiverTakesStep, WorkerOnly
  <2>3. MasterTypeOK' /\ HandlerTypeOK' /\ WorkerTypeOK' /\ HistoryTypeOK'
    BY <1>1, KeptTypes DEF ReceiverTakesStep, WorkerOnly, MasterSide, masterVars, handlerVars, workerVars, computeVars, receiverVars, streamVars, roundVars, dataHistory
  <2>4. QED
    BY <2>1, <2>2, <2>3 DEF TypeOK
<1>2. CASE ReceiverTakesRelay(w)
  <2>1. WorkerTypeOK'
    <3> DEFINE q == (wstep[w] + 1) % 2
    <3>1. q \in {0, 1}
      BY Parity DEF TypeOK, WorkerTypeOK
    <3>2. inbox \in [Workers -> [{0, 1} -> Nat]]
      BY DEF TypeOK, WorkerTypeOK
    <3>3. inbox' = inbox \/ inbox' = [inbox EXCEPT ![w][q] = @ + 1]
      BY <1>2 DEF ReceiverTakesRelay
    <3> HIDE DEF q
    <3>4. [inbox EXCEPT ![w][q] = @ + 1] \in [Workers -> [{0, 1} -> Nat]]
      BY <3>1, <3>2, CountType
    <3>5. inbox' \in [Workers -> [{0, 1} -> Nat]]
      BY <3>2, <3>3, <3>4
    <3>6. QED
      BY <3>5, <1>2 DEF TypeOK, WorkerTypeOK, ReceiverTakesRelay, WorkerOnly, workerVars, computeVars
  <2>2. ReceiverTypeOK'
    BY <1>2, TakeTypes, PayloadKinds DEF TypeOK, ReceiverTypeOK, ReceiverTakesRelay, receiverVars
  <2>3. StreamTypeOK'
    BY <1>2, TakeTypes DEF TypeOK, StreamTypeOK, ReceiverTakesRelay, WorkerOnly
  <2>4. MasterTypeOK' /\ HandlerTypeOK' /\ HistoryTypeOK'
    BY <1>2, KeptTypes DEF ReceiverTakesRelay, WorkerOnly, MasterSide, masterVars, handlerVars, workerVars, computeVars, receiverVars, streamVars, roundVars, dataHistory
  <2>5. QED
    BY <2>1, <2>2, <2>3, <2>4 DEF TypeOK
<1>3. CASE ReceiverBounces(w)
  <2>1. ReceiverTypeOK'
    BY <1>3 DEF TypeOK, ReceiverTypeOK, ReceiverBounces
  <2>2. StreamTypeOK'
    BY <1>3, SendToMasterType DEF TypeOK, StreamTypeOK, ReceiverTypeOK, WorkerPayload, ReceiverBounces, WorkerOnly
  <2>3. MasterTypeOK' /\ HandlerTypeOK' /\ WorkerTypeOK' /\ HistoryTypeOK'
    BY <1>3, KeptTypes DEF ReceiverBounces, WorkerOnly, MasterSide, masterVars, handlerVars, workerVars, computeVars, receiverVars, streamVars, roundVars, dataHistory
  <2>4. QED
    BY <2>1, <2>2, <2>3 DEF TypeOK
<1>4. CASE ReceiverExits(w)
  <2>1. ReceiverTypeOK'
    BY <1>4 DEF TypeOK, ReceiverTypeOK, ReceiverExits
  <2>2. MasterTypeOK' /\ HandlerTypeOK' /\ WorkerTypeOK' /\ StreamTypeOK' /\ HistoryTypeOK'
    BY <1>4, KeptTypes DEF ReceiverExits, WorkerOnly, MasterSide, masterVars, handlerVars, workerVars, computeVars, receiverVars, streamVars, roundVars, dataHistory
  <2>3. QED
    BY <2>1, <2>2 DEF TypeOK
<1>5. CASE WorkerSeesDisconnect(w)
  <2>1. WorkerTypeOK'
    BY <1>5 DEF TypeOK, WorkerTypeOK, WorkerSeesDisconnect, WorkerOnly, workerVars, computeVars
  <2>2. MasterTypeOK' /\ HandlerTypeOK' /\ ReceiverTypeOK' /\ StreamTypeOK' /\ HistoryTypeOK'
    BY <1>5, KeptTypes DEF WorkerSeesDisconnect, WorkerOnly, MasterSide, masterVars, handlerVars, workerVars, computeVars, receiverVars, streamVars, roundVars, dataHistory
  <2>3. QED
    BY <2>1, <2>2 DEF TypeOK
<1>6. QED
  BY <1>1, <1>2, <1>3, <1>4, <1>5 DEF ReceiverStep

LEMMA StepKeepsType == TypeOK /\ [Next]_vars => TypeOK'
<1> SUFFICES ASSUME TypeOK, [Next]_vars PROVE TypeOK'
  OBVIOUS
<1>1. CASE MasterStep
  BY <1>1, MasterStepType
<1>2. ASSUME NEW w \in Workers, HandlerStep(w)
      PROVE  TypeOK'
  BY <1>2, HandlerStepType
<1>3. ASSUME NEW w \in Workers, WorkerStep(w)
      PROVE  TypeOK'
  BY <1>3, WorkerStepType
<1>4. ASSUME NEW w \in Workers, ReceiverStep(w)
      PROVE  TypeOK'
  BY <1>4, ReceiverStepType
<1>5. ASSUME NEW w \in Workers, LinkBreaks(w)
      PROVE  TypeOK'
  <2>1. StreamTypeOK'
    BY <1>5, CutType DEF TypeOK, LinkBreaks
  <2>2. HistoryTypeOK'
    BY <1>5 DEF TypeOK, HistoryTypeOK, LinkBreaks, Fault, roundVars, dataHistory
  <2>3. MasterTypeOK' /\ HandlerTypeOK' /\ WorkerTypeOK' /\ ReceiverTypeOK'
    BY <1>5, KeptTypes DEF LinkBreaks, masterVars, handlerVars, workerVars, receiverVars
  <2>4. QED
    BY <2>1, <2>2, <2>3 DEF TypeOK
<1>6. CASE UNCHANGED vars
  BY <1>6, KeptTypes DEF TypeOK, vars
<1>7. QED
  BY <1>1, <1>2, <1>3, <1>4, <1>5, <1>6 DEF Next, Stutter

\* Every goroutine, stream and counter only ever holds values of its type, and
\* a goroutine that works on a payload works on one of the kind it expects.
THEOREM TypeCorrect == Spec => []TypeOK
<1>1. Init => TypeOK
  BY InitType
<1>2. TypeOK /\ [Next]_vars => TypeOK'
  BY StepKeepsType
<1>3. QED
  BY <1>1, <1>2, PTL DEF Spec

-----------------------------------------------------------------------------
(***************************************************************************)
(* CommitIsTotal.                                                          *)
(***************************************************************************)

(***************************************************************************)
(* What the operations on the streams do to the payloads in flight.        *)
(***************************************************************************)

LEMMA QueueRanges ==
  ASSUME NEW S, NEW q \in Seq(S)
  PROVE  /\ \A m \in S : Range(Append(q, m)) = Range(q) \cup {m}
         /\ q # <<>> => Head(q) \in Range(q) /\ Range(Tail(q)) \subseteq Range(q)
         /\ \A i \in 0 .. Len(q) : Range(SubSeq(q, 1, i)) \subseteq Range(q)
<1>0. Range(q) = {q[i] : i \in 1 .. Len(q)} /\ Len(q) \in Nat
  BY RangeEquality, LenProperties
<1>1. ASSUME NEW m \in S
      PROVE  Range(Append(q, m)) = Range(q) \cup {m}
  <2> DEFINE a == Append(q, m)
  <2>1. /\ a \in Seq(S) /\ Len(a) = Len(q) + 1
        /\ \A i \in 1 .. Len(q) : a[i] = q[i]
        /\ a[Len(q) + 1] = m
    BY AppendProperties
  <2>2. Range(a) = {a[i] : i \in 1 .. Len(a)}
    BY <2>1, RangeEquality
  <2> HIDE DEF a
  <2>3. \A i \in 1 .. Len(a) : i \in 1 .. Len(q) \/ i = Len(q) + 1
    BY <1>0, <2>1
  <2>4. QED
    BY <1>0, <2>1, <2>2, <2>3 DEF a
<1>2. ASSUME q # <<>>
      PROVE  Head(q) \in Range(q) /\ Range(Tail(q)) \subseteq Range(q)
  <2> DEFINE t == Tail(q)
  <2>1. /\ t \in Seq(S) /\ Len(t) = Len(q) - 1
        /\ \A i \in 1 .. Len(t) : t[i] = q[i + 1]
        /\ Head(q) = q[1] /\ Len(q) >= 1
    BY <1>2, HeadTailProperties, EmptySeq, <1>0
  <2>2. Range(t) = {t[i] : i \in 1 .. Len(t)}
    BY <2>1, RangeEquality
  <2> HIDE DEF t
  <2>3. \A i \in 1 .. Len(t) : i + 1 \in 1 .. Len(q)
    BY <1>0, <2>1
  <2>4. QED
    BY <1>0, <2>1, <2>2, <2>3 DEF t
<1>3. ASSUME NEW i \in 0 .. Len(q)
      PROVE  Range(SubSeq(q, 1, i)) \subseteq Range(q)
  <2> DEFINE s == SubSeq(q, 1, i)
  <2>1. i \in Int /\ \A k \in 1 .. i : q[k] \in S
    BY <1>0, ElementOfSeq
  <2>2. s \in Seq(S) /\ Len(s) = i /\ \A k \in 1 .. i : s[k] = q[k]
    BY <2>1, <1>0, SubSeqProperties
  <2>3. Range(s) = {s[k] : k \in 1 .. Len(s)}
    BY <2>2, RangeEquality
  <2> HIDE DEF s
  <2>4. \A k \in 1 .. i : k \in 1 .. Len(q)
    BY <1>0
  <2>5. QED
    BY <1>0, <2>2, <2>3, <2>4 DEF s
<1>4. QED
  BY <1>1, <1>2, <1>3

LEMMA SendToMasterRange ==
  ASSUME StreamTypeOK, NEW w \in Workers, NEW m \in WorkerPayload, SendToMaster(w, m)
  PROVE  \A v \in Workers : \A p \in Range(toMaster'[v]) :
           p \in Range(toMaster[v]) \/ (v = w /\ p = m)
<1>1. Range(Append(toMaster[w], m)) = Range(toMaster[w]) \cup {m}
  BY QueueRanges DEF StreamTypeOK
<1>2. QED
  BY <1>1 DEF StreamTypeOK, SendToMaster

LEMMA SendToWorkerRange ==
  ASSUME StreamTypeOK, NEW w \in Workers, NEW m \in MasterPayload, SendToWorker(w, m)
  PROVE  \A v \in Workers : \A p \in Range(toWorker'[v]) :
           p \in Range(toWorker[v]) \/ (v = w /\ p = m)
<1>1. Range(Append(toWorker[w], m)) = Range(toWorker[w]) \cup {m}
  BY QueueRanges DEF StreamTypeOK
<1>2. QED
  BY <1>1 DEF StreamTypeOK, SendToWorker

\* Taking a payload off a stream adds none to it.
LEMMA TakeRange ==
  ASSUME StreamTypeOK, NEW w \in Workers
  PROVE  /\ toMaster[w] # <<>> =>
              /\ Head(toMaster[w]) \in Range(toMaster[w])
              /\ toMaster' = [toMaster EXCEPT ![w] = Tail(@)] =>
                   \A v \in Workers : Range(toMaster'[v]) \subseteq Range(toMaster[v])
         /\ toWorker[w] # <<>> =>
              /\ Head(toWorker[w]) \in Range(toWorker[w])
              /\ toWorker' = [toWorker EXCEPT ![w] = Tail(@)] =>
                   \A v \in Workers : Range(toWorker'[v]) \subseteq Range(toWorker[v])
<1>1. toMaster[w] # <<>> => /\ Head(toMaster[w]) \in Range(toMaster[w])
                            /\ Range(Tail(toMaster[w])) \subseteq Range(toMaster[w])
  BY QueueRanges DEF StreamTypeOK
<1>2. toWorker[w] # <<>> => /\ Head(toWorker[w]) \in Range(toWorker[w])
                            /\ Range(Tail(toWorker[w])) \subseteq Range(toWorker[w])
  BY QueueRanges DEF StreamTypeOK
<1>3. QED
  BY <1>1, <1>2 DEF StreamTypeOK

LEMMA CutRange ==
  ASSUME StreamTypeOK, NEW w \in Workers,
         NEW i \in 0 .. Len(toMaster[w]), NEW j \in 0 .. Len(toWorker[w]), Cut(w, i, j)
  PROVE  \A v \in Workers : /\ Range(toMaster'[v]) \subseteq Range(toMaster[v])
                            /\ Range(toWorker'[v]) \subseteq Range(toWorker[v])
<1>1. Range(SubSeq(toMaster[w], 1, i)) \subseteq Range(toMaster[w])
  BY QueueRanges DEF StreamTypeOK
<1>2. Range(SubSeq(toWorker[w], 1, j)) \subseteq Range(toWorker[w])
  BY QueueRanges DEF StreamTypeOK
<1>3. QED
  BY <1>1, <1>2 DEF StreamTypeOK, Cut

-----------------------------------------------------------------------------
(***************************************************************************)
(* The bookkeeping of the master's barrier.                                *)
(***************************************************************************)

\* The workers' side does not touch what the barrier keeps.
LEMMA WorkerSideKeepsBarrier ==
  ASSUME NEW w \in Workers, WorkerStep(w) \/ ReceiverStep(w) \/ LinkBreaks(w)
  PROVE  UNCHANGED <<MasterSide, inround, round>>
<1>1. CASE WorkerStep(w)
  <2>1. CASE \/ WorkerTakesJob(w) \/ WorkerGetsNoJob(w) \/ WorkerStartsJob(w)
             \/ WorkerStartFails(w) \/ WorkerBeginsSuperstep(w) \/ WorkerStepFails(w)
             \/ WorkerEnters(w)
    BY <2>1 DEF WorkerTakesJob, WorkerGetsNoJob, WorkerStartsJob, WorkerStartFails,
                WorkerBeginsSuperstep, WorkerStepFails, WorkerEnters, roundVars
  <2>2. ASSUME NEW d \in Workers, NEW known \in BOOLEAN, WorkerRelays(w, d, known)
        PROVE  UNCHANGED <<MasterSide, inround, round>>
    BY <2>2 DEF WorkerRelays, roundVars
  <2>3. ASSUME NEW act \in {0, 1}, NEW delta \in {0, 1}, WorkerEndsStep(w, act, delta)
        PROVE  UNCHANGED <<MasterSide, inround, round>>
    BY <2>3 DEF WorkerEndsStep, roundVars
  <2>4. CASE \/ WorkerLeavesPre(w) \/ WorkerLeavesPost(w) \/ WorkerLeavesKeep(w)
             \/ WorkerLeavesExecuted(w) \/ WorkerLeavesPersisted(w)
    BY <2>4 DEF WorkerLeavesPre, WorkerLeavesPost, WorkerLeavesKeep, WorkerLeavesExecuted,
                WorkerLeavesPersisted, Leaves
  <2>5. CASE \/ WorkerCompletesJob(w) \/ WorkerCompleteFails(w) \/ WorkerAborts(w)
             \/ WorkerContextExpires(w) \/ WorkerClosesStream(w)
    BY <2>5 DEF WorkerCompletesJob, WorkerCompleteFails, WorkerAborts,
                WorkerContextExpires, WorkerClosesStream, roundVars
  <2>6. QED
    BY <1>1, <2>1, <2>2, <2>3, <2>4, <2>5 DEF WorkerStep
<1>2. CASE ReceiverStep(w)
  BY <1>2 DEF ReceiverStep, ReceiverTakesStep, ReceiverTakesRelay, ReceiverBounces,
              ReceiverExits, WorkerSeesDisconnect, WorkerOnly, roundVars
<1>3. CASE LinkBreaks(w)
  BY <1>3 DEF LinkBreaks, MasterSide, roundVars
<1>4. QED
  BY <1>1, <1>2, <1>3

LEMMA InroundCounts ==
  ASSUME HistoryTypeOK
  PROVE  /\ IsFiniteSet(inround) /\ Cardinality(inround) \in Nat
         /\ Cardinality(inround) = 0 => inround = {}
         /\ Cardinality(inround) = NumWorkers => inround = Workers
         /\ \A w \in Workers \ inround : Cardinality(inround \cup {w}) = Cardinality(inround) + 1
         /\ \A w \in inround : Cardinality(inround \ {w}) = Cardinality(inround) - 1
<1>1. IsFiniteSet(inround)
  BY WorkersAssumption, FS_Subset DEF HistoryTypeOK
<1>2. Cardinality(inround) = NumWorkers => inround = Workers
  BY WorkersAssumption, FS_Subset DEF HistoryTypeOK, NumWorkers
<1>3. Cardinality(inround) \in Nat /\ (Cardinality(inround) = 0 => inround = {})
  BY <1>1, FS_CardinalityType, FS_EmptySet
<1>4. \A w \in Workers \ inround : Cardinality(inround \cup {w}) = Cardinality(inround) + 1
  BY <1>1, FS_AddElement
<1>5. \A w \in inround : Cardinality(inround \ {w}) = Cardinality(inround) - 1
  BY <1>1, FS_RemoveElement
<1>6. QED
  BY <1>1, <1>2, <1>3, <1>4, <1>5

LEMMA BooksInit == Init => BarrierBooks
  BY DEF Init, BarrierBooks

LEMMA BooksKept ==
  ASSUME BarrierBooks, UNCHANGED <<mpc, mphase, cnt, hpc, hmsg, inround>>
  PROVE  BarrierBooks'
  BY DEF BarrierBooks, NumWorkers

LEMMA BooksMaster ==
  ASSUME TypeOK, BarrierBooks, MasterStep
  PROVE  BarrierBooks'
<1> USE DEF TypeOK, MasterTypeOK, HandlerTypeOK, BarrierBooks, NumWorkers
<1>0. /\ IsFiniteSet(inround) /\ Cardinality(inround) \in Nat
      /\ Cardinality(inround) = 0 => inround = {}
  BY InroundCounts
<1>1. CASE MasterStartsJob \/ MasterStartFails
  BY <1>1 DEF MasterStartsJob, MasterStartFails, MasterReturns, MasterOnly, handlerVars, roundVars
<1>2. ASSUME NEW w \in Workers, PublishJobDetails(w)
      PROVE  BarrierBooks'
  BY <1>2 DEF PublishJobDetails, roundVars
<1>3. CASE MasterBeginsSuperstep \/ MasterCompletesJob
  BY <1>3, FS_EmptySet DEF MasterBeginsSuperstep, MasterCompletesJob, EnterBarrier, MasterOnly, handlerVars, roundVars
<1>4. CASE AllWorkersArrived
  BY <1>4, <1>0 DEF AllWorkersArrived, MasterReturns, MasterOnly, handlerVars, roundVars
<1>5. CASE AllWorkersNotified
  <2>1. inround = {} /\ inround' = {}
    BY <1>5, <1>0 DEF AllWorkersNotified
  <2>2. mpc' \in {"wait", "check", "complete"} /\ (mpc' = "wait" => cnt' = 0)
    BY <1>5 DEF AllWorkersNotified, EnterBarrier
  <2>3. UNCHANGED handlerVars
    BY <1>5 DEF AllWorkersNotified
  <2>4. QED
    BY <2>1, <2>2, <2>3, FS_EmptySet DEF handlerVars
<1>6. CASE MasterCompleteFails \/ MasterAborts
  BY <1>6 DEF MasterCompleteFails, MasterAborts, MasterReturns, MasterOnly, handlerVars, roundVars
<1>7. CASE MasterContextExpires
  BY <1>7, BooksKept DEF MasterContextExpires, masterVars, MasterOnly, handlerVars, roundVars
<1>8. ASSUME NEW w \in Workers, MasterSeesDisconnect(w) \/ MasterClosesStream(w)
      PROVE  BarrierBooks'
  BY <1>8, BooksKept DEF MasterSeesDisconnect, MasterClosesStream, masterVars, MasterOnly, handlerVars, roundVars
<1>9. QED
  BY <1>1, <1>2, <1>3, <1>4, <1>5, <1>6, <1>7, <1>8 DEF MasterStep

\* A handler goes on outside the barrier.
LEMMA BooksOneHandler ==
  ASSUME TypeOK, BarrierBooks, UNCHANGED <<mpc, mphase, cnt, inround>>,
         NEW w \in Workers, NEW pc, NEW m, pc # "joined", w \in inround => pc = "exit",
         hpc' = [hpc EXCEPT ![w] = pc], hmsg' = [hmsg EXCEPT ![w] = m]
  PROVE  BarrierBooks'
  BY DEF TypeOK, HandlerTypeOK, BarrierBooks, NumWorkers

LEMMA BooksHandler ==
  ASSUME TypeOK, BarrierBooks, NEW w \in Workers, HandlerStep(w)
  PROVE  BarrierBooks'
<1> USE DEF TypeOK, MasterTypeOK, HandlerTypeOK, BarrierBooks, NumWorkers
<1>1. CASE HandlerTakesStep(w) \/ HandlerSends(w) \/ HandlerDrops(w) \/ HandlerExits(w)
  <2>1. \E pc \in {"join", "recv", "exit"} : \E m :
          /\ hpc' = [hpc EXCEPT ![w] = pc] /\ hmsg' = [hmsg EXCEPT ![w] = m]
          /\ w \in inround => pc = "exit"
    BY <1>1 DEF HandlerTakesStep, HandlerSends, HandlerDrops, HandlerExits
  <2>2. UNCHANGED <<mpc, mphase, cnt, inround>>
    BY <1>1 DEF HandlerTakesStep, HandlerSends, HandlerDrops, HandlerExits, HandlerOnly, roundVars
  <2>3. QED
    BY <2>1, <2>2, BooksOneHandler
<1>2. CASE HandlerTakesRelay(w)
  <2>1. \/ UNCHANGED handlerVars
        \/ /\ hpc' = [hpc EXCEPT ![w] = "relay"] /\ w \notin inround
           /\ hmsg' = [hmsg EXCEPT ![w] = Head(toMaster[w])]
    BY <1>2 DEF HandlerTakesRelay
  <2>2. UNCHANGED <<mpc, mphase, cnt, inround>>
    BY <1>2 DEF HandlerTakesRelay, HandlerOnly, roundVars
  <2>3. QED
    BY <2>1, <2>2, BooksOneHandler, BooksKept DEF handlerVars
<1>3. CASE HandlerJoins(w)
  <2>1. w \notin inround /\ inround' = inround \cup {w}
    BY <1>3 DEF HandlerJoins
  <2>2. Cardinality(inround') = Cardinality(inround) + 1
    BY <2>1, InroundCounts
  <2>3. QED
    BY <1>3, <2>1, <2>2 DEF HandlerJoins, HandlerOnly
<1>4. CASE HandlerNotified(w)
  <2>1. w \in inround /\ inround' = inround \ {w}
    BY <1>4 DEF HandlerNotified
  <2>2. Cardinality(inround') = Cardinality(inround) - 1 /\ Cardinality(inround) \in Nat
    BY <2>1, InroundCounts
  <2>3. QED
    BY <1>4, <2>1, <2>2 DEF HandlerNotified, HandlerOnly
<1>5. QED
  BY <1>1, <1>2, <1>3, <1>4 DEF HandlerStep

LEMMA BooksStep ==
  ASSUME TypeOK, BarrierBooks, [Next]_vars
  PROVE  BarrierBooks'
<1>1. CASE MasterStep
  BY <1>1, BooksMaster
<1>2. ASSUME NEW w \in Workers, HandlerStep(w)
      PROVE  BarrierBooks'
  BY <1>2, BooksHandler
<1>3. ASSUME NEW w \in Workers, WorkerStep(w) \/ ReceiverStep(w) \/ LinkBreaks(w)
      PROVE  BarrierBooks'
  BY <1>3, WorkerSideKeepsBarrier, BooksKept DEF MasterSide, masterVars, handlerVars
<1>4. CASE UNCHANGED vars
  BY <1>4, BooksKept DEF vars, masterVars, handlerVars, roundVars
<1>5. QED
  BY <1>1, <1>2, <1>3, <1>4 DEF Next, Stutter

-----------------------------------------------------------------------------
(***************************************************************************)
(* A worker's late step is evidence that it stored its scores.             *)
(***************************************************************************)

\* CompleteJob is the only step that changes what is stored, and it adds to it.
LEMMA PersistedGrows ==
  ASSUME [Next]_vars
  PROVE  persisted \subseteq persisted'
<1>1. CASE MasterStep
  BY <1>1 DEF MasterStep, MasterStartsJob, MasterStartFails, PublishJobDetails, MasterBeginsSuperstep,
              AllWorkersArrived, AllWorkersNotified, MasterCompletesJob, MasterCompleteFails,
              MasterAborts, MasterContextExpires, MasterSeesDisconnect, MasterClosesStream,
              MasterOnly, workerVars
<1>2. ASSUME NEW w \in Workers, HandlerStep(w)
      PROVE  persisted \subseteq persisted'
  BY <1>2 DEF HandlerStep, HandlerTakesStep, HandlerTakesRelay, HandlerJoins, HandlerNotified,
              HandlerSends, HandlerDrops, HandlerExits, HandlerOnly, workerVars
<1>3. ASSUME NEW w \in Workers, WorkerStep(w)
      PROVE  persisted \subseteq persisted'
  BY <1>3 DEF WorkerStep, WorkerTakesJob, WorkerGetsNoJob, WorkerStartsJob, WorkerStartFails,
              WorkerBeginsSuperstep, WorkerRelays, WorkerEndsStep, WorkerStepFails, WorkerEnters,
              WorkerLeavesPre, WorkerLeavesPost, WorkerLeavesKeep, WorkerLeavesExecuted,
              WorkerLeavesPersisted, Leaves, WorkerCompletesJob, WorkerCompleteFails, WorkerAborts,
              WorkerContextExpires, WorkerClosesStream, workerVars
<1>4. ASSUME NEW w \in Workers, ReceiverStep(w) \/ LinkBreaks(w)
      PROVE  persisted \subseteq persisted'
  BY <1>4 DEF ReceiverStep, ReceiverTakesStep, ReceiverTakesRelay, ReceiverBounces, ReceiverExits,
              WorkerSeesDisconnect, WorkerOnly, LinkBreaks, workerVars
<1>5. CASE UNCHANGED vars
  BY <1>5 DEF vars, workerVars
<1>6. QED
  BY <1>1, <1>2, <1>3, <1>4, <1>5 DEF Next, Stutter

LEMMA OwnInit == Init => OwnPersisted
<1>1. Range(<<>>) = {}
  BY DEF Range
<1>2. QED
  BY <1>1 DEF Init, OwnPersisted, LatePhases

\* The four parts of OwnPersisted: at the worker, on the stream, with the
\* handler, and in the barrier.
OwnAtWorker == \A w \in Workers : wphase[w] \in LatePhases => w \in persisted
OwnOnStream ==
  \A w \in Workers : \A m \in Range(toMaster[w]) : LateStep(m) => w \in persisted
OwnAtHandler ==
  \A w \in Workers : hpc[w] \in {"join", "joined"} /\ LateStep(hmsg[w]) => w \in persisted
OwnInBarrier ==
  \A w \in inround : mphase \in LatePhases /\ mpc \in {"wait", "notify"} => w \in persisted

LEMMA OwnParts == OwnPersisted <=> OwnAtWorker /\ OwnOnStream /\ OwnAtHandler /\ OwnInBarrier
  BY DEF OwnPersisted, OwnAtWorker, OwnOnStream, OwnAtHandler, OwnInBarrier

\* While the variables of a part keep their values, and streams only shrink,
\* the part holds on.
LEMMA OwnKept ==
  ASSUME OwnPersisted, persisted \subseteq persisted'
  PROVE  /\ UNCHANGED wphase => OwnAtWorker'
         /\ (\A v \in Workers : Range(toMaster'[v]) \subseteq Range(toMaster[v])) => OwnOnStream'
         /\ UNCHANGED toMaster => OwnOnStream'
         /\ UNCHANGED <<hpc, hmsg>> => OwnAtHandler'
         /\ UNCHANGED <<mphase, mpc, inround>> => OwnInBarrier'
<1>1. OwnAtWorker /\ OwnOnStream /\ OwnAtHandler /\ OwnInBarrier
  BY OwnParts
<1>2. UNCHANGED wphase => OwnAtWorker'
  BY <1>1 DEF OwnAtWorker
<1>3. (\A v \in Workers : Range(toMaster'[v]) \subseteq Range(toMaster[v])) => OwnOnStream'
  BY <1>1 DEF OwnOnStream, LateStep
<1>4. UNCHANGED toMaster => OwnOnStream'
  BY <1>1 DEF OwnOnStream, LateStep
<1>5. UNCHANGED <<hpc, hmsg>> => OwnAtHandler'
  BY <1>1 DEF OwnAtHandler, LateStep
<1>6. UNCHANGED <<mphase, mpc, inround>> => OwnInBarrier'
  BY <1>1 DEF OwnInBarrier
<1>7. QED
  BY <1>2, <1>3, <1>4, <1>5, <1>6

LEMMA OwnMaster ==
  ASSUME TypeOK, BarrierBooks, OwnPersisted, persisted \subseteq persisted', MasterStep
  PROVE  OwnPersisted'
<1>1. OwnAtWorker' /\ inround' = inround
  BY OwnKept DEF MasterStep, MasterStartsJob, MasterStartFails, PublishJobDetails, MasterBeginsSuperstep,
              AllWorkersArrived, AllWorkersNotified, MasterCompletesJob, MasterCompleteFails,
              MasterAborts, MasterContextExpires, MasterSeesDisconnect, MasterClosesStream,
              MasterOnly, workerVars, roundVars
<1>2. OwnOnStream'
  <2>1. ASSUME NEW w \in Workers, MasterClosesStream(w)
        PROVE  OwnOnStream'
    <3>1. PICK i \in 0 .. Len(toMaster[w]), j \in 0 .. Len(toWorker[w]) : Cut(w, i, j)
      BY <2>1, QueueLengths DEF TypeOK, MasterClosesStream
    <3>2. QED
      BY <3>1, CutRange, OwnKept DEF TypeOK
  <2>2. QED
    BY <2>1, OwnKept DEF MasterStep, MasterStartsJob, MasterStartFails, PublishJobDetails, MasterBeginsSuperstep,
              AllWorkersArrived, AllWorkersNotified, MasterCompletesJob, MasterCompleteFails,
              MasterAborts, MasterContextExpires, MasterSeesDisconnect, MasterOnly, streamVars
<1>3. OwnAtHandler'
  <2>1. ASSUME NEW w \in Workers, PublishJobDetails(w)
        PROVE  OwnAtHandler'
    BY <2>1 DEF PublishJobDetails, TypeOK, HandlerTypeOK, OwnPersisted, OwnAtHandler, LateStep
  <2>2. QED
    BY <2>1, OwnKept DEF MasterStep, MasterStartsJob, MasterStartFails, MasterBeginsSuperstep,
              AllWorkersArrived, AllWorkersNotified, MasterCompletesJob, MasterCompleteFails,
              MasterAborts, MasterContextExpires, MasterSeesDisconnect, MasterClosesStream,
              MasterOnly, handlerVars
<1>4. OwnInBarrier'
  <2>1. CASE inround = {}
    BY <1>1, <2>1 DEF OwnInBarrier
  <2>2. CASE mpc \in {"wait", "notify", "done"}
    <3>1. CASE AllWorkersNotified
      <4>1. inround = {}
        BY <3>1, InroundCounts, NumWorkersType DEF AllWorkersNotified, BarrierBooks, TypeOK
      <4>2. QED
        BY <4>1, <2>1
    <3>2. mpc' = "done" \/ (UNCHANGED mphase /\ mpc \in {"wait", "notify"}) \/ UNCHANGED <<mpc, mphase>>
          \/ AllWorkersNotified
      BY <2>2 DEF MasterStep, MasterStartsJob, MasterStartFails, PublishJobDetails, MasterBeginsSuperstep,
              AllWorkersArrived, MasterCompletesJob, MasterCompleteFails, MasterReturns,
              MasterAborts, MasterContextExpires, MasterSeesDisconnect, MasterClosesStream, masterVars
    <3>3. QED
      BY <1>1, <3>1, <3>2 DEF OwnPersisted, OwnInBarrier
  <2>3. QED
    BY <2>1, <2>2 DEF BarrierBooks
<1>5. QED
  BY <1>1, <1>2, <1>3, <1>4 DEF OwnPersisted, OwnAtWorker, OwnOnStream, OwnAtHandler, OwnInBarrier

LEMMA OwnHandler ==
  ASSUME TypeOK, BarrierBooks, OwnPersisted, persisted \subseteq persisted',
         NEW w \in Workers, HandlerStep(w)
  PROVE  OwnPersisted'
<1>1. OwnAtWorker' /\ UNCHANGED <<mpc, mphase>>
  BY OwnKept DEF HandlerStep, HandlerTakesStep, HandlerTakesRelay, HandlerJoins, HandlerNotified,
              HandlerSends, HandlerDrops, HandlerExits, HandlerOnly, workerVars
<1>2. OwnOnStream'
  <2>1. CASE HandlerTakesStep(w) \/ HandlerTakesRelay(w)
    BY <2>1, TakeRange, OwnKept DEF TypeOK, HandlerTakesStep, HandlerTakesRelay
  <2>2. QED
    BY <2>1, OwnKept DEF HandlerStep, HandlerJoins, HandlerNotified, HandlerSends, HandlerDrops,
              HandlerExits
<1>3. OwnAtHandler'
  <2>1. CASE HandlerTakesStep(w)
    <3>1. LateStep(Head(toMaster[w])) => w \in persisted
      BY <2>1, TakeRange DEF HandlerTakesStep, TypeOK, OwnPersisted
    <3>2. QED
      BY <2>1, <3>1 DEF HandlerTakesStep, TypeOK, HandlerTypeOK, OwnPersisted, OwnAtHandler, LateStep
  <2>2. CASE HandlerTakesRelay(w)
    BY <2>2, OwnKept DEF HandlerTakesRelay, handlerVars, TypeOK, HandlerTypeOK, OwnPersisted, OwnAtHandler, LateStep
  <2>3. CASE HandlerJoins(w)
    BY <2>3 DEF HandlerJoins, TypeOK, HandlerTypeOK, OwnPersisted, OwnAtHandler, LateStep
  <2>4. CASE HandlerNotified(w)
    BY <2>4 DEF HandlerNotified, TypeOK, HandlerTypeOK, OwnPersisted, OwnAtHandler, LateStep
  <2>5. CASE HandlerSends(w) \/ HandlerDrops(w) \/ HandlerExits(w)
    BY <2>5 DEF HandlerSends, HandlerDrops, HandlerExits, TypeOK, HandlerTypeOK, OwnPersisted, OwnAtHandler, LateStep
  <2>6. QED
    BY <2>1, <2>2, <2>3, <2>4, <2>5 DEF HandlerStep
<1>4. OwnInBarrier'
  <2>1. CASE HandlerJoins(w)
    <3>1. mphase \in LatePhases => w \in persisted
      BY <2>1 DEF HandlerJoins, TypeOK, HandlerTypeOK, StepMsg, OwnPersisted, LateStep
    <3>2. QED
      BY <1>1, <2>1, <3>1 DEF HandlerJoins, OwnPersisted, OwnInBarrier
  <2>2. CASE HandlerNotified(w)
    BY <1>1, <2>2 DEF HandlerNotified, OwnPersisted, OwnInBarrier
  <2>3. QED
    BY <1>1, <2>1, <2>2, OwnKept DEF HandlerStep, HandlerTakesStep, HandlerTakesRelay, HandlerSends,
              HandlerDrops, HandlerExits, roundVars
<1>5. QED
  BY <1>1, <1>2, <1>3, <1>4 DEF OwnPersisted, OwnAtWorker, OwnOnStream, OwnAtHandler, OwnInBarrier

\* A worker heads for a late barrier only with its scores stored.
LEMMA OwnAtWorkerStep ==
  ASSUME TypeOK, OwnPersisted, persisted \subseteq persisted', NEW w \in Workers, WorkerStep(w)
  PROVE  OwnAtWorker'
<1> USE DEF TypeOK, WorkerTypeOK, OwnPersisted, OwnAtWorker, LatePhases, HeadsFor
<1>1. CASE WorkerBeginsSuperstep(w)
  BY <1>1 DEF WorkerBeginsSuperstep
<1>2. ASSUME NEW act \in {0, 1}, NEW delta \in {0, 1}, WorkerEndsStep(w, act, delta)
      PROVE  OwnAtWorker'
  BY <1>2 DEF WorkerEndsStep
<1>3. CASE WorkerLeavesPost(w) \/ WorkerLeavesKeep(w)
  BY <1>3 DEF WorkerLeavesPost, WorkerLeavesKeep
<1>4. CASE WorkerLeavesPersisted(w)
  BY <1>4 DEF WorkerLeavesPersisted, Leaves
<1>5. CASE WorkerCompletesJob(w)
  BY <1>5 DEF WorkerCompletesJob
<1>6. CASE UNCHANGED wphase
  BY <1>6
<1>7. QED
  BY <1>1, <1>2, <1>3, <1>4, <1>5, <1>6
     DEF WorkerStep, WorkerTakesJob, WorkerGetsNoJob, WorkerStartsJob, WorkerStartFails,
         WorkerRelays, WorkerStepFails, WorkerEnters, WorkerLeavesPre, WorkerLeavesExecuted,
         WorkerCompleteFails, WorkerAborts, WorkerContextExpires, WorkerClosesStream, workerVars

LEMMA OwnWorker ==
  ASSUME TypeOK, BarrierBooks, OwnPersisted, persisted \subseteq persisted',
         NEW w \in Workers, WorkerStep(w)
  PROVE  OwnPersisted'
<1>1. OwnAtWorker'
  BY OwnAtWorkerStep
<1>2. OwnAtHandler' /\ OwnInBarrier'
  BY WorkerSideKeepsBarrier, OwnKept DEF MasterSide, masterVars, handlerVars
<1>3. OwnOnStream'
  <2>1. ASSUME NEW d \in Workers, NEW known \in BOOLEAN, WorkerRelays(w, d, known)
        PROVE  OwnOnStream'
    <3> DEFINE m == [type |-> "relay", dst |-> d, known |-> known, sent |-> wstep[w]]
    <3>1. m \in WorkerPayload /\ m.type = "relay"
      BY DEF TypeOK, WorkerTypeOK, WorkerPayload, RelayMsg
    <3>2. SendToMaster(w, m)
      BY <2>1 DEF WorkerRelays
    <3> HIDE DEF m
    <3>3. \A v \in Workers : \A p \in Range(toMaster'[v]) :
            p \in Range(toMaster[v]) \/ (v = w /\ p = m)
      BY <3>1, <3>2, SendToMasterRange DEF TypeOK
    <3>4. QED
      BY <3>1, <3>3 DEF OwnPersisted, OwnOnStream, LateStep
  <2>2. CASE WorkerEnters(w)
    <3> DEFINE m == Step(wphase[w], StepValue(w))
    <3>1. m \in WorkerPayload
      BY StepType DEF TypeOK, WorkerTypeOK, WorkerPayload, StepValue
    <3>2. SendToMaster(w, m)
      BY <2>2 DEF WorkerEnters
    <3>3. m.phase = wphase[w]
      BY DEF Step
    <3> HIDE DEF m
    <3>4. \A v \in Workers : \A p \in Range(toMaster'[v]) :
            p \in Range(toMaster[v]) \/ (v = w /\ p = m)
      BY <3>1, <3>2, SendToMasterRange DEF TypeOK
    <3>5. QED
      BY <3>3, <3>4 DEF OwnPersisted, OwnOnStream, LateStep
  <2>3. CASE WorkerContextExpires(w) \/ WorkerClosesStream(w)
    <3>1. PICK i \in 0 .. Len(toMaster[w]), j \in 0 .. Len(toWorker[w]) : Cut(w, i, j)
      BY <2>3, QueueLengths DEF TypeOK, WorkerContextExpires, WorkerClosesStream
    <3>2. QED
      BY <3>1, CutRange, OwnKept DEF TypeOK
  <2>4. CASE UNCHANGED toMaster
    BY <2>4, OwnKept
  <2>5. QED
    BY <2>1, <2>2, <2>3, <2>4
     DEF WorkerStep, WorkerTakesJob, WorkerGetsNoJob, WorkerStartsJob, WorkerStartFails,
         WorkerBeginsSuperstep, WorkerEndsStep, WorkerStepFails, WorkerLeavesPre,
         WorkerLeavesPost, WorkerLeavesKeep, WorkerLeavesExecuted, WorkerLeavesPersisted, Leaves,
         WorkerCompletesJob, WorkerCompleteFails, WorkerAborts, streamVars
<1>4. QED
  BY <1>1, <1>2, <1>3 DEF OwnPersisted, OwnAtWorker, OwnOnStream, OwnAtHandler, OwnInBarrier

LEMMA OwnReceiver ==
  ASSUME TypeOK, OwnPersisted, persisted \subseteq persisted',
         NEW w \in Workers, ReceiverStep(w) \/ LinkBreaks(w)
  PROVE  OwnPersisted'
<1>1. OwnAtWorker' /\ OwnAtHandler' /\ OwnInBarrier'
  <2>1. UNCHANGED wphase
    BY DEF ReceiverStep, ReceiverTakesStep, ReceiverTakesRelay, ReceiverBounces, ReceiverExits,
           WorkerSeesDisconnect, WorkerOnly, LinkBreaks, workerVars
  <2>2. QED
    BY <2>1, WorkerSideKeepsBarrier, OwnKept DEF MasterSide, masterVars, handlerVars
<1>2. OwnOnStream'
  <2>1. CASE ReceiverBounces(w)
    <3>1. rmsg[w] \in WorkerPayload /\ rmsg[w].type = "relay"
      BY <2>1 DEF TypeOK, ReceiverTypeOK, WorkerPayload, RelayMsg, ReceiverBounces
    <3>2. \A v \in Workers : \A p \in Range(toMaster'[v]) :
            p \in Range(toMaster[v]) \/ (v = w /\ p = rmsg[w])
      BY <2>1, <3>1, SendToMasterRange DEF TypeOK, ReceiverBounces
    <3>3. QED
      BY <3>1, <3>2 DEF OwnPersisted, OwnOnStream, LateStep
  <2>2. CASE LinkBreaks(w)
    <3>1. PICK i \in 0 .. Len(toMaster[w]), j \in 0 .. Len(toWorker[w]) : Cut(w, i, j)
      BY <2>2 DEF LinkBreaks
    <3>2. QED
      BY <3>1, CutRange, OwnKept DEF TypeOK
  <2>3. QED
    BY <2>1, <2>2, OwnKept DEF ReceiverStep, ReceiverTakesStep, ReceiverTakesRelay, ReceiverExits,
           WorkerSeesDisconnect
<1>3. QED
  BY <1>1, <1>2 DEF OwnPersisted, OwnAtWorker, OwnOnStream, OwnAtHandler, OwnInBarrier

LEMMA OwnStep ==
  ASSUME TypeOK, BarrierBooks, OwnPersisted, [Next]_vars
  PROVE  OwnPersisted'
<1>0. persisted \subseteq persisted'
  BY PersistedGrows
<1>1. CASE MasterStep
  BY <1>0, <1>1, OwnMaster
<1>2. ASSUME NEW w \in Workers, HandlerStep(w)
      PROVE  OwnPersisted'
  BY <1>0, <1>2, OwnHandler
<1>3. ASSUME NEW w \in Workers, WorkerStep(w)
      PROVE  OwnPersisted'
  BY <1>0, <1>3, OwnWorker
<1>4. ASSUME NEW w \in Workers, ReceiverStep(w) \/ LinkBreaks(w)
      PROVE  OwnPersisted'
  BY <1>0, <1>4, OwnReceiver
<1>5. CASE UNCHANGED vars
  BY <1>5 DEF vars, masterVars, handlerVars, workerVars, streamVars, roundVars, OwnPersisted, LateStep
<1>6. QED
  BY <1>1, <1>2, <1>3, <1>4, <1>5 DEF Next, Stutter

-----------------------------------------------------------------------------
(***************************************************************************)
(* The master's late step is evidence that all workers stored theirs.      *)
(***************************************************************************)
KnownAtMaster ==
  mphase = "COMPLETED_JOB" \/ (mphase = "PERSISTED_RESULTS" /\ mpc = "notify") => AllPersisted
KnownAtHandler == \A w \in Workers : hpc[w] = "reply" /\ LateStep(hmsg[w]) => AllPersisted
KnownOnStream ==
  \A w \in Workers : \A m \in Range(toWorker[w]) : LateStep(m) => AllPersisted
KnownAtReceiver == \A w \in Workers : rpc[w] = "notify" /\ LateStep(rmsg[w]) => AllPersisted
KnownAtWorker == \A w \in Workers : wphase[w] = "COMPLETED_JOB" => AllPersisted

LEMMA KnownParts ==
  AllKnownPersisted <=>
    KnownAtMaster /\ KnownAtHandler /\ KnownOnStream /\ KnownAtReceiver /\ KnownAtWorker
  BY DEF AllKnownPersisted, KnownAtMaster, KnownAtHandler, KnownOnStream, KnownAtReceiver,
         KnownAtWorker

LEMMA KnownInit == Init => AllKnownPersisted
<1>1. Range(<<>>) = {}
  BY DEF Range
<1>2. QED
  BY <1>1 DEF Init, AllKnownPersisted, LatePhases

\* What is stored stays stored; a part whose variables keep their values, or
\* whose stream only shrinks, holds on.
LEMMA KnownKept ==
  ASSUME AllKnownPersisted, AllPersisted => AllPersisted'
  PROVE  /\ UNCHANGED <<mphase, mpc>> => KnownAtMaster'
         /\ UNCHANGED handlerVars => KnownAtHandler'
         /\ (\A v \in Workers : Range(toWorker'[v]) \subseteq Range(toWorker[v])) => KnownOnStream'
         /\ UNCHANGED toWorker => KnownOnStream'
         /\ UNCHANGED receiverVars => KnownAtReceiver'
         /\ UNCHANGED wphase => KnownAtWorker'
<1>0. KnownAtMaster /\ KnownAtHandler /\ KnownOnStream /\ KnownAtReceiver /\ KnownAtWorker
  BY KnownParts
<1>1. UNCHANGED <<mphase, mpc>> => KnownAtMaster'
  BY <1>0 DEF KnownAtMaster
<1>2. UNCHANGED handlerVars => KnownAtHandler'
  BY <1>0 DEF KnownAtHandler, LateStep, handlerVars
<1>3. (\A v \in Workers : Range(toWorker'[v]) \subseteq Range(toWorker[v])) => KnownOnStream'
  BY <1>0 DEF KnownOnStream, LateStep
<1>4. UNCHANGED toWorker => KnownOnStream'
  BY <1>0 DEF KnownOnStream, LateStep
<1>5. UNCHANGED receiverVars => KnownAtReceiver'
  BY <1>0 DEF KnownAtReceiver, LateStep, receiverVars
<1>6. UNCHANGED wphase => KnownAtWorker'
  BY <1>0 DEF KnownAtWorker
<1>7. QED
  BY <1>1, <1>2, <1>3, <1>4, <1>5, <1>6

LEMMA KnownMaster ==
  ASSUME TypeOK, BarrierBooks, OwnPersisted, AllKnownPersisted, AllPersisted => AllPersisted',
         MasterStep
  PROVE  AllKnownPersisted'
<1>1. KnownAtReceiver' /\ KnownAtWorker'
  BY KnownKept DEF MasterStep, MasterStartsJob, MasterStartFails, PublishJobDetails, MasterBeginsSuperstep,
              AllWorkersArrived, AllWorkersNotified, MasterCompletesJob, MasterCompleteFails,
              MasterAborts, MasterContextExpires, MasterSeesDisconnect, MasterClosesStream,
              MasterOnly, workerVars
<1>2. KnownAtHandler'
  <2>1. ASSUME NEW w \in Workers, PublishJobDetails(w)
        PROVE  KnownAtHandler'
    BY <2>1 DEF PublishJobDetails, TypeOK, HandlerTypeOK, AllKnownPersisted, KnownAtHandler, LateStep
  <2>2. QED
    BY <2>1, KnownKept DEF MasterStep, MasterStartsJob, MasterStartFails, MasterBeginsSuperstep,
              AllWorkersArrived, AllWorkersNotified, MasterCompletesJob, MasterCompleteFails,
              MasterAborts, MasterContextExpires, MasterSeesDisconnect, MasterClosesStream,
              MasterOnly
<1>3. KnownOnStream'
  <2>1. ASSUME NEW w \in Workers, PublishJobDetails(w)
        PROVE  KnownOnStream'
    <3> DEFINE m == [type |-> "details"]
    <3>1. m \in MasterPayload /\ m.type = "details"
      BY DEF MasterPayload, JobDetailsMsg
    <3>2. SendToWorker(w, m) \/ UNCHANGED toWorker
      BY <2>1 DEF PublishJobDetails
    <3> HIDE DEF m
    <3>3. SendToWorker(w, m) => \A v \in Workers : \A p \in Range(toWorker'[v]) :
            p \in Range(toWorker[v]) \/ (v = w /\ p = m)
      BY <3>1, SendToWorkerRange DEF TypeOK
    <3>4. QED
      BY <3>1, <3>2, <3>3, KnownKept DEF AllKnownPersisted, KnownOnStream, LateStep
  <2>2. ASSUME NEW w \in Workers, MasterClosesStream(w)
        PROVE  KnownOnStream'
    <3>1. PICK i \in 0 .. Len(toMaster[w]), j \in 0 .. Len(toWorker[w]) : Cut(w, i, j)
      BY <2>2, QueueLengths DEF TypeOK, MasterClosesStream
    <3>2. QED
      BY <3>1, CutRange, KnownKept DEF TypeOK
  <2>3. QED
    BY <2>1, <2>2, KnownKept DEF MasterStep, MasterStartsJob, MasterStartFails, MasterBeginsSuperstep,
              AllWorkersArrived, AllWorkersNotified, MasterCompletesJob, MasterCompleteFails,
              MasterAborts, MasterContextExpires, MasterSeesDisconnect, MasterOnly, streamVars
<1>4. KnownAtMaster'
  <2>1. CASE AllWorkersArrived
    <3>1. mphase = "PERSISTED_RESULTS" => AllPersisted
      <4>1. inround = Workers
        BY <2>1, InroundCounts DEF AllWorkersArrived, BarrierBooks, TypeOK
      <4>2. QED
        BY <2>1, <4>1 DEF AllWorkersArrived, OwnPersisted, LatePhases, AllPersisted, TypeOK, WorkerTypeOK
    <3>2. QED
      BY <2>1, <3>1 DEF AllWorkersArrived, MasterReturns, AllKnownPersisted, KnownAtMaster
  <2>2. CASE AllWorkersNotified
    BY <2>2 DEF AllWorkersNotified, EnterBarrier, AllKnownPersisted, KnownAtMaster
  <2>3. CASE MasterBeginsSuperstep \/ MasterCompletesJob
    BY <2>3 DEF MasterBeginsSuperstep, MasterCompletesJob, EnterBarrier, KnownAtMaster
  <2>4. CASE UNCHANGED mphase /\ (mpc' # "notify" \/ UNCHANGED mpc)
    BY <2>4 DEF AllKnownPersisted, KnownAtMaster
  <2>5. QED
    BY <2>1, <2>2, <2>3, <2>4
       DEF MasterStep, MasterStartsJob, MasterStartFails, PublishJobDetails, MasterCompleteFails,
           MasterAborts, MasterContextExpires, MasterSeesDisconnect, MasterClosesStream,
           MasterReturns, masterVars
<1>5. QED
  BY <1>1, <1>2, <1>3, <1>4 DEF AllKnownPersisted, KnownAtMaster, KnownAtHandler, KnownOnStream,
       KnownAtReceiver, KnownAtWorker

LEMMA KnownHandler ==
  ASSUME TypeOK, BarrierBooks, AllKnownPersisted, AllPersisted => AllPersisted',
         NEW w \in Workers, HandlerStep(w)
  PROVE  AllKnownPersisted'
<1>1. KnownAtMaster' /\ KnownAtReceiver' /\ KnownAtWorker'
  BY KnownKept DEF HandlerStep, HandlerTakesStep, HandlerTakesRelay, HandlerJoins, HandlerNotified,
              HandlerSends, HandlerDrops, HandlerExits, HandlerOnly, workerVars
<1>2. KnownAtHandler'
  <2>1. CASE HandlerNotified(w)
    <3>1. LateStep(Broadcast) => AllPersisted
      BY <2>1 DEF HandlerNotified, Broadcast, Step, LateStep, LatePhases, AllKnownPersisted
    <3>2. QED
      BY <2>1, <3>1 DEF HandlerNotified, TypeOK, HandlerTypeOK, AllKnownPersisted, KnownAtHandler, LateStep
  <2>2. CASE HandlerTakesRelay(w)
    BY <2>2, KnownKept DEF HandlerTakesRelay, TypeOK, HandlerTypeOK, AllKnownPersisted, KnownAtHandler, LateStep
  <2>3. CASE HandlerTakesStep(w) \/ HandlerJoins(w) \/ HandlerSends(w) \/ HandlerDrops(w) \/ HandlerExits(w)
    BY <2>3 DEF HandlerTakesStep, HandlerJoins, HandlerSends, HandlerDrops, HandlerExits, TypeOK,
         HandlerTypeOK, AllKnownPersisted, KnownAtHandler, LateStep
  <2>4. QED
    BY <2>1, <2>2, <2>3 DEF HandlerStep
<1>3. KnownOnStream'
  <2>1. CASE HandlerSends(w)
    <3>1. hmsg[w] \in MasterPayload /\ (hpc[w] = "relay" => hmsg[w].type = "relay" /\ hmsg[w].dst \in Workers)
      BY <2>1 DEF HandlerSends, TypeOK, HandlerTypeOK, MasterPayload, WorkerPayload, RelayMsg
    <3>2. PICK d \in Workers : SendToWorker(d, hmsg[w])
      BY <2>1, <3>1 DEF HandlerSends
    <3>3. \A v \in Workers : \A p \in Range(toWorker'[v]) :
            p \in Range(toWorker[v]) \/ p = hmsg[w]
      BY <3>1, <3>2, SendToWorkerRange DEF TypeOK
    <3>4. LateStep(hmsg[w]) => AllPersisted
      BY <2>1, <3>1 DEF HandlerSends, LateStep, AllKnownPersisted
    <3>5. QED
      BY <3>3, <3>4 DEF AllKnownPersisted, KnownOnStream, LateStep
  <2>2. QED
    BY <2>1, KnownKept DEF HandlerStep, HandlerTakesStep, HandlerTakesRelay, HandlerJoins,
              HandlerNotified, HandlerDrops, HandlerExits
<1>4. QED
  BY <1>1, <1>2, <1>3 DEF AllKnownPersisted, KnownAtMaster, KnownAtHandler, KnownOnStream,
       KnownAtReceiver, KnownAtWorker

LEMMA KnownWorker ==
  ASSUME TypeOK, AllKnownPersisted, AllPersisted => AllPersisted', NEW w \in Workers, WorkerStep(w)
  PROVE  AllKnownPersisted'
<1>1. KnownAtMaster' /\ KnownAtHandler'
  BY WorkerSideKeepsBarrier, KnownKept DEF MasterSide, masterVars
<1>2. KnownOnStream'
  <2>1. CASE WorkerTakesJob(w)
    BY <2>1, TakeRange, KnownKept DEF TypeOK, WorkerTakesJob
  <2>2. CASE WorkerContextExpires(w) \/ WorkerClosesStream(w)
    <3>1. PICK i \in 0 .. Len(toMaster[w]), j \in 0 .. Len(toWorker[w]) : Cut(w, i, j)
      BY <2>2, QueueLengths DEF TypeOK, WorkerContextExpires, WorkerClosesStream
    <3>2. QED
      BY <3>1, CutRange, KnownKept DEF TypeOK
  <2>3. CASE UNCHANGED toWorker
    BY <2>3, KnownKept
  <2>4. QED
    BY <2>1, <2>2, <2>3
     DEF WorkerStep, WorkerGetsNoJob, WorkerStartsJob, WorkerStartFails,
         WorkerBeginsSuperstep, WorkerRelays, WorkerEndsStep, WorkerStepFails, WorkerEnters,
         WorkerLeavesPre, WorkerLeavesPost, WorkerLeavesKeep, WorkerLeavesExecuted,
         WorkerLeavesPersisted, Leaves, WorkerCompletesJob, WorkerCompleteFails, WorkerAborts,
         streamVars
<1>3. KnownAtReceiver'
  <2>1. CASE \/ WorkerLeavesPre(w) \/ WorkerLeavesPost(w) \/ WorkerLeavesKeep(w)
             \/ WorkerLeavesExecuted(w) \/ WorkerLeavesPersisted(w)
    <3>1. rpc' = [rpc EXCEPT ![w] = "recv"] /\ rmsg' = [rmsg EXCEPT ![w] = NoMsg]
      BY <2>1 DEF WorkerLeavesPre, WorkerLeavesPost, WorkerLeavesKeep, WorkerLeavesExecuted,
                  WorkerLeavesPersisted, Leaves
    <3>2. QED
      BY <3>1 DEF TypeOK, ReceiverTypeOK, AllKnownPersisted, KnownAtReceiver, LateStep
  <2>2. CASE WorkerStartsJob(w)
    BY <2>2 DEF WorkerStartsJob, TypeOK, ReceiverTypeOK, AllKnownPersisted, KnownAtReceiver, LateStep
  <2>3. CASE UNCHANGED receiverVars
    BY <2>3, KnownKept
  <2>4. QED
    BY <2>1, <2>2, <2>3
     DEF WorkerStep, WorkerTakesJob, WorkerGetsNoJob, WorkerStartFails,
         WorkerBeginsSuperstep, WorkerRelays, WorkerEndsStep, WorkerStepFails, WorkerEnters,
         WorkerCompletesJob, WorkerCompleteFails, WorkerAborts, WorkerContextExpires,
         WorkerClosesStream
<1>4. KnownAtWorker'
  <2> USE DEF TypeOK, WorkerTypeOK, AllKnownPersisted, KnownAtWorker, HeadsFor
  <2>1. CASE WorkerBeginsSuperstep(w) \/ WorkerCompletesJob(w)
    BY <2>1 DEF WorkerBeginsSuperstep, WorkerCompletesJob
  <2>2. ASSUME NEW act \in {0, 1}, NEW delta \in {0, 1}, WorkerEndsStep(w, act, delta)
        PROVE  KnownAtWorker'
    BY <2>2 DEF WorkerEndsStep
  <2>3. CASE WorkerLeavesPost(w) \/ WorkerLeavesKeep(w)
    BY <2>3 DEF WorkerLeavesPost, WorkerLeavesKeep
  <2>4. CASE WorkerLeavesPersisted(w)
    <3>1. LateStep(rmsg[w])
      BY <2>4 DEF WorkerLeavesPersisted, Leaves, ReceiverTypeOK, StepMsg, LateStep, LatePhases
    <3>2. QED
      BY <2>4, <3>1 DEF WorkerLeavesPersisted, Leaves
  <2>5. CASE UNCHANGED wphase
    BY <2>5
  <2>6. QED
    BY <2>1, <2>2, <2>3, <2>4, <2>5
     DEF WorkerStep, WorkerTakesJob, WorkerGetsNoJob, WorkerStartsJob, WorkerStartFails,
         WorkerRelays, WorkerStepFails, WorkerEnters, WorkerLeavesPre, WorkerLeavesExecuted,
         WorkerCompleteFails, WorkerAborts, WorkerContextExpires, WorkerClosesStream, workerVars
<1>5. QED
  BY <1>1, <1>2, <1>3, <1>4 DEF AllKnownPersisted, KnownAtMaster, KnownAtHandler, KnownOnStream,
       KnownAtReceiver, KnownAtWorker

LEMMA KnownReceiver ==
  ASSUME TypeOK, AllKnownPersisted, AllPersisted => AllPersisted',
         NEW w \in Workers, ReceiverStep(w) \/ LinkBreaks(w)
  PROVE  AllKnownPersisted'
<1>1. KnownAtMaster' /\ KnownAtHandler' /\ KnownAtWorker'
  <2>1. UNCHANGED wphase
    BY DEF ReceiverStep, ReceiverTakesStep, ReceiverTakesRelay, ReceiverBounces, ReceiverExits,
           WorkerSeesDisconnect, WorkerOnly, LinkBreaks, workerVars
  <2>2. QED
    BY <2>1, WorkerSideKeepsBarrier, KnownKept DEF MasterSide, masterVars
<1>2. KnownOnStream'
  <2>1. CASE ReceiverTakesStep(w) \/ ReceiverTakesRelay(w)
    BY <2>1, TakeRange, KnownKept DEF TypeOK, ReceiverTakesStep, ReceiverTakesRelay
  <2>2. CASE LinkBreaks(w)
    <3>1. PICK i \in 0 .. Len(toMaster[w]), j \in 0 .. Len(toWorker[w]) : Cut(w, i, j)
      BY <2>2 DEF LinkBreaks
    <3>2. QED
      BY <3>1, CutRange, KnownKept DEF TypeOK
  <2>3. QED
    BY <2>1, <2>2, KnownKept DEF ReceiverStep, ReceiverBounces, ReceiverExits, WorkerSeesDisconnect
<1>3. KnownAtReceiver'
  <2> USE DEF TypeOK, ReceiverTypeOK, AllKnownPersisted, KnownAtReceiver, LateStep
  <2>1. CASE ReceiverTakesStep(w)
    <3>1. LateStep(Head(toWorker[w])) => AllPersisted
      BY <2>1, TakeRange DEF ReceiverTakesStep
    <3>2. QED
      BY <2>1, <3>1 DEF ReceiverTakesStep
  <2>2. CASE ReceiverTakesRelay(w)
    BY <2>2, KnownKept DEF ReceiverTakesRelay
  <2>3. CASE ReceiverBounces(w) \/ ReceiverExits(w)
    BY <2>3 DEF ReceiverBounces, ReceiverExits
  <2>4. CASE WorkerSeesDisconnect(w) \/ LinkBreaks(w)
    BY <2>4, KnownKept DEF WorkerSeesDisconnect, LinkBreaks
  <2>5. QED
    BY <2>1, <2>2, <2>3, <2>4 DEF ReceiverStep
<1>4. QED
  BY <1>1, <1>2, <1>3 DEF AllKnownPersisted, KnownAtMaster, KnownAtHandler, KnownOnStream,
       KnownAtReceiver, KnownAtWorker

LEMMA AllPersistedStays ==
  ASSUME TypeOK', [Next]_vars, AllPersisted
  PROVE  AllPersisted'
  BY PersistedGrows DEF TypeOK, WorkerTypeOK, AllPersisted

LEMMA KnownStep ==
  ASSUME TypeOK, TypeOK', BarrierBooks, OwnPersisted, AllKnownPersisted, [Next]_vars
  PROVE  AllKnownPersisted'
<1>0. AllPersisted => AllPersisted'
  BY AllPersistedStays
<1>1. CASE MasterStep
  BY <1>0, <1>1, KnownMaster
<1>2. ASSUME NEW w \in Workers, HandlerStep(w)
      PROVE  AllKnownPersisted'
  BY <1>0, <1>2, KnownHandler
<1>3. ASSUME NEW w \in Workers, WorkerStep(w)
      PROVE  AllKnownPersisted'
  BY <1>0, <1>3, KnownWorker
<1>4. ASSUME NEW w \in Workers, ReceiverStep(w) \/ LinkBreaks(w)
      PROVE  AllKnownPersisted'
  BY <1>0, <1>4, KnownReceiver
<1>5. CASE UNCHANGED vars
  BY <1>5 DEF vars, masterVars, handlerVars, workerVars, receiverVars, streamVars,
       AllKnownPersisted, AllPersisted, LateStep
<1>6. QED
  BY <1>1, <1>2, <1>3, <1>4, <1>5 DEF Next, Stutter

-----------------------------------------------------------------------------
(***************************************************************************)
(* The commit.                                                             *)
(***************************************************************************)

\* Success is reported only past the COMPLETED_JOB barrier, or at it.
LEMMA CommitStep ==
  ASSUME TypeOK, TypeOK', AllKnownPersisted, CommitIsTotal, [Next]_vars
  PROVE  CommitIsTotal'
<1>0. AllPersisted => AllPersisted'
  BY AllPersistedStays
<1>1. CASE UNCHANGED <<mres, wres>>
  BY <1>0, <1>1 DEF CommitIsTotal
<1>2. ASSUME MasterStep
      PROVE  UNCHANGED wres /\ (mres' # "ok" \/ UNCHANGED mres \/ mphase = "COMPLETED_JOB")
  BY <1>2 DEF MasterStep, MasterStartsJob, MasterStartFails, PublishJobDetails, MasterBeginsSuperstep,
              AllWorkersArrived, AllWorkersNotified, MasterCompletesJob, MasterCompleteFails,
              MasterAborts, MasterContextExpires, MasterSeesDisconnect, MasterClosesStream,
              MasterReturns, MasterOnly, workerVars, masterVars
<1>3. ASSUME NEW w \in Workers, HandlerStep(w) \/ ReceiverStep(w) \/ LinkBreaks(w)
      PROVE  UNCHANGED <<mres, wres>>
  BY <1>3 DEF HandlerStep, HandlerTakesStep, HandlerTakesRelay, HandlerJoins, HandlerNotified,
              HandlerSends, HandlerDrops, HandlerExits, HandlerOnly, ReceiverStep, ReceiverTakesStep,
              ReceiverTakesRelay, ReceiverBounces, ReceiverExits, WorkerSeesDisconnect, WorkerOnly,
              LinkBreaks, MasterSide, masterVars, workerVars
<1>4. ASSUME NEW w \in Workers, WorkerStep(w)
      PROVE  CommitIsTotal'
  <2>1. UNCHANGED mres
    BY <1>4, WorkerSideKeepsBarrier DEF MasterSide, masterVars
  <2>2. \/ UNCHANGED wres
        \/ wres' = [wres EXCEPT ![w] = "err"]
        \/ wphase[w] = "COMPLETED_JOB"
    BY <1>4 DEF WorkerStep, WorkerTakesJob, WorkerGetsNoJob, WorkerStartsJob, WorkerStartFails,
         WorkerBeginsSuperstep, WorkerRelays, WorkerEndsStep, WorkerStepFails, WorkerEnters,
         WorkerLeavesPre, WorkerLeavesPost, WorkerLeavesKeep, WorkerLeavesExecuted,
         WorkerLeavesPersisted, Leaves, WorkerCompletesJob, WorkerCompleteFails, WorkerAborts,
         WorkerContextExpires, WorkerClosesStream, WorkerReturns, workerVars
  <2>3. CASE wphase[w] = "COMPLETED_JOB"
    BY <1>0, <2>3 DEF AllKnownPersisted, CommitIsTotal
  <2>4. CASE wres' = [wres EXCEPT ![w] = "err"]
    BY <1>0, <2>1, <2>4 DEF TypeOK, WorkerTypeOK, CommitIsTotal
  <2>5. QED
    BY <1>1, <2>1, <2>2, <2>3, <2>4
<1>5. CASE UNCHANGED vars
  BY <1>1, <1>5 DEF vars, masterVars, workerVars
<1>6. QED
  BY <1>0, <1>1, <1>2, <1>3, <1>4, <1>5 DEF Next, Stutter, AllKnownPersisted, CommitIsTotal

LEMMA CommitInit == Init => CommitInv
<1> SUFFICES ASSUME Init PROVE CommitInv
  OBVIOUS
<1>1. CommitIsTotal
  BY DEF Init, CommitIsTotal
<1>2. QED
  BY <1>1, BooksInit, OwnInit, KnownInit DEF CommitInv

\* CommitInv is an invariant: together with the types it is inductive.
THEOREM CommitInvariant == Spec => []CommitInv
<1>1. Init => CommitInv
  BY CommitInit
<1>2. TypeOK /\ TypeOK' /\ CommitInv /\ [Next]_vars => CommitInv'
  BY BooksStep, OwnStep, KnownStep, CommitStep DEF CommitInv
<1>3. QED
  BY <1>1, <1>2, TypeCorrect, PTL DEF Spec

\* A job that the master or any worker reports as successful is stored in full,
\* whatever fails and in whatever order.
THEOREM CommitTotal == Spec => []CommitIsTotal
<1>1. CommitInv => CommitIsTotal
  BY DEF CommitInv
<1>2. QED
  BY <1>1, CommitInvariant, PTL

-----------------------------------------------------------------------------
(***************************************************************************)
(* LockStep, the refinement of RoundBarrier.                               *)
(***************************************************************************)

(***************************************************************************)
(* What the operations on the streams do to the step that is in flight.    *)
(***************************************************************************)

\* Without a new step in it.
Quiet(p, q) == (NoStep(p) => NoStep(q)) /\ (OneStep(p) => OneStep(q))

LEMMA StepAppended ==
  ASSUME NEW S, NEW q \in Seq(S), NEW m \in S
  PROVE  /\ m.type # "step" => Quiet(q, Append(q, m))
         /\ NoStep(q) => OneStep(Append(q, m))
<1> DEFINE a == Append(q, m)
<1>1. /\ Len(q) \in Nat /\ Len(a) = Len(q) + 1
      /\ \A i \in 1 .. Len(q) : a[i] = q[i]
      /\ a[Len(q) + 1] = m
  BY AppendProperties, LenProperties
<1> HIDE DEF a
<1>2. \A i \in 1 .. Len(a) : i \in 1 .. Len(q) \/ i = Len(q) + 1
  BY <1>1
<1>3. m.type # "step" => Quiet(q, a)
  BY <1>1, <1>2 DEF Quiet, NoStep, OneStep
<1>4. NoStep(q) => OneStep(a)
  BY <1>1, <1>2 DEF NoStep, OneStep
<1>5. QED
  BY <1>3, <1>4 DEF a

LEMMA StepTaken ==
  ASSUME NEW S, NEW q \in Seq(S), q # <<>>
  PROVE  /\ Quiet(q, Tail(q))
         /\ Head(q).type = "step" => ~NoStep(q) /\ (OneStep(q) => NoStep(Tail(q)))
<1> DEFINE t == Tail(q)
<1>1. /\ Len(q) \in Nat /\ Len(q) >= 1 /\ Len(t) = Len(q) - 1
      /\ \A i \in 1 .. Len(t) : t[i] = q[i + 1]
      /\ Head(q) = q[1]
  BY HeadTailProperties, EmptySeq, LenProperties
<1> HIDE DEF t
<1>2. \A i \in 1 .. Len(t) : i + 1 \in 1 .. Len(q) /\ i + 1 # 1
  BY <1>1
<1>3. Quiet(q, t)
  <2>1. NoStep(q) => NoStep(t)
    BY <1>1, <1>2 DEF NoStep
  <2>2. OneStep(q) => OneStep(t)
    <3> SUFFICES ASSUME OneStep(q), NEW i \in 1 .. Len(t), NEW j \in 1 .. Len(t),
                        t[i].type = "step", t[j].type = "step"
                 PROVE  i = j
      BY DEF OneStep
    <3>1. i + 1 = j + 1
      BY <1>1, <1>2 DEF OneStep
    <3>2. QED
      BY <3>1, <1>1
  <2>3. QED
    BY <2>1, <2>2 DEF Quiet
<1>4. Head(q).type = "step" => ~NoStep(q) /\ (OneStep(q) => NoStep(t))
  BY <1>1, <1>2 DEF NoStep, OneStep
<1>5. QED
  BY <1>3, <1>4 DEF t

LEMMA StepCut ==
  ASSUME NEW S, NEW q \in Seq(S), NEW i \in 0 .. Len(q)
  PROVE  Quiet(q, SubSeq(q, 1, i))
<1> DEFINE s == SubSeq(q, 1, i)
<1>1. Len(q) \in Nat /\ i \in Int /\ \A k \in 1 .. i : q[k] \in S
  BY LenProperties, ElementOfSeq
<1>2. Len(s) = i /\ \A k \in 1 .. i : s[k] = q[k]
  BY <1>1, SubSeqProperties
<1> HIDE DEF s
<1>3. \A k \in 1 .. i : k \in 1 .. Len(q)
  BY <1>1
<1>4. Quiet(q, s)
  BY <1>2, <1>3 DEF Quiet, NoStep, OneStep
<1>5. QED
  BY <1>4 DEF s

QuietToMaster == \A v \in Workers : Quiet(toMaster[v], toMaster'[v])
QuietToWorker == \A v \in Workers : Quiet(toWorker[v], toWorker'[v])

LEMMA QuietKept == (UNCHANGED toMaster => QuietToMaster) /\ (UNCHANGED toWorker => QuietToWorker)
  BY DEF QuietToMaster, QuietToWorker, Quiet

LEMMA SentToMaster ==
  ASSUME StreamTypeOK, NEW w \in Workers, NEW m \in WorkerPayload, SendToMaster(w, m)
  PROVE  /\ m.type # "step" => QuietToMaster
         /\ NoStep(toMaster[w]) => OneStep(toMaster'[w])
         /\ \A v \in Workers \ {w} : toMaster'[v] = toMaster[v]
<1>1. /\ m.type # "step" => Quiet(toMaster[w], Append(toMaster[w], m))
      /\ NoStep(toMaster[w]) => OneStep(Append(toMaster[w], m))
  BY StepAppended DEF StreamTypeOK
<1>2. toMaster'[w] = Append(toMaster[w], m) \/ toMaster'[w] = toMaster[w]
  BY DEF StreamTypeOK, SendToMaster
<1>3. \A v \in Workers \ {w} : toMaster'[v] = toMaster[v]
  BY DEF StreamTypeOK, SendToMaster
<1>4. Quiet(toMaster[w], toMaster[w]) /\ (NoStep(toMaster[w]) => OneStep(toMaster[w]))
  BY DEF Quiet, NoStep, OneStep
<1>5. \A v \in Workers : Quiet(toMaster[v], toMaster[v])
  BY DEF Quiet
<1>6. QED
  BY <1>1, <1>2, <1>3, <1>4, <1>5 DEF QuietToMaster

LEMMA SentToWorker ==
  ASSUME StreamTypeOK, NEW w \in Workers, NEW m \in MasterPayload, SendToWorker(w, m)
  PROVE  /\ m.type # "step" => QuietToWorker
         /\ NoStep(toWorker[w]) => OneStep(toWorker'[w])
         /\ \A v \in Workers \ {w} : toWorker'[v] = toWorker[v]
<1>1. /\ m.type # "step" => Quiet(toWorker[w], Append(toWorker[w], m))
      /\ NoStep(toWorker[w]) => OneStep(Append(toWorker[w], m))
  BY StepAppended DEF StreamTypeOK
<1>2. toWorker'[w] = Append(toWorker[w], m) \/ toWorker'[w] = toWorker[w]
  BY DEF StreamTypeOK, SendToWorker
<1>3. \A v \in Workers \ {w} : toWorker'[v] = toWorker[v]
  BY DEF StreamTypeOK, SendToWorker
<1>4. Quiet(toWorker[w], toWorker[w]) /\ (NoStep(toWorker[w]) => OneStep(toWorker[w]))
  BY DEF Quiet, NoStep, OneStep
<1>5. \A v \in Workers : Quiet(toWorker[v], toWorker[v])
  BY DEF Quiet
<1>6. QED
  BY <1>1, <1>2, <1>3, <1>4, <1>5 DEF QuietToWorker

LEMMA TakenByMaster ==
  ASSUME StreamTypeOK, NEW w \in Workers, toMaster[w] # <<>>,
         toMaster' = [toMaster EXCEPT ![w] = Tail(@)]
  PROVE  /\ QuietToMaster
         /\ Head(toMaster[w]).type = "step" =>
              ~NoStep(toMaster[w]) /\ (OneStep(toMaster[w]) => NoStep(toMaster'[w]))
<1>1. /\ Quiet(toMaster[w], Tail(toMaster[w]))
      /\ Head(toMaster[w]).type = "step" =>
           ~NoStep(toMaster[w]) /\ (OneStep(toMaster[w]) => NoStep(Tail(toMaster[w])))
  BY StepTaken DEF StreamTypeOK
<1>2. toMaster'[w] = Tail(toMaster[w]) /\ \A v \in Workers \ {w} : toMaster'[v] = toMaster[v]
  BY DEF StreamTypeOK
<1>3. \A v \in Workers : Quiet(toMaster[v], toMaster[v])
  BY DEF Quiet
<1>4. QED
  BY <1>1, <1>2, <1>3 DEF QuietToMaster

LEMMA TakenByWorker ==
  ASSUME StreamTypeOK, NEW w \in Workers, toWorker[w] # <<>>,
         toWorker' = [toWorker EXCEPT ![w] = Tail(@)]
  PROVE  /\ QuietToWorker
         /\ Head(toWorker[w]).type = "step" =>
              ~NoStep(toWorker[w]) /\ (OneStep(toWorker[w]) => NoStep(toWorker'[w]))
<1>1. /\ Quiet(toWorker[w], Tail(toWorker[w]))
      /\ Head(toWorker[w]).type = "step" =>
           ~NoStep(toWorker[w]) /\ (OneStep(toWorker[w]) => NoStep(Tail(toWorker[w])))
  BY StepTaken DEF StreamTypeOK
<1>2. toWorker'[w] = Tail(toWorker[w]) /\ \A v \in Workers \ {w} : toWorker'[v] = toWorker[v]
  BY DEF StreamTypeOK
<1>3. \A v \in Workers : Quiet(toWorker[v], toWorker[v])
  BY DEF Quiet
<1>4. QED
  BY <1>1, <1>2, <1>3 DEF QuietToWorker

LEMMA QuietCut ==
  ASSUME StreamTypeOK, NEW w \in Workers,
         NEW i \in 0 .. Len(toMaster[w]), NEW j \in 0 .. Len(toWorker[w]), Cut(w, i, j)
  PROVE  QuietToMaster /\ QuietToWorker
<1>1. Quiet(toMaster[w], SubSeq(toMaster[w], 1, i)) /\ Quiet(toWorker[w], SubSeq(toWorker[w], 1, j))
  BY StepCut DEF StreamTypeOK
<1>2. \A v \in Workers : Quiet(toMaster[v], toMaster[v]) /\ Quiet(toWorker[v], toWorker[v])
  BY DEF Quiet
<1>3. QED
  BY <1>1, <1>2 DEF StreamTypeOK, Cut, QuietToMaster, QuietToWorker

-----------------------------------------------------------------------------
\* A step in which no payload moves into, within or out of the barrier.
LEMMA LockKept ==
  ASSUME TokenBooks, RoundBooks, QuietToMaster, QuietToWorker,
         \A v \in Workers : hpc'[v] = hpc[v] \/ hpc'[v] \notin Handling,
         \A v \in Workers : rpc'[v] = rpc[v] \/ rpc'[v] # "notify",
         \A v \in Workers : \/ wpc'[v] = wpc[v] \/ wpc'[v] = "done"
                            \/ wpc[v] \notin Between /\ wpc'[v] \notin Between,
         UNCHANGED roundVars,
         mpc' = mpc \/ mpc' = "done" \/ (mpc \notin {"notify", "done"} /\ mpc' # "notify")
  PROVE  TokenBooks' /\ RoundBooks'
<1>1. TokenBooks'
  BY DEF TokenBooks, QuietToMaster, QuietToWorker, Quiet, Between, Handling
<1>2. \A v \in Workers : (Asking(v)' => Asking(v)) /\ (Answered(v)' => Answered(v))
  BY DEF Asking, Answered, QuietToMaster, QuietToWorker, Quiet, Handling
<1>3. \A v \in Workers : mpc' # "done" => RoundOf(v)' = RoundOf(v)
  BY DEF RoundOf, roundVars
<1>4. RoundBooks'
  BY <1>2, <1>3 DEF RoundBooks, roundVars, Between, Handling
<1>5. QED
  BY <1>1, <1>4

LEMMA LockInit == Init => TokenBooks /\ RoundBooks
<1> SUFFICES ASSUME Init PROVE TokenBooks /\ RoundBooks
  OBVIOUS
<1>1. Len(<<>>) = 0 /\ NoStep(<<>>) /\ OneStep(<<>>)
  BY DEF NoStep, OneStep
<1>2. TokenBooks
  BY <1>1 DEF Init, TokenBooks, Between, Handling
<1>3. RoundBooks
  BY <1>1 DEF Init, RoundBooks, Asking, Answered, RoundOf, Between
<1>4. QED
  BY <1>2, <1>3

LEMMA LockMaster ==
  ASSUME TypeOK, LockInv, MasterStep
  PROVE  TokenBooks' /\ RoundBooks'
<1> USE DEF LockInv
<1>1. CASE \/ MasterStartsJob \/ MasterStartFails \/ MasterBeginsSuperstep \/ MasterCompletesJob
           \/ MasterCompleteFails \/ MasterAborts \/ MasterContextExpires
  <2>1. UNCHANGED <<hpc, rpc, wpc, roundVars, toMaster, toWorker>>
    BY <1>1 DEF MasterStartsJob, MasterStartFails, MasterBeginsSuperstep, MasterCompletesJob,
       MasterCompleteFails, MasterAborts, MasterContextExpires, MasterOnly, handlerVars, receiverVars,
       workerVars, streamVars
  <2>2. mpc' = mpc \/ mpc' = "done" \/ (mpc \notin {"notify", "done"} /\ mpc' # "notify")
    BY <1>1 DEF MasterStartsJob, MasterStartFails, MasterBeginsSuperstep, MasterCompletesJob,
       MasterCompleteFails, MasterAborts, MasterContextExpires, MasterReturns, EnterBarrier, masterVars
  <2>3. QED
    BY <2>1, <2>2, QuietKept, LockKept
<1>2. ASSUME NEW w \in Workers, PublishJobDetails(w)
      PROVE  TokenBooks' /\ RoundBooks'
  <2>1. QuietToWorker
    <3>1. CASE SendToWorker(w, [type |-> "details"])
      <4>1. [type |-> "details"] \in MasterPayload /\ [type |-> "details"].type # "step"
        BY DEF MasterPayload, JobDetailsMsg
      <4>2. QED
        BY <3>1, <4>1, SentToWorker DEF TypeOK
    <3>2. QED
      BY <1>2, <3>1, QuietKept DEF PublishJobDetails
  <2>2. UNCHANGED <<rpc, wpc, roundVars, toMaster>>
    BY <1>2 DEF PublishJobDetails, receiverVars, workerVars
  <2>3. \A v \in Workers : hpc'[v] = hpc[v] \/ hpc'[v] \notin Handling
    BY <1>2 DEF PublishJobDetails, TypeOK, HandlerTypeOK, Handling
  <2>4. mpc' = mpc \/ (mpc \notin {"notify", "done"} /\ mpc' # "notify")
    BY <1>2 DEF PublishJobDetails
  <2>5. QED
    BY <2>1, <2>2, <2>3, <2>4, QuietKept, LockKept
<1>3. CASE AllWorkersArrived
  <2>1. UNCHANGED <<hpc, rpc, wpc, roundVars, toMaster, toWorker>>
    BY <1>3 DEF AllWorkersArrived, MasterOnly, handlerVars, receiverVars, workerVars, streamVars
  <2>2. CASE mpc' = "done"
    BY <2>1, <2>2, QuietKept, LockKept
  <2>3. CASE mpc' = "notify" /\ mpc = "wait"
    <3>1. inround = Workers
      BY <1>3, InroundCounts, NumWorkersType DEF AllWorkersArrived, BarrierBooks, TypeOK
    <3>2. TokenBooks'
      BY <2>1, QuietKept DEF TokenBooks, QuietToMaster, QuietToWorker, Quiet
    <3>3. \A v \in Workers : (Asking(v)' <=> Asking(v)) /\ (Answered(v)' <=> Answered(v))
      BY <2>1 DEF Asking, Answered, NoStep
    <3>4. \A v \in Workers : RoundOf(v)' = RoundOf(v)
      BY <2>1, <2>3, <3>1 DEF RoundOf, roundVars
    <3>5. RoundBooks'
      BY <2>1, <2>3, <3>1, <3>3, <3>4 DEF RoundBooks, roundVars, TypeOK, HistoryTypeOK
    <3>6. QED
      BY <3>2, <3>5
  <2>4. QED
    BY <1>3, <2>2, <2>3 DEF AllWorkersArrived, MasterReturns
<1>4. CASE AllWorkersNotified
  <2>1. UNCHANGED <<hpc, rpc, wpc, toMaster, toWorker, arrived, passed, inround>>
    BY <1>4 DEF AllWorkersNotified, handlerVars, receiverVars, workerVars, streamVars
  <2>2. inround = {} /\ mpc = "notify" /\ mpc' \notin {"notify", "done"} /\ round' = round + 1
    BY <1>4, InroundCounts, NumWorkersType DEF AllWorkersNotified, BarrierBooks, EnterBarrier, TypeOK
  <2>3. TokenBooks'
    BY <2>1, QuietKept DEF TokenBooks, QuietToMaster, QuietToWorker, Quiet
  <2>4. \A v \in Workers : (Asking(v)' <=> Asking(v)) /\ (Answered(v)' <=> Answered(v))
    BY <2>1 DEF Asking, Answered, NoStep
  <2>5. \A v \in Workers : RoundOf(v)' = RoundOf(v)
    BY <2>1, <2>2 DEF RoundOf
  <2>6. RoundBooks'
    BY <2>1, <2>2, <2>4, <2>5 DEF RoundBooks
  <2>7. QED
    BY <2>3, <2>6
<1>5. ASSUME NEW w \in Workers, MasterSeesDisconnect(w) \/ MasterClosesStream(w)
      PROVE  TokenBooks' /\ RoundBooks'
  <2>1. UNCHANGED <<hpc, rpc, wpc, roundVars, mpc>>
    BY <1>5 DEF MasterSeesDisconnect, MasterClosesStream, MasterOnly, masterVars, handlerVars,
       receiverVars, workerVars
  <2>2. QuietToMaster /\ QuietToWorker
    <3>1. CASE MasterClosesStream(w)
      <4>1. PICK i \in 0 .. Len(toMaster[w]), j \in 0 .. Len(toWorker[w]) : Cut(w, i, j)
        BY <3>1, QueueLengths DEF TypeOK, MasterClosesStream
      <4>2. QED
        BY <4>1, QuietCut DEF TypeOK
    <3>2. QED
      BY <1>5, <3>1, QuietKept DEF MasterSeesDisconnect, MasterOnly, streamVars
  <2>3. QED
    BY <2>1, <2>2, LockKept
<1>6. QED
  BY <1>1, <1>2, <1>3, <1>4, <1>5 DEF MasterStep

\* A handler takes a step, or sends the reply to one, and moves on with it.
LEMMA LockHandler ==
  ASSUME TypeOK, LockInv, NEW w \in Workers, HandlerStep(w)
  PROVE  TokenBooks' /\ RoundBooks'
<1> USE DEF LockInv
<1>0. UNCHANGED <<rpc, wpc, mpc, arrived, passed, round>>
  BY DEF HandlerStep, HandlerTakesStep, HandlerTakesRelay, HandlerJoins, HandlerNotified,
     HandlerSends, HandlerDrops, HandlerExits, HandlerOnly, receiverVars, workerVars, roundVars
<1>1. CASE HandlerTakesRelay(w) \/ HandlerDrops(w) \/ HandlerExits(w)
  <2>1. UNCHANGED inround /\ \A v \in Workers : hpc'[v] = hpc[v] \/ hpc'[v] \notin Handling
    BY <1>1 DEF HandlerTakesRelay, HandlerDrops, HandlerExits, TypeOK, HandlerTypeOK, Handling,
       handlerVars, roundVars
  <2>2. QuietToMaster /\ QuietToWorker
    BY <1>1, TakenByMaster, QuietKept DEF TypeOK, HandlerTakesRelay, HandlerDrops, HandlerExits
  <2>3. QED
    BY <1>0, <2>1, <2>2, LockKept DEF roundVars
<1>2. CASE HandlerTakesStep(w)
  <2>1. /\ QuietToMaster /\ QuietToWorker /\ UNCHANGED inround
        /\ ~NoStep(toMaster[w]) /\ NoStep(toMaster'[w])
    BY <1>2, TakenByMaster, QuietKept DEF TypeOK, HandlerTakesStep, TokenBooks, roundVars
  <2>2. hpc' = [hpc EXCEPT ![w] = "join"] /\ toWorker' = toWorker
    BY <1>2 DEF HandlerTakesStep
  <2>3. TokenBooks'
    BY <1>0, <2>1, <2>2 DEF TokenBooks, QuietToMaster, QuietToWorker, Quiet, Handling, TypeOK, HandlerTypeOK
  <2>4. \A v \in Workers : (Asking(v)' => Asking(v)) /\ (Answered(v)' => Answered(v))
    BY <1>0, <2>1, <2>2 DEF Asking, Answered, QuietToMaster, QuietToWorker, Quiet, TypeOK, HandlerTypeOK
  <2>5. \A v \in Workers : RoundOf(v)' = RoundOf(v) /\ (hpc'[v] = "joined" => hpc[v] = "joined")
    BY <1>0, <2>1, <2>2 DEF RoundOf, TypeOK, HandlerTypeOK
  <2>6. RoundBooks'
    BY <1>0, <2>1, <2>4, <2>5 DEF RoundBooks
  <2>7. QED
    BY <2>3, <2>6
<1>3. CASE HandlerJoins(w)
  <2>1. /\ hpc' = [hpc EXCEPT ![w] = "joined"] /\ hpc[w] = "join" /\ mpc = "wait"
        /\ inround' = inround \cup {w}
        /\ UNCHANGED <<toMaster, toWorker>>
    BY <1>3 DEF HandlerJoins
  <2>2. TokenBooks'
    BY <1>0, <2>1, QuietKept DEF TokenBooks, QuietToMaster, QuietToWorker, Quiet, Handling, TypeOK, HandlerTypeOK
  <2>3. \A v \in Workers : (Asking(v)' => Asking(v)) /\ (Answered(v)' => Answered(v))
    BY <1>0, <2>1, QuietKept DEF Asking, Answered, QuietToMaster, QuietToWorker, Quiet, TypeOK, HandlerTypeOK
  <2>4. Asking(w) /\ \A v \in Workers : RoundOf(v)' = RoundOf(v) /\ RoundOf(v) = round
    BY <1>0, <2>1 DEF RoundOf, Asking
  <2>5. RoundBooks'
    BY <1>0, <2>1, <2>3, <2>4 DEF RoundBooks, TypeOK, HandlerTypeOK
  <2>6. QED
    BY <2>2, <2>5
<1>4. CASE HandlerNotified(w)
  <2>1. /\ hpc' = [hpc EXCEPT ![w] = "reply"] /\ hpc[w] = "joined" /\ mpc = "notify"
        /\ inround' = inround \ {w} /\ w \in inround
        /\ UNCHANGED <<toMaster, toWorker>>
    BY <1>4 DEF HandlerNotified, BarrierBooks
  <2>2. TokenBooks'
    BY <1>0, <2>1, QuietKept DEF TokenBooks, QuietToMaster, QuietToWorker, Quiet, Handling, TypeOK, HandlerTypeOK
  <2>3. /\ ~Asking(w) /\ ~Answered(w) /\ ~Asking(w)'
        /\ \A v \in Workers \ {w} : /\ Asking(v)' => Asking(v)
                                    /\ Answered(v)' => Answered(v)
    BY <1>0, <2>1, QuietKept DEF Asking, Answered, TokenBooks, Handling, QuietToMaster, QuietToWorker, Quiet, TypeOK, HandlerTypeOK
  <2>4. /\ RoundOf(w)' = round + 1
        /\ \A v \in Workers \ {w} : RoundOf(v)' = RoundOf(v)
    BY <1>0, <2>1 DEF RoundOf
  <2>5. passed[w] = round /\ arrived[w] = round + 1 /\ wpc[w] \in Between
    BY <2>1 DEF RoundBooks, TokenBooks, Handling
  <2>6. RoundBooks'
    BY <1>0, <2>1, <2>3, <2>4, <2>5 DEF RoundBooks, TypeOK, HandlerTypeOK
  <2>7. QED
    BY <2>2, <2>6
<1>5. CASE HandlerSends(w)
  <2>1. /\ hpc' = [hpc EXCEPT ![w] = "recv"] /\ hmsg[w] \in MasterPayload
        /\ UNCHANGED <<toMaster, inround>>
    BY <1>5 DEF HandlerSends, TypeOK, HandlerTypeOK, MasterPayload, WorkerPayload, roundVars
  <2>2. \A v \in Workers : hpc'[v] = hpc[v] \/ hpc'[v] \notin Handling
    BY <2>1 DEF TypeOK, HandlerTypeOK, Handling
  <2>3. CASE hpc[w] = "relay" /\ SendToWorker(hmsg[w].dst, hmsg[w])
    <3>1. hmsg[w].type # "step" /\ hmsg[w].dst \in Workers
      BY <2>3 DEF TypeOK, HandlerTypeOK, RelayMsg
    <3>2. QuietToWorker
      BY <2>1, <2>3, <3>1, SentToWorker DEF TypeOK
    <3>3. QED
      BY <1>0, <2>1, <2>2, <3>2, QuietKept, LockKept DEF roundVars
  <2>4. CASE hpc[w] = "reply" /\ SendToWorker(w, hmsg[w])
    <3>1. /\ NoStep(toWorker[w]) => OneStep(toWorker'[w])
          /\ \A v \in Workers \ {w} : toWorker'[v] = toWorker[v]
      BY <2>1, <2>4, SentToWorker DEF TypeOK
    <3>2. Answered(w) /\ wpc[w] \in Between
      BY <2>4 DEF Answered, TokenBooks, Handling
    <3>3. TokenBooks'
      BY <1>0, <2>1, <2>4, <3>1 DEF TokenBooks, Handling, NoStep, OneStep, TypeOK, HandlerTypeOK
    <3>4. \A v \in Workers : (Asking(v)' => Asking(v)) /\ (Answered(v)' => Answered(v))
      BY <1>0, <2>1, <3>1, <3>2 DEF Asking, Answered, NoStep, TypeOK, HandlerTypeOK
    <3>5. \A v \in Workers : RoundOf(v)' = RoundOf(v) /\ (hpc'[v] = "joined" => hpc[v] = "joined")
      BY <1>0, <2>1 DEF RoundOf, TypeOK, HandlerTypeOK
    <3>6. RoundBooks'
      BY <1>0, <2>1, <3>4, <3>5 DEF RoundBooks
    <3>7. QED
      BY <3>3, <3>6
  <2>5. QED
    BY <1>5, <2>3, <2>4 DEF HandlerSends
<1>6. QED
  BY <1>1, <1>2, <1>3, <1>4, <1>5 DEF HandlerStep

\* Wait returns: the round is over for the worker.
LEMMA LockLeaves ==
  ASSUME TypeOK, LockInv, NEW w \in Workers, NEW p \in Phases, Leaves(w, p),
         NEW pc, wpc' = [wpc EXCEPT ![w] = pc], pc \notin Between
  PROVE  TokenBooks' /\ RoundBooks'
<1> USE DEF LockInv
<1>1. /\ wpc[w] = "wait" /\ rpc[w] = "notify"
      /\ rpc' = [rpc EXCEPT ![w] = "recv"] /\ passed' = [passed EXCEPT ![w] = @ + 1]
      /\ UNCHANGED <<hpc, mpc, toMaster, toWorker, arrived, inround, round>>
  BY DEF Leaves, MasterSide, masterVars, handlerVars, streamVars
<1>2. /\ NoStep(toMaster[w]) /\ NoStep(toWorker[w]) /\ hpc[w] \notin Handling
  BY <1>1 DEF TokenBooks
<1>3. TokenBooks'
  BY <1>1, <1>2, QuietKept DEF TokenBooks, QuietToMaster, QuietToWorker, Quiet, Handling, TypeOK, WorkerTypeOK, ReceiverTypeOK
<1>4. /\ Answered(w) /\ ~Asking(w)' /\ ~Answered(w)' /\ hpc[w] # "joined"
      /\ \A v \in Workers \ {w} : (Asking(v)' => Asking(v)) /\ (Answered(v)' => Answered(v))
  BY <1>1, <1>2, QuietKept DEF Asking, Answered, Handling, QuietToMaster, QuietToWorker, Quiet, TypeOK, ReceiverTypeOK
<1>5. \A v \in Workers : RoundOf(v)' = RoundOf(v)
  BY <1>1 DEF RoundOf
<1>6. passed'[w] = passed[w] + 1 /\ \A v \in Workers \ {w} : passed'[v] = passed[v]
  BY <1>1 DEF TypeOK, HistoryTypeOK
<1>7. \A v \in Workers : wpc'[v] = "wait" => v # w /\ wpc[v] = "wait"
  BY <1>1 DEF Between, TypeOK, WorkerTypeOK
<1>8. \A v \in Workers \ {w} : wpc'[v] = wpc[v]
  BY <1>1 DEF TypeOK, WorkerTypeOK
<1>9. mpc # "done" => w \notin inround
  BY <1>4 DEF RoundBooks, RoundOf, TypeOK, HistoryTypeOK
<1>10. RoundBooks'
  <2>1. arrived[w] = passed[w] + 1
    BY <1>1 DEF RoundBooks
  <2>2. mpc # "done" => passed[w] + 1 = RoundOf(w)
    BY <1>4 DEF RoundBooks
  <2>3. QED
    BY <1>1, <1>4, <1>5, <1>6, <1>7, <1>8, <1>9, <2>1, <2>2 DEF RoundBooks, TypeOK, HistoryTypeOK
<1>11. QED
  BY <1>3, <1>10

LEMMA LockWorker ==
  ASSUME TypeOK, LockInv, NEW w \in Workers, WorkerStep(w)
  PROVE  TokenBooks' /\ RoundBooks'
<1> USE DEF LockInv
<1>0. UNCHANGED <<hpc, mpc, inround, round>>
  BY WorkerSideKeepsBarrier DEF MasterSide, masterVars, handlerVars
<1>1. CASE \/ WorkerTakesJob(w) \/ WorkerGetsNoJob(w) \/ WorkerStartsJob(w) \/ WorkerStartFails(w)
           \/ WorkerBeginsSuperstep(w) \/ WorkerStepFails(w) \/ WorkerCompletesJob(w)
           \/ WorkerCompleteFails(w) \/ WorkerAborts(w)
  <2>1. /\ \A v \in Workers : \/ wpc'[v] = wpc[v] \/ wpc'[v] = "done"
                              \/ wpc[v] \notin Between /\ wpc'[v] \notin Between
        /\ \A v \in Workers : rpc'[v] = rpc[v] \/ rpc'[v] # "notify"
    BY <1>1 DEF WorkerTakesJob, WorkerGetsNoJob, WorkerStartsJob, WorkerStartFails, WorkerBeginsSuperstep,
       WorkerStepFails, WorkerCompletesJob, WorkerCompleteFails, WorkerAborts, WorkerReturns, HeadsFor,
       Goto, receiverVars, Between, TypeOK, WorkerTypeOK, ReceiverTypeOK
  <2>2. UNCHANGED <<roundVars, toMaster>>
    BY <1>1 DEF WorkerTakesJob, WorkerGetsNoJob, WorkerStartsJob, WorkerStartFails, WorkerBeginsSuperstep,
       WorkerStepFails, WorkerCompletesJob, WorkerCompleteFails, WorkerAborts, streamVars
  <2>3. QuietToWorker
    BY <1>1, TakenByWorker, QuietKept DEF TypeOK, WorkerTakesJob, WorkerGetsNoJob, WorkerStartsJob,
       WorkerStartFails, WorkerBeginsSuperstep, WorkerStepFails, WorkerCompletesJob, WorkerCompleteFails,
       WorkerAborts, streamVars
  <2>4. QED
    BY <1>0, <2>1, <2>2, <2>3, QuietKept, LockKept
<1>2. ASSUME NEW d \in Workers, NEW known \in BOOLEAN, WorkerRelays(w, d, known)
      PROVE  TokenBooks' /\ RoundBooks'
  <2> DEFINE m == [type |-> "relay", dst |-> d, known |-> known, sent |-> wstep[w]]
  <2>1. m \in WorkerPayload /\ m.type # "step"
    BY DEF TypeOK, WorkerTypeOK, WorkerPayload, RelayMsg
  <2>2. SendToMaster(w, m) /\ UNCHANGED <<wpc, rpc, roundVars, toWorker>>
    BY <1>2 DEF WorkerRelays, receiverVars
  <2> HIDE DEF m
  <2>3. QED
    BY <1>0, <2>1, <2>2, SentToMaster, QuietKept, LockKept DEF TypeOK
<1>3. ASSUME NEW act \in {0, 1}, NEW delta \in {0, 1}, WorkerEndsStep(w, act, delta)
      PROVE  TokenBooks' /\ RoundBooks'
  <2>1. UNCHANGED <<rpc, roundVars, toMaster, toWorker>>
    BY <1>3 DEF WorkerEndsStep, receiverVars, streamVars
  <2>2. \A v \in Workers : wpc'[v] = wpc[v] \/ (wpc[v] \notin Between /\ wpc'[v] \notin Between)
    BY <1>3 DEF WorkerEndsStep, HeadsFor, Goto, Between, TypeOK, WorkerTypeOK
  <2>3. QED
    BY <1>0, <2>1, <2>2, QuietKept, LockKept
<1>4. CASE WorkerEnters(w)
  <2>1. /\ wpc[w] = "enter" /\ wpc' = [wpc EXCEPT ![w] = "wait"]
        /\ arrived' = [arrived EXCEPT ![w] = @ + 1]
        /\ UNCHANGED <<rpc, toWorker, passed>>
    BY <1>4 DEF WorkerEnters, Goto, receiverVars
  <2>2. /\ NoStep(toMaster[w]) /\ hpc[w] \notin Handling
        /\ NoStep(toWorker[w]) /\ rpc[w] # "notify"
    BY <2>1 DEF TokenBooks, Between
  <2>3. OneStep(toMaster'[w]) /\ \A v \in Workers \ {w} : toMaster'[v] = toMaster[v]
    <3>1. SendToMaster(w, Step(wphase[w], StepValue(w)))
      BY <1>4 DEF WorkerEnters
    <3>2. Step(wphase[w], StepValue(w)) \in WorkerPayload
      <4>1. wphase[w] \in Phases /\ StepValue(w) \in Int
        BY DEF TypeOK, WorkerTypeOK, StepValue
      <4>2. QED
        BY <4>1, StepType DEF WorkerPayload
    <3>3. QED
      BY <2>2, <3>1, <3>2, SentToMaster DEF TypeOK
  <2>4. \A v \in Workers \ {w} : /\ Quiet(toMaster[v], toMaster'[v])
                                 /\ wpc'[v] = wpc[v] /\ arrived'[v] = arrived[v]
    BY <2>1, <2>3 DEF Quiet, TypeOK, WorkerTypeOK, HistoryTypeOK
  <2>5. wpc'[w] = "wait" /\ arrived'[w] = arrived[w] + 1
    BY <2>1 DEF TypeOK, WorkerTypeOK, HistoryTypeOK
  <2>6. TokenBooks'
    BY <1>0, <2>1, <2>2, <2>3, <2>4, <2>5, QuietKept DEF TokenBooks, Quiet, QuietToWorker, Between
  <2>7. /\ ~Answered(w)' /\ ~Answered(w)
        /\ \A v \in Workers \ {w} : (Asking(v)' => Asking(v)) /\ (Answered(v)' => Answered(v))
        /\ \A v \in Workers : Answered(v)' => Answered(v)
    BY <1>0, <2>1, <2>2, <2>4, QuietKept DEF Asking, Answered, Handling, Quiet, QuietToWorker
  <2>8. \A v \in Workers : RoundOf(v)' = RoundOf(v)
    BY <1>0 DEF RoundOf
  <2>9. arrived[w] = passed[w] /\ (mpc # "done" => passed[w] = RoundOf(w) /\ w \notin inround)
    BY <2>1 DEF RoundBooks, Between, TypeOK, HistoryTypeOK
  <2>10. RoundBooks'
    BY <1>0, <2>1, <2>2, <2>4, <2>5, <2>7, <2>8, <2>9 DEF RoundBooks, Handling, Between, TypeOK, HistoryTypeOK
  <2>11. QED
    BY <2>6, <2>10
<1>5. CASE \/ WorkerLeavesPre(w) \/ WorkerLeavesPost(w) \/ WorkerLeavesKeep(w)
           \/ WorkerLeavesExecuted(w) \/ WorkerLeavesPersisted(w)
  <2>1. \E p \in Phases : Leaves(w, p)
    BY <1>5 DEF WorkerLeavesPre, WorkerLeavesPost, WorkerLeavesKeep, WorkerLeavesExecuted,
       WorkerLeavesPersisted, Phases
  <2>2. \E pc : wpc' = [wpc EXCEPT ![w] = pc] /\ pc \notin Between
    BY <1>5 DEF WorkerLeavesPre, WorkerLeavesPost, WorkerLeavesKeep, WorkerLeavesExecuted,
       WorkerLeavesPersisted, HeadsFor, Goto, Between
  <2>3. QED
    BY <2>1, <2>2, LockLeaves
<1>6. CASE WorkerContextExpires(w) \/ WorkerClosesStream(w)
  <2>1. PICK i \in 0 .. Len(toMaster[w]), j \in 0 .. Len(toWorker[w]) : Cut(w, i, j)
    BY <1>6, QueueLengths DEF TypeOK, WorkerContextExpires, WorkerClosesStream
  <2>2. UNCHANGED <<wpc, rpc, roundVars>>
    BY <1>6 DEF WorkerContextExpires, WorkerClosesStream, workerVars, receiverVars
  <2>3. QED
    BY <1>0, <2>1, <2>2, QuietCut, LockKept DEF TypeOK
<1>7. QED
  BY <1>1, <1>2, <1>3, <1>4, <1>5, <1>6 DEF WorkerStep

LEMMA LockReceiver ==
  ASSUME TypeOK, LockInv, NEW w \in Workers, ReceiverStep(w) \/ LinkBreaks(w)
  PROVE  TokenBooks' /\ RoundBooks'
<1> USE DEF LockInv
<1>0. UNCHANGED <<hpc, mpc, wpc, roundVars>>
  BY DEF ReceiverStep, ReceiverTakesStep, ReceiverTakesRelay, ReceiverBounces, ReceiverExits,
     WorkerSeesDisconnect, LinkBreaks, WorkerOnly, MasterSide, masterVars, handlerVars, workerVars
<1>1. CASE ReceiverTakesStep(w)
  <2>1. /\ rpc' = [rpc EXCEPT ![w] = "notify"] /\ UNCHANGED toMaster
        /\ QuietToWorker /\ ~NoStep(toWorker[w]) /\ NoStep(toWorker'[w])
    BY <1>1, TakenByWorker DEF TypeOK, ReceiverTakesStep, TokenBooks
  <2>2. TokenBooks'
    BY <1>0, <2>1, QuietKept DEF TokenBooks, QuietToMaster, QuietToWorker, Quiet, TypeOK, ReceiverTypeOK
  <2>3. \A v \in Workers : (Asking(v)' => Asking(v)) /\ (Answered(v)' => Answered(v))
    BY <1>0, <2>1, QuietKept DEF Asking, Answered, QuietToMaster, QuietToWorker, Quiet, TypeOK, ReceiverTypeOK
  <2>4. \A v \in Workers : RoundOf(v)' = RoundOf(v)
    BY <1>0 DEF RoundOf, roundVars
  <2>5. RoundBooks'
    BY <1>0, <2>1, <2>3, <2>4 DEF RoundBooks, roundVars
  <2>6. QED
    BY <2>2, <2>5
<1>2. CASE ReceiverTakesRelay(w) \/ ReceiverBounces(w) \/ ReceiverExits(w) \/ WorkerSeesDisconnect(w)
  <2>1. \A v \in Workers : rpc'[v] = rpc[v] \/ rpc'[v] # "notify"
    BY <1>2 DEF ReceiverTakesRelay, ReceiverBounces, ReceiverExits, WorkerSeesDisconnect, receiverVars,
       TypeOK, ReceiverTypeOK
  <2>2. QuietToWorker
    BY <1>2, TakenByWorker, QuietKept DEF TypeOK, ReceiverTakesRelay, ReceiverBounces, ReceiverExits,
       WorkerSeesDisconnect
  <2>3. QuietToMaster
    <3>1. CASE ReceiverBounces(w)
      <4>1. SendToMaster(w, rmsg[w]) /\ rmsg[w] \in WorkerPayload /\ rmsg[w].type # "step"
        BY <3>1 DEF ReceiverBounces, TypeOK, ReceiverTypeOK, RelayMsg, WorkerPayload
      <4>2. QED
        BY <4>1, SentToMaster DEF TypeOK
    <3>2. QED
      BY <1>2, <3>1, QuietKept DEF ReceiverTakesRelay, ReceiverExits, WorkerSeesDisconnect
  <2>4. QED
    BY <1>0, <2>1, <2>2, <2>3, LockKept
<1>3. CASE LinkBreaks(w)
  <2>1. PICK i \in 0 .. Len(toMaster[w]), j \in 0 .. Len(toWorker[w]) : Cut(w, i, j)
    BY <1>3 DEF LinkBreaks
  <2>2. UNCHANGED rpc
    BY <1>3 DEF LinkBreaks, receiverVars
  <2>3. QED
    BY <1>0, <2>1, <2>2, QuietCut, LockKept DEF TypeOK
<1>4. QED
  BY <1>1, <1>2, <1>3 DEF ReceiverStep

LEMMA LockStepInductive ==
  ASSUME TypeOK, LockInv, [Next]_vars
  PROVE  LockInv'
<1>1. BarrierBooks'
  BY BooksStep DEF LockInv
<1>2. CASE UNCHANGED vars
  <2>1. UNCHANGED <<hpc, rpc, wpc, mpc, roundVars, toMaster, toWorker>>
    BY <1>2 DEF vars, masterVars, handlerVars, workerVars, receiverVars, streamVars
  <2>2. QED
    BY <1>1, <2>1, QuietKept, LockKept DEF LockInv
<1>3. QED
  BY <1>1, <1>2, LockMaster, LockHandler, LockWorker, LockReceiver DEF Next, Stutter, LockInv

\* LockInv is an invariant: together with the types it is inductive.
THEOREM LockInvariant == Spec => []LockInv
<1>1. Init => LockInv
  BY BooksInit, LockInit DEF LockInv
<1>2. TypeOK /\ LockInv /\ [Next]_vars => LockInv'
  BY LockStepInductive
<1>3. QED
  BY <1>1, <1>2, TypeCorrect, PTL DEF Spec

-----------------------------------------------------------------------------
(***************************************************************************)
(* The refinement.                                                         *)
(***************************************************************************)

\* Who enters a barrier has left the one before.
LEMMA EntersIsArrive ==
  ASSUME TypeOK, LockInv, NEW w \in Workers, WorkerEnters(w)
  PROVE  RB!Arrive(w)
<1>1. wpc[w] = "enter" /\ arrived' = [arrived EXCEPT ![w] = @ + 1] /\ UNCHANGED passed
  BY DEF WorkerEnters
<1>2. arrived[w] = passed[w]
  BY <1>1 DEF LockInv, RoundBooks, Between
<1>3. QED
  BY <1>1, <1>2 DEF RB!Arrive

\* Who leaves one has the evidence that everyone has entered it.
LEMMA LeavesIsPass ==
  ASSUME TypeOK, LockInv, NEW w \in Workers, NEW p, Leaves(w, p)
  PROVE  RB!Pass(w)
<1>1. /\ wpc[w] = "wait" /\ rpc[w] = "notify"
      /\ passed' = [passed EXCEPT ![w] = @ + 1] /\ UNCHANGED arrived
  BY DEF Leaves
<1>2. arrived[w] = passed[w] + 1 /\ \A v \in Workers : arrived[v] > passed[w]
  BY <1>1 DEF LockInv, RoundBooks, Answered
<1>3. QED
  BY <1>1, <1>2 DEF RB!Pass

\* No other step counts a round.
LEMMA OthersStutter ==
  ASSUME [Next]_vars
  PROVE  \/ UNCHANGED <<arrived, passed>>
         \/ \E w \in Workers : WorkerEnters(w) \/ \E p \in Phases : Leaves(w, p)
<1>1. CASE MasterStep
  BY <1>1 DEF MasterStep, MasterStartsJob, MasterStartFails, PublishJobDetails, MasterBeginsSuperstep,
              AllWorkersArrived, AllWorkersNotified, MasterCompletesJob, MasterCompleteFails,
              MasterAborts, MasterContextExpires, MasterSeesDisconnect, MasterClosesStream,
              MasterOnly, roundVars
<1>2. ASSUME NEW w \in Workers, HandlerStep(w)
      PROVE  UNCHANGED <<arrived, passed>>
  BY <1>2 DEF HandlerStep, HandlerTakesStep, HandlerTakesRelay, HandlerJoins, HandlerNotified,
              HandlerSends, HandlerDrops, HandlerExits, HandlerOnly, roundVars
<1>3. ASSUME NEW w \in Workers, WorkerStep(w)
      PROVE  UNCHANGED <<arrived, passed>> \/ WorkerEnters(w) \/ \E p \in Phases : Leaves(w, p)
  BY <1>3 DEF WorkerStep, WorkerTakesJob, WorkerGetsNoJob, WorkerStartsJob, WorkerStartFails,
              WorkerBeginsSuperstep, WorkerRelays, WorkerEndsStep, WorkerStepFails,
              WorkerLeavesPre, WorkerLeavesPost, WorkerLeavesKeep, WorkerLeavesExecuted,
              WorkerLeavesPersisted, WorkerCompletesJob, WorkerCompleteFails, WorkerAborts,
              WorkerContextExpires, WorkerClosesStream, roundVars, Phases
<1>4. ASSUME NEW w \in Workers, ReceiverStep(w) \/ LinkBreaks(w)
      PROVE  UNCHANGED <<arrived, passed>>
  BY <1>4 DEF ReceiverStep, ReceiverTakesStep, ReceiverTakesRelay, ReceiverBounces, ReceiverExits,
              WorkerSeesDisconnect, WorkerOnly, LinkBreaks, roundVars
<1>5. CASE UNCHANGED vars
  BY <1>5 DEF vars, roundVars
<1>6. QED
  BY <1>1, <1>2, <1>3, <1>4, <1>5 DEF Next, Stutter

\* The job's barrier implements the abstract one: whatever fails, no worker is
\* told that a round is over before every worker has entered it.
THEOREM BarrierImplemented == Spec => LockStep
<1>1. Init => RB!Init
  BY DEF Init, RB!Init
<1>2. TypeOK /\ LockInv /\ [Next]_vars => [RB!Next]_(RB!vars)
  BY EntersIsArrive, LeavesIsPass, OthersStutter DEF RB!Next, RB!vars
<1>3. QED
  BY <1>1, <1>2, TypeCorrect, LockInvariant, PTL DEF Spec, LockStep, RB!Spec

-----------------------------------------------------------------------------
(***************************************************************************)
(* AgreeOnRounds.                                                          *)
(***************************************************************************)

(***************************************************************************)
(* How the steps, and the replies to them, move.                           *)
(***************************************************************************)
LEMMA QueuesAsSets ==
  ASSUME TypeOK, NEW w \in Workers
  PROVE  /\ Range(toWorker[w]) = {toWorker[w][i] : i \in 1 .. Len(toWorker[w])}
         /\ Range(toMaster[w]) = {toMaster[w][i] : i \in 1 .. Len(toMaster[w])}
<1>1. toWorker[w] \in Seq(MasterPayload) /\ toMaster[w] \in Seq(WorkerPayload)
  BY DEF TypeOK, StreamTypeOK
<1>2. QED
  BY <1>1, RangeEquality

LEMMA TokensInFlight ==
  ASSUME TypeOK, NEW w \in Workers
  PROVE  (Asking(w) <=> Asks(w) # {}) /\ (Answered(w) <=> Replies(w) # {})
<1>1. /\ Range(toWorker[w]) = {toWorker[w][i] : i \in 1 .. Len(toWorker[w])}
      /\ Range(toMaster[w]) = {toMaster[w][i] : i \in 1 .. Len(toMaster[w])}
  BY QueuesAsSets
<1>2. Asking(w) <=> Asks(w) # {}
  BY <1>1 DEF Asking, Asks, NoStep
<1>3. Answered(w) <=> Replies(w) # {}
  BY <1>1 DEF Answered, Replies, NoStep
<1>4. QED
  BY <1>2, <1>3

NoNewReply == \A v \in Workers : \A m \in Replies(v)' : m \in Replies(v)
NoNewAsk   == \A v \in Workers : \A m \in Asks(v)' : m \in Asks(v)

\* Only streams that shrink, or that get no step, make no reply.
LEMMA RepliesKept ==
  ASSUME \A v \in Workers : hpc'[v] = "reply" => hpc[v] = "reply" /\ hmsg'[v] = hmsg[v],
         \A v \in Workers : rpc'[v] = "notify" => rpc[v] = "notify" /\ rmsg'[v] = rmsg[v],
         \A v \in Workers : \A m \in Range(toWorker'[v]) :
            m \in Range(toWorker[v]) \/ m.type # "step"
  PROVE  NoNewReply
  BY DEF NoNewReply, Replies

LEMMA AsksKept ==
  ASSUME \A v \in Workers : hpc'[v] = "join" => hpc[v] = "join" /\ hmsg'[v] = hmsg[v],
         \A v \in Workers : \A m \in Range(toMaster'[v]) :
            m \in Range(toMaster[v]) \/ m.type # "step"
  PROVE  NoNewAsk
  BY DEF NoNewAsk, Asks

\* No step of the master itself makes either.
LEMMA MasterMakesNone ==
  ASSUME TypeOK, MasterStep
  PROVE  /\ NoNewReply /\ NoNewAsk
         /\ UNCHANGED <<wpc, wphase, wstep, value, prev, active, arrived, passed, inround, tally>>
<1>1. UNCHANGED <<hmsg, rpc, rmsg, wpc, wphase, wstep, value, prev, active, arrived, passed, inround, tally>>
  BY DEF MasterStep, MasterStartsJob, MasterStartFails, PublishJobDetails, MasterBeginsSuperstep,
     AllWorkersArrived, AllWorkersNotified, MasterCompletesJob, MasterCompleteFails, MasterAborts,
     MasterContextExpires, MasterSeesDisconnect, MasterClosesStream, MasterOnly, handlerVars,
     receiverVars, workerVars, computeVars, roundVars, dataHistory
<1>2. \A v \in Workers : hpc'[v] = hpc[v] \/ hpc'[v] \in {"published", "recv"}
  <2>1. CASE \E w \in Workers : PublishJobDetails(w)
    BY <2>1 DEF PublishJobDetails, TypeOK, HandlerTypeOK
  <2>2. CASE ~\E w \in Workers : PublishJobDetails(w)
    BY <2>2 DEF MasterStep, MasterStartsJob, MasterStartFails, MasterBeginsSuperstep,
       AllWorkersArrived, AllWorkersNotified, MasterCompletesJob, MasterCompleteFails, MasterAborts,
       MasterContextExpires, MasterSeesDisconnect, MasterClosesStream, MasterOnly, handlerVars
  <2>3. QED
    BY <2>1, <2>2
<1>3. /\ \A v \in Workers : \A m \in Range(toWorker'[v]) : m \in Range(toWorker[v]) \/ m.type # "step"
      /\ \A v \in Workers : \A m \in Range(toMaster'[v]) : m \in Range(toMaster[v])
  <2>1. ASSUME NEW w \in Workers, PublishJobDetails(w)
        PROVE  /\ \A v \in Workers : \A m \in Range(toWorker'[v]) : m \in Range(toWorker[v]) \/ m.type # "step"
               /\ \A v \in Workers : \A m \in Range(toMaster'[v]) : m \in Range(toMaster[v])
    <3>1. CASE SendToWorker(w, [type |-> "details"])
      <4>1. [type |-> "details"] \in MasterPayload /\ [type |-> "details"].type # "step"
        BY DEF MasterPayload, JobDetailsMsg
      <4>2. QED
        BY <2>1, <3>1, <4>1, SendToWorkerRange DEF TypeOK, PublishJobDetails
    <3>2. QED
      BY <2>1, <3>1 DEF PublishJobDetails
  <2>2. ASSUME NEW w \in Workers, MasterClosesStream(w)
        PROVE  /\ \A v \in Workers : \A m \in Range(toWorker'[v]) : m \in Range(toWorker[v]) \/ m.type # "step"
               /\ \A v \in Workers : \A m \in Range(toMaster'[v]) : m \in Range(toMaster[v])
    <3>1. PICK i \in 0 .. Len(toMaster[w]), j \in 0 .. Len(toWorker[w]) : Cut(w, i, j)
      BY <2>2, QueueLengths DEF TypeOK, MasterClosesStream
    <3>2. QED
      BY <3>1, CutRange DEF TypeOK
  <2>3. CASE ~\E w \in Workers : PublishJobDetails(w) \/ MasterClosesStream(w)
    BY <2>3 DEF MasterStep, MasterStartsJob, MasterStartFails, MasterBeginsSuperstep,
       AllWorkersArrived, AllWorkersNotified, MasterCompletesJob, MasterCompleteFails, MasterAborts,
       MasterContextExpires, MasterSeesDisconnect, MasterOnly, streamVars
  <2>4. QED
    BY <2>1, <2>2, <2>3
<1>4. QED
  BY <1>1, <1>2, <1>3, RepliesKept, AsksKept

\* A handler makes a reply when the barrier lets it go on.
LEMMA HandlerMakesReply ==
  ASSUME TypeOK, NEW w \in Workers, HandlerStep(w)
  PROVE  /\ \A v \in Workers : \A m \in Replies(v)' :
              m \in Replies(v) \/ (v = w /\ HandlerNotified(w) /\ m = Broadcast)
         /\ NoNewAsk
         /\ UNCHANGED <<wpc, wphase, wstep, value, prev, active, arrived, passed, tally,
                        rpc, rmsg, mpc, mphase, mstep, mvalue, round>>
<1>1. UNCHANGED <<wpc, wphase, wstep, value, prev, active, arrived, passed, tally, rpc, rmsg, mpc, mphase, mstep, mvalue, round>>
  BY DEF HandlerStep, HandlerTakesStep, HandlerTakesRelay, HandlerJoins, HandlerNotified, HandlerSends,
     HandlerDrops, HandlerExits, HandlerOnly, receiverVars, workerVars, computeVars, roundVars, dataHistory
<1>2. \A v \in Workers \ {w} : hpc'[v] = hpc[v] /\ hmsg'[v] = hmsg[v]
  BY DEF HandlerStep, HandlerTakesStep, HandlerTakesRelay, HandlerJoins, HandlerNotified, HandlerSends,
     HandlerDrops, HandlerExits, handlerVars, TypeOK, HandlerTypeOK
<1>3. CASE HandlerSends(w)
  <2>1. hpc[w] = "reply" => \A v \in Workers : \A m \in Range(toWorker'[v]) :
          m \in Range(toWorker[v]) \/ (v = w /\ m = hmsg[w])
    <3>1. hpc[w] = "reply" => SendToWorker(w, hmsg[w]) /\ hmsg[w] \in MasterPayload
      BY <1>3 DEF HandlerSends, TypeOK, HandlerTypeOK, MasterPayload, WorkerPayload
    <3>2. QED
      BY <3>1, SendToWorkerRange DEF TypeOK
  <2>2. hpc[w] = "relay" => \A v \in Workers : \A m \in Range(toWorker'[v]) :
          m \in Range(toWorker[v]) \/ m.type # "step"
    <3>1. hpc[w] = "relay" =>
            /\ SendToWorker(hmsg[w].dst, hmsg[w]) /\ hmsg[w].dst \in Workers
            /\ hmsg[w] \in MasterPayload /\ hmsg[w].type # "step"
      BY <1>3 DEF HandlerSends, TypeOK, HandlerTypeOK, MasterPayload, WorkerPayload, RelayMsg
    <3>2. QED
      BY <3>1, SendToWorkerRange DEF TypeOK
  <2>3. UNCHANGED toMaster /\ hpc'[w] = "recv" /\ hpc[w] \in {"reply", "relay"}
    BY <1>3 DEF HandlerSends, TypeOK, HandlerTypeOK
  <2>4. NoNewAsk
    BY <1>2, <2>3, AsksKept
  <2>5. NoNewReply
    BY <1>1, <1>2, <2>1, <2>2, <2>3 DEF NoNewReply, Replies
  <2>6. QED
    BY <1>1, <2>4, <2>5 DEF NoNewReply
<1>4. CASE HandlerNotified(w)
  <2>1. UNCHANGED <<toMaster, toWorker>> /\ hpc'[w] = "reply" /\ hmsg'[w] = Broadcast
    BY <1>4 DEF HandlerNotified, TypeOK, HandlerTypeOK
  <2>2. NoNewAsk
    BY <1>2, <2>1, AsksKept
  <2>3. QED
    BY <1>1, <1>2, <1>4, <2>1, <2>2 DEF Replies
<1>5. CASE HandlerTakesStep(w)
  <2>1. /\ Head(toMaster[w]) \in Range(toMaster[w]) /\ Head(toMaster[w]).type = "step"
        /\ \A v \in Workers : Range(toMaster'[v]) \subseteq Range(toMaster[v])
        /\ hpc'[w] = "join" /\ hmsg'[w] = Head(toMaster[w]) /\ UNCHANGED toWorker
    BY <1>5, TakeRange DEF HandlerTakesStep, TypeOK, HandlerTypeOK
  <2>2. NoNewAsk
    BY <1>2, <2>1 DEF NoNewAsk, Asks
  <2>3. NoNewReply
    BY <1>1, <1>2, <2>1, RepliesKept
  <2>4. QED
    BY <1>1, <2>2, <2>3 DEF NoNewReply
<1>6. CASE HandlerTakesRelay(w) \/ HandlerJoins(w) \/ HandlerDrops(w) \/ HandlerExits(w)
  <2>1. /\ UNCHANGED <<hpc, hmsg>> \/ hpc'[w] \in {"relay", "joined", "recv", "exit"}
        /\ UNCHANGED toWorker
    BY <1>6 DEF HandlerTakesRelay, HandlerJoins, HandlerDrops, HandlerExits, handlerVars, TypeOK, HandlerTypeOK
  <2>2. \A v \in Workers : Range(toMaster'[v]) \subseteq Range(toMaster[v])
    BY <1>6, TakeRange DEF HandlerTakesRelay, HandlerJoins, HandlerDrops, HandlerExits, TypeOK
  <2>3. NoNewAsk
    BY <1>2, <2>1, <2>2, AsksKept
  <2>4. NoNewReply
    BY <1>1, <1>2, <2>1, RepliesKept
  <2>5. QED
    BY <1>1, <2>3, <2>4 DEF NoNewReply
<1>7. QED
  BY <1>3, <1>4, <1>5, <1>6 DEF HandlerStep

\* A worker makes a step when it enters a barrier.
LEMMA WorkerMakesAsk ==
  ASSUME TypeOK, NEW w \in Workers, WorkerStep(w)
  PROVE  /\ \A v \in Workers : \A m \in Asks(v)' :
              m \in Asks(v) \/ (v = w /\ WorkerEnters(w) /\ m = Step(wphase[w], StepValue(w)))
         /\ NoNewReply
<1>1. UNCHANGED <<hpc, hmsg>>
  BY WorkerSideKeepsBarrier DEF MasterSide, handlerVars
<1>2. NoNewReply
  <2>1. \A v \in Workers : rpc'[v] = "notify" => rpc[v] = "notify" /\ rmsg'[v] = rmsg[v]
    <3>1. \A v \in Workers \ {w} : rpc'[v] = rpc[v] /\ rmsg'[v] = rmsg[v]
      BY DEF WorkerStep, WorkerTakesJob, WorkerGetsNoJob, WorkerStartsJob, WorkerStartFails,
         WorkerBeginsSuperstep, WorkerRelays, WorkerEndsStep, WorkerStepFails, WorkerEnters,
         WorkerLeavesPre, WorkerLeavesPost, WorkerLeavesKeep, WorkerLeavesExecuted, WorkerLeavesPersisted, Leaves,
         WorkerCompletesJob, WorkerCompleteFails, WorkerAborts, WorkerContextExpires,
         WorkerClosesStream, receiverVars, TypeOK, ReceiverTypeOK
    <3>2. UNCHANGED <<rpc[w], rmsg[w]>> \/ rpc'[w] = "recv"
      BY DEF WorkerStep, WorkerTakesJob, WorkerGetsNoJob, WorkerStartsJob, WorkerStartFails,
         WorkerBeginsSuperstep, WorkerRelays, WorkerEndsStep, WorkerStepFails, WorkerEnters,
         WorkerLeavesPre, WorkerLeavesPost, WorkerLeavesKeep, WorkerLeavesExecuted, WorkerLeavesPersisted, Leaves,
         WorkerCompletesJob, WorkerCompleteFails, WorkerAborts, WorkerContextExpires,
         WorkerClosesStream, receiverVars, TypeOK, ReceiverTypeOK
    <3>3. QED
      BY <3>1, <3>2
  <2>2. \A v \in Workers : \A m \in Range(toWorker'[v]) : m \in Range(toWorker[v])
    <3>1. CASE WorkerTakesJob(w)
      BY <3>1, TakeRange DEF TypeOK, WorkerTakesJob
    <3>2. CASE WorkerContextExpires(w) \/ WorkerClosesStream(w)
      <4>1. PICK i \in 0 .. Len(toMaster[w]), j \in 0 .. Len(toWorker[w]) : Cut(w, i, j)
        BY <3>2, QueueLengths DEF TypeOK, WorkerContextExpires, WorkerClosesStream
      <4>2. QED
        BY <4>1, CutRange DEF TypeOK
    <3>3. CASE ~(WorkerTakesJob(w) \/ WorkerContextExpires(w) \/ WorkerClosesStream(w))
      <4>1. UNCHANGED toWorker
        BY <3>3 DEF WorkerStep, WorkerGetsNoJob, WorkerStartsJob, WorkerStartFails,
           WorkerBeginsSuperstep, WorkerRelays, WorkerEndsStep, WorkerStepFails, WorkerEnters,
           WorkerLeavesPre, WorkerLeavesPost, WorkerLeavesKeep, WorkerLeavesExecuted, WorkerLeavesPersisted,
           Leaves, WorkerCompletesJob, WorkerCompleteFails, WorkerAborts, streamVars
      <4>2. QED
        BY <4>1
    <3>4. QED
      BY <3>1, <3>2, <3>3
  <2>3. QED
    BY <1>1, <2>1, <2>2, RepliesKept
<1>3. ASSUME NEW d \in Workers, NEW known \in BOOLEAN, WorkerRelays(w, d, known)
      PROVE  NoNewAsk
  <2> DEFINE m == [type |-> "relay", dst |-> d, known |-> known, sent |-> wstep[w]]
  <2>1. m \in WorkerPayload /\ m.type # "step"
    BY DEF TypeOK, WorkerTypeOK, WorkerPayload, RelayMsg
  <2>2. SendToMaster(w, m)
    BY <1>3 DEF WorkerRelays
  <2> HIDE DEF m
  <2>3. QED
    BY <1>1, <2>1, <2>2, SendToMasterRange, AsksKept DEF TypeOK
<1>4. CASE WorkerEnters(w)
  <2>1. SendToMaster(w, Step(wphase[w], StepValue(w)))
    BY <1>4 DEF WorkerEnters
  <2>2. Step(wphase[w], StepValue(w)) \in WorkerPayload
    <3>1. wphase[w] \in Phases /\ StepValue(w) \in Int
      BY DEF TypeOK, WorkerTypeOK, StepValue
    <3>2. QED
      BY <3>1, StepType DEF WorkerPayload
  <2>3. \A v \in Workers : \A m \in Range(toMaster'[v]) :
          m \in Range(toMaster[v]) \/ (v = w /\ m = Step(wphase[w], StepValue(w)))
    BY <2>1, <2>2, SendToMasterRange DEF TypeOK
  <2>4. QED
    BY <1>1, <1>2, <1>4, <2>3 DEF Asks
<1>5. CASE WorkerContextExpires(w) \/ WorkerClosesStream(w)
  <2>1. PICK i \in 0 .. Len(toMaster[w]), j \in 0 .. Len(toWorker[w]) : Cut(w, i, j)
    BY <1>5, QueueLengths DEF TypeOK, WorkerContextExpires, WorkerClosesStream
  <2>2. \A v \in Workers : Range(toMaster'[v]) \subseteq Range(toMaster[v])
    BY <2>1, CutRange DEF TypeOK
  <2>3. NoNewAsk
    BY <1>1, <2>2, AsksKept
  <2>4. QED
    BY <1>2, <2>3 DEF NoNewAsk
<1>6. CASE ~(\/ \E d \in Workers, known \in BOOLEAN : WorkerRelays(w, d, known)
             \/ WorkerEnters(w) \/ WorkerContextExpires(w) \/ WorkerClosesStream(w))
  <2>1. UNCHANGED toMaster
    BY <1>6 DEF WorkerStep, WorkerTakesJob, WorkerGetsNoJob, WorkerStartsJob, WorkerStartFails,
       WorkerBeginsSuperstep, WorkerEndsStep, WorkerStepFails,
       WorkerLeavesPre, WorkerLeavesPost, WorkerLeavesKeep, WorkerLeavesExecuted, WorkerLeavesPersisted,
       Leaves, WorkerCompletesJob, WorkerCompleteFails, WorkerAborts, streamVars
  <2>2. NoNewAsk
    BY <1>1, <2>1, AsksKept
  <2>3. QED
    BY <1>2, <2>2 DEF NoNewAsk
<1>7. QED
  BY <1>2, <1>3, <1>4, <1>5, <1>6 DEF NoNewAsk

\* The receivers and the links only pass them on, or lose them.
LEMMA ReceiverMakesNone ==
  ASSUME TypeOK, NEW w \in Workers, ReceiverStep(w) \/ LinkBreaks(w)
  PROVE  /\ NoNewReply /\ NoNewAsk
         /\ UNCHANGED <<wpc, wphase, wstep, value, prev, active, arrived, passed, tally,
                        mpc, mphase, mstep, mvalue, gathered, inround, round, hpc, hmsg>>
<1>1. UNCHANGED <<wpc, wphase, wstep, value, prev, active, arrived, passed, tally,
                  mpc, mphase, mstep, mvalue, gathered, inround, round, hpc, hmsg>>
  BY DEF ReceiverStep, ReceiverTakesStep, ReceiverTakesRelay, ReceiverBounces, ReceiverExits,
     WorkerSeesDisconnect, LinkBreaks, WorkerOnly, MasterSide, masterVars, handlerVars, workerVars,
     computeVars, roundVars, dataHistory
<1>2. CASE ReceiverTakesStep(w)
  <2>1. /\ Head(toWorker[w]) \in Range(toWorker[w]) /\ Head(toWorker[w]).type = "step"
        /\ \A v \in Workers : Range(toWorker'[v]) \subseteq Range(toWorker[v])
    BY <1>2, TakeRange DEF TypeOK, ReceiverTakesStep
  <2>2. /\ rpc' = [rpc EXCEPT ![w] = "notify"] /\ rmsg' = [rmsg EXCEPT ![w] = Head(toWorker[w])]
        /\ UNCHANGED toMaster
    BY <1>2 DEF ReceiverTakesStep
  <2>3. NoNewReply
    BY <1>1, <2>1, <2>2 DEF NoNewReply, Replies, TypeOK, ReceiverTypeOK
  <2>4. NoNewAsk
    BY <1>1, <2>2, AsksKept
  <2>5. QED
    BY <1>1, <2>3, <2>4
<1>3. CASE LinkBreaks(w)
  <2>1. PICK i \in 0 .. Len(toMaster[w]), j \in 0 .. Len(toWorker[w]) : Cut(w, i, j)
    BY <1>3 DEF LinkBreaks
  <2>2. \A v \in Workers : /\ Range(toMaster'[v]) \subseteq Range(toMaster[v])
                           /\ Range(toWorker'[v]) \subseteq Range(toWorker[v])
    BY <2>1, CutRange DEF TypeOK
  <2>3. UNCHANGED <<rpc, rmsg>>
    BY <1>3 DEF LinkBreaks, receiverVars
  <2>4. QED
    BY <1>1, <2>2, <2>3, RepliesKept, AsksKept
<1>4. CASE ReceiverTakesRelay(w) \/ ReceiverBounces(w) \/ ReceiverExits(w) \/ WorkerSeesDisconnect(w)
  <2>1. \A v \in Workers : rpc'[v] = "notify" => rpc[v] = "notify" /\ rmsg'[v] = rmsg[v]
    BY <1>4 DEF ReceiverTakesRelay, ReceiverBounces, ReceiverExits, WorkerSeesDisconnect,
       receiverVars, TypeOK, ReceiverTypeOK
  <2>2. \A v \in Workers : Range(toWorker'[v]) \subseteq Range(toWorker[v])
    BY <1>4, TakeRange DEF TypeOK, ReceiverTakesRelay, ReceiverBounces, ReceiverExits, WorkerSeesDisconnect
  <2>3. \A v \in Workers : \A m \in Range(toMaster'[v]) : m \in Range(toMaster[v]) \/ m.type # "step"
    <3>1. CASE ReceiverBounces(w)
      <4>1. SendToMaster(w, rmsg[w]) /\ rmsg[w] \in WorkerPayload /\ rmsg[w].type # "step"
        BY <3>1 DEF ReceiverBounces, TypeOK, ReceiverTypeOK, RelayMsg, WorkerPayload
      <4>2. QED
        BY <4>1, SendToMasterRange DEF TypeOK
    <3>2. QED
      BY <1>4, <3>1 DEF ReceiverTakesRelay, ReceiverExits, WorkerSeesDisconnect
  <2>4. QED
    BY <1>1, <2>1, <2>2, <2>3, RepliesKept, AsksKept
<1>5. QED
  BY <1>2, <1>3, <1>4 DEF ReceiverStep

-----------------------------------------------------------------------------
(***************************************************************************)
(* Leaving a barrier takes a worker to the one after it.                   *)
(***************************************************************************)
LeavesAny(w) == \/ WorkerLeavesPre(w) \/ WorkerLeavesPost(w) \/ WorkerLeavesKeep(w)
                \/ WorkerLeavesExecuted(w) \/ WorkerLeavesPersisted(w)

\* The barrier and the superstep after one that is left with the value x.
LEMMA LeavesForNext ==
  ASSUME TypeOK, LockInv, PlaceBooks, NEW w \in Workers, LeavesAny(w)
  PROVE  /\ rpc[w] = "notify" /\ Answered(w)
         /\ Replies(w) = {rmsg[w]} /\ Replies(w)' = {}
         /\ \A v \in Workers \ {w} : Replies(v)' = Replies(v)
         /\ passed' = [passed EXCEPT ![w] = @ + 1]
         /\ wstep' = [wstep EXCEPT ![w] = After(Into(w), @, rmsg[w].val)]
         /\ Into(w)' = IF Into(w) = 2 /\ rmsg[w].val # 0 THEN 0 ELSE Into(w) + 1
         /\ arrived[w] = passed[w] + 1 /\ Into(w) = Stage(wphase[w])
         /\ UNCHANGED <<hpc, hmsg, mpc, mphase, mstep, mvalue, gathered, toWorker, toMaster,
                        inround, round, arrived, tally, active>>
<1>1. /\ wpc[w] = "wait" /\ rpc[w] = "notify"
      /\ rpc' = [rpc EXCEPT ![w] = "recv"] /\ rmsg' = [rmsg EXCEPT ![w] = NoMsg]
      /\ passed' = [passed EXCEPT ![w] = @ + 1]
      /\ UNCHANGED <<hpc, hmsg, mpc, mphase, mstep, mvalue, gathered, toWorker, toMaster,
                     inround, round, arrived, tally>>
  BY DEF LeavesAny, WorkerLeavesPre, WorkerLeavesPost, WorkerLeavesKeep, WorkerLeavesExecuted,
     WorkerLeavesPersisted, Leaves, MasterSide, masterVars, handlerVars, streamVars, dataHistory
<1>2. UNCHANGED active
  BY DEF LeavesAny, WorkerLeavesPre, WorkerLeavesPost, WorkerLeavesKeep, WorkerLeavesExecuted,
     WorkerLeavesPersisted, computeVars
<1>3. Answered(w) /\ hpc[w] \notin Handling /\ NoStep(toWorker[w])
  BY <1>1 DEF Answered, LockInv, TokenBooks
<1>4. Replies(w) = {rmsg[w]} /\ Replies(w)' = {}
  <2>1. Range(toWorker[w]) = {toWorker[w][i] : i \in 1 .. Len(toWorker[w])}
    BY QueuesAsSets
  <2>2. \A m \in Range(toWorker[w]) : m.type # "step"
    BY <1>3, <2>1 DEF NoStep
  <2>3. QED
    BY <1>1, <1>3, <2>2 DEF Replies, Handling, TypeOK, ReceiverTypeOK
<1>5. \A v \in Workers \ {w} : Replies(v)' = Replies(v)
  BY <1>1 DEF Replies, TypeOK, ReceiverTypeOK
<1>6. arrived[w] = passed[w] + 1 /\ Into(w) = Stage(wphase[w])
  BY <1>1 DEF LockInv, RoundBooks, PlaceBooks, AtBarrier
<1>7. wstep' = [wstep EXCEPT ![w] = After(Into(w), @, rmsg[w].val)]
  <2>1. CASE WorkerLeavesKeep(w)
    <3>1. Into(w) = 2
      BY <1>6, <2>1 DEF WorkerLeavesKeep, Leaves, Stage
    <3>2. QED
      BY <2>1, <3>1 DEF WorkerLeavesKeep, After, TypeOK, WorkerTypeOK
  <2>2. CASE ~WorkerLeavesKeep(w)
    <3>1. Into(w) # 2
      BY <1>6, <2>2 DEF LeavesAny, WorkerLeavesPre, WorkerLeavesPost, WorkerLeavesExecuted,
         WorkerLeavesPersisted, Leaves, Stage
    <3>2. UNCHANGED wstep
      BY <2>2 DEF LeavesAny, WorkerLeavesPre, WorkerLeavesPost, WorkerLeavesExecuted,
         WorkerLeavesPersisted, computeVars
    <3>3. QED
      BY <3>1, <3>2 DEF After, TypeOK, WorkerTypeOK
  <2>3. QED
    BY <2>1, <2>2
<1>8. Into(w)' = IF Into(w) = 2 /\ rmsg[w].val # 0 THEN 0 ELSE Into(w) + 1
  <2>1. /\ passed'[w] = passed[w] + 1 /\ passed[w] \in Nat /\ wstep[w] \in Nat
        /\ wstep'[w] = After(Into(w), wstep[w], rmsg[w].val)
    BY <1>1, <1>7 DEF TypeOK, WorkerTypeOK, HistoryTypeOK
  <2>2. QED
    BY <2>1 DEF Into, After
<1>9. QED
  BY <1>1, <1>2, <1>3, <1>4, <1>5, <1>6, <1>7, <1>8

LEMMA PlaceStep ==
  ASSUME TypeOK, LockInv, PlaceBooks, [Next]_vars
  PROVE  PlaceBooks'
<1>1. ASSUME UNCHANGED <<wpc, wphase, wstep, arrived, passed>>
      PROVE  PlaceBooks'
  BY <1>1 DEF PlaceBooks, Into, AtBarrier
<1>2. ASSUME NEW w \in Workers, LeavesAny(w)
      PROVE  PlaceBooks'
  <2>1. /\ passed' = [passed EXCEPT ![w] = @ + 1] /\ UNCHANGED arrived
        /\ Into(w)' = IF Into(w) = 2 /\ rmsg[w].val # 0 THEN 0 ELSE Into(w) + 1
        /\ arrived[w] = passed[w] + 1 /\ Into(w) = Stage(wphase[w])
        /\ \A v \in Workers \ {w} : wstep'[v] = wstep[v]
    BY <1>2, LeavesForNext DEF TypeOK, WorkerTypeOK
  <2>2. \A v \in Workers \ {w} : UNCHANGED <<wpc[v], wphase[v], passed[v]>> /\ Into(v)' = Into(v)
    <3>1. \A v \in Workers \ {w} : UNCHANGED <<wpc[v], wphase[v]>>
      BY <1>2 DEF LeavesAny, WorkerLeavesPre, WorkerLeavesPost, WorkerLeavesKeep, WorkerLeavesExecuted,
         WorkerLeavesPersisted, HeadsFor, Goto, TypeOK, WorkerTypeOK
    <3>2. QED
      BY <2>1, <3>1 DEF Into, TypeOK, HistoryTypeOK
  <2>3. arrived'[w] = passed'[w] /\ arrived'[w] # passed'[w] + 1
    BY <2>1 DEF TypeOK, HistoryTypeOK
  <2>4. \/ wpc'[w] = "compute" /\ Into(w)' = 1 /\ wphase'[w] = "PRE"
        \/ wpc'[w] = "check" /\ Into(w)' = 0
        \/ wpc'[w] = "complete" /\ Into(w)' = 4
        \/ wpc'[w] = "enter" /\ Into(w)' = Stage(wphase'[w]) /\ Into(w)' \in {2, 3, 5}
    BY <1>2, <2>1 DEF LeavesAny, WorkerLeavesPre, WorkerLeavesPost, WorkerLeavesKeep, WorkerLeavesExecuted,
         WorkerLeavesPersisted, Leaves, HeadsFor, Goto, TypeOK, WorkerTypeOK, Stage
  <2>5. QED
    BY <2>1, <2>2, <2>3, <2>4 DEF PlaceBooks, AtBarrier
<1>3. ASSUME NEW w \in Workers, WorkerStep(w), ~LeavesAny(w), ~WorkerEnters(w)
      PROVE  PlaceBooks'
  <2>1. UNCHANGED <<wstep, arrived, passed>>
    BY <1>3 DEF LeavesAny, WorkerStep, WorkerTakesJob, WorkerGetsNoJob, WorkerStartsJob, WorkerStartFails,
       WorkerBeginsSuperstep, WorkerRelays, WorkerEndsStep, WorkerStepFails,
       WorkerCompletesJob, WorkerCompleteFails, WorkerAborts, WorkerContextExpires,
       WorkerClosesStream, workerVars, computeVars, roundVars
  <2>2. \A v \in Workers \ {w} : UNCHANGED <<wpc[v], wphase[v]>>
    BY <1>3 DEF LeavesAny, WorkerStep, WorkerTakesJob, WorkerGetsNoJob, WorkerStartsJob, WorkerStartFails,
       WorkerBeginsSuperstep, WorkerRelays, WorkerEndsStep, WorkerStepFails,
       WorkerCompletesJob, WorkerCompleteFails, WorkerAborts, WorkerContextExpires,
       WorkerClosesStream, WorkerReturns, workerVars, HeadsFor, Goto, TypeOK, WorkerTypeOK
  <2>3. \/ UNCHANGED <<wpc[w], wphase[w]>>
        \/ UNCHANGED wphase[w] /\ wpc'[w] = "done"
        \/ UNCHANGED wphase[w] /\ wpc[w] \in {"idle", "load"} /\ wpc'[w] \in {"load", "check"}
        \/ wpc[w] = "check" /\ wpc'[w] = "enter" /\ wphase'[w] = "PRE"
        \/ wpc[w] = "compute" /\ wpc'[w] = "enter" /\ wphase'[w] = "POST"
        \/ wpc[w] = "complete" /\ wpc'[w] = "enter" /\ wphase'[w] = "PERSISTED_RESULTS"
    BY <1>3 DEF LeavesAny, WorkerStep, WorkerTakesJob, WorkerGetsNoJob, WorkerStartsJob, WorkerStartFails,
       WorkerBeginsSuperstep, WorkerRelays, WorkerEndsStep, WorkerStepFails,
       WorkerCompletesJob, WorkerCompleteFails, WorkerAborts, WorkerContextExpires,
       WorkerClosesStream, WorkerReturns, workerVars, HeadsFor, Goto, TypeOK, WorkerTypeOK
  <2>4. wpc[w] \notin Between => arrived[w] # passed[w] + 1
    BY DEF LockInv, RoundBooks, TypeOK, HistoryTypeOK
  <2>5. \A v \in Workers : Into(v)' = Into(v)
    BY <2>1 DEF Into
  <2>6. QED
    BY <2>1, <2>2, <2>3, <2>4, <2>5 DEF PlaceBooks, AtBarrier, Between, Stage
<1>4. ASSUME NEW w \in Workers, WorkerEnters(w)
      PROVE  PlaceBooks'
  <2>1. /\ wpc[w] = "enter" /\ wpc' = [wpc EXCEPT ![w] = "wait"]
        /\ arrived' = [arrived EXCEPT ![w] = @ + 1]
        /\ UNCHANGED <<wphase, wstep, passed>>
    BY <1>4 DEF WorkerEnters, Goto
  <2>2. \A v \in Workers : Into(v)' = Into(v)
    BY <2>1 DEF Into
  <2>3. QED
    BY <2>1, <2>2 DEF PlaceBooks, AtBarrier, TypeOK, WorkerTypeOK, HistoryTypeOK
<1>5. CASE MasterStep
  BY <1>1, <1>5, MasterMakesNone
<1>6. ASSUME NEW w \in Workers, HandlerStep(w)
      PROVE  PlaceBooks'
  BY <1>1, <1>6, HandlerMakesReply
<1>7. ASSUME NEW w \in Workers, ReceiverStep(w) \/ LinkBreaks(w)
      PROVE  PlaceBooks'
  BY <1>1, <1>7, ReceiverMakesNone
<1>8. CASE UNCHANGED vars
  BY <1>1, <1>8 DEF vars, workerVars, computeVars, roundVars
<1>9. QED
  BY <1>2, <1>3, <1>4, <1>5, <1>6, <1>7, <1>8 DEF Next, Stutter

LEMMA MasterPlaceStep ==
  ASSUME TypeOK, MasterPlace, [Next]_vars
  PROVE  MasterPlace'
<1>1. ASSUME UNCHANGED <<mpc, mphase, mstep, round>>
      PROVE  MasterPlace'
  BY <1>1 DEF MasterPlace
<1>2. CASE MasterStep
  <2>1. CASE AllWorkersNotified
    <3>1. mpc = "notify" /\ round' = round + 1
      BY <2>1 DEF AllWorkersNotified
    <3>2. \/ mphase = "PRE" /\ mpc' = "wait" /\ mphase' = "POST" /\ mstep' = mstep
          \/ mphase = "POST" /\ mpc' = "wait" /\ mphase' = "KEEP" /\ mstep' = mstep
          \/ mphase = "KEEP" /\ mpc' = "wait" /\ mphase' = "EXECUTED_GRAPH" /\ mstep' = mstep
          \/ mphase = "KEEP" /\ mpc' = "check" /\ mstep' = mstep + 1
          \/ mphase = "EXECUTED_GRAPH" /\ mpc' = "complete" /\ mstep' = mstep
          \/ mphase = "PERSISTED_RESULTS" /\ mpc' = "wait" /\ mphase' = "COMPLETED_JOB" /\ mstep' = mstep
      BY <2>1 DEF AllWorkersNotified, EnterBarrier
    <3>3. round \in Nat /\ mstep \in Nat
      BY DEF TypeOK, HistoryTypeOK, MasterTypeOK
    <3>4. QED
      BY <3>1, <3>2, <3>3 DEF MasterPlace, Stage
  <2>2. CASE ~AllWorkersNotified
    <3>1. UNCHANGED <<mstep, round>>
      BY <1>2, <2>2 DEF MasterStep, MasterStartsJob, MasterStartFails, PublishJobDetails, MasterBeginsSuperstep,
         AllWorkersArrived, MasterCompletesJob, MasterCompleteFails, MasterAborts, MasterReturns,
         MasterContextExpires, MasterSeesDisconnect, MasterClosesStream, MasterOnly, masterVars, roundVars
    <3>2. \/ mpc' = "done"
          \/ UNCHANGED <<mpc, mphase>>
          \/ UNCHANGED mphase /\ mpc \in {"start", "publish"} /\ mpc' \in {"publish", "check"}
          \/ UNCHANGED mphase /\ mpc = "wait" /\ mpc' = "notify"
          \/ mpc = "check" /\ mpc' = "wait" /\ mphase' = "PRE"
          \/ mpc = "complete" /\ mpc' = "wait" /\ mphase' = "PERSISTED_RESULTS"
      BY <1>2, <2>2 DEF MasterStep, MasterStartsJob, MasterStartFails, PublishJobDetails, MasterBeginsSuperstep,
         AllWorkersArrived, MasterCompletesJob, MasterCompleteFails, MasterAborts, MasterReturns, EnterBarrier,
         MasterContextExpires, MasterSeesDisconnect, MasterClosesStream, MasterOnly, masterVars, roundVars
    <3>3. QED
      BY <3>1, <3>2 DEF MasterPlace, Stage
  <2>3. QED
    BY <2>1, <2>2
<1>3. ASSUME NEW w \in Workers, HandlerStep(w)
      PROVE  MasterPlace'
  BY <1>1, <1>3, HandlerMakesReply
<1>4. ASSUME NEW w \in Workers, WorkerStep(w) \/ ReceiverStep(w) \/ LinkBreaks(w)
      PROVE  MasterPlace'
  BY <1>1, <1>4, WorkerSideKeepsBarrier DEF MasterSide, masterVars
<1>5. CASE UNCHANGED vars
  BY <1>1, <1>5 DEF vars, masterVars, roundVars
<1>6. QED
  BY <1>2, <1>3, <1>4, <1>5 DEF Next, Stutter

LEMMA InStepStep ==
  ASSUME TypeOK, LockInv, InStep, [Next]_vars
  PROVE  InStep'
<1>1. \A w \in Workers : arrived[w] \in Nat /\ passed[w] \in Nat
  BY DEF TypeOK, HistoryTypeOK
<1>2. CASE UNCHANGED <<arrived, passed>>
  BY <1>2 DEF InStep
<1>3. ASSUME NEW w \in Workers, WorkerEnters(w)
      PROVE  InStep'
  <2>1. arrived[w] = passed[w] /\ arrived' = [arrived EXCEPT ![w] = @ + 1] /\ UNCHANGED passed
    BY <1>3, EntersIsArrive DEF RB!Arrive
  <2>2. QED
    BY <1>1, <2>1 DEF InStep, TypeOK, HistoryTypeOK
<1>4. ASSUME NEW w \in Workers, NEW p \in Phases, Leaves(w, p)
      PROVE  InStep'
  <2>1. /\ arrived[w] = passed[w] + 1 /\ \A v \in Workers : arrived[v] > passed[w]
        /\ passed' = [passed EXCEPT ![w] = @ + 1] /\ UNCHANGED arrived
    BY <1>4, LeavesIsPass DEF RB!Pass
  <2>2. QED
    BY <1>1, <2>1 DEF InStep, TypeOK, HistoryTypeOK
<1>5. QED
  BY <1>2, <1>3, <1>4, OthersStutter

-----------------------------------------------------------------------------
(***************************************************************************)
(* The agreement.                                                          *)
(***************************************************************************)
AgreeParts == InStep /\ PlaceBooks /\ MasterPlace /\ WorkersAgree /\ MasterAgrees

\* A step that makes no reply and takes nobody to another barrier.
LEMMA AgreeKept ==
  ASSUME TypeOK, AgreeInv, NoNewReply, UNCHANGED <<passed, wstep>>,
         mpc' = "done" \/
           /\ mpc # "done" /\ UNCHANGED <<round, mstep>>
           /\ \A v \in Workers : RoundOf(v)' = RoundOf(v)
           /\ mpc' = "notify" <=> mpc = "notify"
           /\ mpc = "notify" => Broadcast' = Broadcast
  PROVE  WorkersAgree' /\ MasterAgrees'
<1>1. \A v \in Workers : Into(v)' = Into(v) /\ \A m \in Replies(v)' : m \in Replies(v)
  BY DEF Into, NoNewReply
<1>2. WorkersAgree'
  BY <1>1 DEF AgreeInv, WorkersAgree
<1>3. MasterAgrees'
  <2>1. CASE mpc' = "done"
    BY <2>1 DEF MasterAgrees
  <2>2. CASE mpc' # "done"
    <3>1. mpc # "done" /\ UNCHANGED <<round, mstep>> /\ MasterAgrees
      BY <2>2 DEF AgreeInv
    <3>2. passed' = passed /\ \A v \in Workers : passed[v] \in Nat
      BY DEF TypeOK, HistoryTypeOK
    <3>3. \A v \in Workers : passed[v] = round + 1 => mpc = "notify"
      BY <3>1, <3>2 DEF MasterAgrees, RoundOf, TypeOK, HistoryTypeOK
    <3>4. QED
      BY <1>1, <2>2, <3>1, <3>2, <3>3 DEF MasterAgrees
  <2>3. QED
    BY <2>1, <2>2
<1>4. QED
  BY <1>2, <1>3

LEMMA AgreeInit == Init => AgreeParts
<1> SUFFICES ASSUME Init PROVE AgreeParts
  OBVIOUS
<1>1. \A w \in Workers : Replies(w) = {}
  <2>1. Range(<<>>) = {}
    BY DEF Range
  <2>2. QED
    BY <2>1 DEF Init, Replies
<1>2. \A w \in Workers : wstep[w] = 0 /\ passed[w] = 0 /\ arrived[w] = 0 /\ wpc[w] = "idle" /\ Into(w) = 0
  BY DEF Init, Into
<1>3. mpc = "start" /\ mstep = 0 /\ round = 0 /\ \A w \in Workers : RoundOf(w) = 0
  BY DEF Init, RoundOf
<1>4. PlaceBooks
  BY <1>2 DEF PlaceBooks, AtBarrier
<1>5. MasterPlace
  BY <1>3 DEF MasterPlace
<1>6. WorkersAgree
  BY <1>1, <1>2 DEF WorkersAgree
<1>7. MasterAgrees
  BY <1>1, <1>2, <1>3 DEF MasterAgrees
<1>8. InStep
  BY <1>2 DEF InStep
<1>9. QED
  BY <1>4, <1>5, <1>6, <1>7, <1>8 DEF AgreeParts

\* Every worker has joined: nobody has a reply to the barrier yet.
LEMMA AgreeArrived ==
  ASSUME TypeOK, AgreeInv, AllWorkersArrived, mpc' = "notify"
  PROVE  MasterAgrees' /\ WorkersAgree'
<1> USE DEF AgreeInv, LockInv
<1>1. /\ mpc = "wait" /\ UNCHANGED <<mphase, mstep, round>>
      /\ inround = Workers
  BY InroundCounts, NumWorkersType
     DEF AllWorkersArrived, MasterReturns, MasterOnly, roundVars, BarrierBooks, TypeOK
<1>2. NoNewReply /\ UNCHANGED <<passed, wstep, inround>>
  BY MasterMakesNone DEF MasterStep
<1>3. \A v \in Workers : passed[v] = round /\ ~Answered(v)
  BY <1>1 DEF RoundBooks, RoundOf, TypeOK, HistoryTypeOK
<1>4. \A v \in Workers : Replies(v)' = {} /\ Replies(v) = {}
  BY <1>2, <1>3, TokensInFlight DEF NoNewReply
<1>5. \A v \in Workers : wstep[v] = mstep /\ RoundOf(v)' = round
  BY <1>1, <1>2, <1>3 DEF MasterAgrees, RoundOf
<1>6. round \in Nat
  BY DEF TypeOK, HistoryTypeOK
<1>7. MasterAgrees'
  BY <1>1, <1>2, <1>3, <1>4, <1>5, <1>6 DEF MasterAgrees
<1>8. WorkersAgree'
  BY <1>2, <1>3, <1>4, <1>5, <1>6 DEF WorkersAgree
<1>9. QED
  BY <1>7, <1>8

\* Every worker has its reply: the master goes where the replies send them.
LEMMA AgreeNotified ==
  ASSUME TypeOK, AgreeInv, AllWorkersNotified
  PROVE  MasterAgrees' /\ WorkersAgree'
<1> USE DEF AgreeInv, LockInv
<1>1. mpc = "notify" /\ round' = round + 1 /\ mpc' \notin {"notify", "done"} /\ inround = {}
  BY InroundCounts, NumWorkersType DEF AllWorkersNotified, BarrierBooks, EnterBarrier, TypeOK
<1>2. NoNewReply /\ UNCHANGED <<passed, wstep, inround>>
  BY MasterMakesNone DEF MasterStep
<1>3. mstep' = After(round - 3 * mstep, mstep, Broadcast.val)
  <2>1. round - 3 * mstep = Stage(mphase)
    BY <1>1 DEF MasterPlace
  <2>2. CASE mphase = "KEEP"
    <3>1. Broadcast.val = gathered /\ Stage(mphase) = 2
      BY <2>2 DEF Broadcast, Step, Stage
    <3>2. QED
      BY <2>1, <2>2, <3>1 DEF AllWorkersNotified, After
  <2>3. CASE mphase # "KEEP"
    <3>1. Stage(mphase) # 2 /\ mstep' = mstep
      BY <2>3 DEF AllWorkersNotified, Stage
    <3>2. QED
      BY <2>1, <3>1 DEF After
  <2>4. QED
    BY <2>2, <2>3
<1>4. \A v \in Workers : RoundOf(v) = round + 1 /\ RoundOf(v)' = round + 1
  BY <1>1, <1>2 DEF RoundOf
<1>5. \A v \in Workers : Into(v)' = Into(v) /\ \A m \in Replies(v)' : m \in Replies(v)
  BY <1>2 DEF Into, NoNewReply
<1>6. ASSUME NEW v \in Workers, NEW m \in Replies(v)
      PROVE  mstep' = After(Into(v), wstep[v], m.val)
  <2>1. Answered(v)
    BY TokensInFlight
  <2>2. passed[v] = round
    <3>1. passed[v] + 1 = round + 1
      BY <1>1, <1>4, <2>1 DEF RoundBooks
    <3>2. passed[v] \in Nat /\ round \in Nat
      BY DEF TypeOK, HistoryTypeOK
    <3>3. QED
      BY <3>1, <3>2
  <2>3. wstep[v] = mstep /\ m.val = Broadcast.val
    BY <1>1, <2>2 DEF MasterAgrees
  <2>4. QED
    BY <1>3, <2>2, <2>3 DEF Into
<1>7. \A v \in Workers : passed[v] \in Nat /\ round \in Nat /\ passed[v] <= round + 1
  BY <1>1, <1>4 DEF MasterAgrees, TypeOK, HistoryTypeOK
<1>8. MasterAgrees'
  <2>1. \A v \in Workers : passed[v] = round' => wstep[v] = mstep'
    BY <1>1, <1>3 DEF MasterAgrees
  <2>2. QED
    BY <1>1, <1>2, <1>4, <1>5, <1>6, <1>7, <2>1 DEF MasterAgrees
<1>9. WorkersAgree'
  BY <1>2, <1>5 DEF WorkersAgree
<1>10. QED
  BY <1>8, <1>9

\* The reply to w is the broadcast of the round.
LEMMA AgreeReplied ==
  ASSUME TypeOK, AgreeInv, NEW w \in Workers, HandlerNotified(w)
  PROVE  MasterAgrees' /\ WorkersAgree'
<1> USE DEF AgreeInv, LockInv
<1>1. mpc = "notify" /\ hpc[w] = "joined" /\ w \in inround /\ inround' = inround \ {w} /\ UNCHANGED gathered
  BY DEF HandlerNotified, BarrierBooks
<1>2. /\ UNCHANGED <<passed, wstep, mpc, mphase, mstep, mvalue, round>>
      /\ \A v \in Workers : \A m \in Replies(v)' : m \in Replies(v) \/ (v = w /\ m = Broadcast)
  BY HandlerMakesReply DEF HandlerStep
<1>3. passed[w] = round /\ RoundOf(w) = round /\ RoundOf(w)' = round + 1
  BY <1>1, <1>2 DEF RoundBooks, RoundOf
<1>4. \A v \in Workers \ {w} : RoundOf(v)' = RoundOf(v)
  BY <1>1, <1>2 DEF RoundOf
<1>5. Replies(w) = {}
  BY <1>1, <1>3, TokensInFlight DEF RoundBooks, TypeOK, HistoryTypeOK
<1>6. Broadcast' = Broadcast /\ \A v \in Workers : Into(v)' = Into(v)
  BY <1>1, <1>2 DEF Broadcast, Step, Into
<1>7. \A v \in Workers : \A m \in Replies(v)' : m.val = Broadcast.val
  BY <1>1, <1>2, <1>5 DEF MasterAgrees
<1>8. wstep[w] = mstep /\ Into(w) = round - 3 * mstep
  BY <1>1, <1>3 DEF MasterAgrees, Into
<1>9. \A v \in Workers : passed[v] \in Nat /\ round \in Nat
  BY DEF TypeOK, HistoryTypeOK
<1>10. MasterAgrees'
  BY <1>1, <1>2, <1>3, <1>4, <1>6, <1>7, <1>9 DEF MasterAgrees
<1>11. WorkersAgree'
  <2> SUFFICES ASSUME NEW u \in Workers, NEW v \in Workers
               PROVE  /\ passed[u] = passed[v] =>
                           wstep[u] = wstep[v] /\ \A m \in Replies(u)', n \in Replies(v)' : m.val = n.val
                      /\ passed[u] = passed[v] + 1 =>
                           /\ \A m \in Replies(v)' : wstep[u] = After(Into(v), wstep[v], m.val)
                           /\ \E x \in {0, 1} : wstep[u] = After(Into(v), wstep[v], x)
    BY <1>2, <1>6 DEF WorkersAgree
  <2>1. passed[u] = passed[v] => wstep[u] = wstep[v] /\ \A m \in Replies(u)', n \in Replies(v)' : m.val = n.val
    BY <1>7 DEF WorkersAgree
  <2>2. passed[u] = passed[v] + 1 => \A m \in Replies(v) : wstep[u] = After(Into(v), wstep[v], m.val)
    BY DEF WorkersAgree
  <2>3. v = w /\ passed[u] = passed[v] + 1 => wstep[u] = After(Into(v), wstep[v], Broadcast.val)
    BY <1>1, <1>3, <1>8 DEF MasterAgrees
  <2>4. passed[u] = passed[v] + 1 => \E x \in {0, 1} : wstep[u] = After(Into(v), wstep[v], x)
    BY DEF WorkersAgree
  <2>5. QED
    BY <1>2, <2>1, <2>2, <2>3, <2>4
<1>12. QED
  BY <1>10, <1>11

\* A reply sends its worker where it sent the others.
LEMMA AgreeLeaves ==
  ASSUME TypeOK, AgreeInv, NEW w \in Workers, LeavesAny(w)
  PROVE  MasterAgrees' /\ WorkersAgree'
<1> USE DEF AgreeInv, LockInv
<1> DEFINE x == rmsg[w].val
           s == After(Into(w), wstep[w], x)
<1>1. /\ Answered(w) /\ Replies(w) = {rmsg[w]} /\ Replies(w)' = {}
      /\ \A v \in Workers \ {w} : Replies(v)' = Replies(v)
      /\ passed' = [passed EXCEPT ![w] = @ + 1]
      /\ wstep' = [wstep EXCEPT ![w] = After(Into(w), @, rmsg[w].val)]
      /\ UNCHANGED <<mpc, mphase, mstep, mvalue, gathered, inround, round>>
  BY LeavesForNext
<1>2. /\ passed'[w] = passed[w] + 1 /\ wstep'[w] = s
      /\ \A v \in Workers \ {w} : passed'[v] = passed[v] /\ wstep'[v] = wstep[v] /\ Into(v)' = Into(v)
      /\ \A v \in Workers : passed[v] \in Nat /\ wstep[v] \in Nat
  BY <1>1 DEF TypeOK, WorkerTypeOK, HistoryTypeOK, Into
<1>3. \E y \in {0, 1} : s = After(Into(w), wstep[w], y)
  BY DEF After
<1>4. Broadcast' = Broadcast /\ \A v \in Workers : RoundOf(v)' = RoundOf(v)
  BY <1>1 DEF Broadcast, Step, RoundOf
<1>5. rmsg[w] \in Replies(w)
  BY <1>1
<1> HIDE DEF s, x
<1>6. \A u \in Workers : passed[u] = passed[w] + 1 => wstep[u] = s
  BY <1>5 DEF WorkersAgree, s, x
<1>7. \A u \in Workers : passed[u] = passed[w] =>
        /\ wstep[u] = wstep[w] /\ Into(u) = Into(w)
        /\ \A m \in Replies(u) : s = After(Into(u), wstep[u], m.val)
  BY <1>5 DEF WorkersAgree, Into, s, x
<1>8. WorkersAgree'
  <2> SUFFICES ASSUME NEW u \in Workers, NEW v \in Workers
               PROVE  /\ passed'[u] = passed'[v] =>
                           wstep'[u] = wstep'[v] /\ \A m \in Replies(u)', n \in Replies(v)' : m.val = n.val
                      /\ passed'[u] = passed'[v] + 1 =>
                           /\ \A m \in Replies(v)' : wstep'[u] = After(Into(v)', wstep'[v], m.val)
                           /\ \E y \in {0, 1} : wstep'[u] = After(Into(v)', wstep'[v], y)
    BY DEF WorkersAgree
  <2>1. CASE u # w /\ v # w
    BY <1>1, <1>2, <2>1 DEF WorkersAgree
  <2>2. CASE u = w /\ v = w
    BY <1>1, <1>2, <2>2
  <2>3. CASE u = w /\ v # w
    <3>1. passed'[u] = passed'[v] => wstep'[u] = wstep'[v]
      BY <1>2, <1>6, <2>3
    <3>2. passed'[u] = passed'[v] + 1 => passed[v] = passed[w]
      BY <1>2, <2>3
    <3>3. passed'[u] = passed'[v] + 1 =>
            /\ \A m \in Replies(v)' : wstep'[u] = After(Into(v)', wstep'[v], m.val)
            /\ \E y \in {0, 1} : wstep'[u] = After(Into(v)', wstep'[v], y)
      BY <1>1, <1>2, <1>3, <1>7, <2>3, <3>2
    <3>4. QED
      BY <1>1, <2>3, <3>1, <3>3
  <2>4. CASE u # w /\ v = w
    <3>1. passed'[u] = passed'[v] => wstep'[u] = wstep'[v]
      BY <1>2, <1>6, <2>4
    <3>2. passed'[u] = passed'[v] + 1 => passed[u] = passed[w] + 2 /\ arrived[w] = passed[w] + 1
      BY <1>1, <1>2, <2>4 DEF RoundBooks
    <3>3. passed'[u] # passed'[v] + 1
      BY <1>2, <3>2 DEF InStep
    <3>4. QED
      BY <1>1, <2>4, <3>1, <3>3
  <2>5. QED
    BY <2>1, <2>2, <2>3, <2>4
<1>9. MasterAgrees'
  <2> SUFFICES ASSUME mpc # "done", NEW v \in Workers
               PROVE  /\ passed'[v] <= RoundOf(v)
                      /\ passed'[v] = round => wstep'[v] = mstep
                      /\ passed'[v] = round + 1 => wstep'[v] = After(round - 3 * mstep, mstep, Broadcast.val)
                      /\ \A m \in Replies(v)' :
                           IF mpc = "notify" THEN m.val = Broadcast.val
                           ELSE mstep = After(Into(v)', wstep'[v], m.val)
    BY <1>1, <1>4 DEF MasterAgrees
  <2>1. CASE v # w
    BY <1>1, <1>2, <2>1 DEF MasterAgrees
  <2>2. CASE v = w
    <3>1. passed[w] + 1 = RoundOf(w) /\ round \in Nat
      BY <1>1 DEF RoundBooks, TypeOK, HistoryTypeOK
    <3>2. CASE mpc = "notify"
      <4>1. passed[w] = round /\ w \notin inround
        BY <1>2, <3>1, <3>2 DEF RoundBooks, RoundOf
      <4>2. wstep[w] = mstep /\ x = Broadcast.val
        BY <1>5, <3>2, <4>1 DEF MasterAgrees, x
      <4>3. QED
        BY <1>1, <1>2, <2>2, <3>1, <4>1, <4>2 DEF s, Into
    <3>3. CASE mpc # "notify"
      <4>1. passed[w] + 1 = round /\ mstep = s
        BY <1>5, <3>1, <3>3 DEF MasterAgrees, RoundOf, s, x
      <4>2. QED
        BY <1>1, <1>2, <2>2, <3>1, <4>1
    <3>4. QED
      BY <3>2, <3>3
  <2>3. QED
    BY <2>1, <2>2
<1>10. QED
  BY <1>8, <1>9

LEMMA AgreeStep ==
  ASSUME TypeOK, AgreeInv, [Next]_vars
  PROVE  AgreeInv'
<1>1. LockInv' /\ InStep' /\ PlaceBooks' /\ MasterPlace'
  BY LockStepInductive, InStepStep, PlaceStep, MasterPlaceStep DEF AgreeInv
<1>2. WorkersAgree' /\ MasterAgrees'
  <2>1. CASE MasterStep /\ ~AllWorkersNotified /\ ~(AllWorkersArrived /\ mpc' = "notify")
    <3>1. NoNewReply /\ UNCHANGED <<passed, wstep, inround>>
      BY <2>1, MasterMakesNone
    <3>2. mpc' = "done" \/
           /\ mpc # "done" /\ UNCHANGED <<round, mstep>>
           /\ mpc' = "notify" <=> mpc = "notify"
           /\ mpc = "notify" => UNCHANGED <<mphase, mvalue, gathered>>
      BY <2>1 DEF MasterStep, MasterStartsJob, MasterStartFails, PublishJobDetails, MasterBeginsSuperstep,
         AllWorkersArrived, MasterCompletesJob, MasterCompleteFails, MasterAborts, MasterReturns, EnterBarrier,
         MasterContextExpires, MasterSeesDisconnect, MasterClosesStream, MasterOnly, masterVars, roundVars
    <3>3. mpc' # "done" => \A v \in Workers : RoundOf(v)' = RoundOf(v)
      BY <3>1, <3>2 DEF RoundOf
    <3>4. mpc = "notify" /\ mpc' # "done" => Broadcast' = Broadcast
      BY <3>2 DEF Broadcast, Step
    <3>5. QED
      BY <3>1, <3>2, <3>3, <3>4, AgreeKept
  <2>2. ASSUME NEW w \in Workers, HandlerStep(w), ~HandlerNotified(w)
        PROVE  WorkersAgree' /\ MasterAgrees'
    <3>1. NoNewReply /\ UNCHANGED <<passed, wstep, mpc, mphase, mstep, mvalue, round>>
      BY <2>2, HandlerMakesReply DEF NoNewReply
    <3>2. mpc # "wait" => UNCHANGED <<gathered, inround>>
      BY <2>2 DEF HandlerStep, HandlerTakesStep, HandlerTakesRelay, HandlerJoins, HandlerSends,
         HandlerDrops, HandlerExits, HandlerOnly, roundVars
    <3>3. \A v \in Workers : RoundOf(v)' = RoundOf(v)
      BY <3>1, <3>2 DEF RoundOf
    <3>4. mpc = "notify" => Broadcast' = Broadcast
      BY <3>1, <3>2 DEF Broadcast, Step
    <3>5. QED
      BY <3>1, <3>3, <3>4, AgreeKept
  <2>3. ASSUME NEW w \in Workers, WorkerStep(w) \/ ReceiverStep(w) \/ LinkBreaks(w), ~LeavesAny(w)
        PROVE  WorkersAgree' /\ MasterAgrees'
    <3>1. UNCHANGED <<mpc, mphase, mstep, mvalue, gathered, round, inround>>
      BY <2>3, WorkerSideKeepsBarrier DEF MasterSide, masterVars
    <3>2. NoNewReply /\ UNCHANGED <<passed, wstep>>
      <4>1. CASE WorkerStep(w)
        <5>1. UNCHANGED <<passed, wstep>>
          BY <2>3, <4>1 DEF LeavesAny, WorkerStep, WorkerTakesJob, WorkerGetsNoJob, WorkerStartsJob, WorkerStartFails,
             WorkerBeginsSuperstep, WorkerRelays, WorkerEndsStep, WorkerStepFails, WorkerEnters,
             WorkerCompletesJob, WorkerCompleteFails, WorkerAborts, WorkerContextExpires,
             WorkerClosesStream, workerVars, computeVars, roundVars
        <5>2. QED
          BY <4>1, <5>1, WorkerMakesAsk
      <4>2. QED
        BY <2>3, <4>1, ReceiverMakesNone
    <3>3. Broadcast' = Broadcast /\ \A v \in Workers : RoundOf(v)' = RoundOf(v)
      BY <3>1 DEF RoundOf, Broadcast, Step
    <3>4. QED
      BY <3>1, <3>2, <3>3, AgreeKept
  <2>4. CASE UNCHANGED vars
    <3>1. UNCHANGED <<hpc, hmsg, rpc, rmsg, toWorker, wstep, passed, round, inround,
                      mpc, mphase, mstep, mvalue, gathered>>
      BY <2>4 DEF vars, masterVars, handlerVars, workerVars, computeVars, receiverVars, streamVars, roundVars
    <3>2. NoNewReply
      BY <3>1, RepliesKept
    <3>3. Broadcast' = Broadcast /\ \A v \in Workers : RoundOf(v)' = RoundOf(v)
      BY <3>1 DEF RoundOf, Broadcast, Step
    <3>4. QED
      BY <3>1, <3>2, <3>3, AgreeKept
  <2>5. QED
    BY <2>1, <2>2, <2>3, <2>4, AgreeArrived, AgreeNotified, AgreeReplied, AgreeLeaves
       DEF Next, Stutter, LeavesAny
<1>3. QED
  BY <1>1, <1>2 DEF AgreeInv

\* AgreeInv is an invariant: together with the types it is inductive.
THEOREM AgreeInvariant == Spec => []AgreeInv
<1>1. Init => AgreeInv
  BY BooksInit, LockInit, AgreeInit DEF AgreeInv, AgreeParts, LockInv
<1>2. TypeOK /\ AgreeInv /\ [Next]_vars => AgreeInv'
  BY AgreeStep
<1>3. QED
  BY <1>1, <1>2, TypeCorrect, PTL DEF Spec

\* Two workers that left the same number of barriers are at the same barrier
\* of the same superstep, although each decides for itself whether the job
\* goes on (worker_executor_factory.go:PostStepKeepRunning).
THEOREM RoundsAgree == Spec => []AgreeOnRounds
<1>1. TypeOK /\ AgreeInv => AgreeOnRounds
  <2> SUFFICES ASSUME TypeOK, AgreeInv, NEW v \in Workers, NEW w \in Workers,
                      AtBarrier(v), AtBarrier(w), passed[v] = passed[w]
               PROVE  Position(v) = Position(w)
    BY DEF AgreeOnRounds
  <2>1. wstep[v] = wstep[w] /\ Into(v) = Into(w)
    BY DEF AgreeInv, WorkersAgree, Into
  <2>2. Stage(wphase[v]) = Stage(wphase[w])
    BY <2>1 DEF AgreeInv, PlaceBooks
  <2>3. wphase[v] \in Phases /\ wphase[w] \in Phases
    BY DEF TypeOK, WorkerTypeOK
  <2>4. wphase[v] = wphase[w]
    BY <2>2, <2>3 DEF Stage, Phases
  <2>5. QED
    BY <2>1, <2>4 DEF Position
<1>2. QED
  BY <1>1, AgreeInvariant, TypeCorrect, PTL

-----------------------------------------------------------------------------
(***************************************************************************)
(* AggregatorsAgree.                                                       *)
(***************************************************************************)

\* What most steps leave alone.
Steady ==
  /\ NoNewReply /\ NoNewAsk
  /\ UNCHANGED <<arrived, passed, inround, round, mstep, wstep, value, prev, active, tally>>
  /\ \A v \in Workers : wphase'[v] = wphase[v] \/ Into(v) # 1
  /\ mpc' = "done" \/
       /\ mpc # "done" /\ mvalue' = mvalue
       /\ mpc' = "notify" <=> mpc = "notify"
       /\ mpc \in {"wait", "notify"} => UNCHANGED <<mpc, mphase, gathered>>

LEMMA MasterSteady ==
  ASSUME TypeOK, MasterStep, ~AllWorkersArrived, ~AllWorkersNotified
  PROVE  Steady
<1>1. NoNewReply /\ NoNewAsk /\ UNCHANGED <<wphase, arrived, passed, inround, wstep, value, prev, active, tally>>
  BY MasterMakesNone
<1>2. UNCHANGED <<round, mstep>>
  BY DEF MasterStep, MasterStartsJob, MasterStartFails, PublishJobDetails, MasterBeginsSuperstep,
     MasterCompletesJob, MasterCompleteFails, MasterAborts, MasterReturns,
     MasterContextExpires, MasterSeesDisconnect, MasterClosesStream, MasterOnly, masterVars, roundVars
<1>3. mpc' = "done" \/
       /\ mpc # "done" /\ mvalue' = mvalue
       /\ mpc' = "notify" <=> mpc = "notify"
       /\ mpc \in {"wait", "notify"} => UNCHANGED <<mpc, mphase, gathered>>
  BY DEF MasterStep, MasterStartsJob, MasterStartFails, PublishJobDetails, MasterBeginsSuperstep,
     MasterCompletesJob, MasterCompleteFails, MasterAborts, MasterReturns, EnterBarrier,
     MasterContextExpires, MasterSeesDisconnect, MasterClosesStream, MasterOnly, masterVars
<1>4. QED
  BY <1>1, <1>2, <1>3 DEF Steady

LEMMA HandlerSteady ==
  ASSUME TypeOK, NEW w \in Workers, HandlerStep(w), ~HandlerJoins(w), ~HandlerNotified(w)
  PROVE  Steady
<1>1. NoNewReply /\ NoNewAsk
      /\ UNCHANGED <<wphase, arrived, passed, wstep, value, prev, active, tally,
                     mpc, mphase, mstep, mvalue, round>>
  BY HandlerMakesReply DEF NoNewReply
<1>2. UNCHANGED <<inround, gathered>>
  BY DEF HandlerStep, HandlerTakesStep, HandlerTakesRelay, HandlerSends, HandlerDrops, HandlerExits, roundVars
<1>3. QED
  BY <1>1, <1>2 DEF Steady

LEMMA WorkerSteady ==
  ASSUME TypeOK, PlaceBooks, NEW w \in Workers, WorkerStep(w), ~LeavesAny(w), ~WorkerEnters(w),
         \A act \in {0, 1}, delta \in {0, 1} : ~WorkerEndsStep(w, act, delta)
  PROVE  Steady
<1>1. UNCHANGED <<mpc, mphase, mstep, mvalue, gathered, round, inround>>
  BY WorkerSideKeepsBarrier DEF MasterSide, masterVars
<1>2. UNCHANGED <<wstep, value, prev, active, arrived, passed, tally>>
  BY DEF LeavesAny, WorkerStep, WorkerTakesJob, WorkerGetsNoJob, WorkerStartsJob, WorkerStartFails,
     WorkerBeginsSuperstep, WorkerRelays, WorkerStepFails,
     WorkerCompletesJob, WorkerCompleteFails, WorkerAborts, WorkerContextExpires,
     WorkerClosesStream, workerVars, computeVars, roundVars, dataHistory
<1>3. NoNewReply /\ NoNewAsk
  BY WorkerMakesAsk DEF NoNewAsk
<1>4. \A v \in Workers : wphase'[v] = wphase[v] \/ (v = w /\ wpc[w] \in {"check", "complete"})
  BY DEF LeavesAny, WorkerStep, WorkerTakesJob, WorkerGetsNoJob, WorkerStartsJob, WorkerStartFails,
     WorkerBeginsSuperstep, WorkerRelays, WorkerStepFails,
     WorkerCompletesJob, WorkerCompleteFails, WorkerAborts, WorkerContextExpires,
     WorkerClosesStream, workerVars, HeadsFor, TypeOK, WorkerTypeOK
<1>5. \A v \in Workers : wphase'[v] = wphase[v] \/ Into(v) # 1
  BY <1>4 DEF PlaceBooks
<1>6. QED
  BY <1>1, <1>2, <1>3, <1>5 DEF Steady

\* The steps that are not, by name.
LEMMA StepKinds ==
  ASSUME TypeOK, PlaceBooks, [Next]_vars
  PROVE  \/ Steady
         \/ AllWorkersArrived \/ AllWorkersNotified
         \/ \E w \in Workers :
              \/ HandlerJoins(w) \/ HandlerNotified(w) \/ WorkerEnters(w) \/ LeavesAny(w)
              \/ \E act \in {0, 1}, delta \in {0, 1} : WorkerEndsStep(w, act, delta)
<1>1. ASSUME NEW w \in Workers, ReceiverStep(w) \/ LinkBreaks(w)
      PROVE  Steady
  BY <1>1, ReceiverMakesNone DEF Steady
<1>2. CASE UNCHANGED vars
  <2>1. UNCHANGED <<hpc, hmsg, rpc, rmsg, toWorker, toMaster, wphase, arrived, passed, inround, round, mstep,
                    wstep, value, prev, active, tally, mpc, mphase, mvalue, gathered>>
    BY <1>2 DEF vars, masterVars, handlerVars, workerVars, computeVars, receiverVars, streamVars, roundVars,
       dataHistory
  <2>2. NoNewReply /\ NoNewAsk
    BY <2>1, RepliesKept, AsksKept
  <2>3. QED
    BY <2>1, <2>2 DEF Steady
<1>3. QED
  BY <1>1, <1>2, MasterSteady, HandlerSteady, WorkerSteady DEF Next, Stutter

-----------------------------------------------------------------------------
(***************************************************************************)
(* Who may still be before a barrier.                                      *)
(***************************************************************************)
LEMMA RoundTypes ==
  ASSUME TypeOK
  PROVE  /\ \A v \in Workers : arrived[v] \in Nat /\ passed[v] \in Nat /\ wstep[v] \in Nat /\ Into(v) \in Int
         /\ round \in Nat /\ mstep \in Nat /\ inround \subseteq Workers
  BY DEF TypeOK, HistoryTypeOK, WorkerTypeOK, MasterTypeOK, Into

LEMMA JoinInit == Init => JoinBooks
<1> SUFFICES ASSUME Init PROVE JoinBooks
  OBVIOUS
<1>1. \A w \in Workers : Replies(w) = {}
  <2>1. Range(<<>>) = {}
    BY DEF Range
  <2>2. QED
    BY <2>1 DEF Init, Replies
<1>2. \A w \in Workers : passed[w] = 0 /\ arrived[w] = 0 /\ RoundOf(w) = 0
  BY DEF Init, RoundOf
<1>3. mstep = 0 /\ round = 0 /\ inround = {}
  BY DEF Init
<1>4. QED
  BY <1>1, <1>2, <1>3 DEF JoinBooks, NotTold

LEMMA JoinKept ==
  ASSUME TypeOK, JoinBooks, NoNewReply, UNCHANGED <<passed, inround, round, mstep>>,
         \A v \in Workers : Open(v)' => Open(v),
         \A v \in Workers : arrived[v] <= arrived'[v] /\ arrived'[v] \in Nat,
         mpc' = "done" \/ (mpc # "done" /\ \A v \in Workers : RoundOf(v)' = RoundOf(v))
  PROVE  JoinBooks'
<1>1. \A u \in Workers, v \in Workers : NotTold(u, passed[v]) => NotTold(u, passed[v])'
  BY DEF NotTold, NoNewReply
<1>2. \A v \in Workers : round' <= arrived'[v]
  BY RoundTypes DEF JoinBooks
<1>3. \A v \in inround' : Replies(v)' = {}
  BY RoundTypes DEF JoinBooks, NoNewReply
<1>4. QED
  BY <1>1, <1>2, <1>3 DEF JoinBooks

LEMMA OpenKept ==
  ASSUME NoNewAsk, UNCHANGED <<arrived, passed>>
  PROVE  \A v \in Workers : Open(v)' => Open(v)
  BY DEF Open, NoNewAsk

\* The handler of w joins: w is not open any more.
LEMMA JoinJoins ==
  ASSUME TypeOK, AgreeInv, JoinBooks, NEW w \in Workers, HandlerJoins(w)
  PROVE  JoinBooks'
<1> USE DEF AgreeInv, LockInv
<1>1. /\ hpc[w] = "join" /\ mpc = "wait" /\ hpc' = [hpc EXCEPT ![w] = "joined"]
      /\ inround' = inround \cup {w} /\ UNCHANGED <<hmsg, toMaster>>
  BY DEF HandlerJoins
<1>2. /\ NoNewReply /\ NoNewAsk
      /\ UNCHANGED <<arrived, passed, mpc, mstep, round>>
  BY HandlerMakesReply DEF NoNewReply, HandlerStep, HandlerNotified, HandlerJoins
<1>3. Asking(w) /\ Asks(w) # {}
  BY <1>1, TokensInFlight DEF Asking
<1>4. Asks(w)' = {}
  <2>1. NoStep(toMaster[w]) /\ Range(toMaster[w]) = {toMaster[w][i] : i \in 1 .. Len(toMaster[w])}
    BY <1>1, QueuesAsSets DEF TokenBooks, Handling
  <2>2. QED
    BY <1>1, <2>1 DEF Asks, NoStep, TypeOK, HandlerTypeOK
<1>5. ~Open(w)'
  <2>1. arrived[w] = passed[w] + 1 /\ passed[w] \in Nat
    BY <1>3, RoundTypes DEF RoundBooks
  <2>2. QED
    BY <1>2, <1>4, <2>1 DEF Open
<1>6. Replies(w) = {}
  BY <1>3 DEF JoinBooks, Open, NotTold
<1>7. \A v \in Workers : Open(v)' => Open(v)
  BY <1>2, OpenKept
<1>8. \A u \in Workers, v \in Workers : NotTold(u, passed[v]) => NotTold(u, passed[v])'
  BY <1>2 DEF NotTold, NoNewReply
<1>9. \A v \in Workers : RoundOf(v)' = RoundOf(v)
  BY <1>1, <1>2 DEF RoundOf
<1>10. \A v \in inround' : Replies(v)' = {}
  BY <1>1, <1>2, <1>6, RoundTypes DEF JoinBooks, NoNewReply
<1>11. \A v \in Workers : Open(v)' => v \notin inround'
  BY <1>1, <1>5, <1>7 DEF JoinBooks
<1>12. QED
  BY <1>1, <1>2, <1>7, <1>8, <1>9, <1>10, <1>11 DEF JoinBooks

\* The handler of w is told: who is open is a round further.
LEMMA JoinNotified ==
  ASSUME TypeOK, AgreeInv, JoinBooks, NEW w \in Workers, HandlerNotified(w)
  PROVE  JoinBooks'
<1> USE DEF AgreeInv, LockInv
<1>1. mpc = "notify" /\ hpc[w] = "joined" /\ w \in inround /\ inround' = inround \ {w}
  BY DEF HandlerNotified, BarrierBooks
<1>2. /\ \A v \in Workers \ {w} : \A m \in Replies(v)' : m \in Replies(v)
      /\ NoNewAsk /\ UNCHANGED <<arrived, passed, mpc, mstep, round>>
  BY HandlerMakesReply DEF HandlerStep
<1>3. passed[w] = round
  BY <1>1 DEF RoundBooks
<1>4. \A v \in Workers : Open(v)' => Open(v)
  BY <1>2, OpenKept
<1>5. \A v \in Workers : Open(v)' => v # w /\ v \notin inround' /\ passed[v] = round + 1 /\ RoundOf(v)' = round + 1
  BY <1>1, <1>2, <1>4 DEF JoinBooks, RoundOf
<1>6. \A u \in Workers \ {w}, v \in Workers : NotTold(u, passed[v]) => NotTold(u, passed[v])'
  BY <1>2 DEF NotTold
<1>7. \A v \in Workers : Open(v)' => NotTold(w, passed[v])'
  <2>1. round \in Nat /\ round <= round + 1 /\ round # round + 1
    BY RoundTypes
  <2>2. QED
    BY <1>2, <1>3, <1>5, <2>1 DEF NotTold
<1>8. \A v \in inround' : Replies(v)' = {}
  BY <1>1, <1>2, RoundTypes DEF JoinBooks
<1>9. QED
  BY <1>1, <1>2, <1>4, <1>5, <1>6, <1>7, <1>8 DEF JoinBooks

\* A worker that leaves a barrier is before the next one, and so are all.
LEMMA JoinLeaves ==
  ASSUME TypeOK, AgreeInv, JoinBooks, NEW w \in Workers, LeavesAny(w)
  PROVE  JoinBooks'
<1> USE DEF AgreeInv, LockInv
<1>1. /\ Answered(w) /\ Replies(w) = {rmsg[w]} /\ Replies(w)' = {}
      /\ \A v \in Workers \ {w} : Replies(v)' = Replies(v)
      /\ passed' = [passed EXCEPT ![w] = @ + 1]
      /\ arrived[w] = passed[w] + 1
      /\ UNCHANGED <<hpc, hmsg, mpc, mstep, toMaster, inround, round, arrived>>
  BY LeavesForNext
<1>2. \A v \in Workers : arrived[v] \in Nat /\ passed[v] \in Nat
  BY RoundTypes
<1>3. passed'[w] = passed[w] + 1 /\ \A v \in Workers \ {w} : passed'[v] = passed[v]
  BY <1>1 DEF TypeOK, HistoryTypeOK
<1>4. w \notin inround
  BY <1>1 DEF JoinBooks
<1>5. mpc # "done" => passed'[w] = RoundOf(w)
  BY <1>1, <1>3 DEF RoundBooks
<1>6. \A v \in Workers : RoundOf(v)' = RoundOf(v) /\ Asks(v)' = Asks(v)
  BY <1>1 DEF RoundOf, Asks
<1>7. ASSUME NEW u \in Workers
      PROVE  NotTold(u, passed[w])'
  <2>1. passed[u] <= passed[w] + 1
    BY <1>1 DEF InStep
  <2>2. u # w /\ passed[u] = passed[w] + 1 => Replies(u) = {}
    <3>1. SUFFICES ASSUME u # w, passed[u] = passed[w] + 1, Replies(u) # {} PROVE FALSE
      OBVIOUS
    <3>2. Answered(u)
      BY <3>1, TokensInFlight
    <3>3. arrived[w] > passed[u]
      BY <3>2 DEF RoundBooks
    <3>4. QED
      BY <1>1, <1>2, <3>1, <3>3
  <2>3. QED
    BY <1>1, <1>2, <1>3, <2>1, <2>2 DEF NotTold
<1>8. ASSUME NEW v \in Workers \ {w}, Open(v)'
      PROVE  /\ v \notin inround /\ \A u \in Workers : NotTold(u, passed[v])'
             /\ mpc # "done" => passed[v] = RoundOf(v)
  <2>1. Open(v)
    BY <1>1, <1>3, <1>6, <1>8 DEF Open
  <2>2. passed[w] <= passed[v] /\ passed[w] # passed[v]
    BY <1>1, <2>1 DEF JoinBooks, NotTold
  <2>3. NotTold(w, passed[v])'
    BY <1>1, <1>2, <1>3, <2>2 DEF NotTold
  <2>4. \A u \in Workers \ {w} : NotTold(u, passed[v])'
    BY <1>1, <1>3, <2>1 DEF NotTold, JoinBooks
  <2>5. QED
    BY <2>1, <2>3, <2>4 DEF JoinBooks
<1>9. \A v \in inround : Replies(v)' = {}
  BY <1>1, <1>4, RoundTypes DEF JoinBooks
<1>10. \A v \in Workers : Open(v)' =>
        /\ v \notin inround' /\ \A u \in Workers : NotTold(u, passed[v])'
        /\ mpc' # "done" => passed'[v] = RoundOf(v)'
  <2>1. \A v \in Workers : RoundOf(v)' = RoundOf(v) /\ inround' = inround /\ mpc' = mpc
    BY <1>1, <1>6
  <2>2. QED
    BY <1>3, <1>4, <1>5, <1>7, <1>8, <2>1
<1>11. QED
  BY <1>1, <1>9, <1>10 DEF JoinBooks

LEMMA JoinStep ==
  ASSUME TypeOK, AgreeInv, JoinBooks, [Next]_vars
  PROVE  JoinBooks'
<1> USE DEF AgreeInv, LockInv
<1>0. \A v \in Workers : arrived[v] <= arrived[v] /\ arrived[v] \in Nat /\ passed[v] \in Nat
  BY RoundTypes
<1>1. CASE Steady
  <2>1. NoNewReply /\ NoNewAsk /\ UNCHANGED <<arrived, passed, inround, round, mstep>>
    BY <1>1 DEF Steady
  <2>2. mpc' = "done" \/ (mpc # "done" /\ \A v \in Workers : RoundOf(v)' = RoundOf(v))
    BY <1>1, <2>1 DEF Steady, RoundOf
  <2>3. QED
    BY <1>0, <2>1, <2>2, OpenKept, JoinKept
<1>2. CASE AllWorkersArrived
  <2>1. NoNewReply /\ NoNewAsk /\ UNCHANGED <<arrived, passed, inround>>
    BY <1>2, MasterMakesNone DEF MasterStep
  <2>2. inround = Workers /\ mpc = "wait" /\ mpc' \in {"done", "notify"} /\ UNCHANGED <<mstep, round>>
    BY <1>2, InroundCounts, NumWorkersType
       DEF AllWorkersArrived, MasterReturns, MasterOnly, roundVars, BarrierBooks, TypeOK
  <2>3. \A v \in Workers : RoundOf(v)' = RoundOf(v)
    BY <2>1, <2>2 DEF RoundOf
  <2>4. QED
    BY <1>0, <2>1, <2>2, <2>3, OpenKept, JoinKept
<1>3. CASE AllWorkersNotified
  <2>1. NoNewReply /\ NoNewAsk /\ UNCHANGED <<arrived, passed, inround>>
    BY <1>3, MasterMakesNone DEF MasterStep
  <2>2. mpc = "notify" /\ round' = round + 1 /\ mpc' \notin {"notify", "done"} /\ inround = {}
    BY <1>3, InroundCounts, NumWorkersType DEF AllWorkersNotified, BarrierBooks, EnterBarrier, TypeOK
  <2>3. \A v \in Workers : RoundOf(v) = round + 1 /\ RoundOf(v)' = round + 1
    BY <2>1, <2>2 DEF RoundOf
  <2>4. \A u \in Workers, v \in Workers : NotTold(u, passed[v]) => NotTold(u, passed[v])'
    BY <2>1 DEF NotTold, NoNewReply
  <2>5. \A v \in Workers : round' <= arrived'[v]
    <3>1. \A v \in Workers : arrived[v] > round /\ round \in Nat /\ arrived[v] \in Nat
      BY <2>2, RoundTypes DEF RoundBooks
    <3>2. QED
      BY <2>1, <2>2, <3>1
  <2>6. 3 * mstep' <= round'
    <3>1. MasterPlace'
      BY MasterPlaceStep
    <3>2. mstep' \in Nat /\ round' \in Nat /\ Stage(mphase') \in 0 .. 5
      BY <1>3, <2>2, RoundTypes DEF Stage, AllWorkersNotified
    <3>3. QED
      BY <2>2, <3>1, <3>2 DEF MasterPlace
  <2>7. \A v \in Workers : Open(v)' => Open(v)
    BY <2>1, OpenKept
  <2>8. QED
    BY <2>1, <2>2, <2>3, <2>4, <2>5, <2>6, <2>7 DEF JoinBooks
<1>4. ASSUME NEW w \in Workers, WorkerEnters(w)
      PROVE  JoinBooks'
  <2>1. arrived[w] = passed[w] /\ arrived' = [arrived EXCEPT ![w] = @ + 1] /\ UNCHANGED passed
    BY <1>4, EntersIsArrive DEF RB!Arrive
  <2>2. /\ \A v \in Workers \ {w} : \A m \in Asks(v)' : m \in Asks(v)
        /\ NoNewReply
    BY <1>4, WorkerMakesAsk DEF WorkerStep
  <2>3. UNCHANGED <<mpc, mstep, inround, round>>
    BY <1>4, WorkerSideKeepsBarrier DEF WorkerStep, MasterSide, masterVars
  <2>4. \A v \in Workers : Open(v)' => Open(v)
    BY <2>1, <2>2 DEF Open, TypeOK, HistoryTypeOK
  <2>5. \A v \in Workers : arrived[v] <= arrived'[v] /\ arrived'[v] \in Nat
    BY <1>0, <2>1 DEF TypeOK, HistoryTypeOK
  <2>6. \A v \in Workers : RoundOf(v)' = RoundOf(v)
    BY <2>3 DEF RoundOf
  <2>7. mpc' = "done" \/ mpc # "done"
    BY <2>3
  <2>8. QED
    BY <2>1, <2>2, <2>3, <2>4, <2>5, <2>6, <2>7, JoinKept
<1>5. ASSUME NEW w \in Workers, NEW act \in {0, 1}, NEW delta \in {0, 1}, WorkerEndsStep(w, act, delta)
      PROVE  JoinBooks'
  <2>1. ~WorkerEnters(w) /\ ~LeavesAny(w)
    BY <1>5 DEF WorkerEndsStep, WorkerEnters, LeavesAny, WorkerLeavesPre, WorkerLeavesPost,
       WorkerLeavesKeep, WorkerLeavesExecuted, WorkerLeavesPersisted, Leaves
  <2>2. NoNewReply /\ NoNewAsk
    BY <1>5, <2>1, WorkerMakesAsk DEF WorkerStep, NoNewAsk
  <2>3. UNCHANGED <<mpc, mstep, inround, round, arrived, passed>>
    BY <1>5 DEF WorkerEndsStep, MasterSide, masterVars, roundVars
  <2>4. \A v \in Workers : RoundOf(v)' = RoundOf(v)
    BY <2>3 DEF RoundOf
  <2>5. QED
    BY <1>0, <2>2, <2>3, <2>4, OpenKept, JoinKept
<1>6. QED
  BY <1>1, <1>2, <1>3, <1>4, <1>5, StepKinds, JoinJoins, JoinNotified, JoinLeaves

-----------------------------------------------------------------------------
(***************************************************************************)
(* The sums.                                                               *)
(***************************************************************************)
SumParts == WorkerSums /\ TallyBooks /\ MasterSums

LEMMA SumTypes ==
  ASSUME TypeOK
  PROVE  /\ \A v \in Workers : value[v] \in Int /\ prev[v] \in Int
         /\ \A s \in Supersteps : tally[s] \in Int /\ Base(s) \in Int
         /\ gathered \in Int /\ mvalue \in Int /\ MaxStep \in Nat
         /\ \A s \in Nat : s + 1 \in Supersteps => s \in Supersteps
<1>1. \A v \in Workers : value[v] \in Int /\ prev[v] \in Int
  BY DEF TypeOK, WorkerTypeOK
<1>2. MaxStep \in Nat
  BY BoundsAssumption
<1>3. \A s \in Supersteps : tally[s] \in Int
  BY DEF TypeOK, HistoryTypeOK
<1>4. \A s \in Supersteps : Base(s) \in Int
  BY <1>2, <1>3 DEF Base, Supersteps
<1>5. \A s \in Nat : s + 1 \in Supersteps => s \in Supersteps
  BY <1>2 DEF Supersteps
<1>6. QED
  BY <1>1, <1>2, <1>3, <1>4, <1>5 DEF TypeOK, MasterTypeOK

LEMMA SumInit == Init => SumParts
<1> SUFFICES ASSUME Init PROVE SumParts
  OBVIOUS
<1>1. \A w \in Workers : Replies(w) = {} /\ Asks(w) = {}
  <2>1. Range(<<>>) = {}
    BY DEF Range
  <2>2. QED
    BY <2>1 DEF Init, Replies, Asks
<1>2. \A s \in Supersteps : tally[s] = 0 /\ Base(s) = 0
  BY BoundsAssumption DEF Init, Base, Supersteps
<1>3. \A w \in Workers : wstep[w] = 0 /\ value[w] = 0 /\ prev[w] = 0 /\ Into(w) = 0
  BY DEF Init, Into
<1>4. 0 \in Supersteps
  BY BoundsAssumption DEF Supersteps
<1>5. WorkerSums
  BY <1>1, <1>2, <1>3, <1>4 DEF WorkerSums
<1>6. TallyBooks
  <2>1. \A s \in Supersteps : Added(s) = {}
    BY <1>3 DEF Added
  <2>2. QED
    BY <1>2, <2>1, FS_EmptySet DEF TallyBooks
<1>7. MasterSums
  BY <1>2, <1>4 DEF MasterSums, Init
<1>8. QED
  BY <1>5, <1>6, <1>7 DEF SumParts

\* While no vertex aggregates and nobody enters or leaves a barrier.
LEMMA SumKept ==
  ASSUME TypeOK, WorkerSums, TallyBooks, NoNewReply, NoNewAsk,
         UNCHANGED <<arrived, passed, wstep, value, prev, tally>>,
         \A v \in Workers : wphase'[v] = wphase[v] \/ Into(v) # 1
  PROVE  WorkerSums' /\ TallyBooks' /\ \A s : Added(s)' = Added(s) /\ Base(s)' = Base(s)
<1>1. \A v \in Workers : /\ Into(v)' = Into(v)
                         /\ \A m \in Replies(v)' : m \in Replies(v)
                         /\ \A m \in Asks(v)' : m \in Asks(v)
  BY DEF Into, NoNewReply, NoNewAsk
<1>2. \A s : Added(s)' = Added(s) /\ Base(s)' = Base(s)
  BY <1>1 DEF Added, Base
<1>3. WorkerSums'
  <2> SUFFICES ASSUME NEW v \in Workers, wstep[v] \in Supersteps
               PROVE  /\ Into(v) = 0 => value[v] = Base(wstep[v])
                      /\ Into(v) = 1 => value[v] \in {Base(wstep[v])}
                                          \cup (IF wphase'[v] = "PRE" THEN {} ELSE {Base(wstep[v]) + 1})
                      /\ Into(v) >= 2 => value[v] = tally[wstep[v]] /\ prev[v] = value[v]
                      /\ Into(v) = 0 \/ (Into(v) = 1 /\ arrived[v] = passed[v]) => prev[v] = Base(wstep[v])
                      /\ Into(v) = 1 => \A m \in Asks(v)' : m.val = value[v] - Base(wstep[v])
                      /\ Into(v) = 1 => \A m \in Replies(v)' : m.val = tally[wstep[v]]
    BY <1>1, <1>2 DEF WorkerSums
  <2>1. QED
    BY <1>1 DEF WorkerSums
<1>4. TallyBooks'
  BY <1>2 DEF TallyBooks
<1>5. QED
  BY <1>2, <1>3, <1>4

LEMMA SumSteady ==
  ASSUME TypeOK, AgreeInv, JoinBooks, SumParts, Steady, MasterPlace'
  PROVE  SumParts'
<1> USE DEF AgreeInv, LockInv
<1>1. WorkerSums' /\ TallyBooks' /\ \A s : Added(s)' = Added(s) /\ Base(s)' = Base(s)
  BY SumKept DEF Steady, SumParts
<1>2. MasterSums'
  <2>1. SUFFICES ASSUME mpc' # "done", mstep \in Supersteps
                 PROVE  /\ round = 3 * mstep \/ (round = 3 * mstep + 1 /\ mpc' = "wait") => mvalue' = Base(mstep)
                        /\ round > 3 * mstep + 1 \/ (round = 3 * mstep + 1 /\ mpc' = "notify") => mvalue' = tally[mstep]
                        /\ round = 3 * mstep + 1 /\ mpc' = "wait" => gathered' = Cardinality(inround \cap Added(mstep))
    BY <1>1 DEF MasterSums, Steady
  <2>2. /\ mpc # "done" /\ mvalue' = mvalue
        /\ mpc' = "notify" <=> mpc = "notify"
        /\ mpc \in {"wait", "notify"} => UNCHANGED <<mpc, mphase, gathered>>
    BY <2>1 DEF Steady
  <2>3. round = 3 * mstep + 1 => mpc \in {"wait", "notify"}
    <3>1. round \in Nat /\ mstep \in Nat
      BY RoundTypes
    <3>2. QED
      BY <2>2, <3>1 DEF MasterPlace, TypeOK, MasterTypeOK
  <2>4. QED
    BY <2>1, <2>2, <2>3 DEF MasterSums, SumParts
<1>3. QED
  BY <1>1, <1>2 DEF SumParts

\* Every worker has joined: what was gathered is what the workers added.
LEMMA SumArrived ==
  ASSUME TypeOK, AgreeInv, JoinBooks, SumParts, AllWorkersArrived
  PROVE  SumParts'
<1> USE DEF AgreeInv, LockInv
<1>1. /\ NoNewReply /\ NoNewAsk
      /\ UNCHANGED <<wphase, arrived, passed, inround, wstep, value, prev, tally>>
  BY MasterMakesNone DEF MasterStep
<1>2. WorkerSums' /\ TallyBooks' /\ \A s : Added(s)' = Added(s) /\ Base(s)' = Base(s)
  BY <1>1, SumKept DEF SumParts
<1>3. /\ inround = Workers /\ mpc = "wait" /\ mpc' \in {"done", "notify"} /\ UNCHANGED <<mstep, round, mphase>>
      /\ mpc' # "done" => mvalue' = IF mphase = "POST" THEN mvalue + gathered ELSE mvalue
  BY InroundCounts, NumWorkersType
     DEF AllWorkersArrived, MasterReturns, MasterOnly, roundVars, BarrierBooks, TypeOK
<1>4. MasterSums'
  <2>1. SUFFICES ASSUME mpc' = "notify", mstep \in Supersteps
                 PROVE  /\ round = 3 * mstep => mvalue' = Base(mstep)
                        /\ round >= 3 * mstep + 1 => mvalue' = tally[mstep]
    BY <1>1, <1>2, <1>3, RoundTypes DEF MasterSums
  <2>2. round - 3 * mstep = Stage(mphase) /\ round \in Nat /\ mstep \in Nat
    BY <1>3, RoundTypes DEF MasterPlace
  <2>3. CASE mphase = "POST"
    <3>1. round = 3 * mstep + 1
      BY <2>2, <2>3 DEF Stage
    <3>2. \A v \in Workers : passed[v] <= 3 * mstep + 1
      <4>1. \A v \in Workers : passed[v] = round
        BY <1>3 DEF RoundBooks
      <4>2. QED
        BY <2>2, <3>1, <4>1
    <3>3. mvalue = Base(mstep) /\ gathered = Cardinality(Workers \cap Added(mstep))
      BY <1>3, <2>1, <3>1 DEF MasterSums, SumParts
    <3>4. Workers \cap Added(mstep) = Added(mstep)
      BY DEF Added
    <3>5. tally[mstep] = Base(mstep) + Cardinality(Added(mstep))
      BY <2>1, <3>2 DEF TallyBooks, SumParts
    <3>6. mvalue' = mvalue + gathered
      BY <1>3, <2>1, <2>3
    <3>7. mvalue' = tally[mstep]
      BY <3>3, <3>4, <3>5, <3>6
    <3>8. round # 3 * mstep
      BY <2>2, <3>1
    <3>9. QED
      BY <3>7, <3>8
  <2>4. CASE mphase # "POST"
    <3>1. round # 3 * mstep + 1
      BY <2>2, <2>4 DEF Stage
    <3>2. QED
      BY <1>3, <2>1, <2>2, <2>4, <3>1 DEF MasterSums, SumParts
  <2>5. QED
    BY <2>3, <2>4
<1>5. QED
  BY <1>2, <1>4 DEF SumParts

\* Every worker has its reply: the sum is the base of the next superstep.
LEMMA SumNotified ==
  ASSUME TypeOK, AgreeInv, JoinBooks, SumParts, AllWorkersNotified, MasterPlace'
  PROVE  SumParts'
<1> USE DEF AgreeInv, LockInv
<1>1. /\ NoNewReply /\ NoNewAsk
      /\ UNCHANGED <<wphase, arrived, passed, inround, wstep, value, prev, tally>>
  BY MasterMakesNone DEF MasterStep
<1>2. WorkerSums' /\ TallyBooks' /\ \A s : Added(s)' = Added(s) /\ Base(s)' = Base(s)
  BY <1>1, SumKept DEF SumParts
<1>3. /\ mpc = "notify" /\ round' = round + 1 /\ mpc' \notin {"notify", "done"} /\ inround = {}
      /\ mvalue' = mvalue
  BY InroundCounts, NumWorkersType DEF AllWorkersNotified, BarrierBooks, EnterBarrier, TypeOK
<1>4. round - 3 * mstep = Stage(mphase) /\ round \in Nat /\ mstep \in Nat
  BY <1>3, RoundTypes DEF MasterPlace
<1>5. MasterSums'
  <2>1. SUFFICES ASSUME mstep' \in Supersteps
                 PROVE  /\ round' = 3 * mstep' \/ round' = 3 * mstep' + 1 => mvalue = Base(mstep')
                        /\ round' > 3 * mstep' + 1 => mvalue = tally[mstep']
                        /\ round' = 3 * mstep' + 1 /\ mpc' = "wait" => gathered' = Cardinality(inround \cap Added(mstep'))
    <3>1. inround' = inround /\ tally' = tally /\ mvalue' = mvalue /\ mpc' # "notify"
      BY <1>1, <1>3
    <3>2. \A s : Base(s)' = Base(s) /\ Added(s)' = Added(s)
      BY <1>2
    <3>3. Base(mstep)' = Base(mstep') /\ Added(mstep)' = Added(mstep')
      BY <3>1, <1>1 DEF Base, Added, Into
    <3>4. QED
      BY <2>1, <3>1, <3>3 DEF MasterSums
  <2>2. CASE mphase = "KEEP" /\ mstep' = mstep + 1
    <3>1. round = 3 * mstep + 2 /\ round' = 3 * mstep'
      BY <1>3, <1>4, <2>2 DEF Stage
    <3>2. mstep \in Supersteps
      BY <1>4, <2>1, <2>2, SumTypes
    <3>3. mvalue = tally[mstep]
      BY <1>3, <1>4, <3>1, <3>2 DEF MasterSums, SumParts
    <3>4. Base(mstep') = tally[mstep]
      BY <1>4, <2>2 DEF Base
    <3>5. round' # 3 * mstep' + 1 /\ ~(round' > 3 * mstep' + 1)
      BY <1>4, <2>2, <3>1
    <3>6. QED
      BY <3>3, <3>4, <3>5
  <2>3. CASE mstep' = mstep
    <3>1. CASE mphase = "PRE"
      <4>1. round = 3 * mstep /\ round' = 3 * mstep + 1
        BY <1>3, <1>4, <3>1 DEF Stage
      <4>2. mvalue = Base(mstep)
        BY <1>3, <2>1, <2>3, <4>1 DEF MasterSums, SumParts
      <4>3. gathered' = 0
        BY <3>1 DEF AllWorkersNotified, EnterBarrier
      <4>4. Cardinality(inround \cap Added(mstep')) = 0
        <5>1. inround \cap Added(mstep') = {}
          BY <1>3
        <5>2. QED
          BY <5>1, FS_EmptySet
      <4>5. ~(round' > 3 * mstep' + 1)
        BY <1>4, <2>3, <4>1
      <4>6. QED
        BY <2>3, <4>2, <4>3, <4>4, <4>5
    <3>2. CASE mphase # "PRE"
      <4>1. round >= 3 * mstep + 1
        BY <1>4, <3>2 DEF Stage
      <4>2. mvalue = tally[mstep]
        BY <1>3, <1>4, <2>1, <2>3, <4>1 DEF MasterSums, SumParts
      <4>3. round' # 3 * mstep' /\ round' # 3 * mstep' + 1
        BY <1>3, <1>4, <2>3, <4>1
      <4>4. QED
        BY <2>3, <4>2, <4>3
    <3>3. QED
      BY <3>1, <3>2
  <2>4. QED
    BY <2>2, <2>3 DEF AllWorkersNotified
<1>6. QED
  BY <1>2, <1>5 DEF SumParts

\* The POST step of w joins: its share is gathered once.
LEMMA SumJoins ==
  ASSUME TypeOK, AgreeInv, JoinBooks, SumParts, NEW w \in Workers, HandlerJoins(w)
  PROVE  SumParts'
<1> USE DEF AgreeInv, LockInv
<1>1. /\ hpc[w] = "join" /\ mpc = "wait" /\ inround' = inround \cup {w}
      /\ gathered' = gathered + hmsg[w].val
  BY DEF HandlerJoins
<1>2. /\ NoNewReply /\ NoNewAsk
      /\ UNCHANGED <<wphase, arrived, passed, wstep, value, prev, tally, mpc, mstep, mvalue, round>>
  BY HandlerMakesReply DEF NoNewReply, HandlerStep, HandlerNotified, HandlerJoins
<1>3. WorkerSums' /\ TallyBooks' /\ \A s : Added(s)' = Added(s) /\ Base(s)' = Base(s)
  BY <1>2, SumKept DEF SumParts
<1>4. hmsg[w] \in Asks(w) /\ Open(w)
  BY <1>1 DEF Asks, Open
<1>5. w \notin inround /\ passed[w] = round /\ wstep[w] = mstep /\ Into(w) = round - 3 * mstep
  <2>1. w \notin inround /\ passed[w] = RoundOf(w)
    BY <1>1, <1>4 DEF JoinBooks
  <2>2. passed[w] = round
    BY <1>1, <2>1 DEF RoundOf
  <2>3. QED
    BY <1>1, <2>1, <2>2 DEF MasterAgrees, Into
<1>6. MasterSums'
  <2>1. SUFFICES ASSUME mstep \in Supersteps, round = 3 * mstep + 1
                 PROVE  gathered' = Cardinality((inround \cup {w}) \cap Added(mstep))
    BY <1>1, <1>2, <1>3 DEF MasterSums, SumParts
  <2>2. Into(w) = 1
    BY <1>5, <2>1, RoundTypes
  <2>3. hmsg[w].val = value[w] - Base(mstep) /\ value[w] \in {Base(mstep), Base(mstep) + 1}
    BY <1>4, <1>5, <2>1, <2>2 DEF WorkerSums, SumParts
  <2>4. w \in Added(mstep) <=> value[w] = Base(mstep) + 1
    BY <1>5, <2>2 DEF Added
  <2>5. gathered = Cardinality(inround \cap Added(mstep))
    BY <1>1, <2>1 DEF MasterSums, SumParts
  <2>6. IsFiniteSet(inround \cap Added(mstep)) /\ Cardinality(inround \cap Added(mstep)) \in Nat
    <3>1. inround \cap Added(mstep) \subseteq Workers
      BY DEF Added
    <3>2. QED
      BY <3>1, WorkersAssumption, FS_Subset, FS_CardinalityType
  <2>7. Base(mstep) \in Int
    BY <2>1, SumTypes
  <2>8. CASE value[w] = Base(mstep)
    <3>1. (inround \cup {w}) \cap Added(mstep) = inround \cap Added(mstep)
      <4>1. w \notin Added(mstep)
        BY <2>4, <2>7, <2>8
      <4>2. QED
        BY <4>1
    <3>2. gathered' = gathered
      BY <1>1, <2>3, <2>5, <2>6, <2>7, <2>8
    <3>3. QED
      BY <2>5, <3>1, <3>2
  <2>9. CASE value[w] = Base(mstep) + 1
    <3>1. (inround \cup {w}) \cap Added(mstep) = (inround \cap Added(mstep)) \cup {w}
      BY <2>4, <2>9
    <3>2. Cardinality((inround \cap Added(mstep)) \cup {w}) = Cardinality(inround \cap Added(mstep)) + 1
      <4>1. w \notin inround \cap Added(mstep)
        BY <1>5
      <4>2. QED
        BY <2>6, <4>1, FS_AddElement
    <3>3. gathered' = gathered + 1
      BY <1>1, <2>3, <2>5, <2>6, <2>7, <2>9
    <3>4. QED
      BY <2>5, <3>1, <3>2, <3>3
  <2>10. QED
    BY <2>3, <2>8, <2>9
<1>7. QED
  BY <1>3, <1>6 DEF SumParts

\* The reply to a POST step carries the sum.
LEMMA SumReplied ==
  ASSUME TypeOK, AgreeInv, JoinBooks, SumParts, NEW w \in Workers, HandlerNotified(w)
  PROVE  SumParts'
<1> USE DEF AgreeInv, LockInv
<1>1. mpc = "notify" /\ hpc[w] = "joined" /\ w \in inround /\ UNCHANGED gathered
  BY DEF HandlerNotified, BarrierBooks
<1>2. /\ \A v \in Workers : \A m \in Replies(v)' : m \in Replies(v) \/ (v = w /\ m = Broadcast)
      /\ NoNewAsk
      /\ UNCHANGED <<wphase, arrived, passed, wstep, value, prev, tally, mpc, mstep, mvalue, round>>
  BY HandlerMakesReply DEF HandlerStep
<1>3. passed[w] = round /\ wstep[w] = mstep /\ Into(w) = round - 3 * mstep
  BY <1>1 DEF RoundBooks, MasterAgrees, Into
<1>4. Into(w) = 1 /\ wstep[w] \in Supersteps => Broadcast.val = tally[wstep[w]]
  <2>1. SUFFICES ASSUME Into(w) = 1, mstep \in Supersteps
                 PROVE  Broadcast.val = tally[mstep]
    BY <1>3
  <2>2. round = 3 * mstep + 1 /\ Stage(mphase) = 1
    BY <1>1, <1>3, <2>1, RoundTypes DEF MasterPlace
  <2>3. mphase = "POST"
    BY <2>2 DEF Stage
  <2>4. mvalue = tally[mstep]
    BY <1>1, <2>1, <2>2 DEF MasterSums, SumParts
  <2>5. QED
    BY <2>3, <2>4 DEF Broadcast, Step
<1>5. \A v \in Workers : Into(v)' = Into(v) /\ \A m \in Asks(v)' : m \in Asks(v)
  BY <1>2 DEF Into, NoNewAsk
<1>6. \A s : Added(s)' = Added(s) /\ Base(s)' = Base(s)
  BY <1>2, <1>5 DEF Added, Base
<1>7. \A v \in Workers : wstep[v] \in Supersteps /\ Into(v) = 1 =>
        \A m \in Replies(v)' : m.val = tally[wstep[v]]
  BY <1>2, <1>4 DEF WorkerSums, SumParts
<1>8. WorkerSums'
  <2> SUFFICES ASSUME NEW v \in Workers, wstep[v] \in Supersteps
               PROVE  /\ Into(v) = 0 => value[v] = Base(wstep[v])
                      /\ Into(v) = 1 => value[v] \in {Base(wstep[v])}
                                          \cup (IF wphase[v] = "PRE" THEN {} ELSE {Base(wstep[v]) + 1})
                      /\ Into(v) >= 2 => value[v] = tally[wstep[v]] /\ prev[v] = value[v]
                      /\ Into(v) = 0 \/ (Into(v) = 1 /\ arrived[v] = passed[v]) => prev[v] = Base(wstep[v])
                      /\ Into(v) = 1 => \A m \in Asks(v)' : m.val = value[v] - Base(wstep[v])
    BY <1>2, <1>5, <1>6, <1>7 DEF WorkerSums
  <2>1. QED
    BY <1>5 DEF WorkerSums, SumParts
<1>9. TallyBooks'
  BY <1>2, <1>6 DEF TallyBooks, SumParts
<1>10. MasterSums'
  BY <1>1, <1>2, <1>6 DEF MasterSums, SumParts
<1>11. QED
  BY <1>8, <1>9, <1>10 DEF SumParts

\* The POST step carries what w added.
LEMMA SumEnters ==
  ASSUME TypeOK, AgreeInv, JoinBooks, SumParts, NEW w \in Workers, WorkerEnters(w)
  PROVE  SumParts'
<1> USE DEF AgreeInv, LockInv
<1>1. arrived[w] = passed[w] /\ arrived' = [arrived EXCEPT ![w] = @ + 1] /\ UNCHANGED passed
  BY EntersIsArrive DEF RB!Arrive
<1>2. /\ \A v \in Workers : \A m \in Asks(v)' :
           m \in Asks(v) \/ (v = w /\ m = Step(wphase[w], StepValue(w)))
      /\ NoNewReply
  BY WorkerMakesAsk DEF WorkerStep
<1>3. /\ UNCHANGED <<mpc, mstep, mvalue, gathered, inround, round, wstep, value, tally, wphase>>
      /\ prev' = IF wphase[w] = "POST" THEN [prev EXCEPT ![w] = value[w]] ELSE prev
      /\ wpc[w] = "enter"
  BY DEF WorkerEnters, MasterSide, masterVars, dataHistory
<1>4. Into(w) = Stage(wphase[w])
  BY <1>3 DEF PlaceBooks, AtBarrier
<1>5. \A v \in Workers : Into(v)' = Into(v) /\ \A m \in Replies(v)' : m \in Replies(v)
  BY <1>1, <1>2, <1>3 DEF Into, NoNewReply
<1>6. \A s : Added(s)' = Added(s) /\ Base(s)' = Base(s)
  BY <1>3, <1>5 DEF Added, Base
<1>7. /\ arrived'[w] # passed[w]
      /\ \A v \in Workers \ {w} : arrived'[v] = arrived[v] /\ prev'[v] = prev[v]
  BY <1>1, <1>3, RoundTypes DEF TypeOK, HistoryTypeOK, WorkerTypeOK
<1>8. wphase[w] # "POST" => prev'[w] = prev[w] /\ Into(w) # 1
  BY <1>3, <1>4 DEF Stage
<1>9. wphase[w] = "POST" => Into(w) = 1
  BY <1>4 DEF Stage
<1>10. ASSUME wstep[w] \in Supersteps, Into(w) = 1
       PROVE  \A m \in Asks(w)' : m.val = value[w] - Base(wstep[w])
  <2>1. prev[w] = Base(wstep[w])
    BY <1>1, <1>10 DEF WorkerSums, SumParts
  <2>2. StepValue(w) = value[w] - Base(wstep[w])
    BY <1>8, <1>10, <2>1 DEF StepValue
  <2>3. QED
    BY <1>2, <1>10, <2>2 DEF WorkerSums, SumParts, Step
<1>11. WorkerSums'
  <2> SUFFICES ASSUME NEW v \in Workers, wstep[v] \in Supersteps
               PROVE  /\ Into(v) = 0 => value[v] = Base(wstep[v])
                      /\ Into(v) = 1 => value[v] \in {Base(wstep[v])}
                                          \cup (IF wphase[v] = "PRE" THEN {} ELSE {Base(wstep[v]) + 1})
                      /\ Into(v) >= 2 => value[v] = tally[wstep[v]] /\ prev'[v] = value[v]
                      /\ Into(v) = 0 \/ (Into(v) = 1 /\ arrived'[v] = passed[v]) => prev'[v] = Base(wstep[v])
                      /\ Into(v) = 1 => \A m \in Asks(v)' : m.val = value[v] - Base(wstep[v])
                      /\ Into(v) = 1 => \A m \in Replies(v)' : m.val = tally[wstep[v]]
    BY <1>1, <1>3, <1>5, <1>6 DEF WorkerSums
  <2>1. CASE v # w
    BY <1>2, <1>5, <1>7, <2>1 DEF WorkerSums, SumParts
  <2>2. CASE v = w
    BY <1>5, <1>7, <1>8, <1>9, <1>10, <2>2 DEF WorkerSums, SumParts
  <2>3. QED
    BY <2>1, <2>2
<1>12. TallyBooks'
  BY <1>1, <1>3, <1>6 DEF TallyBooks, SumParts
<1>13. MasterSums'
  BY <1>3, <1>6 DEF MasterSums, SumParts
<1>14. QED
  BY <1>11, <1>12, <1>13 DEF SumParts

\* The reply replaces the worker's own sum.
LEMMA SumLeaves ==
  ASSUME TypeOK, AgreeInv, JoinBooks, SumParts, NEW w \in Workers, LeavesAny(w)
  PROVE  SumParts'
<1> USE DEF AgreeInv, LockInv
<1>1. /\ rpc[w] = "notify" /\ Answered(w) /\ Replies(w) = {rmsg[w]} /\ Replies(w)' = {}
      /\ \A v \in Workers \ {w} : Replies(v)' = Replies(v)
      /\ passed' = [passed EXCEPT ![w] = @ + 1]
      /\ wstep' = [wstep EXCEPT ![w] = After(Into(w), @, rmsg[w].val)]
      /\ Into(w)' = IF Into(w) = 2 /\ rmsg[w].val # 0 THEN 0 ELSE Into(w) + 1
      /\ arrived[w] = passed[w] + 1 /\ Into(w) = Stage(wphase[w])
      /\ UNCHANGED <<hpc, hmsg, mpc, mstep, mvalue, gathered, toMaster, inround, round, arrived, tally>>
  BY LeavesForNext
<1>2. /\ passed'[w] = passed[w] + 1 /\ wstep'[w] = After(Into(w), wstep[w], rmsg[w].val)
      /\ \A v \in Workers \ {w} : passed'[v] = passed[v] /\ wstep'[v] = wstep[v] /\ Into(v)' = Into(v)
      /\ \A v \in Workers : passed[v] \in Nat /\ wstep[v] \in Nat /\ Into(v) \in Nat
  <2>1. /\ passed'[w] = passed[w] + 1 /\ wstep'[w] = After(Into(w), wstep[w], rmsg[w].val)
        /\ \A v \in Workers \ {w} : passed'[v] = passed[v] /\ wstep'[v] = wstep[v]
    BY <1>1 DEF TypeOK, WorkerTypeOK, HistoryTypeOK
  <2>2. \A v \in Workers : passed[v] \in Nat /\ wstep[v] \in Nat /\ Into(v) \in Nat
    BY RoundTypes DEF PlaceBooks
  <2>3. QED
    BY <2>1, <2>2 DEF Into
<1>3. /\ \A v \in Workers \ {w} : wphase'[v] = wphase[v] /\ value'[v] = value[v] /\ prev'[v] = prev[v]
      /\ Into(w) # 1 => value'[w] = value[w] /\ prev'[w] = prev[w]
      /\ Into(w) = 1 => value'[w] = rmsg[w].val /\ prev'[w] = rmsg[w].val
      /\ Into(w) = 0 => wphase'[w] = wphase[w]
  <2>1. CASE WorkerLeavesPost(w)
    <3>1. Into(w) = 1
      BY <1>1, <2>1 DEF WorkerLeavesPost, Leaves, Stage
    <3>2. QED
      BY <2>1, <3>1 DEF WorkerLeavesPost, HeadsFor, TypeOK, WorkerTypeOK
  <2>2. CASE ~WorkerLeavesPost(w)
    <3>1. Into(w) # 1
      BY <1>1, <2>2 DEF LeavesAny, WorkerLeavesPre, WorkerLeavesKeep, WorkerLeavesExecuted,
         WorkerLeavesPersisted, Leaves, Stage
    <3>2. UNCHANGED <<value, prev>>
      BY <2>2 DEF LeavesAny, WorkerLeavesPre, WorkerLeavesKeep, WorkerLeavesExecuted,
         WorkerLeavesPersisted, computeVars
    <3>3. \A v \in Workers \ {w} : wphase'[v] = wphase[v]
      BY <2>2 DEF LeavesAny, WorkerLeavesPre, WorkerLeavesKeep, WorkerLeavesExecuted,
         WorkerLeavesPersisted, HeadsFor, TypeOK, WorkerTypeOK
    <3>4. Into(w) = 0 => wphase'[w] = wphase[w]
      BY <1>1, <2>2 DEF LeavesAny, WorkerLeavesPre, WorkerLeavesKeep, WorkerLeavesExecuted,
         WorkerLeavesPersisted, Leaves, Stage
    <3>5. QED
      BY <3>1, <3>2, <3>3, <3>4
  <2>3. QED
    BY <2>1, <2>2
<1>4. \A s : Base(s)' = Base(s)
  BY <1>1 DEF Base
<1>5. (\A v \in Workers : Asks(v)' = Asks(v)) /\ Asks(w) = {}
  <2>1. NoStep(toMaster[w]) /\ hpc[w] \notin Handling
    BY <1>1 DEF TokenBooks
  <2>2. ~Asking(w)
    BY <2>1 DEF Asking, Handling
  <2>3. QED
    BY <1>1, <2>2, TokensInFlight DEF Asks
<1>6. ASSUME NEW v \in Workers \ {w}, wstep'[v] \in Supersteps
      PROVE  /\ Into(v)' = 0 => value'[v] = Base(wstep'[v])
             /\ Into(v)' = 1 => value'[v] \in {Base(wstep'[v])}
                                 \cup (IF wphase'[v] = "PRE" THEN {} ELSE {Base(wstep'[v]) + 1})
             /\ Into(v)' >= 2 => value'[v] = tally[wstep'[v]] /\ prev'[v] = value'[v]
             /\ Into(v)' = 0 \/ (Into(v)' = 1 /\ arrived[v] = passed'[v]) => prev'[v] = Base(wstep'[v])
             /\ Into(v)' = 1 => \A m \in Asks(v)' : m.val = value'[v] - Base(wstep'[v])
             /\ Into(v)' = 1 => \A m \in Replies(v)' : m.val = tally[wstep'[v]]
  <2>1. /\ passed'[v] = passed[v] /\ wstep'[v] = wstep[v] /\ Into(v)' = Into(v) /\ wstep[v] \in Supersteps
        /\ wphase'[v] = wphase[v] /\ value'[v] = value[v] /\ prev'[v] = prev[v]
        /\ Asks(v)' = Asks(v) /\ Replies(v)' = Replies(v)
    BY <1>1, <1>2, <1>3, <1>5, <1>6
  <2>2. QED
    BY <2>1 DEF WorkerSums, SumParts
<1>7. ASSUME wstep'[w] \in Supersteps
      PROVE  /\ Into(w)' = 0 => value'[w] = Base(wstep'[w])
             /\ Into(w)' = 1 => value'[w] \in {Base(wstep'[w])}
                                 \cup (IF wphase'[w] = "PRE" THEN {} ELSE {Base(wstep'[w]) + 1})
             /\ Into(w)' >= 2 => value'[w] = tally[wstep'[w]] /\ prev'[w] = value'[w]
             /\ Into(w)' = 0 \/ (Into(w)' = 1 /\ arrived[w] = passed'[w]) => prev'[w] = Base(wstep'[w])
  <2>1. CASE Into(w) = 0
    <3>1. Into(w)' = 1 /\ wstep'[w] = wstep[w]
      BY <1>1, <1>2, <2>1 DEF After
    <3>2. value'[w] = value[w] /\ prev'[w] = prev[w]
      BY <1>3, <2>1
    <3>3. value[w] = Base(wstep[w]) /\ prev[w] = Base(wstep[w])
      BY <1>7, <2>1, <3>1 DEF WorkerSums, SumParts
    <3>4. QED
      BY <3>1, <3>2, <3>3
  <2>2. CASE Into(w) = 1
    <3>1. Into(w)' = 2 /\ wstep'[w] = wstep[w]
      BY <1>1, <1>2, <2>2 DEF After
    <3>2. rmsg[w].val = tally[wstep[w]]
      BY <1>1, <1>7, <2>2, <3>1 DEF WorkerSums, SumParts
    <3>3. QED
      BY <1>3, <2>2, <3>1, <3>2
  <2>3. CASE Into(w) >= 2
    <3>1. value'[w] = value[w] /\ prev'[w] = prev[w]
      BY <1>3, <2>3
    <3>2. CASE Into(w) = 2 /\ rmsg[w].val # 0
      <4>1. Into(w)' = 0 /\ wstep'[w] = wstep[w] + 1
        BY <1>1, <1>2, <3>2 DEF After
      <4>2. wstep[w] \in Supersteps
        BY <1>2, <1>7, <4>1, SumTypes
      <4>3. value[w] = tally[wstep[w]] /\ prev[w] = value[w]
        BY <2>3, <4>2 DEF WorkerSums, SumParts
      <4>4. Base(wstep'[w]) = tally[wstep[w]]
        BY <1>2, <4>1 DEF Base
      <4>5. QED
        BY <3>1, <4>1, <4>3, <4>4
    <3>3. CASE ~(Into(w) = 2 /\ rmsg[w].val # 0)
      <4>1. Into(w)' = Into(w) + 1 /\ wstep'[w] = wstep[w]
        BY <1>1, <1>2, <3>3 DEF After
      <4>2. value[w] = tally[wstep[w]] /\ prev[w] = value[w]
        BY <1>7, <2>3, <4>1 DEF WorkerSums, SumParts
      <4>3. Into(w)' >= 2 /\ Into(w)' # 0 /\ Into(w)' # 1
        BY <1>2, <2>3, <4>1
      <4>4. QED
        BY <3>1, <4>1, <4>2, <4>3
    <3>4. QED
      BY <3>2, <3>3
  <2>4. QED
    BY <1>2, <2>1, <2>2, <2>3
<1>8. WorkerSums'
  <2> SUFFICES ASSUME NEW v \in Workers, wstep'[v] \in Supersteps
               PROVE  /\ Into(v)' = 0 => value'[v] = Base(wstep'[v])
                      /\ Into(v)' = 1 => value'[v] \in {Base(wstep'[v])}
                                          \cup (IF wphase'[v] = "PRE" THEN {} ELSE {Base(wstep'[v]) + 1})
                      /\ Into(v)' >= 2 => value'[v] = tally[wstep'[v]] /\ prev'[v] = value'[v]
                      /\ Into(v)' = 0 \/ (Into(v)' = 1 /\ arrived[v] = passed'[v]) => prev'[v] = Base(wstep'[v])
                      /\ Into(v)' = 1 => \A m \in Asks(v)' : m.val = value'[v] - Base(wstep'[v])
                      /\ Into(v)' = 1 => \A m \in Replies(v)' : m.val = tally[wstep'[v]]
    <3>1. \A v \in Workers : Base(wstep[v])' = Base(wstep'[v])
      BY <1>1 DEF Base
    <3>2. tally' = tally /\ arrived' = arrived
      BY <1>1
    <3>3. QED
      BY <3>1, <3>2 DEF WorkerSums
  <2>1. CASE v = w
    BY <1>1, <1>5, <1>7, <2>1
  <2>2. CASE v # w
    BY <1>6, <2>2
  <2>3. QED
    BY <2>1, <2>2
<1>9. TallyBooks'
  <2> SUFFICES ASSUME NEW s \in Supersteps, \A v \in Workers : passed'[v] <= 3 * s + 1
               PROVE  tally[s] = Base(s) + Cardinality(Added(s)')
    BY <1>1, <1>4 DEF TallyBooks
  <2>1. s \in Nat
    BY SumTypes DEF Supersteps
  <2>2. \A v \in Workers : passed[v] <= 3 * s + 1
    BY <1>2, <2>1
  <2>3. w \notin Added(s)
    <3>1. passed[w] + 1 <= 3 * s + 1
      BY <1>2
    <3>2. ~(wstep[w] = s /\ Into(w) = 1)
      BY <1>2, <2>1, <3>1 DEF Into
    <3>3. QED
      BY <3>2 DEF Added
  <2>4. w \notin Added(s)'
    <3>1. SUFFICES ASSUME wstep'[w] = s, Into(w)' = 1, value'[w] = Base(s) + 1 PROVE FALSE
      BY <1>4 DEF Added
    <3>2. Into(w) = 0 /\ wstep'[w] = wstep[w]
      BY <1>1, <1>2, <3>1 DEF After
    <3>3. value'[w] = Base(s)
      BY <1>3, <3>1, <3>2 DEF WorkerSums, SumParts
    <3>4. Base(s) \in Int
      BY SumTypes
    <3>5. QED
      BY <3>1, <3>3, <3>4
  <2>5. Added(s)' = Added(s)
    <3>1. \A v \in Workers \ {w} : v \in Added(s)' <=> v \in Added(s)
      BY <1>2, <1>3, <1>4 DEF Added
    <3>2. Added(s)' \subseteq Workers /\ Added(s) \subseteq Workers
      BY DEF Added
    <3>3. QED
      BY <2>3, <2>4, <3>1, <3>2
  <2>6. QED
    BY <2>2, <2>5 DEF TallyBooks, SumParts
<1>10. MasterSums'
  <2>1. w \notin inround
    BY <1>1 DEF JoinBooks
  <2>2. inround \cap Added(mstep)' = inround \cap Added(mstep)
    <3>1. \A v \in inround : v \in Workers \ {w}
      BY <2>1, RoundTypes
    <3>2. \A v \in Workers \ {w} : v \in Added(mstep)' <=> v \in Added(mstep)
      BY <1>1, <1>2, <1>3, <1>4 DEF Added, Base
    <3>3. QED
      BY <3>1, <3>2
  <2>3. Base(mstep)' = Base(mstep)
    BY <1>1 DEF Base
  <2>4. QED
    BY <1>1, <2>2, <2>3 DEF MasterSums, SumParts
<1>11. QED
  BY <1>8, <1>9, <1>10 DEF SumParts

\* Where everyone is while w computes.
LEMMA Computing ==
  ASSUME TypeOK, AgreeInv, JoinBooks, NEW w \in Workers, wpc[w] = "compute"
  PROVE  /\ passed[w] = 3 * wstep[w] + 1 /\ Into(w) = 1 /\ wphase[w] = "PRE"
         /\ arrived[w] = passed[w] /\ w \notin inround /\ Asks(w) = {}
         /\ \A v \in Workers : NotTold(v, 3 * wstep[w] + 1) /\ wstep[v] <= wstep[w]
         /\ mpc # "done" => /\ mstep = wstep[w]
                            /\ mpc = "notify" => round = 3 * mstep
                            /\ mpc # "notify" => round = 3 * mstep + 1 /\ mpc = "wait"
<1> USE DEF AgreeInv, LockInv
<1>1. Into(w) = 1 /\ wphase[w] = "PRE"
  BY DEF PlaceBooks
<1>2. passed[w] = 3 * wstep[w] + 1
  BY <1>1, RoundTypes DEF Into
<1>3. arrived[w] = passed[w] /\ ~Asking(w)
  BY DEF RoundBooks, TokenBooks, Asking, Between, Handling
<1>4. Asks(w) = {}
  BY <1>3, TokensInFlight
<1>5. w \notin inround /\ (\A v \in Workers : NotTold(v, passed[w])) /\ (mpc # "done" => passed[w] = RoundOf(w))
  BY <1>3 DEF JoinBooks, Open
<1>6. \A v \in Workers : wstep[v] <= wstep[w]
  <2>1. \A v \in Workers : passed[v] <= 3 * wstep[w] + 1 /\ passed[v] - 3 * wstep[v] >= 0
    BY <1>2, <1>5, RoundTypes DEF NotTold, PlaceBooks, Into
  <2>2. QED
    BY <2>1, RoundTypes
<1>7. ASSUME mpc # "done"
      PROVE  /\ mstep = wstep[w]
             /\ mpc = "notify" => round = 3 * mstep
             /\ mpc # "notify" => round = 3 * mstep + 1 /\ mpc = "wait"
  <2>1. round \in Nat /\ mstep \in Nat /\ wstep[w] \in Nat
    BY RoundTypes
  <2>2. CASE mpc = "notify"
    <3>1. passed[w] = round + 1
      BY <1>5, <1>7, <2>2 DEF RoundOf
    <3>2. wstep[w] = After(round - 3 * mstep, mstep, Broadcast.val)
      BY <1>7, <3>1 DEF MasterAgrees
    <3>3. round = 3 * wstep[w]
      BY <1>2, <2>1, <3>1
    <3>4. wstep[w] = mstep
      BY <2>1, <3>2, <3>3 DEF After
    <3>5. QED
      BY <2>2, <3>3, <3>4
  <2>3. CASE mpc # "notify"
    <3>1. passed[w] = round
      BY <1>5, <1>7, <2>3 DEF RoundOf
    <3>2. wstep[w] = mstep
      BY <1>7, <3>1 DEF MasterAgrees
    <3>3. round = 3 * mstep + 1
      BY <1>2, <3>1, <3>2
    <3>4. mpc \notin {"start", "publish", "check", "complete"}
      BY <1>7, <2>1, <3>3 DEF MasterPlace
    <3>5. mpc = "wait"
      BY <1>7, <2>3, <3>4 DEF TypeOK, MasterTypeOK
    <3>6. QED
      BY <2>3, <3>2, <3>3, <3>5
  <2>4. QED
    BY <2>2, <2>3
<1>8. QED
  BY <1>1, <1>2, <1>3, <1>4, <1>5, <1>6, <1>7

\* What ends with the superstep of w, besides what it aggregates.
LEMMA EndsFrame ==
  ASSUME TypeOK, NEW w \in Workers, NEW act \in {0, 1}, NEW delta \in {0, 1}, WorkerEndsStep(w, act, delta)
  PROVE  /\ NoNewReply /\ NoNewAsk
         /\ UNCHANGED <<mpc, mphase, mstep, mvalue, gathered, round, inround, arrived, passed, wstep, prev>>
<1>1. ~WorkerEnters(w)
  BY DEF WorkerEndsStep, WorkerEnters
<1>2. NoNewReply /\ NoNewAsk
  BY <1>1, WorkerMakesAsk DEF WorkerStep, NoNewAsk
<1>3. QED
  BY <1>2 DEF WorkerEndsStep, MasterSide, masterVars, roundVars

\* A superstep's sum grows by what a vertex aggregates, and nothing else does.
LEMMA SumEnds ==
  ASSUME TypeOK, AgreeInv, JoinBooks, SumParts, NEW w \in Workers,
         NEW act \in {0, 1}, NEW delta \in {0, 1}, WorkerEndsStep(w, act, delta)
  PROVE  SumParts'
<1> USE DEF AgreeInv, LockInv
<1> DEFINE s0 == wstep[w]
<1>1. /\ NoNewReply /\ NoNewAsk
      /\ UNCHANGED <<mpc, mphase, mstep, mvalue, gathered, round, inround, arrived, passed, wstep, prev>>
  BY EndsFrame
<1>2. /\ wpc[w] = "compute" /\ value' = [value EXCEPT ![w] = @ + delta]
      /\ tally' = [s \in Supersteps |-> IF s >= s0 THEN tally[s] + delta ELSE tally[s]]
      /\ wphase' = [wphase EXCEPT ![w] = "POST"]
  BY DEF WorkerEndsStep, HeadsFor
<1>3. /\ passed[w] = 3 * s0 + 1 /\ Into(w) = 1 /\ wphase[w] = "PRE"
      /\ w \notin inround /\ Asks(w) = {}
      /\ \A v \in Workers : NotTold(v, 3 * s0 + 1) /\ wstep[v] <= s0
      /\ mpc # "done" => /\ mstep = s0
                         /\ mpc = "notify" => round = 3 * mstep
                         /\ mpc # "notify" => round = 3 * mstep + 1 /\ mpc = "wait"
  BY <1>2, Computing
<1>4. /\ value'[w] = value[w] + delta /\ wphase'[w] = "POST"
      /\ \A v \in Workers \ {w} : value'[v] = value[v] /\ wphase'[v] = wphase[v]
      /\ \A s \in Supersteps : tally'[s] = IF s >= s0 THEN tally[s] + delta ELSE tally[s]
      /\ s0 \in Nat
  BY <1>2 DEF TypeOK, WorkerTypeOK
<1>5. \A s \in Supersteps : s \in Nat /\ (s > 0 => s - 1 \in Supersteps)
  BY SumTypes DEF Supersteps
<1>6. \A v \in Workers : Into(v)' = Into(v) /\ Into(v) \in Nat /\ wstep[v] \in Nat
  BY <1>1, RoundTypes DEF Into, PlaceBooks
<1> HIDE DEF s0
<1>7. \A s \in Supersteps : s <= s0 /\ s # 0 => tally'[s - 1] = tally[s - 1]
  <2> SUFFICES ASSUME NEW s \in Supersteps, s <= s0, s # 0
               PROVE  tally'[s - 1] = tally[s - 1]
    OBVIOUS
  <2>1. s - 1 \in Supersteps /\ ~(s - 1 >= s0)
    BY <1>4, <1>5
  <2>2. QED
    BY <1>4, <2>1
<1>8. \A v \in Workers : wstep[v] \in Supersteps => Base(wstep[v])' = Base(wstep[v])
  BY <1>1, <1>3, <1>7 DEF Base
<1>9. WorkerSums'
  <2> SUFFICES ASSUME NEW v \in Workers, wstep[v] \in Supersteps
               PROVE  /\ Into(v) = 0 => value'[v] = Base(wstep[v])
                      /\ Into(v) = 1 => value'[v] \in {Base(wstep[v])}
                                          \cup (IF wphase'[v] = "PRE" THEN {} ELSE {Base(wstep[v]) + 1})
                      /\ Into(v) >= 2 => value'[v] = tally'[wstep[v]] /\ prev[v] = value'[v]
                      /\ Into(v) = 0 \/ (Into(v) = 1 /\ arrived[v] = passed[v]) => prev[v] = Base(wstep[v])
                      /\ Into(v) = 1 => \A m \in Asks(v)' : m.val = value'[v] - Base(wstep[v])
                      /\ Into(v) = 1 => \A m \in Replies(v)' : m.val = tally'[wstep[v]]
    <3>1. \A v \in Workers : wstep'[v] \in Supersteps => Base(wstep[v])' = Base(wstep[v]) /\ wstep'[v] = wstep[v]
      BY <1>1, <1>8
    <3>2. QED
      BY <1>1, <1>6, <3>1 DEF WorkerSums
  <2>1. (\A m \in Asks(v)' : m \in Asks(v)) /\ (\A m \in Replies(v)' : m \in Replies(v))
    BY <1>1 DEF NoNewAsk, NoNewReply
  <2>2. CASE v = w
    <3>1. value[w] = Base(wstep[w]) /\ prev[w] = Base(wstep[w])
      BY <1>3, <2>2, Computing, <1>2 DEF WorkerSums, SumParts
    <3>2. value'[w] \in {Base(wstep[w]), Base(wstep[w]) + 1}
      <4>1. Base(wstep[w]) \in Int
        BY <2>2, SumTypes
      <4>2. QED
        BY <1>4, <3>1, <4>1
    <3>3. Replies(w) = {}
      BY <1>3 DEF NotTold
    <3>4. QED
      BY <1>3, <1>4, <2>1, <2>2, <3>1, <3>2, <3>3
  <2>3. CASE v # w
    <3>1. Into(v) >= 2 \/ (Into(v) = 1 /\ Replies(v) # {}) => tally'[wstep[v]] = tally[wstep[v]]
      <4>1. passed[v] <= 3 * s0 + 1 /\ (passed[v] = 3 * s0 + 1 => Replies(v) = {})
        BY <1>3 DEF NotTold
      <4>2. Into(v) >= 2 \/ (Into(v) = 1 /\ Replies(v) # {}) => wstep[v] < s0
        <5>1. passed[v] = 3 * wstep[v] + Into(v)
          BY RoundTypes DEF Into
        <5>2. passed[v] \in Nat
          BY RoundTypes
        <5>3. QED
          BY <1>4, <1>6, <4>1, <5>1, <5>2
      <4>3. wstep[v] < s0 => tally'[wstep[v]] = tally[wstep[v]]
        BY <1>4, <1>6
      <4>4. QED
        BY <4>2, <4>3
    <3>2. value'[v] = value[v] /\ wphase'[v] = wphase[v]
      BY <1>4, <2>3
    <3>3. QED
      BY <2>1, <3>1, <3>2 DEF WorkerSums, SumParts
  <2>4. QED
    BY <2>2, <2>3
<1>10. TallyBooks'
  <2> SUFFICES ASSUME NEW s \in Supersteps, \A v \in Workers : passed[v] <= 3 * s + 1
               PROVE  tally'[s] = Base(s)' + Cardinality(Added(s)')
    BY <1>1 DEF TallyBooks
  <2>1. s \in Nat /\ s >= s0
    <3>1. 3 * s0 + 1 <= 3 * s + 1
      BY <1>3
    <3>2. QED
      BY <1>4, <1>5, <3>1
  <2>2. tally'[s] = tally[s] + delta /\ tally[s] = Base(s) + Cardinality(Added(s)) /\ tally[s] \in Int
    BY <1>4, <2>1, SumTypes DEF TallyBooks, SumParts
  <2>3. CASE s = s0
    <3>1. Base(s)' = Base(s) /\ Base(s) \in Int
      BY <1>4, <1>7, <2>1, <2>3, SumTypes DEF Base
    <3>2. value[w] = Base(s)
      BY <1>3, <2>3 DEF WorkerSums, SumParts, s0
    <3>3. w \notin Added(s)
      BY <3>1, <3>2 DEF Added
    <3>4. Added(s)' = IF delta = 1 THEN Added(s) \cup {w} ELSE Added(s)
      <4>1. \A v \in Workers \ {w} : v \in Added(s)' <=> v \in Added(s)
        BY <1>1, <1>4, <1>6, <3>1 DEF Added
      <4>2. w \in Added(s)' <=> delta = 1
        BY <1>1, <1>3, <1>4, <1>6, <2>3, <3>1, <3>2 DEF Added, s0
      <4>3. Added(s)' \subseteq Workers /\ Added(s) \subseteq Workers
        BY DEF Added
      <4>4. QED
        BY <3>3, <4>1, <4>2, <4>3
    <3>5. IsFiniteSet(Added(s)) /\ Cardinality(Added(s)) \in Nat
      <4>1. Added(s) \subseteq Workers
        BY DEF Added
      <4>2. QED
        BY <4>1, WorkersAssumption, FS_Subset, FS_CardinalityType
    <3>6. Cardinality(Added(s)') = Cardinality(Added(s)) + delta
      <4>1. CASE delta = 1
        <5>1. Cardinality(Added(s) \cup {w}) = Cardinality(Added(s)) + 1
          BY <3>3, <3>5, FS_AddElement
        <5>2. QED
          BY <3>4, <4>1, <5>1
      <4>2. CASE delta = 0
        BY <3>4, <3>5, <4>2
      <4>3. QED
        BY <4>1, <4>2
    <3>7. QED
      BY <2>2, <3>1, <3>5, <3>6
  <2>4. CASE s # s0
    <3>1. s > s0 /\ s - 1 \in Supersteps /\ s - 1 >= s0 /\ s # 0
      BY <1>4, <1>5, <2>1, <2>4
    <3>2. Base(s)' = Base(s) + delta
      BY <1>4, <3>1 DEF Base
    <3>3. Added(s)' = {} /\ Added(s) = {}
      <4>1. \A v \in Workers : wstep[v] # s
        BY <1>3, <1>4, <1>6, <2>1, <3>1
      <4>2. QED
        BY <1>1, <4>1 DEF Added
    <3>4. Base(s) \in Int /\ Cardinality({}) = 0
      BY SumTypes, FS_EmptySet
    <3>5. QED
      BY <2>2, <3>2, <3>3, <3>4
  <2>5. QED
    BY <2>3, <2>4
<1>11. MasterSums'
  <2> SUFFICES ASSUME mpc # "done", mstep \in Supersteps
               PROVE  /\ round = 3 * mstep \/ (round = 3 * mstep + 1 /\ mpc = "wait") => mvalue = Base(mstep)'
                      /\ round > 3 * mstep + 1 \/ (round = 3 * mstep + 1 /\ mpc = "notify") => mvalue = tally'[mstep]
                      /\ round = 3 * mstep + 1 /\ mpc = "wait" => gathered = Cardinality(inround \cap Added(mstep)')
    BY <1>1 DEF MasterSums
  <2>1. mstep = s0 /\ (round = 3 * mstep \/ (round = 3 * mstep + 1 /\ mpc = "wait"))
    BY <1>3
  <2>2. Base(mstep)' = Base(mstep) /\ mvalue = Base(mstep)
    <3>1. mstep # 0 => tally'[mstep - 1] = tally[mstep - 1]
      BY <1>4, <1>7, <2>1
    <3>2. Base(mstep)' = Base(mstep)
      BY <1>1, <3>1 DEF Base
    <3>3. QED
      BY <2>1, <3>2 DEF MasterSums, SumParts
  <2>3. inround \cap Added(mstep)' = inround \cap Added(mstep)
    <3>1. \A v \in inround : v \in Workers \ {w}
      BY <1>3, RoundTypes
    <3>2. \A v \in Workers \ {w} : v \in Added(mstep)' <=> v \in Added(mstep)
      BY <1>1, <1>4, <1>6, <2>2 DEF Added
    <3>3. QED
      BY <3>1, <3>2
  <2>4. ~(round > 3 * mstep + 1) /\ ~(round = 3 * mstep + 1 /\ mpc = "notify")
    BY <2>1, RoundTypes
  <2>5. QED
    BY <2>2, <2>3, <2>4 DEF MasterSums, SumParts
<1>12. QED
  BY <1>9, <1>10, <1>11 DEF SumParts

LEMMA SumStep ==
  ASSUME TypeOK, SumInv, [Next]_vars
  PROVE  SumInv'
<1>1. AgreeInv' /\ JoinBooks'
  BY AgreeStep, JoinStep DEF SumInv
<1>2. SumParts /\ MasterPlace' /\ AgreeInv /\ JoinBooks /\ PlaceBooks
  BY <1>1 DEF SumInv, SumParts, AgreeInv
<1>3. SumParts'
  BY <1>2, StepKinds, SumSteady, SumArrived, SumNotified, SumJoins, SumReplied, SumEnters, SumLeaves, SumEnds
<1>4. QED
  BY <1>1, <1>3 DEF SumInv, SumParts

LEMMA SumStarts == Init => SumInv
<1>1. Init => AgreeInv
  BY BooksInit, LockInit, AgreeInit DEF AgreeInv, AgreeParts, LockInv
<1>2. QED
  BY <1>1, JoinInit, SumInit DEF SumInv, SumParts

\* SumInv is an invariant: together with the types it is inductive.
THEOREM SumInvariant == Spec => []SumInv
<1>1. Init => SumInv
  BY SumStarts
<1>2. TypeOK /\ SumInv /\ [Next]_vars => SumInv'
  BY SumStep
<1>3. QED
  BY <1>1, <1>2, TypeCorrect, PTL DEF Spec

\* After the POST barrier of a superstep every worker holds the sum of what all
\* workers aggregated up to it (setAggregatorValues of the executor factories).
THEOREM SumsAgree == Spec => []AggregatorsAgree
<1>1. SumInv => AggregatorsAgree
  <2> SUFFICES ASSUME SumInv, NEW w \in Workers, AtBarrier(w), wphase[w] = "KEEP", wstep[w] \in Supersteps
               PROVE  value[w] = tally[wstep[w]]
    BY DEF AggregatorsAgree
  <2>1. Into(w) = 2
    BY DEF SumInv, AgreeInv, PlaceBooks, Stage
  <2>2. QED
    BY <2>1 DEF SumInv, WorkerSums
<1>2. QED
  BY <1>1, SumInvariant, PTL
=============================================================================
