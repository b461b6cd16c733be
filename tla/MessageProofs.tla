---------------------------- MODULE MessageProofs ----------------------------
(***************************************************************************)
(* What becomes of the messages of the vertices, for any number of         *)
(* workers, any failures and any bounds: they arrive in the superstep that *)
(* they were sent in, and none is missing when the next one is computed.   *)
(***************************************************************************)
EXTENDS RelayInvariants, DistributedJobProofs, FunctionTheorems

-----------------------------------------------------------------------------
(***************************************************************************)
(* RelayedInStep.                                                          *)
(***************************************************************************)

(***************************************************************************)
(* How relayed messages move along the streams.                            *)
(***************************************************************************)

\* Every relayed message of p was in q, and no step got before it since.
Older(q, p) ==
  \A i \in 1 .. Len(p) : p[i].type = "relay" =>
    \E j \in 1 .. Len(q) : q[j] = p[i] /\ (Ahead(q, j) => Ahead(p, i))

\* Taking, cutting and appending leave relayed messages in their order, before
\* the steps that follow them.
LEMMA OlderQueues ==
  ASSUME NEW S, NEW q \in Seq(S)
  PROVE  /\ Older(q, q)
         /\ q # <<>> => Older(q, Tail(q))
         /\ \A n \in 0 .. Len(q) : Older(q, SubSeq(q, 1, n))
         /\ \A m \in S : \A i \in 1 .. Len(Append(q, m)) : Append(q, m)[i].type = "relay" =>
              \/ \E j \in 1 .. Len(q) : q[j] = Append(q, m)[i] /\ (Ahead(q, j) => Ahead(Append(q, m), i))
              \/ Append(q, m)[i] = m /\ (NoStep(q) => Ahead(Append(q, m), i))
<1>0. Len(q) \in Nat
  BY LenProperties
<1>1. Older(q, q)
  BY DEF Older
<1>2. ASSUME q # <<>>
      PROVE  Older(q, Tail(q))
  <2> DEFINE t == Tail(q)
  <2>1. Len(t) = Len(q) - 1 /\ \A i \in 1 .. Len(t) : t[i] = q[i + 1]
    BY <1>2, HeadTailProperties, EmptySeq, LenProperties
  <2> HIDE DEF t
  <2> SUFFICES ASSUME NEW i \in 1 .. Len(t), t[i].type = "relay"
               PROVE  \E j \in 1 .. Len(q) : q[j] = t[i] /\ (Ahead(q, j) => Ahead(t, i))
    BY DEF Older, t
  <2>2. i + 1 \in 1 .. Len(q) /\ q[i + 1] = t[i]
    BY <1>0, <2>1
  <2>3. \A k \in 1 .. i : k + 1 \in 1 .. i + 1 /\ t[k] = q[k + 1]
    BY <1>0, <2>1
  <2>4. Ahead(q, i + 1) => Ahead(t, i)
    BY <2>3 DEF Ahead
  <2>5. QED
    BY <2>2, <2>4
<1>3. ASSUME NEW n \in 0 .. Len(q)
      PROVE  Older(q, SubSeq(q, 1, n))
  <2> DEFINE s == SubSeq(q, 1, n)
  <2>1. Len(q) \in Nat /\ n \in Int /\ \A k \in 1 .. n : q[k] \in S
    BY LenProperties, ElementOfSeq
  <2>2. Len(s) = n /\ \A k \in 1 .. n : s[k] = q[k]
    BY <2>1, SubSeqProperties
  <2> HIDE DEF s
  <2> SUFFICES ASSUME NEW i \in 1 .. Len(s), s[i].type = "relay"
               PROVE  \E j \in 1 .. Len(q) : q[j] = s[i] /\ (Ahead(q, j) => Ahead(s, i))
    BY DEF Older, s
  <2>3. i \in 1 .. Len(q) /\ q[i] = s[i] /\ \A k \in 1 .. i : s[k] = q[k]
    BY <2>1, <2>2
  <2>4. QED
    BY <2>3 DEF Ahead
<1>4. ASSUME NEW m \in S, NEW i \in 1 .. Len(Append(q, m)), Append(q, m)[i].type = "relay"
      PROVE  \/ \E j \in 1 .. Len(q) : q[j] = Append(q, m)[i] /\ (Ahead(q, j) => Ahead(Append(q, m), i))
             \/ Append(q, m)[i] = m /\ (NoStep(q) => Ahead(Append(q, m), i))
  <2> DEFINE a == Append(q, m)
  <2>1. Len(a) = Len(q) + 1 /\ (\A k \in 1 .. Len(q) : a[k] = q[k]) /\ a[Len(q) + 1] = m
    BY AppendProperties
  <2>2. i \in 1 .. Len(a) /\ a[i].type = "relay"
    BY <1>4
  <2> HIDE DEF a
  <2>3. CASE i \in 1 .. Len(q)
    <3>1. \A k \in 1 .. i : a[k] = q[k]
      BY <1>0, <2>1, <2>3
    <3>2. q[i] = a[i] /\ (Ahead(q, i) => Ahead(a, i))
      BY <2>1, <2>3, <3>1 DEF Ahead
    <3>3. QED
      BY <2>3, <3>2 DEF a
  <2>4. CASE i = Len(q) + 1
    <3>1. a[i] = m
      BY <2>1, <2>4
    <3>2. \A k \in 1 .. i : k = i \/ (k \in 1 .. Len(q) /\ a[k] = q[k])
      BY <1>0, <2>1, <2>4
    <3>3. NoStep(q) => Ahead(a, i)
      BY <2>2, <3>2 DEF NoStep, Ahead
    <3>4. QED
      BY <3>1, <3>3 DEF a
  <2>5. QED
    BY <1>0, <2>1, <2>2, <2>3, <2>4
<1>5. QED
  BY <1>1, <1>2, <1>3, <1>4

LEMMA RelayTypes ==
  ASSUME TypeOK
  PROVE  /\ \A m \in MasterPayload : m.type = "relay" => m \in RelayMsg
         /\ \A m \in RelayMsg : m.dst \in Workers /\ m.sent \in Nat /\ m.known \in BOOLEAN /\ m.type = "relay"
         /\ \A v \in Workers : Len(toMaster[v]) \in Nat /\ Len(toWorker[v]) \in Nat
         /\ \A v \in Workers : \A i \in 1 .. Len(toMaster[v]) : toMaster[v][i] \in WorkerPayload
         /\ \A v \in Workers : \A i \in 1 .. Len(toWorker[v]) : toWorker[v][i] \in MasterPayload
         /\ WorkerPayload \subseteq MasterPayload
<1>1. \A v \in Workers : toMaster[v] \in Seq(WorkerPayload) /\ toWorker[v] \in Seq(MasterPayload)
  BY DEF TypeOK, StreamTypeOK
<1>2. \A v \in Workers : Len(toMaster[v]) \in Nat /\ Len(toWorker[v]) \in Nat
  BY <1>1, LenProperties
<1>3. \A v \in Workers : \A i \in 1 .. Len(toMaster[v]) : toMaster[v][i] \in WorkerPayload
  BY <1>1, ElementOfSeq
<1>4. \A v \in Workers : \A i \in 1 .. Len(toWorker[v]) : toWorker[v][i] \in MasterPayload
  BY <1>1, ElementOfSeq
<1>5. \A m \in MasterPayload : m.type = "relay" => m \in RelayMsg
  BY DEF MasterPayload, WorkerPayload, StepMsg, RelayMsg, JobDetailsMsg
<1>6. \A m \in RelayMsg : m.dst \in Workers /\ m.sent \in Nat /\ m.known \in BOOLEAN /\ m.type = "relay"
  BY DEF RelayMsg
<1>7. QED
  BY <1>2, <1>3, <1>4, <1>5, <1>6 DEF MasterPayload

\* The first payload of a stream.
LEMMA HeadIsFirst ==
  ASSUME TypeOK, NEW w \in Workers
  PROVE  /\ toMaster[w] # <<>> => 1 \in 1 .. Len(toMaster[w]) /\ Head(toMaster[w]) = toMaster[w][1]
         /\ toWorker[w] # <<>> => 1 \in 1 .. Len(toWorker[w]) /\ Head(toWorker[w]) = toWorker[w][1]
<1>1. toMaster[w] \in Seq(WorkerPayload) /\ toWorker[w] \in Seq(MasterPayload)
  BY DEF TypeOK, StreamTypeOK
<1>2. toMaster[w] # <<>> => 1 \in 1 .. Len(toMaster[w]) /\ Head(toMaster[w]) = toMaster[w][1]
  BY <1>1, HeadTailProperties, EmptySeq, LenProperties
<1>3. toWorker[w] # <<>> => 1 \in 1 .. Len(toWorker[w]) /\ Head(toWorker[w]) = toWorker[w][1]
  BY <1>1, HeadTailProperties, EmptySeq, LenProperties
<1>4. QED
  BY <1>2, <1>3

LEMMA RelayIsPayload ==
  ASSUME TypeOK, NEW w \in Workers, NEW d \in Workers, NEW known \in BOOLEAN
  PROVE  [type |-> "relay", dst |-> d, known |-> known, sent |-> wstep[w]] \in WorkerPayload
  BY DEF TypeOK, WorkerTypeOK, WorkerPayload, RelayMsg

\* A relayed message on its way to the master is new when a vertex wrote it, or
\* when the receiver bounces it.
NewUp(v, m, i) ==
  \/ \E d \in Workers, known \in BOOLEAN :
       /\ WorkerRelays(v, d, known)
       /\ m = [type |-> "relay", dst |-> d, known |-> known, sent |-> wstep[v]]
       /\ NoStep(toMaster[v]) => Ahead(toMaster'[v], i)
  \/ ReceiverBounces(v) /\ m = rmsg[v] /\ (NoStep(toMaster[v]) => Ahead(toMaster'[v], i))

\* A relayed message on its way to the master was there before, or is new.
LEMMA UpMoves ==
  ASSUME TypeOK, [Next]_vars, NEW v \in Workers, NEW i \in 1 .. Len(toMaster'[v]),
         toMaster'[v][i].type = "relay"
  PROVE  \/ \E j \in 1 .. Len(toMaster[v]) :
              toMaster[v][j] = toMaster'[v][i] /\ (Ahead(toMaster[v], j) => Ahead(toMaster'[v], i))
         \/ NewUp(v, toMaster'[v][i], i)
<1> DEFINE Q == toMaster[v]
           P == toMaster'[v]
<1>0. Q \in Seq(WorkerPayload)
  BY DEF TypeOK, StreamTypeOK
<1>1. CASE Older(Q, P)
  BY <1>1 DEF Older
<1>2. CASE UNCHANGED toMaster
  BY <1>0, <1>1, <1>2, OlderQueues
<1>3. ASSUME NEW w \in Workers, NEW a \in 0 .. Len(toMaster[w]), NEW b \in 0 .. Len(toWorker[w]), Cut(w, a, b)
      PROVE  Older(Q, P)
  BY <1>0, <1>3, OlderQueues DEF Cut, TypeOK, StreamTypeOK
<1>4. ASSUME NEW w \in Workers, NEW m \in WorkerPayload, SendToMaster(w, m)
      PROVE  \/ Older(Q, P)
             \/ w = v /\ P[i] = m /\ (NoStep(Q) => Ahead(P, i))
             \/ \E j \in 1 .. Len(Q) : Q[j] = P[i] /\ (Ahead(Q, j) => Ahead(P, i))
  <2>1. P = Q \/ (w = v /\ P = Append(Q, m))
    BY <1>4 DEF SendToMaster, TypeOK, StreamTypeOK
  <2>2. CASE P = Q
    BY <1>0, <2>2, OlderQueues
  <2>3. CASE w = v /\ P = Append(Q, m)
    BY <1>0, <2>3, OlderQueues
  <2>4. QED
    BY <2>1, <2>2, <2>3
<1>5. ASSUME NEW w \in Workers, toMaster' = [toMaster EXCEPT ![w] = Tail(@)], toMaster[w] # <<>>
      PROVE  Older(Q, P)
  BY <1>0, <1>5, OlderQueues DEF TypeOK, StreamTypeOK
<1> HIDE DEF Q, P
<1>6. CASE MasterStep
  <2>1. ASSUME NEW w \in Workers, MasterClosesStream(w)
        PROVE  Older(Q, P)
    <3>1. PICK b \in 0 .. Len(toWorker[w]) : Cut(w, 0, b)
      BY <2>1, QueueLengths DEF TypeOK, MasterClosesStream
    <3>2. 0 \in 0 .. Len(toMaster[w])
      BY RelayTypes
    <3>3. QED
      BY <1>3, <3>1, <3>2
  <2>2. CASE ~\E w \in Workers : MasterClosesStream(w)
    <3>1. UNCHANGED toMaster
      BY <1>6, <2>2 DEF MasterStep, MasterStartsJob, MasterStartFails, PublishJobDetails, MasterBeginsSuperstep,
         AllWorkersArrived, AllWorkersNotified, MasterCompletesJob, MasterCompleteFails, MasterAborts,
         MasterContextExpires, MasterSeesDisconnect, MasterOnly, streamVars
    <3>2. QED
      BY <1>2, <3>1
  <2>3. QED
    BY <1>1, <2>1, <2>2 DEF Q, P
<1>7. ASSUME NEW w \in Workers, HandlerStep(w)
      PROVE  Older(Q, P) \/ UNCHANGED toMaster
  BY <1>5, <1>7 DEF HandlerStep, HandlerTakesStep, HandlerTakesRelay, HandlerJoins, HandlerNotified, HandlerSends,
     HandlerDrops, HandlerExits
<1>8. ASSUME NEW w \in Workers, WorkerStep(w)
      PROVE  \/ \E j \in 1 .. Len(Q) : Q[j] = P[i] /\ (Ahead(Q, j) => Ahead(P, i))
             \/ NewUp(v, P[i], i)
  <2>1. ASSUME NEW d \in Workers, NEW known \in BOOLEAN, WorkerRelays(w, d, known)
        PROVE  \/ \E j \in 1 .. Len(Q) : Q[j] = P[i] /\ (Ahead(Q, j) => Ahead(P, i))
               \/ NewUp(v, P[i], i)
    <3> DEFINE m == [type |-> "relay", dst |-> d, known |-> known, sent |-> wstep[w]]
    <3>1. m \in WorkerPayload /\ SendToMaster(w, m)
      BY <2>1, RelayIsPayload DEF WorkerRelays
    <3>2. \/ Older(Q, P)
          \/ w = v /\ P[i] = m /\ (NoStep(Q) => Ahead(P, i))
          \/ \E j \in 1 .. Len(Q) : Q[j] = P[i] /\ (Ahead(Q, j) => Ahead(P, i))
      BY <1>4, <3>1
    <3>3. QED
      BY <1>1, <2>1, <3>2 DEF NewUp, Q, P
  <2>2. CASE WorkerEnters(w)
    <3>1. Step(wphase[w], StepValue(w)) \in WorkerPayload /\ Step(wphase[w], StepValue(w)).type # "relay"
      <4>1. wphase[w] \in Phases /\ StepValue(w) \in Int
        BY DEF TypeOK, WorkerTypeOK, StepValue
      <4>2. QED
        BY <4>1, StepType DEF WorkerPayload, Step
    <3>2. SendToMaster(w, Step(wphase[w], StepValue(w)))
      BY <2>2 DEF WorkerEnters
    <3>3. P[i].type = "relay"
      BY DEF P
    <3>4. QED
      BY <1>1, <1>4, <3>1, <3>2, <3>3 DEF Q, P
  <2>3. CASE WorkerContextExpires(w) \/ WorkerClosesStream(w)
    <3>1. PICK a \in 0 .. Len(toMaster[w]) : Cut(w, a, 0)
      BY <2>3, QueueLengths DEF TypeOK, WorkerContextExpires, WorkerClosesStream
    <3>2. 0 \in 0 .. Len(toWorker[w])
      BY RelayTypes
    <3>3. QED
      BY <1>1, <1>3, <3>1, <3>2 DEF Q, P
  <2>4. CASE ~(\/ \E d \in Workers, known \in BOOLEAN : WorkerRelays(w, d, known)
               \/ WorkerEnters(w) \/ WorkerContextExpires(w) \/ WorkerClosesStream(w))
    <3>1. UNCHANGED toMaster
      BY <1>8, <2>4 DEF WorkerStep, WorkerTakesJob, WorkerGetsNoJob, WorkerStartsJob, WorkerStartFails,
         WorkerBeginsSuperstep, WorkerEndsStep, WorkerStepFails,
         WorkerLeavesPre, WorkerLeavesPost, WorkerLeavesKeep, WorkerLeavesExecuted, WorkerLeavesPersisted,
         Leaves, WorkerCompletesJob, WorkerCompleteFails, WorkerAborts, streamVars
    <3>2. QED
      BY <1>2, <3>1 DEF Q, P
  <2>5. QED
    BY <2>1, <2>2, <2>3, <2>4
<1>9. ASSUME NEW w \in Workers, ReceiverStep(w) \/ LinkBreaks(w)
      PROVE  \/ \E j \in 1 .. Len(Q) : Q[j] = P[i] /\ (Ahead(Q, j) => Ahead(P, i))
             \/ NewUp(v, P[i], i)
  <2>1. CASE ReceiverBounces(w)
    <3>1. rmsg[w] \in WorkerPayload /\ SendToMaster(w, rmsg[w])
      BY <2>1 DEF ReceiverBounces, TypeOK, ReceiverTypeOK, WorkerPayload
    <3>2. \/ Older(Q, P)
          \/ w = v /\ P[i] = rmsg[w] /\ (NoStep(Q) => Ahead(P, i))
          \/ \E j \in 1 .. Len(Q) : Q[j] = P[i] /\ (Ahead(Q, j) => Ahead(P, i))
      BY <1>4, <3>1
    <3>3. QED
      BY <1>1, <2>1, <3>2 DEF NewUp, Q, P
  <2>2. CASE LinkBreaks(w)
    BY <1>1, <1>3, <2>2 DEF LinkBreaks, Q, P
  <2>3. CASE ~ReceiverBounces(w) /\ ~LinkBreaks(w)
    <3>1. UNCHANGED toMaster
      BY <1>9, <2>3 DEF ReceiverStep, ReceiverTakesStep, ReceiverTakesRelay, ReceiverExits, WorkerSeesDisconnect
    <3>2. QED
      BY <1>2, <3>1 DEF Q, P
  <2>4. QED
    BY <2>1, <2>2, <2>3
<1>10. CASE UNCHANGED vars
  BY <1>2, <1>10 DEF vars, streamVars
<1>11. QED
  BY <1>1, <1>2, <1>6, <1>7, <1>8, <1>9, <1>10 DEF Next, Stutter, Q, P

\* One on its way to a worker is new when a handler relays it.
NewDown(w, m, i) ==
  \E u \in Workers :
    /\ HandlerSends(u) /\ hpc[u] = "relay" /\ m = hmsg[u] /\ m.dst = w
    /\ NoStep(toWorker[w]) => Ahead(toWorker'[w], i)

\* A relayed message on its way to a worker was there before, or a handler
\* sent it.
LEMMA DownMoves ==
  ASSUME TypeOK, [Next]_vars, NEW w \in Workers, NEW i \in 1 .. Len(toWorker'[w]),
         toWorker'[w][i].type = "relay"
  PROVE  \/ \E j \in 1 .. Len(toWorker[w]) :
              toWorker[w][j] = toWorker'[w][i] /\ (Ahead(toWorker[w], j) => Ahead(toWorker'[w], i))
         \/ NewDown(w, toWorker'[w][i], i)
<1> DEFINE Q == toWorker[w]
           P == toWorker'[w]
<1>0. Q \in Seq(MasterPayload)
  BY DEF TypeOK, StreamTypeOK
<1>1. CASE Older(Q, P)
  BY <1>1 DEF Older
<1>2. CASE UNCHANGED toWorker
  BY <1>0, <1>1, <1>2, OlderQueues
<1>3. ASSUME NEW v \in Workers, NEW a \in 0 .. Len(toMaster[v]), NEW b \in 0 .. Len(toWorker[v]), Cut(v, a, b)
      PROVE  Older(Q, P)
  BY <1>0, <1>3, OlderQueues DEF Cut, TypeOK, StreamTypeOK
<1>4. ASSUME NEW v \in Workers, NEW m \in MasterPayload, SendToWorker(v, m)
      PROVE  \/ Older(Q, P)
             \/ v = w /\ P[i] = m /\ (NoStep(Q) => Ahead(P, i))
             \/ \E j \in 1 .. Len(Q) : Q[j] = P[i] /\ (Ahead(Q, j) => Ahead(P, i))
  <2>1. P = Q \/ (v = w /\ P = Append(Q, m))
    BY <1>4 DEF SendToWorker, TypeOK, StreamTypeOK
  <2>2. CASE P = Q
    BY <1>0, <2>2, OlderQueues
  <2>3. CASE v = w /\ P = Append(Q, m)
    BY <1>0, <2>3, OlderQueues
  <2>4. QED
    BY <2>1, <2>2, <2>3
<1>5. ASSUME NEW v \in Workers, toWorker' = [toWorker EXCEPT ![v] = Tail(@)], toWorker[v] # <<>>
      PROVE  Older(Q, P)
  BY <1>0, <1>5, OlderQueues DEF TypeOK, StreamTypeOK
<1> HIDE DEF Q, P
<1>6. P[i].type = "relay"
  BY DEF P
<1>7. CASE MasterStep
  <2>1. ASSUME NEW v \in Workers, MasterClosesStream(v)
        PROVE  Older(Q, P)
    <3>1. PICK b \in 0 .. Len(toWorker[v]) : Cut(v, 0, b)
      BY <2>1, QueueLengths DEF TypeOK, MasterClosesStream
    <3>2. 0 \in 0 .. Len(toMaster[v])
      BY RelayTypes
    <3>3. QED
      BY <1>3, <3>1, <3>2
  <2>2. ASSUME NEW v \in Workers, PublishJobDetails(v)
        PROVE  \/ Older(Q, P)
               \/ \E j \in 1 .. Len(Q) : Q[j] = P[i] /\ (Ahead(Q, j) => Ahead(P, i))
    <3>1. [type |-> "details"] \in MasterPayload /\ [type |-> "details"].type # "relay"
      BY DEF MasterPayload, JobDetailsMsg
    <3>2. CASE UNCHANGED toWorker
      BY <1>0, <3>2, OlderQueues DEF Q, P
    <3>3. CASE SendToWorker(v, [type |-> "details"])
      BY <1>4, <1>6, <3>1, <3>3
    <3>4. QED
      BY <2>2, <3>2, <3>3 DEF PublishJobDetails
  <2>3. CASE ~\E v \in Workers : MasterClosesStream(v) \/ PublishJobDetails(v)
    <3>1. UNCHANGED toWorker
      BY <1>7, <2>3 DEF MasterStep, MasterStartsJob, MasterStartFails, MasterBeginsSuperstep,
         AllWorkersArrived, AllWorkersNotified, MasterCompletesJob, MasterCompleteFails, MasterAborts,
         MasterContextExpires, MasterSeesDisconnect, MasterOnly, streamVars
    <3>2. QED
      BY <1>2, <3>1 DEF Q, P
  <2>4. QED
    BY <1>1, <2>1, <2>2, <2>3 DEF Q, P
<1>8. ASSUME NEW v \in Workers, HandlerStep(v)
      PROVE  \/ \E j \in 1 .. Len(Q) : Q[j] = P[i] /\ (Ahead(Q, j) => Ahead(P, i))
             \/ NewDown(w, P[i], i)
  <2>1. CASE HandlerSends(v) /\ hpc[v] = "reply"
    <3>1. hmsg[v] \in MasterPayload /\ hmsg[v].type # "relay" /\ SendToWorker(v, hmsg[v])
      BY <2>1 DEF HandlerSends, TypeOK, HandlerTypeOK, MasterPayload, WorkerPayload, StepMsg
    <3>2. QED
      BY <1>1, <1>4, <1>6, <3>1 DEF Q, P
  <2>2. CASE HandlerSends(v) /\ hpc[v] = "relay"
    <3>1. /\ hmsg[v] \in MasterPayload /\ hmsg[v].dst \in Workers
          /\ SendToWorker(hmsg[v].dst, hmsg[v])
      BY <2>2 DEF HandlerSends, TypeOK, HandlerTypeOK, MasterPayload, WorkerPayload, RelayMsg
    <3>2. \/ Older(Q, P)
          \/ hmsg[v].dst = w /\ P[i] = hmsg[v] /\ (NoStep(Q) => Ahead(P, i))
          \/ \E j \in 1 .. Len(Q) : Q[j] = P[i] /\ (Ahead(Q, j) => Ahead(P, i))
      BY <1>4, <3>1
    <3>3. QED
      BY <1>1, <2>2, <3>2 DEF NewDown, Q, P
  <2>3. CASE ~HandlerSends(v)
    <3>1. UNCHANGED toWorker
      BY <1>8, <2>3 DEF HandlerStep, HandlerTakesStep, HandlerTakesRelay, HandlerJoins, HandlerNotified,
         HandlerDrops, HandlerExits
    <3>2. QED
      BY <1>2, <3>1 DEF Q, P
  <2>4. QED
    BY <2>1, <2>2, <2>3 DEF HandlerSends
<1>9. ASSUME NEW v \in Workers, WorkerStep(v)
      PROVE  Older(Q, P) \/ UNCHANGED toWorker
  <2>1. CASE WorkerTakesJob(v)
    BY <1>5, <2>1 DEF WorkerTakesJob
  <2>2. CASE WorkerContextExpires(v) \/ WorkerClosesStream(v)
    <3>1. PICK a \in 0 .. Len(toMaster[v]) : Cut(v, a, 0)
      BY <2>2, QueueLengths DEF TypeOK, WorkerContextExpires, WorkerClosesStream
    <3>2. 0 \in 0 .. Len(toWorker[v])
      BY RelayTypes
    <3>3. QED
      BY <1>3, <3>1, <3>2
  <2>3. CASE ~(WorkerTakesJob(v) \/ WorkerContextExpires(v) \/ WorkerClosesStream(v))
    BY <1>9, <2>3 DEF WorkerStep, WorkerGetsNoJob, WorkerStartsJob, WorkerStartFails,
       WorkerBeginsSuperstep, WorkerRelays, WorkerEndsStep, WorkerStepFails, WorkerEnters,
       WorkerLeavesPre, WorkerLeavesPost, WorkerLeavesKeep, WorkerLeavesExecuted, WorkerLeavesPersisted,
       Leaves, WorkerCompletesJob, WorkerCompleteFails, WorkerAborts, streamVars
  <2>4. QED
    BY <2>1, <2>2, <2>3
<1>10. ASSUME NEW v \in Workers, ReceiverStep(v) \/ LinkBreaks(v)
       PROVE  Older(Q, P) \/ UNCHANGED toWorker
  BY <1>3, <1>5, <1>10 DEF ReceiverStep, ReceiverTakesStep, ReceiverTakesRelay, ReceiverBounces, ReceiverExits,
     WorkerSeesDisconnect, LinkBreaks
<1>11. CASE UNCHANGED vars
  BY <1>2, <1>11 DEF vars, streamVars
<1>12. QED
  BY <1>1, <1>2, <1>7, <1>8, <1>9, <1>10, <1>11 DEF Next, Stutter, Q, P

\* How a handler and a receiver come to work on one.
LEMMA HandlerMoves ==
  ASSUME TypeOK, [Next]_vars, NEW v \in Workers
  PROVE  /\ hpc'[v] = "join" => hpc[v] = "join" \/ HandlerTakesStep(v)
         /\ hpc'[v] = "relay" =>
              \/ hpc[v] = "relay" /\ hmsg'[v] = hmsg[v]
              \/ /\ HandlerTakesRelay(v) /\ hmsg'[v] = toMaster[v][1]
                 /\ toMaster[v] # <<>> /\ hmsg'[v].type = "relay" /\ hmsg'[v].dst # v
         /\ HandlerTakesStep(v) => toMaster[v] # <<>> /\ toMaster[v][1].type = "step"
<1>0. /\ DOMAIN hpc = Workers /\ DOMAIN hmsg = Workers
      /\ toMaster[v] # <<>> => Head(toMaster[v]) = toMaster[v][1]
  BY HeadIsFirst DEF TypeOK, HandlerTypeOK
<1>1. HandlerTakesStep(v) => toMaster[v] # <<>> /\ toMaster[v][1].type = "step"
  BY <1>0 DEF HandlerTakesStep
<1>2. CASE UNCHANGED <<hpc, hmsg>>
  BY <1>1, <1>2
<1>3. ASSUME NEW u \in Workers, HandlerStep(u)
      PROVE  /\ hpc'[v] = "join" => hpc[v] = "join" \/ HandlerTakesStep(v)
             /\ hpc'[v] = "relay" =>
                  \/ hpc[v] = "relay" /\ hmsg'[v] = hmsg[v]
                  \/ /\ HandlerTakesRelay(v) /\ hmsg'[v] = toMaster[v][1]
                     /\ toMaster[v] # <<>> /\ hmsg'[v].type = "relay" /\ hmsg'[v].dst # v
  <2>1. CASE u = v
    <3>1. CASE HandlerTakesRelay(v)
      <4>1. CASE toMaster[v][1].dst = v
        BY <1>0, <3>1, <4>1 DEF HandlerTakesRelay, handlerVars
      <4>2. CASE toMaster[v][1].dst # v
        BY <1>0, <3>1, <4>2 DEF HandlerTakesRelay
      <4>3. QED
        BY <4>1, <4>2
    <3>2. CASE ~HandlerTakesRelay(v)
      BY <1>0, <1>3, <2>1, <3>2 DEF HandlerStep, HandlerTakesStep, HandlerJoins, HandlerNotified, HandlerSends,
         HandlerDrops, HandlerExits
    <3>3. QED
      BY <3>1, <3>2
  <2>2. CASE u # v
    <3>1. hpc'[v] = hpc[v] /\ hmsg'[v] = hmsg[v]
      BY <1>0, <1>3, <2>2 DEF HandlerStep, HandlerTakesStep, HandlerTakesRelay, HandlerJoins, HandlerNotified,
         HandlerSends, HandlerDrops, HandlerExits, handlerVars
    <3>2. QED
      BY <3>1
  <2>3. QED
    BY <2>1, <2>2
<1>4. CASE MasterStep
  <2>1. hmsg' = hmsg /\ (hpc'[v] = hpc[v] \/ hpc'[v] \in {"recv", "published"})
    BY <1>0, <1>4 DEF MasterStep, MasterStartsJob, MasterStartFails, PublishJobDetails, MasterBeginsSuperstep,
       AllWorkersArrived, AllWorkersNotified, MasterCompletesJob, MasterCompleteFails, MasterAborts,
       MasterContextExpires, MasterSeesDisconnect, MasterClosesStream, MasterOnly, handlerVars
  <2>2. QED
    BY <1>1, <2>1
<1>5. ASSUME NEW u \in Workers, WorkerStep(u)
      PROVE  UNCHANGED <<hpc, hmsg>>
  BY <1>5, WorkerSideKeepsBarrier DEF MasterSide, handlerVars
<1>6. ASSUME NEW u \in Workers, ReceiverStep(u) \/ LinkBreaks(u)
      PROVE  UNCHANGED <<hpc, hmsg>>
  BY <1>6, ReceiverMakesNone
<1>7. CASE UNCHANGED vars
  BY <1>2, <1>7 DEF vars, handlerVars
<1>8. QED
  BY <1>1, <1>2, <1>3, <1>4, <1>5, <1>6, <1>7 DEF Next, Stutter

\* A receiver gets what it works on from its stream.
LEMMA ReceiverMoves ==
  ASSUME TypeOK, [Next]_vars, NEW w \in Workers
  PROVE  /\ rpc'[w] = "notify" => rpc[w] = "notify" \/ ReceiverTakesStep(w)
         /\ rpc'[w] = "bounce" =>
              \/ rpc[w] = "bounce" /\ rmsg'[w] = rmsg[w]
              \/ /\ ReceiverTakesRelay(w) /\ rmsg'[w] = toWorker[w][1]
                 /\ toWorker[w] # <<>> /\ rmsg'[w].type = "relay" /\ ~rmsg'[w].known
         /\ ReceiverTakesStep(w) => toWorker[w] # <<>> /\ toWorker[w][1].type = "step"
<1>0. /\ DOMAIN rpc = Workers /\ DOMAIN rmsg = Workers
      /\ toWorker[w] # <<>> => Head(toWorker[w]) = toWorker[w][1]
  BY HeadIsFirst DEF TypeOK, ReceiverTypeOK
<1>1. ReceiverTakesStep(w) => toWorker[w] # <<>> /\ toWorker[w][1].type = "step"
  BY <1>0 DEF ReceiverTakesStep
<1>2. CASE UNCHANGED <<rpc, rmsg>>
  BY <1>1, <1>2
<1>3. ASSUME NEW u \in Workers, ReceiverStep(u)
      PROVE  /\ rpc'[w] = "notify" => rpc[w] = "notify" \/ ReceiverTakesStep(w)
             /\ rpc'[w] = "bounce" =>
                  \/ rpc[w] = "bounce" /\ rmsg'[w] = rmsg[w]
                  \/ /\ ReceiverTakesRelay(w) /\ rmsg'[w] = toWorker[w][1]
                     /\ toWorker[w] # <<>> /\ rmsg'[w].type = "relay" /\ ~rmsg'[w].known
  <2>1. CASE u = w
    <3>1. CASE ReceiverTakesRelay(w)
      <4>1. CASE toWorker[w][1].known
        BY <1>0, <3>1, <4>1 DEF ReceiverTakesRelay, receiverVars
      <4>2. CASE ~toWorker[w][1].known
        BY <1>0, <3>1, <4>2 DEF ReceiverTakesRelay
      <4>3. QED
        BY <4>1, <4>2
    <3>2. CASE ~ReceiverTakesRelay(w)
      BY <1>0, <1>3, <2>1, <3>2 DEF ReceiverStep, ReceiverTakesStep, ReceiverBounces, ReceiverExits,
         WorkerSeesDisconnect, receiverVars
    <3>3. QED
      BY <3>1, <3>2
  <2>2. CASE u # w
    <3>1. rpc'[w] = rpc[w] /\ rmsg'[w] = rmsg[w]
      BY <1>0, <1>3, <2>2 DEF ReceiverStep, ReceiverTakesStep, ReceiverTakesRelay, ReceiverBounces, ReceiverExits,
         WorkerSeesDisconnect, receiverVars
    <3>2. QED
      BY <3>1
  <2>3. QED
    BY <2>1, <2>2
<1>4. CASE MasterStep
  BY <1>2, <1>4 DEF MasterStep, MasterStartsJob, MasterStartFails, PublishJobDetails, MasterBeginsSuperstep,
     AllWorkersArrived, AllWorkersNotified, MasterCompletesJob, MasterCompleteFails, MasterAborts,
     MasterContextExpires, MasterSeesDisconnect, MasterClosesStream, MasterOnly, receiverVars
<1>5. ASSUME NEW u \in Workers, HandlerStep(u)
      PROVE  UNCHANGED <<rpc, rmsg>>
  BY <1>5, HandlerMakesReply
<1>6. ASSUME NEW u \in Workers, WorkerStep(u)
      PROVE  (rmsg'[w] = rmsg[w] /\ rpc'[w] = rpc[w]) \/ rpc'[w] = "recv"
  BY <1>0, <1>6 DEF WorkerStep, WorkerTakesJob, WorkerGetsNoJob, WorkerStartsJob, WorkerStartFails,
     WorkerBeginsSuperstep, WorkerRelays, WorkerEndsStep, WorkerStepFails, WorkerEnters,
     WorkerLeavesPre, WorkerLeavesPost, WorkerLeavesKeep, WorkerLeavesExecuted, WorkerLeavesPersisted, Leaves,
     WorkerCompletesJob, WorkerCompleteFails, WorkerAborts, WorkerContextExpires, WorkerClosesStream, receiverVars
<1>7. ASSUME NEW u \in Workers, LinkBreaks(u)
      PROVE  UNCHANGED <<rpc, rmsg>>
  BY <1>7 DEF LinkBreaks, receiverVars
<1>8. CASE UNCHANGED vars
  BY <1>2, <1>8 DEF vars, receiverVars
<1>9. QED
  BY <1>1, <1>2, <1>3, <1>4, <1>5, <1>6, <1>7, <1>8 DEF Next, Stutter

-----------------------------------------------------------------------------
(***************************************************************************)
(* What awaits a worker, and what a worker awaits.                         *)
(***************************************************************************)

\* What steps do to the rounds, and to where a worker is in them.
LEMMA RoundMoves ==
  ASSUME TypeOK, SumInv, [Next]_vars
  PROVE  /\ \A u \in Workers :
              \/ /\ passed'[u] = passed[u] /\ wstep'[u] = wstep[u]
                 /\ \A m \in Replies(u)' : m \in Replies(u) \/ HandlerNotified(u)
              \/ /\ LeavesAny(u) /\ passed'[u] = passed[u] + 1
                 /\ wstep'[u] = After(Into(u), wstep[u], rmsg[u].val)
                 /\ Replies(u) # {} /\ Replies(u)' = {}
         /\ \A u \in Workers : arrived'[u] = arrived[u] \/ (WorkerEnters(u) /\ arrived'[u] = arrived[u] + 1)
         /\ \A u \in Workers : u \in inround' => u \in inround \/ HandlerJoins(u)
         /\ mpc' # "done" =>
              \/ round' = round /\ mpc # "done" /\ (mpc' = "notify" => mpc = "notify" \/ AllWorkersArrived)
              \/ round' = round + 1 /\ mpc = "notify" /\ mpc' # "notify"
<1>0. AgreeInv /\ LockInv /\ PlaceBooks /\ DOMAIN passed = Workers /\ DOMAIN wstep = Workers /\ DOMAIN arrived = Workers
  BY DEF SumInv, AgreeInv, TypeOK, HistoryTypeOK, WorkerTypeOK
<1>1. CASE Steady
  BY <1>1 DEF Steady, NoNewReply
<1>2. CASE AllWorkersArrived
  <2>1. NoNewReply /\ UNCHANGED <<wstep, arrived, passed, inround>>
    BY <1>2, MasterMakesNone DEF MasterStep
  <2>2. round' = round /\ mpc # "done"
    BY <1>2 DEF AllWorkersArrived, MasterOnly, roundVars
  <2>3. QED
    BY <1>2, <2>1, <2>2 DEF NoNewReply
<1>3. CASE AllWorkersNotified
  <2>1. NoNewReply /\ UNCHANGED <<wstep, arrived, passed, inround>>
    BY <1>3, MasterMakesNone DEF MasterStep
  <2>2. round' = round + 1 /\ mpc = "notify" /\ mpc' # "notify"
    BY <1>3 DEF AllWorkersNotified, EnterBarrier
  <2>3. QED
    BY <2>1, <2>2 DEF NoNewReply
<1>4. ASSUME NEW w \in Workers, HandlerJoins(w) \/ HandlerNotified(w)
      PROVE  /\ \A u \in Workers : passed'[u] = passed[u] /\ wstep'[u] = wstep[u] /\ arrived'[u] = arrived[u]
             /\ \A u \in Workers : \A m \in Replies(u)' : m \in Replies(u) \/ HandlerNotified(u)
             /\ \A u \in Workers : u \in inround' => u \in inround \/ HandlerJoins(u)
             /\ round' = round /\ mpc # "done" /\ mpc' = mpc
  <2>1. /\ \A u \in Workers : \A m \in Replies(u)' : m \in Replies(u) \/ (u = w /\ HandlerNotified(w))
        /\ UNCHANGED <<wstep, arrived, passed, mpc, round>>
    BY <1>4, HandlerMakesReply DEF HandlerStep
  <2>2. mpc # "done" /\ \A u \in Workers : u \in inround' => u \in inround \/ HandlerJoins(u)
    BY <1>4 DEF HandlerJoins, HandlerNotified
  <2>3. QED
    BY <2>1, <2>2
<1>5. ASSUME NEW w \in Workers, WorkerEnters(w)
      PROVE  /\ \A u \in Workers : passed'[u] = passed[u] /\ wstep'[u] = wstep[u]
             /\ NoNewReply
             /\ \A u \in Workers : arrived'[u] = arrived[u] \/ (WorkerEnters(u) /\ arrived'[u] = arrived[u] + 1)
             /\ UNCHANGED <<inround, round, mpc>>
  <2>1. NoNewReply
    BY <1>5, WorkerMakesAsk DEF WorkerStep
  <2>2. UNCHANGED <<inround, round, mpc>>
    BY <1>5 DEF WorkerEnters, MasterSide, masterVars
  <2>3. UNCHANGED <<passed, wstep>> /\ arrived' = [arrived EXCEPT ![w] = @ + 1]
    BY <1>5 DEF WorkerEnters
  <2>4. QED
    BY <1>0, <1>5, <2>1, <2>2, <2>3
<1>6. ASSUME NEW w \in Workers, LeavesAny(w)
      PROVE  /\ \A u \in Workers : u # w =>
                  passed'[u] = passed[u] /\ wstep'[u] = wstep[u] /\ Replies(u)' = Replies(u)
             /\ passed'[w] = passed[w] + 1 /\ wstep'[w] = After(Into(w), wstep[w], rmsg[w].val)
             /\ Replies(w) # {} /\ Replies(w)' = {}
             /\ UNCHANGED <<inround, round, mpc, arrived>>
  <2>1. /\ Replies(w) = {rmsg[w]} /\ Replies(w)' = {}
        /\ \A v \in Workers \ {w} : Replies(v)' = Replies(v)
        /\ passed' = [passed EXCEPT ![w] = @ + 1]
        /\ wstep' = [wstep EXCEPT ![w] = After(Into(w), @, rmsg[w].val)]
        /\ UNCHANGED <<mpc, inround, round, arrived>>
    BY <1>0, <1>6, LeavesForNext
  <2>2. QED
    BY <1>0, <2>1
<1>7. ASSUME NEW w \in Workers, NEW act \in {0, 1}, NEW delta \in {0, 1}, WorkerEndsStep(w, act, delta)
      PROVE  NoNewReply /\ UNCHANGED <<mpc, round, inround, arrived, passed, wstep>>
  BY <1>7, EndsFrame
<1>8. QED
  <2>1. CASE \E w \in Workers : HandlerJoins(w) \/ HandlerNotified(w)
    BY <1>4, <2>1
  <2>2. CASE \E w \in Workers : WorkerEnters(w)
    BY <1>5, <2>2 DEF NoNewReply
  <2>3. CASE \E w \in Workers : LeavesAny(w)
    <3>1. PICK w \in Workers : LeavesAny(w)
      BY <2>3
    <3>2. QED
      BY <1>6, <3>1
  <2>4. CASE \E w \in Workers : \E act \in {0, 1}, delta \in {0, 1} : WorkerEndsStep(w, act, delta)
    BY <1>7, <2>4 DEF NoNewReply
  <2>5. QED
    BY <1>0, <1>1, <1>2, <1>3, <2>1, <2>2, <2>3, <2>4, StepKinds

\* A barrier that somebody has to come to yet stays shut.
LEMMA HeldKept ==
  ASSUME TypeOK, SumInv, [Next]_vars, NEW v \in Workers, NEW p \in Nat,
         Held(v, p), ~HandlerTakesStep(v)
  PROVE  Held(v, p)'
<1>0. /\ passed[v] = p /\ v \notin inround /\ hpc[v] # "join" /\ Replies(v) = {}
      /\ \A u \in Workers : passed[u] <= p /\ (passed[u] = p => Replies(u) = {}) /\ passed[u] \in Nat
      /\ mpc # "done" => round < p \/ (round = p /\ mpc # "notify")
      /\ round \in Nat
  BY RoundTypes DEF Held, Shut, NotTold
<1>1. \A u \in Workers : HandlerNotified(u) => passed[u] < p
  <2> SUFFICES ASSUME NEW u \in Workers, HandlerNotified(u)
               PROVE  passed[u] < p
    OBVIOUS
  <2>1. hpc[u] = "joined" /\ mpc = "notify"
    BY DEF HandlerNotified
  <2>2. u \in inround /\ passed[u] = round
    BY <2>1 DEF SumInv, AgreeInv, LockInv, BarrierBooks, RoundBooks
  <2>3. QED
    BY <1>0, <2>1, <2>2
<1>2. ~AllWorkersArrived
  <2> SUFFICES ASSUME AllWorkersArrived PROVE FALSE
    OBVIOUS
  <2>1. inround = Workers
    BY InroundCounts, NumWorkersType DEF AllWorkersArrived, BarrierBooks, TypeOK, SumInv, AgreeInv, LockInv
  <2>2. QED
    BY <1>0, <2>1
<1>3. hpc'[v] # "join" /\ v \notin inround'
  BY <1>0, HandlerMoves, RoundMoves DEF HandlerJoins
<1>4. passed'[v] = p
  BY <1>0, RoundMoves
<1>5. \A u \in Workers : NotTold(u, p)'
  <2> SUFFICES ASSUME NEW u \in Workers
               PROVE  passed'[u] <= p /\ (passed'[u] = p => Replies(u)' = {})
    BY DEF NotTold
  <2>1. CASE passed'[u] = passed[u] /\ (\A m \in Replies(u)' : m \in Replies(u) \/ HandlerNotified(u))
    BY <1>0, <1>1, <2>1
  <2>2. CASE passed'[u] = passed[u] + 1 /\ Replies(u) # {} /\ Replies(u)' = {}
    BY <1>0, <2>2
  <2>3. QED
    BY <2>1, <2>2, RoundMoves
<1>6. mpc' # "done" => round' < p \/ (round' = p /\ mpc' # "notify")
  <2> SUFFICES ASSUME mpc' # "done"
               PROVE  round' < p \/ (round' = p /\ mpc' # "notify")
    OBVIOUS
  <2>1. CASE round' = round /\ mpc # "done" /\ (mpc' = "notify" => mpc = "notify")
    BY <1>0, <2>1
  <2>2. CASE round' = round + 1 /\ mpc = "notify" /\ mpc' # "notify"
    BY <1>0, <2>2
  <2>3. QED
    BY <1>2, <2>1, <2>2, RoundMoves
<1>7. QED
  BY <1>3, <1>4, <1>5, <1>6 DEF Held, Shut

\* A worker stays where it gets the messages of a superstep until it is told
\* to leave that superstep's POST barrier.
LEMMA ReadyKept ==
  ASSUME TypeOK, SumInv, [Next]_vars, NEW w \in Workers, NEW s \in Nat,
         Ready(w, s), passed[w] = 3 * s + 1 => rpc[w] # "notify"
  PROVE  Ready(w, s)'
<1>0. /\ wstep[w] = s /\ passed[w] \in {3 * s, 3 * s + 1} /\ arrived[w] > 3 * s
      /\ passed[w] \in Nat /\ arrived[w] \in Nat
  BY RoundTypes DEF Ready
<1>1. arrived'[w] > 3 * s
  BY <1>0, RoundMoves
<1>2. CASE LeavesAny(w)
  <2>1. rpc[w] = "notify"
    BY <1>2, LeavesForNext DEF SumInv, AgreeInv
  <2>2. passed[w] = 3 * s /\ Into(w) = 0
    BY <1>0, <2>1 DEF Into
  <2>3. passed'[w] = passed[w] + 1 /\ wstep'[w] = After(Into(w), wstep[w], rmsg[w].val)
    BY <1>2, LeavesForNext DEF SumInv, AgreeInv, TypeOK, HistoryTypeOK, WorkerTypeOK
  <2>4. wstep'[w] = s /\ passed'[w] = 3 * s + 1
    BY <1>0, <2>2, <2>3 DEF After
  <2>5. QED
    BY <1>1, <2>4 DEF Ready
<1>3. CASE ~LeavesAny(w)
  <2>1. passed'[w] = passed[w] /\ wstep'[w] = wstep[w]
    BY <1>3, RoundMoves
  <2>2. QED
    BY <1>0, <1>1, <2>1 DEF Ready
<1>4. QED
  BY <1>2, <1>3

\* Who is told nothing yet.
LEMMA ShutIn ==
  ASSUME TypeOK, SumInv, NEW w \in Workers, NEW p, NotTold(w, p), passed[w] = p
  PROVE  rpc[w] # "notify" /\ hpc[w] # "reply" /\ NoStep(toWorker[w])
<1>1. ~Answered(w)
  BY TokensInFlight DEF NotTold
<1>2. QED
  BY <1>1 DEF Answered

\* A message is relayed to a worker that is ready for it.
LEMMA RelayedReady ==
  ASSUME TypeOK, SumInv, NEW v \in Workers, NEW w \in Workers, wpc[v] = "compute"
  PROVE  /\ Held(v, 3 * wstep[v] + 1) /\ Ready(w, wstep[v]) /\ NoStep(toMaster[v])
<1>0. /\ AgreeInv /\ JoinBooks /\ InStep /\ WorkersAgree
      /\ \A u \in Workers : passed[u] \in Nat /\ arrived[u] \in Nat /\ wstep[u] \in Nat
      /\ round \in Nat /\ mstep \in Nat
  BY RoundTypes DEF SumInv, AgreeInv
<1>1. /\ passed[v] = 3 * wstep[v] + 1 /\ arrived[v] = passed[v] /\ v \notin inround /\ Asks(v) = {}
      /\ \A u \in Workers : NotTold(u, 3 * wstep[v] + 1)
      /\ mpc # "done" => /\ mstep = wstep[v]
                         /\ mpc = "notify" => round = 3 * mstep
                         /\ mpc # "notify" => round = 3 * mstep + 1 /\ mpc = "wait"
  BY <1>0, Computing
<1>2. hpc[v] # "join" /\ NoStep(toMaster[v])
  BY <1>1, TokensInFlight DEF Asking
<1>3. Shut(3 * wstep[v] + 1)
  BY <1>0, <1>1 DEF Shut
<1>4. passed[w] <= 3 * wstep[v] + 1 /\ arrived[w] >= 3 * wstep[v] + 1 /\ arrived[w] <= passed[w] + 1
  BY <1>0, <1>1 DEF InStep, NotTold
<1>5. wstep[w] = wstep[v]
  <2>1. CASE passed[w] = passed[v]
    BY <1>0, <2>1 DEF WorkersAgree
  <2>2. CASE passed[v] = passed[w] + 1
    <3>1. PICK x \in {0, 1} : wstep[v] = After(Into(w), wstep[w], x)
      BY <1>0, <2>2 DEF WorkersAgree
    <3>2. Into(w) # 2
      BY <1>0, <1>1, <2>2 DEF Into
    <3>3. QED
      BY <3>1, <3>2 DEF After
  <2>3. QED
    BY <1>0, <1>1, <1>4, <2>1, <2>2
<1>6. QED
  BY <1>0, <1>1, <1>2, <1>3, <1>4, <1>5 DEF Held, Ready

-----------------------------------------------------------------------------
(***************************************************************************)
(* Where the relayed messages are.                                         *)
(***************************************************************************)
LEMMA RelayInit == Init => UpStream /\ AtHandler /\ DownStream /\ Bouncing
<1> SUFFICES ASSUME Init PROVE UpStream /\ AtHandler /\ DownStream /\ Bouncing
  OBVIOUS
<1>1. \A w \in Workers : /\ toMaster[w] = <<>> /\ toWorker[w] = <<>> /\ hpc[w] = "off" /\ rpc[w] = "off"
                         /\ 1 .. Len(<<>>) = {}
  BY DEF Init
<1>2. QED
  BY <1>1 DEF UpStream, AtHandler, DownStream, Bouncing

\* What UpStream says of one message.
UpHeld(v, m) == Held(v, 3 * m.sent + 1) /\ Ready(m.dst, m.sent)

\* As long as the sender's step is not taken, the message stays as it is.
LEMMA HeldReady ==
  ASSUME TypeOK, SumInv, [Next]_vars, NEW v \in Workers, NEW m \in RelayMsg,
         UpHeld(v, m), ~HandlerTakesStep(v)
  PROVE  UpHeld(v, m)'
<1>1. m.dst \in Workers /\ m.sent \in Nat /\ 3 * m.sent + 1 \in Nat
  BY DEF RelayMsg
<1>2. passed[m.dst] = 3 * m.sent + 1 => rpc[m.dst] # "notify"
  <2>1. NotTold(m.dst, 3 * m.sent + 1)
    BY <1>1 DEF UpHeld, Held, Shut
  <2>2. QED
    BY <1>1, <2>1, ShutIn
<1>3. Held(v, 3 * m.sent + 1)' /\ Ready(m.dst, m.sent)'
  BY <1>1, <1>2, HeldKept, ReadyKept DEF UpHeld
<1>4. QED
  BY <1>3 DEF UpHeld

\* The four parts of RelayInv, one lemma each.
LEMMA UpStep ==
  ASSUME TypeOK, RelayInv, [Next]_vars, TypeOK'
  PROVE  UpStream'
<1> SUFFICES ASSUME NEW v \in Workers, NEW i \in 1 .. Len(toMaster'[v]), NEW m, m = toMaster'[v][i],
                    m.type = "relay", m.known \/ m.dst # v
             PROVE  m.dst # v /\ Ahead(toMaster'[v], i) /\ UpHeld(v, m)'
  BY DEF UpStream, UpHeld, Held, Ready, Shut, NotTold, Ahead
<1>0. m.type = "relay" /\ (m.known \/ m.dst # v) /\ SumInv
  BY DEF RelayInv
<1>1. ASSUME NEW j \in 1 .. Len(toMaster[v]), toMaster[v][j] = m,
             Ahead(toMaster[v], j) => Ahead(toMaster'[v], i)
      PROVE  m.dst # v /\ Ahead(toMaster'[v], i) /\ UpHeld(v, m)'
  <2>1. m.dst # v /\ Ahead(toMaster[v], j) /\ UpHeld(v, m)
    BY <1>0, <1>1 DEF RelayInv, UpStream, UpHeld
  <2>2. m \in RelayMsg
    BY <1>0, <1>1, RelayTypes
  <2>3. ~HandlerTakesStep(v)
    <3>1. 1 \in 1 .. j
      BY <1>1, RelayTypes
    <3>2. toMaster[v][1].type # "step"
      BY <2>1, <3>1 DEF Ahead
    <3>3. QED
      BY <3>2, HandlerMoves
  <2>4. QED
    BY <1>0, <1>1, <2>1, <2>2, <2>3, HeldReady
<1>2. ASSUME NEW d \in Workers, NEW known \in BOOLEAN, WorkerRelays(v, d, known),
             m = [type |-> "relay", dst |-> d, known |-> known, sent |-> wstep[v]],
             NoStep(toMaster[v]) => Ahead(toMaster'[v], i)
      PROVE  m.dst # v /\ Ahead(toMaster'[v], i) /\ UpHeld(v, m)'
  <2>1. wpc[v] = "compute" /\ (IF Strays THEN d = v => ~known ELSE d # v /\ known)
    BY <1>2 DEF WorkerRelays
  <2>2. m.dst = d /\ m.sent = wstep[v] /\ d # v
    BY <1>0, <1>2, <2>1
  <2>3. UpHeld(v, m) /\ NoStep(toMaster[v])
    BY <1>0, <2>1, <2>2, RelayedReady DEF UpHeld
  <2>4. m \in RelayMsg
    BY <1>2, RelayIsPayload, RelayTypes DEF RelayMsg, TypeOK, WorkerTypeOK
  <2>5. ~HandlerTakesStep(v)
    <3>1. HandlerTakesStep(v) => ~NoStep(toMaster[v])
      BY HeadIsFirst DEF HandlerTakesStep, NoStep
    <3>2. QED
      BY <2>3, <3>1
  <2>6. QED
    BY <1>0, <1>2, <2>2, <2>3, <2>4, <2>5, HeldReady
<1>3. ~(ReceiverBounces(v) /\ m = rmsg[v])
  <2>1. ReceiverBounces(v) => ~rmsg[v].known /\ rmsg[v].dst = v
    BY DEF RelayInv, Bouncing, ReceiverBounces
  <2>2. QED
    BY <1>0, <2>1
<1>4. QED
  BY <1>1, <1>2, <1>3, UpMoves DEF NewUp

LEMMA HandlerRelayStep ==
  ASSUME TypeOK, RelayInv, [Next]_vars
  PROVE  AtHandler'
<1> SUFFICES ASSUME NEW v \in Workers, hpc'[v] = "relay", NEW m, m = hmsg'[v]
             PROVE  m.dst # v /\ UpHeld(v, m)'
  BY DEF AtHandler, UpHeld, Held, Ready, Shut, NotTold
<1>1. m.dst # v /\ UpHeld(v, m) /\ m \in RelayMsg /\ ~HandlerTakesStep(v)
  <2>1. CASE hpc[v] = "relay" /\ m = hmsg[v]
    <3>1. m \in RelayMsg /\ ~HandlerTakesStep(v)
      BY <2>1 DEF TypeOK, HandlerTypeOK, HandlerTakesStep
    <3>2. QED
      BY <2>1, <3>1 DEF RelayInv, AtHandler, UpHeld
  <2>2. CASE toMaster[v] # <<>> /\ m = toMaster[v][1] /\ m.type = "relay" /\ m.dst # v
    <3>1. 1 \in 1 .. Len(toMaster[v])
      BY <2>2, HeadIsFirst
    <3>2. UpHeld(v, m) /\ m \in RelayMsg
      BY <2>2, <3>1, RelayTypes DEF RelayInv, UpStream, UpHeld
    <3>3. ~HandlerTakesStep(v)
      BY <2>2, HandlerMoves
    <3>4. QED
      BY <2>2, <3>2, <3>3
  <2>3. QED
    BY <2>1, <2>2, HandlerMoves
<1>2. UpHeld(v, m)'
  BY <1>1, HeldReady DEF RelayInv
<1>3. QED
  BY <1>1, <1>2

LEMMA DownStep ==
  ASSUME TypeOK, RelayInv, [Next]_vars, TypeOK'
  PROVE  DownStream'
<1> SUFFICES ASSUME NEW w \in Workers, NEW i \in 1 .. Len(toWorker'[w]), NEW m, m = toWorker'[w][i],
                    m.type = "relay", NEW s, s = m.sent
             PROVE  /\ m.dst = w /\ Ready(w, s)'
                    /\ passed'[w] = 3 * s + 1 => rpc'[w] # "notify" /\ Ahead(toWorker'[w], i)
  BY DEF DownStream, Ready, Ahead
<1>0. /\ m.type = "relay" /\ SumInv /\ s \in Nat
      /\ \A u \in Workers : passed[u] \in Nat
  <2>1. m \in RelayMsg
    <3>1. /\ \A p \in MasterPayload : p.type = "relay" => p \in RelayMsg
          /\ \A p \in RelayMsg : p.sent \in Nat
          /\ WorkerPayload \subseteq MasterPayload
      BY RelayTypes
    <3>2. toWorker'[w] \in Seq(MasterPayload)
      BY DEF TypeOK, StreamTypeOK
    <3>3. QED
      BY <3>1, <3>2, ElementOfSeq
  <2>2. QED
    BY <2>1, RoundTypes DEF RelayInv, RelayMsg
<1>1. ASSUME m.dst = w, Ready(w, s),
             passed[w] = 3 * s + 1 => rpc[w] # "notify" /\ Ahead(toWorker'[w], i) /\ ~ReceiverTakesStep(w)
      PROVE  /\ m.dst = w /\ Ready(w, s)'
             /\ passed'[w] = 3 * s + 1 => rpc'[w] # "notify" /\ Ahead(toWorker'[w], i)
  <2>1. Ready(w, s)'
    BY <1>0, <1>1, ReadyKept
  <2>2. CASE LeavesAny(w)
    <3>1. /\ rpc[w] = "notify" /\ Answered(w) /\ passed[w] = 3 * s
          /\ toWorker' = toWorker
      BY <1>0, <1>1, <2>2, LeavesForNext DEF Ready, SumInv, AgreeInv
    <3>2. NoStep(toWorker[w])
      BY <1>0, <3>1 DEF SumInv, AgreeInv, LockInv, TokenBooks
    <3>3. Ahead(toWorker'[w], i)
      <4>1. i \in 1 .. Len(toWorker[w]) /\ \A k \in 1 .. i : k \in 1 .. Len(toWorker[w])
        BY <3>1, RelayTypes
      <4>2. QED
        BY <3>1, <3>2, <4>1 DEF Ahead, NoStep
    <3>4. rpc'[w] # "notify"
      BY <1>0, <2>2, LeavesForNext DEF SumInv, AgreeInv, Replies
    <3>5. QED
      BY <1>1, <2>1, <3>3, <3>4
  <2>3. CASE ~LeavesAny(w)
    <3>1. passed'[w] = passed[w]
      BY <1>0, <2>3, RoundMoves
    <3>2. QED
      BY <1>1, <2>1, <3>1, ReceiverMoves
  <2>4. QED
    BY <2>2, <2>3
<1>2. ASSUME NEW j \in 1 .. Len(toWorker[w]), toWorker[w][j] = m,
             Ahead(toWorker[w], j) => Ahead(toWorker'[w], i)
      PROVE  /\ m.dst = w /\ Ready(w, s)
             /\ passed[w] = 3 * s + 1 => rpc[w] # "notify" /\ Ahead(toWorker'[w], i) /\ ~ReceiverTakesStep(w)
  <2>1. /\ m.dst = w /\ Ready(w, s)
        /\ passed[w] = 3 * s + 1 => rpc[w] # "notify" /\ Ahead(toWorker[w], j)
    BY <1>0, <1>2 DEF RelayInv, DownStream
  <2>2. Ahead(toWorker[w], j) => ~ReceiverTakesStep(w)
    <3>1. 1 \in 1 .. j
      BY <1>2, RelayTypes
    <3>2. Ahead(toWorker[w], j) => toWorker[w][1].type # "step"
      BY <3>1 DEF Ahead
    <3>3. QED
      BY <3>2, ReceiverMoves
  <2>3. QED
    BY <1>2, <2>1, <2>2
<1>3. ASSUME NEW u \in Workers, HandlerSends(u), hpc[u] = "relay", m = hmsg[u], m.dst = w,
             NoStep(toWorker[w]) => Ahead(toWorker'[w], i)
      PROVE  /\ m.dst = w /\ Ready(w, s)
             /\ passed[w] = 3 * s + 1 => rpc[w] # "notify" /\ Ahead(toWorker'[w], i) /\ ~ReceiverTakesStep(w)
  <2>1. Ready(w, s) /\ Held(u, 3 * s + 1)
    BY <1>3 DEF RelayInv, AtHandler
  <2>2. passed[w] = 3 * s + 1 => rpc[w] # "notify" /\ NoStep(toWorker[w])
    BY <1>0, <2>1, ShutIn DEF Held, Shut
  <2>3. NoStep(toWorker[w]) => ~ReceiverTakesStep(w)
    BY HeadIsFirst DEF ReceiverTakesStep, NoStep
  <2>4. QED
    BY <1>3, <2>1, <2>2, <2>3
<1>4. QED
  <2>1. /\ m.dst = w /\ Ready(w, s)
        /\ passed[w] = 3 * s + 1 => rpc[w] # "notify" /\ Ahead(toWorker'[w], i) /\ ~ReceiverTakesStep(w)
    BY <1>2, <1>3, DownMoves DEF NewDown
  <2>2. QED
    BY <1>1, <2>1

LEMMA BounceStep ==
  ASSUME TypeOK, RelayInv, [Next]_vars
  PROVE  Bouncing'
<1> SUFFICES ASSUME NEW w \in Workers, rpc'[w] = "bounce"
             PROVE  ~rmsg'[w].known /\ rmsg'[w].dst = w /\ passed'[w] <= 3 * rmsg'[w].sent + 1
  BY DEF Bouncing
<1>0. SumInv
  BY DEF RelayInv
<1>1. CASE rpc[w] = "bounce" /\ rmsg'[w] = rmsg[w]
  <2>1. ~LeavesAny(w)
    BY <1>0, <1>1, LeavesForNext DEF SumInv, AgreeInv
  <2>2. passed'[w] = passed[w]
    BY <1>0, <2>1, RoundMoves
  <2>3. QED
    BY <1>1, <2>2 DEF RelayInv, Bouncing
<1>2. CASE ReceiverTakesRelay(w) /\ rmsg'[w] = toWorker[w][1] /\ toWorker[w] # <<>>
           /\ rmsg'[w].type = "relay" /\ ~rmsg'[w].known
  <2>1. 1 \in 1 .. Len(toWorker[w])
    BY <1>2, HeadIsFirst
  <2>2. toWorker[w][1].dst = w /\ Ready(w, toWorker[w][1].sent)
    BY <1>2, <2>1 DEF RelayInv, DownStream
  <2>3. passed' = passed
    BY <1>2, ReceiverMakesNone DEF ReceiverStep
  <2>4. toWorker[w][1].sent \in Nat
    BY <1>2, <2>1, RelayTypes
  <2>5. QED
    BY <1>2, <2>2, <2>3, <2>4 DEF Ready
<1>3. QED
  BY <1>1, <1>2, ReceiverMoves

LEMMA RelayStep ==
  ASSUME TypeOK, RelayInv, [Next]_vars, TypeOK'
  PROVE  RelayInv'
<1>1. SumInv'
  BY SumStep DEF RelayInv
<1>2. QED
  BY <1>1, UpStep, HandlerRelayStep, DownStep, BounceStep DEF RelayInv

\* RelayInv is an invariant: together with the types it is inductive.
THEOREM RelayInvariant == Spec => []RelayInv
<1>1. Init => SumInv
  BY SumStarts
<1>2. Init => RelayInv
  BY <1>1, RelayInit DEF RelayInv
<1>3. TypeOK /\ TypeOK' /\ RelayInv /\ [Next]_vars => RelayInv'
  BY RelayStep
<1>4. QED
  BY <1>2, <1>3, TypeCorrect, PTL DEF Spec

\* A relayed message reaches its destination in the superstep in which it was
\* sent (worker_job_coordinator.go, handleMasterPayloads).
THEOREM RelaysInStep == Spec => []RelayedInStep
<1>1. TypeOK /\ RelayInv => RelayedInStep
  <2> SUFFICES ASSUME TypeOK, RelayInv, NEW w \in Workers, toWorker[w] # <<>>, Head(toWorker[w]).type = "relay"
               PROVE  Head(toWorker[w]).sent = wstep[w] /\ wphase[w] \in {"PRE", "POST"}
    BY DEF RelayedInStep
  <2> DEFINE s == toWorker[w][1].sent
  <2>1. 1 \in 1 .. Len(toWorker[w]) /\ Head(toWorker[w]) = toWorker[w][1]
    BY HeadIsFirst
  <2>2. Ready(w, s) /\ s \in Nat
    BY <2>1, RelayTypes DEF RelayInv, DownStream
  <2>3. /\ wstep[w] = s /\ passed[w] \in {3 * s, 3 * s + 1} /\ arrived[w] > 3 * s /\ arrived[w] <= passed[w] + 1
        /\ passed[w] \in Nat /\ arrived[w] \in Nat
    BY <2>2, RoundTypes DEF Ready, RelayInv, SumInv, AgreeInv, InStep
  <2>4. CASE passed[w] = 3 * s + 1
    <3>1. Into(w) = 1
      BY <2>2, <2>3, <2>4 DEF Into
    <3>2. QED
      BY <2>1, <2>3, <3>1 DEF RelayInv, SumInv, AgreeInv, PlaceBooks
  <2>5. CASE passed[w] = 3 * s
    <3>1. Into(w) = 0 /\ arrived[w] = passed[w] + 1
      BY <2>2, <2>3, <2>5 DEF Into
    <3>2. Stage(wphase[w]) = 0
      BY <3>1 DEF RelayInv, SumInv, AgreeInv, PlaceBooks
    <3>3. wphase[w] = "PRE"
      BY <3>2 DEF Stage
    <3>4. QED
      BY <2>1, <2>3, <3>3
  <2>6. QED
    BY <2>3, <2>4, <2>5
<1>2. QED
  BY <1>1, RelayInvariant, TypeCorrect, PTL

-----------------------------------------------------------------------------
(***************************************************************************)
(* NoMessageMissed.                                                        *)
(***************************************************************************)

(***************************************************************************)
(* What the KEEP barrier counts.                                           *)
(***************************************************************************)
LEMMA ActiveInit == Init => ActiveBooks
<1> SUFFICES ASSUME Init PROVE ActiveBooks
  OBVIOUS
<1>1. \A w \in Workers : Asks(w) = {}
  <2>1. Range(<<>>) = {}
    BY DEF Range
  <2>2. QED
    BY <2>1 DEF Init, Asks
<1>2. round = 0 /\ mstep = 0
  BY DEF Init
<1>3. QED
  BY <1>1, <1>2 DEF ActiveBooks

\* The KEEP barrier counts each active worker once.
LEMMA ActiveStep ==
  ASSUME TypeOK, SumInv, ActiveBooks, [Next]_vars, MasterPlace'
  PROVE  ActiveBooks'
<1>0. /\ AgreeInv /\ PlaceBooks /\ LockInv /\ JoinBooks /\ MasterPlace /\ MasterAgrees
      /\ DOMAIN passed = Workers /\ DOMAIN wstep = Workers /\ DOMAIN active = Workers
      /\ \A u \in Workers : active[u] \in {0, 1} /\ passed[u] \in Nat /\ wstep[u] \in Nat
      /\ gathered \in Int /\ round \in Nat /\ mstep \in Nat
  BY DEF SumInv, AgreeInv, TypeOK, HistoryTypeOK, WorkerTypeOK, MasterTypeOK
<1>1. ASSUME NoNewAsk, UNCHANGED <<passed, wstep, active>>
      PROVE  \A w \in Workers : Into(w)' = 2 => \A m \in Asks(w)' : m.val = active'[w]
  BY <1>1 DEF ActiveBooks, NoNewAsk, Into
<1>2. mpc # "done" /\ round = 3 * mstep + 2 => mpc \in {"wait", "notify"}
  BY <1>0 DEF MasterPlace, Stage, TypeOK, MasterTypeOK
<1>3. CASE Steady
  <2>1. NoNewAsk /\ UNCHANGED <<passed, wstep, active, round, mstep, inround>>
    BY <1>3 DEF Steady
  <2>2. mpc' # "done" /\ round' = 3 * mstep' + 2 => UNCHANGED <<mpc, gathered>> /\ mpc # "done"
    BY <1>2, <1>3, <2>1 DEF Steady
  <2>3. QED
    BY <1>1, <2>1, <2>2 DEF ActiveBooks
<1>4. CASE AllWorkersArrived
  <2>1. NoNewAsk /\ UNCHANGED <<passed, wstep, active, inround>>
    BY <1>4, MasterMakesNone DEF MasterStep
  <2>2. inround = Workers /\ mpc = "wait"
    BY <1>0, <1>4, InroundCounts, NumWorkersType DEF AllWorkersArrived, BarrierBooks, TypeOK, LockInv
  <2>3. mpc' # "done" => UNCHANGED <<round, mstep, gathered>> /\ mpc' = "notify"
    BY <1>4 DEF AllWorkersArrived, MasterReturns, MasterOnly, roundVars
  <2>4. QED
    BY <1>1, <2>1, <2>2, <2>3 DEF ActiveBooks
<1>5. CASE AllWorkersNotified
  <2>1. NoNewAsk /\ UNCHANGED <<passed, wstep, active, inround>>
    BY <1>5, MasterMakesNone DEF MasterStep
  <2>2. inround = {}
    <3>1. Cardinality(inround) = 0
      <4>1. Cardinality(inround) \in Nat /\ cnt = NumWorkers /\ cnt + Cardinality(inround) = NumWorkers
        BY <1>0, <1>5, InroundCounts DEF AllWorkersNotified, BarrierBooks, TypeOK, LockInv
      <4>2. QED
        BY <4>1, NumWorkersType
    <3>2. QED
      BY <3>1, InroundCounts, FS_EmptySet DEF TypeOK
  <2>3. mpc' # "done" /\ round' = 3 * mstep' + 2 => mpc' = "wait" /\ gathered' = 0
    <3>1. CASE mpc' = "wait" /\ gathered' = 0
      BY <3>1
    <3>2. CASE mpc' \in {"check", "complete"}
      <4>1. round' \in Nat /\ mstep' \in Nat
        BY <1>0, <1>5 DEF AllWorkersNotified
      <4>2. QED
        BY <3>2, <4>1 DEF MasterPlace
    <3>3. QED
      BY <1>5, <3>1, <3>2 DEF AllWorkersNotified, EnterBarrier
  <2>4. QED
    BY <1>1, <2>1, <2>2, <2>3 DEF ActiveBooks
<1>6. ASSUME NEW w \in Workers, HandlerJoins(w)
      PROVE  ActiveBooks'
  <2>1. NoNewAsk /\ UNCHANGED <<passed, wstep, active, round, mstep, mpc>>
    BY <1>6, HandlerMakesReply DEF HandlerStep
  <2>2. /\ gathered' = gathered + hmsg[w].val /\ inround' = inround \cup {w}
        /\ mpc = "wait" /\ hpc[w] = "join"
    BY <1>6 DEF HandlerJoins
  <2>3. ASSUME round = 3 * mstep + 2
        PROVE  hmsg[w].val = active[w]
    <3>1. hmsg[w] \in Asks(w)
      BY <2>2 DEF Asks
    <3>2. passed[w] = round
      BY <1>0, <2>2 DEF LockInv, RoundBooks, Asking, RoundOf
    <3>3. wstep[w] = mstep
      BY <1>0, <2>2, <3>2 DEF MasterAgrees
    <3>4. Into(w) = 2
      BY <1>0, <2>3, <3>2, <3>3 DEF Into
    <3>5. QED
      BY <3>1, <3>4 DEF ActiveBooks
  <2>4. ASSUME round = 3 * mstep + 2
        PROVE  gathered' >= 0 /\ (gathered' = 0 <=> \A u \in inround' : active[u] = 0)
    <3>1. gathered >= 0 /\ (gathered = 0 <=> \A u \in inround : active[u] = 0)
      BY <2>2, <2>4 DEF ActiveBooks
    <3>2. gathered' = gathered + active[w] /\ active[w] \in {0, 1}
      BY <1>0, <2>2, <2>3, <2>4
    <3>3. gathered' >= 0 /\ (gathered' = 0 <=> gathered = 0 /\ active[w] = 0)
      BY <1>0, <3>1, <3>2
    <3>4. QED
      BY <2>2, <3>1, <3>3
  <2>5. QED
    BY <1>1, <2>1, <2>2, <2>4 DEF ActiveBooks
<1>7. ASSUME NEW w \in Workers, HandlerNotified(w)
      PROVE  ActiveBooks'
  <2>1. NoNewAsk /\ UNCHANGED <<passed, wstep, active, round, mstep, mpc>>
    BY <1>7, HandlerMakesReply DEF HandlerStep
  <2>2. gathered' = gathered /\ mpc = "notify"
    BY <1>7 DEF HandlerNotified
  <2>3. QED
    BY <1>1, <2>1, <2>2 DEF ActiveBooks
<1>8. ASSUME NEW w \in Workers, WorkerEnters(w)
      PROVE  ActiveBooks'
  <2>1. \A v \in Workers : \A m \in Asks(v)' : m \in Asks(v) \/ (v = w /\ m = Step(wphase[w], StepValue(w)))
    BY <1>8, WorkerMakesAsk DEF WorkerStep
  <2>2. UNCHANGED <<passed, wstep, active, round, mstep, mpc, gathered, inround>> /\ wpc[w] = "enter"
    BY <1>8 DEF WorkerEnters, MasterSide, masterVars
  <2>3. Into(w) = 2 => StepValue(w) = active[w]
    <3>1. Into(w) = Stage(wphase[w])
      BY <1>0, <2>2 DEF PlaceBooks, AtBarrier
    <3>2. Into(w) = 2 => wphase[w] = "KEEP"
      BY <3>1 DEF Stage
    <3>3. QED
      BY <3>2 DEF StepValue
  <2>4. \A v \in Workers : Into(v)' = Into(v)
    BY <2>2 DEF Into
  <2>5. \A v \in Workers : Into(v)' = 2 => \A m \in Asks(v)' : m.val = active'[v]
    BY <2>1, <2>2, <2>3, <2>4 DEF ActiveBooks, Step
  <2>6. QED
    BY <2>2, <2>5 DEF ActiveBooks
<1>9. ASSUME NEW w \in Workers, LeavesAny(w)
      PROVE  ActiveBooks'
  <2>1. /\ Answered(w) /\ UNCHANGED <<hpc, hmsg, mpc, mstep, gathered, toMaster, inround, round, active>>
        /\ passed' = [passed EXCEPT ![w] = @ + 1]
        /\ wstep' = [wstep EXCEPT ![w] = After(Into(w), @, rmsg[w].val)]
    BY <1>0, <1>9, LeavesForNext
  <2>2. Asks(w) = {}
    <3>1. ~Asking(w)
      BY <1>0, <2>1 DEF LockInv, TokenBooks, Asking, Answered, Handling
    <3>2. QED
      BY <3>1, TokensInFlight
  <2>3. \A v \in Workers : Asks(v)' = Asks(v)
    BY <2>1 DEF Asks
  <2>4. \A v \in Workers : v # w => Into(v)' = Into(v)
    BY <1>0, <2>1 DEF Into
  <2>5. QED
    BY <2>1, <2>2, <2>3, <2>4 DEF ActiveBooks
<1>10. ASSUME NEW w \in Workers, NEW act \in {0, 1}, NEW delta \in {0, 1}, WorkerEndsStep(w, act, delta)
       PROVE  ActiveBooks'
  <2>1. /\ NoNewAsk
        /\ UNCHANGED <<mpc, mstep, gathered, round, inround, passed, wstep>>
        /\ active' = [active EXCEPT ![w] = act]
    BY <1>10, EndsFrame DEF WorkerEndsStep
  <2>2. Into(w) = 1 /\ (mpc # "done" => round # 3 * mstep + 2)
    <3>1. wpc[w] = "compute"
      BY <1>10 DEF WorkerEndsStep
    <3>2. QED
      BY <1>0, <3>1, Computing
  <2>3. \A v \in Workers : Into(v)' = Into(v) /\ (v # w => active'[v] = active[v])
    BY <1>0, <2>1 DEF Into
  <2>4. QED
    BY <2>1, <2>2, <2>3 DEF ActiveBooks, NoNewAsk
<1>11. QED
  BY <1>0, <1>3, <1>4, <1>5, <1>6, <1>7, <1>8, <1>9, <1>10, StepKinds

-----------------------------------------------------------------------------
(***************************************************************************)
(* Counting the copies of a message in the streams.                        *)
(***************************************************************************)
\* Streams of payloads in S; a write of x to the one of v, a read from it, and
\* a failure that leaves the first n.
Streams(S)       == [Workers -> Seq(S)]
Put(Q, P, v, x)  == P = [Q EXCEPT ![v] = Append(@, x)]
Taken(Q, P, v)   == Q[v] # <<>> /\ P = [Q EXCEPT ![v] = Tail(@)]
Lost(Q, P, v, n) == P = [Q EXCEPT ![v] = SubSeq(@, 1, n)]

LEMMA CopyAt ==
  ASSUME NEW Q, NEW m
  PROVE  /\ \A c \in Copies(Q, m) : \E v \in Workers : \E i \in 1 .. Len(Q[v]) : c = <<v, i>> /\ Q[v][i] = m
         /\ \A v \in Workers : \A i \in 1 .. Len(Q[v]) : <<v, i>> \in Copies(Q, m) <=> Q[v][i] = m
  BY DEF Copies

LEMMA CopiesWithin ==
  ASSUME NEW Q, NEW m, NEW C, \A v \in Workers : \A i : <<v, i>> \in Copies(Q, m) => <<v, i>> \in C
  PROVE  Copies(Q, m) \subseteq C
<1> SUFFICES ASSUME NEW c \in Copies(Q, m) PROVE c \in C
  OBVIOUS
<1>1. PICK v \in Workers : \E i \in 1 .. Len(Q[v]) : c = <<v, i>> /\ Q[v][i] = m
  BY CopyAt
<1>2. PICK i \in 1 .. Len(Q[v]) : c = <<v, i>>
  BY <1>1
<1>3. QED
  BY <1>2

LEMMA CopiesFinite ==
  ASSUME NEW S, NEW Q \in Streams(S), NEW m
  PROVE  IsFiniteSet(Copies(Q, m)) /\ Cardinality(Copies(Q, m)) \in Nat
<1> DEFINE Of(v) == {v} \X {i \in 1 .. Len(Q[v]) : Q[v][i] = m}
           f == [v \in Workers |-> Of(v)]
           T == {Of(v) : v \in Workers}
<1>1. ASSUME NEW v \in Workers
      PROVE  IsFiniteSet(Of(v))
  <2>1. Len(Q[v]) \in Nat
    BY LenProperties DEF Streams
  <2>2. IsFiniteSet(1 .. Len(Q[v]))
    BY <2>1, FS_Interval
  <2>3. IsFiniteSet({i \in 1 .. Len(Q[v]) : Q[v][i] = m})
    BY <2>2, FS_Subset
  <2>4. IsFiniteSet({v})
    BY FS_Singleton
  <2>5. QED
    BY <2>3, <2>4, FS_Product
<1> HIDE DEF Of
<1>2. f \in Surjection(Workers, T)
  BY DEF Surjection
<1> HIDE DEF f, T
<1>3. IsFiniteSet(T)
  BY <1>2, WorkersAssumption, FS_Surjection
<1>4. \A t \in T : IsFiniteSet(t)
  BY <1>1 DEF T
<1>5. IsFiniteSet(UNION T)
  BY <1>3, <1>4, FS_UNION
<1>6. Copies(Q, m) = UNION T
  BY DEF Copies, T, Of
<1>7. QED
  BY <1>5, <1>6, FS_CardinalityType

LEMMA CopiesAppended ==
  ASSUME NEW S, NEW Q \in Streams(S), NEW m, NEW v \in Workers, NEW x \in S,
         NEW P, Put(Q, P, v, x)
  PROVE  Cardinality(Copies(P, m)) = Cardinality(Copies(Q, m)) + (IF x = m THEN 1 ELSE 0)
<1> DEFINE n == Len(Q[v]) + 1
<1>0. Q \in [Workers -> Seq(S)] /\ P = [Q EXCEPT ![v] = Append(@, x)]
  BY DEF Streams, Put
<1>1. /\ Len(Q[v]) \in Nat /\ Len(P[v]) = n /\ P[v][n] = x
      /\ \A i \in 1 .. Len(Q[v]) : P[v][i] = Q[v][i]
      /\ \A u \in Workers \ {v} : P[u] = Q[u]
  BY <1>0, AppendProperties, LenProperties
<1>2. /\ 1 .. n = 1 .. Len(Q[v]) \cup {n} /\ n \notin 1 .. Len(Q[v])
  BY <1>1
<1> HIDE DEF n
<1>3. ASSUME NEW u \in Workers, NEW i
      PROVE  <<u, i>> \in Copies(P, m) <=> <<u, i>> \in Copies(Q, m) \/ (<<u, i>> = <<v, n>> /\ x = m)
  <2>1. <<u, i>> \in Copies(P, m) <=> i \in 1 .. Len(P[u]) /\ P[u][i] = m
    BY DEF Copies
  <2>2. <<u, i>> \in Copies(Q, m) <=> i \in 1 .. Len(Q[u]) /\ Q[u][i] = m
    BY DEF Copies
  <2>3. CASE u = v
    BY <1>1, <1>2, <2>1, <2>2, <2>3
  <2>4. CASE u # v
    BY <1>1, <2>1, <2>2, <2>4
  <2>5. QED
    BY <2>3, <2>4
<1>4. <<v, n>> \notin Copies(Q, m)
  BY <1>2 DEF Copies
<1>5. CASE x = m
  <2>1. <<v, n>> \in Copies(P, m)
    BY <1>3, <1>5
  <2>2. Copies(P, m) = Copies(Q, m) \cup {<<v, n>>}
    <3>1. Copies(P, m) \subseteq Copies(Q, m) \cup {<<v, n>>}
      <4>1. \A u \in Workers : \A i : <<u, i>> \in Copies(P, m) => <<u, i>> \in Copies(Q, m) \cup {<<v, n>>}
        BY <1>3
      <4>2. QED
        BY <4>1, CopiesWithin
    <3>2. Copies(Q, m) \subseteq Copies(P, m)
      BY <1>3, CopiesWithin
    <3>3. QED
      BY <2>1, <3>1, <3>2
  <2>3. QED
    BY <1>4, <1>5, <2>2, CopiesFinite, FS_AddElement
<1>6. CASE x # m
  <2>1. Copies(P, m) \subseteq Copies(Q, m)
    BY <1>3, <1>6, CopiesWithin
  <2>2. Copies(Q, m) \subseteq Copies(P, m)
    BY <1>3, CopiesWithin
  <2>3. Copies(P, m) = Copies(Q, m)
    BY <2>1, <2>2
  <2>4. QED
    BY <1>6, <2>3, CopiesFinite
<1>7. QED
  BY <1>5, <1>6

LEMMA CopiesTaken ==
  ASSUME NEW S, NEW Q \in Streams(S), NEW m, NEW v \in Workers,
         NEW P, Taken(Q, P, v)
  PROVE  Cardinality(Copies(P, m)) = Cardinality(Copies(Q, m)) - (IF Head(Q[v]) = m THEN 1 ELSE 0)
<1> DEFINE A == Copies(P, m)
           B == Copies(Q, m) \ {<<v, 1>>}
           f == [c \in A |-> IF c[1] = v THEN <<v, c[2] + 1>> ELSE c]
<1>0. Q \in [Workers -> Seq(S)] /\ Q[v] # <<>> /\ P = [Q EXCEPT ![v] = Tail(@)]
  BY DEF Streams, Taken
<1>1. /\ Len(Q[v]) \in Nat /\ Len(P[v]) = Len(Q[v]) - 1 /\ Head(Q[v]) = Q[v][1] /\ Len(Q[v]) # 0
      /\ \A i \in 1 .. Len(P[v]) : P[v][i] = Q[v][i + 1]
      /\ \A u \in Workers \ {v} : P[u] = Q[u]
  BY <1>0, HeadTailProperties, LenProperties, EmptySeq
<1>2. ASSUME NEW u \in Workers, NEW i
      PROVE  /\ <<u, i>> \in A <=> i \in 1 .. Len(P[u]) /\ P[u][i] = m
             /\ <<u, i>> \in Copies(Q, m) <=> i \in 1 .. Len(Q[u]) /\ Q[u][i] = m
  BY DEF Copies
<1>3. \A c \in A : \E u \in Workers : \E i \in 1 .. Len(P[u]) : c = <<u, i>> /\ P[u][i] = m
  <2>1. \A c \in Copies(P, m) : \E u \in Workers : \E i \in 1 .. Len(P[u]) : c = <<u, i>> /\ P[u][i] = m
    BY ONLY CopyAt
  <2>2. QED
    BY <2>1
<1>4. \A c \in B : \E u \in Workers : \E i \in 1 .. Len(Q[u]) : c = <<u, i>> /\ Q[u][i] = m
  <2>1. \A c \in Copies(Q, m) : \E u \in Workers : \E i \in 1 .. Len(Q[u]) : c = <<u, i>> /\ Q[u][i] = m
    BY CopyAt
  <2>2. \A c \in B : c \in Copies(Q, m)
    OBVIOUS
  <2>3. QED
    BY <2>1, <2>2
<1>5. \A i \in 1 .. Len(P[v]) : i + 1 \in 1 .. Len(Q[v]) /\ i + 1 # 1 /\ i \in Int
  BY <1>1
<1>6. ASSUME NEW c \in A
      PROVE  f[c] \in B
  <2>1a. PICK u \in Workers : \E i \in 1 .. Len(P[u]) : c = <<u, i>> /\ P[u][i] = m
    BY <1>3
  <2>1. PICK i \in 1 .. Len(P[u]) : c = <<u, i>> /\ P[u][i] = m
    BY <2>1a
  <2>2. CASE u = v
    <3>1. f[c] = <<v, i + 1>>
      BY <2>1, <2>2
    <3>2. Q[v][i + 1] = m /\ i + 1 \in 1 .. Len(Q[v]) /\ i + 1 # 1
      BY <1>1, <1>5, <2>1, <2>2
    <3>3. <<v, i + 1>> \in Copies(Q, m)
      BY <1>2, <3>2
    <3>4. <<v, i + 1>> # <<v, 1>>
      BY <3>2
    <3>5. QED
      BY <3>1, <3>3, <3>4
  <2>3. CASE u # v
    <3>1. f[c] = c
      BY <2>1, <2>3
    <3>2. QED
      BY <1>1, <1>2, <2>1, <2>3, <3>1
  <2>4. QED
    BY <2>2, <2>3
<1>7. ASSUME NEW c \in A, NEW d \in A, f[c] = f[d]
      PROVE  c = d
  <2>1a. PICK u \in Workers : \E i \in 1 .. Len(P[u]) : c = <<u, i>>
    BY <1>3
  <2>1. PICK i \in 1 .. Len(P[u]) : c = <<u, i>>
    BY <2>1a
  <2>2a. PICK t \in Workers : \E j \in 1 .. Len(P[t]) : d = <<t, j>>
    BY <1>3
  <2>2. PICK j \in 1 .. Len(P[t]) : d = <<t, j>>
    BY <2>2a
  <2>3. f[c] = (IF u = v THEN <<v, i + 1>> ELSE <<u, i>>) /\ f[d] = (IF t = v THEN <<v, j + 1>> ELSE <<t, j>>)
    BY <2>1, <2>2
  <2> HIDE DEF f
  <2>4. CASE u = v /\ t = v
    <3>1. i \in Int /\ j \in Int /\ i + 1 = j + 1
      BY <1>5, <1>7, <2>1, <2>2, <2>3, <2>4
    <3>2. QED
      BY <2>1, <2>2, <2>4, <3>1
  <2>5. CASE ~(u = v /\ t = v)
    BY <1>7, <2>1, <2>2, <2>3, <2>5
  <2>6. QED
    BY <2>4, <2>5
<1>8. ASSUME NEW b \in B
      PROVE  \E c \in A : f[c] = b
  <2>1a. PICK u \in Workers : \E i \in 1 .. Len(Q[u]) : b = <<u, i>> /\ Q[u][i] = m
    BY <1>4
  <2>1. PICK i \in 1 .. Len(Q[u]) : b = <<u, i>> /\ Q[u][i] = m
    BY <2>1a
  <2>2. CASE u = v
    <3>1. i # 1
      BY <2>1, <2>2
    <3>2. i - 1 \in 1 .. Len(P[v]) /\ (i - 1) + 1 = i
      BY <1>1, <2>1, <2>2, <3>1
    <3>3. P[v][i - 1] = m
      BY <1>1, <2>1, <2>2, <3>2
    <3>4. <<v, i - 1>> \in A
      BY <1>2, <3>2, <3>3
    <3>5. f[<<v, i - 1>>] = b
      BY <2>1, <2>2, <3>2, <3>4
    <3>6. QED
      BY <3>4, <3>5
  <2>3. CASE u # v
    <3>1. b \in A
      BY <1>1, <1>2, <2>1, <2>3
    <3>2. f[b] = b
      BY <2>1, <2>3, <3>1
    <3>3. QED
      BY <3>1, <3>2
  <2>4. QED
    BY <2>2, <2>3
<1>9. f \in Bijection(A, B)
  <2>1. f \in [A -> B]
    BY <1>6
  <2> HIDE DEF f, A, B
  <2>2. QED
    BY <1>7, <1>8, <2>1, Fun_IsBij
<1>10. P \in Streams(S)
  BY <1>0, HeadTailProperties DEF Streams
<1>11. IsFiniteSet(A)
  BY <1>10, CopiesFinite
<1>12. Cardinality(A) = Cardinality(B)
  <2> HIDE DEF f, A, B
  <2>1. ExistsBijection(A, B)
    BY <1>9 DEF ExistsBijection
  <2>2. QED
    BY <1>11, <2>1, FS_Bijection
<1>13. <<v, 1>> \in Copies(Q, m) <=> Head(Q[v]) = m
  BY <1>1, <1>2
<1>14. IsFiniteSet(Copies(Q, m)) /\ Cardinality(Copies(Q, m)) \in Nat
  BY CopiesFinite
<1>15. Cardinality(B) = IF <<v, 1>> \in Copies(Q, m) THEN Cardinality(Copies(Q, m)) - 1 ELSE Cardinality(Copies(Q, m))
  BY <1>14, FS_RemoveElement
<1>16. QED
  <2> HIDE DEF f, B
  <2>1. QED
    BY <1>12, <1>13, <1>14, <1>15

\* Cutting a stream takes a copy away, or none.
LEMMA CopiesCut ==
  ASSUME NEW S, NEW Q \in Streams(S), NEW m, NEW v \in Workers, NEW n \in 0 .. Len(Q[v]),
         NEW P, Lost(Q, P, v, n)
  PROVE  Copies(P, m) = Copies(Q, m) \/ \E i \in 1 .. Len(Q[v]) : i > n /\ Q[v][i] = m
<1> SUFFICES ASSUME \A i \in 1 .. Len(Q[v]) : i > n => Q[v][i] # m
             PROVE  Copies(P, m) = Copies(Q, m)
  OBVIOUS
<1>1. /\ Len(Q[v]) \in Nat /\ n \in Int /\ Len(P[v]) = n
      /\ \A i \in 1 .. n : P[v][i] = Q[v][i] /\ i \in 1 .. Len(Q[v])
      /\ \A u \in Workers \ {v} : P[u] = Q[u]
  <2>1. Len(Q[v]) \in Nat /\ n \in Int /\ \A k \in 1 .. n : Q[v][k] \in S /\ k \in 1 .. Len(Q[v])
    BY LenProperties, ElementOfSeq DEF Streams
  <2>2. Q \in [Workers -> Seq(S)] /\ P[v] = SubSeq(Q[v], 1, n) /\ \A u \in Workers \ {v} : P[u] = Q[u]
    BY DEF Streams, Lost
  <2>3. Len(P[v]) = n /\ \A k \in 1 .. n : P[v][k] = Q[v][k]
    BY <2>1, <2>2, SubSeqProperties
  <2>4. QED
    BY <2>1, <2>2, <2>3
<1>2. ASSUME NEW u \in Workers, NEW i
      PROVE  <<u, i>> \in Copies(P, m) <=> <<u, i>> \in Copies(Q, m)
  <2>1. /\ <<u, i>> \in Copies(P, m) <=> i \in 1 .. Len(P[u]) /\ P[u][i] = m
        /\ <<u, i>> \in Copies(Q, m) <=> i \in 1 .. Len(Q[u]) /\ Q[u][i] = m
    BY DEF Copies
  <2>2. i \in 1 .. Len(Q[v]) => i \in 1 .. n \/ i > n
    BY <1>1
  <2>3. QED
    BY <1>1, <2>1, <2>2
<1>3. Copies(P, m) \subseteq Copies(Q, m) /\ Copies(Q, m) \subseteq Copies(P, m)
  BY <1>2, CopiesWithin
<1>4. QED
  BY <1>3

-----------------------------------------------------------------------------
(***************************************************************************)
(* Once a message is lost its destination never computes the superstep     *)
(* after it.                                                               *)
(***************************************************************************)

\* Nothing gets into a broken stream.
LEMMA BrokenStreams ==
  ASSUME TypeOK, [Next]_vars, NEW v \in Workers, link[v] = "down"
  PROVE  /\ link'[v] = "down"
         /\ Quiet(toMaster[v], toMaster'[v]) /\ Quiet(toWorker[v], toWorker'[v])
<1> DEFINE Same(q, p) == p = q \/ (q # <<>> /\ p = Tail(q))
           Goal == link'[v] = "down" /\ Same(toMaster[v], toMaster'[v]) /\ Same(toWorker[v], toWorker'[v])
<1>0. /\ DOMAIN link = Workers /\ DOMAIN toMaster = Workers /\ DOMAIN toWorker = Workers
      /\ toMaster[v] \in Seq(WorkerPayload) /\ toWorker[v] \in Seq(MasterPayload)
  BY DEF TypeOK, StreamTypeOK
<1>1. ASSUME NEW u \in Workers, NEW a, NEW b, Cut(u, a, b)
      PROVE  Goal
  BY <1>0, <1>1 DEF Cut
<1>2. ASSUME MasterStep
      PROVE  Goal
  <2>1. CASE \E u \in Workers : MasterClosesStream(u)
    BY <1>1, <2>1 DEF MasterClosesStream
  <2>2. CASE \E u \in Workers : PublishJobDetails(u)
    BY <1>0, <2>2 DEF PublishJobDetails, SendToWorker
  <2>3. CASE ~\E u \in Workers : MasterClosesStream(u) \/ PublishJobDetails(u)
    BY <1>2, <2>3 DEF MasterStep, MasterStartsJob, MasterStartFails, MasterBeginsSuperstep,
       AllWorkersArrived, AllWorkersNotified, MasterCompletesJob, MasterCompleteFails, MasterAborts,
       MasterContextExpires, MasterSeesDisconnect, MasterOnly, streamVars
  <2>4. QED
    BY <2>1, <2>2, <2>3
<1>3. ASSUME NEW u \in Workers, HandlerStep(u)
      PROVE  Goal
  BY <1>0, <1>3 DEF HandlerStep, HandlerTakesStep, HandlerTakesRelay, HandlerJoins, HandlerNotified, HandlerSends,
     HandlerDrops, HandlerExits, HandlerOnly, SendToWorker
<1>4. ASSUME NEW u \in Workers, WorkerStep(u)
      PROVE  Goal
  <2>1. CASE WorkerContextExpires(u) \/ WorkerClosesStream(u)
    BY <1>1, <2>1 DEF WorkerContextExpires, WorkerClosesStream
  <2>2. CASE WorkerTakesJob(u) \/ WorkerEnters(u) \/ \E d \in Workers, known \in BOOLEAN : WorkerRelays(u, d, known)
    BY <1>0, <2>2 DEF WorkerTakesJob, WorkerEnters, WorkerRelays, SendToMaster
  <2>3. CASE ~(\/ WorkerContextExpires(u) \/ WorkerClosesStream(u) \/ WorkerTakesJob(u) \/ WorkerEnters(u)
               \/ \E d \in Workers, known \in BOOLEAN : WorkerRelays(u, d, known))
    BY <1>4, <2>3 DEF WorkerStep, WorkerGetsNoJob, WorkerStartsJob, WorkerStartFails,
       WorkerBeginsSuperstep, WorkerEndsStep, WorkerStepFails,
       WorkerLeavesPre, WorkerLeavesPost, WorkerLeavesKeep, WorkerLeavesExecuted, WorkerLeavesPersisted,
       Leaves, WorkerCompletesJob, WorkerCompleteFails, WorkerAborts, streamVars
  <2>4. QED
    BY <2>1, <2>2, <2>3
<1>5. ASSUME NEW u \in Workers, ReceiverStep(u)
      PROVE  Goal
  BY <1>0, <1>5 DEF ReceiverStep, ReceiverTakesStep, ReceiverTakesRelay, ReceiverBounces, ReceiverExits,
     WorkerSeesDisconnect, WorkerOnly, SendToMaster
<1>6. ASSUME NEW u \in Workers, LinkBreaks(u)
      PROVE  Goal
  BY <1>1, <1>6 DEF LinkBreaks
<1>7. ASSUME UNCHANGED vars
      PROVE  Goal
  BY <1>7 DEF vars, streamVars
<1>8. Goal
  BY <1>2, <1>3, <1>4, <1>5, <1>6, <1>7 DEF Next, Stutter
<1>9. QED
  BY <1>0, <1>8, StepTaken DEF Quiet

\* How the master leaves a superstep.
LEMMA MasterMoves ==
  ASSUME TypeOK, [Next]_vars
  PROVE  /\ mctx = "done" => mctx' = "done"
         /\ mpc' # "done" =>
              \/ mpc # "done" /\ mstep' = mstep /\ (mpc = "check" => mpc' = "check" \/ mctx = "live")
              \/ mpc = "notify" /\ mpc' = "check" /\ mstep' = mstep + 1
<1>1. CASE MasterStep
  <2>1. mctx = "done" => mctx' = "done"
    BY <1>1 DEF MasterStep, MasterStartsJob, MasterStartFails, PublishJobDetails, MasterBeginsSuperstep,
       AllWorkersArrived, AllWorkersNotified, MasterCompletesJob, MasterCompleteFails, MasterAborts, MasterReturns,
       MasterContextExpires, MasterSeesDisconnect, MasterClosesStream
  <2>2. mpc' # "done" =>
          \/ mpc # "done" /\ mstep' = mstep /\ (mpc = "check" => mpc' = "check" \/ mctx = "live")
          \/ mpc = "notify" /\ mpc' = "check" /\ mstep' = mstep + 1
    BY <1>1 DEF MasterStep, MasterStartsJob, MasterStartFails, PublishJobDetails, MasterBeginsSuperstep,
       AllWorkersArrived, AllWorkersNotified, MasterCompletesJob, MasterCompleteFails, MasterAborts, MasterReturns,
       EnterBarrier, MasterContextExpires, MasterSeesDisconnect, MasterClosesStream, masterVars
  <2>3. QED
    BY <2>1, <2>2
<1>2. ASSUME NEW w \in Workers, HandlerStep(w)
      PROVE  UNCHANGED <<mpc, mstep>> /\ (mctx = "done" => mctx' = "done")
  BY <1>2 DEF HandlerStep, HandlerTakesStep, HandlerTakesRelay, HandlerJoins, HandlerNotified, HandlerSends,
     HandlerDrops, HandlerExits, HandlerOnly
<1>3. ASSUME NEW w \in Workers, WorkerStep(w) \/ ReceiverStep(w) \/ LinkBreaks(w)
      PROVE  UNCHANGED <<mpc, mstep, mctx>>
  <2>1. CASE WorkerStep(w)
    BY <2>1, WorkerSideKeepsBarrier DEF MasterSide, masterVars
  <2>2. CASE ReceiverStep(w) \/ LinkBreaks(w)
    BY <2>2 DEF ReceiverStep, ReceiverTakesStep, ReceiverTakesRelay, ReceiverBounces, ReceiverExits,
       WorkerSeesDisconnect, WorkerOnly, MasterSide, LinkBreaks, masterVars
  <2>3. QED
    BY <1>3, <2>1, <2>2
<1>4. CASE UNCHANGED vars
  BY <1>4 DEF vars, masterVars
<1>5. QED
  BY <1>1, <1>2, <1>3, <1>4 DEF Next, Stutter

\* Each of the three reasons why a superstep is never computed stays one.
LEMMA AbortingKept ==
  ASSUME TypeOK, SumInv, [Next]_vars, NEW s \in Nat, Aborting(s)
  PROVE  Aborting(s)'
<1>0. /\ mctx = "done"
      /\ mpc # "done" => mstep <= s \/ (mstep = s + 1 /\ mpc = "check")
      /\ \A u \in Workers : wstep[u] <= s \/ (passed[u] <= 3 * s + 3 /\ (passed[u] = 3 * s + 3 => Replies(u) = {}))
      /\ \A u \in Workers : passed[u] \in Nat /\ wstep[u] \in Nat
      /\ mstep \in Nat
  BY RoundTypes DEF Aborting, NotTold
<1>1. mctx' = "done"
  BY <1>0, MasterMoves
<1>2. mpc' # "done" => mstep' <= s \/ (mstep' = s + 1 /\ mpc' = "check")
  BY <1>0, MasterMoves
<1>3. ASSUME NEW u \in Workers
      PROVE  wstep'[u] <= s \/ NotTold(u, 3 * s + 3)'
  <2>1. ASSUME HandlerNotified(u)
        PROVE  wstep[u] <= s
    <3>1. hpc[u] = "joined" /\ mpc = "notify"
      BY <2>1 DEF HandlerNotified
    <3>2. passed[u] = round
      BY <3>1 DEF SumInv, AgreeInv, LockInv, BarrierBooks, RoundBooks
    <3>3. wstep[u] = mstep
      BY <3>1, <3>2 DEF SumInv, AgreeInv, MasterAgrees
    <3>4. QED
      BY <1>0, <3>1, <3>3
  <2>2. CASE /\ passed'[u] = passed[u] /\ wstep'[u] = wstep[u]
             /\ \A m \in Replies(u)' : m \in Replies(u) \/ HandlerNotified(u)
    BY <1>0, <2>1, <2>2 DEF NotTold
  <2>3. CASE /\ passed'[u] = passed[u] + 1
             /\ wstep'[u] = After(Into(u), wstep[u], rmsg[u].val)
             /\ Replies(u) # {} /\ Replies(u)' = {}
    <3>1. CASE wstep[u] <= s
      <4>1. wstep'[u] = wstep[u] \/ (wstep'[u] = wstep[u] + 1 /\ Into(u) = 2)
        BY <2>3 DEF After
      <4>2. CASE wstep'[u] <= s
        BY <4>2
      <4>3. CASE wstep[u] = s /\ Into(u) = 2
        <5>1. passed'[u] = 3 * s + 3
          BY <1>0, <2>3, <4>3 DEF Into
        <5>2. QED
          BY <2>3, <5>1 DEF NotTold
      <4>4. QED
        BY <1>0, <3>1, <4>1, <4>2, <4>3
    <3>2. CASE wstep[u] > s
      <4>1. passed[u] - 3 * wstep[u] >= 0
        BY <1>0 DEF SumInv, AgreeInv, PlaceBooks, Into
      <4>2. passed[u] = 3 * s + 3
        BY <1>0, <3>2, <4>1
      <4>3. QED
        BY <1>0, <2>3, <3>2, <4>2
    <3>3. QED
      BY <1>0, <3>1, <3>2
  <2>4. QED
    BY <2>2, <2>3, RoundMoves
<1>4. QED
  BY <1>1, <1>2, <1>3 DEF Aborting

LEMMA CutOffKept ==
  ASSUME TypeOK, SumInv, [Next]_vars, NEW w \in Workers, NEW s \in Nat, CutOff(w, s)
  PROVE  CutOff(w, s)'
<1>0. /\ link[w] = "down" /\ passed[w] <= 3 * s + 1 /\ passed[w] \in Nat
      /\ passed[w] = 3 * s + 1 => NoStep(toWorker[w]) /\ rpc[w] # "notify"
  BY RoundTypes DEF CutOff
<1>1. link'[w] = "down" /\ (NoStep(toWorker[w]) => NoStep(toWorker'[w]))
  BY <1>0, BrokenStreams DEF Quiet
<1>2. CASE LeavesAny(w)
  <2>1. /\ rpc[w] = "notify" /\ Replies(w)' = {} /\ toWorker' = toWorker
        /\ passed' = [passed EXCEPT ![w] = @ + 1]
    BY <1>2, LeavesForNext DEF SumInv, AgreeInv
  <2>2. NoStep(toWorker[w])
    BY <2>1 DEF SumInv, AgreeInv, LockInv, TokenBooks
  <2>3. rpc'[w] # "notify"
    BY <2>1 DEF Replies
  <2>4. passed'[w] = passed[w] + 1
    BY <2>1 DEF TypeOK, HistoryTypeOK
  <2>5. QED
    BY <1>0, <1>1, <2>1, <2>2, <2>3, <2>4 DEF CutOff
<1>3. CASE ~LeavesAny(w)
  <2>1. passed'[w] = passed[w]
    BY <1>3, RoundMoves
  <2>2. NoStep(toWorker[w]) => ~ReceiverTakesStep(w)
    BY HeadIsFirst DEF ReceiverTakesStep, NoStep
  <2>3. QED
    BY <1>0, <1>1, <2>1, <2>2, ReceiverMoves DEF CutOff
<1>4. QED
  BY <1>2, <1>3

LEMMA MissingKept ==
  ASSUME TypeOK, SumInv, [Next]_vars, NEW s \in Nat, Missing(s)
  PROVE  Missing(s)'
<1>1. PICK v \in Workers : link[v] = "down" /\ NoStep(toMaster[v]) /\ Held(v, 3 * s + 1)
  BY DEF Missing
<1>2. link'[v] = "down" /\ NoStep(toMaster'[v])
  BY <1>1, BrokenStreams DEF Quiet
<1>3. ~HandlerTakesStep(v)
  BY <1>1, HeadIsFirst DEF HandlerTakesStep, NoStep
<1>4. 3 * s + 1 \in Nat
  OBVIOUS
<1>5. Held(v, 3 * s + 1)'
  BY <1>1, <1>3, <1>4, HeldKept
<1>6. QED
  BY <1>2, <1>5 DEF Missing

\* What is doomed stays so.
LEMMA DoomedKept ==
  ASSUME TypeOK, SumInv, [Next]_vars, NEW w \in Workers, NEW s \in Nat, Doomed(w, s)
  PROVE  Doomed(w, s)'
  BY AbortingKept, CutOffKept, MissingKept DEF Doomed

\* Whoever computes a superstep was not kept from it.
LEMMA NotDoomed ==
  ASSUME TypeOK, SumInv, NEW w \in Workers, wpc[w] = "compute", wstep[w] > 0
  PROVE  ~Doomed(w, wstep[w] - 1)
<1>1. /\ passed[w] = 3 * wstep[w] + 1 /\ wstep[w] \in Nat /\ passed[w] \in Nat
  BY Computing, RoundTypes DEF SumInv
<1>2. ~Aborting(wstep[w] - 1)
  BY <1>1 DEF Aborting, NotTold
<1>3. ~CutOff(w, wstep[w] - 1)
  BY <1>1 DEF CutOff
<1>4. ~Missing(wstep[w] - 1)
  BY <1>1 DEF Missing, Held, Shut, NotTold
<1>5. QED
  BY <1>2, <1>3, <1>4 DEF Doomed

-----------------------------------------------------------------------------
(***************************************************************************)
(* A message is queued, on its way or lost.                                *)
(***************************************************************************)
Up(m)   == Cardinality(Copies(toMaster, m))
Down(m) == Cardinality(Copies(toWorker, m))

\* The counts of a message are numbers.
LEMMA FlightTypes ==
  ASSUME TypeOK, NEW m
  PROVE  /\ Up(m) \in Nat /\ Down(m) \in Nat
         /\ IsFiniteSet(Carried(m)) /\ Cardinality(Carried(m)) \in Nat
         /\ Flight(m) = Up(m) + Cardinality(Carried(m)) + Down(m)
<1>1. toMaster \in Streams(WorkerPayload) /\ toWorker \in Streams(MasterPayload)
  BY DEF TypeOK, StreamTypeOK, Streams
<1>2. Up(m) \in Nat /\ Down(m) \in Nat
  BY <1>1, CopiesFinite DEF Up, Down
<1>3. IsFiniteSet(Carried(m)) /\ Cardinality(Carried(m)) \in Nat
  BY WorkersAssumption, FS_Subset, FS_CardinalityType DEF Carried
<1>4. QED
  BY <1>2, <1>3 DEF Flight, Up, Down

\* What the handlers carry changes with one of them.
LEMMA CarriedMoves ==
  ASSUME TypeOK, NEW m, NEW v \in Workers,
         \A u \in Workers \ {v} : (hpc'[u] = "relay" /\ hmsg'[u] = m) <=> (hpc[u] = "relay" /\ hmsg[u] = m)
  PROVE  Cardinality(Carried(m)') = Cardinality(Carried(m))
            + (IF hpc'[v] = "relay" /\ hmsg'[v] = m THEN 1 ELSE 0)
            - (IF hpc[v] = "relay" /\ hmsg[v] = m THEN 1 ELSE 0)
<1> DEFINE C == Carried(m)
           D == Carried(m)'
           in == hpc'[v] = "relay" /\ hmsg'[v] = m
           out == hpc[v] = "relay" /\ hmsg[v] = m
<1>1. /\ \A u \in Workers : u \in D <=> (hpc'[u] = "relay" /\ hmsg'[u] = m)
      /\ \A u \in Workers : u \in C <=> (hpc[u] = "relay" /\ hmsg[u] = m)
      /\ C \subseteq Workers /\ D \subseteq Workers
  BY DEF Carried
<1>2. (v \in D <=> in) /\ (v \in C <=> out)
  BY <1>1
<1>3. \A u \in Workers : u # v => (u \in D <=> u \in C)
  BY <1>1
<1>4. IsFiniteSet(C) /\ Cardinality(C) \in Nat
  BY FlightTypes
<1> HIDE DEF C, D, in, out
<1>5. CASE in /\ ~out
  <2>1. D = C \cup {v} /\ v \notin C
    BY <1>1, <1>2, <1>3, <1>5
  <2>2. Cardinality(D) = Cardinality(C) + 1
    BY <1>4, <2>1, FS_AddElement
  <2>3. QED
    BY <1>4, <1>5, <2>2 DEF C, D, in, out
<1>6. CASE ~in /\ out
  <2>1. D = C \ {v} /\ v \in C
    BY <1>1, <1>2, <1>3, <1>6
  <2>2. Cardinality(D) = Cardinality(C) - 1
    BY <1>4, <2>1, FS_RemoveElement
  <2>3. QED
    BY <1>4, <1>6, <2>2 DEF C, D, in, out
<1>7. CASE in <=> out
  <2>1. D = C
    BY <1>1, <1>2, <1>3, <1>7
  <2>2. QED
    BY <1>4, <1>7, <2>1 DEF C, D, in, out
<1>8. QED
  BY <1>5, <1>6, <1>7

\* What sending and taking do to the count of a message.
LEMMA SentUp ==
  ASSUME TypeOK, NEW m, NEW v \in Workers, NEW x \in WorkerPayload, SendToMaster(v, x)
  PROVE  Up(m)' = Up(m) + (IF x = m /\ link[v] = "up" THEN 1 ELSE 0)
<1>0. toMaster \in Streams(WorkerPayload) /\ Up(m) \in Nat /\ Up(m)' = Cardinality(Copies(toMaster', m))
  BY FlightTypes DEF TypeOK, StreamTypeOK, Streams, Up
<1>1. CASE link[v] = "up"
  <2>1. Put(toMaster, toMaster', v, x)
    BY <1>1 DEF Put, SendToMaster
  <2>2. Cardinality(Copies(toMaster', m)) = Cardinality(Copies(toMaster, m)) + (IF x = m THEN 1 ELSE 0)
    BY <1>0, <2>1, CopiesAppended
  <2>3. QED
    BY <1>0, <1>1, <2>2 DEF Up
<1>2. CASE link[v] # "up"
  <2>1. toMaster' = toMaster
    BY <1>2 DEF SendToMaster
  <2>2. QED
    BY <1>0, <1>2, <2>1 DEF Up
<1>3. QED
  BY <1>1, <1>2

LEMMA SentDown ==
  ASSUME TypeOK, NEW m, NEW v \in Workers, NEW x \in MasterPayload, SendToWorker(v, x)
  PROVE  Down(m)' = Down(m) + (IF x = m /\ link[v] = "up" THEN 1 ELSE 0)
<1>0. toWorker \in Streams(MasterPayload) /\ Down(m) \in Nat /\ Down(m)' = Cardinality(Copies(toWorker', m))
  BY FlightTypes DEF TypeOK, StreamTypeOK, Streams, Down
<1>1. CASE link[v] = "up"
  <2>1. Put(toWorker, toWorker', v, x)
    BY <1>1 DEF Put, SendToWorker
  <2>2. Cardinality(Copies(toWorker', m)) = Cardinality(Copies(toWorker, m)) + (IF x = m THEN 1 ELSE 0)
    BY <1>0, <2>1, CopiesAppended
  <2>3. QED
    BY <1>0, <1>1, <2>2 DEF Down
<1>2. CASE link[v] # "up"
  <2>1. toWorker' = toWorker
    BY <1>2 DEF SendToWorker
  <2>2. QED
    BY <1>0, <1>2, <2>1 DEF Down
<1>3. QED
  BY <1>1, <1>2

LEMMA TakenUp ==
  ASSUME TypeOK, NEW m, NEW v \in Workers, Taken(toMaster, toMaster', v)
  PROVE  Up(m)' = Up(m) - (IF Head(toMaster[v]) = m THEN 1 ELSE 0)
<1>1. toMaster \in Streams(WorkerPayload) /\ Up(m)' = Cardinality(Copies(toMaster', m))
  BY DEF TypeOK, StreamTypeOK, Streams, Up
<1>2. Cardinality(Copies(toMaster', m)) = Cardinality(Copies(toMaster, m)) - (IF Head(toMaster[v]) = m THEN 1 ELSE 0)
  BY <1>1, CopiesTaken
<1>3. QED
  BY <1>1, <1>2 DEF Up

LEMMA TakenDown ==
  ASSUME TypeOK, NEW m, NEW v \in Workers, Taken(toWorker, toWorker', v)
  PROVE  Down(m)' = Down(m) - (IF Head(toWorker[v]) = m THEN 1 ELSE 0)
<1>1. toWorker \in Streams(MasterPayload) /\ Down(m)' = Cardinality(Copies(toWorker', m))
  BY DEF TypeOK, StreamTypeOK, Streams, Down
<1>2. Cardinality(Copies(toWorker', m)) = Cardinality(Copies(toWorker, m)) - (IF Head(toWorker[v]) = m THEN 1 ELSE 0)
  BY <1>1, CopiesTaken
<1>3. QED
  BY <1>1, <1>2 DEF Down

\* A step that moves no relayed message.
LEMMA FlightKept ==
  ASSUME TypeOK, NEW m, Up(m)' = Up(m), Down(m)' = Down(m),
         \A u \in Workers : (hpc'[u] = "relay" /\ hmsg'[u] = m) <=> (hpc[u] = "relay" /\ hmsg[u] = m)
  PROVE  Flight(m)' = Flight(m)
<1>1. Carried(m)' = Carried(m)
  BY DEF Carried
<1>2. Cardinality(Carried(m))' = Cardinality(Carried(m))
  BY <1>1
<1>3. QED
  BY <1>2 DEF Flight, Up, Down

\* Nothing sent in superstep s is on its way to one that is not ready for it.
LEMMA NoFlight ==
  ASSUME TypeOK, RelayInv, NEW w \in Workers, NEW s \in Nat, ~Ready(w, s)
  PROVE  Flight(Known(w, s)) = 0
<1> DEFINE m == Known(w, s)
<1>0. m.type = "relay" /\ m.known /\ m.dst = w /\ m.sent = s
  BY DEF Known
<1> HIDE DEF m
<1>1. Copies(toMaster, m) = {}
  <2>1. \A v \in Workers : \A i \in 1 .. Len(toMaster[v]) : toMaster[v][i] # m
    BY <1>0 DEF RelayInv, UpStream
  <2>2. QED
    BY <2>1, CopyAt
<1>2. Copies(toWorker, m) = {}
  <2>1. \A v \in Workers : \A i \in 1 .. Len(toWorker[v]) : toWorker[v][i] # m
    BY <1>0 DEF RelayInv, DownStream
  <2>2. QED
    BY <2>1, CopyAt
<1>3. Carried(m) = {}
  BY <1>0 DEF Carried, RelayInv, AtHandler
<1>4. Flight(m) = 0
  BY <1>1, <1>2, <1>3, FS_EmptySet DEF Flight
<1>5. QED
  BY <1>4 DEF m

-----------------------------------------------------------------------------
(***************************************************************************)
(* No step loses a message, or makes one, unless the superstep after it is *)
(* never computed.                                                         *)
(***************************************************************************)
Carry(m) == Cardinality(Carried(m))

Conserves(w, s) == Doomed(w, s)' \/ Balance(w, s)' = Balance(w, s)

\* The balance of a worker and a superstep, part by part.
LEMMA BalanceParts ==
  ASSUME TypeOK, NEW w \in Workers, NEW s \in Supersteps, NEW k, k = Known(w, s)
  PROVE  /\ Balance(w, s) = inbox[w][(s + 1) % 2] + (Up(k) + Carry(k) + Down(k)) - sentTo[w][s]
         /\ Balance(w, s)' = inbox'[w][(s + 1) % 2] + (Up(k)' + Carry(k)' + Down(k)') - sentTo'[w][s]
         /\ Up(k) \in Nat /\ Carry(k) \in Nat /\ Down(k) \in Nat
         /\ inbox[w][(s + 1) % 2] \in Nat /\ inbox[w][s % 2] \in Nat /\ sentTo[w][s] \in Nat
         /\ s \in Nat /\ (s + 1) % 2 \in {0, 1} /\ s % 2 \in {0, 1} /\ (s + 1) % 2 # s % 2
         /\ k.type = "relay" /\ k.dst = w /\ k.known /\ k.sent = s
<1>1. s \in Nat
  BY BoundsAssumption DEF Supersteps
<1>2. (s + 1) % 2 \in {0, 1} /\ s % 2 \in {0, 1} /\ (s + 1) % 2 # s % 2
  BY <1>1
<1>3. Up(k) \in Nat /\ Carry(k) \in Nat /\ Down(k) \in Nat
  BY FlightTypes DEF Carry
<1>4. inbox[w] \in [{0, 1} -> Nat] /\ sentTo[w] \in [Supersteps -> Nat]
  BY DEF TypeOK, WorkerTypeOK, HistoryTypeOK
<1>5. Balance(w, s) = inbox[w][(s + 1) % 2] + (Up(k) + Carry(k) + Down(k)) - sentTo[w][s]
  BY DEF Balance, Flight, Up, Carry, Down
<1>6. Balance(w, s)' = inbox'[w][(s + 1) % 2] + (Up(k)' + Carry(k)' + Down(k)') - sentTo'[w][s]
  BY DEF Balance, Flight, Up, Carry, Down
<1>7. QED
  BY <1>1, <1>2, <1>3, <1>4, <1>5, <1>6 DEF Known

\* The counts in the streams stay with the streams, and the others with the handlers.
LEMMA CountsKept ==
  ASSUME TypeOK, NEW k
  PROVE  /\ UNCHANGED toMaster => Up(k)' = Up(k)
         /\ UNCHANGED toWorker => Down(k)' = Down(k)
         /\ (\A u \in Workers : (hpc'[u] = "relay" /\ hmsg'[u] = k) <=> (hpc[u] = "relay" /\ hmsg[u] = k))
               => Carry(k)' = Carry(k)
<1>1. UNCHANGED toMaster => Up(k)' = Up(k)
  BY DEF Up
<1>2. UNCHANGED toWorker => Down(k)' = Down(k)
  BY DEF Down
<1>3. ASSUME \A u \in Workers : (hpc'[u] = "relay" /\ hmsg'[u] = k) <=> (hpc[u] = "relay" /\ hmsg[u] = k)
      PROVE  Carry(k)' = Carry(k)
  <2>1. Carried(k)' = Carried(k)
    BY <1>3 DEF Carried
  <2>2. QED
    BY <2>1 DEF Carry
<1>4. QED
  BY <1>1, <1>2, <1>3

LEMMA BalanceKept ==
  ASSUME TypeOK, NEW w \in Workers, NEW s \in Supersteps, NEW k, k = Known(w, s),
         Up(k)' = Up(k), Down(k)' = Down(k), Carry(k)' = Carry(k),
         inbox'[w][(s + 1) % 2] = inbox[w][(s + 1) % 2], sentTo'[w][s] = sentTo[w][s]
  PROVE  Conserves(w, s)
  BY BalanceParts DEF Conserves

\* No step changes the balance unless it dooms the worker: one lemma per
\* process.
LEMMA ConservedByCut ==
  ASSUME TypeOK, RelayInv, [Next]_vars, NEW w \in Workers, NEW s \in Supersteps, wstep[w] = s,
         NEW v \in Workers, NEW i \in 0 .. Len(toMaster[v]), NEW j \in 0 .. Len(toWorker[v]),
         Cut(v, i, j), UNCHANGED <<hpc, hmsg, inbox, sentTo, passed, rpc>>
  PROVE  Conserves(w, s)
<1> DEFINE k == Known(w, s)
<1>0. /\ s \in Nat /\ k.type = "relay" /\ k.dst = w /\ k.known /\ k.sent = s
      /\ link'[v] = "down" /\ Lost(toMaster, toMaster', v, i) /\ Lost(toWorker, toWorker', v, j)
      /\ toMaster \in Streams(WorkerPayload) /\ toWorker \in Streams(MasterPayload)
      /\ Len(toMaster[v]) \in Nat /\ Len(toWorker[v]) \in Nat /\ SumInv
  <2>1. s \in Nat /\ k.type = "relay" /\ k.dst = w /\ k.known /\ k.sent = s
    BY BalanceParts
  <2>2. link'[v] = "down" /\ Lost(toMaster, toMaster', v, i) /\ Lost(toWorker, toWorker', v, j)
    BY DEF Cut, Lost, TypeOK, StreamTypeOK
  <2>3. toMaster \in Streams(WorkerPayload) /\ toWorker \in Streams(MasterPayload)
    BY DEF TypeOK, StreamTypeOK, Streams
  <2>4. QED
    BY <2>1, <2>2, <2>3, RelayTypes DEF RelayInv
<1> HIDE DEF k
<1>1. /\ toMaster'[v] = SubSeq(toMaster[v], 1, i) /\ toWorker'[v] = SubSeq(toWorker[v], 1, j)
      /\ toMaster[v] \in Seq(WorkerPayload) /\ toWorker[v] \in Seq(MasterPayload)
  BY <1>0 DEF Lost, Streams
<1>2. /\ Len(toMaster'[v]) = i /\ \A n \in 1 .. i : toMaster'[v][n] = toMaster[v][n]
      /\ Len(toWorker'[v]) = j /\ \A n \in 1 .. j : toWorker'[v][n] = toWorker[v][n]
  BY <1>0, <1>1, SubSeqProperties, ElementOfSeq
<1>3. ASSUME NEW n \in 1 .. Len(toMaster[v]), n > i, toMaster[v][n] = k
      PROVE  Missing(s)'
  <2>1. Ahead(toMaster[v], n) /\ Held(v, 3 * s + 1)
    BY <1>0, <1>3 DEF RelayInv, UpStream
  <2>2. NoStep(toMaster'[v])
    BY <1>0, <1>2, <1>3, <2>1 DEF NoStep, Ahead
  <2>3. ~HandlerTakesStep(v)
    BY <1>0 DEF HandlerTakesStep, HandlerOnly, Cut
  <2>4. 3 * s + 1 \in Nat
    BY <1>0
  <2>5. Held(v, 3 * s + 1)'
    BY <1>0, <2>1, <2>3, <2>4, HeldKept
  <2>6. QED
    BY <1>0, <2>2, <2>5 DEF Missing
<1>4. ASSUME NEW n \in 1 .. Len(toWorker[v]), n > j, toWorker[v][n] = k
      PROVE  CutOff(w, s)'
  <2>1. v = w /\ Ready(w, s) /\ (passed[w] = 3 * s + 1 => rpc[w] # "notify" /\ Ahead(toWorker[w], n))
    BY <1>0, <1>4 DEF RelayInv, DownStream
  <2>2. Ahead(toWorker[v], n) => NoStep(toWorker'[v])
    BY <1>0, <1>2, <1>4 DEF NoStep, Ahead
  <2>3. passed[w] <= 3 * s + 1
    BY <1>0, <2>1 DEF Ready
  <2>4. QED
    BY <1>0, <2>1, <2>2, <2>3 DEF CutOff
<1>5. CASE Copies(toMaster', k) = Copies(toMaster, k) /\ Copies(toWorker', k) = Copies(toWorker, k)
  <2>1. Up(k)' = Up(k) /\ Down(k)' = Down(k)
    BY <1>5 DEF Up, Down
  <2>2. Carry(k)' = Carry(k)
    BY CountsKept
  <2>3. QED
    BY <2>1, <2>2, BalanceKept DEF k
<1>6. Copies(toMaster', k) = Copies(toMaster, k) \/ \E n \in 1 .. Len(toMaster[v]) : n > i /\ toMaster[v][n] = k
  BY <1>0, CopiesCut
<1>7. Copies(toWorker', k) = Copies(toWorker, k) \/ \E n \in 1 .. Len(toWorker[v]) : n > j /\ toWorker[v][n] = k
  BY <1>0, CopiesCut
<1>8. QED
  BY <1>3, <1>4, <1>5, <1>6, <1>7 DEF Conserves, Doomed

LEMMA ConservedByMaster ==
  ASSUME TypeOK, RelayInv, [Next]_vars, NEW w \in Workers, NEW s \in Supersteps, wstep[w] = s, MasterStep
  PROVE  Conserves(w, s)
<1> DEFINE k == Known(w, s)
<1>0. k.type = "relay"
  BY BalanceParts
<1> HIDE DEF k
<1>1. ASSUME NEW v \in Workers, PublishJobDetails(v)
      PROVE  Conserves(w, s)
  <2>1. UNCHANGED <<toMaster, hmsg, inbox, sentTo>>
    BY <1>1 DEF PublishJobDetails, dataHistory
  <2>2. [type |-> "details"] \in MasterPayload /\ [type |-> "details"] # k
    BY <1>0 DEF MasterPayload, JobDetailsMsg
  <2>3. Down(k)' = Down(k)
    <3>1. CASE SendToWorker(v, [type |-> "details"])
      <4>1. Down(k) \in Nat
        BY FlightTypes
      <4>2. QED
        BY <2>2, <3>1, <4>1, SentDown
    <3>2. CASE UNCHANGED toWorker
      BY <3>2, CountsKept
    <3>3. QED
      BY <1>1, <3>1, <3>2 DEF PublishJobDetails
  <2>4. Up(k)' = Up(k) /\ Carry(k)' = Carry(k)
    <3>1. \A u \in Workers : hpc'[u] = "relay" <=> hpc[u] = "relay"
      BY <1>1 DEF PublishJobDetails, TypeOK, HandlerTypeOK
    <3>2. QED
      BY <2>1, <3>1, CountsKept
  <2>5. QED
    BY <2>1, <2>3, <2>4, BalanceKept DEF k
<1>2. ASSUME NEW v \in Workers, MasterClosesStream(v)
      PROVE  Conserves(w, s)
  <2>1. PICK j \in {Len(toWorker[v]), Len(toWorker[v]) - 1} \cap Nat : Cut(v, 0, j)
    BY <1>2 DEF MasterClosesStream
  <2>2. j \in 0 .. Len(toWorker[v]) /\ 0 \in 0 .. Len(toMaster[v])
    BY RelayTypes
  <2>3. UNCHANGED <<hpc, hmsg, inbox, sentTo, passed, rpc>>
    BY <1>2 DEF MasterClosesStream, handlerVars, receiverVars, roundVars, dataHistory
  <2>4. QED
    BY <2>1, <2>2, <2>3, ConservedByCut
<1>3. CASE /\ ~\E v \in Workers : PublishJobDetails(v)
           /\ ~\E v \in Workers : MasterClosesStream(v)
  <2>1. UNCHANGED <<toMaster, toWorker, hpc, hmsg, inbox, sentTo>>
    BY <1>3 DEF MasterStep, MasterStartsJob, MasterStartFails, MasterBeginsSuperstep, AllWorkersArrived,
       AllWorkersNotified, MasterCompletesJob, MasterCompleteFails, MasterAborts, MasterContextExpires,
       MasterSeesDisconnect, MasterOnly, handlerVars, streamVars, dataHistory
  <2>2. Up(k)' = Up(k) /\ Down(k)' = Down(k) /\ Carry(k)' = Carry(k)
    BY <2>1, CountsKept
  <2>3. QED
    BY <2>1, <2>2, BalanceKept DEF k
<1>4. QED
  BY <1>1, <1>2, <1>3

LEMMA ConservedByHandler ==
  ASSUME TypeOK, RelayInv, [Next]_vars, NEW w \in Workers, NEW s \in Supersteps, wstep[w] = s,
         NEW v \in Workers, HandlerStep(v)
  PROVE  Conserves(w, s)
<1> DEFINE k == Known(w, s)
<1>0. /\ s \in Nat /\ k.type = "relay" /\ k.dst = w /\ k.known /\ k.sent = s /\ SumInv
      /\ Up(k) \in Nat /\ Down(k) \in Nat /\ Carry(k) \in Nat
      /\ hpc \in [Workers -> {"off", "published", "recv", "join", "joined", "reply", "relay", "exit"}]
      /\ DOMAIN hmsg = Workers
  BY BalanceParts DEF RelayInv, TypeOK, HandlerTypeOK
<1> HIDE DEF k
<1>1. UNCHANGED <<inbox, sentTo>>
  BY DEF HandlerStep, HandlerTakesStep, HandlerTakesRelay, HandlerJoins, HandlerNotified, HandlerSends,
     HandlerDrops, HandlerExits, HandlerOnly, dataHistory
<1>2. ASSUME hpc'[v] # "relay", hpc[v] # "relay", \A u \in Workers \ {v} : hpc'[u] = hpc[u] /\ hmsg'[u] = hmsg[u]
      PROVE  Carry(k)' = Carry(k)
  <2>1. \A u \in Workers : (hpc'[u] = "relay" /\ hmsg'[u] = k) <=> (hpc[u] = "relay" /\ hmsg[u] = k)
    BY <1>2
  <2>2. QED
    BY <2>1, CountsKept
<1>3. CASE HandlerTakesStep(v)
  <2>1. /\ Taken(toMaster, toMaster', v) /\ Head(toMaster[v]) # k /\ toWorker' = toWorker
        /\ hpc' = [hpc EXCEPT ![v] = "join"] /\ hpc[v] = "recv" /\ \A u \in Workers \ {v} : hmsg'[u] = hmsg[u]
    BY <1>0, <1>3 DEF HandlerTakesStep, Taken
  <2>2. Up(k)' = Up(k)
    BY <1>0, <2>1, TakenUp
  <2>3. Carry(k)' = Carry(k)
    BY <1>0, <1>2, <2>1
  <2>4. Down(k)' = Down(k)
    BY <2>1, CountsKept
  <2>5. QED
    BY <1>1, <2>2, <2>3, <2>4, BalanceKept DEF k
<1>4. CASE HandlerTakesRelay(v)
  <2>0. /\ Taken(toMaster, toMaster', v) /\ toWorker' = toWorker /\ hpc[v] = "recv"
        /\ IF Head(toMaster[v]).dst = v THEN UNCHANGED handlerVars
           ELSE /\ hpc' = [hpc EXCEPT ![v] = "relay"]
                /\ hmsg' = [hmsg EXCEPT ![v] = Head(toMaster[v])]
    BY <1>4 DEF HandlerTakesRelay, Taken
  <2>1. Down(k)' = Down(k)
    BY <2>0, CountsKept
  <2>2. Up(k)' = Up(k) - (IF Head(toMaster[v]) = k THEN 1 ELSE 0)
    BY <2>0, TakenUp
  <2>3. Head(toMaster[v]) = k => k.dst # v
    <3>1. 1 \in 1 .. Len(toMaster[v]) /\ Head(toMaster[v]) = toMaster[v][1]
      BY <2>0, HeadIsFirst DEF Taken
    <3>2. QED
      BY <1>0, <3>1 DEF RelayInv, UpStream
  <2>4. Carry(k)' = Carry(k) + (IF Head(toMaster[v]) = k THEN 1 ELSE 0)
    <3>1. CASE UNCHANGED handlerVars /\ Head(toMaster[v]) # k
      BY <1>0, <3>1, CountsKept DEF handlerVars
    <3>2. CASE /\ hpc' = [hpc EXCEPT ![v] = "relay"]
               /\ hmsg' = [hmsg EXCEPT ![v] = Head(toMaster[v])]
      <4>1. \A u \in Workers \ {v} : (hpc'[u] = "relay" /\ hmsg'[u] = k) <=> (hpc[u] = "relay" /\ hmsg[u] = k)
        BY <1>0, <3>2
      <4>2. hpc'[v] = "relay" /\ hmsg'[v] = Head(toMaster[v])
        BY <1>0, <3>2
      <4>3. Cardinality(Carried(k)') = Cardinality(Carried(k))
               + (IF hpc'[v] = "relay" /\ hmsg'[v] = k THEN 1 ELSE 0)
               - (IF hpc[v] = "relay" /\ hmsg[v] = k THEN 1 ELSE 0)
        BY <4>1, CarriedMoves
      <4>4. QED
        BY <1>0, <2>0, <4>2, <4>3 DEF Carry
    <3>3. QED
      BY <2>0, <2>3, <3>1, <3>2
  <2>5. Balance(w, s)' = Balance(w, s)
    BY <1>0, <1>1, <2>1, <2>2, <2>4, BalanceParts DEF k
  <2>6. QED
    BY <2>5 DEF Conserves
<1>5. CASE HandlerJoins(v) \/ HandlerNotified(v) \/ HandlerExits(v)
  <2>1. /\ UNCHANGED <<toMaster, toWorker>> /\ hpc'[v] # "relay" /\ hpc[v] # "relay"
        /\ \A u \in Workers \ {v} : hpc'[u] = hpc[u] /\ hmsg'[u] = hmsg[u]
    BY <1>0, <1>5 DEF HandlerJoins, HandlerNotified, HandlerExits
  <2>2. Up(k)' = Up(k) /\ Down(k)' = Down(k) /\ Carry(k)' = Carry(k)
    BY <1>2, <2>1, CountsKept
  <2>3. QED
    BY <1>1, <2>2, BalanceKept DEF k
<1>6. ASSUME HandlerSends(v) \/ HandlerDrops(v)
      PROVE  /\ toMaster' = toMaster /\ Up(k)' = Up(k)
             /\ Carry(k)' = Carry(k) - (IF hpc[v] = "relay" /\ hmsg[v] = k THEN 1 ELSE 0)
  <2>1. /\ toMaster' = toMaster /\ hpc' = [hpc EXCEPT ![v] = "recv"]
        /\ \A u \in Workers \ {v} : hmsg'[u] = hmsg[u]
    BY <1>0, <1>6 DEF HandlerSends, HandlerDrops
  <2>2. /\ \A u \in Workers \ {v} : (hpc'[u] = "relay" /\ hmsg'[u] = k) <=> (hpc[u] = "relay" /\ hmsg[u] = k)
        /\ hpc'[v] = "recv"
    BY <1>0, <2>1
  <2>3. Cardinality(Carried(k)') = Cardinality(Carried(k))
           + (IF hpc'[v] = "relay" /\ hmsg'[v] = k THEN 1 ELSE 0)
           - (IF hpc[v] = "relay" /\ hmsg[v] = k THEN 1 ELSE 0)
    BY <2>2, CarriedMoves
  <2>4. Up(k)' = Up(k)
    BY <2>1, CountsKept
  <2>5. QED
    BY <1>0, <2>1, <2>2, <2>3, <2>4 DEF Carry
<1>7. ASSUME hpc[v] = "relay", hmsg[v] = k
      PROVE  Held(v, 3 * s + 1) /\ Ready(w, s)
  BY <1>0, <1>7 DEF RelayInv, AtHandler
<1>8. CASE HandlerSends(v) /\ hpc[v] = "reply"
  <2>1. SendToWorker(v, hmsg[v]) /\ hmsg[v] \in MasterPayload /\ hmsg[v] # k
    BY <1>0, <1>8 DEF HandlerSends, TypeOK, HandlerTypeOK, StepMsg, MasterPayload, WorkerPayload
  <2>2. Down(k)' = Down(k)
    BY <1>0, <2>1, SentDown
  <2>3. Carry(k)' = Carry(k)
    BY <1>0, <1>6, <1>8
  <2>4. QED
    BY <1>1, <1>6, <1>8, <2>2, <2>3, BalanceKept DEF k
<1>9. CASE HandlerSends(v) /\ hpc[v] = "relay"
  <2>1. SendToWorker(hmsg[v].dst, hmsg[v]) /\ hmsg[v] \in MasterPayload /\ hmsg[v].dst \in Workers
    BY <1>0, <1>9 DEF HandlerSends, TypeOK, HandlerTypeOK, RelayMsg, MasterPayload, WorkerPayload
  <2>2. Down(k)' = Down(k) + (IF hmsg[v] = k /\ link[hmsg[v].dst] = "up" THEN 1 ELSE 0)
    BY <2>1, SentDown
  <2>3. CASE hmsg[v] # k \/ link[w] = "up"
    <3>1. Balance(w, s)' = Balance(w, s)
      <4>1. CASE hmsg[v] = k
        BY <1>0, <1>1, <1>6, <1>9, <2>2, <2>3, <4>1, BalanceParts DEF k
      <4>2. CASE hmsg[v] # k
        BY <1>0, <1>1, <1>6, <1>9, <2>2, <4>2, BalanceParts DEF k
      <4>3. QED
        BY <4>1, <4>2
    <3>2. QED
      BY <3>1 DEF Conserves
  <2>4. CASE hmsg[v] = k /\ link[w] # "up"
    <3>1. Held(v, 3 * s + 1) /\ Ready(w, s)
      BY <1>7, <1>9, <2>4
    <3>2. NotTold(w, 3 * s + 1)
      BY <3>1 DEF Held, Shut
    <3>3. passed[w] = 3 * s + 1 => rpc[w] # "notify" /\ NoStep(toWorker[w])
      BY <1>0, <3>2, ShutIn
    <3>4. link[w] = "down" /\ passed[w] <= 3 * s + 1
      BY <2>4, <3>2 DEF TypeOK, StreamTypeOK, NotTold
    <3>5. CutOff(w, s)
      BY <3>3, <3>4 DEF CutOff
    <3>6. QED
      BY <1>0, <3>5, DoomedKept DEF Doomed, Conserves
  <2>5. QED
    BY <2>3, <2>4
<1>10. CASE HandlerDrops(v) /\ ~(hpc[v] = "relay" /\ hmsg[v] = k)
  <2>1. toWorker' = toWorker
    BY <1>10 DEF HandlerDrops
  <2>2. Down(k)' = Down(k) /\ Carry(k)' = Carry(k)
    BY <1>0, <1>6, <1>10, <2>1, CountsKept
  <2>3. QED
    BY <1>1, <1>6, <1>10, <2>2, BalanceKept DEF k
<1>11. CASE HandlerDrops(v) /\ hpc[v] = "relay" /\ hmsg[v] = k
  <2>1. mctx = "done" /\ Shut(3 * s + 1)
    BY <1>7, <1>11 DEF HandlerDrops, Held
  <2>2. mpc # "done" => mstep <= s
    <3>1. round \in Nat /\ mstep \in Nat /\ 3 * mstep <= round
      BY <1>0, RoundTypes DEF SumInv, JoinBooks
    <3>2. mpc # "done" => round <= 3 * s + 1
      BY <1>0, <2>1, <3>1 DEF Shut
    <3>3. QED
      BY <1>0, <3>1, <3>2
  <2>3. \A u \in Workers : NotTold(u, 3 * s + 3)
    <3>1. \A u \in Workers : passed[u] <= 3 * s + 1 /\ passed[u] \in Nat
      BY <2>1, RoundTypes DEF Shut, NotTold
    <3>2. QED
      BY <1>0, <3>1 DEF NotTold
  <2>4. Aborting(s)
    BY <2>1, <2>2, <2>3 DEF Aborting
  <2>5. QED
    BY <1>0, <2>4, DoomedKept DEF Doomed, Conserves
<1>12. hpc[v] \in {"reply", "relay"} \/ ~HandlerSends(v)
  BY DEF HandlerSends
<1>13. QED
  BY <1>3, <1>4, <1>5, <1>8, <1>9, <1>10, <1>11, <1>12 DEF HandlerStep

LEMMA ConservedByWorker ==
  ASSUME TypeOK, RelayInv, [Next]_vars, NEW w \in Workers, NEW s \in Supersteps, wstep[w] = s,
         NEW v \in Workers, WorkerStep(v)
  PROVE  Conserves(w, s)
<1> DEFINE k == Known(w, s)
<1>0. /\ s \in Nat /\ k.type = "relay" /\ k.dst = w /\ k.known /\ k.sent = s /\ SumInv
      /\ Up(k) \in Nat /\ Down(k) \in Nat /\ Carry(k) \in Nat
      /\ UNCHANGED <<hpc, hmsg>>
  BY BalanceParts, WorkerSideKeepsBarrier DEF RelayInv, MasterSide, handlerVars
<1> HIDE DEF k
<1>1. Carry(k)' = Carry(k)
  BY <1>0, CountsKept
<1>2. CASE WorkerTakesJob(v)
  <2>1. Taken(toWorker, toWorker', v) /\ Head(toWorker[v]) # k /\ UNCHANGED <<toMaster, inbox, sentTo>>
    BY <1>0, <1>2 DEF WorkerTakesJob, Taken, dataHistory
  <2>2. Down(k)' = Down(k) /\ Up(k)' = Up(k)
    BY <1>0, <2>1, TakenDown, CountsKept
  <2>3. QED
    BY <1>1, <2>1, <2>2, BalanceKept DEF k
<1>3. CASE WorkerEnters(v)
  <2>1. SendToMaster(v, Step(wphase[v], StepValue(v))) /\ UNCHANGED <<toWorker, inbox, sentTo>>
    BY <1>3 DEF WorkerEnters, dataHistory
  <2>2. Step(wphase[v], StepValue(v)) \in WorkerPayload /\ Step(wphase[v], StepValue(v)) # k
    <3>1. wphase[v] \in Phases /\ StepValue(v) \in Int
      BY DEF TypeOK, WorkerTypeOK, StepValue
    <3>2. Step(wphase[v], StepValue(v)) \in StepMsg
      BY <3>1, StepType
    <3>3. QED
      BY <1>0, <3>2 DEF WorkerPayload, StepMsg
  <2>3. Up(k)' = Up(k) /\ Down(k)' = Down(k)
    BY <1>0, <2>1, <2>2, SentUp, CountsKept
  <2>4. QED
    BY <1>1, <2>1, <2>3, BalanceKept DEF k
<1>4. ASSUME NEW d \in Workers, NEW known \in BOOLEAN, WorkerRelays(v, d, known)
      PROVE  Conserves(w, s)
  <2> DEFINE x == [type |-> "relay", dst |-> d, known |-> known, sent |-> wstep[v]]
  <2>1. /\ SendToMaster(v, x) /\ UNCHANGED <<toWorker, inbox>> /\ wpc[v] = "compute"
        /\ sentTo' = IF known THEN [sentTo EXCEPT ![d][wstep[v]] = @ + 1] ELSE sentTo
        /\ wstep[v] \in Supersteps
    BY <1>4, BoundsAssumption DEF WorkerRelays, TypeOK, WorkerTypeOK, Supersteps
  <2>2. x \in WorkerPayload
    BY RelayIsPayload
  <2>3. x = k <=> known /\ d = w /\ wstep[v] = s
    BY DEF k, Known
  <2> HIDE DEF x
  <2>4. Up(k)' = Up(k) + (IF x = k /\ link[v] = "up" THEN 1 ELSE 0)
    BY <2>1, <2>2, SentUp
  <2>5. sentTo'[w][s] = sentTo[w][s] + (IF x = k THEN 1 ELSE 0)
    <3>1. sentTo \in [Workers -> [Supersteps -> Nat]]
      BY DEF TypeOK, HistoryTypeOK
    <3>2. QED
      BY <2>1, <2>3, <3>1
  <2>6. Down(k)' = Down(k)
    BY <2>1, CountsKept
  <2>7. CASE x # k
    <3>1. Up(k)' = Up(k) /\ sentTo'[w][s] = sentTo[w][s]
      BY <1>0, <2>4, <2>5, <2>7, BalanceParts
    <3>2. QED
      BY <1>1, <2>1, <2>6, <3>1, BalanceKept DEF k
  <2>8. CASE x = k /\ link[v] = "up"
    <3>1. Balance(w, s)' = Balance(w, s)
      BY <1>0, <1>1, <2>1, <2>4, <2>5, <2>6, <2>8, BalanceParts DEF k
    <3>2. QED
      BY <3>1 DEF Conserves
  <2>9. CASE x = k /\ link[v] # "up"
    <3>1. Held(v, 3 * s + 1) /\ NoStep(toMaster[v])
      BY <1>0, <2>1, <2>3, <2>9, RelayedReady
    <3>2. link[v] = "down"
      BY <2>9 DEF TypeOK, StreamTypeOK
    <3>3. Missing(s)
      BY <3>1, <3>2 DEF Missing
    <3>4. QED
      BY <1>0, <3>3, DoomedKept DEF Doomed, Conserves
  <2>10. QED
    BY <2>7, <2>8, <2>9
<1>5. ASSUME NEW act \in {0, 1}, NEW delta \in {0, 1}, WorkerEndsStep(v, act, delta)
      PROVE  Conserves(w, s)
  <2>1. UNCHANGED <<toMaster, toWorker, sentTo>> /\ inbox' = [inbox EXCEPT ![v][wstep[v] % 2] = 0]
    BY <1>5 DEF WorkerEndsStep, streamVars
  <2>2. inbox'[w][(s + 1) % 2] = inbox[w][(s + 1) % 2]
    <3>1. inbox \in [Workers -> [{0, 1} -> Nat]]
      BY DEF TypeOK, WorkerTypeOK
    <3>2. (s + 1) % 2 \in {0, 1} /\ s % 2 \in {0, 1} /\ (s + 1) % 2 # s % 2
      BY BalanceParts
    <3>3. CASE v = w
      BY <2>1, <3>1, <3>2, <3>3
    <3>4. CASE v # w
      BY <2>1, <3>1, <3>4
    <3>5. QED
      BY <3>3, <3>4
  <2>3. Down(k)' = Down(k) /\ Up(k)' = Up(k)
    BY <2>1, CountsKept
  <2>4. QED
    BY <1>1, <2>1, <2>2, <2>3, BalanceKept DEF k
<1>6. CASE WorkerContextExpires(v) \/ WorkerClosesStream(v)
  <2>1. PICK i \in 0 .. Len(toMaster[v]) : Cut(v, i, 0)
    <3>1. Len(toMaster[v]) \in Nat
      BY RelayTypes
    <3>2. QED
      BY <1>6, <3>1 DEF WorkerContextExpires, WorkerClosesStream
  <2>2. 0 \in 0 .. Len(toWorker[v])
    BY RelayTypes
  <2>3. UNCHANGED <<hpc, hmsg, inbox, sentTo, passed, rpc>>
    BY <1>0, <1>6 DEF WorkerContextExpires, WorkerClosesStream, receiverVars, roundVars, dataHistory
  <2>4. QED
    BY <2>1, <2>2, <2>3, ConservedByCut
<1>7. CASE ~(\/ WorkerTakesJob(v) \/ WorkerEnters(v)
             \/ \E d \in Workers, known \in BOOLEAN : WorkerRelays(v, d, known)
             \/ \E act \in {0, 1}, delta \in {0, 1} : WorkerEndsStep(v, act, delta)
             \/ WorkerContextExpires(v) \/ WorkerClosesStream(v))
  <2>1. UNCHANGED <<toMaster, toWorker, inbox, sentTo>>
    BY <1>7 DEF WorkerStep, WorkerGetsNoJob, WorkerStartsJob, WorkerStartFails, WorkerBeginsSuperstep,
       WorkerStepFails, WorkerLeavesPre, WorkerLeavesPost, WorkerLeavesKeep, WorkerLeavesExecuted,
       WorkerLeavesPersisted, Leaves, WorkerCompletesJob, WorkerCompleteFails, WorkerAborts,
       streamVars, dataHistory
  <2>2. Down(k)' = Down(k) /\ Up(k)' = Up(k)
    BY <2>1, CountsKept
  <2>3. QED
    BY <1>1, <2>1, <2>2, BalanceKept DEF k
<1>8. QED
  BY <1>2, <1>3, <1>4, <1>5, <1>6, <1>7

LEMMA ConservedByReceiver ==
  ASSUME TypeOK, RelayInv, [Next]_vars, NEW w \in Workers, NEW s \in Supersteps, wstep[w] = s,
         NEW v \in Workers, ReceiverStep(v) \/ LinkBreaks(v)
  PROVE  Conserves(w, s)
<1> DEFINE k == Known(w, s)
<1>0. /\ s \in Nat /\ k.type = "relay" /\ k.dst = w /\ k.known /\ k.sent = s /\ SumInv
      /\ Up(k) \in Nat /\ Down(k) \in Nat /\ Carry(k) \in Nat
      /\ UNCHANGED <<hpc, hmsg>>
  BY BalanceParts, WorkerSideKeepsBarrier DEF RelayInv, MasterSide, handlerVars
<1>1. \A m \in RelayMsg : m.known /\ m.dst = w /\ m.sent = s => m = k
  BY DEF RelayMsg, Known
<1> HIDE DEF k
<1>2. Carry(k)' = Carry(k)
  BY <1>0, CountsKept
<1>3. CASE ReceiverTakesStep(v)
  <2>1. Taken(toWorker, toWorker', v) /\ Head(toWorker[v]) # k /\ UNCHANGED <<toMaster, inbox, sentTo>>
    BY <1>0, <1>3 DEF ReceiverTakesStep, Taken, WorkerOnly, dataHistory
  <2>2. Down(k)' = Down(k) /\ Up(k)' = Up(k)
    BY <1>0, <2>1, TakenDown, CountsKept
  <2>3. QED
    BY <1>2, <2>1, <2>2, BalanceKept DEF k
<1>4. CASE ReceiverTakesRelay(v)
  <2> DEFINE m == Head(toWorker[v])
  <2>0. /\ Taken(toWorker, toWorker', v) /\ UNCHANGED <<toMaster, sentTo>>
        /\ m.type = "relay" /\ m = toWorker[v][1] /\ 1 \in 1 .. Len(toWorker[v])
        /\ IF m.known THEN inbox' = [inbox EXCEPT ![v][(wstep[v] + 1) % 2] = @ + 1] ELSE inbox' = inbox
    BY <1>4, HeadIsFirst DEF ReceiverTakesRelay, Taken, WorkerOnly, dataHistory
  <2>1. m \in RelayMsg /\ m.dst = v /\ m.sent = wstep[v]
    BY <2>0, RelayTypes DEF RelayInv, DownStream, Ready
  <2> HIDE DEF m
  <2>2. m = k <=> m.known /\ v = w
    BY <1>0, <1>1, <2>1
  <2>3. Down(k)' = Down(k) - (IF m = k THEN 1 ELSE 0)
    BY <2>0, TakenDown DEF m
  <2>4. inbox'[w][(s + 1) % 2] = inbox[w][(s + 1) % 2] + (IF m = k THEN 1 ELSE 0)
    <3>1. inbox \in [Workers -> [{0, 1} -> Nat]]
      BY DEF TypeOK, WorkerTypeOK
    <3>2. (s + 1) % 2 \in {0, 1} /\ inbox[w][(s + 1) % 2] \in Nat
      BY BalanceParts
    <3>3. CASE m = k
      BY <2>0, <2>2, <3>1, <3>2, <3>3
    <3>4. CASE m # k
      BY <2>0, <2>2, <3>1, <3>2, <3>4
    <3>5. QED
      BY <3>3, <3>4
  <2>5. Up(k)' = Up(k)
    BY <2>0, CountsKept
  <2>6. Balance(w, s)' = Balance(w, s)
    <3>1. /\ Balance(w, s) = inbox[w][(s + 1) % 2] + (Up(k) + Carry(k) + Down(k)) - sentTo[w][s]
          /\ Balance(w, s)' = inbox'[w][(s + 1) % 2] + (Up(k)' + Carry(k)' + Down(k)') - sentTo'[w][s]
          /\ inbox[w][(s + 1) % 2] \in Nat /\ sentTo[w][s] \in Nat /\ sentTo'[w][s] = sentTo[w][s]
      BY <2>0, BalanceParts DEF k
    <3>2. QED
      BY <1>0, <1>2, <2>3, <2>4, <2>5, <3>1
  <2>7. QED
    BY <2>6 DEF Conserves
<1>5. CASE ReceiverBounces(v)
  <2>1. SendToMaster(v, rmsg[v]) /\ UNCHANGED <<toWorker, inbox, sentTo>> /\ rpc[v] = "bounce"
    BY <1>5 DEF ReceiverBounces, WorkerOnly, dataHistory
  <2>2. rmsg[v] \in WorkerPayload /\ rmsg[v] # k
    BY <1>0, <2>1 DEF RelayInv, Bouncing, TypeOK, ReceiverTypeOK, WorkerPayload
  <2>3. Up(k)' = Up(k) /\ Down(k)' = Down(k)
    BY <1>0, <2>1, <2>2, SentUp, CountsKept
  <2>4. QED
    BY <1>2, <2>1, <2>3, BalanceKept DEF k
<1>6. CASE ReceiverExits(v) \/ WorkerSeesDisconnect(v)
  <2>1. UNCHANGED <<toMaster, toWorker, inbox, sentTo>>
    BY <1>6 DEF ReceiverExits, WorkerSeesDisconnect, WorkerOnly, dataHistory
  <2>2. Down(k)' = Down(k) /\ Up(k)' = Up(k)
    BY <2>1, CountsKept
  <2>3. QED
    BY <1>2, <2>1, <2>2, BalanceKept DEF k
<1>7. CASE LinkBreaks(v)
  <2>1. PICK i \in 0 .. Len(toMaster[v]), j \in 0 .. Len(toWorker[v]) : Cut(v, i, j)
    BY <1>7 DEF LinkBreaks
  <2>2. UNCHANGED <<hpc, hmsg, inbox, sentTo, passed, rpc>>
    BY <1>0, <1>7 DEF LinkBreaks, receiverVars, roundVars, dataHistory
  <2>3. QED
    BY <2>1, <2>2, ConservedByCut
<1>8. QED
  BY <1>3, <1>4, <1>5, <1>6, <1>7 DEF ReceiverStep

LEMMA Conserved ==
  ASSUME TypeOK, RelayInv, [Next]_vars, NEW w \in Workers, NEW s \in Supersteps, wstep[w] = s
  PROVE  Conserves(w, s)
<1>1. CASE UNCHANGED vars
  <2>1. UNCHANGED <<toMaster, toWorker, hpc, hmsg, inbox, sentTo>>
    BY <1>1 DEF vars, streamVars, handlerVars, dataHistory
  <2>2. \A k : Up(k)' = Up(k) /\ Down(k)' = Down(k) /\ Carry(k)' = Carry(k)
    BY <2>1, CountsKept
  <2>3. QED
    BY <2>1, <2>2, BalanceKept
<1>2. QED
  BY <1>1, ConservedByMaster, ConservedByHandler, ConservedByWorker, ConservedByReceiver DEF Next, Stutter

-----------------------------------------------------------------------------
(***************************************************************************)
(* A worker computes its superstep once, with what was sent for it.        *)
(***************************************************************************)
Ends(w) == \E act \in {0, 1}, delta \in {0, 1} : WorkerEndsStep(w, act, delta)

\* What ends a superstep, and what leaves a barrier, of a worker.
LEMMA PhaseMoves ==
  ASSUME TypeOK, SumInv, [Next]_vars, NEW w \in Workers
  PROVE  /\ Into(w) = 1 => wphase'[w] = wphase[w] \/ LeavesAny(w) \/ Ends(w)
         /\ Into(w) = 0 /\ LeavesAny(w) => wphase'[w] = "PRE"
         /\ active'[w] = active[w] \/ Ends(w)
<1>0. /\ PlaceBooks /\ LockInv /\ wphase \in [Workers -> Phases] /\ active \in [Workers -> {0, 1}]
  BY DEF SumInv, AgreeInv, TypeOK, WorkerTypeOK
<1>1. CASE LeavesAny(w)
  <2>1. Into(w) = Stage(wphase[w]) /\ active' = active
    BY <1>0, <1>1, LeavesForNext
  <2>2. Into(w) = 0 => wphase[w] = "PRE"
    BY <1>0, <2>1 DEF Stage, Phases
  <2>3. Into(w) = 0 => wphase'[w] = "PRE"
    BY <1>1, <2>2 DEF LeavesAny, WorkerLeavesPre, WorkerLeavesPost, WorkerLeavesKeep, WorkerLeavesExecuted,
       WorkerLeavesPersisted, Leaves
  <2>4. QED
    BY <1>1, <2>1, <2>3
<1>2. CASE ~LeavesAny(w) /\ WorkerStep(w) /\ ~Ends(w)
  <2>1. active'[w] = active[w]
    BY <1>0, <1>2 DEF Ends, LeavesAny, WorkerStep, WorkerTakesJob, WorkerGetsNoJob, WorkerStartsJob, WorkerStartFails,
       WorkerBeginsSuperstep, WorkerRelays, WorkerStepFails, WorkerEnters, WorkerCompletesJob, WorkerCompleteFails,
       WorkerAborts, WorkerContextExpires, WorkerClosesStream, computeVars, workerVars
  <2>2. wphase'[w] = wphase[w] \/ wpc[w] \in {"check", "complete"}
    BY <1>0, <1>2 DEF Ends, LeavesAny, WorkerStep, WorkerTakesJob, WorkerGetsNoJob, WorkerStartsJob, WorkerStartFails,
       WorkerBeginsSuperstep, WorkerRelays, WorkerStepFails, WorkerEnters, WorkerCompletesJob, WorkerCompleteFails,
       WorkerAborts, WorkerContextExpires, WorkerClosesStream, workerVars
  <2>3. wpc[w] \in {"check", "complete"} => Into(w) # 1
    BY <1>0 DEF PlaceBooks
  <2>4. QED
    BY <1>2, <2>1, <2>2, <2>3
<1>3. ASSUME NEW v \in Workers \ {w}, WorkerStep(v)
      PROVE  wphase'[w] = wphase[w] /\ active'[w] = active[w]
  BY <1>0, <1>3 DEF WorkerStep, WorkerTakesJob, WorkerGetsNoJob, WorkerStartsJob, WorkerStartFails,
     WorkerBeginsSuperstep, WorkerRelays, WorkerEndsStep, WorkerStepFails, WorkerEnters, WorkerLeavesPre,
     WorkerLeavesPost, WorkerLeavesKeep, WorkerLeavesExecuted, WorkerLeavesPersisted, Leaves, HeadsFor,
     WorkerCompletesJob, WorkerCompleteFails, WorkerAborts, WorkerContextExpires, WorkerClosesStream,
     computeVars, workerVars
<1>4. CASE ~\E v \in Workers : WorkerStep(v)
  <2>1. UNCHANGED <<wphase, active>>
    <3>1. CASE MasterStep
      BY <3>1, MasterMakesNone
    <3>2. ASSUME NEW v \in Workers, HandlerStep(v)
          PROVE  UNCHANGED <<wphase, active>>
      BY <3>2, HandlerMakesReply
    <3>3. ASSUME NEW v \in Workers, ReceiverStep(v) \/ LinkBreaks(v)
          PROVE  UNCHANGED <<wphase, active>>
      BY <3>3, ReceiverMakesNone
    <3>4. CASE UNCHANGED vars
      BY <3>4 DEF vars, workerVars, computeVars
    <3>5. QED
      BY <1>4, <3>1, <3>2, <3>3, <3>4 DEF Next, Stutter
  <2>2. ~LeavesAny(w)
    BY <1>4 DEF LeavesAny, WorkerStep
  <2>3. QED
    BY <2>1, <2>2
<1>5. CASE Ends(w) /\ ~LeavesAny(w)
  <2>1. Into(w) # 0
    <3>1. wpc[w] = "compute"
      BY <1>5 DEF Ends, WorkerEndsStep
    <3>2. QED
      BY <1>0, <3>1 DEF PlaceBooks
  <2>2. QED
    BY <1>5, <2>1
<1>6. QED
  BY <1>1, <1>2, <1>3, <1>4, <1>5

\* A superstep is computed once.
LEMMA ComputedMoves ==
  ASSUME TypeOK, SumInv, [Next]_vars, NEW w \in Workers, wstep'[w] = wstep[w]
  PROVE  /\ Computed(w) => Computed(w)'
         /\ Ends(w) => ~Computed(w) /\ Computed(w)'
         /\ ~Computed(w) /\ ~Ends(w) => ~Computed(w)'
<1>0. /\ AgreeInv /\ JoinBooks /\ PlaceBooks /\ LockInv
      /\ Into(w) \in 0 .. 5 /\ passed[w] \in Nat /\ wstep[w] \in Nat
  BY RoundTypes DEF SumInv, AgreeInv, PlaceBooks
<1>1. CASE Ends(w)
  <2>1. wpc[w] = "compute" /\ wphase'[w] = "POST" /\ passed' = passed
    BY <1>1 DEF Ends, WorkerEndsStep, HeadsFor, TypeOK, WorkerTypeOK, roundVars
  <2>2. Into(w) = 1 /\ wphase[w] = "PRE" /\ Into(w)' = 1
    BY <1>0, <2>1, Computing DEF Into
  <2>3. QED
    BY <1>1, <2>1, <2>2 DEF Computed
<1>2. CASE LeavesAny(w) /\ ~Ends(w)
  <2>1. Into(w) = Stage(wphase[w]) /\ passed'[w] = passed[w] + 1
    BY <1>0, <1>2, LeavesForNext DEF TypeOK, HistoryTypeOK
  <2>2. Into(w)' = Into(w) + 1
    BY <1>0, <2>1 DEF Into
  <2>3. Into(w) = 1 => wphase[w] = "POST"
    BY <2>1 DEF Stage
  <2>4. Into(w) = 0 => wphase'[w] = "PRE"
    BY <1>2, PhaseMoves
  <2>5. CASE Into(w) = 0
    BY <1>2, <2>2, <2>4, <2>5 DEF Computed
  <2>6. CASE Into(w) >= 1
    BY <1>0, <1>2, <2>2, <2>3, <2>6 DEF Computed
  <2>7. QED
    BY <1>0, <2>5, <2>6
<1>3. CASE ~LeavesAny(w) /\ ~Ends(w)
  <2>1. passed'[w] = passed[w]
    BY <1>3, RoundMoves
  <2>2. Into(w)' = Into(w)
    BY <2>1 DEF Into
  <2>3. Into(w) = 1 => wphase'[w] = wphase[w]
    BY <1>3, PhaseMoves
  <2>4. QED
    BY <1>3, <2>2, <2>3 DEF Computed
<1>4. QED
  BY <1>1, <1>2, <1>3

\* What the queues of w hold, and what was sent in a superstep.
LEMMA InboxMoves ==
  ASSUME TypeOK, [Next]_vars, NEW w \in Workers
  PROVE  \/ inbox'[w] = inbox[w]
         \/ inbox' = [inbox EXCEPT ![w][(wstep[w] + 1) % 2] = @ + 1]
         \/ Ends(w) /\ inbox' = [inbox EXCEPT ![w][wstep[w] % 2] = 0]
<1>0. inbox \in [Workers -> [{0, 1} -> Nat]]
  BY DEF TypeOK, WorkerTypeOK
<1>1. CASE MasterStep
  BY <1>1 DEF MasterStep, MasterStartsJob, MasterStartFails, PublishJobDetails, MasterBeginsSuperstep,
     AllWorkersArrived, AllWorkersNotified, MasterCompletesJob, MasterCompleteFails, MasterAborts,
     MasterContextExpires, MasterSeesDisconnect, MasterClosesStream, MasterOnly
<1>2. ASSUME NEW v \in Workers, HandlerStep(v)
      PROVE  inbox' = inbox
  BY <1>2 DEF HandlerStep, HandlerTakesStep, HandlerTakesRelay, HandlerJoins, HandlerNotified, HandlerSends,
     HandlerDrops, HandlerExits, HandlerOnly
<1>3. ASSUME NEW v \in Workers, WorkerStep(v)
      PROVE  \/ inbox'[w] = inbox[w]
             \/ Ends(w) /\ inbox' = [inbox EXCEPT ![w][wstep[w] % 2] = 0]
  <2>1. CASE Ends(v)
    <3>1. inbox' = [inbox EXCEPT ![v][wstep[v] % 2] = 0]
      BY <2>1 DEF Ends, WorkerEndsStep
    <3>2. QED
      BY <1>0, <2>1, <3>1
  <2>2. CASE ~Ends(v)
    BY <1>3, <2>2 DEF Ends, WorkerStep, WorkerTakesJob, WorkerGetsNoJob, WorkerStartsJob, WorkerStartFails,
       WorkerBeginsSuperstep, WorkerRelays, WorkerStepFails, WorkerEnters, WorkerLeavesPre,
       WorkerLeavesPost, WorkerLeavesKeep, WorkerLeavesExecuted, WorkerLeavesPersisted, Leaves,
       WorkerCompletesJob, WorkerCompleteFails, WorkerAborts, WorkerContextExpires, WorkerClosesStream
  <2>3. QED
    BY <2>1, <2>2
<1>4. ASSUME NEW v \in Workers, ReceiverStep(v) \/ LinkBreaks(v)
      PROVE  \/ inbox'[w] = inbox[w]
             \/ inbox' = [inbox EXCEPT ![w][(wstep[w] + 1) % 2] = @ + 1]
  <2>1. CASE ReceiverTakesRelay(v)
    <3>1. inbox' = inbox \/ inbox' = [inbox EXCEPT ![v][(wstep[v] + 1) % 2] = @ + 1]
      BY <2>1 DEF ReceiverTakesRelay
    <3>2. QED
      BY <1>0, <3>1
  <2>2. CASE ~ReceiverTakesRelay(v)
    BY <1>4, <2>2 DEF ReceiverStep, ReceiverTakesStep, ReceiverBounces, ReceiverExits, WorkerSeesDisconnect,
       LinkBreaks
  <2>3. QED
    BY <2>1, <2>2
<1>5. CASE UNCHANGED vars
  BY <1>5 DEF vars
<1>6. QED
  BY <1>1, <1>2, <1>3, <1>4, <1>5 DEF Next, Stutter

\* The queue of the superstep that a worker is in only empties when that ends.
LEMMA InboxOfStep ==
  ASSUME TypeOK, [Next]_vars, NEW w \in Workers
  PROVE  /\ ~Ends(w) => inbox'[w][wstep[w] % 2] = inbox[w][wstep[w] % 2]
         /\ Ends(w) => inbox'[w][wstep[w] % 2] = 0
<1>0. inbox \in [Workers -> [{0, 1} -> Nat]] /\ wstep[w] \in Nat
  BY DEF TypeOK, WorkerTypeOK
<1>1. wstep[w] % 2 \in {0, 1} /\ (wstep[w] + 1) % 2 \in {0, 1} /\ (wstep[w] + 1) % 2 # wstep[w] % 2
  BY <1>0
<1>2. CASE Ends(w)
  <2>1. inbox' = [inbox EXCEPT ![w][wstep[w] % 2] = 0]
    BY <1>2 DEF Ends, WorkerEndsStep
  <2>2. QED
    BY <1>0, <1>1, <1>2, <2>1
<1>3. CASE ~Ends(w)
  <2>1. CASE inbox'[w] = inbox[w]
    BY <1>3, <2>1
  <2>2. CASE inbox' = [inbox EXCEPT ![w][(wstep[w] + 1) % 2] = @ + 1]
    BY <1>0, <1>1, <1>3, <2>2
  <2>3. QED
    BY <1>3, <2>1, <2>2, InboxMoves
<1>4. QED
  BY <1>2, <1>3

\* Messages are only sent to workers that are ready for them.
LEMMA SentMoves ==
  ASSUME TypeOK, SumInv, [Next]_vars, NEW w \in Workers, NEW t \in Supersteps
  PROVE  sentTo'[w][t] = sentTo[w][t] \/ (Ready(w, t) /\ t < MaxStep)
<1>0. sentTo \in [Workers -> [Supersteps -> Nat]]
  BY DEF TypeOK, HistoryTypeOK
<1>1. ASSUME NEW v \in Workers, NEW d \in Workers, NEW known \in BOOLEAN, WorkerRelays(v, d, known)
      PROVE  sentTo'[w][t] = sentTo[w][t] \/ (Ready(w, t) /\ t < MaxStep)
  <2>1. /\ wpc[v] = "compute" /\ wstep[v] < MaxStep
        /\ sentTo' = sentTo \/ sentTo' = [sentTo EXCEPT ![d][wstep[v]] = @ + 1]
    BY <1>1 DEF WorkerRelays
  <2>2. Ready(w, wstep[v])
    BY <2>1, RelayedReady
  <2>3. CASE wstep[v] = t
    BY <2>1, <2>2, <2>3
  <2>4. CASE wstep[v] # t
    <3>1. sentTo'[w][t] = sentTo[w][t]
      BY <1>0, <2>1, <2>4
    <3>2. QED
      BY <3>1
  <2>5. QED
    BY <2>3, <2>4
<1>2. CASE ~\E v, d \in Workers, known \in BOOLEAN : WorkerRelays(v, d, known)
  <2>1. CASE MasterStep
    BY <2>1 DEF MasterStep, MasterStartsJob, MasterStartFails, PublishJobDetails, MasterBeginsSuperstep,
       AllWorkersArrived, AllWorkersNotified, MasterCompletesJob, MasterCompleteFails, MasterAborts,
       MasterContextExpires, MasterSeesDisconnect, MasterClosesStream, MasterOnly, dataHistory
  <2>2. ASSUME NEW v \in Workers, HandlerStep(v)
        PROVE  sentTo' = sentTo
    BY <2>2 DEF HandlerStep, HandlerTakesStep, HandlerTakesRelay, HandlerJoins, HandlerNotified, HandlerSends,
       HandlerDrops, HandlerExits, HandlerOnly, dataHistory
  <2>3. ASSUME NEW v \in Workers, WorkerStep(v)
        PROVE  sentTo' = sentTo
    BY <1>2, <2>3 DEF WorkerStep, WorkerTakesJob, WorkerGetsNoJob, WorkerStartsJob, WorkerStartFails,
       WorkerBeginsSuperstep, WorkerEndsStep, WorkerStepFails, WorkerEnters, WorkerLeavesPre,
       WorkerLeavesPost, WorkerLeavesKeep, WorkerLeavesExecuted, WorkerLeavesPersisted, Leaves,
       WorkerCompletesJob, WorkerCompleteFails, WorkerAborts, WorkerContextExpires, WorkerClosesStream, dataHistory
  <2>4. ASSUME NEW v \in Workers, ReceiverStep(v) \/ LinkBreaks(v)
        PROVE  sentTo' = sentTo
    BY <2>4 DEF ReceiverStep, ReceiverTakesStep, ReceiverTakesRelay, ReceiverBounces, ReceiverExits,
       WorkerSeesDisconnect, WorkerOnly, LinkBreaks, dataHistory
  <2>5. CASE UNCHANGED vars
    BY <2>5 DEF vars, dataHistory
  <2>6. QED
    BY <2>1, <2>2, <2>3, <2>4, <2>5 DEF Next, Stutter
<1>3. QED
  BY <1>1, <1>2

-----------------------------------------------------------------------------
(***************************************************************************)
(* The books of the messages are kept.                                     *)
(***************************************************************************)

\* A worker begins the next superstep with a step that only it takes part in.
LEMMA NextSuperstep ==
  ASSUME TypeOK, SumInv, [Next]_vars, NEW w \in Workers, wstep'[w] # wstep[w]
  PROVE  /\ LeavesAny(w) /\ wstep'[w] = wstep[w] + 1 /\ Into(w) = 2 /\ Into(w)' = 0
         /\ \E m \in Replies(w) : m.val # 0
         /\ passed[w] = 3 * wstep[w] + 2 /\ arrived[w] = 3 * wstep[w] + 3
         /\ UNCHANGED <<toMaster, toWorker, hpc, hmsg, inbox, sentTo>>
<1>0. /\ PlaceBooks /\ LockInv /\ wstep \in [Workers -> Nat] /\ passed[w] \in Nat /\ wstep[w] \in Nat
  BY RoundTypes DEF SumInv, AgreeInv, TypeOK, WorkerTypeOK
<1>1. LeavesAny(w) /\ wstep'[w] = After(Into(w), wstep[w], rmsg[w].val)
  BY RoundMoves
<1>2. Into(w) = 2 /\ rmsg[w].val # 0 /\ wstep'[w] = wstep[w] + 1
  BY <1>1 DEF After
<1>3. /\ Into(w)' = 0 /\ arrived[w] = passed[w] + 1 /\ Replies(w) = {rmsg[w]}
      /\ UNCHANGED <<toMaster, toWorker, hpc, hmsg>>
  BY <1>0, <1>1, <1>2, LeavesForNext
<1>4. UNCHANGED <<inbox, sentTo>>
  BY <1>1 DEF LeavesAny, WorkerLeavesPre, WorkerLeavesPost, WorkerLeavesKeep, WorkerLeavesExecuted,
     WorkerLeavesPersisted, Leaves, dataHistory
<1>5. passed[w] = 3 * wstep[w] + 2
  BY <1>0, <1>2 DEF Into
<1>6. QED
  BY <1>0, <1>1, <1>2, <1>3, <1>4, <1>5

\* Nothing is sent in a superstep that is still to come, or after the last.
LEMMA SentBooksStep ==
  ASSUME TypeOK, SumInv, SentBooks, [Next]_vars
  PROVE  SentBooks'
<1> SUFFICES ASSUME NEW w \in Workers, NEW t \in Supersteps, arrived'[w] <= 3 * t \/ t >= MaxStep
             PROVE  sentTo'[w][t] = 0
  BY DEF SentBooks
<1>0. arrived[w] \in Nat /\ t \in Nat /\ MaxStep \in Nat
  BY RoundTypes, BoundsAssumption DEF Supersteps
<1>1. arrived[w] <= 3 * t \/ t >= MaxStep
  BY <1>0, RoundMoves
<1>2. sentTo[w][t] = 0
  BY <1>1 DEF SentBooks
<1>3. ~(Ready(w, t) /\ t < MaxStep)
  BY <1>0, <1>1 DEF Ready
<1>4. QED
  BY <1>2, <1>3, SentMoves

\* What was sent in this superstep is queued or on its way.
LEMMA QueuedStep ==
  ASSUME TypeOK, RelayInv, InboxBooks, SentBooks, [Next]_vars,
         NEW w \in Workers, NEW s \in Supersteps, wstep'[w] = s
  PROVE  Queued(w, s)'
<1>0. /\ SumInv /\ s \in Nat /\ (s + 1) % 2 \in {0, 1} /\ inbox[w] \in [{0, 1} -> Nat] /\ wstep[w] \in Nat
  BY BalanceParts, RoundTypes DEF RelayInv, TypeOK, WorkerTypeOK
<1>1. CASE wstep[w] = s
  <2>1. Queued(w, s)
    BY <1>1 DEF InboxBooks
  <2>2. CASE Doomed(w, s)
    BY <1>0, <2>2, DoomedKept DEF Queued
  <2>3. CASE Balance(w, s) = 0
    BY <1>1, <2>3, Conserved DEF Conserves, Queued
  <2>4. QED
    BY <2>1, <2>2, <2>3 DEF Queued
<1>2. CASE wstep[w] # s
  <2>1. /\ s = wstep[w] + 1 /\ Into(w) = 2 /\ arrived[w] = 3 * wstep[w] + 3
        /\ UNCHANGED <<toMaster, toWorker, hpc, hmsg, inbox, sentTo>>
    BY <1>0, <1>2, NextSuperstep
  <2>2. wstep[w] \in Supersteps
    BY <1>0, <2>1, BoundsAssumption DEF Supersteps
  <2>3. inbox[w][wstep[w] % 2] = 0
    BY <2>1, <2>2 DEF InboxBooks, Due, Computed
  <2>4. wstep[w] % 2 = (s + 1) % 2
    BY <1>0, <2>1
  <2>5. Flight(Known(w, s)) = 0
    BY <1>0, <1>2, NoFlight DEF Ready
  <2>6. sentTo[w][s] = 0
    <3>1. arrived[w] <= 3 * s
      BY <1>0, <2>1
    <3>2. QED
      BY <3>1 DEF SentBooks
  <2>7. Flight(Known(w, s))' = Flight(Known(w, s))
    <3>1. DEFINE k == Known(w, s)
    <3> HIDE DEF k
    <3>2. Up(k)' = Up(k) /\ Down(k)' = Down(k)
      BY <2>1, CountsKept
    <3>3. \A u \in Workers : (hpc'[u] = "relay" /\ hmsg'[u] = k) <=> (hpc[u] = "relay" /\ hmsg[u] = k)
      BY <2>1
    <3>4. Flight(k)' = Flight(k)
      BY <3>2, <3>3, FlightKept
    <3>5. QED
      BY <3>4 DEF k
  <2>8. Balance(w, s)' = 0
    BY <1>0, <2>1, <2>3, <2>4, <2>5, <2>6, <2>7 DEF Balance
  <2>9. QED
    BY <2>8 DEF Queued
<1>3. QED
  BY <1>1, <1>2

\* What was sent in the one before is what this one is computed with.
LEMMA DueStep ==
  ASSUME TypeOK, RelayInv, InboxBooks, SentBooks, [Next]_vars,
         NEW w \in Workers, NEW s \in Supersteps, wstep'[w] = s
  PROVE  Due(w, s)'
<1>0. /\ SumInv /\ s \in Nat /\ s % 2 \in {0, 1} /\ inbox[w] \in [{0, 1} -> Nat] /\ wstep[w] \in Nat
      /\ sentTo[w] \in [Supersteps -> Nat]
  BY BalanceParts, RoundTypes DEF RelayInv, TypeOK, WorkerTypeOK, HistoryTypeOK
<1>1. CASE wstep[w] = s
  <2>1. Due(w, s)
    BY <1>1 DEF InboxBooks
  <2>2. CASE Ends(w)
    BY <1>0, <1>1, <2>2, ComputedMoves, InboxOfStep DEF Due
  <2>3. CASE ~Ends(w) /\ Computed(w)
    BY <1>0, <1>1, <2>1, <2>3, ComputedMoves, InboxOfStep DEF Due
  <2>4. CASE ~Ends(w) /\ ~Computed(w)
    <3>1. ~Computed(w)' /\ inbox'[w][s % 2] = inbox[w][s % 2]
      BY <1>0, <1>1, <2>4, ComputedMoves, InboxOfStep
    <3>2. Sent(w, s)' = Sent(w, s)
      <4>1. ASSUME s > 0
            PROVE  sentTo'[w][s - 1] = sentTo[w][s - 1]
        <5>1. s - 1 \in Supersteps /\ ~Ready(w, s - 1)
          BY <1>0, <1>1, <4>1, BoundsAssumption DEF Supersteps, Ready
        <5>2. QED
          BY <1>0, <5>1, SentMoves
      <4>2. QED
        BY <1>0, <4>1 DEF Sent
    <3>3. s > 0 /\ Doomed(w, s - 1) => Doomed(w, s - 1)'
      BY <1>0, DoomedKept
    <3>4. QED
      BY <2>1, <2>4, <3>1, <3>2, <3>3 DEF Due
  <2>5. QED
    BY <2>2, <2>3, <2>4
<1>2. CASE wstep[w] # s
  <2> DEFINE r == s - 1
  <2>1. /\ r = wstep[w] /\ s > 0 /\ Into(w)' = 0 /\ passed[w] = 3 * r + 2
        /\ UNCHANGED <<inbox, sentTo>>
    BY <1>0, <1>2, NextSuperstep
  <2>2. r \in Supersteps /\ r \in Nat
    BY <1>0, <2>1, BoundsAssumption DEF Supersteps
  <2>3. ~Computed(w)'
    BY <2>1 DEF Computed
  <2>4. Queued(w, r)
    BY <2>1, <2>2 DEF InboxBooks
  <2>5. CASE Doomed(w, r)
    BY <1>0, <2>1, <2>2, <2>3, <2>5, DoomedKept DEF Due
  <2>6. CASE Balance(w, r) = 0
    <3>1. Flight(Known(w, r)) = 0
      <4>1. ~Ready(w, r)
        BY <2>1, <2>2 DEF Ready
      <4>2. QED
        BY <2>2, <4>1, NoFlight DEF RelayInv
    <3>2. (r + 1) % 2 = s % 2 /\ sentTo[w][r] \in Nat /\ inbox[w][s % 2] \in Nat
      BY <1>0, <2>2
    <3>3. inbox[w][s % 2] = sentTo[w][r]
      BY <2>6, <3>1, <3>2 DEF Balance
    <3>4. inbox'[w][s % 2] = Sent(w, s)'
      BY <2>1, <3>3 DEF Sent
    <3>5. QED
      BY <2>3, <3>4 DEF Due
  <2>7. QED
    BY <2>4, <2>5, <2>6 DEF Queued
<1>3. QED
  BY <1>1, <1>2

LEMMA InboxBooksStep ==
  ASSUME TypeOK, RelayInv, InboxBooks, SentBooks, [Next]_vars
  PROVE  InboxBooks'
  BY QueuedStep, DueStep DEF InboxBooks

\* The KEEP barrier of the last superstep counts no active vertex.
LEMMA KeepIsLast ==
  ASSUME TypeOK, SumInv, ActiveBooks, StepBound,
         mpc = "notify", round = 3 * mstep + 2, mstep = MaxStep + 1
  PROVE  mphase = "KEEP" /\ gathered = 0
<1>0. /\ AgreeInv /\ LockInv /\ gathered \in Int /\ mphase \in Phases /\ round \in Nat /\ mstep \in Nat
      /\ MaxStep \in Nat /\ \A u \in Workers : passed[u] \in Nat /\ wstep[u] \in Nat /\ arrived[u] \in Nat
  BY RoundTypes, BoundsAssumption DEF SumInv, AgreeInv, TypeOK, MasterTypeOK
<1>1. mphase = "KEEP"
  BY <1>0 DEF AgreeInv, MasterPlace, Stage, Phases
<1>2. Broadcast.val = gathered
  BY <1>1 DEF Broadcast, Step
<1>3. SUFFICES ASSUME gathered # 0
               PROVE  FALSE
  BY <1>1
<1>4. ASSUME NEW u \in Workers
      PROVE  active[u] = 0
  <2>1. passed[u] >= round /\ passed[u] <= round + 1
    <3>1. arrived[u] > round /\ arrived[u] <= passed[u] + 1 /\ passed[u] <= RoundOf(u)
      BY <1>0 DEF LockInv, RoundBooks, AgreeInv, InStep, MasterAgrees
    <3>2. RoundOf(u) <= round + 1
      BY <1>0 DEF RoundOf
    <3>3. RoundOf(u) \in Nat
      BY <1>0 DEF RoundOf
    <3>4. QED
      BY <1>0, <3>1, <3>2, <3>3
  <2>2. passed[u] # round + 1
    <3>1. passed[u] = round + 1 => wstep[u] = After(2, mstep, gathered)
      BY <1>0, <1>2 DEF AgreeInv, MasterAgrees
    <3>2. passed[u] = round + 1 => wstep[u] = MaxStep + 2
      BY <1>0, <1>3, <3>1 DEF After
    <3>3. QED
      BY <1>0, <3>2 DEF StepBound
  <2>3. passed[u] = round
    BY <1>0, <2>1, <2>2
  <2>4. wstep[u] = mstep
    BY <2>3 DEF SumInv, AgreeInv, MasterAgrees
  <2>5. Into(u) = 2
    BY <1>0, <2>3, <2>4 DEF Into
  <2>6. QED
    BY <2>4, <2>5 DEF StepBound, Computed
<1>5. gathered = 0
  BY <1>4 DEF ActiveBooks
<1>6. QED
  BY <1>3, <1>5

\* Without messages no vertex is active in the last superstep.
LEMMA LastIsIdle ==
  ASSUME TypeOK, RelayInv, InboxBooks, SentBooks, NEW w \in Workers, wstep[w] = MaxStep + 1,
         NEW act \in {0, 1}, NEW delta \in {0, 1}, WorkerEndsStep(w, act, delta)
  PROVE  active'[w] = 0
<1>0. SumInv /\ MaxStep \in Nat /\ MaxStep + 1 \in Supersteps /\ MaxStep \in Supersteps /\ (MaxStep + 1) - 1 = MaxStep
  BY BoundsAssumption DEF RelayInv, Supersteps
<1>1. wpc[w] = "compute"
  BY DEF WorkerEndsStep
<1>2. ~Computed(w)
  BY <1>0, <1>1, Computing DEF Computed, SumInv
<1>3. ~Doomed(w, MaxStep)
  BY <1>0, <1>1, NotDoomed
<1>4. inbox[w][wstep[w] % 2] = Sent(w, MaxStep + 1)
  BY <1>0, <1>2, <1>3 DEF InboxBooks, Due
<1>5. sentTo[w][MaxStep] = 0
  BY <1>0 DEF SentBooks
<1>6. Sent(w, MaxStep + 1) = 0
  BY <1>0, <1>5 DEF Sent
<1>7. Pending(w) = 0
  BY <1>4, <1>6 DEF Pending
<1>8. act = 0
  BY <1>0, <1>7 DEF WorkerEndsStep
<1>9. QED
  BY <1>8 DEF WorkerEndsStep, TypeOK, WorkerTypeOK

\* Without messages the vertices stop.
LEMMA StepBoundStep ==
  ASSUME TypeOK, RelayInv, ActiveBooks, InboxBooks, SentBooks, StepBound, [Next]_vars
  PROVE  StepBound'
<1>0. /\ SumInv /\ AgreeInv /\ PlaceBooks /\ LockInv /\ mstep \in Nat /\ round \in Nat /\ MaxStep \in Nat
      /\ \A u \in Workers : wstep[u] \in Nat /\ passed[u] \in Nat
  BY RoundTypes, BoundsAssumption DEF RelayInv, SumInv, AgreeInv
<1>1. mstep' <= MaxStep + 1
  <2>1. mstep' = mstep \/ AllWorkersNotified
    <3>1. CASE MasterStep
      BY <3>1 DEF MasterStep, MasterStartsJob, MasterStartFails, PublishJobDetails, MasterBeginsSuperstep,
         AllWorkersArrived, MasterCompletesJob, MasterCompleteFails, MasterAborts, MasterReturns,
         MasterContextExpires, MasterSeesDisconnect, MasterClosesStream, masterVars
    <3>2. ASSUME NEW u \in Workers, HandlerStep(u)
          PROVE  mstep' = mstep
      BY <3>2, HandlerMakesReply
    <3>3. ASSUME NEW u \in Workers, WorkerStep(u) \/ ReceiverStep(u) \/ LinkBreaks(u)
          PROVE  mstep' = mstep
      BY <3>3, WorkerSideKeepsBarrier DEF MasterSide, masterVars
    <3>4. CASE UNCHANGED vars
      BY <3>4 DEF vars, masterVars
    <3>5. QED
      BY <3>1, <3>2, <3>3, <3>4 DEF Next, Stutter
  <2>2. CASE AllWorkersNotified /\ mstep = MaxStep + 1
    <3>1. mphase = "KEEP" /\ gathered # 0 => round = 3 * mstep + 2
      BY <1>0, <2>2 DEF AgreeInv, MasterPlace, Stage, AllWorkersNotified
    <3>2. ~(mphase = "KEEP" /\ gathered # 0)
      BY <1>0, <2>2, <3>1, KeepIsLast DEF AllWorkersNotified
    <3>3. mstep' = mstep
      BY <2>2, <3>2 DEF AllWorkersNotified
    <3>4. QED
      BY <1>0, <2>2, <3>3
  <2>3. CASE AllWorkersNotified /\ mstep # MaxStep + 1
    <3>1. mstep' = mstep \/ mstep' = mstep + 1
      BY <2>3 DEF AllWorkersNotified
    <3>2. QED
      BY <1>0, <2>3, <3>1 DEF StepBound
  <2>4. QED
    BY <1>0, <2>1, <2>2, <2>3 DEF StepBound
<1>2. ASSUME NEW w \in Workers
      PROVE  /\ wstep'[w] <= MaxStep + 1
             /\ wstep'[w] = MaxStep + 1 =>
                  /\ Computed(w)' => active'[w] = 0
                  /\ Into(w)' = 2 => \A m \in Replies(w)' : m.val = 0
  <2>1. CASE wstep'[w] # wstep[w]
    <3>1. /\ wstep'[w] = wstep[w] + 1 /\ Into(w) = 2 /\ Into(w)' = 0
          /\ \E m \in Replies(w) : m.val # 0
      BY <1>0, <2>1, NextSuperstep
    <3>2. wstep[w] # MaxStep + 1
      BY <3>1 DEF StepBound
    <3>3. wstep[w] <= MaxStep + 1
      BY DEF StepBound
    <3>4. QED
      BY <1>0, <3>1, <3>2, <3>3 DEF Computed
  <2>2. CASE wstep'[w] = wstep[w]
    <3>1. wstep'[w] <= MaxStep + 1
      BY <2>2 DEF StepBound
    <3>2. ASSUME wstep[w] = MaxStep + 1, Computed(w)'
          PROVE  active'[w] = 0
      <4>1. CASE Ends(w)
        BY <3>2, <4>1, LastIsIdle DEF Ends
      <4>2. CASE ~Ends(w)
        <5>1. Computed(w)
          BY <1>0, <2>2, <3>2, <4>2, ComputedMoves
        <5>2. active[w] = 0
          BY <3>2, <5>1 DEF StepBound
        <5>3. QED
          BY <1>0, <4>2, <5>2, PhaseMoves
      <4>3. QED
        BY <4>1, <4>2
    <3>3. ASSUME wstep[w] = MaxStep + 1, Into(w)' = 2, NEW m \in Replies(w)'
          PROVE  m.val = 0
      <4>1. /\ passed'[w] = passed[w]
            /\ m \in Replies(w) \/ HandlerNotified(w)
        BY <1>0, <3>3, RoundMoves
      <4>2. Into(w) = 2
        BY <2>2, <3>3, <4>1 DEF Into
      <4>3. CASE m \in Replies(w)
        BY <3>3, <4>2, <4>3 DEF StepBound
      <4>4. CASE m \notin Replies(w)
        <5>1. HandlerNotified(w) /\ m = Broadcast
          <6>1. HandlerNotified(w)
            BY <4>1, <4>4
          <6>2. HandlerStep(w)
            BY <6>1 DEF HandlerStep
          <6>3. QED
            BY <3>3, <4>4, <6>1, <6>2, HandlerMakesReply
        <5>2. hpc[w] = "joined" /\ mpc = "notify"
          BY <5>1 DEF HandlerNotified
        <5>3. passed[w] = round
          BY <1>0, <5>2 DEF LockInv, BarrierBooks, RoundBooks
        <5>4. wstep[w] = mstep
          BY <5>2, <5>3, <1>0 DEF AgreeInv, MasterAgrees
        <5>5. round = 3 * mstep + 2
          BY <1>0, <4>2, <5>3, <5>4 DEF Into
        <5>6. mphase = "KEEP" /\ gathered = 0
          BY <1>0, <3>3, <5>2, <5>4, <5>5, KeepIsLast
        <5>7. QED
          BY <5>1, <5>6 DEF Broadcast, Step
      <4>5. QED
        BY <4>3, <4>4
    <3>4. QED
      BY <2>2, <3>1, <3>2, <3>3
  <2>3. QED
    BY <2>1, <2>2
<1>3. QED
  BY <1>1, <1>2 DEF StepBound

-----------------------------------------------------------------------------
LEMMA InboxInit == Init => InboxBooks /\ SentBooks /\ StepBound
<1> SUFFICES ASSUME Init PROVE InboxBooks /\ SentBooks /\ StepBound
  OBVIOUS
<1>0. /\ \A w \in Workers : /\ wstep[w] = 0 /\ passed[w] = 0 /\ arrived[w] = 0 /\ wphase[w] = "PRE"
                            /\ inbox[w] = [q \in {0, 1} |-> 0] /\ hpc[w] = "off"
                            /\ toMaster[w] = <<>> /\ toWorker[w] = <<>>
      /\ \A w \in Workers : \A t \in Supersteps : sentTo[w][t] = 0
      /\ mstep = 0 /\ MaxStep \in Nat /\ 0 \in Supersteps
  BY BoundsAssumption DEF Init, Supersteps
<1>1. \A w \in Workers : Into(w) = 0
  BY <1>0 DEF Into
<1>2. StepBound
  BY <1>0 DEF StepBound
<1>3. SentBooks
  BY <1>0 DEF SentBooks
<1>4. InboxBooks
  <2> SUFFICES ASSUME NEW w \in Workers PROVE Queued(w, 0) /\ Due(w, 0)
    BY <1>0 DEF InboxBooks
  <2>1. Due(w, 0)
    BY <1>0, <1>1 DEF Due, Computed, Sent
  <2>2. Flight(Known(w, 0)) = 0
    <3>1. Copies(toMaster, Known(w, 0)) = {}
      <4>1. \A v \in Workers : 1 .. Len(toMaster[v]) = {}
        BY <1>0
      <4>2. QED
        BY <4>1, CopyAt
    <3>2. Copies(toWorker, Known(w, 0)) = {}
      <4>1. \A v \in Workers : 1 .. Len(toWorker[v]) = {}
        BY <1>0
      <4>2. QED
        BY <4>1, CopyAt
    <3>3. Carried(Known(w, 0)) = {}
      BY <1>0 DEF Carried
    <3>4. QED
      BY <3>1, <3>2, <3>3, FS_EmptySet DEF Flight
  <2>3. Balance(w, 0) = 0
    BY <1>0, <2>2 DEF Balance
  <2>4. QED
    BY <2>1, <2>3 DEF Queued
<1>5. QED
  BY <1>2, <1>3, <1>4

\* Every message is in the queue of its destination, on its way to it, or so
\* lost that its destination does not compute the next superstep.
THEOREM InboxInvariant == Spec => []InboxInv
<1>1. Init => InboxInv
  BY RelayInit, SumStarts, ActiveInit, InboxInit DEF InboxInv, RelayInv
<1>2. InboxInv /\ TypeOK /\ TypeOK' /\ [Next]_vars => InboxInv'
  <2> SUFFICES ASSUME InboxInv, TypeOK, TypeOK', [Next]_vars PROVE InboxInv'
    OBVIOUS
  <2>0. RelayInv /\ SumInv /\ ActiveBooks /\ InboxBooks /\ SentBooks /\ StepBound
    BY DEF InboxInv, RelayInv
  <2>1. RelayInv'
    BY <2>0, RelayStep
  <2>2. MasterPlace'
    BY <2>1 DEF RelayInv, SumInv, AgreeInv
  <2>3. ActiveBooks'
    BY <2>0, <2>2, ActiveStep
  <2>4. InboxBooks' /\ SentBooks' /\ StepBound'
    BY <2>0, InboxBooksStep, SentBooksStep, StepBoundStep
  <2>5. QED
    BY <2>1, <2>3, <2>4 DEF InboxInv
<1>3. QED
  BY <1>1, <1>2, TypeCorrect, PTL DEF Spec

\* No worker computes a superstep without a message that was sent for it in the
\* one before (worker_job_coordinator.go, SendMessage of the receiver).
THEOREM MessagesArrive == Spec => []NoMessageMissed
<1>1. TypeOK /\ InboxInv => NoMessageMissed
  <2> SUFFICES ASSUME TypeOK, InboxInv, NEW w \in Workers, wpc[w] = "compute"
               PROVE  Pending(w) = IF wstep[w] = 0 THEN 0 ELSE sentTo[w][wstep[w] - 1]
    BY DEF NoMessageMissed
  <2>0. SumInv /\ InboxBooks /\ StepBound /\ wstep[w] \in Nat /\ MaxStep \in Nat
    BY RoundTypes, BoundsAssumption DEF InboxInv, RelayInv
  <2>1. wstep[w] \in Supersteps
    BY <2>0 DEF StepBound, Supersteps
  <2>2. ~Computed(w)
    BY <2>0, Computing DEF Computed, SumInv
  <2>3. ~(wstep[w] > 0 /\ Doomed(w, wstep[w] - 1))
    BY <2>0, NotDoomed
  <2>4. inbox[w][wstep[w] % 2] = Sent(w, wstep[w])
    BY <2>0, <2>1, <2>2, <2>3 DEF InboxBooks, Due
  <2>5. QED
    BY <2>4 DEF Pending, Sent
<1>2. QED
  BY <1>1, TypeCorrect, InboxInvariant, PTL
=============================================================================
