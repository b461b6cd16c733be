----------------------------- MODULE StrayProofs -----------------------------
(***************************************************************************)
(* StraysAbort, for any number of workers, any failures and any bounds: a  *)
(* job in which a vertex wrote to an address that no graph holds stores    *)
(* nothing.                                                                *)
(***************************************************************************)
EXTENDS MessageProofs

-----------------------------------------------------------------------------
(***************************************************************************)
(* Where the others are when one has not left a superstep.                 *)
(***************************************************************************)

\* Nobody leaves the KEEP barrier of a superstep before all have left POST.
LEMMA Behind ==
  ASSUME TypeOK, SumInv, NEW s \in Nat, NEW v \in Workers, passed[v] <= 3 * s + 1
  PROVE  Shut(3 * s + 2)
<1>0. /\ AgreeInv /\ JoinBooks /\ LockInv /\ passed[v] \in Nat /\ arrived[v] \in Nat /\ round \in Nat
      /\ \A u \in Workers : passed[u] \in Nat
  BY RoundTypes DEF SumInv, AgreeInv
<1>1. arrived[v] <= 3 * s + 2
  BY <1>0 DEF AgreeInv, InStep
<1>2. ASSUME NEW u \in Workers
      PROVE  NotTold(u, 3 * s + 2)
  <2>1. passed[u] <= arrived[v]
    BY <1>0 DEF AgreeInv, InStep
  <2>2. Replies(u) # {} => arrived[v] > passed[u]
    BY <1>0, TokensInFlight DEF LockInv, RoundBooks
  <2>3. QED
    BY <1>0, <1>1, <2>1, <2>2 DEF NotTold
<1>3. mpc # "done" => round < 3 * s + 2 \/ (round = 3 * s + 2 /\ mpc # "notify")
  <2>1. round <= arrived[v] /\ (mpc = "notify" => arrived[v] > round)
    BY <1>0 DEF JoinBooks, LockInv, RoundBooks
  <2>2. QED
    BY <1>0, <1>1, <2>1
<1>4. QED
  BY <1>2, <1>3 DEF Shut

\* Once one is through with the supersteps all of them are in the last one.
LEMMA Settled ==
  ASSUME TypeOK, SumInv, NEW u \in Workers, NEW v \in Workers, Into(u) >= 3
  PROVE  wstep[v] = wstep[u]
<1>0. /\ AgreeInv /\ PlaceBooks /\ Into(u) \in 0 .. 5 /\ Into(v) \in 0 .. 5
      /\ passed[u] = 3 * wstep[u] + Into(u) /\ passed[v] = 3 * wstep[v] + Into(v)
      /\ passed[u] \in Nat /\ passed[v] \in Nat /\ wstep[u] \in Nat /\ wstep[v] \in Nat
      /\ arrived[u] \in Nat /\ arrived[v] \in Nat
  BY RoundTypes DEF SumInv, AgreeInv, PlaceBooks, Into
<1>1. passed[u] <= passed[v] + 1 /\ passed[v] <= passed[u] + 1
  BY <1>0 DEF AgreeInv, InStep
<1>2. CASE passed[u] = passed[v]
  BY <1>2 DEF SumInv, AgreeInv, WorkersAgree
<1>3. CASE passed[v] = passed[u] + 1
  <2>1. PICK x \in {0, 1} : wstep[v] = After(Into(u), wstep[u], x)
    BY <1>3 DEF SumInv, AgreeInv, WorkersAgree
  <2>2. QED
    BY <1>0, <2>1 DEF After
<1>4. CASE passed[u] = passed[v] + 1
  <2>1. PICK x \in {0, 1} : wstep[u] = After(Into(v), wstep[v], x)
    BY <1>4 DEF SumInv, AgreeInv, WorkersAgree
  <2>2. CASE wstep[u] = wstep[v]
    BY <2>2
  <2>3. CASE Into(v) = 2 /\ wstep[u] = wstep[v] + 1
    BY <1>0, <1>4, <2>3
  <2>4. QED
    BY <2>1, <2>2, <2>3 DEF After
<1>5. QED
  BY <1>0, <1>1, <1>2, <1>3, <1>4

\* While a KEEP barrier is shut nobody stops, and an abort comes in time.
LEMMA ShutAborts ==
  ASSUME TypeOK, SumInv, NEW s \in Nat, Shut(3 * s + 2)
  PROVE  /\ NobodyStops(s)
         /\ mpc # "done" => mstep <= s
         /\ \A u \in Workers : passed[u] <= 3 * s + 2
<1>0. /\ \A u \in Workers : passed[u] \in Nat /\ wstep[u] \in Nat /\ Into(u) = passed[u] - 3 * wstep[u]
      /\ \A u \in Workers : passed[u] <= 3 * s + 2 /\ (passed[u] = 3 * s + 2 => Replies(u) = {})
      /\ mpc # "done" => round <= 3 * s + 2
      /\ round \in Nat /\ mstep \in Nat /\ 3 * mstep <= round
  BY RoundTypes DEF SumInv, JoinBooks, Shut, NotTold, Into
<1>1. mpc # "done" => mstep <= s
  BY <1>0
<1>2. ASSUME NEW u \in Workers, wstep[u] = s
      PROVE  Into(u) <= 2 /\ (Into(u) = 2 => \A m \in Replies(u) : m.val # 0)
  BY <1>0, <1>2
<1>3. QED
  BY <1>0, <1>1, <1>2 DEF NobodyStops

\* A worker that leaves a POST barrier is one that the KEEP barrier waits for.
LEMMA LeftHeld ==
  ASSUME TypeOK, SumInv, [Next]_vars, NEW s \in Nat, NEW v \in Workers,
         passed[v] = 3 * s + 1, LeavesAny(v)
  PROVE  /\ Held(v, 3 * s + 2)' /\ toMaster' = toMaster /\ NoStep(toMaster[v])
<1>0. /\ LockInv /\ PlaceBooks /\ JoinBooks /\ passed \in [Workers -> Nat]
  BY DEF SumInv, AgreeInv, TypeOK, HistoryTypeOK
<1>1. /\ Answered(v) /\ Replies(v) # {} /\ Replies(v)' = {}
      /\ \A u \in Workers \ {v} : Replies(u)' = Replies(u)
      /\ passed' = [passed EXCEPT ![v] = @ + 1]
      /\ UNCHANGED <<hpc, mpc, toMaster, inround, round>>
  BY <1>0, LeavesForNext
<1>2. NoStep(toMaster[v]) /\ hpc[v] # "join" /\ v \notin inround
  <2>1. v \notin inround
    BY <1>0, <1>1 DEF JoinBooks
  <2>2. ~Asking(v)
    BY <1>0, <1>1 DEF LockInv, TokenBooks, Asking, Answered, Handling
  <2>3. QED
    BY <2>1, <2>2 DEF Asking
<1>3. Shut(3 * s + 2)
  BY Behind
<1>4. passed'[v] = 3 * s + 2 /\ \A u \in Workers \ {v} : passed'[u] = passed[u]
  BY <1>0, <1>1
<1>5. \A u \in Workers : NotTold(u, 3 * s + 2)'
  BY <1>1, <1>3, <1>4 DEF Shut, NotTold
<1>6. mpc' # "done" => round' < 3 * s + 2 \/ (round' = 3 * s + 2 /\ mpc' # "notify")
  BY <1>1, <1>3 DEF Shut
<1>7. Shut(3 * s + 2)'
  BY <1>5, <1>6 DEF Shut
<1>8. QED
  BY <1>1, <1>2, <1>4, <1>7 DEF Held

-----------------------------------------------------------------------------
(***************************************************************************)
(* A stray message on its way back to the master is there before its       *)
(* worker has left the next barrier.                                       *)
(***************************************************************************)
LEMMA StraysUpStep ==
  ASSUME TypeOK, RelayInv, StraysUp, [Next]_vars, TypeOK'
  PROVE  StraysUp'
<1>0. SumInv /\ AgreeInv /\ JoinBooks /\ \A u \in Workers : passed[u] \in Nat
  BY RoundTypes DEF RelayInv, SumInv
<1> SUFFICES ASSUME NEW v \in Workers, NEW i \in 1 .. Len(toMaster'[v]), NEW m, m = toMaster'[v][i],
                    m.type = "relay", ~m.known
             PROVE  passed'[v] <= 3 * m.sent + 1 \/ (Held(v, 3 * m.sent + 2)' /\ Ahead(toMaster'[v], i))
  BY DEF StraysUp
<1>1. m \in RelayMsg
  <2>1. toMaster'[v] \in Seq(WorkerPayload)
    BY DEF TypeOK, StreamTypeOK
  <2>2. m \in WorkerPayload
    BY <2>1, ElementOfSeq
  <2>3. QED
    BY <2>2, RelayTypes
<1>2. m.sent \in Nat /\ 3 * m.sent + 1 \in Nat /\ 3 * m.sent + 2 \in Nat
  BY <1>1 DEF RelayMsg
<1>3. ASSUME NEW j \in 1 .. Len(toMaster[v]), toMaster[v][j] = m, Ahead(toMaster[v], j) => Ahead(toMaster'[v], i)
      PROVE  passed'[v] <= 3 * m.sent + 1 \/ (Held(v, 3 * m.sent + 2)' /\ Ahead(toMaster'[v], i))
  <2>1. passed[v] <= 3 * m.sent + 1 \/ (Held(v, 3 * m.sent + 2) /\ Ahead(toMaster[v], j))
    BY <1>3 DEF StraysUp
  <2>2. CASE Held(v, 3 * m.sent + 2) /\ Ahead(toMaster[v], j)
    <3>1. ~HandlerTakesStep(v)
      <4>1. HandlerTakesStep(v) => toMaster[v][1].type = "step"
        BY HandlerMoves
      <4>2. 1 \in 1 .. j
        BY <1>3, RelayTypes
      <4>3. QED
        BY <2>2, <4>1, <4>2 DEF Ahead
    <3>2. QED
      BY <1>0, <1>2, <1>3, <2>2, <3>1, HeldKept
  <2>3. CASE passed[v] <= 3 * m.sent + 1 /\ ~LeavesAny(v)
    <3>1. passed'[v] = passed[v]
      BY <1>0, <2>3, RoundMoves
    <3>2. QED
      BY <2>3, <3>1
  <2>4. CASE passed[v] < 3 * m.sent + 1
    <3>1. passed'[v] = passed[v] \/ passed'[v] = passed[v] + 1
      BY <1>0, RoundMoves
    <3>2. passed'[v] <= 3 * m.sent + 1
      BY <1>0, <1>2, <2>4, <3>1
    <3>3. QED
      BY <3>2
  <2>5. CASE passed[v] = 3 * m.sent + 1 /\ LeavesAny(v)
    <3>1. Held(v, 3 * m.sent + 2)' /\ toMaster' = toMaster /\ NoStep(toMaster[v])
      BY <1>0, <1>2, <2>5, LeftHeld
    <3>2. Ahead(toMaster'[v], i)
      BY <3>1, RelayTypes DEF Ahead, NoStep
    <3>3. QED
      BY <3>1, <3>2
  <2>6. QED
    BY <1>0, <1>2, <2>1, <2>2, <2>3, <2>4, <2>5
<1>4. ASSUME NewUp(v, m, i)
      PROVE  passed'[v] <= 3 * m.sent + 1
  <2>1. CASE ReceiverBounces(v) /\ m = rmsg[v]
    <3>1. rpc[v] = "bounce" /\ passed' = passed
      BY <2>1 DEF ReceiverBounces, WorkerOnly, roundVars
    <3>2. passed[v] <= 3 * m.sent + 1
      BY <2>1, <3>1 DEF RelayInv, Bouncing
    <3>3. QED
      BY <3>1, <3>2
  <2>2. ASSUME NEW d \in Workers, NEW known \in BOOLEAN, WorkerRelays(v, d, known), m.sent = wstep[v]
        PROVE  passed'[v] <= 3 * m.sent + 1
    <3>1. wpc[v] = "compute" /\ passed' = passed
      BY <2>2 DEF WorkerRelays, roundVars
    <3>2. passed[v] = 3 * wstep[v] + 1
      BY <1>0, <3>1, Computing
    <3>3. QED
      BY <1>0, <2>2, <3>1, <3>2
  <2>3. CASE ~(ReceiverBounces(v) /\ m = rmsg[v])
    <3>1. PICK d \in Workers, known \in BOOLEAN :
            /\ WorkerRelays(v, d, known)
            /\ m = [type |-> "relay", dst |-> d, known |-> known, sent |-> wstep[v]]
      BY <1>4, <2>3 DEF NewUp
    <3>2. m.sent = wstep[v]
      BY <3>1
    <3>3. QED
      BY <2>2, <3>1, <3>2
  <2>4. QED
    BY <2>1, <2>3
<1>5. QED
  BY <1>3, <1>4, UpMoves

-----------------------------------------------------------------------------
(***************************************************************************)
(* Where a message goes from where it is.                                  *)
(***************************************************************************)
In(m, q) == \E i \in 1 .. Len(q) : q[i] = m

\* A message in a queue stays in it, or is its first and taken, or is cut off.
LEMMA QueueKeeps ==
  ASSUME NEW S, NEW q \in Seq(S), NEW m, In(m, q)
  PROVE  /\ \A x \in S : In(m, Append(q, x))
         /\ q # <<>> => Head(q) = m \/ In(m, Tail(q))
         /\ \A x \in S : In(x, Append(q, x))
<1>0. PICK i \in 1 .. Len(q) : q[i] = m
  BY DEF In
<1>1. Len(q) \in Nat
  BY LenProperties
<1>2. ASSUME NEW x \in S
      PROVE  In(m, Append(q, x)) /\ In(x, Append(q, x))
  <2>1. Len(Append(q, x)) = Len(q) + 1 /\ Append(q, x)[i] = q[i] /\ Append(q, x)[Len(q) + 1] = x
    BY AppendProperties
  <2>2. i \in 1 .. Len(Append(q, x)) /\ Len(q) + 1 \in 1 .. Len(Append(q, x))
    BY <1>1, <2>1
  <2>3. QED
    BY <1>0, <2>1, <2>2 DEF In
<1>3. ASSUME q # <<>>, Head(q) # m
      PROVE  In(m, Tail(q))
  <2>1. Head(q) = q[1] /\ Len(Tail(q)) = Len(q) - 1 /\ \A j \in 1 .. Len(Tail(q)) : Tail(q)[j] = q[j + 1]
    BY <1>3, HeadTailProperties, EmptySeq, LenProperties
  <2>2. i # 1
    BY <1>0, <1>3, <2>1
  <2>3. i - 1 \in 1 .. Len(Tail(q)) /\ (i - 1) + 1 = i
    BY <1>1, <2>1, <2>2
  <2>4. Tail(q)[i - 1] = m
    BY <1>0, <2>1, <2>3
  <2>5. QED
    BY <2>3, <2>4 DEF In
<1>4. QED
  BY <1>2, <1>3

\* What a cut leaves of a queue holds a payload, or nothing that came after
\* it.
LEMMA QueueCut ==
  ASSUME NEW S, NEW q \in Seq(S), NEW i \in 1 .. Len(q), NEW n \in 0 .. Len(q)
  PROVE  In(q[i], SubSeq(q, 1, n)) \/ (Ahead(q, i) => NoStep(SubSeq(q, 1, n)))
<1>1. Len(q) \in Nat /\ n \in Int /\ \A k \in 1 .. n : q[k] \in S
  BY LenProperties, ElementOfSeq
<1>2. Len(SubSeq(q, 1, n)) = n /\ \A k \in 1 .. n : SubSeq(q, 1, n)[k] = q[k]
  BY <1>1, SubSeqProperties
<1>3. CASE i <= n
  <2>1. i \in 1 .. Len(SubSeq(q, 1, n)) /\ SubSeq(q, 1, n)[i] = q[i]
    BY <1>1, <1>2, <1>3
  <2>2. QED
    BY <2>1 DEF In
<1>4. CASE i > n
  <2>1. \A k \in 1 .. n : k \in 1 .. i
    BY <1>1, <1>4
  <2>2. QED
    BY <1>2, <2>1 DEF Ahead, NoStep
<1>5. QED
  BY <1>1, <1>3, <1>4

\* What a payload that is sent, taken or cut off leaves in the streams.
LEMMA StreamKeeps ==
  ASSUME TypeOK, NEW v \in Workers, NEW m
  PROVE  /\ In(m, toMaster[v]) =>
              /\ \A w \in Workers, x \in WorkerPayload : SendToMaster(w, x) => In(m, toMaster'[v])
              /\ \A w \in Workers : toMaster[w] # <<>> /\ toMaster' = [toMaster EXCEPT ![w] = Tail(@)] =>
                   In(m, toMaster'[v]) \/ (w = v /\ Head(toMaster[v]) = m)
         /\ In(m, toWorker[v]) =>
              /\ \A w \in Workers, x \in MasterPayload : SendToWorker(w, x) => In(m, toWorker'[v])
              /\ \A w \in Workers : toWorker[w] # <<>> /\ toWorker' = [toWorker EXCEPT ![w] = Tail(@)] =>
                   In(m, toWorker'[v]) \/ (w = v /\ Head(toWorker[v]) = m)
<1>0. /\ toMaster \in [Workers -> Seq(WorkerPayload)] /\ toWorker \in [Workers -> Seq(MasterPayload)]
      /\ toMaster[v] \in Seq(WorkerPayload) /\ toWorker[v] \in Seq(MasterPayload)
  BY DEF TypeOK, StreamTypeOK
<1>1. ASSUME In(m, toMaster[v]), NEW w \in Workers, NEW x \in WorkerPayload, SendToMaster(w, x)
      PROVE  In(m, toMaster'[v])
  <2>1. toMaster'[v] = toMaster[v] \/ toMaster'[v] = Append(toMaster[v], x)
    BY <1>0, <1>1 DEF SendToMaster
  <2>2. QED
    BY <1>0, <1>1, <2>1, QueueKeeps
<1>2. ASSUME In(m, toMaster[v]), NEW w \in Workers, toMaster[w] # <<>>, toMaster' = [toMaster EXCEPT ![w] = Tail(@)]
      PROVE  In(m, toMaster'[v]) \/ (w = v /\ Head(toMaster[v]) = m)
  <2>1. toMaster'[v] = toMaster[v] \/ (w = v /\ toMaster'[v] = Tail(toMaster[v]))
    BY <1>0, <1>2
  <2>2. QED
    BY <1>0, <1>2, <2>1, QueueKeeps
<1>3. ASSUME In(m, toWorker[v]), NEW w \in Workers, NEW x \in MasterPayload, SendToWorker(w, x)
      PROVE  In(m, toWorker'[v])
  <2>1. toWorker'[v] = toWorker[v] \/ toWorker'[v] = Append(toWorker[v], x)
    BY <1>0, <1>3 DEF SendToWorker
  <2>2. QED
    BY <1>0, <1>3, <2>1, QueueKeeps
<1>4. ASSUME In(m, toWorker[v]), NEW w \in Workers, toWorker[w] # <<>>, toWorker' = [toWorker EXCEPT ![w] = Tail(@)]
      PROVE  In(m, toWorker'[v]) \/ (w = v /\ Head(toWorker[v]) = m)
  <2>1. toWorker'[v] = toWorker[v] \/ (w = v /\ toWorker'[v] = Tail(toWorker[v]))
    BY <1>0, <1>4
  <2>2. QED
    BY <1>0, <1>4, <2>1, QueueKeeps
<1>5. QED
  BY <1>1, <1>2, <1>3, <1>4

\* The streams are cut, and nothing else that matters here changes.
CutOnly(v) ==
  /\ \E i \in 0 .. Len(toMaster[v]), j \in 0 .. Len(toWorker[v]) : Cut(v, i, j)
  /\ UNCHANGED <<hpc, hmsg, rpc, rmsg, passed>>

\* The four ways in which a stream is cut.
LEMMA Cuts ==
  ASSUME TypeOK, NEW v \in Workers,
         MasterClosesStream(v) \/ WorkerContextExpires(v) \/ WorkerClosesStream(v) \/ LinkBreaks(v)
  PROVE  CutOnly(v)
<1>0. Len(toMaster[v]) \in Nat /\ Len(toWorker[v]) \in Nat
  BY RelayTypes
<1>1. UNCHANGED <<hpc, hmsg, rpc, rmsg, passed>>
  BY DEF MasterClosesStream, WorkerContextExpires, WorkerClosesStream, LinkBreaks, MasterSide, handlerVars,
     receiverVars, roundVars
<1>2. CASE MasterClosesStream(v)
  <2>1. PICK j \in {Len(toWorker[v]), Len(toWorker[v]) - 1} \cap Nat : Cut(v, 0, j)
    BY <1>2 DEF MasterClosesStream
  <2>2. 0 \in 0 .. Len(toMaster[v]) /\ j \in 0 .. Len(toWorker[v])
    BY <1>0
  <2>3. QED
    BY <1>1, <2>1, <2>2 DEF CutOnly
<1>3. CASE WorkerContextExpires(v) \/ WorkerClosesStream(v)
  <2>1. PICK i \in 0 .. Len(toMaster[v]) : Cut(v, i, 0)
    BY <1>0, <1>3 DEF WorkerContextExpires, WorkerClosesStream
  <2>2. 0 \in 0 .. Len(toWorker[v])
    BY <1>0
  <2>3. QED
    BY <1>1, <2>1, <2>2 DEF CutOnly
<1>4. CASE LinkBreaks(v)
  BY <1>1, <1>4 DEF CutOnly, LinkBreaks
<1>5. QED
  BY <1>2, <1>3, <1>4

\* A relayed message leaves the stream to the master when it is taken or cut
\* off.
LEMMA UpGoes ==
  ASSUME TypeOK, [Next]_vars, NEW v \in Workers, NEW m, m.type = "relay", In(m, toMaster[v])
  PROVE  \/ In(m, toMaster'[v])
         \/ HandlerTakesRelay(v) /\ Head(toMaster[v]) = m
         \/ CutOnly(v)
<1> DEFINE Goal == \/ In(m, toMaster'[v])
                   \/ HandlerTakesRelay(v) /\ Head(toMaster[v]) = m
                   \/ CutOnly(v)
<1>0. DOMAIN toMaster = Workers
  BY DEF TypeOK, StreamTypeOK
<1>1. ASSUME NEW w \in Workers, CutOnly(w)
      PROVE  Goal
  <2>1. w # v => toMaster'[v] = toMaster[v]
    BY <1>0, <1>1 DEF CutOnly, Cut
  <2>2. QED
    BY <1>1, <2>1
<1>2. ASSUME NEW w \in Workers, NEW x \in WorkerPayload, SendToMaster(w, x)
      PROVE  Goal
  BY <1>2, StreamKeeps
<1>3. ASSUME NEW w \in Workers, toMaster[w] # <<>>, toMaster' = [toMaster EXCEPT ![w] = Tail(@)],
             HandlerTakesStep(w) \/ HandlerTakesRelay(w)
      PROVE  Goal
  <2>1. In(m, toMaster'[v]) \/ (w = v /\ Head(toMaster[v]) = m)
    BY <1>3, StreamKeeps
  <2>2. w = v /\ Head(toMaster[v]) = m => ~HandlerTakesStep(w)
    BY DEF HandlerTakesStep
  <2>3. QED
    BY <1>3, <2>1, <2>2
<1>4. ASSUME toMaster' = toMaster
      PROVE  Goal
  BY <1>4
<1> HIDE DEF Goal
<1>5. ASSUME MasterStep
      PROVE  Goal
  <2>1. toMaster' = toMaster \/ \E w \in Workers : MasterClosesStream(w)
    BY <1>5 DEF MasterStep, MasterStartsJob, MasterStartFails, PublishJobDetails, MasterBeginsSuperstep,
       AllWorkersArrived, AllWorkersNotified, MasterCompletesJob, MasterCompleteFails, MasterAborts,
       MasterContextExpires, MasterSeesDisconnect, MasterOnly, streamVars
  <2>2. QED
    BY <1>1, <1>4, <2>1, Cuts
<1>6. ASSUME NEW w \in Workers, HandlerStep(w)
      PROVE  Goal
  <2>1. \/ toMaster' = toMaster
        \/ /\ toMaster[w] # <<>> /\ toMaster' = [toMaster EXCEPT ![w] = Tail(@)]
           /\ HandlerTakesStep(w) \/ HandlerTakesRelay(w)
    BY <1>6 DEF HandlerStep, HandlerTakesStep, HandlerTakesRelay, HandlerJoins, HandlerNotified, HandlerSends,
       HandlerDrops, HandlerExits
  <2>2. QED
    BY <1>3, <1>4, <2>1
<1>7. ASSUME NEW w \in Workers, WorkerStep(w)
      PROVE  Goal
  <2>1. CASE WorkerContextExpires(w) \/ WorkerClosesStream(w)
    BY <1>1, <2>1, Cuts
  <2>2. CASE WorkerEnters(w)
    <3>1. wphase[w] \in Phases /\ StepValue(w) \in Int
      BY DEF TypeOK, WorkerTypeOK, StepValue
    <3>2. Step(wphase[w], StepValue(w)) \in WorkerPayload
      BY <3>1, StepType DEF WorkerPayload
    <3>3. QED
      BY <1>2, <2>2, <3>2 DEF WorkerEnters
  <2>3. CASE \E d \in Workers, known \in BOOLEAN : WorkerRelays(w, d, known)
    <3>1. PICK d \in Workers, known \in BOOLEAN : WorkerRelays(w, d, known)
      BY <2>3
    <3>2. QED
      BY <1>2, <3>1, RelayIsPayload DEF WorkerRelays
  <2>4. CASE ~(\/ WorkerContextExpires(w) \/ WorkerClosesStream(w) \/ WorkerEnters(w)
               \/ \E d \in Workers, known \in BOOLEAN : WorkerRelays(w, d, known))
    <3>1. toMaster' = toMaster
      BY <1>7, <2>4 DEF WorkerStep, WorkerTakesJob, WorkerGetsNoJob, WorkerStartsJob, WorkerStartFails,
         WorkerBeginsSuperstep, WorkerEndsStep, WorkerStepFails, WorkerLeavesPre, WorkerLeavesPost, WorkerLeavesKeep,
         WorkerLeavesExecuted, WorkerLeavesPersisted, Leaves, WorkerCompletesJob, WorkerCompleteFails, WorkerAborts,
         streamVars
    <3>2. QED
      BY <1>4, <3>1
  <2>5. QED
    BY <2>1, <2>2, <2>3, <2>4
<1>8. ASSUME NEW w \in Workers, ReceiverStep(w)
      PROVE  Goal
  <2>1. CASE ReceiverBounces(w)
    <3>1. rmsg[w] \in WorkerPayload /\ SendToMaster(w, rmsg[w])
      BY <2>1 DEF ReceiverBounces, TypeOK, ReceiverTypeOK, WorkerPayload
    <3>2. QED
      BY <1>2, <3>1
  <2>2. CASE ~ReceiverBounces(w)
    <3>1. toMaster' = toMaster
      BY <1>8, <2>2 DEF ReceiverStep, ReceiverTakesStep, ReceiverTakesRelay, ReceiverExits, WorkerSeesDisconnect
    <3>2. QED
      BY <1>4, <3>1
  <2>3. QED
    BY <2>1, <2>2
<1>9. ASSUME UNCHANGED vars
      PROVE  Goal
  BY <1>4, <1>9 DEF vars, streamVars
<1>10. Goal
  BY <1>1, <1>5, <1>6, <1>7, <1>8, <1>9, Cuts DEF Next, Stutter
<1>11. QED
  BY <1>10 DEF Goal

\* A relayed message leaves the stream to a worker when it is taken or cut
\* off.
LEMMA DownGoes ==
  ASSUME TypeOK, [Next]_vars, NEW w \in Workers, NEW m, m.type = "relay", In(m, toWorker[w])
  PROVE  \/ In(m, toWorker'[w])
         \/ ReceiverTakesRelay(w) /\ Head(toWorker[w]) = m
         \/ CutOnly(w)
<1> DEFINE Goal == \/ In(m, toWorker'[w])
                   \/ ReceiverTakesRelay(w) /\ Head(toWorker[w]) = m
                   \/ CutOnly(w)
<1>0. DOMAIN toWorker = Workers
  BY DEF TypeOK, StreamTypeOK
<1>1. ASSUME NEW v \in Workers, CutOnly(v)
      PROVE  Goal
  <2>1. w # v => toWorker'[w] = toWorker[w]
    BY <1>0, <1>1 DEF CutOnly, Cut
  <2>2. QED
    BY <1>1, <2>1
<1>2. ASSUME NEW v \in Workers, NEW x \in MasterPayload, SendToWorker(v, x)
      PROVE  Goal
  BY <1>2, StreamKeeps
<1>3. ASSUME NEW v \in Workers, toWorker[v] # <<>>, toWorker' = [toWorker EXCEPT ![v] = Tail(@)],
             Head(toWorker[v]).type # "relay" \/ ReceiverTakesRelay(v)
      PROVE  Goal
  BY <1>3, StreamKeeps
<1>4. ASSUME toWorker' = toWorker
      PROVE  Goal
  BY <1>4
<1> HIDE DEF Goal
<1>5. ASSUME MasterStep
      PROVE  Goal
  <2>1. ASSUME NEW v \in Workers, PublishJobDetails(v)
        PROVE  Goal
    <3>1. [type |-> "details"] \in MasterPayload
      BY DEF MasterPayload, JobDetailsMsg
    <3>2. SendToWorker(v, [type |-> "details"]) \/ toWorker' = toWorker
      BY <2>1 DEF PublishJobDetails
    <3>3. QED
      BY <1>2, <1>4, <3>1, <3>2
  <2>2. CASE ~\E v \in Workers : PublishJobDetails(v)
    <3>1. toWorker' = toWorker \/ \E v \in Workers : MasterClosesStream(v)
      BY <1>5, <2>2 DEF MasterStep, MasterStartsJob, MasterStartFails, MasterBeginsSuperstep,
         AllWorkersArrived, AllWorkersNotified, MasterCompletesJob, MasterCompleteFails, MasterAborts,
         MasterContextExpires, MasterSeesDisconnect, MasterOnly, streamVars
    <3>2. QED
      BY <1>1, <1>4, <3>1, Cuts
  <2>3. QED
    BY <2>1, <2>2
<1>6. ASSUME NEW v \in Workers, HandlerStep(v)
      PROVE  Goal
  <2>1. CASE HandlerSends(v)
    <3>1. PICK d \in Workers : SendToWorker(d, hmsg[v]) /\ hmsg[v] \in MasterPayload
      BY <2>1 DEF HandlerSends, TypeOK, HandlerTypeOK, MasterPayload, WorkerPayload, RelayMsg
    <3>2. QED
      BY <1>2, <3>1
  <2>2. CASE ~HandlerSends(v)
    <3>1. toWorker' = toWorker
      BY <1>6, <2>2 DEF HandlerStep, HandlerTakesStep, HandlerTakesRelay, HandlerJoins, HandlerNotified,
         HandlerDrops, HandlerExits
    <3>2. QED
      BY <1>4, <3>1
  <2>3. QED
    BY <2>1, <2>2
<1>7. ASSUME NEW v \in Workers, WorkerStep(v)
      PROVE  Goal
  <2>1. CASE WorkerContextExpires(v) \/ WorkerClosesStream(v)
    BY <1>1, <2>1, Cuts
  <2>2. CASE WorkerTakesJob(v)
    BY <1>3, <2>2 DEF WorkerTakesJob
  <2>3. CASE ~(WorkerContextExpires(v) \/ WorkerClosesStream(v) \/ WorkerTakesJob(v))
    <3>1. toWorker' = toWorker
      BY <1>7, <2>3 DEF WorkerStep, WorkerEnters, WorkerRelays, WorkerGetsNoJob, WorkerStartsJob, WorkerStartFails,
         WorkerBeginsSuperstep, WorkerEndsStep, WorkerStepFails, WorkerLeavesPre, WorkerLeavesPost, WorkerLeavesKeep,
         WorkerLeavesExecuted, WorkerLeavesPersisted, Leaves, WorkerCompletesJob, WorkerCompleteFails, WorkerAborts,
         streamVars
    <3>2. QED
      BY <1>4, <3>1
  <2>4. QED
    BY <2>1, <2>2, <2>3
<1>8. ASSUME NEW v \in Workers, ReceiverStep(v)
      PROVE  Goal
  <2>1. CASE ReceiverTakesStep(v) \/ ReceiverTakesRelay(v)
    BY <1>3, <2>1 DEF ReceiverTakesStep, ReceiverTakesRelay
  <2>2. CASE ~(ReceiverTakesStep(v) \/ ReceiverTakesRelay(v))
    <3>1. toWorker' = toWorker
      BY <1>8, <2>2 DEF ReceiverStep, ReceiverBounces, ReceiverExits, WorkerSeesDisconnect
    <3>2. QED
      BY <1>4, <3>1
  <2>3. QED
    BY <2>1, <2>2
<1>9. ASSUME UNCHANGED vars
      PROVE  Goal
  BY <1>4, <1>9 DEF vars, streamVars
<1>10. Goal
  BY <1>1, <1>5, <1>6, <1>7, <1>8, <1>9, Cuts DEF Next, Stutter
<1>11. QED
  BY <1>10 DEF Goal

\* A handler sends the message that it has in hand, or drops it.
LEMMA HandlerGoes ==
  ASSUME TypeOK, [Next]_vars, NEW v \in Workers, hpc[v] = "relay"
  PROVE  \/ hpc'[v] = "relay" /\ hmsg'[v] = hmsg[v]
         \/ HandlerSends(v)
         \/ HandlerDrops(v)
<1>0. DOMAIN hpc = Workers /\ DOMAIN hmsg = Workers
  BY DEF TypeOK, HandlerTypeOK
<1>1. ASSUME UNCHANGED <<hpc, hmsg>>
      PROVE  hpc'[v] = "relay" /\ hmsg'[v] = hmsg[v]
  BY <1>1
<1>2. ASSUME NEW u \in Workers, HandlerStep(u)
      PROVE  (hpc'[v] = "relay" /\ hmsg'[v] = hmsg[v]) \/ HandlerSends(v) \/ HandlerDrops(v)
  <2>1. CASE u = v
    BY <1>2, <2>1 DEF HandlerStep, HandlerTakesStep, HandlerTakesRelay, HandlerJoins, HandlerNotified, HandlerExits
  <2>2. CASE u # v
    <3>1. hpc'[v] = hpc[v] /\ hmsg'[v] = hmsg[v]
      BY <1>0, <1>2, <2>2 DEF HandlerStep, HandlerTakesStep, HandlerTakesRelay, HandlerJoins, HandlerNotified,
         HandlerSends, HandlerDrops, HandlerExits, handlerVars
    <3>2. QED
      BY <3>1
  <2>3. QED
    BY <2>1, <2>2
<1>3. CASE MasterStep
  <2>1. ASSUME NEW u \in Workers, PublishJobDetails(u)
        PROVE  hpc'[v] = "relay" /\ hmsg'[v] = hmsg[v]
    <3>1. hmsg' = hmsg /\ hpc[u] = "off"
      BY <2>1 DEF PublishJobDetails
    <3>2. ~\A x \in Workers \ {u} : hpc[x] = "published"
      BY <3>1
    <3>3. hpc' = [hpc EXCEPT ![u] = "published"]
      BY <2>1, <3>2 DEF PublishJobDetails
    <3>4. QED
      BY <1>0, <3>1, <3>3
  <2>2. CASE ~\E u \in Workers : PublishJobDetails(u)
    <3>1. UNCHANGED <<hpc, hmsg>>
      BY <1>3, <2>2 DEF MasterStep, MasterStartsJob, MasterStartFails, MasterBeginsSuperstep,
         AllWorkersArrived, AllWorkersNotified, MasterCompletesJob, MasterCompleteFails, MasterAborts,
         MasterContextExpires, MasterSeesDisconnect, MasterClosesStream, MasterOnly, handlerVars
    <3>2. QED
      BY <1>1, <3>1
  <2>3. QED
    BY <2>1, <2>2
<1>4. ASSUME NEW u \in Workers, WorkerStep(u) \/ ReceiverStep(u) \/ LinkBreaks(u)
      PROVE  UNCHANGED <<hpc, hmsg>>
  <2>1. CASE WorkerStep(u)
    BY <2>1, WorkerSideKeepsBarrier DEF MasterSide, handlerVars
  <2>2. CASE ReceiverStep(u) \/ LinkBreaks(u)
    BY <2>2, ReceiverMakesNone
  <2>3. QED
    BY <1>4, <2>1, <2>2
<1>5. CASE UNCHANGED vars
  BY <1>1, <1>5 DEF vars, handlerVars
<1>6. QED
  BY <1>1, <1>2, <1>3, <1>4, <1>5 DEF Next, Stutter

\* A worker has no receiver before its job has started.
StartBooks == \A w \in Workers : wpc[w] \in {"idle", "load"} => rpc[w] = "off"

\* A receiver sends it back, or ends and stays so.
LEMMA ReceiverGoes ==
  ASSUME TypeOK, StartBooks, [Next]_vars, NEW w \in Workers
  PROVE  /\ rpc[w] = "bounce" => \/ rpc'[w] = "bounce" /\ rmsg'[w] = rmsg[w]
                                 \/ ReceiverBounces(w)
                                 \/ ReceiverExits(w)
         /\ rpc[w] = "exit" => rpc'[w] = "exit" /\ ~LeavesAny(w)
<1> DEFINE Goal == /\ rpc[w] = "bounce" => \/ rpc'[w] = "bounce" /\ rmsg'[w] = rmsg[w]
                                           \/ ReceiverBounces(w)
                                           \/ ReceiverExits(w)
                   /\ rpc[w] = "exit" => rpc'[w] = "exit"
<1>0. DOMAIN rpc = Workers /\ DOMAIN rmsg = Workers
  BY DEF TypeOK, ReceiverTypeOK
<1>1. ASSUME rpc'[w] = rpc[w], rmsg'[w] = rmsg[w]
      PROVE  Goal
  BY <1>1
<1>2. ASSUME NEW u \in Workers, ReceiverStep(u)
      PROVE  Goal
  <2>1. CASE u = w
    BY <1>0, <1>2, <2>1 DEF ReceiverStep, ReceiverTakesStep, ReceiverTakesRelay, ReceiverBounces, ReceiverExits,
       WorkerSeesDisconnect, receiverVars
  <2>2. CASE u # w
    BY <1>0, <1>2, <2>2 DEF ReceiverStep, ReceiverTakesStep, ReceiverTakesRelay, ReceiverBounces, ReceiverExits,
       WorkerSeesDisconnect, receiverVars
  <2>3. QED
    BY <2>1, <2>2
<1>3. ASSUME NEW u \in Workers, WorkerStep(u)
      PROVE  Goal
  <2>1. CASE u # w \/ ~(WorkerStartsJob(u) \/ LeavesAny(u))
    <3>1. rpc'[w] = rpc[w] /\ rmsg'[w] = rmsg[w]
      BY <1>0, <1>3, <2>1 DEF WorkerStep, WorkerTakesJob, WorkerGetsNoJob, WorkerStartsJob, WorkerStartFails,
         WorkerBeginsSuperstep, WorkerRelays, WorkerEndsStep, WorkerStepFails, WorkerEnters, LeavesAny,
         WorkerLeavesPre, WorkerLeavesPost, WorkerLeavesKeep, WorkerLeavesExecuted, WorkerLeavesPersisted, Leaves,
         WorkerCompletesJob, WorkerCompleteFails, WorkerAborts, WorkerContextExpires, WorkerClosesStream, receiverVars
    <3>2. QED
      BY <1>1, <3>1
  <2>2. CASE u = w /\ (WorkerStartsJob(u) \/ LeavesAny(u))
    <3>1. rpc[w] \in {"off", "notify"}
      BY <2>2 DEF WorkerStartsJob, StartBooks, LeavesAny, WorkerLeavesPre, WorkerLeavesPost, WorkerLeavesKeep,
         WorkerLeavesExecuted, WorkerLeavesPersisted, Leaves
    <3>2. QED
      BY <3>1
  <2>3. QED
    BY <2>1, <2>2
<1>4. ASSUME MasterStep \/ \E u \in Workers : HandlerStep(u) \/ LinkBreaks(u)
      PROVE  UNCHANGED <<rpc, rmsg>>
  <2>1. CASE MasterStep
    BY <2>1 DEF MasterStep, MasterStartsJob, MasterStartFails, PublishJobDetails, MasterBeginsSuperstep,
       AllWorkersArrived, AllWorkersNotified, MasterCompletesJob, MasterCompleteFails, MasterAborts,
       MasterContextExpires, MasterSeesDisconnect, MasterClosesStream, MasterOnly, receiverVars
  <2>2. ASSUME NEW u \in Workers, HandlerStep(u)
        PROVE  UNCHANGED <<rpc, rmsg>>
    BY <2>2, HandlerMakesReply
  <2>3. ASSUME NEW u \in Workers, LinkBreaks(u)
        PROVE  UNCHANGED <<rpc, rmsg>>
    BY <2>3 DEF LinkBreaks, receiverVars
  <2>4. QED
    BY <1>4, <2>1, <2>2, <2>3
<1> HIDE DEF Goal
<1>5. Goal
  <2>1. CASE UNCHANGED vars
    BY <1>1, <2>1 DEF vars, receiverVars
  <2>2. CASE ~UNCHANGED vars
    BY <1>1, <1>2, <1>3, <1>4, <2>2 DEF Next, Stutter
  <2>3. QED
    BY <2>1, <2>2
<1>6. rpc[w] = "exit" => ~LeavesAny(w)
  BY DEF LeavesAny, WorkerLeavesPre, WorkerLeavesPost, WorkerLeavesKeep, WorkerLeavesExecuted,
     WorkerLeavesPersisted, Leaves
<1>7. QED
  BY <1>5, <1>6 DEF Goal

\* Nothing but the start of its job starts a receiver.
LEMMA StartStep ==
  ASSUME TypeOK, StartBooks, [Next]_vars
  PROVE  StartBooks'
<1> SUFFICES ASSUME NEW w \in Workers, wpc'[w] \in {"idle", "load"} PROVE rpc'[w] = "off"
  BY DEF StartBooks
<1>0. DOMAIN rpc = Workers /\ DOMAIN wpc = Workers
  BY DEF TypeOK, ReceiverTypeOK, WorkerTypeOK
<1>1. CASE UNCHANGED <<wpc, rpc>>
  BY <1>1 DEF StartBooks
<1>2. ASSUME NEW u \in Workers, WorkerStep(u)
      PROVE  rpc'[w] = "off"
  BY <1>0, <1>2 DEF StartBooks, Goto, HeadsFor, WorkerReturns, WorkerStep, WorkerTakesJob, WorkerGetsNoJob,
     WorkerStartsJob, WorkerStartFails,
     WorkerBeginsSuperstep, WorkerRelays, WorkerEndsStep, WorkerStepFails, WorkerEnters,
     WorkerLeavesPre, WorkerLeavesPost, WorkerLeavesKeep, WorkerLeavesExecuted, WorkerLeavesPersisted, Leaves,
     WorkerCompletesJob, WorkerCompleteFails, WorkerAborts, WorkerContextExpires, WorkerClosesStream,
     receiverVars, workerVars
<1>3. ASSUME NEW u \in Workers, ReceiverStep(u)
      PROVE  rpc'[w] = "off"
  BY <1>0, <1>3 DEF StartBooks, ReceiverStep, ReceiverTakesStep, ReceiverTakesRelay, ReceiverBounces, ReceiverExits,
     WorkerSeesDisconnect, receiverVars, WorkerOnly, workerVars
<1>4. CASE MasterStep
  BY <1>1, <1>4 DEF MasterStep, MasterStartsJob, MasterStartFails, PublishJobDetails, MasterBeginsSuperstep,
     AllWorkersArrived, AllWorkersNotified, MasterCompletesJob, MasterCompleteFails, MasterAborts,
     MasterContextExpires, MasterSeesDisconnect, MasterClosesStream, MasterOnly, receiverVars, workerVars
<1>5. ASSUME NEW u \in Workers, HandlerStep(u) \/ LinkBreaks(u)
      PROVE  UNCHANGED <<wpc, rpc>>
  <2>1. CASE HandlerStep(u)
    BY <2>1, HandlerMakesReply
  <2>2. CASE LinkBreaks(u)
    BY <2>2 DEF LinkBreaks, receiverVars, workerVars
  <2>3. QED
    BY <1>5, <2>1, <2>2
<1>6. CASE UNCHANGED vars
  BY <1>1, <1>6 DEF vars, receiverVars, workerVars
<1>7. QED
  BY <1>1, <1>2, <1>3, <1>4, <1>5, <1>6 DEF Next, Stutter

-----------------------------------------------------------------------------
(***************************************************************************)
(* The worker whose vertex wrote the message is active, so that the KEEP   *)
(* barrier of its superstep lets nobody stop.                              *)
(***************************************************************************)
LEMMA SenderCounts ==
  ASSUME TypeOK, SumInv, ActiveBooks, NEW s \in Nat, Sender(s),
         mpc = "notify", mstep = s, round = 3 * s + 2
  PROVE  mphase = "KEEP" /\ gathered # 0
<1>0. /\ AgreeInv /\ LockInv /\ InStep /\ PlaceBooks /\ MasterPlace /\ MasterAgrees
      /\ mphase \in Phases /\ gathered \in Int
      /\ \A v \in Workers : /\ arrived[v] \in Nat /\ passed[v] \in Nat /\ wstep[v] \in Nat
                            /\ passed[v] = 3 * wstep[v] + Into(v) /\ Into(v) \in Int
                            /\ arrived[v] <= passed[v] + 1 /\ arrived[v] > round
  BY RoundTypes DEF SumInv, AgreeInv, InStep, LockInv, RoundBooks, Into, TypeOK, MasterTypeOK
<1>1. mphase = "KEEP"
  <2>1. Stage(mphase) = 2
    BY <1>0 DEF MasterPlace
  <2>2. QED
    BY <1>0, <2>1 DEF Stage, Phases
<1>2. PICK v \in Workers :
        \/ wstep[v] = s /\ Into(v) = 1 /\ wphase[v] = "PRE" /\ nrelay[v] > 0
        \/ wstep[v] = s /\ Into(v) \in {1, 2} /\ Computed(v) /\ active[v] = 1
        \/ wstep[v] = s + 1 /\ Into(v) = 0
  BY DEF Sender
<1>3. passed[v] >= 3 * s + 2
  BY <1>0
<1>4. CASE wstep[v] = s
  <2>1. active[v] = 1
    BY <1>0, <1>2, <1>3, <1>4
  <2>2. QED
    BY <1>1, <2>1 DEF ActiveBooks
<1>5. CASE wstep[v] = s + 1 /\ Into(v) = 0
  <2>1. passed[v] = round + 1 /\ round - 3 * mstep = 2
    BY <1>0, <1>5
  <2>2. wstep[v] = After(2, mstep, Broadcast.val)
    BY <1>0, <2>1 DEF MasterAgrees
  <2>3. Broadcast.val = gathered
    BY <1>1 DEF Broadcast, Step
  <2>4. QED
    BY <1>0, <1>1, <1>5, <2>2, <2>3 DEF After
<1>6. QED
  BY <1>0, <1>2, <1>4, <1>5

\* Only its own step lets the master go on to another barrier.
LEMMA RoundGoes ==
  ASSUME TypeOK, PlaceBooks, [Next]_vars, round' # round
  PROVE  AllWorkersNotified
<1>1. \A w \in Workers : HandlerJoins(w) \/ HandlerNotified(w) \/ WorkerEnters(w) \/ LeavesAny(w) => round' = round
  BY DEF HandlerJoins, HandlerNotified, WorkerEnters, LeavesAny, WorkerLeavesPre, WorkerLeavesPost, WorkerLeavesKeep,
     WorkerLeavesExecuted, WorkerLeavesPersisted, Leaves
<1>2. \A w \in Workers : (\E act \in {0, 1}, delta \in {0, 1} : WorkerEndsStep(w, act, delta)) => round' = round
  BY DEF WorkerEndsStep, roundVars
<1>3. Steady \/ AllWorkersArrived => round' = round
  BY DEF Steady, AllWorkersArrived, MasterOnly, roundVars
<1>4. QED
  BY <1>1, <1>2, <1>3, StepKinds

\* With a sender beside them nobody stops after this superstep.
LEMMA NobodyStopsKept ==
  ASSUME TypeOK, SumInv, ActiveBooks, [Next]_vars, MasterPlace', NEW s \in Nat, Sender(s), NobodyStops(s)
  PROVE  NobodyStops(s)'
<1>0. /\ AgreeInv /\ LockInv /\ InStep /\ PlaceBooks /\ MasterPlace /\ MasterAgrees
      /\ round \in Nat /\ mstep \in Nat
      /\ \A u \in Workers : /\ passed[u] \in Nat /\ wstep[u] \in Nat /\ Into(u) \in Int
                            /\ Into(u) = passed[u] - 3 * wstep[u] /\ Into(u)' = passed'[u] - 3 * wstep'[u]
                            /\ Into(u) \in 0 .. 5
  BY RoundTypes DEF SumInv, AgreeInv, Into, PlaceBooks
<1>1. ASSUME NEW u \in Workers, wstep'[u] = s
      PROVE  Into(u)' <= 2 /\ (Into(u)' = 2 => \A m \in Replies(u)' : m.val # 0)
  <2>1. CASE LeavesAny(u)
    <3>1. /\ Replies(u) = {rmsg[u]} /\ Replies(u)' = {}
          /\ Into(u)' = IF Into(u) = 2 /\ rmsg[u].val # 0 THEN 0 ELSE Into(u) + 1
          /\ wstep'[u] = After(Into(u), wstep[u], rmsg[u].val)
      BY <1>0, <2>1, LeavesForNext DEF TypeOK, WorkerTypeOK
    <3>2. CASE wstep[u] = s
      <4>1. Into(u) <= 2 /\ (Into(u) = 2 => rmsg[u].val # 0)
        BY <3>1, <3>2 DEF NobodyStops
      <4>2. QED
        BY <1>0, <3>1, <4>1
    <3>3. CASE wstep[u] # s
      <4>1. Into(u) = 2 /\ rmsg[u].val # 0
        BY <1>1, <3>1, <3>3 DEF After
      <4>2. QED
        BY <3>1, <4>1
    <3>4. QED
      BY <3>2, <3>3
  <2>2. CASE ~LeavesAny(u)
    <3>1. /\ passed'[u] = passed[u] /\ wstep'[u] = wstep[u]
          /\ \A m \in Replies(u)' : m \in Replies(u) \/ HandlerNotified(u)
      BY <2>2, RoundMoves
    <3>2. Into(u)' = Into(u) /\ wstep[u] = s /\ Into(u) <= 2
      BY <1>0, <1>1, <3>1 DEF NobodyStops
    <3>3. ASSUME Into(u) = 2, HandlerNotified(u)
          PROVE  \A m \in Replies(u)' : m.val # 0
      <4>1. mpc = "notify" /\ u \in inround
        BY <1>0, <3>3 DEF HandlerNotified, LockInv, BarrierBooks
      <4>2. passed[u] = round
        BY <1>0, <4>1 DEF LockInv, RoundBooks
      <4>3. mstep = s
        BY <1>0, <3>2, <4>1, <4>2 DEF MasterAgrees
      <4>4. round = 3 * s + 2
        BY <1>0, <3>2, <3>3, <4>2
      <4>5. mphase = "KEEP" /\ gathered # 0
        BY <4>1, <4>3, <4>4, SenderCounts
      <4>6. Broadcast.val # 0
        BY <4>5 DEF Broadcast, Step
      <4>7. HandlerStep(u)
        BY <3>3 DEF HandlerStep
      <4>8. \A m \in Replies(u)' : m \in Replies(u) \/ m = Broadcast
        BY <4>7, HandlerMakesReply
      <4>9. \A m \in Replies(u) : m.val # 0
        BY <3>2, <3>3 DEF NobodyStops
      <4>10. QED
        BY <4>6, <4>8, <4>9
    <3>4. Into(u) = 2 => \A m \in Replies(u) : m.val # 0
      BY <3>2 DEF NobodyStops
    <3>5. QED
      BY <3>1, <3>2, <3>3, <3>4
  <2>3. QED
    BY <2>1, <2>2
<1>2. ASSUME mpc' # "done", mstep' = s
      PROVE  round' <= 3 * s + 2
  <2>1. CASE mpc' = "check"
    <3>1. round' - 3 * mstep' = 0
      BY <1>2, <2>1 DEF MasterPlace
    <3>2. round' \in Nat
      BY <1>0, <1>2, RoundMoves
    <3>3. ASSUME NEW r \in Nat, r - 3 * s = 0
          PROVE  r <= 3 * s + 2
      BY <3>3
    <3>4. QED
      BY <1>2, <3>1, <3>2, <3>3
  <2>2. CASE mpc' # "check"
    <3>1. mpc # "done" /\ mstep = s
      BY <1>2, <2>2, MasterMoves
    <3>2. round <= 3 * s + 2
      BY <3>1 DEF NobodyStops
    <3>3. CASE round' = round
      BY <3>2, <3>3
    <3>4. CASE round' # round
      <4>1. AllWorkersNotified
        BY <1>0, <3>4, RoundGoes
      <4>2. round # 3 * s + 2
        <5> SUFFICES ASSUME round = 3 * s + 2 PROVE FALSE
          OBVIOUS
        <5>1. mpc = "notify"
          BY <4>1 DEF AllWorkersNotified
        <5>2. mphase = "KEEP" /\ gathered # 0
          BY <3>1, <5>1, SenderCounts
        <5>3. mpc' = "check"
          BY <4>1, <5>2 DEF AllWorkersNotified
        <5>4. QED
          BY <2>2, <5>3
      <4>3. round' = round + 1
        BY <4>1 DEF AllWorkersNotified
      <4>4. QED
        BY <1>0, <3>2, <4>2, <4>3
    <3>5. QED
      BY <3>3, <3>4
  <2>3. QED
    BY <2>1, <2>2
<1>3. QED
  BY <1>1, <1>2 DEF NobodyStops

\* The messages that a vertex wrote stay counted until its worker is through.
LEMMA RelaysCounted ==
  ASSUME TypeOK, [Next]_vars, NEW v \in Workers, ~Ends(v)
  PROVE  nrelay[v] > 0 => nrelay'[v] > 0
<1>0. nrelay \in [Workers -> Nat]
  BY DEF TypeOK, WorkerTypeOK
<1>1. ASSUME UNCHANGED nrelay
      PROVE  nrelay[v] > 0 => nrelay'[v] > 0
  BY <1>1
<1>2. ASSUME NEW u \in Workers, WorkerStep(u)
      PROVE  nrelay[v] > 0 => nrelay'[v] > 0
  <2>1. ASSUME NEW act \in {0, 1}, NEW delta \in {0, 1}, WorkerEndsStep(u, act, delta)
        PROVE  nrelay'[v] = nrelay[v]
    <3>1. u # v
      BY <2>1 DEF Ends
    <3>2. QED
      BY <1>0, <2>1, <3>1 DEF WorkerEndsStep
  <2>2. ASSUME NEW d \in Workers, NEW known \in BOOLEAN, WorkerRelays(u, d, known)
        PROVE  nrelay[v] > 0 => nrelay'[v] > 0
    BY <1>0, <2>2 DEF WorkerRelays
  <2>3. CASE ~\/ \E act \in {0, 1}, delta \in {0, 1} : WorkerEndsStep(u, act, delta)
              \/ \E d \in Workers, known \in BOOLEAN : WorkerRelays(u, d, known)
    <3>1. UNCHANGED nrelay
      BY <1>2, <2>3 DEF WorkerStep, WorkerTakesJob, WorkerGetsNoJob, WorkerStartsJob, WorkerStartFails,
         WorkerBeginsSuperstep, WorkerStepFails, WorkerEnters, WorkerLeavesPre, WorkerLeavesPost, WorkerLeavesKeep,
         WorkerLeavesExecuted, WorkerLeavesPersisted, WorkerCompletesJob, WorkerCompleteFails,
         WorkerAborts, WorkerContextExpires, WorkerClosesStream, computeVars, workerVars
    <3>2. QED
      BY <1>1, <3>1
  <2>4. QED
    BY <1>1, <2>1, <2>2, <2>3
<1>3. ASSUME NEW u \in Workers, ReceiverStep(u) \/ LinkBreaks(u)
      PROVE  UNCHANGED nrelay
  BY <1>3 DEF ReceiverStep, ReceiverTakesStep, ReceiverTakesRelay, ReceiverBounces, ReceiverExits,
     WorkerSeesDisconnect, WorkerOnly, LinkBreaks, workerVars, computeVars
<1>4. ASSUME NEW u \in Workers, HandlerStep(u)
      PROVE  UNCHANGED nrelay
  BY <1>4 DEF HandlerStep, HandlerTakesStep, HandlerTakesRelay, HandlerJoins, HandlerNotified, HandlerSends,
     HandlerDrops, HandlerExits, HandlerOnly, workerVars, computeVars
<1>5. CASE MasterStep
  BY <1>1, <1>5 DEF MasterStep, MasterStartsJob, MasterStartFails, PublishJobDetails, MasterBeginsSuperstep,
     AllWorkersArrived, AllWorkersNotified, MasterCompletesJob, MasterCompleteFails, MasterAborts,
     MasterContextExpires, MasterSeesDisconnect, MasterClosesStream, MasterOnly, workerVars, computeVars
<1>6. CASE UNCHANGED vars
  BY <1>1, <1>6 DEF vars, workerVars, computeVars
<1>7. QED
  BY <1>1, <1>2, <1>3, <1>4, <1>5, <1>6 DEF Next, Stutter

\* The sender stays where it counts.
LEMMA SenderStep ==
  ASSUME TypeOK, SumInv, [Next]_vars, NEW s \in Nat, Sender(s),
         Shut(3 * s + 2) \/ (Aborting(s) /\ NobodyStops(s))
  PROVE  Sender(s)'
<1>0. /\ AgreeInv /\ LockInv /\ PlaceBooks
      /\ \A u \in Workers : /\ passed[u] \in Nat /\ wstep[u] \in Nat /\ Into(u) \in Int
                            /\ Into(u) = passed[u] - 3 * wstep[u] /\ Into(u)' = passed'[u] - 3 * wstep'[u]
                            /\ active[u] \in {0, 1}
  BY RoundTypes DEF SumInv, AgreeInv, Into, TypeOK, WorkerTypeOK
<1>1. PICK v \in Workers :
        \/ wstep[v] = s /\ Into(v) = 1 /\ wphase[v] = "PRE" /\ nrelay[v] > 0
        \/ wstep[v] = s /\ Into(v) \in {1, 2} /\ Computed(v) /\ active[v] = 1
        \/ wstep[v] = s + 1 /\ Into(v) = 0
  BY DEF Sender
<1>2. CASE LeavesAny(v)
  <2>1. /\ Replies(v) = {rmsg[v]} /\ Into(v) = Stage(wphase[v])
        /\ Into(v)' = IF Into(v) = 2 /\ rmsg[v].val # 0 THEN 0 ELSE Into(v) + 1
        /\ wstep'[v] = After(Into(v), wstep[v], rmsg[v].val)
        /\ active'[v] = active[v]
    BY <1>0, <1>2, LeavesForNext DEF TypeOK, WorkerTypeOK
  <2>2. CASE wstep[v] = s /\ Into(v) = 1
    <3>1. wphase[v] # "PRE"
      BY <2>1, <2>2 DEF Stage
    <3>2. active[v] = 1
      BY <1>0, <1>1, <2>2, <3>1
    <3>3. wstep'[v] = s /\ Into(v)' = 2 /\ active'[v] = 1
      BY <2>1, <2>2, <3>2 DEF After
    <3>4. Computed(v)'
      BY <3>3 DEF Computed
    <3>5. QED
      BY <3>3, <3>4 DEF Sender
  <2>3. CASE wstep[v] = s /\ Into(v) = 2
    <3>1. rmsg[v].val # 0
      <4>1. CASE Shut(3 * s + 2)
        <5>1. passed[v] = 3 * s + 2
          BY <1>0, <2>3
        <5>2. Replies(v) = {}
          BY <4>1, <5>1 DEF Shut, NotTold
        <5>3. QED
          BY <2>1, <5>2
      <4>2. CASE NobodyStops(s)
        BY <2>1, <2>3, <4>2 DEF NobodyStops
      <4>3. QED
        BY <4>1, <4>2
    <3>2. wstep'[v] = s + 1 /\ Into(v)' = 0
      BY <2>1, <2>3, <3>1 DEF After
    <3>3. QED
      BY <3>2 DEF Sender
  <2>4. CASE wstep[v] = s + 1 /\ Into(v) = 0
    <3>1. passed[v] = 3 * s + 3
      BY <1>0, <2>4
    <3>2. CASE Shut(3 * s + 2)
      BY <3>1, <3>2 DEF Shut, NotTold
    <3>3. CASE Aborting(s)
      <4>1. NotTold(v, 3 * s + 3)
        BY <2>4, <3>3 DEF Aborting
      <4>2. QED
        BY <2>1, <3>1, <4>1 DEF NotTold
    <3>4. QED
      BY <3>2, <3>3
  <2>5. QED
    BY <1>1, <2>2, <2>3, <2>4
<1>3. CASE ~LeavesAny(v)
  <2>1. wstep'[v] = wstep[v] /\ Into(v)' = Into(v)
    BY <1>0, <1>3, RoundMoves
  <2>2. CASE Ends(v)
    <3>1. PICK act \in {0, 1}, delta \in {0, 1} : WorkerEndsStep(v, act, delta)
      BY <2>2 DEF Ends
    <3>2. ~Computed(v) /\ Computed(v)'
      BY <2>1, <2>2, ComputedMoves
    <3>3. wpc[v] = "compute" /\ active'[v] = act /\ (nrelay[v] > 0 => act = 1)
      BY <1>0, <3>1 DEF WorkerEndsStep, TypeOK, WorkerTypeOK
    <3>4. Into(v) = 1
      BY <1>0, <3>3 DEF PlaceBooks
    <3>5. wstep[v] = s /\ nrelay[v] > 0
      BY <1>1, <3>2, <3>4
    <3>6. QED
      BY <2>1, <3>2, <3>3, <3>4, <3>5 DEF Sender
  <2>3. CASE ~Ends(v)
    <3>1. active'[v] = active[v] /\ (Into(v) = 1 => wphase'[v] = wphase[v])
      BY <1>3, <2>3, PhaseMoves
    <3>2. nrelay[v] > 0 => nrelay'[v] > 0
      BY <2>3, RelaysCounted
    <3>3. Computed(v) => Computed(v)'
      BY <2>1, ComputedMoves
    <3>4. QED
      BY <1>1, <2>1, <3>1, <3>2, <3>3 DEF Sender
  <2>4. QED
    BY <2>2, <2>3
<1>4. QED
  BY <1>2, <1>3

-----------------------------------------------------------------------------
(***************************************************************************)
(* While the message is somewhere, or lost, the KEEP barrier is shut.      *)
(***************************************************************************)
LEMMA StrayShut ==
  ASSUME TypeOK, RelayInv, StraysUp, NEW s \in Nat, StrayFound(s) \/ StrayLost(s)
  PROVE  Shut(3 * s + 2)
<1>0. SumInv /\ \A v \in Workers : passed[v] \in Nat
  BY RoundTypes DEF RelayInv
<1>1. ASSUME NEW v \in Workers, passed[v] <= 3 * s + 1 \/ Held(v, 3 * s + 2)
      PROVE  Shut(3 * s + 2)
  BY <1>0, <1>1, Behind DEF Held
<1>2. ASSUME NEW w \in Workers, Ready(w, s)
      PROVE  passed[w] <= 3 * s + 1
  BY <1>0, <1>2 DEF Ready
<1>3. ASSUME NEW v \in Workers, NEW i \in 1 .. Len(toMaster[v]), Stray(toMaster[v][i], s)
      PROVE  passed[v] <= 3 * s + 1 \/ Held(v, 3 * s + 2)
  BY <1>3 DEF StraysUp, Stray
<1>4. ASSUME NEW v \in Workers, hpc[v] = "relay", Stray(hmsg[v], s)
      PROVE  Shut(3 * s + 2)
  <2>1. hmsg[v].dst \in Workers
    BY <1>4, RelayTypes DEF TypeOK, HandlerTypeOK
  <2>2. Ready(hmsg[v].dst, s)
    BY <1>4 DEF RelayInv, AtHandler, Stray
  <2>3. QED
    BY <1>1, <1>2, <2>1, <2>2
<1>5. ASSUME NEW w \in Workers, NEW i \in 1 .. Len(toWorker[w]), Stray(toWorker[w][i], s)
      PROVE  Ready(w, s)
  BY <1>5 DEF RelayInv, DownStream, Stray
<1>6. ASSUME NEW w \in Workers, rpc[w] = "bounce", Stray(rmsg[w], s)
      PROVE  passed[w] <= 3 * s + 1
  BY <1>6 DEF RelayInv, Bouncing, Stray
<1>7. CASE StrayFound(s)
  BY <1>1, <1>2, <1>3, <1>4, <1>5, <1>6, <1>7 DEF StrayFound
<1>8. CASE StrayLost(s)
  BY <1>1, <1>8 DEF StrayLost
<1>9. QED
  BY <1>7, <1>8

-----------------------------------------------------------------------------
(***************************************************************************)
(* What becomes of it in a step.                                           *)
(***************************************************************************)

\* What is lost stays lost.
LEMMA LostStep ==
  ASSUME TypeOK, SumInv, StartBooks, [Next]_vars, NEW s \in Nat, StrayLost(s)
  PROVE  StrayLost(s)'
<1>0. \A v \in Workers : passed[v] \in Nat
  BY RoundTypes
<1>1. ASSUME NEW v \in Workers, link[v] = "down", passed[v] <= 3 * s + 1
      PROVE  StrayLost(s)'
  <2>1. link'[v] = "down"
    BY <1>1, BrokenStreams
  <2>2. CASE passed'[v] <= 3 * s + 1
    BY <2>1, <2>2 DEF StrayLost
  <2>3. CASE ~(passed'[v] <= 3 * s + 1)
    <3>1. passed[v] = 3 * s + 1 /\ LeavesAny(v)
      BY <1>0, <1>1, <2>3, RoundMoves
    <3>2. Held(v, 3 * s + 2)' /\ toMaster' = toMaster /\ NoStep(toMaster[v])
      BY <3>1, LeftHeld
    <3>3. NoStep(toMaster[v])'
      BY <3>2
    <3>4. QED
      BY <2>1, <3>2, <3>3 DEF StrayLost
  <2>4. QED
    BY <2>2, <2>3
<1>2. ASSUME NEW v \in Workers, link[v] = "down", Held(v, 3 * s + 2), NoStep(toMaster[v])
      PROVE  StrayLost(s)'
  <2>1. link'[v] = "down" /\ NoStep(toMaster'[v])
    BY <1>2, BrokenStreams DEF Quiet
  <2>2. ~HandlerTakesStep(v)
    BY <1>2, HandlerMoves, HeadIsFirst DEF NoStep
  <2>3. Held(v, 3 * s + 2)'
    BY <1>2, <2>2, HeldKept
  <2>4. NoStep(toMaster[v])'
    BY <2>1
  <2>5. QED
    BY <2>1, <2>3, <2>4 DEF StrayLost
<1>3. ASSUME NEW v \in Workers, rpc[v] = "exit", passed[v] <= 3 * s + 1
      PROVE  StrayLost(s)'
  <2>1. rpc'[v] = "exit" /\ ~LeavesAny(v)
    BY <1>3, ReceiverGoes
  <2>2. passed'[v] = passed[v]
    BY <2>1, RoundMoves
  <2>3. QED
    BY <1>3, <2>1, <2>2 DEF StrayLost
<1>4. QED
  BY <1>1, <1>2, <1>3 DEF StrayLost

\* Once the master aborts, or when it is about to, nobody gets past the barrier.
LEMMA AbortInTime ==
  ASSUME TypeOK, SumInv, ActiveBooks, [Next]_vars, MasterPlace', NEW s \in Nat,
         Sender(s), Shut(3 * s + 2),
         mctx' = "done" /\ UNCHANGED <<mpc, mstep, passed>>
  PROVE  (Aborting(s) /\ NobodyStops(s))'
<1>1. /\ NobodyStops(s) /\ (mpc # "done" => mstep <= s)
      /\ \A u \in Workers : passed[u] <= 3 * s + 2
  BY ShutAborts
<1>2. NobodyStops(s)'
  BY <1>1, NobodyStopsKept
<1>3. \A u \in Workers : NotTold(u, 3 * s + 3)'
  <2> SUFFICES ASSUME NEW u \in Workers PROVE NotTold(u, 3 * s + 3)'
    OBVIOUS
  <2>1. passed'[u] = passed[u] /\ passed[u] \in Nat
    BY RoundTypes
  <2>2. passed'[u] < 3 * s + 3
    BY <1>1, <2>1
  <2>3. QED
    BY <2>1, <2>2 DEF NotTold
<1>4. QED
  BY <1>1, <1>2, <1>3 DEF Aborting

\* A message that is somewhere stays so, is lost, or makes the master abort in
\* time.
LEMMA FoundStep ==
  ASSUME TypeOK, RelayInv, ActiveBooks, StraysUp, StartBooks, [Next]_vars, MasterPlace',
         NEW s \in Nat, Sender(s), StrayFound(s)
  PROVE  StrayFound(s)' \/ StrayLost(s)' \/ (Aborting(s) /\ NobodyStops(s))'
<1> DEFINE Goal == StrayFound(s)' \/ StrayLost(s)' \/ (Aborting(s) /\ NobodyStops(s))'
<1>0. /\ SumInv /\ Shut(3 * s + 2)
      /\ \A v \in Workers : toMaster[v] \in Seq(WorkerPayload) /\ toWorker[v] \in Seq(MasterPayload)
      /\ link \in [Workers -> {"up", "down"}] /\ rpc \in [Workers -> {"off", "recv", "notify", "bounce", "exit"}]
      /\ DOMAIN toMaster = Workers /\ DOMAIN toWorker = Workers /\ DOMAIN hpc = Workers /\ DOMAIN hmsg = Workers
      /\ DOMAIN rmsg = Workers
      /\ \A v \in Workers : passed[v] \in Nat
  BY StrayShut, RoundTypes DEF RelayInv, TypeOK, StreamTypeOK, ReceiverTypeOK, HandlerTypeOK
<1>1. ASSUME NEW v \in Workers, NEW m, Stray(m, s), In(m, toMaster'[v]) \/ In(m, toWorker'[v])
      PROVE  Goal
  <2>1. CASE In(m, toMaster'[v])
    <3>1. PICK i \in 1 .. Len(toMaster'[v]) : toMaster'[v][i] = m
      BY <2>1 DEF In
    <3>2. StrayFound(s)'
      BY <1>1, <3>1 DEF StrayFound, Stray
    <3>3. QED
      BY <3>2
  <2>2. CASE In(m, toWorker'[v])
    <3>1. PICK i \in 1 .. Len(toWorker'[v]) : toWorker'[v][i] = m
      BY <2>2 DEF In
    <3>2. StrayFound(s)'
      BY <1>1, <3>1 DEF StrayFound, Stray
    <3>3. QED
      BY <3>2
  <2>3. QED
    BY <1>1, <2>1, <2>2
<1>2. ASSUME NEW v \in Workers, \/ hpc'[v] = "relay" /\ Stray(hmsg'[v], s)
                                \/ rpc'[v] = "bounce" /\ Stray(rmsg'[v], s)
      PROVE  Goal
  BY <1>2 DEF StrayFound, Stray
<1>3. ASSUME NEW v \in Workers, link'[v] = "down" \/ rpc'[v] = "exit", passed'[v] <= 3 * s + 1
      PROVE  Goal
  BY <1>3 DEF StrayLost
<1>4. ASSUME NEW v \in Workers, NEW i \in 1 .. Len(toMaster[v]), NEW m, m = toMaster[v][i], Stray(m, s)
      PROVE  Goal
  <2>0. In(m, toMaster[v]) /\ m.type = "relay" /\ ~m.known /\ m.sent = s
    BY <1>4 DEF In, Stray
  <2>1. CASE In(m, toMaster'[v])
    BY <1>1, <1>4, <2>1
  <2>2. CASE HandlerTakesRelay(v) /\ Head(toMaster[v]) = m
    <3>1. CASE m.dst = v
      <4>1. mctx' = "done" /\ UNCHANGED <<mpc, mstep, passed>>
        BY <2>2, <3>1 DEF HandlerTakesRelay, HandlerOnly, roundVars
      <4>2. QED
        BY <1>0, <4>1, AbortInTime
    <3>2. CASE m.dst # v
      <4>1. hpc'[v] = "relay" /\ hmsg'[v] = m
        BY <1>0, <2>2, <3>2 DEF HandlerTakesRelay
      <4>2. QED
        BY <1>2, <1>4, <4>1
    <3>3. QED
      BY <3>1, <3>2
  <2>3. CASE CutOnly(v) /\ ~In(m, toMaster'[v])
    <3>1. PICK n \in 0 .. Len(toMaster[v]), j \in 0 .. Len(toWorker[v]) : Cut(v, n, j)
      BY <2>3 DEF CutOnly
    <3>2. link'[v] = "down" /\ toMaster'[v] = SubSeq(toMaster[v], 1, n) /\ passed' = passed /\ hpc' = hpc
      BY <1>0, <2>3, <3>1 DEF Cut, CutOnly
    <3>3. Ahead(toMaster[v], i) => NoStep(toMaster'[v])
      BY <1>0, <1>4, <2>3, <3>2, QueueCut
    <3>4. CASE passed[v] <= 3 * s + 1
      BY <1>3, <3>2, <3>4
    <3>5. CASE Held(v, 3 * s + 2) /\ Ahead(toMaster[v], i)
      <4>1. ~HandlerTakesStep(v)
        BY <1>0, <3>2 DEF HandlerTakesStep
      <4>2. Held(v, 3 * s + 2)' /\ NoStep(toMaster[v])'
        BY <1>0, <3>3, <3>5, <4>1, HeldKept
      <4>3. StrayLost(s)'
        BY <3>2, <4>2 DEF StrayLost
      <4>4. QED
        BY <4>3
    <3>6. QED
      BY <1>4, <2>0, <3>4, <3>5 DEF StraysUp
  <2>4. QED
    BY <2>0, <2>1, <2>2, <2>3, UpGoes
<1>5. ASSUME NEW v \in Workers, hpc[v] = "relay", NEW m, m = hmsg[v], Stray(m, s)
      PROVE  Goal
  <2>0. m \in RelayMsg /\ m \in WorkerPayload /\ m \in MasterPayload /\ m.dst \in Workers /\ Ready(m.dst, s)
    <3>1. m \in RelayMsg
      BY <1>5 DEF TypeOK, HandlerTypeOK
    <3>2. Ready(m.dst, s)
      BY <1>5 DEF RelayInv, AtHandler, Stray
    <3>3. QED
      BY <3>1, <3>2, RelayTypes DEF WorkerPayload, MasterPayload
  <2>1. CASE hpc'[v] = "relay" /\ hmsg'[v] = hmsg[v]
    BY <1>2, <1>5, <2>1
  <2>2. CASE HandlerSends(v)
    <3>1. SendToWorker(m.dst, m) /\ UNCHANGED <<link, passed>>
      BY <1>5, <2>2 DEF HandlerSends, HandlerOnly, roundVars
    <3>2. CASE link[m.dst] = "up"
      <4>1. toWorker'[m.dst] = Append(toWorker[m.dst], m)
        BY <1>0, <2>0, <3>1, <3>2 DEF SendToWorker
      <4>2. toWorker'[m.dst][Len(toWorker[m.dst]) + 1] = m
            /\ Len(toWorker[m.dst]) + 1 \in 1 .. Len(toWorker'[m.dst])
        BY <1>0, <2>0, <4>1, AppendProperties, LenProperties
      <4>3. In(m, toWorker'[m.dst])
        BY <4>2 DEF In
      <4>4. QED
        BY <1>1, <1>5, <2>0, <4>3
    <3>3. CASE link[m.dst] = "down"
      <4>1. passed[m.dst] <= 3 * s + 1
        BY <1>0, <2>0 DEF Ready
      <4>2. QED
        BY <1>3, <2>0, <3>1, <3>3, <4>1
    <3>4. QED
      BY <1>0, <2>0, <3>2, <3>3
  <2>3. CASE HandlerDrops(v)
    <3>1. mctx' = "done" /\ UNCHANGED <<mpc, mstep, passed>>
      BY <2>3 DEF HandlerDrops, HandlerOnly, roundVars
    <3>2. QED
      BY <1>0, <3>1, AbortInTime
  <2>4. QED
    BY <1>5, <2>1, <2>2, <2>3, HandlerGoes
<1>6. ASSUME NEW w \in Workers, NEW i \in 1 .. Len(toWorker[w]), NEW m, m = toWorker[w][i], Stray(m, s)
      PROVE  Goal
  <2>0. In(m, toWorker[w]) /\ m.type = "relay" /\ ~m.known /\ Ready(w, s)
    BY <1>6 DEF In, Stray, RelayInv, DownStream
  <2>1. CASE In(m, toWorker'[w])
    BY <1>1, <1>6, <2>1
  <2>2. CASE ReceiverTakesRelay(w) /\ Head(toWorker[w]) = m
    <3>1. rpc'[w] = "bounce" /\ rmsg'[w] = m
      BY <1>0, <2>0, <2>2 DEF ReceiverTakesRelay
    <3>2. QED
      BY <1>2, <1>6, <3>1
  <2>3. CASE CutOnly(w)
    <3>1. link'[w] = "down" /\ passed' = passed
      BY <1>0, <2>3 DEF Cut, CutOnly
    <3>2. passed[w] <= 3 * s + 1
      BY <1>0, <2>0 DEF Ready
    <3>3. QED
      BY <1>3, <3>1, <3>2
  <2>4. QED
    BY <2>0, <2>1, <2>2, <2>3, DownGoes
<1>7. ASSUME NEW w \in Workers, rpc[w] = "bounce", NEW m, m = rmsg[w], Stray(m, s)
      PROVE  Goal
  <2>0. m \in WorkerPayload /\ passed[w] <= 3 * s + 1
    BY <1>7 DEF TypeOK, ReceiverTypeOK, WorkerPayload, RelayInv, Bouncing, Stray
  <2>1. CASE rpc'[w] = "bounce" /\ rmsg'[w] = rmsg[w]
    BY <1>2, <1>7, <2>1
  <2>2. CASE ReceiverBounces(w)
    <3>1. SendToMaster(w, m) /\ UNCHANGED <<link, passed>>
      BY <1>7, <2>2 DEF ReceiverBounces, WorkerOnly, roundVars
    <3>2. CASE link[w] = "up"
      <4>1. toMaster'[w] = Append(toMaster[w], m)
        BY <1>0, <3>1, <3>2 DEF SendToMaster
      <4>2. toMaster'[w][Len(toMaster[w]) + 1] = m /\ Len(toMaster[w]) + 1 \in 1 .. Len(toMaster'[w])
        BY <1>0, <2>0, <4>1, AppendProperties, LenProperties
      <4>3. In(m, toMaster'[w])
        BY <4>2 DEF In
      <4>4. QED
        BY <1>1, <1>7, <4>3
    <3>3. CASE link[w] = "down"
      BY <1>3, <2>0, <3>1, <3>3
    <3>4. QED
      BY <1>0, <3>2, <3>3
  <2>3. CASE ReceiverExits(w)
    <3>1. rpc'[w] = "exit" /\ passed' = passed
      BY <1>0, <2>3 DEF ReceiverExits, WorkerOnly, roundVars
    <3>2. QED
      BY <1>3, <2>0, <3>1
  <2>4. QED
    BY <1>7, <2>1, <2>2, <2>3, ReceiverGoes
<1> HIDE DEF Goal
<1>8. Goal
  BY <1>4, <1>5, <1>6, <1>7 DEF StrayFound
<1>9. QED
  BY <1>8 DEF Goal

-----------------------------------------------------------------------------
(***************************************************************************)
(* The inductive invariant.                                                *)
(***************************************************************************)
LEMMA StrayStarts == Init => StraysUp /\ StrayBooks
<1> SUFFICES ASSUME Init PROVE StraysUp /\ StrayBooks
  OBVIOUS
<1>1. StraysUp
  BY DEF Init, StraysUp
<1>2. StrayBooks
  BY DEF Init, StrayBooks
<1>3. QED
  BY <1>1, <1>2

\* Whoever is past the KEEP barrier of the last superstep has no sender beside it.
LEMMA NoSenderLate ==
  ASSUME TypeOK, SumInv, NEW u \in Workers, Into(u) >= 4
  PROVE  /\ \A s \in Nat : ~Sender(s)
         /\ \A v \in Workers : Into(v) > 2
<1>0. InStep /\ PlaceBooks
  BY DEF SumInv, AgreeInv
<1>1. ASSUME NEW v \in Workers
      PROVE  Into(v) > 2
  <2>1. wstep[v] = wstep[u]
    BY <1>0, Settled DEF PlaceBooks
  <2>2. passed[u] <= passed[v] + 1
    <3>1. passed[u] <= arrived[v] /\ arrived[v] <= passed[v] + 1
      BY <1>0 DEF InStep
    <3>2. QED
      BY <3>1, RoundTypes
  <2>3. QED
    BY <2>1, <2>2, RoundTypes DEF Into
<1>2. ASSUME NEW s \in Nat, Sender(s)
      PROVE  FALSE
  <2>1. PICK v \in Workers : Into(v) \in {0, 1, 2}
    BY <1>2 DEF Sender
  <2>2. QED
    BY <1>1, <2>1
<1>3. QED
  BY <1>1, <1>2

\* Who stores its scores, and who writes to an address that no graph holds.
LEMMA StrayMoves ==
  ASSUME TypeOK, [Next]_vars
  PROVE  /\ persisted' = persisted \/ \E w \in Workers : WorkerCompletesJob(w) /\ persisted' = persisted \cup {w}
         /\ strayed' = strayed \/ \E v, d \in Workers : WorkerRelays(v, d, FALSE) /\ persisted' = persisted
<1> DEFINE Goal == /\ \/ persisted' = persisted
                      \/ \E w \in Workers : WorkerCompletesJob(w) /\ persisted' = persisted \cup {w}
                   /\ strayed' = strayed \/ \E v, d \in Workers : WorkerRelays(v, d, FALSE) /\ persisted' = persisted
<1>1. ASSUME persisted' = persisted, strayed' = strayed
      PROVE  Goal
  BY <1>1
<1>2. ASSUME NEW w \in Workers, WorkerCompletesJob(w)
      PROVE  Goal
  BY <1>2 DEF WorkerCompletesJob, dataHistory
<1>3. ASSUME NEW v \in Workers, NEW d \in Workers, NEW known \in BOOLEAN, WorkerRelays(v, d, known)
      PROVE  Goal
  <2>1. persisted' = persisted
    BY <1>3 DEF WorkerRelays
  <2>2. CASE known
    BY <1>3, <2>1, <2>2 DEF WorkerRelays
  <2>3. CASE known = FALSE
    BY <1>3, <2>1, <2>3
  <2>4. QED
    BY <2>2, <2>3
<1> HIDE DEF Goal
<1>4. ASSUME NEW w \in Workers, WorkerStep(w)
      PROVE  Goal
  <2>1. CASE ~(WorkerCompletesJob(w) \/ \E d \in Workers, known \in BOOLEAN : WorkerRelays(w, d, known))
    <3>1. persisted' = persisted /\ strayed' = strayed
      BY <1>4, <2>1 DEF WorkerStep, WorkerTakesJob, WorkerGetsNoJob, WorkerStartsJob, WorkerStartFails,
         WorkerBeginsSuperstep, WorkerEndsStep, WorkerStepFails, WorkerEnters, WorkerLeavesPre, WorkerLeavesPost,
         WorkerLeavesKeep, WorkerLeavesExecuted, WorkerLeavesPersisted, Leaves, WorkerCompleteFails, WorkerAborts,
         WorkerContextExpires, WorkerClosesStream, workerVars, dataHistory
    <3>2. QED
      BY <1>1, <3>1
  <2>2. QED
    BY <1>2, <1>3, <2>1
<1>5. ASSUME NEW w \in Workers, ReceiverStep(w) \/ LinkBreaks(w)
      PROVE  Goal
  <2>1. persisted' = persisted /\ strayed' = strayed
    BY <1>5 DEF ReceiverStep, ReceiverTakesStep, ReceiverTakesRelay, ReceiverBounces, ReceiverExits,
       WorkerSeesDisconnect, WorkerOnly, LinkBreaks, workerVars, dataHistory
  <2>2. QED
    BY <1>1, <2>1
<1>6. ASSUME NEW w \in Workers, HandlerStep(w)
      PROVE  Goal
  <2>1. persisted' = persisted /\ strayed' = strayed
    BY <1>6 DEF HandlerStep, HandlerTakesStep, HandlerTakesRelay, HandlerJoins, HandlerNotified, HandlerSends,
       HandlerDrops, HandlerExits, HandlerOnly, workerVars, dataHistory
  <2>2. QED
    BY <1>1, <2>1
<1>7. ASSUME MasterStep
      PROVE  Goal
  <2>1. persisted' = persisted /\ strayed' = strayed
    BY <1>7 DEF MasterStep, MasterStartsJob, MasterStartFails, PublishJobDetails, MasterBeginsSuperstep,
       AllWorkersArrived, AllWorkersNotified, MasterCompletesJob, MasterCompleteFails, MasterAborts,
       MasterContextExpires, MasterSeesDisconnect, MasterClosesStream, MasterOnly, workerVars, dataHistory
  <2>2. QED
    BY <1>1, <2>1
<1>8. ASSUME UNCHANGED vars
      PROVE  Goal
  BY <1>1, <1>8 DEF vars, workerVars, dataHistory
<1>9. Goal
  BY <1>4, <1>5, <1>6, <1>7, <1>8 DEF Next, Stutter
<1>10. QED
  BY <1>9 DEF Goal

\* A new message to an address that no graph holds is found, or lost at once.
LEMMA StrayWritten ==
  ASSUME TypeOK, SumInv, NEW v \in Workers, NEW d \in Workers, WorkerRelays(v, d, FALSE),
         NEW s, s = wstep[v]
  PROVE  /\ s \in Supersteps /\ Into(v) = 1
         /\ Sender(s)'
         /\ StrayFound(s)' \/ StrayLost(s)'
<1> DEFINE m == [type |-> "relay", dst |-> d, known |-> FALSE, sent |-> s]
<1>0. /\ s \in Nat /\ MaxStep \in Nat /\ nrelay \in [Workers -> Nat]
      /\ link \in [Workers -> {"up", "down"}] /\ toMaster[v] \in Seq(WorkerPayload) /\ DOMAIN toMaster = Workers
  BY BoundsAssumption DEF TypeOK, WorkerTypeOK, StreamTypeOK
<1>1. /\ wpc[v] = "compute" /\ s < MaxStep /\ SendToMaster(v, m)
      /\ nrelay' = [nrelay EXCEPT ![v] = @ + 1]
      /\ UNCHANGED <<wstep, passed, wphase, link>>
  BY DEF WorkerRelays, roundVars
<1>2. passed[v] = 3 * s + 1 /\ Into(v) = 1 /\ wphase[v] = "PRE"
  BY <1>1, Computing DEF SumInv
<1>3. s \in Supersteps
  BY <1>0, <1>1 DEF Supersteps
<1>4. Sender(s)'
  <2>1. Into(v)' = 1
    BY <1>1, <1>2 DEF Into
  <2>2. nrelay'[v] > 0
    BY <1>0, <1>1
  <2>3. QED
    BY <1>1, <1>2, <2>1, <2>2 DEF Sender
<1>5. CASE link[v] = "up"
  <2>1. m \in WorkerPayload
    BY RelayIsPayload
  <2>2. toMaster'[v] = Append(toMaster[v], m)
    BY <1>0, <1>1, <1>5 DEF SendToMaster
  <2>3. toMaster'[v][Len(toMaster[v]) + 1] = m /\ Len(toMaster[v]) + 1 \in 1 .. Len(toMaster'[v])
    BY <1>0, <2>1, <2>2, AppendProperties, LenProperties
  <2>4. StrayFound(s)'
    BY <2>3 DEF StrayFound, Stray
  <2>5. QED
    BY <1>2, <1>3, <1>4, <2>4
<1>6. CASE link[v] = "down"
  <2>1. StrayLost(s)'
    BY <1>0, <1>1, <1>2, <1>6 DEF StrayLost
  <2>2. QED
    BY <1>2, <1>3, <1>4, <2>1
<1>7. QED
  BY <1>0, <1>5, <1>6

\* No step breaks StrayBooks.
LEMMA StrayBooksStep ==
  ASSUME TypeOK, RelayInv, ActiveBooks, StraysUp, StrayBooks, [Next]_vars, RelayInv'
  PROVE  StrayBooks'
<1>0. /\ SumInv /\ StartBooks /\ MasterPlace' /\ PlaceBooks /\ PlaceBooks' /\ LockInv
      /\ persisted \in SUBSET Workers /\ strayed \in Nat
  BY DEF RelayInv, SumInv, AgreeInv, StrayBooks, StartBooks, TypeOK, WorkerTypeOK, HistoryTypeOK
<1>1. \A u \in persisted' : Into(u)' >= 4
  <2> SUFFICES ASSUME NEW u \in persisted' PROVE Into(u)' >= 4
    OBVIOUS
  <2>1. u \in Workers /\ Into(u) >= 4
    <3>1. CASE u \in persisted
      BY <1>0, <3>1 DEF StrayBooks
    <3>2. CASE u \notin persisted
      <4>1. u \in Workers /\ wpc[u] = "complete"
        BY <3>2, StrayMoves DEF WorkerCompletesJob
      <4>2. QED
        BY <1>0, <4>1 DEF PlaceBooks
    <3>3. QED
      BY <3>1, <3>2
  <2>2. Into(u) \in 0 .. 5
    BY <1>0, <2>1 DEF PlaceBooks
  <2>3. CASE LeavesAny(u)
    <3>1. Into(u)' = IF Into(u) = 2 /\ rmsg[u].val # 0 THEN 0 ELSE Into(u) + 1
      BY <1>0, <2>1, <2>3, LeavesForNext
    <3>2. QED
      BY <2>1, <2>2, <3>1
  <2>4. CASE ~LeavesAny(u)
    <3>1. passed'[u] = passed[u] /\ wstep'[u] = wstep[u]
      BY <1>0, <2>1, <2>4, RoundMoves
    <3>2. QED
      BY <2>1, <3>1 DEF Into
  <2>5. QED
    BY <2>3, <2>4
<1>2. StartBooks'
  BY <1>0, StartStep
<1>3. CASE strayed' = strayed /\ strayed > 0
  <2>1. persisted = {}
    BY <1>3 DEF StrayBooks
  <2>2. PICK s \in Supersteps : /\ Sender(s)
                                /\ StrayFound(s) \/ StrayLost(s) \/ (Aborting(s) /\ NobodyStops(s))
    BY <1>3 DEF StrayBooks
  <2>3. s \in Nat
    BY <2>2, BoundsAssumption DEF Supersteps
  <2>4. persisted' = {}
    <3> SUFFICES ASSUME NEW w \in Workers, WorkerCompletesJob(w) PROVE FALSE
      BY <2>1, StrayMoves
    <3>1. wpc[w] = "complete"
      BY DEF WorkerCompletesJob
    <3>2. Into(w) >= 4
      BY <1>0, <3>1 DEF PlaceBooks
    <3>3. QED
      BY <1>0, <2>2, <2>3, <3>2, NoSenderLate
  <2>5. Shut(3 * s + 2) \/ (Aborting(s) /\ NobodyStops(s))
    BY <2>2, <2>3, StrayShut
  <2>6. Sender(s)'
    BY <1>0, <2>2, <2>3, <2>5, SenderStep
  <2>7. StrayFound(s)' \/ StrayLost(s)' \/ (Aborting(s) /\ NobodyStops(s))'
    <3>1. CASE StrayFound(s)
      BY <1>0, <2>2, <2>3, <3>1, FoundStep
    <3>2. CASE StrayLost(s)
      BY <1>0, <2>3, <3>2, LostStep
    <3>3. CASE Aborting(s) /\ NobodyStops(s)
      BY <1>0, <2>2, <2>3, <3>3, AbortingKept, NobodyStopsKept
    <3>4. QED
      BY <2>2, <3>1, <3>2, <3>3
  <2>8. QED
    BY <1>1, <1>2, <2>4, <2>6, <2>7 DEF StrayBooks, StartBooks
<1>4. CASE strayed' = strayed /\ ~(strayed > 0)
  <2>1. ~(strayed' > 0)
    BY <1>4
  <2>2. QED
    BY <1>1, <1>2, <2>1 DEF StrayBooks, StartBooks
<1>5. CASE strayed' # strayed
  <2>1. PICK v \in Workers, d \in Workers : WorkerRelays(v, d, FALSE) /\ persisted' = persisted
    BY <1>5, StrayMoves
  <2>2. PICK s \in Supersteps : Into(v) = 1 /\ Sender(s)' /\ (StrayFound(s)' \/ StrayLost(s)')
    BY <1>0, <2>1, StrayWritten
  <2>3. persisted = {}
    <3> SUFFICES ASSUME NEW u \in persisted PROVE FALSE
      OBVIOUS
    <3>1. u \in Workers /\ Into(u) >= 4
      BY <1>0 DEF StrayBooks
    <3>2. QED
      BY <1>0, <2>2, <3>1, NoSenderLate
  <2>4. QED
    BY <1>1, <1>2, <2>1, <2>2, <2>3 DEF StrayBooks, StartBooks
<1>6. QED
  BY <1>3, <1>4, <1>5

\* StrayInv is an invariant: a message that no graph takes is found, lost, or
\* the reason of an abort.
THEOREM StrayInvariant == Spec => []StrayInv
<1>1. Init => StraysUp /\ StrayBooks
  BY StrayStarts
<1>2. InboxInv /\ InboxInv' /\ TypeOK /\ TypeOK' /\ StraysUp /\ StrayBooks /\ [Next]_vars => (StraysUp /\ StrayBooks)'
  BY StraysUpStep, StrayBooksStep DEF InboxInv
<1>3. InboxInv /\ StraysUp /\ StrayBooks <=> StrayInv
  BY DEF StrayInv
<1>4. QED
  BY <1>1, <1>2, <1>3, InboxInvariant, TypeCorrect, PTL DEF Spec

\* A job in which a vertex wrote to an address that no graph holds stores nothing
\* (master_job_coordinator.go:207-212).
THEOREM StraysAborted == Spec => []StraysAbort
<1>1. StrayInv => StraysAbort
  BY DEF StrayInv, StrayBooks, StraysAbort
<1>2. QED
  BY <1>1, StrayInvariant, PTL
=============================================================================
