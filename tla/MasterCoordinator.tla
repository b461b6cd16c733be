-------------------------- MODULE MasterCoordinator --------------------------
(***************************************************************************)
(* The master's side of a job: masterJobCoordinator.RunJob with the        *)
(* callbacks of masterExecutorFactory, and the handleWorkerPayloads        *)
(* goroutine of each worker.  They meet in masterStepBarrier, whose        *)
(* channels are unbuffered: a send and its receive are one step here.      *)
(* Every select of the code with a jobCtx.Done() case may take that case   *)
(* once mctx is "done", and may still take the other.                      *)
(***************************************************************************)
EXTENDS JobState

MasterOnly == <<handlerVars, workerVars, inbox, wctx, receiverVars,
                      streamVars, roundVars, dataHistory>>

\* RunJob returns r: it cancels jobCtx first.
MasterReturns(r) ==
  /\ mpc' = "done"
  /\ mres' = r
  /\ mctx' = "done"
  /\ UNCHANGED <<mphase, mstep, cnt, gathered, mvalue>>

\* WaitForWorkers(p) is called.
EnterBarrier(p) ==
  /\ mpc' = "wait"
  /\ mphase' = p
  /\ cnt' = 0
  /\ gathered' = 0

\* StartJob of the master's runner.
MasterStartsJob ==
  /\ mpc = "start"
  /\ mpc' = "publish"
  /\ UNCHANGED <<mphase, mstep, cnt, gathered, mvalue, mres, mctx, MasterOnly, faults>>

MasterStartFails ==
  /\ mpc = "start"
  /\ Fault
  /\ MasterReturns("err")
  /\ UNCHANGED MasterOnly

\* One iteration of the loop that sets the disconnect callback of w and sends
\* it the job's details; the last one starts the handlers of all workers.
PublishJobDetails(w) ==
  /\ mpc = "publish"
  /\ hpc[w] = "off"
  /\ \/ SendToWorker(w, [type |-> "details"])
     \/ mctx = "done" /\ UNCHANGED toWorker
  /\ LET others == Workers \ {w} IN
       IF \A v \in others : hpc[v] = "published"
       THEN hpc' = [v \in Workers |-> "recv"] /\ mpc' = "check"
       ELSE hpc' = [hpc EXCEPT ![w] = "published"] /\ mpc' = mpc
  /\ UNCHANGED <<mphase, mstep, cnt, gathered, mvalue, mres, mctx, hmsg, workerVars,
                 inbox, wctx, receiverVars, link, toMaster, faults, roundVars, dataHistory>>

\* Mutant: the executor's loop does not look at the context.
MasterBeginsSuperstepUnchecked ==
  /\ mpc = "check"
  /\ EnterBarrier("PRE")
  /\ UNCHANGED <<mstep, mvalue, mres, mctx, MasterOnly, faults>>

\* The head of the executor's loop: ensureContextNotExpired, then PreStep.
MasterBeginsSuperstep ==
  /\ mpc = "check"
  /\ mctx = "live"
  /\ EnterBarrier("PRE")
  /\ UNCHANGED <<mstep, mvalue, mres, mctx, MasterOnly, faults>>

\* Mutant: WaitForWorkers stops one step short.
AllWorkersArrivedShort ==
  /\ mpc = "wait"
  /\ cnt >= NumWorkers - 1
  /\ IF mphase = "COMPLETED_JOB"
     THEN MasterReturns("ok")
     ELSE /\ mpc' = "notify"
          /\ cnt' = 0
          /\ mvalue' = IF mphase = "POST" THEN mvalue + gathered ELSE mvalue
          /\ UNCHANGED <<mphase, mstep, gathered, mres, mctx>>
  /\ UNCHANGED <<MasterOnly, faults>>

\* WaitForWorkers has a step of every worker.  A POST step's deltas are merged
\* into the global aggregator; COMPLETED_JOB is the last barrier of the job.
AllWorkersArrived ==
  /\ mpc = "wait"
  /\ cnt = NumWorkers
  /\ IF mphase = "COMPLETED_JOB"
     THEN MasterReturns("ok")
     ELSE /\ mpc' = "notify"
          /\ cnt' = 0
          /\ mvalue' = IF mphase = "POST" THEN mvalue + gathered ELSE mvalue
          /\ UNCHANGED <<mphase, mstep, gathered, mres, mctx>>
  /\ UNCHANGED <<MasterOnly, faults>>

\* Mutant: the job ends with PERSISTED_RESULTS, without a COMPLETED_JOB barrier.
AllWorkersNotifiedNoCompletion ==
  /\ mpc = "notify"
  /\ cnt = NumWorkers
  /\ \/ mphase = "PRE" /\ EnterBarrier("POST") /\ UNCHANGED <<mstep, mres, mctx>>
     \/ mphase = "POST" /\ EnterBarrier("KEEP") /\ UNCHANGED <<mstep, mres, mctx>>
     \/ /\ mphase = "KEEP" /\ gathered = 0
        /\ EnterBarrier("EXECUTED_GRAPH") /\ UNCHANGED <<mstep, mres, mctx>>
     \/ /\ mphase = "KEEP" /\ gathered # 0
        /\ mstep' = mstep + 1
        /\ mpc' = "check"
        /\ UNCHANGED <<mphase, cnt, gathered, mres, mctx>>
     \/ /\ mphase = "EXECUTED_GRAPH"
        /\ mpc' = "complete"
        /\ UNCHANGED <<mphase, mstep, cnt, gathered, mres, mctx>>
     \/ mphase = "PERSISTED_RESULTS" /\ MasterReturns("ok")
  /\ round' = round + 1
  /\ UNCHANGED <<mvalue, handlerVars, workerVars, inbox, wctx, receiverVars,
                 streamVars, arrived, passed, inround, dataHistory, faults>>

\* NotifyWorkers replied to every worker: the callback returns and the
\* executor, or runJobToCompletion, goes on.  The master's graph is empty, so
\* its own superstep does nothing; the job runs on while some vertex is active.
AllWorkersNotified ==
  /\ mpc = "notify"
  /\ cnt = NumWorkers
  /\ \/ mphase = "PRE" /\ EnterBarrier("POST") /\ UNCHANGED mstep
     \/ mphase = "POST" /\ EnterBarrier("KEEP") /\ UNCHANGED mstep
     \/ mphase = "KEEP" /\ gathered = 0 /\ EnterBarrier("EXECUTED_GRAPH") /\ UNCHANGED mstep
     \/ /\ mphase = "KEEP" /\ gathered # 0
        /\ mstep' = mstep + 1
        /\ mpc' = "check"
        /\ UNCHANGED <<mphase, cnt, gathered>>
     \/ /\ mphase = "EXECUTED_GRAPH"
        /\ mpc' = "complete"
        /\ UNCHANGED <<mphase, mstep, cnt, gathered>>
     \/ mphase = "PERSISTED_RESULTS" /\ EnterBarrier("COMPLETED_JOB") /\ UNCHANGED mstep
  /\ round' = round + 1
  /\ UNCHANGED <<mvalue, mres, mctx, handlerVars, workerVars, inbox, wctx, receiverVars,
                 streamVars, arrived, passed, inround, dataHistory, faults>>

\* CompleteJob of the master's runner.
MasterCompletesJob ==
  /\ mpc = "complete"
  /\ EnterBarrier("PERSISTED_RESULTS")
  /\ UNCHANGED <<mstep, mvalue, mres, mctx, MasterOnly, faults>>

MasterCompleteFails ==
  /\ mpc = "complete"
  /\ Fault
  /\ MasterReturns("err")
  /\ UNCHANGED MasterOnly

\* RunJob takes the jobCtx.Done() case of the select it is at, or finds the
\* context expired at the head of a superstep.
MasterAborts ==
  /\ mctx = "done"
  /\ mpc = "check" \/ (mpc \in {"wait", "notify"} /\ cnt < NumWorkers)
  /\ MasterReturns("err")
  /\ UNCHANGED <<MasterOnly, faults>>

\* The context RunJob was given expires (the master node is stopped).
MasterContextExpires ==
  /\ mpc # "done" /\ mctx = "live"
  /\ Fault
  /\ mctx' = "done"
  /\ UNCHANGED <<masterVars, MasterOnly>>

\* handleWorkerDisconnect: the stream of w failed, and its reader has no more
\* than the one payload that recvMsgCh holds left to deliver.
MasterSeesDisconnect(w) ==
  /\ link[w] = "down" /\ hpc[w] # "off"
  /\ Len(toMaster[w]) <= 1
  /\ mctx = "live"
  /\ mctx' = "done"
  /\ UNCHANGED <<masterVars, MasterOnly, faults>>

\* Once RunJob returned, Master.RunJob closes every stream: HandleSendRecv may
\* take the close before the payload sendMsgCh still holds.
MasterClosesStream(w) ==
  /\ mpc = "done"
  /\ \A v \in Workers : hpc[v] \in {"off", "published", "exit"}
  /\ \E j \in {Len(toWorker[w]), Len(toWorker[w]) - 1} \cap Nat : Cut(w, 0, j)
  /\ UNCHANGED <<masterVars, mctx, handlerVars, workerVars, inbox, wctx,
                 receiverVars, faults, roundVars, dataHistory>>

-----------------------------------------------------------------------------
(***************************************************************************)
(* The handler of worker w.                                                *)
(***************************************************************************)
HandlerOnly == <<mpc, mphase, mstep, mvalue, mres, workerVars, inbox, wctx,
                       receiverVars, link, faults, dataHistory>>

\* A step: the handler is about to enter the barrier with it.
HandlerTakesStep(w) ==
  /\ hpc[w] = "recv"
  /\ toMaster[w] # <<>> /\ Head(toMaster[w]).type = "step"
  /\ hpc' = [hpc EXCEPT ![w] = "join"]
  /\ hmsg' = [hmsg EXCEPT ![w] = Head(toMaster[w])]
  /\ toMaster' = [toMaster EXCEPT ![w] = Tail(@)]
  /\ UNCHANGED <<HandlerOnly, cnt, gathered, mctx, toWorker, roundVars>>

\* Mutant: a message to an address that does not exist is dropped.
HandlerTakesRelayLenient(w) ==
  /\ hpc[w] = "recv"
  /\ toMaster[w] # <<>> /\ Head(toMaster[w]).type = "relay"
  /\ LET m == Head(toMaster[w]) IN
       IF m.dst = w
       THEN UNCHANGED handlerVars
       ELSE /\ hpc' = [hpc EXCEPT ![w] = "relay"]
            /\ hmsg' = [hmsg EXCEPT ![w] = m]
  /\ toMaster' = [toMaster EXCEPT ![w] = Tail(@)]
  /\ UNCHANGED <<HandlerOnly, cnt, gathered, mctx, toWorker, roundVars>>

\* A message to relay: its partition is looked up.  A destination in the
\* sender's own partition does not exist, and the job is aborted.
HandlerTakesRelay(w) ==
  /\ hpc[w] = "recv"
  /\ toMaster[w] # <<>> /\ Head(toMaster[w]).type = "relay"
  /\ LET m == Head(toMaster[w]) IN
       IF m.dst = w
       THEN mctx' = "done" /\ UNCHANGED handlerVars
       ELSE /\ hpc' = [hpc EXCEPT ![w] = "relay"]
            /\ hmsg' = [hmsg EXCEPT ![w] = m]
            /\ mctx' = mctx
  /\ toMaster' = [toMaster EXCEPT ![w] = Tail(@)]
  /\ UNCHANGED <<HandlerOnly, cnt, gathered, toWorker, roundVars>>

\* barrier.Wait, first half: the step goes to WaitForWorkers.
HandlerJoins(w) ==
  /\ hpc[w] = "join"
  /\ mpc = "wait" /\ cnt < NumWorkers /\ hmsg[w].phase = mphase
  /\ hpc' = [hpc EXCEPT ![w] = "joined"]
  /\ cnt' = cnt + 1
  /\ gathered' = gathered + hmsg[w].val
  /\ inround' = inround \cup {w}
  /\ UNCHANGED <<HandlerOnly, hmsg, mctx, toMaster, toWorker, arrived, passed, round>>

\* The step NotifyWorkers broadcasts: the global aggregator after POST, the
\* number of active vertices after KEEP.
Broadcast == Step(mphase, IF mphase = "POST" THEN mvalue
                          ELSE IF mphase = "KEEP" THEN gathered ELSE 0)

\* barrier.Wait, second half: NotifyWorkers hands its step to this handler.
HandlerNotified(w) ==
  /\ hpc[w] = "joined"
  /\ mpc = "notify" /\ cnt < NumWorkers /\ hmsg[w].phase = mphase
  /\ hpc' = [hpc EXCEPT ![w] = "reply"]
  /\ hmsg' = [hmsg EXCEPT ![w] = Broadcast]
  /\ cnt' = cnt + 1
  /\ inround' = inround \ {w}
  /\ UNCHANGED <<HandlerOnly, gathered, mctx, toMaster, toWorker, arrived, passed, round>>

\* sendToWorker: the reply goes to w, a relayed message to its destination.
HandlerSends(w) ==
  /\ \/ hpc[w] = "reply" /\ SendToWorker(w, hmsg[w])
     \/ hpc[w] = "relay" /\ SendToWorker(hmsg[w].dst, hmsg[w])
  /\ hpc' = [hpc EXCEPT ![w] = "recv"]
  /\ hmsg' = [hmsg EXCEPT ![w] = NoMsg]
  /\ UNCHANGED <<HandlerOnly, cnt, gathered, mctx, toMaster, roundVars>>

\* sendToWorker gives up when the job is aborted, and drops the payload.
HandlerDrops(w) ==
  /\ mctx = "done"
  /\ hpc[w] \in {"reply", "relay"}
  /\ hpc' = [hpc EXCEPT ![w] = "recv"]
  /\ hmsg' = [hmsg EXCEPT ![w] = NoMsg]
  /\ UNCHANGED <<HandlerOnly, cnt, gathered, mctx, toMaster, toWorker, roundVars>>

\* Mutant: barrier.Wait has no jobCtx.Done() case.
HandlerExitsOutsideBarrier(w) ==
  /\ mctx = "done"
  /\ hpc[w] = "recv"
  /\ hpc' = [hpc EXCEPT ![w] = "exit"]
  /\ hmsg' = [hmsg EXCEPT ![w] = NoMsg]
  /\ UNCHANGED <<HandlerOnly, cnt, gathered, mctx, toMaster, toWorker, roundVars>>

\* The loop, or barrier.Wait, takes its jobCtx.Done() case.
HandlerExits(w) ==
  /\ mctx = "done"
  /\ hpc[w] \in {"recv", "join", "joined"}
  /\ hpc' = [hpc EXCEPT ![w] = "exit"]
  /\ hmsg' = [hmsg EXCEPT ![w] = NoMsg]
  /\ UNCHANGED <<HandlerOnly, cnt, gathered, mctx, toMaster, toWorker, roundVars>>

MasterStep ==
  \/ MasterStartsJob \/ MasterStartFails
  \/ \E w \in Workers : PublishJobDetails(w)
  \/ MasterBeginsSuperstep
  \/ AllWorkersArrived \/ AllWorkersNotified
  \/ MasterCompletesJob \/ MasterCompleteFails
  \/ MasterAborts \/ MasterContextExpires
  \/ \E w \in Workers : MasterSeesDisconnect(w) \/ MasterClosesStream(w)

HandlerStep(w) ==
  \/ HandlerTakesStep(w) \/ HandlerTakesRelay(w)
  \/ HandlerJoins(w) \/ HandlerNotified(w)
  \/ HandlerSends(w) \/ HandlerDrops(w) \/ HandlerExits(w)

=============================================================================
