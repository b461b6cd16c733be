-------------------------- MODULE WorkerCoordinator --------------------------
(***************************************************************************)
(* A worker's side of a job: Worker.RunJob and workerJobCoordinator.RunJob *)
(* with the callbacks of workerExecutorFactory, the local graph as far as  *)
(* the master and the other workers see it, and the handleMasterPayloads   *)
(* goroutine ("receiver").  workerStepBarrier's channels are unbuffered:   *)
(* Notify and the end of Wait are one step.  As on the master, a select    *)
(* may take its jobCtx.Done() case once wctx[w] is "done".               *)
(***************************************************************************)
EXTENDS JobState

MasterSide == <<masterVars, mctx, handlerVars>>

Goto(w, pc) == wpc' = [wpc EXCEPT ![w] = pc]

\* RunJob returns r and cancels jobCtx.
WorkerReturns(w, r) ==
  /\ Goto(w, "done")
  /\ wres' = [wres EXCEPT ![w] = r]
  /\ wctx' = [wctx EXCEPT ![w] = "done"]

\* The worker calls barrier.Wait with step type p next.
HeadsFor(w, p) ==
  /\ Goto(w, "enter")
  /\ wphase' = [wphase EXCEPT ![w] = p]

\* waitForJob reads the job's details.
WorkerTakesJob(w) ==
  /\ wpc[w] = "idle"
  /\ toWorker[w] # <<>> /\ Head(toWorker[w]).type = "details"
  /\ toWorker' = [toWorker EXCEPT ![w] = Tail(@)]
  /\ Goto(w, "load")
  /\ UNCHANGED <<MasterSide, wphase, computeVars, wres, persisted, inbox, wctx,
                 receiverVars, link, toMaster, faults, roundVars, dataHistory>>

\* waitForJob fails: the stream ended without a job.
WorkerGetsNoJob(w) ==
  /\ wpc[w] = "idle"
  /\ link[w] = "down" /\ toWorker[w] = <<>>
  /\ WorkerReturns(w, "err")
  /\ UNCHANGED <<MasterSide, wphase, computeVars, persisted, inbox,
                 receiverVars, streamVars, faults, roundVars, dataHistory>>

\* StartJob loads the partition; the receiver starts and the executor runs.
WorkerStartsJob(w) ==
  /\ wpc[w] = "load"
  /\ Goto(w, "check")
  /\ rpc' = [rpc EXCEPT ![w] = "recv"]
  /\ UNCHANGED <<MasterSide, wphase, computeVars, wres, persisted, inbox, wctx,
                 rmsg, streamVars, faults, roundVars, dataHistory>>

WorkerStartFails(w) ==
  /\ wpc[w] = "load"
  /\ Fault
  /\ WorkerReturns(w, "err")
  /\ UNCHANGED <<MasterSide, wphase, computeVars, persisted, inbox,
                 receiverVars, streamVars, roundVars, dataHistory>>

\* The head of the executor's loop, with the context not expired.
WorkerBeginsSuperstep(w) ==
  /\ wpc[w] = "check"
  /\ wctx[w] = "live"
  /\ HeadsFor(w, "PRE")
  /\ UNCHANGED <<MasterSide, computeVars, wres, persisted, inbox, wctx,
                 receiverVars, streamVars, faults, roundVars, dataHistory>>

-----------------------------------------------------------------------------
(***************************************************************************)
(* The superstep: graph.step with the vertices' messages to other workers. *)
(***************************************************************************)

\* A vertex sends to one the local graph does not hold; d is the worker whose
\* partition its address lies in.  A worker's own partition is in its graph,
\* so d = w only for an address that does not exist.
WorkerRelays(w, d, known) ==
  /\ wpc[w] = "compute"
  /\ wstep[w] < MaxStep /\ nrelay[w] < MaxRelays
  /\ IF Strays THEN d = w => ~known ELSE d # w /\ known
  /\ SendToMaster(w, [type |-> "relay", dst |-> d, known |-> known, sent |-> wstep[w]])
  /\ nrelay' = [nrelay EXCEPT ![w] = @ + 1]
  /\ sentTo' = IF known THEN [sentTo EXCEPT ![d][wstep[w]] = @ + 1] ELSE sentTo
  /\ strayed' = IF known THEN strayed ELSE strayed + 1
  /\ UNCHANGED <<MasterSide, wpc, wphase, wstep, value, prev, active, wres, persisted,
                 inbox, wctx, receiverVars, link, toWorker, faults, roundVars,
                 tally>>

\* Messages waiting for the vertices of w in this superstep.
Pending(w) == inbox[w][wstep[w] % 2]

\* Mutant: activeInStep is not reset when a superstep begins.
WorkerEndsStepAccumulating(w, act, delta) ==
  /\ wpc[w] = "compute"
  /\ (Pending(w) > 0 \/ nrelay[w] > 0) => act = 1
  /\ (wstep[w] >= MaxStep /\ Pending(w) = 0) => act = 0
  /\ delta <= act
  /\ active' = [active EXCEPT ![w] = @ + act]
  /\ value' = [value EXCEPT ![w] = @ + delta]
  /\ tally' = [s \in Supersteps |-> IF s >= wstep[w] THEN tally[s] + delta ELSE tally[s]]
  /\ inbox' = [inbox EXCEPT ![w][wstep[w] % 2] = 0]
  /\ nrelay' = [nrelay EXCEPT ![w] = 0]
  /\ HeadsFor(w, "POST")
  /\ UNCHANGED <<MasterSide, wstep, prev, wres, persisted, wctx, receiverVars,
                 streamVars, faults, roundVars, sentTo, strayed>>

\* All vertices are processed and their messages discarded.  A vertex with a
\* message is active, and so is one that sent; an active one may aggregate.
WorkerEndsStep(w, act, delta) ==
  /\ wpc[w] = "compute"
  /\ (Pending(w) > 0 \/ nrelay[w] > 0) => act = 1
  /\ (wstep[w] >= MaxStep /\ Pending(w) = 0) => act = 0
  /\ delta <= act
  /\ active' = [active EXCEPT ![w] = act]
  /\ value' = [value EXCEPT ![w] = @ + delta]
  /\ tally' = [s \in Supersteps |-> IF s >= wstep[w] THEN tally[s] + delta ELSE tally[s]]
  /\ inbox' = [inbox EXCEPT ![w][wstep[w] % 2] = 0]
  /\ nrelay' = [nrelay EXCEPT ![w] = 0]
  /\ HeadsFor(w, "POST")
  /\ UNCHANGED <<MasterSide, wstep, prev, wres, persisted, wctx, receiverVars,
                 streamVars, faults, roundVars, sentTo, strayed>>

\* A compute function fails, by itself or because a relay was aborted.
WorkerStepFails(w) ==
  /\ wpc[w] = "compute"
  /\ Fault \/ (wctx[w] = "done" /\ UNCHANGED faults)
  /\ WorkerReturns(w, "err")
  /\ UNCHANGED <<MasterSide, wphase, computeVars, persisted, inbox,
                 receiverVars, streamVars, roundVars, dataHistory>>

-----------------------------------------------------------------------------
(***************************************************************************)
(* barrier.Wait: the step is sent, then the reply awaited.                 *)
(***************************************************************************)

\* What the step carries: the aggregator's Delta() in POST, activeInStep in KEEP.
StepValue(w) == IF wphase[w] = "POST" THEN value[w] - prev[w]
                ELSE IF wphase[w] = "KEEP" THEN active[w] ELSE 0

WorkerEnters(w) ==
  /\ wpc[w] = "enter"
  /\ SendToMaster(w, Step(wphase[w], StepValue(w)))
  /\ prev' = IF wphase[w] = "POST" THEN [prev EXCEPT ![w] = value[w]] ELSE prev
  /\ Goto(w, "wait")
  /\ arrived' = [arrived EXCEPT ![w] = @ + 1]
  /\ UNCHANGED <<MasterSide, wphase, wstep, value, active, nrelay, wres, persisted, inbox,
                 wctx, receiverVars, link, toWorker, faults, passed, inround,
                 round, dataHistory>>

\* Wait returns the step m that the receiver passed to Notify.
Leaves(w, p) ==
  /\ wpc[w] = "wait" /\ wphase[w] = p
  /\ rpc[w] = "notify" /\ rmsg[w].phase = p
  /\ rpc' = [rpc EXCEPT ![w] = "recv"]
  /\ rmsg' = [rmsg EXCEPT ![w] = NoMsg]
  /\ passed' = [passed EXCEPT ![w] = @ + 1]
  /\ UNCHANGED <<MasterSide, wctx, wres, persisted, streamVars, faults,
                 arrived, inround, round, inbox, dataHistory>>

\* The worker computes superstep wstep with the messages of the previous one.
WorkerLeavesPre(w) ==
  /\ Leaves(w, "PRE")
  /\ Goto(w, "compute")
  /\ UNCHANGED <<wphase, computeVars>>

\* Mutant: Set leaves prevSum behind.
WorkerLeavesPostKeepingPrev(w) ==
  /\ Leaves(w, "POST")
  /\ value' = [value EXCEPT ![w] = rmsg[w].val]
  /\ HeadsFor(w, "KEEP")
  /\ UNCHANGED <<wstep, prev, active, nrelay>>

\* setAggregatorValues: the reply's value replaces the local one.
WorkerLeavesPost(w) ==
  /\ Leaves(w, "POST")
  /\ value' = [value EXCEPT ![w] = rmsg[w].val]
  /\ prev' = [prev EXCEPT ![w] = rmsg[w].val]
  /\ HeadsFor(w, "KEEP")
  /\ UNCHANGED <<wstep, active, nrelay>>

\* Mutant: the worker decides on its own active vertices.
WorkerLeavesKeepLocally(w) ==
  /\ Leaves(w, "KEEP")
  /\ \/ /\ active[w] # 0
        /\ wstep' = [wstep EXCEPT ![w] = @ + 1]
        /\ Goto(w, "check")
        /\ UNCHANGED wphase
     \/ /\ active[w] = 0
        /\ HeadsFor(w, "EXECUTED_GRAPH")
        /\ UNCHANGED wstep
  /\ UNCHANGED <<value, prev, active, nrelay>>

\* PostStepKeepRunning: on to the next superstep while any vertex is active.
WorkerLeavesKeep(w) ==
  /\ Leaves(w, "KEEP")
  /\ \/ /\ rmsg[w].val # 0
        /\ wstep' = [wstep EXCEPT ![w] = @ + 1]
        /\ Goto(w, "check")
        /\ UNCHANGED wphase
     \/ /\ rmsg[w].val = 0
        /\ HeadsFor(w, "EXECUTED_GRAPH")
        /\ UNCHANGED wstep
  /\ UNCHANGED <<value, prev, active, nrelay>>

WorkerLeavesExecuted(w) ==
  /\ Leaves(w, "EXECUTED_GRAPH")
  /\ Goto(w, "complete")
  /\ UNCHANGED <<wphase, computeVars>>

WorkerLeavesPersisted(w) ==
  /\ Leaves(w, "PERSISTED_RESULTS")
  /\ HeadsFor(w, "COMPLETED_JOB")
  /\ UNCHANGED <<computeVars>>

\* CompleteJob: the scores are stored.
WorkerCompletesJob(w) ==
  /\ wpc[w] = "complete"
  /\ persisted' = persisted \cup {w}
  /\ HeadsFor(w, "PERSISTED_RESULTS")
  /\ UNCHANGED <<MasterSide, computeVars, wres, inbox, wctx, receiverVars,
                 streamVars, faults, roundVars, dataHistory>>

\* Mutant: the error of CompleteJob is dropped.
WorkerCompleteFailsSilently(w) ==
  /\ wpc[w] = "complete"
  /\ Fault
  /\ HeadsFor(w, "PERSISTED_RESULTS")
  /\ UNCHANGED <<MasterSide, computeVars, wres, persisted, inbox, wctx,
                 receiverVars, streamVars, roundVars, dataHistory>>

WorkerCompleteFails(w) ==
  /\ wpc[w] = "complete"
  /\ Fault
  /\ WorkerReturns(w, "err")
  /\ UNCHANGED <<MasterSide, wphase, computeVars, persisted, inbox,
                 receiverVars, streamVars, roundVars, dataHistory>>

\* jobCtx.Done() ends the executor's loop or barrier.Wait.  The result of the
\* last Wait, for COMPLETED_JOB, is ignored: the job succeeded.
WorkerAborts(w) ==
  /\ wctx[w] = "done"
  /\ wpc[w] \in {"check", "enter", "wait"}
  /\ WorkerReturns(w, IF wpc[w] # "check" /\ wphase[w] = "COMPLETED_JOB" THEN "ok" ELSE "err")
  /\ UNCHANGED <<MasterSide, wphase, computeVars, persisted, inbox,
                 receiverVars, streamVars, faults, roundVars, dataHistory>>

-----------------------------------------------------------------------------
(***************************************************************************)
(* The receiver, and the end of the stream.                                *)
(***************************************************************************)
WorkerOnly == <<MasterSide, workerVars, link, faults, roundVars, dataHistory>>

ReceiverTakesStep(w) ==
  /\ rpc[w] = "recv"
  /\ toWorker[w] # <<>> /\ Head(toWorker[w]).type = "step"
  /\ rpc' = [rpc EXCEPT ![w] = "notify"]
  /\ rmsg' = [rmsg EXCEPT ![w] = Head(toWorker[w])]
  /\ toWorker' = [toWorker EXCEPT ![w] = Tail(@)]
  /\ UNCHANGED <<WorkerOnly, inbox, wctx, toMaster>>

\* graph.SendMessage queues a relayed message for the next superstep; one for
\* a vertex the graph does not hold goes to the relayer again.
ReceiverTakesRelay(w) ==
  /\ rpc[w] = "recv"
  /\ toWorker[w] # <<>> /\ Head(toWorker[w]).type = "relay"
  /\ LET m == Head(toWorker[w]) IN
       IF m.known
       THEN /\ inbox' = [inbox EXCEPT ![w][(wstep[w] + 1) % 2] = @ + 1]
            /\ UNCHANGED receiverVars
       ELSE /\ rpc' = [rpc EXCEPT ![w] = "bounce"]
            /\ rmsg' = [rmsg EXCEPT ![w] = m]
            /\ UNCHANGED inbox
  /\ toWorker' = [toWorker EXCEPT ![w] = Tail(@)]
  /\ UNCHANGED <<WorkerOnly, wctx, toMaster>>

\* relayNonLocalMessage sends the message back to the master, ...
ReceiverBounces(w) ==
  /\ rpc[w] = "bounce"
  /\ SendToMaster(w, rmsg[w])
  /\ rpc' = [rpc EXCEPT ![w] = "recv"]
  /\ rmsg' = [rmsg EXCEPT ![w] = NoMsg]
  /\ UNCHANGED <<WorkerOnly, inbox, wctx, toWorker>>

\* ... and any wait of the receiver ends when jobCtx does.
ReceiverExits(w) ==
  /\ wctx[w] = "done"
  /\ rpc[w] \in {"recv", "notify", "bounce"}
  /\ rpc' = [rpc EXCEPT ![w] = "exit"]
  /\ rmsg' = [rmsg EXCEPT ![w] = NoMsg]
  /\ UNCHANGED <<WorkerOnly, inbox, wctx, toMaster, toWorker>>

\* The context Worker.RunJob was given expires, and the stream with it.
WorkerContextExpires(w) ==
  /\ wpc[w] # "done"
  /\ Fault
  /\ \E i \in 0 .. Len(toMaster[w]) : Cut(w, i, 0)
  /\ wctx' = [wctx EXCEPT ![w] = IF wpc[w] = "idle" THEN @ ELSE "done"]
  /\ UNCHANGED <<MasterSide, workerVars, inbox, receiverVars, roundVars, dataHistory>>

\* handleMasterDisconnect, once the callback is set.
WorkerSeesDisconnect(w) ==
  /\ link[w] = "down" /\ rpc[w] # "off"
  /\ Len(toWorker[w]) <= 1
  /\ wctx[w] = "live"
  /\ wctx' = [wctx EXCEPT ![w] = "done"]
  /\ UNCHANGED <<WorkerOnly, inbox, receiverVars, toMaster, toWorker>>

\* Worker.RunJob closes the stream when the coordinator returned; the payload
\* still in sendMsgCh may be lost.
WorkerClosesStream(w) ==
  /\ wpc[w] = "done" /\ rpc[w] \in {"off", "exit"}
  /\ \E i \in {Len(toMaster[w]), Len(toMaster[w]) - 1} \cap Nat : Cut(w, i, 0)
  /\ UNCHANGED <<MasterSide, workerVars, inbox, wctx, receiverVars, faults,
                 roundVars, dataHistory>>

WorkerStep(w) ==
  \/ WorkerTakesJob(w) \/ WorkerGetsNoJob(w)
  \/ WorkerStartsJob(w) \/ WorkerStartFails(w) \/ WorkerBeginsSuperstep(w)
  \/ \E d \in Workers, known \in BOOLEAN : WorkerRelays(w, d, known)
  \/ \E act \in {0, 1}, delta \in {0, 1} : WorkerEndsStep(w, act, delta)
  \/ WorkerStepFails(w) \/ WorkerEnters(w)
  \/ WorkerLeavesPre(w) \/ WorkerLeavesPost(w) \/ WorkerLeavesKeep(w)
  \/ WorkerLeavesExecuted(w) \/ WorkerLeavesPersisted(w)
  \/ WorkerCompletesJob(w) \/ WorkerCompleteFails(w) \/ WorkerAborts(w)
  \/ WorkerContextExpires(w) \/ WorkerClosesStream(w)

ReceiverStep(w) ==
  \/ ReceiverTakesStep(w) \/ ReceiverTakesRelay(w)
  \/ ReceiverBounces(w) \/ ReceiverExits(w) \/ WorkerSeesDisconnect(w)

=============================================================================
