---------------------------- MODULE WorkerStream ----------------------------
(***************************************************************************)
(* One stream between the master and a worker (dbspgraph/stream.go), with  *)
(* the goroutines at both ends: HandleSendRecv (the loop) and handleRecv   *)
(* (the reader), their channels of one payload, and the callback that is   *)
(* to tell the owner of an end that the other one is gone.                 *)
(*                                                                         *)
(* The owners (worker pool and job coordinators) send, take and close at   *)
(* any time: what they do in between is in WorkerPool and DistributedJob.  *)
(* The connection itself is gRPC's, external: a FIFO each way, which may   *)
(* break.  It takes any number of payloads, so Send does not block.        *)
(***************************************************************************)
EXTENDS Naturals, Sequences, SequencesExt

CONSTANTS
  MaxPayloads,  \* payloads each owner sends in one behaviour
  MaxFaults     \* failures injected in one behaviour

ASSUME StreamAssumption == MaxPayloads \in Nat /\ MaxFaults \in Nat

Ends == {"master", "worker"}
Other(e) == CHOOSE f \in Ends : f # e

VARIABLES
  loop,    \* HandleSendRecv of each end: "off", "select", "failed" or "ended"
  reader,  \* handleRecv: "off", "recv", "put" or "ended"
  hand,    \* the payload that a reader in "put" is about to pass on
  out,     \* sendMsgCh
  in,      \* recvMsgCh
  ctx,     \* the context of the two goroutines: "live" or "done"
  closed,  \* the owner called Close
  cb,      \* onDisconnectFn: the job coordinator of an end registered its callback
  disc,    \* disconnected
  told,    \* the coordinator of an end learned of a disconnect
  net,     \* payloads on their way to each end
  conn,    \* the connection: "up" or "broken"
  half,    \* the worker called CloseSend
  sent,    \* payloads each owner has sent
  taken,   \* payloads each owner has taken, in order
  faults   \* failures injected so far

goVars == <<loop, reader, hand, ctx>>
ownerVars == <<closed, cb, sent, taken>>
tellVars == <<disc, told>>
connVars == <<conn, half, faults>>
vars == <<goVars, out, in, ownerVars, tellVars, net, connVars>>

\* newRemoteWorkerStream, in JobStream; the worker waits for its job first.
Init ==
  /\ loop = [master |-> "select", worker |-> "off"]
  /\ reader = [master |-> "recv", worker |-> "off"]
  /\ hand = [e \in Ends |-> 0]
  /\ out = [e \in Ends |-> <<>>] /\ in = [e \in Ends |-> <<>>]
  /\ ctx = [e \in Ends |-> "live"]
  /\ closed = [e \in Ends |-> FALSE]
  /\ cb = [e \in Ends |-> FALSE]
  /\ disc = [e \in Ends |-> FALSE]
  /\ told = [e \in Ends |-> FALSE]
  /\ net = [e \in Ends |-> <<>>]
  /\ conn = "up" /\ half = FALSE
  /\ sent = [e \in Ends |-> 0]
  /\ taken = [e \in Ends |-> <<>>]
  /\ faults = 0

-----------------------------------------------------------------------------
(***************************************************************************)
(* What both ends share.                                                   *)
(***************************************************************************)

\* The stream is over once JobStream returned (its result is the status that
\* the worker's Recv gets) or the connection is lost.
Over == loop["master"] = "ended" \/ conn = "broken"

Take(ch, e) == [ch EXCEPT ![e] = Tail(@)]
Put(ch, e, p) == [ch EXCEPT ![e] = Append(@, p)]

\* handleDisconnect, under the mutex.
HandleDisconnect(e) ==
  /\ told' = [told EXCEPT ![e] = @ \/ cb[e]]
  /\ disc' = [disc EXCEPT ![e] = TRUE]

\* Mutant: who registers after the disconnect is not told.
SetDisconnectCallbackLate(e) ==
  /\ cb' = [cb EXCEPT ![e] = TRUE]
  /\ UNCHANGED tellVars

\* SetDisconnectCallback, under the mutex: told at once if it is too late.
SetDisconnectCallback(e) ==
  /\ cb' = [cb EXCEPT ![e] = TRUE]
  /\ told' = [told EXCEPT ![e] = @ \/ disc[e]]
  /\ UNCHANGED disc

\* handleRecv: Recv returns the next payload.
Receives(e) ==
  /\ reader[e] = "recv" /\ net[e] # <<>>
  /\ hand' = [hand EXCEPT ![e] = Head(net[e])]
  /\ net' = Take(net, e)
  /\ reader' = [reader EXCEPT ![e] = "put"]
  /\ UNCHANGED <<loop, ctx, out, in, ownerVars, tellVars, connVars>>

\* handleRecv: Recv returns an error; the reader tells and cancels.
Disconnects(e) ==
  /\ reader[e] = "recv"
  /\ HandleDisconnect(e)
  /\ ctx' = [ctx EXCEPT ![e] = "done"]
  /\ reader' = [reader EXCEPT ![e] = "ended"]
  /\ UNCHANGED <<loop, hand, out, in, ownerVars, net, connVars>>

\* Mutant: a payload for which there is no room is dropped.
PassesOnOrDrops(e) ==
  /\ reader[e] = "put"
  /\ in' = IF Len(in[e]) < 1 THEN Put(in, e, hand[e]) ELSE in
  /\ reader' = [reader EXCEPT ![e] = "recv"]
  /\ UNCHANGED <<loop, hand, ctx, out, ownerVars, tellVars, net, connVars>>

\* Mutant: a channel that takes more than one payload.
PassesOnUnbounded(e) ==
  /\ reader[e] = "put"
  /\ in' = Put(in, e, hand[e])
  /\ reader' = [reader EXCEPT ![e] = "recv"]
  /\ UNCHANGED <<loop, hand, ctx, out, ownerVars, tellVars, net, connVars>>

\* handleRecv: recvMsgCh <- payload.
PassesOn(e) ==
  /\ reader[e] = "put" /\ Len(in[e]) < 1
  /\ in' = Put(in, e, hand[e])
  /\ reader' = [reader EXCEPT ![e] = "recv"]
  /\ UNCHANGED <<loop, hand, ctx, out, ownerVars, tellVars, net, connVars>>

\* handleRecv: <-ctx.Done() while it has a payload to pass on.
GivesUp(e) ==
  /\ reader[e] = "put" /\ ctx[e] = "done"
  /\ reader' = [reader EXCEPT ![e] = "ended"]
  /\ UNCHANGED <<loop, hand, ctx, out, in, ownerVars, tellVars, net, connVars>>

-----------------------------------------------------------------------------
(***************************************************************************)
(* The master's end: remoteWorkerStream.                                   *)
(***************************************************************************)

\* return from HandleSendRecv, and so from JobStream: deferred cancelFn().
ServerEnds ==
  /\ loop' = [loop EXCEPT !["master"] = "ended"]
  /\ ctx' = [ctx EXCEPT !["master"] = "done"]

\* case mPayload := <-s.sendMsgCh: Send.  Into a lost connection it fails, or
\* succeeds as long as gRPC has not noticed.
ServerSends ==
  /\ loop["master"] = "select" /\ out["master"] # <<>>
  /\ out' = Take(out, "master")
  /\ \/ conn = "up" /\ net' = Put(net, "worker", Head(out["master"])) /\ UNCHANGED <<loop, ctx>>
     \/ conn = "broken" /\ UNCHANGED <<net, loop, ctx>>
     \/ conn = "broken" /\ ServerEnds /\ UNCHANGED net
  /\ UNCHANGED <<reader, hand, in, ownerVars, tellVars, connVars>>

\* case <-s.sendErrCh, whatever is left in sendMsgCh; or case <-ctx.Done().
ServerStops ==
  /\ loop["master"] = "select"
  /\ closed["master"] \/ ctx["master"] = "done"
  /\ ServerEnds
  /\ UNCHANGED <<reader, hand, out, in, ownerVars, tellVars, net, connVars>>

\* Recv fails: the stream is over, or the worker half-closed it.
ServerReadFails ==
  /\ Over \/ (half /\ net["master"] = <<>>)
  /\ Disconnects("master")

ServerReader ==
  Receives("master") \/ ServerReadFails \/ PassesOn("master") \/ GivesUp("master")

\* RunJob of the coordinator whose job reserved the worker.  The pool, which
\* owns the stream before, watches the context of gRPC instead (WorkerPool).
MasterRegisters ==
  /\ ~cb["master"] /\ ~closed["master"]
  /\ SetDisconnectCallback("master")
  /\ UNCHANGED <<goVars, out, in, closed, sent, taken, net, connVars>>

\* sendToWorker, of the job.
MasterSends ==
  /\ cb["master"] /\ ~closed["master"]
  /\ sent["master"] < MaxPayloads /\ Len(out["master"]) < 1
  /\ sent' = [sent EXCEPT !["master"] = @ + 1]
  /\ out' = Put(out, "master", sent'["master"])
  /\ UNCHANGED <<goVars, in, closed, cb, taken, tellVars, net, connVars>>

\* Close(err), by the pool or by the job: sendErrCh has room for the error, so
\* it does not block.
MasterCloses ==
  /\ ~closed["master"]
  /\ closed' = [closed EXCEPT !["master"] = TRUE]
  /\ UNCHANGED <<goVars, out, in, cb, sent, taken, tellVars, net, connVars>>

-----------------------------------------------------------------------------
(***************************************************************************)
(* The worker's end: remoteMasterStream.                                   *)
(***************************************************************************)

\* waitForJob gets the job; newRemoteMasterStream; go HandleSendRecv().
WorkerGetsJob ==
  /\ loop["worker"] = "off" /\ net["worker"] # <<>>
  /\ net' = Take(net, "worker")
  /\ taken' = Put(taken, "worker", Head(net["worker"]))
  /\ loop' = [loop EXCEPT !["worker"] = "select"]
  /\ reader' = [reader EXCEPT !["worker"] = "recv"]
  /\ UNCHANGED <<hand, ctx, out, in, closed, cb, sent, tellVars, connVars>>

\* waitForJob fails, and with it RunJob.
WorkerGetsNoJob ==
  /\ loop["worker"] = "off" /\ Over
  /\ conn = "up" => net["worker"] = <<>>
  /\ loop' = [loop EXCEPT !["worker"] = "ended"]
  /\ reader' = [reader EXCEPT !["worker"] = "ended"]
  /\ closed' = [closed EXCEPT !["worker"] = TRUE]
  /\ UNCHANGED <<hand, ctx, out, in, cb, sent, taken, tellVars, net, connVars>>

\* case wPayload := <-s.sendMsgCh: Send.  The io.EOF of a stream that is over
\* is ignored and the payload lost.
ClientSends ==
  /\ loop["worker"] = "select" /\ out["worker"] # <<>>
  /\ out' = Take(out, "worker")
  /\ net' = IF Over THEN net ELSE Put(net, "master", Head(out["worker"]))
  /\ UNCHANGED <<goVars, in, ownerVars, tellVars, connVars>>

\* Send fails at the worker (a payload larger than the limit): gRPC resets the
\* stream and HandleSendRecv returns the error.
ClientSendFails ==
  /\ loop["worker"] = "select" /\ out["worker"] # <<>>
  /\ faults < MaxFaults /\ faults' = faults + 1
  /\ out' = Take(out, "worker")
  /\ conn' = "broken" /\ half' = TRUE
  /\ loop' = [loop EXCEPT !["worker"] = "failed"]
  /\ ctx' = [ctx EXCEPT !["worker"] = "done"]
  /\ UNCHANGED <<reader, hand, in, ownerVars, tellVars, net>>

\* The goroutine of RunJob that called HandleSendRecv: coordinator.cancelJobCtx().
ClientErrorTold ==
  /\ loop["worker"] = "failed"
  /\ loop' = [loop EXCEPT !["worker"] = "ended"]
  /\ told' = [told EXCEPT !["worker"] = TRUE]
  /\ UNCHANGED <<reader, hand, ctx, out, in, ownerVars, disc, net, connVars>>

\* case <-s.ctx.Done(): CloseSend, whatever is left in sendMsgCh.
ClientStops ==
  /\ loop["worker"] = "select" /\ ctx["worker"] = "done"
  /\ loop' = [loop EXCEPT !["worker"] = "ended"]
  /\ half' = TRUE
  /\ UNCHANGED <<reader, hand, ctx, out, in, ownerVars, tellVars, net, conn, faults>>

\* Recv fails: with JobStream's status after the last payload, or at once.
ClientReadFails ==
  /\ Over /\ (conn = "up" => net["worker"] = <<>>)
  /\ Disconnects("worker")

ClientReader ==
  Receives("worker") \/ ClientReadFails \/ PassesOn("worker") \/ GivesUp("worker")

\* coordinator.RunJob: SetDisconnectCallback(handleMasterDisconnect).
WorkerRegisters ==
  /\ loop["worker"] # "off" /\ ~cb["worker"] /\ ~closed["worker"]
  /\ SetDisconnectCallback("worker")
  /\ UNCHANGED <<goVars, out, in, closed, sent, taken, net, connVars>>

\* sendToMaster.
WorkerSends ==
  /\ cb["worker"] /\ ~closed["worker"]
  /\ sent["worker"] < MaxPayloads /\ Len(out["worker"]) < 1
  /\ sent' = [sent EXCEPT !["worker"] = @ + 1]
  /\ out' = Put(out, "worker", sent'["worker"])
  /\ UNCHANGED <<goVars, in, closed, cb, taken, tellVars, net, connVars>>

\* Close(): cancelFn(), once the coordinator returned, with a job or without.
WorkerCloses ==
  /\ loop["worker"] # "off" /\ ~closed["worker"]
  /\ closed' = [closed EXCEPT !["worker"] = TRUE]
  /\ ctx' = [ctx EXCEPT !["worker"] = "done"]
  /\ UNCHANGED <<loop, reader, hand, out, in, cb, sent, taken, tellVars, net, connVars>>

-----------------------------------------------------------------------------
\* handleWorkerPayloads and handleMasterPayloads.
OwnerTakes(e) ==
  /\ in[e] # <<>> /\ ~closed[e]
  /\ taken' = Put(taken, e, Head(in[e]))
  /\ in' = Take(in, e)
  /\ UNCHANGED <<goVars, out, closed, cb, sent, tellVars, net, connVars>>

\* The connection breaks; any suffix of what is on its way is lost.
Breaks ==
  /\ conn = "up"
  /\ faults < MaxFaults /\ faults' = faults + 1
  /\ conn' = "broken"
  /\ \E i \in 0 .. Len(net["master"]), j \in 0 .. Len(net["worker"]) :
       net' = [master |-> SubSeq(net["master"], 1, i), worker |-> SubSeq(net["worker"], 1, j)]
  /\ UNCHANGED <<goVars, out, in, ownerVars, tellVars, half>>

Finished ==
  /\ \A e \in Ends : loop[e] = "ended" /\ reader[e] = "ended" /\ closed[e]
  /\ UNCHANGED vars

Next ==
  \/ ServerSends \/ ServerStops \/ ServerReader
  \/ MasterRegisters \/ MasterSends \/ MasterCloses
  \/ WorkerGetsJob \/ WorkerGetsNoJob
  \/ ClientSends \/ ClientSendFails \/ ClientErrorTold \/ ClientStops \/ ClientReader
  \/ WorkerRegisters \/ WorkerSends \/ WorkerCloses
  \/ \E e \in Ends : OwnerTakes(e)
  \/ Breaks
  \/ Finished

Spec == Init /\ [][Next]_vars

-----------------------------------------------------------------------------
Payloads == 1 .. MaxPayloads

\* The type invariant: the channels hold at most one payload.
TypeOK ==
  /\ loop \in [Ends -> {"off", "select", "failed", "ended"}]
  /\ reader \in [Ends -> {"off", "recv", "put", "ended"}]
  /\ hand \in [Ends -> Payloads \cup {0}]
  /\ out \in [Ends -> BoundedSeq(Payloads, 1)] /\ in \in [Ends -> BoundedSeq(Payloads, 1)]
  /\ ctx \in [Ends -> {"live", "done"}]
  /\ closed \in [Ends -> BOOLEAN]
  /\ cb \in [Ends -> BOOLEAN]
  /\ disc \in [Ends -> BOOLEAN]
  /\ told \in [Ends -> BOOLEAN]
  /\ net \in [Ends -> Seq(Payloads)] /\ taken \in [Ends -> Seq(Payloads)]
  /\ conn \in {"up", "broken"} /\ half \in BOOLEAN
  /\ sent \in [Ends -> 0 .. MaxPayloads]
  /\ faults \in 0 .. MaxFaults

\* What an owner has taken is the beginning of what the other one has sent, in
\* order, whatever is lost and whichever goroutine stops first (stream.go:83,
\* stream.go:188).
PayloadsInOrder ==
  \A e \in Ends :
    /\ Len(taken[e]) <= sent[Other(e)]
    /\ \A i \in DOMAIN taken[e] : taken[e][i] = i

\* Both goroutines of an end returned, and not because its owner closed it.
Lost(e) == loop[e] = "ended" /\ reader[e] = "ended" /\ ~closed[e]

\* A coordinator that registered and did not close an end whose goroutines are
\* gone has been told, even if it registered late; at the master, unless the reader gave up
\* with a payload that it could not pass on (stream.go:84).
ToldUnlessBlocked ==
  /\ Lost("worker") /\ cb["worker"] => told["worker"]
  /\ Lost("master") /\ cb["master"] =>
       \/ told["master"]
       \/ hand["master"] > Len(taken["master"]) + Len(in["master"])

\* "SetDisconnectCallback registers a callback which will be invoked when the
\* remote worker disconnects" (stream.go:110-111).
MasterTold == Lost("master") /\ cb["master"] => told["master"]
=============================================================================
