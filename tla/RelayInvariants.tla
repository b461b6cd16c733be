-------------------------- MODULE RelayInvariants --------------------------
(***************************************************************************)
(* The inductive invariants behind what DistributedJob promises about the  *)
(* messages of the vertices: where a relayed message may be, how many of   *)
(* them there are, and what becomes of one that nobody takes.              *)
(***************************************************************************)
EXTENDS JobInvariants

\* Nobody has left barrier p, or is told to.
Shut(p) ==
  /\ \A u \in Workers : NotTold(u, p)
  /\ mpc # "done" => round < p \/ (round = p /\ mpc # "notify")

\* It is v that is awaited there, as long as its handler takes no step.
Held(v, p) ==
  passed[v] = p /\ v \notin inround /\ hpc[v] # "join" /\ Shut(p)

\* Nothing up to place i of a stream is a step.
Ahead(q, i) == \A j \in 1 .. i : q[j].type # "step"

\* w is where it gets the messages sent in superstep s.
Ready(w, s) ==
  wstep[w] = s /\ passed[w] \in {3 * s, 3 * s + 1} /\ arrived[w] > 3 * s

-----------------------------------------------------------------------------
(***************************************************************************)
(* Where a relayed message is, nobody has left the superstep without it:   *)
(* its sender's POST step is behind it, and so is the reply to that of the *)
(* worker that it is for.                                                  *)
(***************************************************************************)
UpStream ==
  \A v \in Workers : \A i \in 1 .. Len(toMaster[v]) :
    LET m == toMaster[v][i]
    IN  m.type = "relay" /\ (m.known \/ m.dst # v) =>
          /\ m.dst # v /\ Ahead(toMaster[v], i)
          /\ Held(v, 3 * m.sent + 1) /\ Ready(m.dst, m.sent)

AtHandler ==
  \A v \in Workers : hpc[v] = "relay" =>
    /\ hmsg[v].dst # v
    /\ Held(v, 3 * hmsg[v].sent + 1) /\ Ready(hmsg[v].dst, hmsg[v].sent)

DownStream ==
  \A w \in Workers : \A i \in 1 .. Len(toWorker[w]) :
    LET m == toWorker[w][i]
    IN  m.type = "relay" =>
          /\ m.dst = w /\ Ready(w, m.sent)
          /\ passed[w] = 3 * m.sent + 1 => rpc[w] # "notify" /\ Ahead(toWorker[w], i)

Bouncing ==
  \A w \in Workers : rpc[w] = "bounce" =>
    ~rmsg[w].known /\ rmsg[w].dst = w /\ passed[w] <= 3 * rmsg[w].sent + 1

\* The inductive invariant of RelayedInStep.
RelayInv == SumInv /\ UpStream /\ AtHandler /\ DownStream /\ Bouncing

-----------------------------------------------------------------------------
(***************************************************************************)
(* How many there are.                                                     *)
(***************************************************************************)
Known(w, s) == [type |-> "relay", dst |-> w, known |-> TRUE, sent |-> s]

\* The places of m in the streams Q, and the handlers that work on it.
Copies(Q, m) == UNION {{v} \X {i \in 1 .. Len(Q[v]) : Q[v][i] = m} : v \in Workers}
Carried(m)   == {v \in Workers : hpc[v] = "relay" /\ hmsg[v] = m}

Flight(m) ==
  Cardinality(Copies(toMaster, m)) + Cardinality(Carried(m)) + Cardinality(Copies(toWorker, m))

\* Why w will never compute the superstep after s: the master is about to
\* abort, or w gets no reply, or somebody's step will never reach the barrier.
Aborting(s) ==
  /\ mctx = "done"
  /\ mpc # "done" => mstep <= s \/ (mstep = s + 1 /\ mpc = "check")
  /\ \A u \in Workers : wstep[u] <= s \/ NotTold(u, 3 * s + 3)

CutOff(w, s) ==
  /\ link[w] = "down" /\ passed[w] <= 3 * s + 1
  /\ passed[w] = 3 * s + 1 => NoStep(toWorker[w]) /\ rpc[w] # "notify"

Missing(s) ==
  \E v \in Workers : link[v] = "down" /\ NoStep(toMaster[v]) /\ Held(v, 3 * s + 1)

Doomed(w, s) == Aborting(s) \/ CutOff(w, s) \/ Missing(s)

\* w has computed the superstep that it is in.
Computed(w) == Into(w) >= 2 \/ (Into(w) = 1 /\ wphase[w] = "POST")

Sent(w, s) == IF s = 0 THEN 0 ELSE sentTo[w][s - 1]

\* What was sent to w in superstep s is queued or on its way, and what was sent
\* in the one before is what w computes s with.
Balance(w, s) == inbox[w][(s + 1) % 2] + Flight(Known(w, s)) - sentTo[w][s]
Queued(w, s)  == Doomed(w, s) \/ Balance(w, s) = 0
Due(w, s) ==
  IF Computed(w) THEN inbox[w][s % 2] = 0
  ELSE (s > 0 /\ Doomed(w, s - 1)) \/ inbox[w][s % 2] = Sent(w, s)

InboxBooks ==
  \A w \in Workers : \A s \in Supersteps : wstep[w] = s => Queued(w, s) /\ Due(w, s)

SentBooks ==
  \A w \in Workers : \A t \in Supersteps :
    arrived[w] <= 3 * t \/ t >= MaxStep => sentTo[w][t] = 0

\* Without messages the vertices stop.
StepBound ==
  /\ mstep <= MaxStep + 1
  /\ \A w \in Workers :
       /\ wstep[w] <= MaxStep + 1
       /\ wstep[w] = MaxStep + 1 =>
            /\ Computed(w) => active[w] = 0
            /\ Into(w) = 2 => \A m \in Replies(w) : m.val = 0

\* The inductive invariant of NoMessageMissed.
InboxInv == RelayInv /\ ActiveBooks /\ InboxBooks /\ SentBooks /\ StepBound

-----------------------------------------------------------------------------
(***************************************************************************)
(* What becomes of a message to an address that no graph holds.            *)
(***************************************************************************)
Stray(m, s) == m.type = "relay" /\ ~m.known /\ m.sent = s

\* It may come back to the master, but not later than the KEEP step of the
\* worker that bounces it.
StraysUp ==
  \A v \in Workers : \A i \in 1 .. Len(toMaster[v]) :
    LET m == toMaster[v][i]
    IN  m.type = "relay" /\ ~m.known =>
          passed[v] <= 3 * m.sent + 1 \/ (Held(v, 3 * m.sent + 2) /\ Ahead(toMaster[v], i))

\* It is somewhere, or was lost with a stream or a receiver; then somebody will
\* not come to the KEEP barrier.
StrayFound(s) ==
  \/ \E v \in Workers : \E i \in 1 .. Len(toMaster[v]) : Stray(toMaster[v][i], s)
  \/ \E v \in Workers : hpc[v] = "relay" /\ Stray(hmsg[v], s)
  \/ \E v \in Workers : \E i \in 1 .. Len(toWorker[v]) : Stray(toWorker[v][i], s)
  \/ \E v \in Workers : rpc[v] = "bounce" /\ Stray(rmsg[v], s)
StrayLost(s) ==
  \E v \in Workers :
    \/ link[v] = "down" /\ (passed[v] <= 3 * s + 1 \/ (Held(v, 3 * s + 2) /\ NoStep(toMaster[v])))
    \/ rpc[v] = "exit" /\ passed[v] <= 3 * s + 1

\* The vertex that wrote it was active, so that nobody stops after superstep s.
Sender(s) ==
  \E v \in Workers :
    \/ wstep[v] = s /\ Into(v) = 1 /\ wphase[v] = "PRE" /\ nrelay[v] > 0
    \/ wstep[v] = s /\ Into(v) \in {1, 2} /\ Computed(v) /\ active[v] = 1
    \/ wstep[v] = s + 1 /\ Into(v) = 0
NobodyStops(s) ==
  /\ \A u \in Workers : wstep[u] = s =>
       Into(u) <= 2 /\ (Into(u) = 2 => \A m \in Replies(u) : m.val # 0)
  /\ mpc # "done" /\ mstep = s => round <= 3 * s + 2

StrayBooks ==
  /\ \A u \in persisted : Into(u) >= 4
  /\ \A w \in Workers : wpc[w] \in {"idle", "load"} => rpc[w] = "off"
  /\ strayed > 0 =>
       /\ persisted = {}
       /\ \E s \in Supersteps : /\ Sender(s)
                                /\ StrayFound(s) \/ StrayLost(s) \/ (Aborting(s) /\ NobodyStops(s))

\* The inductive invariant of StraysAbort.
StrayInv == InboxInv /\ StraysUp /\ StrayBooks
=============================================================================
