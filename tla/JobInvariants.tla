--------------------------- MODULE JobInvariants ---------------------------
(***************************************************************************)
(* The inductive invariants behind the safety properties of                *)
(* DistributedJob.  They say where, in goroutines and streams, the facts   *)
(* are that make the properties hold.                                      *)
(***************************************************************************)
EXTENDS DistributedJob, Functions

\* The loop counter of WaitForWorkers and NotifyWorkers against the workers
\* whose handlers joined the barrier and were not replied to yet.
BarrierBooks ==
  /\ mpc = "wait" => cnt = Cardinality(inround)
  /\ mpc = "notify" => cnt + Cardinality(inround) = NumWorkers
  /\ mpc \notin {"wait", "notify", "done"} => inround = {}
  /\ \A w \in Workers : hpc[w] = "joined" => /\ w \in inround
                                             /\ hmsg[w].phase = mphase
                                             /\ mpc \in {"wait", "notify", "done"}
  /\ \A w \in inround : hpc[w] \in {"joined", "exit"}

-----------------------------------------------------------------------------
(***************************************************************************)
(* How the knowledge that scores are stored travels: a worker's own with   *)
(* its PERSISTED_RESULTS step to the barrier, and that of all workers with *)
(* the reply back to each.                                                 *)
(***************************************************************************)
LatePhases == {"PERSISTED_RESULTS", "COMPLETED_JOB"}
LateStep(m) == m.type = "step" /\ m.phase \in LatePhases

\* A late step that comes from a worker is evidence that it stored its scores.
OwnPersisted ==
  /\ \A w \in Workers : wphase[w] \in LatePhases => w \in persisted
  /\ \A w \in Workers : \A m \in Range(toMaster[w]) : LateStep(m) => w \in persisted
  /\ \A w \in Workers : hpc[w] \in {"join", "joined"} /\ LateStep(hmsg[w]) => w \in persisted
  /\ \A w \in inround : mphase \in LatePhases /\ mpc \in {"wait", "notify"} => w \in persisted

\* A late step that comes from the master is evidence that every worker did.
AllKnownPersisted ==
  /\ mphase = "COMPLETED_JOB" \/ (mphase = "PERSISTED_RESULTS" /\ mpc = "notify") => AllPersisted
  /\ \A w \in Workers : hpc[w] = "reply" /\ LateStep(hmsg[w]) => AllPersisted
  /\ \A w \in Workers : \A m \in Range(toWorker[w]) : LateStep(m) => AllPersisted
  /\ \A w \in Workers : rpc[w] = "notify" /\ LateStep(rmsg[w]) => AllPersisted
  /\ \A w \in Workers : wphase[w] = "COMPLETED_JOB" => AllPersisted

\* The inductive invariant of CommitIsTotal: every place from which a goroutine
\* goes on to report success holds evidence that all scores are stored.
CommitInv == BarrierBooks /\ OwnPersisted /\ AllKnownPersisted /\ CommitIsTotal

-----------------------------------------------------------------------------
(***************************************************************************)
(* How a worker's step, and then the reply to it, travel: to the handler,  *)
(* through the master's barrier, and back to the worker's receiver.        *)
(***************************************************************************)
NoStep(q)  == \A i \in 1 .. Len(q) : q[i].type # "step"
OneStep(q) == \A i, j \in 1 .. Len(q) : q[i].type = "step" /\ q[j].type = "step" => i = j

Handling == {"join", "joined", "reply"}
Between  == {"wait", "done"}

\* There is never more than one of them, and none before the worker sends it.
TokenBooks ==
  \A w \in Workers :
    /\ OneStep(toMaster[w]) /\ OneStep(toWorker[w])
    /\ wpc[w] \notin Between => NoStep(toMaster[w]) /\ hpc[w] \notin Handling
    /\ wpc[w] \notin Between \/ ~NoStep(toMaster[w]) \/ hpc[w] \in Handling
          => NoStep(toWorker[w]) /\ rpc[w] # "notify"
    /\ ~NoStep(toMaster[w]) => hpc[w] \notin Handling
    /\ ~NoStep(toWorker[w]) => rpc[w] # "notify"

\* The step of w is on its way to the barrier; the reply to it, back from there.
Asking(w)   == ~NoStep(toMaster[w]) \/ hpc[w] = "join"
Answered(w) == hpc[w] = "reply" \/ ~NoStep(toWorker[w]) \/ rpc[w] = "notify"

\* Rounds for which the master has replied to w.
RoundOf(w) == IF mpc = "notify" /\ w \notin inround THEN round + 1 ELSE round

\* A step asks for the round that the master is at; a reply to it is evidence
\* that every worker has entered that round.
RoundBooks ==
  /\ \A w \in Workers :
       /\ wpc[w] \notin Between => arrived[w] = passed[w]
       /\ wpc[w] = "wait" \/ Asking(w) \/ hpc[w] = "joined" \/ Answered(w)
             => arrived[w] = passed[w] + 1
       /\ Answered(w) => \A v \in Workers : arrived[v] > passed[w]
  /\ mpc # "done" => \A w \in Workers :
       /\ wpc[w] \notin Between \/ Asking(w) => passed[w] = RoundOf(w)
       /\ w \in inround => passed[w] = round /\ arrived[w] = round + 1
       /\ Answered(w) => passed[w] + 1 = RoundOf(w)
  /\ mpc = "notify" => \A w \in Workers : arrived[w] > round

\* The inductive invariant of LockStep.
LockInv == BarrierBooks /\ TokenBooks /\ RoundBooks

-----------------------------------------------------------------------------
(***************************************************************************)
(* Why the workers agree, although each decides for itself.                *)
(***************************************************************************)

\* The barriers of a superstep, and those after the last, in their order.
Stage(p) == CASE p = "PRE" -> 0
              [] p = "POST" -> 1
              [] p = "KEEP" -> 2
              [] p = "EXECUTED_GRAPH" -> 3
              [] p = "PERSISTED_RESULTS" -> 4
              [] OTHER -> 5

\* The barriers of its superstep that w has left.
Into(w) == passed[w] - 3 * wstep[w]

\* Rounds and supersteps are counted separately, and say the same: at any
\* place in the code a worker has left all the barriers before that place.
PlaceBooks ==
  \A w \in Workers :
    /\ Into(w) \in 0 .. 5
    /\ wpc[w] \in {"idle", "load", "check"} => Into(w) = 0
    /\ wpc[w] = "compute" => Into(w) = 1 /\ wphase[w] = "PRE"
    /\ wpc[w] = "complete" => Into(w) = 4
    /\ AtBarrier(w) \/ arrived[w] = passed[w] + 1 => Into(w) = Stage(wphase[w])
    /\ Into(w) = 1 => wphase[w] \in {"PRE", "POST"}

MasterPlace ==
  mpc # "done" =>
    round - 3 * mstep = IF mpc \in {"start", "publish", "check"} THEN 0
                        ELSE IF mpc = "complete" THEN 4 ELSE Stage(mphase)

\* The step of w on its way to the barrier, and the reply to it on its way back.
Asks(w) ==
  {m \in Range(toMaster[w]) : m.type = "step"} \cup {m \in {hmsg[w]} : hpc[w] = "join"}
Replies(w) ==
  {m \in Range(toWorker[w]) : m.type = "step"}
    \cup {m \in {hmsg[w]} : hpc[w] = "reply"} \cup {m \in {rmsg[w]} : rpc[w] = "notify"}

\* The superstep after a barrier left with i barriers of superstep s behind
\* and the value x in the reply.
After(i, s, x) == IF i = 2 /\ x # 0 THEN s + 1 ELSE s

\* Workers of the same round are in the same superstep and are told the same;
\* one that is a round ahead is where the reply sends the other.
WorkersAgree ==
  \A v, w \in Workers :
    /\ passed[v] = passed[w] =>
         wstep[v] = wstep[w] /\ \A m \in Replies(v), n \in Replies(w) : m.val = n.val
    /\ passed[v] = passed[w] + 1 =>
         /\ \A m \in Replies(w) : wstep[v] = After(Into(w), wstep[w], m.val)
         /\ \E x \in {0, 1} : wstep[v] = After(Into(w), wstep[w], x)

\* So it is for the master and each worker, while the master runs.
MasterAgrees ==
  mpc # "done" => \A w \in Workers :
    /\ passed[w] <= RoundOf(w)
    /\ passed[w] = round => wstep[w] = mstep
    /\ passed[w] = round + 1 => wstep[w] = After(round - 3 * mstep, mstep, Broadcast.val)
    /\ \A m \in Replies(w) :
         IF mpc = "notify" THEN m.val = Broadcast.val
         ELSE mstep = After(Into(w), wstep[w], m.val)

\* No worker is more than one barrier behind or ahead of another.
InStep ==
  \A v, w \in Workers : /\ passed[v] <= arrived[w]
                        /\ arrived[w] <= passed[w] + 1

\* The inductive invariant of AgreeOnRounds.
AgreeInv == LockInv /\ InStep /\ PlaceBooks /\ MasterPlace /\ WorkersAgree /\ MasterAgrees

-----------------------------------------------------------------------------
(***************************************************************************)
(* Who may still be before a barrier when another is behind it.            *)
(***************************************************************************)

\* u has not left barrier p, nor is it told to.
NotTold(u, p) == passed[u] <= p /\ (passed[u] = p => Replies(u) = {})

\* The master's barrier has not got the step of w for the one that w comes to.
Open(w) == arrived[w] = passed[w] \/ Asks(w) # {}

\* As long as it has not, no worker is behind that barrier.
JoinBooks ==
  /\ \A w \in Workers : Open(w) =>
       /\ w \notin inround /\ \A u \in Workers : NotTold(u, passed[w])
       /\ mpc # "done" => passed[w] = RoundOf(w)
  /\ \A w \in Workers : round <= arrived[w]
  /\ \A w \in inround : Replies(w) = {}
  /\ 3 * mstep <= round

-----------------------------------------------------------------------------
(***************************************************************************)
(* How what the vertices aggregate travels: a worker's share to the        *)
(* barrier with its POST step, and the sum back with the reply.            *)
(***************************************************************************)

\* The sum before superstep s, and the workers that have added to it in s.
Base(s)  == IF s = 0 THEN 0 ELSE tally[s - 1]
Added(s) == {w \in Workers : wstep[w] = s /\ Into(w) = 1 /\ value[w] = Base(s) + 1}

WorkerSums ==
  \A w \in Workers : wstep[w] \in Supersteps =>
    /\ Into(w) = 0 => value[w] = Base(wstep[w])
    /\ Into(w) = 1 => value[w] \in {Base(wstep[w])} \cup (IF wphase[w] = "PRE" THEN {} ELSE {Base(wstep[w]) + 1})
    /\ Into(w) >= 2 => value[w] = tally[wstep[w]] /\ prev[w] = value[w]
    /\ Into(w) = 0 \/ (Into(w) = 1 /\ arrived[w] = passed[w]) => prev[w] = Base(wstep[w])
    /\ Into(w) = 1 => \A m \in Asks(w) : m.val = value[w] - Base(wstep[w])
    /\ Into(w) = 1 => \A m \in Replies(w) : m.val = tally[wstep[w]]

\* While nobody has left its POST barrier, a superstep's sum is what was added.
TallyBooks ==
  \A s \in Supersteps : (\A w \in Workers : passed[w] <= 3 * s + 1) =>
    tally[s] = Base(s) + Cardinality(Added(s))

MasterSums ==
  mpc # "done" /\ mstep \in Supersteps =>
    /\ round = 3 * mstep \/ (round = 3 * mstep + 1 /\ mpc = "wait") => mvalue = Base(mstep)
    /\ round > 3 * mstep + 1 \/ (round = 3 * mstep + 1 /\ mpc = "notify") => mvalue = tally[mstep]
    /\ round = 3 * mstep + 1 /\ mpc = "wait" => gathered = Cardinality(inround \cap Added(mstep))

\* The inductive invariant of AggregatorsAgree.
SumInv == AgreeInv /\ JoinBooks /\ WorkerSums /\ TallyBooks /\ MasterSums

\* What the workers know of active vertices: the KEEP barrier counts them.
ActiveBooks ==
  /\ \A w \in Workers : Into(w) = 2 => \A m \in Asks(w) : m.val = active[w]
  /\ mpc # "done" /\ round = 3 * mstep + 2 =>
       /\ gathered >= 0
       /\ mpc = "wait" => (gathered = 0 <=> \A w \in inround : active[w] = 0)
       /\ mpc = "notify" => (gathered = 0 <=> \A w \in Workers : active[w] = 0)
=============================================================================
