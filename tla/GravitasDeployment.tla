------------------------ MODULE GravitasDeployment ------------------------
(***************************************************************************)
(* What the parts of the score computation share: how the program is       *)
(* deployed, the number of the current pass, and the budget of failures.   *)
(***************************************************************************)
EXTENDS Integers, FiniteSets

CONSTANTS
  Nodes,        \* graphs: workers of a job, in the order of their partitions
  Wallets, Txs,
  Deployments   \* nodes (one is the monolith), the score store ("memory" or "cdb"),
                \* fetchers and workers (compute workers); with the bounds passes and
                \* failures, and what is there at first: scorer (is it registered),
                \* wallets and txs (the tables); do these grow?

ASSUME DeploymentsAssumption ==
  /\ Nodes \subseteq Nat /\ IsFiniteSet(Nodes) /\ IsFiniteSet(Wallets) /\ IsFiniteSet(Txs)
  /\ \A d \in Deployments :
       /\ d.nodes \subseteq Nodes /\ d.nodes # {}
       /\ d.store \in {"memory", "cdb"}
       /\ d.fetchers \in Nat \ {0} /\ d.workers \in Nat \ {0}
       /\ d.passes \in Nat /\ d.failures \in Nat /\ {d.scorer, d.grows} \subseteq BOOLEAN
       /\ d.wallets \subseteq Wallets /\ d.txs \subseteq Txs

VARIABLES dep, pass, failures

Monolith == Cardinality(dep.nodes) = 1

DeploymentInit == dep \in Deployments /\ pass = 0 /\ failures = 0

Fail == failures < dep.failures /\ failures' = failures + 1

DeploymentTypeOK ==
  dep \in Deployments /\ pass \in 0 .. dep.passes /\ failures \in 0 .. dep.failures
=============================================================================
