---------------------------- MODULE RoundBarrier ----------------------------
(***************************************************************************)
(* What the step barrier promises: the workers go through a sequence of    *)
(* rounds, and none leaves a round before every worker has entered it.     *)
(* How master and workers achieve it, over streams and channels, is not    *)
(* visible here.  A worker may stop at any point.                          *)
(***************************************************************************)
EXTENDS Naturals

CONSTANT Workers

VARIABLES
  arrived,  \* rounds each worker entered
  passed    \* rounds each worker left

vars == <<arrived, passed>>

Init ==
  /\ arrived = [w \in Workers |-> 0]
  /\ passed = [w \in Workers |-> 0]

Arrive(w) ==
  /\ arrived[w] = passed[w]
  /\ arrived' = [arrived EXCEPT ![w] = @ + 1]
  /\ UNCHANGED passed

Pass(w) ==
  /\ arrived[w] = passed[w] + 1
  /\ \A v \in Workers : arrived[v] > passed[w]
  /\ passed' = [passed EXCEPT ![w] = @ + 1]
  /\ UNCHANGED arrived

Next == \E w \in Workers : Arrive(w) \/ Pass(w)

Spec == Init /\ [][Next]_vars

TypeOK ==
  /\ arrived \in [Workers -> Nat]
  /\ passed \in [Workers -> Nat]

\* No worker is a whole round ahead of another.
InLockStep == \A v, w \in Workers : passed[w] <= arrived[v]
=============================================================================
