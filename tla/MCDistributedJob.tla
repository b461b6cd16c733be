-------------------------- MODULE MCDistributedJob --------------------------
(***************************************************************************)
(* Instances of DistributedJob for TLC.                                    *)
(***************************************************************************)
EXTENDS JobInvariants, TLC

Symmetry == Permutations(Workers)

\* Bound: no behaviour has both a failure and a stray message.
FaultsOrStrays == faults = 0 \/ strayed = 0
=============================================================================
