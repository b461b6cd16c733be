--------------------------- MODULE MCWorkerStream ---------------------------
(***************************************************************************)
(* Instances of WorkerStream for TLC.                                      *)
(***************************************************************************)
EXTENDS WorkerStream
=============================================================================
