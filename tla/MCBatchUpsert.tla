--------------------------- MODULE MCBatchUpsert ---------------------------
(***************************************************************************)
(* Instances of BatchUpsert for TLC: three inserters stand for the six of  *)
(* the code; five batches are one more than they and the channel can hold  *)
(* after each of them failed.                                              *)
(***************************************************************************)
EXTENDS BatchUpsert
=============================================================================
