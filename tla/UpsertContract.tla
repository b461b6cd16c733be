--------------------------- MODULE UpsertContract ---------------------------
(***************************************************************************)
(* What a caller of batchUpsert may rely on, whatever goroutines and       *)
(* channels are behind it: it is what TxGraphStore takes for one step      *)
(* (Outcome there).  Rows are written in any order.  The call returns once.*)
(* After nil nothing more is written; an error has a cause, and may leave  *)
(* statements behind that commit later.                                    *)
(***************************************************************************)
CONSTANT Rows

VARIABLES
  stored,   \* rows that are in the table
  failed,   \* rows whose statement returned an error
  result    \* "none", "nil" or "err"

vars == <<stored, failed, result>>

Init == stored = {} /\ failed = {} /\ result = "none"

Store ==
  /\ result # "nil"
  /\ \E r \in Rows : stored' = stored \cup {r}
  /\ UNCHANGED <<failed, result>>

\* The row is rolled back, or is there although the statement says it is not.
StoreFails ==
  /\ result # "nil"
  /\ \E r \in Rows : failed' = failed \cup {r} /\ stored' \in {stored, stored \cup {r}}
  /\ UNCHANGED result

\* The code may lose an error: only a call without one is known to have stored all.
ReturnNil ==
  /\ result = "none"
  /\ failed # {} \/ stored = Rows
  /\ result' = "nil"
  /\ UNCHANGED <<stored, failed>>

ReturnErr ==
  /\ result = "none" /\ failed # {}
  /\ result' = "err"
  /\ UNCHANGED <<stored, failed>>

Next == Store \/ StoreFails \/ ReturnNil \/ ReturnErr

Spec == Init /\ [][Next]_vars
=============================================================================
