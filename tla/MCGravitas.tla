----------------------------- MODULE MCGravitas -----------------------------
(***************************************************************************)
(* Addresses of two binary digits, and wallets at 00, 10 and 11: the first *)
(* ones of two partitions, and the largest address, which is in none.      *)
(* Transactions cross the boundary in both directions; one goes to 11.     *)
(***************************************************************************)
EXTENDS GravitasInvariants

CONSTANTS w0, w2, w3, t1, t2, t3

MCAddr == [w \in Wallets |-> CASE w = w0 -> <<0, 0>> [] w = w2 -> <<1, 0>> [] w = w3 -> <<1, 1>>]
MCTxFrom == [t \in Txs |-> IF t = t2 THEN w2 ELSE w0]
MCTxTo == [t \in Txs |-> CASE t = t1 -> w2 [] t = t2 -> w0 [] t = t3 -> w3]
MCTxValue == [t \in Txs |-> IF t = t1 THEN 5 ELSE 3]
MCTxFee == [t \in Txs |-> 1]

Deployment(nodes, store, fetchers, workers, known, passes, bound, W, T, grows) ==
  [nodes |-> nodes, store |-> store, fetchers |-> fetchers, workers |-> workers,
   scorer |-> known, passes |-> passes, failures |-> bound, wallets |-> W, txs |-> T, grows |-> grows]

MCDeployments ==
  {Deployment({0}, "memory", 2, 2, FALSE, 2, 1, {w0, w2}, {t1}, TRUE),
   Deployment({0}, "cdb", 1, 1, TRUE, 1, 1, {w0, w2}, {t1}, TRUE),
   Deployment({0, 1}, "cdb", 1, 1, TRUE, 1, 1, {w0, w2}, {t1}, TRUE),
   Deployment({0, 1}, "cdb", 1, 1, TRUE, 2, 1, {w0, w2}, {t1, t2}, FALSE),
   Deployment({0, 1}, "cdb", 1, 1, TRUE, 2, 0, {w0, w2}, {t1}, TRUE),
   Deployment({0, 1}, "memory", 1, 1, TRUE, 1, 1, {w0, w2}, {t1}, FALSE)}

\* With more workers than the base has digits the ends may be out of order: of base 3
\* and four workers they print as 2, 11, 20 and 22.  Then the address 11 is in the
\* extents of the first partition, and of the third, where a binary search finds it.
\* The program has base 16, so that this takes more than 16 workers.
Ternary == INSTANCE PartitionRange WITH Base <- 3, Width <- 2
ASSUME UnsortedEnds ==
  LET r == Ternary!NewFullRange(4)
  IN \A p \in {0, 2} : Ternary!InExtents(<<1, 1>>, Ternary!PartitionExtents(r, p))
=============================================================================
