------------------------------ MODULE MCIngest ------------------------------
(***************************************************************************)
(* Two blocks with a transaction each, the second a contract creation, and *)
(* the deployments that the flags of the program allow.                    *)
(***************************************************************************)
EXTENDS Ingest

CONSTANTS s1, s2, t1, t2, w0, w1

MCBlockOf == [t \in Txs |-> IF t = t1 THEN 1 ELSE 2]
MCTxTo == [t \in Txs |-> IF t = t1 THEN w1 ELSE w0]

Deployment(backend, cache, remote, scanners, workers, known, heads, bound) ==
  [backend |-> backend, cache |-> cache, remote |-> remote, scanners |-> scanners,
   workers |-> workers, known |-> known, heads |-> heads, failures |-> bound]

MCDeployments ==
  {Deployment("memory", FALSE, FALSE, {s1}, 2, 0, {2}, 1),
   Deployment("memory", FALSE, TRUE, {s1}, 1, 0, {1}, 1),
   Deployment("cdb", TRUE, FALSE, {s1}, 1, 1, {2}, 1),
   Deployment("cdb", FALSE, TRUE, {s1}, 1, 0, {2}, 0),
   Deployment("cdb", FALSE, TRUE, {s1}, 1, 2, {}, 1),
   Deployment("cdb", FALSE, TRUE, {s1, s2}, 1, 0, {1}, 0),
   Deployment("cdb", TRUE, TRUE, {s1}, 1, 1, {1}, 1),
   Deployment("cdb", TRUE, TRUE, {s1}, 1, 2, {}, 1)}
=============================================================================
