--------------------------- MODULE MCSparkWorker ---------------------------
(* The Spark worker with requests that TLC may permute. *)
EXTENDS SparkWorker, TLC

Symmetry == Permutations(Reqs)
=============================================================================
