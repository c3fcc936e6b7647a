----------------------------- MODULE MCWorkerIO -----------------------------
(* WorkerIO with requests that TLC may permute. *)
EXTENDS WorkerIO, TLC

Symmetry == Permutations(Async) \cup Permutations(Reqs \ Async)
=============================================================================
