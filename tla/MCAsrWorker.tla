---------------------------- MODULE MCAsrWorker ----------------------------
(* Instances of AsrWorker for TLC. *)
EXTENDS AsrWorker, TLC

(* Session ids and file names are interchangeable. *)
Symmetry == Permutations(Sids) \cup Permutations(TempFiles)
=============================================================================
