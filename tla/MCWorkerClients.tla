-------------------------- MODULE MCWorkerClients --------------------------
(* Instances of WorkerClients for TLC; the constants are in the cfg files.  *)
EXTENDS WorkerClients
=============================================================================
