--------------------------- MODULE MCSparkStream ---------------------------
(* The token stream of one request, with small sizes for TLC. *)
EXTENDS SparkStream
=============================================================================
