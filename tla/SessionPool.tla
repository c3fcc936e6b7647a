---------------------------- MODULE SessionPool ----------------------------
(***************************************************************************)
(* What the ASR worker promises its clients about sessions: at most        *)
(* Capacity of them are open, a begin is refused (pool_saturated, 4429)    *)
(* only while exactly Capacity are open, and one that is closed frees its  *)
(* place at once.                                                          *)
(***************************************************************************)
EXTENDS Integers, FiniteSets

CONSTANTS Sids, Capacity

VARIABLES
  open,      (* the sessions that hold a place                              *)
  refused    (* the sessions refused by the last step                       *)

Init == open = {} /\ refused = {}

Begin(s) ==
  /\ s \notin open /\ Cardinality(open) < Capacity
  /\ open' = open \cup {s} /\ refused' = {}

Refuse(s) ==
  /\ s \notin open /\ Cardinality(open) = Capacity
  /\ refused' = {s} /\ UNCHANGED open

(* A session ends, or the sweep closes several, or nothing is visible. *)
CloseAll(S) == open' = open \ S /\ refused' = {}

Next ==
  \/ \E s \in Sids : Begin(s) \/ Refuse(s)
  \/ \E S \in SUBSET open : CloseAll(S)

Spec == Init /\ [][Next]_<<open, refused>>

(* The pool is never over-committed. *)
WithinCapacity == Cardinality(open) <= Capacity
=============================================================================
