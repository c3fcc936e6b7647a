--------------------------- MODULE MCLaneManager ---------------------------
(* The lane manager with its callers: owners of both kinds that acquire a    *)
(* lane, keep the id they were given, and release it.                        *)
EXTENDS LaneManager

CONSTANTS AsrOwners, TtsOwners, KvLengths

ASSUME KvLengthsAreInts == KvLengths \subseteq Int

VARIABLES
  held,      (* the lane id each owner was given, or -1                     *)
  failed     (* the kind the last acquire was refused for, or "kNone"       *)

mcVars == <<mLanes, held, failed>>

KindOf(owner) == IF owner \in AsrOwners THEN "kAsr" ELSE "kTts"

MCInit == LaneInit /\ held = [owner \in OwnerIds |-> -1] /\ failed = "kNone"

Acquire(owner) ==
  /\ held[owner] = -1
  /\ \/ \E lane \in Partition(KindOf(owner)) :
          /\ acquire(KindOf(owner), owner, lane)
          /\ held' = [held EXCEPT ![owner] = lane]
          /\ failed' = "kNone"
     \/ /\ acquireFails(KindOf(owner))
        /\ failed' = KindOf(owner)
        /\ UNCHANGED held

Release(owner) ==
  /\ held[owner] # -1
  /\ release({held[owner]})
  /\ held' = [held EXCEPT ![owner] = -1]
  /\ failed' = "kNone"

SetKv(laneId, length) ==
  /\ setKvLength(laneId, length)
  /\ failed' = "kNone"
  /\ UNCHANGED held

MCNext ==
  \/ \E owner \in OwnerIds : Acquire(owner) \/ Release(owner)
  \/ \E laneId \in -1 .. MaxBatch, length \in KvLengths : SetKv(laneId, length)

MCSpec == MCInit /\ [][MCNext]_mcVars

(* An owner is refused only while its own partition is full of other owners  *)
(* of its kind; idle lanes of the other partition never help it and busy     *)
(* ones never hurt it.                                                       *)
RefusedOnlyWhenFull ==
  \A kind \in {"kAsr", "kTts"} : failed = kind =>
    Cardinality({owner \in OwnerIds : KindOf(owner) = kind /\ held[owner] # -1})
      = (IF kind = "kAsr" THEN AsrMax ELSE TtsMax)

(* The id an owner holds names a record in its own name: no lane is handed   *)
(* out twice.                                                                *)
HeldLanesAreOwned ==
  \A owner \in OwnerIds : held[owner] # -1 =>
    mLanes[held[owner]].inUse /\ mLanes[held[owner]].ownerId = owner
=============================================================================
