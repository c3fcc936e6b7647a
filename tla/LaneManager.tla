---------------------------- MODULE LaneManager ----------------------------
(***************************************************************************)
(* SessionLaneManager of the engine overlay (patch v091-candidate/0004):   *)
(* the static-partition lane allocator over the batch rows of the shared   *)
(* cache.  ASR owners draw from [0, asrMax), TTS owners from               *)
(* [asrMax, asrMax + ttsMax).  Every method runs under mMutex, so each is  *)
(* one atomic action on mLanes.                                            *)
(***************************************************************************)
EXTENDS Integers, FiniteSets

CONSTANTS
  MaxBatch,    (* maxBatchSize: physical rows of the cache                  *)
  AsrMax,      (* asrMax: rows reserved for ASR sessions                    *)
  TtsMax,      (* ttsMax: rows reserved for TTS slots                       *)
  OwnerIds,    (* the int64 owner ids callers pass                          *)
  NoOwner      (* the default ownerId of a free record                      *)

(* The constructor throws on any other combination of sizes. *)
ASSUME LaneSizes ==
  /\ MaxBatch \in Nat /\ AsrMax \in Nat /\ TtsMax \in Nat
  /\ AsrMax + TtsMax <= MaxBatch

ASSUME NoOwnerIsNoOwner == NoOwner \notin OwnerIds

VARIABLE mLanes

Lanes == 0 .. MaxBatch - 1

LaneRecord ==
  [ownerKind : {"kNone", "kAsr", "kTts"}, ownerId : OwnerIds \cup {NoOwner},
   slotId : Int, inUse : BOOLEAN, kvLength : Int]

FreeLane ==
  [ownerKind |-> "kNone", ownerId |-> NoOwner, slotId |-> -1, inUse |-> FALSE,
   kvLength |-> 0]

(* First row of the partition of an owner kind, and the rows it spans. *)
Base(kind) == IF kind = "kAsr" THEN 0 ELSE AsrMax
Partition(kind) ==
  Base(kind) .. Base(kind) + (IF kind = "kAsr" THEN AsrMax ELSE TtsMax) - 1

(* Mutant: the scan does not look at inUse. *)
FreeIgnoringUse(kind) == Partition(kind)

Free(kind) == {lane \in Partition(kind) : ~mLanes[lane].inUse}

IsFirstFree(kind, lane) ==
  lane \in Free(kind) /\ \A other \in Free(kind) : lane <= other

LaneInit == mLanes = [lane \in Lanes |-> FreeLane]

(* Mutant: the slot id is not made relative to the partition. *)
acquireAbsoluteSlot(kind, owner, lane) ==
  /\ IsFirstFree(kind, lane)
  /\ mLanes' = [mLanes EXCEPT ![lane] =
                  [ownerKind |-> kind, ownerId |-> owner,
                   slotId |-> lane, inUse |-> TRUE, kvLength |-> 0]]

(* acquire: the first free lane of the owner's partition is reserved ... *)
acquire(kind, owner, lane) ==
  /\ IsFirstFree(kind, lane)
  /\ mLanes' = [mLanes EXCEPT ![lane] =
                  [ownerKind |-> kind, ownerId |-> owner,
                   slotId |-> lane - Base(kind), inUse |-> TRUE, kvLength |-> 0]]

(* ... or -1 is returned and nothing changes, when the partition is full. *)
acquireFails(kind) == Free(kind) = {} /\ UNCHANGED mLanes

(* Mutant: the owner is cleared but the lane stays in use. *)
releaseStaysInUse(laneIds) ==
  mLanes' = [lane \in Lanes |-> IF lane \in laneIds
                                THEN [FreeLane EXCEPT !.inUse = mLanes[lane].inUse]
                                ELSE mLanes[lane]]

(* release, once per id of the set; ids out of range are ignored. *)
release(laneIds) ==
  mLanes' = [lane \in Lanes |-> IF lane \in laneIds THEN FreeLane ELSE mLanes[lane]]

(* setKvLength: advisory; an id out of range is ignored. *)
setKvLength(laneId, length) ==
  IF laneId \in Lanes THEN mLanes' = [mLanes EXCEPT ![laneId].kvLength = length]
                      ELSE UNCHANGED mLanes

-----------------------------------------------------------------------------
(* Every lane in use belongs to the kind whose partition it lies in, and its *)
(* slot id is its offset there: a TTS slot can never be given a row an ASR   *)
(* session may be decoding on (acquire's begin/end bounds).                  *)
PartitionRespected ==
  \A lane \in Lanes : mLanes[lane].inUse =>
    /\ mLanes[lane].ownerKind \in {"kAsr", "kTts"}
    /\ lane \in Partition(mLanes[lane].ownerKind)
    /\ mLanes[lane].slotId = lane - Base(mLanes[lane].ownerKind)

LaneTypeOK == mLanes \in [Lanes -> LaneRecord]
=============================================================================
