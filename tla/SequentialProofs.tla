-------------------------- MODULE SequentialProofs --------------------------
(***************************************************************************)
(* Machine-checked proofs about the parts that run one step at a time: the    *)
(* lane manager, for any sizes of the two partitions and any set of owners;   *)
(* the artifact set a device deploys, for any set of files and any number of  *)
(* builds; the engine bundle, for any profile and any number of devices; the   *)
(* acceptance gates, for any number of cases, prompts and runs; the TTS        *)
(* contract, for any starting path.                                          *)
(***************************************************************************)
EXTENDS MCLaneManager, Artifacts, EngineBundle, RoundtripGates, StreamingGate, TtsContract,
        CountingLemmas, FiniteSetTheorems, TLAPS

-----------------------------------------------------------------------------
(* The lane manager                                                          *)

(* The two partitions. *)
LaneKinds == {"kAsr", "kTts"}

(* What an owner was told and what the table records agree, both ways: the   *)
(* lane an owner holds is recorded in its name, and a lane in use is held by *)
(* the owner it names, of the kind it names.                                 *)
Custody ==
  /\ \A owner \in OwnerIds : held[owner] # -1 =>
       held[owner] \in Lanes /\ mLanes[held[owner]].inUse
       /\ mLanes[held[owner]].ownerId = owner
  /\ \A lane \in Lanes : mLanes[lane].inUse =>
       /\ mLanes[lane].ownerId \in OwnerIds
       /\ held[mLanes[lane].ownerId] = lane
       /\ mLanes[lane].ownerKind = KindOf(mLanes[lane].ownerId)

(* Types of the table and of what the callers keep. *)
LaneTypes ==
  /\ LaneTypeOK
  /\ held \in [OwnerIds -> Int]
  /\ failed \in {"kNone"} \cup LaneKinds

(* A refusal lasts until the next call, and the partition is full until then. *)
Refused == \A kind \in LaneKinds : failed = kind => Free(kind) = {}

(* The inductive invariant. *)
LaneInv == LaneTypes /\ Custody /\ PartitionRespected /\ Refused

(* The two partitions lie inside the table. *)
LEMMA PartitionsAreLanes ==
  \A kind \in LaneKinds :
    /\ Base(kind) \in Int
    /\ Partition(kind) \subseteq Lanes
    /\ Partition(kind) \subseteq Int
    /\ -1 \notin Partition(kind)
BY LaneSizes DEF LaneKinds, Base, Partition, Lanes

(* A record is rewritten in place. *)
LEMMA LaneWritten ==
  ASSUME LaneTypes, NEW lane \in Lanes, NEW rec \in LaneRecord,
         mLanes' = [mLanes EXCEPT ![lane] = rec]
  PROVE  LaneTypeOK'
BY DEF LaneTypes, LaneTypeOK

(* acquire hands out a lane nobody holds, inside the owner's partition. *)
LEMMA AcquireKeeps ==
  ASSUME LaneInv, NEW owner \in OwnerIds, Acquire(owner)
  PROVE  LaneInv'
<1> DEFINE kind == KindOf(owner)
<1>0. kind \in LaneKinds
  BY DEF KindOf, LaneKinds
<1>1. LaneTypes /\ Custody /\ PartitionRespected /\ Refused /\ held[owner] = -1
  BY DEF LaneInv, Acquire
<1>2. CASE acquireFails(kind) /\ failed' = kind /\ UNCHANGED held
  <2>1. mLanes' = mLanes /\ held' = held /\ Free(kind) = {}
    BY <1>2 DEF acquireFails
  <2>2. LaneTypes'
    BY <1>0, <1>1, <1>2, <2>1 DEF LaneTypes, LaneTypeOK
  <2>3. Custody' /\ PartitionRespected'
    BY <1>1, <2>1 DEF Custody, PartitionRespected
  <2>4. Refused'
    BY <1>0, <1>2, <2>1 DEF Refused, Free
  <2> QED BY <2>2, <2>3, <2>4 DEF LaneInv
<1>3. ASSUME NEW lane \in Partition(kind), acquire(kind, owner, lane),
             held' = [held EXCEPT ![owner] = lane], failed' = "kNone"
      PROVE  LaneInv'
  <2> DEFINE rec == [ownerKind |-> kind, ownerId |-> owner,
                     slotId |-> lane - Base(kind), inUse |-> TRUE, kvLength |-> 0]
  <2>1. lane \in Lanes /\ lane \in Int /\ lane # -1 /\ Base(kind) \in Int
    BY <1>0, PartitionsAreLanes
  <2>2. ~mLanes[lane].inUse /\ mLanes' = [mLanes EXCEPT ![lane] = rec]
    BY <1>3 DEF acquire, IsFirstFree, Free
  <2>3. rec \in LaneRecord
    BY <1>0, <2>1 DEF LaneRecord, LaneKinds
  <2>4. LaneTypes'
    BY <1>1, <1>3, <2>1, <2>2, <2>3, LaneWritten DEF LaneTypes
  <2>5. /\ rec.ownerKind = kind /\ rec.ownerId = owner /\ rec.inUse
        /\ rec.slotId = lane - Base(kind)
    OBVIOUS
  <2>6. mLanes'[lane] = rec /\ \A l \in Lanes \ {lane} : mLanes'[l] = mLanes[l]
    BY <1>1, <2>1, <2>2 DEF LaneTypes, LaneTypeOK
  <2>7. held'[owner] = lane /\ \A o \in OwnerIds \ {owner} : held'[o] = held[o]
    BY <1>1, <1>3 DEF LaneTypes
  <2> HIDE DEF rec
  <2>8. \A l \in Lanes : mLanes[l].inUse => mLanes[l].ownerId # owner
    <3>1. \A l \in Lanes : l # -1
      BY LaneSizes DEF Lanes
    <3> QED BY <1>1, <3>1 DEF Custody
  <2>9. Custody'
    <3>1. ASSUME NEW o \in OwnerIds, held'[o] # -1
          PROVE  held'[o] \in Lanes /\ mLanes'[held'[o]].inUse /\ mLanes'[held'[o]].ownerId = o
      <4>1. CASE o = owner
        BY <4>1, <2>1, <2>5, <2>6, <2>7
      <4>2. CASE o # owner
        BY <4>2, <3>1, <1>1, <2>2, <2>6, <2>7 DEF Custody
      <4> QED BY <4>1, <4>2
    <3>2. ASSUME NEW l \in Lanes, mLanes'[l].inUse
          PROVE  /\ mLanes'[l].ownerId \in OwnerIds
                 /\ held'[mLanes'[l].ownerId] = l
                 /\ mLanes'[l].ownerKind = KindOf(mLanes'[l].ownerId)
      <4>1. CASE l = lane
        BY <4>1, <2>5, <2>6, <2>7
      <4>2. CASE l # lane
        BY <4>2, <3>2, <1>1, <2>6, <2>7, <2>8 DEF Custody
      <4> QED BY <4>1, <4>2
    <3> QED BY <3>1, <3>2 DEF Custody
  <2>10. PartitionRespected'
    BY <1>0, <1>1, <2>1, <2>5, <2>6 DEF PartitionRespected, LaneKinds
  <2>11. Refused'
    BY <1>3 DEF Refused, LaneKinds
  <2> QED BY <2>4, <2>9, <2>10, <2>11 DEF LaneInv
<1> QED BY <1>2, <1>3 DEF Acquire

(* release frees the one lane its owner holds. *)
LEMMA ReleaseKeeps ==
  ASSUME LaneInv, NEW owner \in OwnerIds, Release(owner)
  PROVE  LaneInv'
<1> DEFINE lane == held[owner]
<1>1. LaneTypes /\ Custody /\ PartitionRespected
  BY DEF LaneInv
<1>2. lane \in Lanes /\ mLanes[lane].ownerId = owner /\ lane # -1
  BY <1>1 DEF Custody, Release
<1>3. mLanes' = [l \in Lanes |-> IF l \in {lane} THEN FreeLane ELSE mLanes[l]]
  BY DEF Release, release
<1>4. FreeLane \in LaneRecord /\ ~FreeLane.inUse
  BY DEF FreeLane, LaneRecord
<1>5. mLanes'[lane] = FreeLane /\ \A l \in Lanes \ {lane} : mLanes'[l] = mLanes[l]
  BY <1>2, <1>3
<1>6. held' = [held EXCEPT ![owner] = -1] /\ failed' = "kNone"
  BY DEF Release
<1>7. held'[owner] = -1 /\ \A o \in OwnerIds \ {owner} : held'[o] = held[o]
  BY <1>1, <1>6 DEF LaneTypes
<1> HIDE DEF lane
<1>8. LaneTypes'
  BY <1>1, <1>3, <1>4, <1>6 DEF LaneTypes, LaneTypeOK
<1>9. Custody'
  <2>1. \A o \in OwnerIds \ {owner} : held[o] # lane
    BY <1>1, <1>2 DEF Custody
  <2>2. \A l \in Lanes \ {lane} : mLanes[l].inUse => mLanes[l].ownerId # owner
    BY <1>1 DEF Custody, lane
  <2>3. ASSUME NEW o \in OwnerIds, held'[o] # -1
        PROVE  held'[o] \in Lanes /\ mLanes'[held'[o]].inUse /\ mLanes'[held'[o]].ownerId = o
    <3>1. o \in OwnerIds \ {owner} /\ held'[o] = held[o]
      BY <1>7, <2>3
    <3> QED BY <1>1, <1>5, <2>1, <2>3, <3>1 DEF Custody
  <2>4. ASSUME NEW l \in Lanes, mLanes'[l].inUse
        PROVE  /\ mLanes'[l].ownerId \in OwnerIds
               /\ held'[mLanes'[l].ownerId] = l
               /\ mLanes'[l].ownerKind = KindOf(mLanes'[l].ownerId)
    <3>1. l \in Lanes \ {lane} /\ mLanes'[l] = mLanes[l]
      BY <1>4, <1>5, <2>4
    <3> QED BY <1>1, <1>7, <2>2, <2>4, <3>1 DEF Custody
  <2> QED BY <2>3, <2>4 DEF Custody
<1>10. PartitionRespected'
  BY <1>1, <1>4, <1>5 DEF PartitionRespected
<1>11. Refused'
  BY <1>6 DEF Refused, LaneKinds
<1> QED BY <1>8, <1>9, <1>10, <1>11 DEF LaneInv

(* setKvLength touches the length of a lane and nothing else. *)
LEMMA SetKvKeeps ==
  ASSUME LaneInv, NEW laneId \in -1 .. MaxBatch, NEW length \in KvLengths,
         SetKv(laneId, length)
  PROVE  LaneInv'
<1>1. LaneTypes /\ Custody /\ PartitionRespected
  BY DEF LaneInv
<1>2. held' = held /\ failed' = "kNone" /\ setKvLength(laneId, length)
  BY DEF SetKv
<1>3. LaneTypeOK' /\ \A l \in Lanes : /\ mLanes'[l].inUse = mLanes[l].inUse
                                     /\ mLanes'[l].ownerId = mLanes[l].ownerId
                                     /\ mLanes'[l].ownerKind = mLanes[l].ownerKind
                                     /\ mLanes'[l].slotId = mLanes[l].slotId
  <2>1. CASE laneId \in Lanes
    <3>1. mLanes' = [mLanes EXCEPT ![laneId].kvLength = length] /\ length \in Int
      BY <1>2, <2>1, KvLengthsAreInts DEF setKvLength
    <3>2. mLanes \in [Lanes -> LaneRecord]
      BY <1>1 DEF LaneTypes, LaneTypeOK
    <3> QED BY <2>1, <3>1, <3>2 DEF LaneTypeOK, LaneRecord
  <2>2. CASE laneId \notin Lanes
    BY <1>1, <1>2, <2>2 DEF setKvLength, LaneTypes, LaneTypeOK
  <2> QED BY <2>1, <2>2
<1>4. LaneTypes'
  BY <1>1, <1>2, <1>3 DEF LaneTypes
<1>5. Custody'
  BY <1>1, <1>2, <1>3 DEF Custody
<1>6. PartitionRespected'
  BY <1>1, <1>3 DEF PartitionRespected
<1>7. Refused'
  BY <1>2 DEF Refused, LaneKinds
<1> QED BY <1>4, <1>5, <1>6, <1>7 DEF LaneInv

(* A refused owner's partition is full: the owners of its kind that hold a   *)
(* lane are as many as the partition has rows, because custody pairs them    *)
(* with the rows one to one.                                                 *)
LEMMA FullPartition ==
  ASSUME LaneInv, NEW kind \in LaneKinds, Free(kind) = {}
  PROVE  Cardinality({owner \in OwnerIds : KindOf(owner) = kind /\ held[owner] # -1})
           = (IF kind = "kAsr" THEN AsrMax ELSE TtsMax)
<1> DEFINE Os == {owner \in OwnerIds : KindOf(owner) = kind /\ held[owner] # -1}
           P == Partition(kind)
           f == [lane \in P |-> mLanes[lane].ownerId]
<1>1. Custody /\ PartitionRespected /\ P \subseteq Lanes /\ -1 \notin P
  BY PartitionsAreLanes DEF LaneInv
<1>2. \A lane \in P : mLanes[lane].inUse
  BY DEF Free
<1>3. \A lane \in P : mLanes[lane].ownerKind = kind
  <2>1. Partition("kAsr") \cap Partition("kTts") = {}
    BY LaneSizes DEF Partition, Base
  <2> QED BY <1>1, <1>2, <2>1 DEF PartitionRespected, LaneKinds
<1>4. f \in Bijection(P, Os)
  <2>1. f \in [P -> Os]
    BY <1>1, <1>2, <1>3 DEF Custody
  <2>2. \A a, b \in P : f[a] = f[b] => a = b
    BY <1>1, <1>2 DEF Custody
  <2>3. \A o \in Os : \E lane \in P : f[lane] = o
    <3> SUFFICES ASSUME NEW o \in Os PROVE held[o] \in P /\ f[held[o]] = o
      OBVIOUS
    <3>1. /\ held[o] \in Lanes /\ mLanes[held[o]].inUse /\ mLanes[held[o]].ownerId = o
          /\ KindOf(o) = kind
      BY <1>1 DEF Custody
    <3>2. held[o] \in P
      BY <1>1, <3>1 DEF Custody, PartitionRespected
    <3> QED BY <3>1, <3>2
  <2> HIDE DEF f, P, Os
  <2> QED BY <2>1, <2>2, <2>3 DEF Bijection, Injection, Surjection, IsInjective
<1>5. IsFiniteSet(P) /\ Cardinality(P) = (IF kind = "kAsr" THEN AsrMax ELSE TtsMax)
  <2> DEFINE n == IF kind = "kAsr" THEN AsrMax ELSE TtsMax
  <2>1. Base(kind) \in Int /\ n \in Nat /\ Base(kind) + n - 1 \in Int
    BY LaneSizes DEF Base
  <2>2. P = Base(kind) .. Base(kind) + n - 1
    BY DEF Partition
  <2>3. /\ IsFiniteSet(P)
        /\ Cardinality(P) = IF Base(kind) > Base(kind) + n - 1 THEN 0
                            ELSE (Base(kind) + n - 1) - Base(kind) + 1
    BY <2>1, <2>2, FS_Interval
  <2> QED BY <2>1, <2>3
<1>6. ExistsBijection(P, Os)
  BY <1>4 DEF ExistsBijection
<1> HIDE DEF P, Os, f
<1>7. Cardinality(Os) = Cardinality(P)
  BY <1>5, <1>6, FS_Bijection
<1> QED BY <1>5, <1>7 DEF Os

(* The invariant, whatever the owners ask for and in whatever order. *)
THEOREM LaneInvariant == MCSpec => []LaneInv
<1>1. MCInit => LaneInv
  <2> SUFFICES ASSUME MCInit PROVE LaneInv
    OBVIOUS
  <2>1. FreeLane \in LaneRecord /\ ~FreeLane.inUse
    BY DEF FreeLane, LaneRecord
  <2>2. \A l \in Lanes : mLanes[l] = FreeLane
    BY DEF MCInit, LaneInit
  <2>3. LaneTypes
    BY <2>1 DEF MCInit, LaneInit, LaneTypes, LaneTypeOK
  <2>4. Custody /\ PartitionRespected
    BY <2>1, <2>2 DEF MCInit, Custody, PartitionRespected
  <2>5. Refused
    BY DEF MCInit, Refused, LaneKinds
  <2> QED BY <2>3, <2>4, <2>5 DEF LaneInv
<1>2. LaneInv /\ [MCNext]_mcVars => LaneInv'
  <2> SUFFICES ASSUME LaneInv, [MCNext]_mcVars PROVE LaneInv'
    OBVIOUS
  <2>1. CASE UNCHANGED mcVars
    BY <2>1 DEF mcVars, LaneInv, LaneTypes, LaneTypeOK, Custody, PartitionRespected, Refused, Free
  <2>2. CASE MCNext
    BY <2>2, AcquireKeeps, ReleaseKeeps, SetKvKeeps DEF MCNext
  <2> QED BY <2>1, <2>2
<1> QED BY <1>1, <1>2, PTL DEF MCSpec

(* No TTS slot is ever given a row of the ASR partition, nor the other way   *)
(* round, and slot ids are offsets in the partition (acquire's bounds).      *)
THEOREM PartitionsStayApart == MCSpec => []PartitionRespected
BY LaneInvariant, PTL DEF LaneInv

(* No lane is handed to two owners, and a lane stays its owner's until it is *)
(* released (acquire's look at inUse under mMutex).                          *)
THEOREM LanesAreOwned == MCSpec => []HeldLanesAreOwned
<1>1. LaneInv => HeldLanesAreOwned
  BY DEF LaneInv, Custody, HeldLanesAreOwned
<1> QED BY <1>1, LaneInvariant, PTL

(* acquire returns -1 only while as many owners of the kind hold a lane as   *)
(* its partition has rows.                                                   *)
THEOREM RefusalMeansFull == MCSpec => []RefusedOnlyWhenFull
<1>1. LaneInv => RefusedOnlyWhenFull
  BY FullPartition DEF LaneInv, Refused, RefusedOnlyWhenFull, LaneKinds
<1> QED BY <1>1, LaneInvariant, PTL

-----------------------------------------------------------------------------
(* Artifacts: packager and deployer                                         *)

(* The flags of a tool. *)
Args == [tool : {"none", "package", "generate", "deploy"}, verify : BOOLEAN,
         checkOnly : BOOLEAN, dryRun : BOOLEAN]

(* A running tool has no exit code yet and has the flags it was started      *)
(* with; the trees and what a loop collects are functions.                   *)
ToolInv ==
  /\ args \in Args
  /\ stage = [f \in Files |-> stage[f]] /\ hub = [f \in Files |-> hub[f]]
  /\ found = [f \in DOMAIN found |-> found[f]]
  /\ pc \in {"idle", "package", "copy", "generate", "write", "download", "load", "verify"}
  /\ pc # "idle" => exit = "none"
  /\ pc \in {"package", "copy"} => args.tool = "package"
  /\ pc \in {"generate", "write"} => args.tool = "generate"
  /\ pc \in {"download", "load", "verify"} => args.tool = "deploy"

(* Every file the packager has been through is staged as it was digested,    *)
(* unless the tree changed on the way; at most one file is digested and not  *)
(* copied.                                                                   *)
StageInv ==
  pc \in {"package", "copy"} /\ ~args.dryRun =>
    /\ DOMAIN found \subseteq Files
    /\ pc = "package" => DOMAIN found \cap todo = {}
    /\ \A f, g \in DOMAIN found \cap todo : f = g
    /\ ~raced => \A f \in DOMAIN found :
         found[f] = source[f] /\ (f \notin todo => stage[f] = source[f])

(* No file is missing while digests are compared, and a file the comparison  *)
(* has passed either agrees with its entry or is among the mismatches.       *)
CompareInv ==
  /\ pc \in {"load", "verify"} => verify = {}
  /\ pc = "verify" =>
       /\ sidecar.kind # "torn"
       /\ \A f \in (required \cap DOMAIN sidecar.files) \ todo :
            root[f] = sidecar.files[f] \/ f \in DOMAIN found

(* The inductive invariant of the artifact tools. *)
ArtifactsInv == ToolInv /\ StageInv /\ CompareInv /\ DeploySound /\ InventoryOfStage

(* What With returns is a function. *)
LEMMA WithIsFunction ==
  \A g, f, c : With(g, f, c) = [k \in DOMAIN With(g, f, c) |-> With(g, f, c)[k]]
BY DEF With

(* The empty inventory. *)
LEMMA NoInventoryFacts ==
  DOMAIN NoInventory = {} /\ NoInventory = [f \in DOMAIN NoInventory |-> NoInventory[f]]
BY DEF NoInventory

(* Nothing runs and nothing is staged at first. *)
LEMMA ArtifactsStart == ArtifactsInit => ArtifactsInv
<1> SUFFICES ASSUME ArtifactsInit PROVE ArtifactsInv
  OBVIOUS
<1>1. ToolInv
  BY NoInventoryFacts DEF ArtifactsInit, ToolInv, Args, NoArgs, Flags
<1>2. StageInv /\ CompareInv /\ DeploySound /\ InventoryOfStage
  BY DEF ArtifactsInit, StageInv, CompareInv, DeploySound, InventoryOfStage
<1> QED BY <1>1, <1>2 DEF ArtifactsInv

(* A tool that ends, with whatever code other than 0. *)
LEMMA FailureKeeps ==
  ASSUME ArtifactsInv, NEW code, Exit(code), code # "0", args' \in Args,
         UNCHANGED <<stage, hub>>
  PROVE  ArtifactsInv'
<1>1. pc' = "idle" /\ exit' # "0" /\ found' = NoInventory
  BY DEF Exit
<1>2. ToolInv'
  BY <1>1, NoInventoryFacts DEF ArtifactsInv, ToolInv
<1>3. (StageInv /\ CompareInv /\ DeploySound /\ InventoryOfStage)'
  BY <1>1 DEF StageInv, CompareInv, DeploySound, InventoryOfStage
<1> QED BY <1>2, <1>3 DEF ArtifactsInv

(* The packager *)
LEMMA PackagerKeeps ==
  ASSUME ArtifactsInv,
         PackageStart \/ PackageEnd \/ \E f \in Files : PackageDigest(f) \/ PackageCopy(f)
  PROVE  ArtifactsInv'
<1>0. ToolInv /\ StageInv /\ CompareInv /\ DeploySound /\ InventoryOfStage
  BY DEF ArtifactsInv
<1>1. CASE PackageStart
  <2>1. /\ pc' = "package" /\ todo' = Files /\ found' = NoInventory
        /\ exit' = "none" /\ stage' = stage /\ hub' = hub
    BY <1>1 DEF PackageStart, trees
  <2>2. args' \in Args /\ args'.tool = "package"
    BY <1>1 DEF PackageStart, Args, NoArgs, Flags
  <2>3. ToolInv'
    BY <1>0, <2>1, <2>2, NoInventoryFacts DEF ToolInv
  <2>4. StageInv'
    BY <2>1, NoInventoryFacts DEF StageInv
  <2>5. (CompareInv /\ DeploySound /\ InventoryOfStage)'
    BY <2>1 DEF CompareInv, DeploySound, InventoryOfStage
  <2> QED BY <2>3, <2>4, <2>5 DEF ArtifactsInv
<1>2. ASSUME NEW f \in Files, PackageDigest(f) PROVE ArtifactsInv'
  <2>1. /\ pc = "package" /\ f \in todo /\ pc' \in {"package", "copy"}
        /\ UNCHANGED <<source, stage, hub, args, exit, raced>> /\ exit = "none"
        /\ args.tool = "package"
    BY <1>0, <1>2 DEF PackageDigest, trees, ToolInv
  <2>2. \/ /\ todo' = todo \ {f} /\ pc' = pc /\ found' = found
        \/ /\ found' = With(found, f, source[f]) /\ args.dryRun
        \/ /\ found' = With(found, f, source[f]) /\ ~args.dryRun
           /\ pc' = "copy" /\ todo' = todo
    BY <1>2 DEF PackageDigest
  <2>3. ToolInv'
    <3>1. found' = [k \in DOMAIN found' |-> found'[k]]
      <4>1. CASE found' = found
        BY <1>0, <4>1 DEF ToolInv
      <4>2. CASE found' = With(found, f, source[f])
        BY <4>2, WithIsFunction
      <4> QED BY <2>2, <4>1, <4>2
    <3> QED BY <1>0, <2>1, <3>1 DEF ToolInv
  <2>4. StageInv'
    <3> SUFFICES ASSUME ~args.dryRun PROVE StageInv'
      BY <2>1 DEF StageInv
    <3>1. /\ DOMAIN found \subseteq Files /\ DOMAIN found \cap todo = {}
          /\ ~raced => \A g \in DOMAIN found : found[g] = source[g] /\ stage[g] = source[g]
      BY <1>0, <2>1 DEF StageInv
    <3>2. CASE todo' = todo \ {f} /\ pc' = pc /\ found' = found
      BY <2>1, <3>1, <3>2 DEF StageInv
    <3>3. CASE found' = With(found, f, source[f]) /\ pc' = "copy" /\ todo' = todo
      <4>1. /\ DOMAIN found' = DOMAIN found \cup {f} /\ found'[f] = source[f]
            /\ \A k \in DOMAIN found \ {f} : found'[k] = found[k]
        BY <3>3 DEF With
      <4>2. DOMAIN found' \subseteq Files /\ \A g, h \in DOMAIN found' \cap todo' : g = h
        BY <3>1, <3>3, <4>1
      <4>3. ~raced' => \A g \in DOMAIN found' :
              found'[g] = source'[g] /\ (g \notin todo' => stage'[g] = source'[g])
        BY <2>1, <3>1, <3>3, <4>1
      <4> QED BY <3>3, <4>2, <4>3 DEF StageInv
    <3> QED BY <2>2, <3>2, <3>3
  <2>5. (CompareInv /\ DeploySound /\ InventoryOfStage)'
    BY <2>1 DEF CompareInv, DeploySound, InventoryOfStage
  <2> QED BY <2>3, <2>4, <2>5 DEF ArtifactsInv
<1>3. ASSUME NEW f \in Files, PackageCopy(f) PROVE ArtifactsInv'
  <2>1. /\ pc = "copy" /\ f \in DOMAIN found /\ f \in todo /\ pc' = "package"
        /\ stage' = [stage EXCEPT ![f] = source[f]] /\ todo' = todo \ {f}
        /\ UNCHANGED <<source, hub, args, found, exit, raced>> /\ exit = "none"
        /\ args.tool = "package"
    BY <1>0, <1>3 DEF PackageCopy, ToolInv
  <2>2. /\ stage' = [g \in Files |-> stage'[g]] /\ stage'[f] = source[f]
        /\ \A g \in Files \ {f} : stage'[g] = stage[g]
    BY <1>0, <2>1 DEF ToolInv
  <2>3. ToolInv'
    BY <1>0, <2>1, <2>2 DEF ToolInv
  <2>4. StageInv'
    <3> SUFFICES ASSUME ~args.dryRun PROVE StageInv'
      BY <2>1 DEF StageInv
    <3>1. /\ DOMAIN found \subseteq Files
          /\ \A g, h \in DOMAIN found \cap todo : g = h
          /\ ~raced => \A g \in DOMAIN found :
               found[g] = source[g] /\ (g \notin todo => stage[g] = source[g])
      BY <1>0, <2>1 DEF StageInv
    <3>2. DOMAIN found' \cap todo' = {}
      BY <2>1, <3>1
    <3>3. ~raced' => \A g \in DOMAIN found' :
            found'[g] = source'[g] /\ (g \notin todo' => stage'[g] = source'[g])
      BY <2>1, <2>2, <3>1
    <3> QED BY <2>1, <3>1, <3>2, <3>3 DEF StageInv
  <2>5. (CompareInv /\ DeploySound /\ InventoryOfStage)'
    BY <2>1 DEF CompareInv, DeploySound, InventoryOfStage
  <2> QED BY <2>3, <2>4, <2>5 DEF ArtifactsInv
<1>4. CASE PackageEnd
  <2>1. /\ pc = "package" /\ todo = {} /\ args.tool = "package" /\ args \in Args
        /\ UNCHANGED <<source, stage, hub, args, raced>>
    BY <1>0, <1>4 DEF PackageEnd, ToolInv
  <2>2. CASE Exit("2")
    BY <2>1, <2>2, FailureKeeps
  <2>3. CASE ~Exit("2")
    <3>1. DOMAIN found = Files /\ Exit("0")
          /\ inventory' = IF args.dryRun THEN inventory ELSE found
      BY <1>4, <2>3 DEF PackageEnd
    <3>2. pc' = "idle" /\ found' = NoInventory /\ exit' = "0"
      BY <3>1 DEF Exit
    <3>3. ToolInv'
      BY <1>0, <2>1, <3>2, NoInventoryFacts DEF ToolInv
    <3>4. InventoryOfStage'
      <4> SUFFICES ASSUME ~args.dryRun, ~raced PROVE inventory' = stage'
        BY <2>1 DEF InventoryOfStage
      <4>1. \A f \in Files : found[f] = source[f] /\ stage[f] = source[f]
        BY <1>0, <2>1, <3>1 DEF StageInv
      <4>2. found = [f \in Files |-> found[f]] /\ stage = [f \in Files |-> stage[f]]
        BY <1>0, <3>1 DEF ToolInv
      <4>3. found = stage
        BY <4>1, <4>2
      <4> QED BY <2>1, <3>1, <4>3
    <3>5. (StageInv /\ CompareInv /\ DeploySound)'
      BY <2>1, <3>2 DEF StageInv, CompareInv, DeploySound
    <3> QED BY <3>3, <3>4, <3>5 DEF ArtifactsInv
  <2> QED BY <2>2, <2>3
<1> QED BY <1>1, <1>2, <1>3, <1>4

(* deploy_qwen3_artifacts.py --generate-checksums *)
LEMMA GenerateKeeps ==
  ASSUME ArtifactsInv,
         \/ GenerateStart \/ write_checksums \/ WriteDone
         \/ \E f \in Files : generate_sidecar(f)
  PROVE  ArtifactsInv'
<1>0. ToolInv /\ StageInv /\ CompareInv /\ DeploySound /\ InventoryOfStage
  BY DEF ArtifactsInv
<1>1. CASE GenerateStart
  <2>1. args' \in Args /\ args'.tool = "generate" /\ stage' = stage /\ hub' = hub
    BY <1>1 DEF GenerateStart, Args, NoArgs, Flags, trees
  <2>2. CASE Exit("4") \/ Exit("1")
    BY <2>1, <2>2, FailureKeeps
  <2>3. CASE pc' = "generate" /\ found' = NoInventory /\ exit' = "none"
    <3>1. ToolInv'
      BY <1>0, <2>1, <2>3, NoInventoryFacts DEF ToolInv
    <3>2. (StageInv /\ CompareInv /\ DeploySound /\ InventoryOfStage)'
      BY <2>3 DEF StageInv, CompareInv, DeploySound, InventoryOfStage
    <3> QED BY <3>1, <3>2 DEF ArtifactsInv
  <2> QED BY <1>1, <2>2, <2>3 DEF GenerateStart
<1>2. CASE write_checksums \/ \E f \in Files : generate_sidecar(f)
  <2>1. /\ pc' \in {"generate", "write"} /\ exit' = "none" /\ args' = args
        /\ args.tool = "generate" /\ stage' = stage /\ hub' = hub
        /\ found' = found \/ \E f \in Files : found' = With(found, f, root[f])
    BY <1>0, <1>2 DEF write_checksums, generate_sidecar, ToolInv, trees
  <2>2. found' = [k \in DOMAIN found' |-> found'[k]]
    <3>1. CASE found' = found
      BY <1>0, <3>1 DEF ToolInv
    <3>2. CASE \E f \in Files : found' = With(found, f, root[f])
      BY <3>2, WithIsFunction
    <3> QED BY <2>1, <3>1, <3>2
  <2>3. ToolInv'
    BY <1>0, <2>1, <2>2 DEF ToolInv
  <2>4. (StageInv /\ CompareInv /\ DeploySound /\ InventoryOfStage)'
    BY <2>1 DEF StageInv, CompareInv, DeploySound, InventoryOfStage
  <2> QED BY <2>3, <2>4 DEF ArtifactsInv
<1>3. CASE WriteDone
  <2>1. /\ pc' = "idle" /\ found' = NoInventory /\ args' = args /\ args.tool = "generate"
        /\ stage' = stage /\ hub' = hub
    BY <1>0, <1>3 DEF WriteDone, Exit, ToolInv
  <2>2. ToolInv'
    BY <1>0, <2>1, NoInventoryFacts DEF ToolInv
  <2>3. (StageInv /\ CompareInv /\ DeploySound /\ InventoryOfStage)'
    BY <2>1 DEF StageInv, CompareInv, DeploySound, InventoryOfStage
  <2> QED BY <2>2, <2>3 DEF ArtifactsInv
<1> QED BY <1>1, <1>2, <1>3

(* The files are there: a plain deploy is done, a checked one goes on. *)
LEMMA PresentKeeps ==
  ASSUME ArtifactsInv, Present, verify = {}, args' \in Args, args'.tool = "deploy",
         UNCHANGED trees
  PROVE  ArtifactsInv'
<1>0. ToolInv /\ stage' = stage /\ hub' = hub /\ root' = root /\ required' = required
  BY DEF ArtifactsInv, trees
<1>1. verify' = {}
  BY <1>0 DEF verify
<1>2. \/ args'.verify /\ pc' = "load" /\ found' = NoInventory /\ exit' = "none"
      \/ ~args'.verify /\ pc' = "idle" /\ found' = NoInventory /\ exit' = "0"
  BY DEF Present, Exit
<1>3. ToolInv'
  BY <1>0, <1>2, NoInventoryFacts DEF ToolInv
<1>4. StageInv' /\ CompareInv' /\ InventoryOfStage'
  BY <1>1, <1>2 DEF StageInv, CompareInv, InventoryOfStage
<1>5. DeploySound'
  BY <1>1, <1>2 DEF DeploySound
<1> QED BY <1>3, <1>4, <1>5 DEF ArtifactsInv

(* deploy_qwen3_artifacts.py, with and without --check-only and --verify-sha256 *)
LEMMA DeployerKeeps ==
  ASSUME ArtifactsInv,
         \/ DeployStart \/ DownloadRaises \/ Downloaded \/ LoadChecksums \/ VerifyEnd
         \/ \E f \in Files : snapshot_download(f) \/ verify_checksums(f)
  PROVE  ArtifactsInv'
<1>0. ToolInv /\ StageInv /\ CompareInv /\ DeploySound /\ InventoryOfStage /\ args \in Args
  BY DEF ArtifactsInv, ToolInv
<1>1. CASE DeployStart
  <2>1. args' \in Args /\ args'.tool = "deploy" /\ UNCHANGED trees
    BY <1>1 DEF DeployStart, Args, NoArgs, Flags
  <2>2. CASE verify = {}
    BY <1>1, <2>1, <2>2, PresentKeeps DEF DeployStart
  <2>3. CASE Exit("2")
    BY <2>1, <2>3, FailureKeeps DEF trees
  <2>4. CASE pc' = "download" /\ found' = hub /\ exit' = "none"
    <3>1. hub' = [f \in DOMAIN hub' |-> hub'[f]] /\ hub' = hub /\ stage' = stage
      BY <1>0, <2>1 DEF ToolInv, trees
    <3>2. ToolInv'
      BY <1>0, <2>1, <2>4, <3>1 DEF ToolInv
    <3>3. (StageInv /\ CompareInv /\ DeploySound /\ InventoryOfStage)'
      BY <2>4 DEF StageInv, CompareInv, DeploySound, InventoryOfStage
    <3> QED BY <3>2, <3>3 DEF ArtifactsInv
  <2> QED BY <1>1, <2>2, <2>3, <2>4 DEF DeployStart
<1>2. CASE DownloadRaises
  BY <1>0, <1>2, FailureKeeps DEF DownloadRaises, trees
<1>3. ASSUME NEW f \in Files, snapshot_download(f) PROVE ArtifactsInv'
  <2>1. /\ pc' = "download" /\ exit' = "none" /\ args' = args /\ found' = found
        /\ stage' = stage /\ hub' = hub /\ pc = "download"
    BY <1>0, <1>3 DEF snapshot_download, ToolInv
  <2>2. ToolInv'
    BY <1>0, <2>1 DEF ToolInv
  <2>3. (StageInv /\ CompareInv /\ DeploySound /\ InventoryOfStage)'
    BY <2>1 DEF StageInv, CompareInv, DeploySound, InventoryOfStage
  <2> QED BY <2>2, <2>3 DEF ArtifactsInv
<1>4. CASE Downloaded
  <2>1. args' = args /\ args.tool = "deploy" /\ UNCHANGED trees
    BY <1>0, <1>4 DEF Downloaded, ToolInv
  <2>2. CASE verify = {}
    BY <1>0, <1>4, <2>1, <2>2, PresentKeeps DEF Downloaded
  <2>3. CASE verify # {}
    BY <1>0, <1>4, <2>1, <2>3, FailureKeeps DEF Downloaded, trees
  <2> QED BY <2>2, <2>3
<1>5. CASE LoadChecksums
  <2>1. pc = "load" /\ args' = args /\ UNCHANGED trees /\ args.tool = "deploy" /\ verify = {}
    BY <1>0, <1>5 DEF LoadChecksums, ToolInv, CompareInv
  <2>2. CASE Unreadable
    BY <1>0, <1>5, <2>1, <2>2, FailureKeeps DEF LoadChecksums, trees
  <2>3. CASE ~Unreadable
    <3>1. /\ pc' = "verify" /\ todo' = required \cap DOMAIN sidecar.files
          /\ found' = NoInventory /\ exit' = "none"
      BY <1>5, <2>3 DEF LoadChecksums
    <3>2. /\ stage' = stage /\ hub' = hub /\ root' = root /\ required' = required
          /\ sidecar' = sidecar /\ sidecar.kind # "torn"
      BY <2>1, <2>3 DEF trees, Unreadable
    <3>3. ToolInv'
      BY <1>0, <2>1, <3>1, <3>2, NoInventoryFacts DEF ToolInv
    <3>4. CompareInv'
      BY <2>1, <3>1, <3>2 DEF CompareInv, verify
    <3>5. (StageInv /\ DeploySound /\ InventoryOfStage)'
      BY <3>1 DEF StageInv, DeploySound, InventoryOfStage
    <3> QED BY <3>3, <3>4, <3>5 DEF ArtifactsInv
  <2> QED BY <2>2, <2>3
<1>6. ASSUME NEW f \in Files, verify_checksums(f) PROVE ArtifactsInv'
  <2>1. /\ pc = "verify" /\ pc' = "verify" /\ exit' = "none" /\ args' = args
        /\ stage' = stage /\ hub' = hub /\ root' = root /\ required' = required
        /\ sidecar' = sidecar /\ todo' = todo \ {f} /\ args.tool = "deploy"
    BY <1>0, <1>6 DEF verify_checksums, ToolInv, trees
  <2>2. /\ found' = [k \in DOMAIN found' |-> found'[k]] /\ DOMAIN found \subseteq DOMAIN found'
        /\ root[f] = sidecar.files[f] \/ f \in DOMAIN found'
    <3>1. CASE root[f] = sidecar.files[f] /\ found' = found
      BY <1>0, <3>1 DEF ToolInv
    <3>2. CASE found' = With(found, f, root[f])
      <4>1. DOMAIN found' = DOMAIN found \cup {f}
        BY <3>2 DEF With
      <4>2. found' = [k \in DOMAIN found' |-> found'[k]]
        BY <3>2, WithIsFunction
      <4> QED BY <4>1, <4>2
    <3> QED BY <1>6, <3>1, <3>2 DEF verify_checksums
  <2>3. ToolInv'
    BY <1>0, <2>1, <2>2 DEF ToolInv
  <2>4. CompareInv'
    BY <1>0, <2>1, <2>2 DEF CompareInv, verify
  <2>5. (StageInv /\ DeploySound /\ InventoryOfStage)'
    BY <2>1 DEF StageInv, DeploySound, InventoryOfStage
  <2> QED BY <2>3, <2>4, <2>5 DEF ArtifactsInv
<1>7. CASE VerifyEnd
  <2>1. /\ pc = "verify" /\ todo = {} /\ args' = args /\ UNCHANGED trees
        /\ Exit(IF DOMAIN found = {} THEN "0" ELSE "5") /\ args.tool = "deploy"
    BY <1>0, <1>7 DEF VerifyEnd, ToolInv
  <2>2. CASE DOMAIN found # {}
    BY <1>0, <2>1, <2>2, FailureKeeps DEF trees
  <2>3. CASE DOMAIN found = {}
    <3>1. pc' = "idle" /\ found' = NoInventory /\ stage' = stage /\ hub' = hub
          /\ root' = root /\ required' = required /\ sidecar' = sidecar
      BY <2>1 DEF Exit, trees
    <3>2. ToolInv'
      BY <1>0, <2>1, <3>1, NoInventoryFacts DEF ToolInv
    <3>3. DeploySound'
      BY <1>0, <2>1, <2>3, <3>1 DEF DeploySound, CompareInv, verify
    <3>4. (StageInv /\ CompareInv /\ InventoryOfStage)'
      BY <2>1, <3>1 DEF StageInv, CompareInv, InventoryOfStage
    <3> QED BY <3>2, <3>3, <3>4 DEF ArtifactsInv
  <2> QED BY <2>2, <2>3
<1> QED BY <1>1, <1>2, <1>3, <1>4, <1>5, <1>6, <1>7

(* Builds, uploads, pulls, damage and kills between and under the tools. *)
LEMMA WorldKeeps ==
  ASSUME ArtifactsInv,
         Upload \/ Pull \/ Killed \/ \E f \in Files : Rebuild(f) \/ Damage(f)
  PROVE  ArtifactsInv'
<1>0. ToolInv /\ StageInv /\ CompareInv /\ DeploySound /\ InventoryOfStage /\ args \in Args
  BY DEF ArtifactsInv, ToolInv
<1>1. CASE Upload
  <2>1. /\ pc = "idle" /\ hub' = [f \in Files |-> hub'[f]]
        /\ UNCHANGED <<stage, inventory, root, required, sidecar, pc, args, todo, found, exit, raced>>
    BY <1>1 DEF Upload
  <2>2. ToolInv'
    BY <1>0, <2>1 DEF ToolInv
  <2>3. (StageInv /\ CompareInv /\ DeploySound /\ InventoryOfStage)'
    BY <1>0, <2>1 DEF StageInv, CompareInv, DeploySound, InventoryOfStage, verify
  <2> QED BY <2>2, <2>3 DEF ArtifactsInv
<1>2. CASE Pull \/ \E f \in Files : Damage(f)
  <2>1. pc = "idle" /\ exit' = "none" /\ UNCHANGED <<stage, hub, pc, args, found>>
    BY <1>2 DEF Pull, Damage
  <2>2. ToolInv'
    BY <1>0, <2>1 DEF ToolInv
  <2>3. (StageInv /\ CompareInv /\ DeploySound /\ InventoryOfStage)'
    BY <2>1 DEF StageInv, CompareInv, DeploySound, InventoryOfStage
  <2> QED BY <2>2, <2>3 DEF ArtifactsInv
<1>3. ASSUME NEW f \in Files, Rebuild(f) PROVE ArtifactsInv'
  <2>1. /\ raced' = (raced \/ pc \in {"package", "copy"})
        /\ UNCHANGED <<stage, inventory, hub, root, required, sidecar, pc, args, todo, found, exit>>
    BY <1>3 DEF Rebuild
  <2>2. ToolInv'
    BY <1>0, <2>1 DEF ToolInv
  <2>3. StageInv'
    BY <1>0, <2>1 DEF StageInv
  <2>4. (CompareInv /\ DeploySound)'
    BY <1>0, <2>1 DEF CompareInv, DeploySound, verify
  <2>5. InventoryOfStage'
    BY <1>0, <2>1 DEF InventoryOfStage
  <2> QED BY <2>2, <2>3, <2>4, <2>5 DEF ArtifactsInv
<1>4. CASE Killed
  BY <1>0, <1>4, FailureKeeps DEF Killed, trees
<1> QED BY <1>1, <1>2, <1>3, <1>4

(* The invariant of the trees, the tools and the world around them. *)
THEOREM ArtifactsInvariant == ArtifactsSpec => []ArtifactsInv
<1>1. ArtifactsInv /\ [ArtifactsNext]_artifactsVars => ArtifactsInv'
  <2> SUFFICES ASSUME ArtifactsInv, [ArtifactsNext]_artifactsVars PROVE ArtifactsInv'
    OBVIOUS
  <2>1. CASE UNCHANGED artifactsVars
    BY <2>1 DEF artifactsVars, ArtifactsInv, ToolInv, StageInv, CompareInv, DeploySound,
                InventoryOfStage, verify
  <2> QED BY <2>1, PackagerKeeps, GenerateKeeps, DeployerKeeps, WorldKeeps DEF ArtifactsNext
<1> QED BY <1>1, ArtifactsStart, PTL DEF ArtifactsSpec

(* A deploy that ends with 0 leaves no required file missing, and a verified *)
(* one none that differs from its entry, whatever was killed, damaged,       *)
(* pulled or half-written before (main and verify_checksums of the deployer).*)
THEOREM DeploysAreSound == ArtifactsSpec => []DeploySound
BY ArtifactsInvariant, PTL DEF ArtifactsInv

(* An undisturbed packager run that ends with 0 describes its stage exactly, *)
(* whatever the stage held before (main of the packager).                    *)
THEOREM InventoryMatchesStage == ArtifactsSpec => []InventoryOfStage
BY ArtifactsInvariant, PTL DEF ArtifactsInv

-----------------------------------------------------------------------------
(* EngineBundle: one run of build_engine_bundle.py after another             *)

(* The engines that are built on the device. *)
BuiltHere == Specs \ HfOnly

(* Types, and what a run that has not ended has not set yet. *)
BundleTypes ==
  /\ engine \in [Hosts -> [EngineFiles -> Nat]]
  /\ tar = [h \in Hosts |-> tar[h]]
  /\ built \in Nat \ {Gone} /\ host \in Hosts /\ left \subseteq Specs
  /\ bpc \in {"idle", "build", "pack", "tar", "describe"}
  /\ bpc # "idle" => bexit = "none"
  /\ bpc \in {"build", "pack", "tar"} => sums = << >>

(* All that travels with an anchor is there and of one build. *)
Whole(s) ==
  /\ engine[host][s] # Gone
  /\ \A f \in Travellers(s) : engine[host][f] = engine[host][s]

(* What the build has been through is whole, but for the files of one spec   *)
(* that its script has still to write.                                       *)
BuildInv ==
  bpc = "build" =>
    /\ ~skip_build
    /\ unwritten = {} \/ \E t \in Specs : unwritten \subseteq Travellers(t)
    /\ \A s \in BuiltHere \ left :
         IF Travellers(s) \cap unwritten = {} THEN Whole(s)
         ELSE \A f \in Travellers(s) \ unwritten : engine[host][f] = built

(* The run packs every engine, and whole ones if it built them. *)
PackInv ==
  bpc \in {"pack", "tar", "describe"} =>
    \A s \in BuiltHere : engine[host][s] # Gone /\ (~skip_build => Whole(s))

(* The bundle is written, and the files of the specs the run has been        *)
(* through are copied and entered.                                           *)
DescribeInv ==
  bpc = "describe" =>
    /\ tar[host].files = [f \in Packed |-> engine[host][f]]
    /\ DOMAIN sums = {f \in OnnxFiles : onnx[f] # Gone /\ \E s \in Specs \ left : f \in Onnx(s)}
    /\ \A f \in DOMAIN sums : sums[f] = onnx[f] /\ copied[f] = onnx[f]

(* The inductive invariant of the bundle. *)
BundleInv == BundleTypes /\ BuildInv /\ PackInv /\ DescribeInv /\ BundlePublished

(* The files of a spec are engine files. *)
LEMMA SpecFiles ==
  ASSUME NEW s \in Specs
  PROVE  /\ s \in EngineFiles /\ s \in Travellers(s)
         /\ Travellers(s) \subseteq EngineFiles /\ Onnx(s) \subseteq OnnxFiles
BY DEF EngineFiles, OnnxFiles, Travellers

(* What travels with one anchor does not travel with another. *)
LEMMA TravelAlone ==
  ASSUME NEW s \in Specs, NEW t \in Specs, s # t
  PROVE  Travellers(s) \cap Travellers(t) = {}
BY CompanionsUndeclared DEF Travellers

(* Nothing is built or published at first. *)
LEMMA BundleStarts == BundleInit => BundleInv
<1> SUFFICES ASSUME BundleInit PROVE BundleInv
  OBVIOUS
<1>1. BundleTypes
  BY DEF BundleInit, BundleTypes, Gone
<1>2. BuildInv /\ PackInv /\ DescribeInv /\ BundlePublished
  BY DEF BundleInit, BuildInv, PackInv, DescribeInv, BundlePublished
<1> QED BY <1>1, <1>2 DEF BundleInv

(* A run that ends without a result leaves the files to the next one. *)
LEMMA StopKeeps ==
  ASSUME BundleInv, NEW how, Stop(how), how # "ok", host' \in Hosts, UNCHANGED <<engine, built, tar>>
  PROVE  BundleInv'
<1>1. bpc' = "idle" /\ bexit' # "ok" /\ left' = {} /\ sums' = << >>
  BY DEF Stop
<1>2. BundleTypes'
  BY <1>1 DEF BundleInv, BundleTypes
<1>3. (BuildInv /\ PackInv /\ DescribeInv /\ BundlePublished)'
  BY <1>1 DEF BuildInv, PackInv, DescribeInv, BundlePublished
<1> QED BY <1>2, <1>3 DEF BundleInv

(* One engine is passed over, or its anchor is removed and its script starts. *)
LEMMA CompileKeeps ==
  ASSUME BundleInv, NEW s \in Specs, compileOne(s)
  PROVE  BundleInv'
<1>0. /\ BundleTypes /\ BuildInv /\ bpc = "build" /\ s \in left /\ unwritten = {} /\ left' = left \ {s}
      /\ engine \in [Hosts -> [EngineFiles -> Nat]] /\ host \in Hosts /\ built \in Nat /\ bexit = "none"
      /\ UNCHANGED <<tar, bpc, host, skip_build, sums, bexit>>
  BY DEF BundleInv, BundleTypes, compileOne
<1>1. (PackInv /\ DescribeInv /\ BundlePublished)'
  BY <1>0 DEF PackInv, DescribeInv, BundlePublished
<1>2. \A t \in BuiltHere \ left : Whole(t)
  BY <1>0 DEF BuildInv
<1>3. CASE s \in HfOnly /\ UNCHANGED <<engine, built, unwritten>>
  <2>1. BundleTypes'
    BY <1>0, <1>3 DEF BundleTypes
  <2>2. BuildInv'
    BY <1>0, <1>2, <1>3 DEF BuildInv, BuiltHere, Whole
  <2> QED BY <1>1, <2>1, <2>2 DEF BundleInv
<1>4. CASE /\ s \notin HfOnly /\ built' = built + 1
           /\ engine' = [engine EXCEPT ![host] = [@ EXCEPT ![s] = Gone]]
           /\ unwritten' = Travellers(s)
  <2>1. /\ engine' \in [Hosts -> [EngineFiles -> Nat]]
        /\ \A f \in EngineFiles \ {s} : engine'[host][f] = engine[host][f]
    BY <1>0, <1>4, SpecFiles DEF Gone
  <2>2. BundleTypes'
    BY <1>0, <1>4, <2>1 DEF BundleTypes, Gone
  <2>3. ASSUME NEW t \in BuiltHere \ left'
        PROVE  (IF Travellers(t) \cap unwritten = {} THEN Whole(t)
                ELSE \A f \in Travellers(t) \ unwritten : engine[host][f] = built)'
    <3>1. CASE t = s
      <4>1. Travellers(t) \cap unwritten' # {} /\ Travellers(t) \ unwritten' = {}
        BY <1>4, <3>1, SpecFiles
      <4> QED BY <4>1 DEF Travellers
    <3>2. CASE t # s
      <4>1. t \in Specs /\ t \in BuiltHere \ left
        BY <1>0, <3>2 DEF BuiltHere
      <4>2. Travellers(t) \cap Travellers(s) = {} /\ s \notin Travellers(t)
        BY <3>2, <4>1, TravelAlone, SpecFiles
      <4>3. \A f \in Travellers(t) : engine'[host'][f] = engine[host][f]
        BY <1>0, <2>1, <4>1, <4>2, SpecFiles
      <4>4. Whole(t)'
        BY <1>2, <4>1, <4>3, SpecFiles DEF Whole, Travellers
      <4> QED BY <1>4, <4>2, <4>4 DEF Travellers
    <3> QED BY <3>1, <3>2
  <2>4. BuildInv'
    BY <1>0, <1>4, <2>3 DEF BuildInv, Travellers
  <2> QED BY <1>1, <2>2, <2>4 DEF BundleInv
<1> QED BY <1>3, <1>4 DEF compileOne

(* The build script writes a file. *)
LEMMA WriteKeeps ==
  ASSUME BundleInv, NEW f \in EngineFiles, writeEngine(f)
  PROVE  BundleInv'
<1>0. /\ BundleTypes /\ BuildInv /\ bpc = "build" /\ f \in unwritten
      /\ engine \in [Hosts -> [EngineFiles -> Nat]] /\ host \in Hosts /\ built \in Nat \ {Gone}
      /\ bexit = "none"
      /\ engine' = [engine EXCEPT ![host] = [@ EXCEPT ![f] = built]]
      /\ unwritten' = unwritten \ {f}
      /\ UNCHANGED <<built, tar, bpc, host, skip_build, left, sums, bexit>>
  BY DEF BundleInv, BundleTypes, writeEngine
<1>1. (PackInv /\ DescribeInv /\ BundlePublished)'
  BY <1>0 DEF PackInv, DescribeInv, BundlePublished
<1>2. /\ engine' \in [Hosts -> [EngineFiles -> Nat]] /\ engine'[host][f] = built
      /\ \A g \in EngineFiles \ {f} : engine'[host][g] = engine[host][g]
  BY <1>0
<1>3. BundleTypes'
  BY <1>0, <1>2 DEF BundleTypes
<1>4. PICK t \in Specs : unwritten \subseteq Travellers(t)
  BY <1>0 DEF BuildInv
<1>5. ASSUME NEW s \in BuiltHere \ left
      PROVE  (IF Travellers(s) \cap unwritten = {} THEN Whole(s)
              ELSE \A g \in Travellers(s) \ unwritten : engine[host][g] = built)'
  <2>0. s \in Specs /\ s \in Travellers(s) /\ Travellers(s) \subseteq EngineFiles
    BY SpecFiles DEF BuiltHere
  <2>1. CASE s = t
    <3>1. \A g \in Travellers(s) \ unwritten : engine[host][g] = built
      BY <1>0, <1>4, <2>1 DEF BuildInv
    <3>2. \A g \in Travellers(s) \ unwritten' : engine'[host'][g] = built'
      BY <1>0, <1>2, <2>0, <3>1
    <3>3. CASE Travellers(s) \cap unwritten' = {}
      <4>1. \A g \in Travellers(s) : engine'[host'][g] = built'
        BY <3>2, <3>3
      <4>2. Whole(s)'
        BY <1>0, <2>0, <4>1 DEF Whole, Travellers
      <4> QED BY <3>3, <4>2 DEF Travellers
    <3>4. CASE Travellers(s) \cap unwritten' # {}
      BY <3>2, <3>4 DEF Travellers
    <3> QED BY <3>3, <3>4
  <2>2. CASE s # t
    <3>1. Travellers(s) \cap unwritten = {} /\ f \notin Travellers(s)
      BY <1>0, <1>4, <2>0, <2>2, TravelAlone
    <3>2. Whole(s)
      BY <1>0, <3>1 DEF BuildInv
    <3>3. \A g \in Travellers(s) : engine'[host'][g] = engine[host][g]
      BY <1>0, <1>2, <2>0, <3>1
    <3>4. Whole(s)'
      BY <2>0, <3>2, <3>3 DEF Whole, Travellers
    <3>5. Travellers(s) \cap unwritten' = {}
      BY <1>0, <3>1
    <3> QED BY <3>4, <3>5 DEF Travellers
  <2> QED BY <2>1, <2>2
<1>6. unwritten' \subseteq Travellers(t)
  BY <1>0, <1>4
<1>7. BuildInv'
  BY <1>0, <1>5, <1>6 DEF BuildInv, Travellers
<1> QED BY <1>1, <1>3, <1>7 DEF BundleInv

(* A run starts, with or without a build. *)
LEMMA StartKeeps ==
  ASSUME BundleInv, BundleStart
  PROVE  BundleInv'
<1>0. BundleTypes /\ UNCHANGED <<engine, onnx, built, tar, copied, manifest>>
  BY DEF BundleInv, BundleStart, files
<1>1. PICK h \in Hosts, skip \in BOOLEAN :
        /\ host' = h /\ skip_build' = skip
        /\ IF ~skip THEN bpc' = "build" /\ left' = Specs /\ unwritten' = {} /\ sums' = << >> /\ bexit' = "none"
           ELSE IF \E s \in Specs \ HfOnly : engine[h][s] = Gone THEN Stop("raised")
           ELSE bpc' = "pack" /\ left' = {} /\ unwritten' = {} /\ sums' = << >> /\ bexit' = "none"
  BY DEF BundleStart
<1>2. CASE Stop("raised")
  BY <1>0, <1>1, <1>2, StopKeeps DEF BundleTypes
<1>3. CASE ~Stop("raised")
  <2>1. /\ host' = h /\ sums' = << >> /\ bexit' = "none" /\ left' \subseteq Specs /\ unwritten' = {}
        /\ \/ bpc' = "build" /\ left' = Specs /\ ~skip_build'
           \/ bpc' = "pack" /\ skip_build' /\ \A s \in BuiltHere : engine[h][s] # Gone
    BY <1>1, <1>3 DEF BuiltHere
  <2>2. BundleTypes'
    BY <1>0, <2>1 DEF BundleTypes
  <2>3. BuiltHere \ Specs = {}
    BY DEF BuiltHere
  <2>4. BuildInv'
    BY <2>1, <2>3 DEF BuildInv
  <2>5. PackInv'
    BY <1>0, <2>1 DEF PackInv
  <2>6. DescribeInv' /\ BundlePublished'
    BY <2>1 DEF DescribeInv, BundlePublished
  <2> QED BY <2>2, <2>4, <2>5, <2>6 DEF BundleInv
<1> QED BY <1>2, <1>3

(* The bundle is replaced. *)
LEMMA PackKeeps ==
  ASSUME BundleInv, BuildEnd \/ UnlinkBundle \/ PackBundle
  PROVE  BundleInv'
<1>0. /\ BundleTypes /\ BuildInv /\ PackInv /\ host \in Hosts
      /\ UNCHANGED <<engine, onnx, built, copied, manifest, host, skip_build, unwritten, sums, bexit>>
      /\ bexit = "none"
  BY DEF BundleInv, BundleTypes, BuildEnd, UnlinkBundle, PackBundle, files
<1>1. \A s \in Specs : Whole(s)' = Whole(s)
  BY <1>0 DEF Whole, Travellers
<1>2. BundlePublished'
  BY <1>0 DEF BundlePublished
<1>3. CASE BuildEnd
  <2>1. bpc = "build" /\ left = {} /\ unwritten = {} /\ bpc' = "pack" /\ left' = left /\ tar' = tar
    BY <1>3 DEF BuildEnd, files
  <2>2. BundleTypes' /\ BuildInv' /\ DescribeInv'
    BY <1>0, <2>1 DEF BundleTypes, BuildInv, DescribeInv
  <2>3. \A s \in BuiltHere : s \in Specs /\ Whole(s)
    BY <1>0, <2>1 DEF BuildInv, BuiltHere
  <2>4. PackInv'
    BY <1>0, <1>1, <2>3 DEF PackInv, Whole
  <2> QED BY <1>2, <2>2, <2>4 DEF BundleInv
<1>4. CASE UnlinkBundle
  <2>1. /\ bpc = "pack" /\ bpc' = "tar" /\ left' = left
        /\ tar' = [tar EXCEPT ![host] = [kind |-> "part", files |-> << >>]]
    BY <1>4 DEF UnlinkBundle
  <2>2. tar' = [h \in Hosts |-> tar'[h]]
    BY <1>0, <2>1 DEF BundleTypes
  <2>3. BundleTypes' /\ BuildInv' /\ DescribeInv'
    BY <1>0, <2>1, <2>2 DEF BundleTypes, BuildInv, DescribeInv
  <2>4. PackInv'
    BY <1>0, <1>1, <2>1 DEF PackInv, BuiltHere
  <2> QED BY <1>2, <2>3, <2>4 DEF BundleInv
<1>5. CASE PackBundle
  <2> DEFINE packed == [f \in Packed |-> engine[host][f]]
  <2>1. /\ bpc = "tar" /\ bpc' = "describe" /\ left' = Specs
        /\ tar' = [tar EXCEPT ![host] = [kind |-> "ok", files |-> packed]]
    BY <1>5 DEF PackBundle
  <2>2. Packed' = Packed
    BY <1>0 DEF Packed, bundleEnginePaths, Travellers
  <2>3. packed = [f \in Packed' |-> engine'[host'][f]]
    BY <1>0, <2>2
  <2> HIDE DEF packed
  <2>4. tar' = [h \in Hosts |-> tar'[h]] /\ tar'[host'].files = packed
    BY <1>0, <2>1 DEF BundleTypes
  <2>5. BundleTypes' /\ BuildInv'
    BY <1>0, <2>1, <2>4 DEF BundleTypes, BuildInv
  <2>6. PackInv'
    BY <1>0, <1>1, <2>1 DEF PackInv, BuiltHere
  <2>7. DOMAIN sums' = {}
    BY <1>0, <2>1 DEF BundleTypes
  <2>8. DescribeInv'
    BY <2>1, <2>3, <2>4, <2>7 DEF DescribeInv
  <2> QED BY <1>2, <2>5, <2>6, <2>8 DEF BundleInv
<1> QED BY <1>3, <1>4, <1>5

(* The inputs of a spec are copied and entered. *)
LEMMA DescribeKeeps ==
  ASSUME BundleInv, NEW s \in Specs, CopyManifestFiles(s)
  PROVE  BundleInv'
<1> DEFINE Here == bundleOnnxPaths(s)
<1>0. /\ BundleTypes /\ BuildInv /\ PackInv /\ DescribeInv /\ host \in Hosts
      /\ UNCHANGED <<engine, onnx, built, tar, manifest, bpc, host, skip_build, unwritten, bexit>>
      /\ bpc = "describe" /\ bexit = "none" /\ s \in left /\ left' = left \ {s}
  BY DEF BundleInv, BundleTypes, CopyManifestFiles
<1>1. /\ copied' = [f \in OnnxFiles |-> IF f \in Here THEN onnx[f] ELSE copied[f]]
      /\ sums' = [f \in DOMAIN sums \cup Here |-> IF f \in Here THEN onnx[f] ELSE sums[f]]
  BY DEF CopyManifestFiles
<1>2. Here = {f \in OnnxFiles : f \in Onnx(s) /\ onnx[f] # Gone}
  BY SpecFiles DEF bundleOnnxPaths
<1> HIDE DEF Here
<1>3. /\ DOMAIN sums = {f \in OnnxFiles : onnx[f] # Gone /\ \E t \in Specs \ left : f \in Onnx(t)}
      /\ \A f \in DOMAIN sums : sums[f] = onnx[f] /\ copied[f] = onnx[f]
      /\ tar[host].files = [f \in Packed |-> engine[host][f]]
  BY <1>0 DEF DescribeInv
<1>4. DOMAIN sums' = {f \in OnnxFiles : onnx[f] # Gone /\ \E t \in Specs \ left' : f \in Onnx(t)}
  <2>1. DOMAIN sums' = DOMAIN sums \cup Here
    BY <1>1
  <2> QED BY <1>0, <1>2, <1>3, <2>1
<1>5. \A f \in DOMAIN sums' : sums'[f] = onnx[f] /\ copied'[f] = onnx[f]
  <2>1. \A f \in DOMAIN sums \cup Here : f \in OnnxFiles
    BY <1>2, <1>3
  <2> QED BY <1>1, <1>3, <2>1
<1>6. Packed' = Packed
  BY <1>0 DEF Packed, bundleEnginePaths, Travellers
<1>7. DescribeInv'
  BY <1>0, <1>3, <1>4, <1>5, <1>6 DEF DescribeInv
<1>8. BundleTypes' /\ BuildInv' /\ BundlePublished'
  BY <1>0 DEF BundleTypes, BuildInv, BundlePublished
<1>9. PackInv'
  BY <1>0 DEF PackInv, Whole, Travellers
<1> QED BY <1>7, <1>8, <1>9 DEF BundleInv

(* The manifest closes a run: everything it stands for is in place. *)
LEMMA ManifestKeeps ==
  ASSUME BundleInv, WriteManifest
  PROVE  BundleInv'
<1>0. /\ BundleTypes /\ BuildInv /\ PackInv /\ DescribeInv /\ host \in Hosts
      /\ UNCHANGED <<engine, onnx, built, tar, copied, host, skip_build>>
      /\ bpc = "describe" /\ left = {}
      /\ manifest' = [kind |-> "ok", host |-> host, tar |-> tar[host].files, files |-> sums]
      /\ bpc' = "idle" /\ bexit' = "ok" /\ left' = {} /\ sums' = << >>
  BY DEF BundleInv, BundleTypes, WriteManifest, Stop
<1>1. BundleTypes' /\ BuildInv' /\ PackInv' /\ DescribeInv'
  BY <1>0 DEF BundleTypes, BuildInv, PackInv, DescribeInv
<1>2. /\ tar[host].files = [f \in Packed |-> engine[host][f]]
      /\ DOMAIN sums = {f \in OnnxFiles : onnx[f] # Gone /\ \E s \in Specs \ left : f \in Onnx(s)}
      /\ \A f \in DOMAIN sums : sums[f] = onnx[f] /\ copied[f] = onnx[f]
  BY <1>0 DEF DescribeInv
<1>3. DOMAIN tar[host].files = Packed
      /\ \A f \in Packed : tar[host].files[f] = engine[host][f]
  BY <1>2
<1>4. \A s \in BuiltHere : s \in Specs /\ engine[host][s] # Gone /\ s \in Packed
  BY <1>0 DEF PackInv, Packed, bundleEnginePaths, BuiltHere, Travellers
<1>5. ~skip_build => \A s \in BuiltHere : \A f \in Travellers(s) :
        f \in Packed /\ engine[host][f] = engine[host][s]
  <2> SUFFICES ASSUME ~skip_build, NEW s \in BuiltHere, NEW f \in Travellers(s)
               PROVE  f \in Packed /\ engine[host][f] = engine[host][s]
    OBVIOUS
  <2>1. engine[host][f] = engine[host][s] /\ engine[host][s] # Gone
    BY <1>0 DEF PackInv, Whole
  <2>2. f \in bundleEnginePaths(s)
    BY <2>1 DEF bundleEnginePaths
  <2> QED BY <2>1, <2>2, <1>4 DEF Packed, BuiltHere
<1>6. DOMAIN sums = {f \in OnnxFiles : onnx[f] # Gone}
  BY <1>0, <1>2 DEF OnnxFiles
<1>7. /\ manifest'.host = host' /\ manifest'.tar = tar'[host'].files /\ manifest'.files = sums
  BY <1>0
<1>8. \A s \in Specs \ HfOnly, f \in EngineFiles :
        ~skip_build /\ f \in Travellers(s) =>
          f \in DOMAIN tar[host].files /\ tar[host].files[f] = tar[host].files[s]
  BY <1>3, <1>4, <1>5 DEF BuiltHere
<1>9. BundlePublished'
  <2>1. Specs \ HfOnly \subseteq DOMAIN tar[host].files
    BY <1>3, <1>4 DEF BuiltHere
  <2>2. \A f \in DOMAIN sums : sums[f] = copied[f]
    BY <1>2
  <2>3. \A f \in DOMAIN tar[host].files : tar[host].files[f] = engine[host][f]
    BY <1>3
  <2> QED BY <1>0, <1>6, <1>7, <1>8, <2>1, <2>2, <2>3 DEF BundlePublished, Travellers
<1> QED BY <1>1, <1>9 DEF BundleInv

(* The invariant of the bundles, over any number of runs on any hosts. *)
THEOREM BundleInvariant == BundleSpec => []BundleInv
<1>1. BundleInv /\ [BundleNext]_bundleVars => BundleInv'
  <2> SUFFICES ASSUME BundleInv, [BundleNext]_bundleVars PROVE BundleInv'
    OBVIOUS
  <2>0. BundleTypes
    BY DEF BundleInv
  <2>1. CASE UNCHANGED bundleVars
    <3>1. Packed' = Packed
      BY <2>1 DEF bundleVars, Packed, bundleEnginePaths, Travellers
    <3>2. BundleTypes' /\ BuildInv' /\ PackInv'
      BY <2>1 DEF bundleVars, BundleInv, BundleTypes, BuildInv, PackInv, Whole, Travellers
    <3>3. DescribeInv' /\ BundlePublished'
      BY <2>1, <3>1 DEF bundleVars, BundleInv, DescribeInv, BundlePublished, Travellers
    <3> QED BY <3>2, <3>3 DEF BundleInv
  <2>2. CASE buildFails \/ BundleKilled
    <3>1. PICK how \in {"raised", "killed"} : Stop(how) /\ UNCHANGED <<engine, built, tar, host>>
      BY <2>2 DEF buildFails, BundleKilled, files
    <3> QED BY <2>0, <3>1, StopKeeps DEF BundleTypes
  <2>3. ASSUME NEW f \in OnnxFiles, Export(f) PROVE BundleInv'
    <3>1. /\ bpc = "idle" /\ built' = built + 1 /\ bexit' = "none"
          /\ UNCHANGED <<engine, tar, copied, manifest, bpc, host, skip_build, left, unwritten, sums>>
      BY <2>3 DEF Export
    <3>2. BundleTypes'
      BY <2>0, <3>1 DEF BundleTypes, Gone
    <3>3. BuildInv' /\ PackInv' /\ DescribeInv' /\ BundlePublished'
      BY <3>1 DEF BuildInv, PackInv, DescribeInv, BundlePublished
    <3> QED BY <3>2, <3>3 DEF BundleInv
  <2>4. ASSUME NEW f \in EngineFiles, writeEngine(f) PROVE BundleInv'
    BY <2>4, WriteKeeps
  <2> QED BY <2>1, <2>2, <2>3, <2>4, StartKeeps, CompileKeeps, PackKeeps, DescribeKeeps, ManifestKeeps
          DEF BundleNext
<1> QED BY <1>1, BundleStarts, PTL DEF BundleSpec

(* A run that ends well publishes a manifest that is true of the bundle, the *)
(* copies and this host's engines, and one that built the engines a bundle   *)
(* of whole builds, whatever failed, was killed midway through a build       *)
(* script, or was published by other devices before (_bundle_per_model).     *)
THEOREM PublishedIsTrue == BundleSpec => []BundlePublished
BY BundleInvariant, PTL DEF BundleInv

-----------------------------------------------------------------------------
(* The round trips                                                           *)

(* Where a gate can be. *)
GateSteps == {"idle", "health", "tts", "copy", "asr", "report", "warmup", "trial"}

(* A running gate has no exit code; what it keeps per case is a function of  *)
(* the cases.                                                                *)
GateTypes ==
  /\ gate \in {"none", "http", "qwen3", "bench"} /\ gpc \in GateSteps
  /\ run \in Nat /\ case \in Cases
  /\ heard = [c \in Cases |-> heard[c]]
  /\ wav = [c \in Cases |-> wav[c]] /\ box = [c \in Cases |-> box[c]]
  /\ status \in {"PASS", "FAIL"}
  /\ report = [p \in Programs |-> report[p]]
  /\ gpc # "idle" => gexit = "none"
  /\ gpc = "report" => gate \in Programs
  /\ gpc \in {"health", "tts", "copy", "asr"} => gate \in Programs
  /\ gpc \in {"warmup", "trial"} => gate = "bench"

(* The case was heard in this run, from this run's audio, and well enough.    *)
Heard(c) == heard[c].audio = run /\ Similar(c, heard[c].text)

(* Between synthesis and transcription of a case its audio is this run's; as  *)
(* long as the status is PASS every case behind the loop was heard.           *)
JudgeInv ==
  /\ gate = "http" /\ gpc = "asr" => wav[case] = run
  /\ gate = "qwen3" /\ gpc = "copy" => wav[case] = run
  /\ gate = "qwen3" /\ gpc = "asr" => box[case] = run
  /\ gate \in Programs /\ gpc # "idle" /\ status = "PASS" =>
       /\ \A c \in Cases : c < case => Heard(c)
       /\ gpc = "report" => \A c \in Cases : Heard(c)

(* No report on disk is of a later run, and the running gate has not written  *)
(* its own.                                                                   *)
ReportInv ==
  \A p \in Programs :
    /\ report[p].run \in Nat /\ report[p].run <= run
    /\ gpc # "idle" => report[p].run < run
    /\ report[p].run = run /\ gpc = "idle" => (report[p].status = "PASS" <=> gexit = "0")

(* What a trial can give. *)
Kinds == {"audio", "header", "failed"}

(* The benchmark's lists are as long as its trials, and a value is a NaN       *)
(* exactly where the trial had none.                                           *)
ListsInv ==
  /\ trials \in Seq(Kinds) /\ lists.ttft \in Seq({"ms", "nan"}) /\ lists.rtf \in Seq({"x", "nan"})
  /\ Len(lists.ttft) = Len(trials) /\ Len(lists.rtf) = Len(trials)
  /\ \A i \in 1..Len(trials) :
       /\ lists.ttft[i] # "nan" <=> trials[i] # "failed"
       /\ lists.rtf[i] # "nan" <=> trials[i] = "audio"

(* The inductive invariant of the gates. *)
GatesInv == GateTypes /\ JudgeInv /\ GateSound /\ ReportInv /\ ListsInv

(* Nothing has run at first. *)
LEMMA GatesStart == GatesInit => GatesInv
<1> SUFFICES ASSUME GatesInit PROVE GatesInv
    OBVIOUS
<1>1. GateTypes /\ JudgeInv /\ GateSound
  BY GatesAssumption DEF GatesInit, GateTypes, GateSteps, JudgeInv, GateSound, Cases, Programs
<1>2. ReportInv
  BY DEF GatesInit, ReportInv, NoReport
<1>3. ListsInv
  BY DEF GatesInit, ListsInv
<1> QED BY <1>1, <1>2, <1>3 DEF GatesInv

(* The types are kept: every handler changes few of the variables. *)
LEMMA GateTypesKept == GateTypes /\ [GatesNext]_gateVars => GateTypes'
<1> SUFFICES ASSUME GateTypes, [GatesNext]_gateVars PROVE GateTypes'
    OBVIOUS
<1> USE GatesAssumption DEF GateTypes, GateSteps, Programs, Cases
<1>1. ASSUME NEW p \in Programs \cup {"bench"}, GateStart(p) PROVE GateTypes'
  BY <1>1 DEF GateStart
<1>2. CASE HttpRaise \/ HttpHealthy \/ HttpTts
  BY <1>2 DEF HttpRaise, HttpHealthy, HttpTts, GateExit, judged
<1>3. CASE HttpAsr
  <2> PICK text \in Texts :
         /\ heard' = [heard EXCEPT ![case] = [audio |-> wav[case], text |-> text]]
         /\ status' = IF HttpPassed(case, text) THEN status ELSE "FAIL"
    BY <1>3, Zenon DEF HttpAsr
  <2>1. gpc = "asr" /\ NextCase("tts") /\ UNCHANGED <<gate, run, wav, box, report, gexit>>
    BY <1>3, Zenon DEF HttpAsr
  <2>2. heard' = [c \in Cases |-> heard'[c]]
    OBVIOUS
  <2>3. status' \in {"PASS", "FAIL"}
    OBVIOUS
  <2>4. gpc' \in {"tts", "report"} /\ case' \in 1..NCases
    BY <2>1 DEF NextCase
  <2> QED BY <2>1, <2>2, <2>3, <2>4
<1>4. CASE HttpEnd
  BY <1>4 DEF HttpEnd, WriteReport, GateExit, judged
<1>5. CASE QwenRaise
  BY <1>5 DEF QwenRaise, NextCase
<1>6. CASE synthesize \/ dockerCp
  BY <1>6 DEF synthesize, dockerCp
<1>7. ASSUME NEW a, Transcribed(a), gpc \in {"copy", "asr"} PROVE GateTypes'
  <2> PICK text \in Texts :
         /\ heard' = [heard EXCEPT ![case] = [audio |-> a, text |-> text]]
         /\ status' = IF Similar(case, text) THEN status ELSE "FAIL"
    BY <1>7, Zenon DEF Transcribed
  <2>1. NextCase("tts") /\ UNCHANGED <<gate, run, wav, box, report, gexit>>
    BY <1>7, Zenon DEF Transcribed
  <2>2. heard' = [c \in Cases |-> heard'[c]]
    OBVIOUS
  <2>3. status' \in {"PASS", "FAIL"}
    OBVIOUS
  <2>4. gpc' \in {"tts", "report"} /\ case' \in 1..NCases
    BY <2>1 DEF NextCase
  <2> QED BY <1>7, <2>1, <2>2, <2>3, <2>4
<1>8. CASE asr_with_paraformer_container
  BY <1>7, <1>8 DEF asr_with_paraformer_container
<1>9. CASE asr_with_product_qwen3
  BY <1>7, <1>9 DEF asr_with_product_qwen3
<1>10. CASE QwenEnd
  BY <1>10 DEF QwenEnd, WriteReport, GateExit, judged
<1>11. CASE BenchWarmup \/ BenchTrial \/ BenchText
  BY <1>11 DEF BenchWarmup, BenchTrial, BenchText, GateExit, judged
<1>12. CASE GateKilled
  BY <1>12 DEF GateKilled, GateExit, judged
<1>13. CASE UNCHANGED gateVars
  BY <1>13 DEF gateVars
<1> QED BY <1>1, <1>2, <1>3, <1>4, <1>5, <1>6, <1>8, <1>9, <1>10, <1>11, <1>12, <1>13 DEF GatesNext

(* When a transcription keeps the status, the case just heard joins the ones   *)
(* behind the loop; when it was the last one, all have been heard.             *)
LEMMA HeardGrows ==
  ASSUME GateTypes, NEW text, NEW audio, NEW from, from \in {"tts"},
         gate \in Programs, gate' = gate, run' = run, gpc # "idle",
         gate \in Programs /\ gpc # "idle" /\ status = "PASS" => \A c \in Cases : c < case => Heard(c),
         heard' = [heard EXCEPT ![case] = [audio |-> audio, text |-> text]],
         audio = run,
         status' \in {status, "FAIL"}, status' = status => (Similar(case, text) \/ status = "FAIL"),
         NextCase(from)
  PROVE  status' = "PASS" =>
           /\ \A c \in Cases : c < case' => Heard(c)'
           /\ gpc' = "report" => \A c \in Cases : Heard(c)'
<1> SUFFICES ASSUME status' = "PASS"
             PROVE  /\ \A c \in Cases : c < case' => Heard(c)'
                    /\ gpc' = "report" => \A c \in Cases : Heard(c)'
    OBVIOUS
<1>1. status = "PASS" /\ Similar(case, text)
  BY DEF GateTypes
<1>2. \A c \in Cases : c < case => Heard(c)
  BY <1>1
<1>3. \A c \in Cases : c <= case => Heard(c)'
  <2> SUFFICES ASSUME NEW c \in Cases, c <= case PROVE Heard(c)'
      OBVIOUS
  <2>1. CASE c = case
    BY <1>1, <2>1 DEF Heard, Similar, GateTypes
  <2>2. CASE c # case
    <3>1. c < case
      BY <2>2, GatesAssumption DEF GateTypes, Cases
    <3>2. heard'[c] = heard[c]
      BY <2>2 DEF GateTypes
    <3> QED BY <1>2, <3>1, <3>2 DEF Heard, Similar
  <2> QED BY <2>1, <2>2
<1>4. CASE case = NCases
  <2>1. gpc' = "report" /\ case' = case
    BY <1>4 DEF NextCase
  <2>2. \A c \in Cases : c <= case
    BY <1>4, GatesAssumption DEF Cases
  <2>3. \A c \in Cases : c < case' => Heard(c)'
    BY <1>3, <2>1, <2>2
  <2> QED BY <1>3, <2>2, <2>3
<1>5. CASE case # NCases
  <2>1. gpc' # "report" /\ case' = case + 1
    BY <1>5 DEF NextCase
  <2>2. \A c \in Cases : c < case' => c <= case
    BY <2>1, GatesAssumption DEF Cases, GateTypes
  <2> QED BY <1>3, <2>1, <2>2
<1> QED BY <1>4, <1>5

(* What is heard and judged stays so while neither it nor the run changes. *)
LEMMA HeardStays ==
  ASSUME UNCHANGED <<heard, run>> PROVE \A c : Heard(c)' <=> Heard(c)
BY DEF Heard, Similar

(* The judgement is kept: only audio of this run is transcribed, and a case     *)
(* that raises or is not understood makes the status FAIL.                      *)
LEMMA JudgeKept == GateTypes /\ JudgeInv /\ GateSound /\ [GatesNext]_gateVars => JudgeInv' /\ GateSound'
<1> SUFFICES ASSUME GateTypes, JudgeInv, GateSound, [GatesNext]_gateVars
             PROVE  JudgeInv' /\ GateSound'
    OBVIOUS
<1> DEFINE Behind == \A c \in Cases : c < case => Heard(c)
           Done == \A c \in Cases : Heard(c)
<1>0. /\ gate \in Programs /\ gpc # "idle" /\ status = "PASS" => Behind /\ (gpc = "report" => Done)
      /\ gexit = "0" /\ gate \in Programs => Done
  BY DEF JudgeInv, GateSound, Heard, Programs
<1>a. ASSUME
        /\ gate' = "http" /\ gpc' = "asr" => wav'[case'] = run'
        /\ gate' = "qwen3" /\ gpc' = "copy" => wav'[case'] = run'
        /\ gate' = "qwen3" /\ gpc' = "asr" => box'[case'] = run'
        /\ gate' \in Programs /\ gpc' # "idle" /\ status' = "PASS" => Behind' /\ (gpc' = "report" => Done')
        /\ gexit' = "0" /\ gate' \in Programs => Done'
      PROVE JudgeInv' /\ GateSound'
  BY <1>a DEF JudgeInv, GateSound, Heard, Programs
<1>b. ASSUME UNCHANGED <<heard, run>> PROVE (Behind' <=> (\A c \in Cases : c < case' => Heard(c))) /\ (Done' <=> Done)
  BY <1>b, HeardStays
<1>c. gpc # "idle" => gexit = "none"
  BY DEF GateTypes
<1>1. ASSUME NEW p \in Programs \cup {"bench"}, GateStart(p) PROVE JudgeInv' /\ GateSound'
  <2>1. gexit' = "none" /\ gpc' \in {"health", "tts", "warmup"} /\ case' = 1 /\ (gpc' = "tts" => gate' = "qwen3")
    BY <1>1 DEF GateStart, Programs
  <2>2. \A c \in Cases : ~(c < case')
    BY <2>1 DEF Cases
  <2> QED BY <2>1, <2>2, <1>a
<1>2. CASE HttpRaise \/ GateKilled
  <2>1. gpc' = "idle" /\ gexit' # "0"
    BY <1>2 DEF HttpRaise, GateKilled, GateExit
  <2> QED BY <2>1, <1>a
<1>3. CASE HttpHealthy \/ BenchWarmup
  <2>1. /\ UNCHANGED <<heard, run, gate, case, status, gexit>> /\ gpc # "idle" /\ gpc' \in {"tts", "trial"}
    BY <1>3 DEF HttpHealthy, BenchWarmup, judged
  <2>2. (Behind' <=> Behind) /\ (Done' <=> Done)
    BY <1>b, <2>1
  <2> QED BY <2>1, <2>2, <1>0, <1>c, <1>a
<1>4. CASE HttpTts \/ synthesize
  <2>1. /\ UNCHANGED <<heard, run, gate, case, status, gexit>> /\ gpc # "idle" /\ gate \in {"http", "qwen3"}
        /\ gpc' = IF gate = "http" THEN "asr" ELSE "copy"
        /\ wav'[case'] = run'
    BY <1>4 DEF HttpTts, synthesize, GateTypes
  <2>2. (Behind' <=> Behind) /\ (Done' <=> Done)
    BY <1>b, <2>1
  <2> QED BY <2>1, <2>2, <1>0, <1>c, <1>a
<1>5. CASE dockerCp
  <2>1. /\ UNCHANGED <<heard, run, gate, case, status, gexit>> /\ gpc # "idle" /\ gate = "qwen3"
        /\ gpc' = "asr" /\ box'[case'] = run'
    BY <1>5 DEF dockerCp, GateTypes, JudgeInv
  <2>2. (Behind' <=> Behind) /\ (Done' <=> Done)
    BY <1>b, <2>1
  <2> QED BY <2>1, <2>2, <1>0, <1>c, <1>a
<1>6. ASSUME gate \in Programs, gpc # "idle", UNCHANGED <<gate, run, gexit>>, NextCase("tts"),
             \/ status' = "FAIL"
             \/ status' = "PASS" => Behind' /\ (gpc' = "report" => Done')
      PROVE  JudgeInv' /\ GateSound'
  <2>1. gpc' \in {"tts", "report"} /\ gexit' = "none"
    BY <1>6, <1>c DEF NextCase
  <2> QED BY <1>6, <2>1, <1>a
<1>7. CASE HttpAsr
  <2> PICK text \in Texts :
         /\ heard' = [heard EXCEPT ![case] = [audio |-> wav[case], text |-> text]]
         /\ status' = IF HttpPassed(case, text) THEN status ELSE "FAIL"
    BY <1>7 DEF HttpAsr
  <2>1. gate = "http" /\ gpc = "asr" /\ UNCHANGED <<gate, run, gexit>> /\ NextCase("tts") /\ wav[case] = run
    BY <1>7 DEF HttpAsr, JudgeInv
  <2>2. status' \in {status, "FAIL"} /\ (status' = status => (Similar(case, text) \/ status = "FAIL"))
    BY DEF HttpPassed
  <2>3. status' = "PASS" => Behind' /\ (gpc' = "report" => Done')
    BY <2>1, <2>2, <1>0, HeardGrows DEF Programs
  <2> QED BY <2>1, <2>3, <1>6 DEF Programs
<1>8. ASSUME NEW audio, Transcribed(audio), audio = run, gate = "qwen3", gpc # "idle" PROVE JudgeInv' /\ GateSound'
  <2> PICK text \in Texts :
         /\ heard' = [heard EXCEPT ![case] = [audio |-> audio, text |-> text]]
         /\ status' = IF Similar(case, text) THEN status ELSE "FAIL"
    BY <1>8 DEF Transcribed
  <2>1. UNCHANGED <<gate, run, gexit>> /\ NextCase("tts")
    BY <1>8 DEF Transcribed
  <2>2. status' \in {status, "FAIL"} /\ (status' = status => (Similar(case, text) \/ status = "FAIL"))
    OBVIOUS
  <2>3. status' = "PASS" => Behind' /\ (gpc' = "report" => Done')
    BY <1>8, <2>1, <2>2, <1>0, HeardGrows DEF Programs
  <2> QED BY <1>8, <2>1, <2>3, <1>6 DEF Programs
<1>9. CASE asr_with_paraformer_container
  BY <1>8, <1>9 DEF asr_with_paraformer_container, JudgeInv
<1>10. CASE asr_with_product_qwen3
  BY <1>8, <1>10 DEF asr_with_product_qwen3, JudgeInv
<1>11. CASE QwenRaise
  BY <1>6, <1>11 DEF QwenRaise, Programs
<1>12. CASE HttpEnd \/ QwenEnd
  <2>1. /\ UNCHANGED <<heard, run>> /\ gpc' = "idle" /\ gpc = "report" /\ gate \in Programs
        /\ gexit' = "0" => status = "PASS"
    BY <1>12 DEF HttpEnd, QwenEnd, GateExit, judged, Programs
  <2>2. Done' <=> Done
    BY <1>b, <2>1
  <2> QED BY <2>1, <2>2, <1>0, <1>a
<1>13. CASE BenchTrial \/ BenchText
  <2>1. gate' = "bench"
    BY <1>13 DEF BenchTrial, BenchText
  <2> QED BY <2>1, <1>a DEF Programs
<1>14. CASE UNCHANGED gateVars
  <2>1. UNCHANGED <<gate, gpc, run, case, heard, wav, box, status, gexit>>
    BY <1>14 DEF gateVars
  <2>2. (Behind' <=> Behind) /\ (Done' <=> Done)
    BY <1>b, <2>1
  <2>3. UNCHANGED <<wav, box, case, run, gate, gpc>>
    BY <2>1
  <2>4. /\ gate' = "http" /\ gpc' = "asr" => wav'[case'] = run'
        /\ gate' = "qwen3" /\ gpc' = "copy" => wav'[case'] = run'
        /\ gate' = "qwen3" /\ gpc' = "asr" => box'[case'] = run'
    BY <2>3 DEF JudgeInv
  <2> QED BY <2>1, <2>2, <2>4, <1>0, <1>a
<1> QED BY <1>1, <1>2, <1>3, <1>4, <1>5, <1>7, <1>9, <1>10, <1>11, <1>12, <1>13, <1>14 DEF GatesNext

(* The reports are kept: a new run is later than every report, and only the     *)
(* last step of a gate writes one, with the exit code that goes with it.         *)
LEMMA ReportKept == GateTypes /\ ReportInv /\ [GatesNext]_gateVars => ReportInv'
<1> SUFFICES ASSUME GateTypes, ReportInv, [GatesNext]_gateVars PROVE ReportInv'
    OBVIOUS
<1>1. ASSUME NEW p \in Programs \cup {"bench"}, GateStart(p) PROVE ReportInv'
  <2>1. run' = run + 1 /\ gpc' # "idle" /\ report' = report
    BY <1>1 DEF GateStart, Programs
  <2> QED BY <2>1 DEF ReportInv, GateTypes
<1>2. ASSUME UNCHANGED <<run, report>>, gpc # "idle" PROVE ReportInv'
  BY <1>2 DEF ReportInv
<1>3. CASE HttpRaise \/ HttpHealthy \/ HttpTts \/ HttpAsr \/ QwenRaise \/ synthesize \/ dockerCp \/ GateKilled
  <2>1. UNCHANGED <<run, report>> /\ gpc # "idle"
    BY <1>3 DEF HttpRaise, HttpHealthy, HttpTts, HttpAsr, QwenRaise, synthesize, dockerCp, GateKilled
  <2> QED BY <1>2, <2>1
<1>4. CASE asr_with_paraformer_container \/ asr_with_product_qwen3
  <2>1. UNCHANGED <<run, report>> /\ gpc # "idle"
    BY <1>4 DEF asr_with_paraformer_container, asr_with_product_qwen3, Transcribed
  <2> QED BY <1>2, <2>1
<1>5. CASE BenchWarmup \/ BenchTrial \/ BenchText
  <2>1. UNCHANGED <<run, report>> /\ gpc # "idle"
    BY <1>5 DEF BenchWarmup, BenchTrial, BenchText
  <2> QED BY <1>2, <2>1
<1>6. ASSUME NEW p \in Programs, WriteReport(p, status), gpc # "idle", gpc' = "idle", run' = run,
             gexit' = "0" <=> status = "PASS"
      PROVE  ReportInv'
  <2> SUFFICES ASSUME NEW q \in Programs
               PROVE  /\ report'[q].run \in Nat /\ report'[q].run <= run'
                      /\ gpc' # "idle" => report'[q].run < run'
                      /\ report'[q].run = run' /\ gpc' = "idle" => (report'[q].status = "PASS" <=> gexit' = "0")
      BY DEF ReportInv
  <2>1. CASE q = p
    <3>1. report'[q] = [run |-> run, status |-> status]
      BY <1>6, <2>1 DEF WriteReport, GateTypes
    <3> QED BY <1>6, <3>1 DEF GateTypes
  <2>2. CASE q # p
    <3>1. report'[q] = report[q]
      BY <1>6, <2>2 DEF WriteReport, GateTypes
    <3> QED BY <1>6, <3>1 DEF GateTypes, ReportInv
  <2> QED BY <2>1, <2>2
<1>7. CASE HttpEnd
  BY <1>6, <1>7 DEF HttpEnd, GateExit, Programs
<1>8. CASE QwenEnd
  BY <1>6, <1>8 DEF QwenEnd, GateExit, Programs
<1>9. CASE UNCHANGED gateVars
  BY <1>9 DEF gateVars, ReportInv
<1> QED BY <1>1, <1>3, <1>4, <1>5, <1>7, <1>8, <1>9 DEF GatesNext

(* The lists are kept: a trial appends to all three, a text clears them. *)
LEMMA ListsKept == ListsInv /\ [GatesNext]_gateVars => ListsInv'
<1> SUFFICES ASSUME ListsInv, [GatesNext]_gateVars PROVE ListsInv'
    OBVIOUS
<1>1. ASSUME trials' = <<>>, lists' = [ttft |-> <<>>, rtf |-> <<>>] PROVE ListsInv'
  BY <1>1 DEF ListsInv
<1>2. ASSUME UNCHANGED benchVars PROVE ListsInv'
  BY <1>2 DEF ListsInv, benchVars
<1>3. ASSUME NEW p \in Programs \cup {"bench"}, GateStart(p) PROVE ListsInv'
  BY <1>1, <1>3 DEF GateStart
<1>4. CASE BenchTrial
  <2> PICK kind \in Kinds : trials' = Append(trials, kind) /\ lists' = trialLists(kind)
    BY <1>4 DEF BenchTrial, Kinds
  <2> DEFINE t == IF kind = "failed" THEN "nan" ELSE "ms"
             x == IF kind = "audio" THEN "x" ELSE "nan"
  <2>1. lists'.ttft = Append(lists.ttft, t) /\ lists'.rtf = Append(lists.rtf, x)
    BY DEF trialLists
  <2>2. t \in {"ms", "nan"} /\ x \in {"x", "nan"} /\ (t # "nan" <=> kind # "failed") /\ (x # "nan" <=> kind = "audio")
    BY DEF Kinds
  <2> HIDE DEF t, x
  <2>3. /\ trials' \in Seq(Kinds) /\ lists'.ttft \in Seq({"ms", "nan"}) /\ lists'.rtf \in Seq({"x", "nan"})
        /\ Len(trials') = Len(trials) + 1 /\ Len(lists'.ttft) = Len(trials') /\ Len(lists'.rtf) = Len(trials')
    BY <2>1, <2>2 DEF ListsInv
  <2>4. ASSUME NEW i \in 1..Len(trials')
        PROVE  (lists'.ttft[i] # "nan" <=> trials'[i] # "failed") /\ (lists'.rtf[i] # "nan" <=> trials'[i] = "audio")
    <3>1. CASE i = Len(trials) + 1
      <4>1. trials'[i] = kind
        BY <3>1 DEF ListsInv
      <4>2. lists'.ttft[i] = t
        BY <2>1, <2>2, <3>1 DEF ListsInv
      <4>3. lists'.rtf[i] = x
        BY <2>1, <2>2, <3>1 DEF ListsInv
      <4> QED BY <2>2, <4>1, <4>2, <4>3
    <3>2. CASE i # Len(trials) + 1
      <4>1. i \in 1..Len(trials)
        BY <2>3, <3>2 DEF ListsInv
      <4>2. lists'.ttft[i] = lists.ttft[i] /\ lists'.rtf[i] = lists.rtf[i] /\ trials'[i] = trials[i]
        BY <2>1, <2>2, <4>1 DEF ListsInv
      <4> QED BY <4>1, <4>2 DEF ListsInv
    <3> QED BY <3>1, <3>2
  <2> QED BY <2>3, <2>4 DEF ListsInv
<1>5. CASE BenchText
  BY <1>1, <1>2, <1>5 DEF BenchText, benchVars
<1>6. CASE HttpRaise \/ HttpHealthy \/ HttpTts \/ HttpAsr \/ HttpEnd
  BY <1>2, <1>6 DEF HttpRaise, HttpHealthy, HttpTts, HttpAsr, HttpEnd
<1>7. CASE QwenRaise \/ synthesize \/ dockerCp \/ QwenEnd
  BY <1>2, <1>7 DEF QwenRaise, synthesize, dockerCp, QwenEnd
<1>8. CASE asr_with_paraformer_container \/ asr_with_product_qwen3
  BY <1>2, <1>8 DEF asr_with_paraformer_container, asr_with_product_qwen3, Transcribed
<1>9. CASE BenchWarmup \/ GateKilled
  BY <1>2, <1>9 DEF BenchWarmup, GateKilled
<1>10. CASE UNCHANGED gateVars
  BY <1>2, <1>10 DEF gateVars, benchVars
<1> QED BY <1>3, <1>4, <1>5, <1>6, <1>7, <1>8, <1>9, <1>10 DEF GatesNext

(* The gates keep their invariant. *)
THEOREM GatesInvariant == GatesSpec => []GatesInv
<1>1. GatesInv /\ [GatesNext]_gateVars => GatesInv'
  BY GateTypesKept, JudgeKept, ReportKept, ListsKept DEF GatesInv
<1> QED BY GatesStart, <1>1, PTL DEF GatesSpec

(* A round trip that ends with 0 has heard every case of this run from this     *)
(* run's audio, whatever earlier runs left in the output directory or in the    *)
(* container and wherever a case raised (_run_case, main, _asr_with_            *)
(* paraformer_container).                                                       *)
THEOREM GatesAreSound == GatesSpec => []GateSound
<1>1. GatesInv => GateSound
  BY DEF GatesInv
<1> QED BY GatesInvariant, <1>1, PTL

(* The reports say what the exit code says, and the benchmark's means are over  *)
(* exactly the trials that had a value (main, _bench_one).                      *)
THEOREM ReportsAreHonest == GatesSpec => []ReportHonest
<1>1. GatesInv => ReportHonest
  <2> SUFFICES ASSUME GatesInv PROVE ReportHonest
      OBVIOUS
  <2>1. \A p \in Programs : (report[p].run = run /\ gpc = "idle") => (report[p].status = "PASS" <=> gexit = "0")
    BY DEF GatesInv, ReportInv
  <2>2. ListsInv
    BY DEF GatesInv
  <2>3. /\ DOMAIN trials = 1..Len(trials) /\ DOMAIN lists.ttft = 1..Len(trials) /\ DOMAIN lists.rtf = 1..Len(trials)
    BY <2>2 DEF ListsInv
  <2>4. Valid(lists.ttft) = {i \in DOMAIN trials : trials[i] # "failed"}
    BY <2>2, <2>3 DEF ListsInv, Valid
  <2>5. Valid(lists.rtf) = {i \in DOMAIN trials : trials[i] = "audio"}
    BY <2>2, <2>3 DEF ListsInv, Valid
  <2> QED BY <2>1, <2>2, <2>4, <2>5 DEF ReportHonest, ListsInv
<1> QED BY GatesInvariant, <1>1, PTL

-----------------------------------------------------------------------------
(* The TTS contract                                                          *)

(* A run of the contract that looks at everything. *)
Strict == program = "contract" /\ flags.trt /\ flags.sample /\ flags.vocoder /\ ~flags.cap

(* The defects each of the four groups of checks looks for: of what is loaded, *)
LoadDefects == {"mode", "product", "module", "native"}
(* ... of the files, *)
FileDefects == {"missing", "groups", "seed"}
(* ... of the engines, *)
EngineDefects == {"talker", "cp", "vocoder", "length"}
(* ... of the sample. *)
SampleDefects == {"wav", "rate", "segmented", "meta", "frames"}

(* A step is reached only by a deployment without the defects of the steps     *)
(* before it.                                                                  *)
ContractInv ==
  /\ dep.wrong \subseteq Defects
  /\ cpc \in {"path", "load", "files", "engines", "sample", "ok", "end"}
  /\ cpc # "end" => cexit = "none"
  /\ Strict =>
       /\ cpc \in {"files", "engines", "sample", "ok"} => dep.wrong \cap LoadDefects = {}
       /\ cpc \in {"engines", "sample", "ok"} => dep.wrong \cap FileDefects = {}
       /\ cpc \in {"sample", "ok"} => dep.wrong \cap EngineDefects = {}
       /\ cpc = "ok" => dep.wrong \cap SampleDefects = {}
       /\ cexit = "0" => dep.wrong = {}
       /\ cexit = "2" => dep.wrong # {}

(* Nothing has been checked at first. *)
LEMMA ContractStart == ContractInit => ContractInv
<1> SUFFICES ASSUME ContractInit PROVE ContractInv
    OBVIOUS
<1>1. dep.wrong \subseteq Defects
  BY DEF ContractInit, Defects
<1> QED BY <1>1 DEF ContractInit, ContractInv

(* The four groups of checks look at every defect there is. *)
LEMMA EveryDefectIsChecked == Defects = LoadDefects \cup FileDefects \cup EngineDefects \cup SampleDefects
BY DEF Defects, LoadDefects, FileDefects, EngineDefects, SampleDefects

(* A check goes on without the defects it looks for, or ends with 2 because of  *)
(* one of them.                                                                  *)
LEMMA RequireDoes ==
  ASSUME NEW failing, NEW then, then # "end", cpc # "end", ContractInv, Require(failing, then)
  PROVE  /\ UNCHANGED <<dep, flags, program>>
         /\ \/ cpc' = then /\ cexit' = "none" /\ dep.wrong \cap failing = {}
            \/ cpc' = "end" /\ cexit' = "2" /\ dep.wrong # {}
BY DEF Require, CExit, ContractInv

(* The checks, one step after the other. *)
LEMMA ContractKept == ContractInv /\ [ContractNext]_contractVars => ContractInv'
<1> SUFFICES ASSUME ContractInv, [ContractNext]_contractVars PROVE ContractInv'
    OBVIOUS
<1>a. ASSUME UNCHANGED <<dep, flags, program>> PROVE (Strict' <=> Strict) /\ (dep.wrong)' = dep.wrong
  BY <1>a DEF Strict
<1>1. CASE RoundtripCase
  BY <1>1, <1>a DEF RoundtripCase, ContractInv, Strict
<1>2. CASE RoundtripDone
  BY <1>2, <1>a DEF RoundtripDone, CExit, ContractInv, Strict
<1>3. CASE ContractImport
  <2>1. UNCHANGED <<dep, flags, program>> /\ cpc = "path"
    BY <1>3 DEF ContractImport
  <2>2. (cpc' = "end" /\ cexit' = "1") \/ (cpc' = "load" /\ cexit' = cexit)
    BY <1>3 DEF ContractImport, CExit
  <2> QED BY <2>1, <2>2, <1>a DEF ContractInv
<1>4. CASE PreloadRaises
  <2>1. UNCHANGED <<dep, flags, program>> /\ cpc' = "end" /\ cexit' = "1"
    BY <1>4 DEF PreloadRaises, CExit
  <2> QED BY <2>1, <1>a DEF ContractInv
<1>5. CASE RequireLoaded
  <2>1. cpc = "load" /\ Require(LoadDefects, "files")
    BY <1>5 DEF RequireLoaded, LoadDefects
  <2>2. /\ UNCHANGED <<dep, flags, program>>
        /\ \/ cpc' = "files" /\ cexit' = "none" /\ dep.wrong \cap LoadDefects = {}
           \/ cpc' = "end" /\ cexit' = "2" /\ dep.wrong # {}
    BY <2>1, RequireDoes
  <2> QED BY <2>1, <2>2, <1>a DEF ContractInv
<1>6. CASE RequireFiles
  <2>1. cpc = "files" /\ Require(FileDefects, "engines")
    BY <1>6 DEF RequireFiles, FileDefects
  <2>2. /\ UNCHANGED <<dep, flags, program>>
        /\ \/ cpc' = "engines" /\ cexit' = "none" /\ dep.wrong \cap FileDefects = {}
           \/ cpc' = "end" /\ cexit' = "2" /\ dep.wrong # {}
    BY <2>1, RequireDoes
  <2> QED BY <2>1, <2>2, <1>a DEF ContractInv
<1>7. CASE RequireEngines
  <2> DEFINE D == (IF flags.trt THEN {"talker", "cp", "vocoder"} ELSE {})
                    \cup (IF flags.vocoder /\ ~flags.cap THEN {"length"} ELSE {})
  <2>1. cpc = "engines" /\ Require(D, "sample")
    BY <1>7 DEF RequireEngines
  <2>2. Strict => D = EngineDefects
    BY DEF Strict, EngineDefects
  <2> HIDE DEF D
  <2>3. /\ UNCHANGED <<dep, flags, program>>
        /\ \/ cpc' = "sample" /\ cexit' = "none" /\ dep.wrong \cap D = {}
           \/ cpc' = "end" /\ cexit' = "2" /\ dep.wrong # {}
    BY <2>1, RequireDoes
  <2> QED BY <2>1, <2>2, <2>3, <1>a DEF ContractInv
<1>8. CASE RequireSample
  <2> DEFINE D == IF ~flags.sample THEN {}
                  ELSE {"wav", "rate", "segmented", "meta"} \cup (IF flags.vocoder THEN {"frames"} ELSE {})
  <2>1. cpc = "sample" /\ Require(D, "ok")
    BY <1>8 DEF RequireSample
  <2>2. Strict => D = SampleDefects
    BY DEF Strict, SampleDefects
  <2> HIDE DEF D
  <2>3. /\ UNCHANGED <<dep, flags, program>>
        /\ \/ cpc' = "ok" /\ cexit' = "none" /\ dep.wrong \cap D = {}
           \/ cpc' = "end" /\ cexit' = "2" /\ dep.wrong # {}
    BY <2>1, RequireDoes
  <2> QED BY <2>1, <2>2, <2>3, <1>a DEF ContractInv
<1>9. CASE ContractOk
  <2>1. UNCHANGED <<dep, flags, program>> /\ cpc = "ok" /\ cpc' = "end" /\ cexit' = "0"
    BY <1>9 DEF ContractOk, CExit
  <2>2. Strict => dep.wrong = {}
    BY <2>1, EveryDefectIsChecked DEF ContractInv
  <2> QED BY <2>1, <2>2, <1>a DEF ContractInv
<1>10. CASE UNCHANGED contractVars
  BY <1>10, <1>a DEF contractVars, ContractInv
<1> QED BY <1>1, <1>2, <1>3, <1>4, <1>5, <1>6, <1>7, <1>8, <1>9, <1>10 DEF ContractNext

(* CONTRACT_OK with TensorRT, an uncapped vocoder and a sample is given only to  *)
(* a deployment with nothing wrong, and 2 only to one with a defect              *)
(* (collect_contract, main).                                                     *)
THEOREM ContractIsStrict == ContractSpec => []OkMeansConforming
<1>1. ContractInv => OkMeansConforming
  BY DEF ContractInv, OkMeansConforming, Strict
<1> QED BY ContractStart, ContractKept, <1>1, PTL DEF ContractSpec

-----------------------------------------------------------------------------
(* The streaming gate                                                        *)

(* The share of VerdictHonest that does not depend on sorting the latencies:   *)
(* with 0 no worker is left and every prompt was understood alike by every      *)
(* stream that was asked for, with all its latency runs made.                   *)
VerdictCovers ==
  eexit = "0" => workers = 0 /\ \A p \in Prompts :
    /\ prompt[p].ok /\ prompt[p].b = "same" /\ (withF => prompt[p].f = "same")
    /\ Len(prompt[p].lat) = LatencyRuns

(* The entries of per_prompt. *)
Lines == [ok : BOOLEAN, b : {"none", "same", "other"}, f : {"none", "same", "other"}, lat : Seq(Latencies)]

(* A line with all that run_one adds to it. *)
Complete(p) == (withF => prompt[p].f # "none") /\ Len(prompt[p].lat) = LatencyRuns

(* The worker of a scenario lives from its start to its close; the prompts      *)
(* behind the loop are complete, the one at hand is as far as its scenario.     *)
StreamingInv ==
  /\ epc \in {"spawn", "scenario", "close", "closeRaised", "stage", "verdict", "end"}
  /\ scen \in {"A", "B", "F", "C"} /\ withF \in BOOLEAN
  /\ pid \in Prompts /\ prompt \in [Prompts -> Lines] /\ workers \in Nat
  /\ epc # "end" => eexit = "none"
  /\ epc \in {"spawn", "stage", "verdict"} => workers = 0
  /\ epc \in {"scenario", "close", "closeRaised"} => workers = 1
  /\ epc # "end" => \A p \in Prompts : p < pid => Complete(p)
  /\ epc = "verdict" => pid = NPrompts /\ Complete(pid)
  /\ epc \in {"spawn", "scenario"} =>
       /\ scen \in {"F", "C"} => Len(prompt[pid].lat) \in 1..LatencyRuns
       /\ scen = "F" => withF
       /\ scen = "C" => (withF => prompt[pid].f # "none") /\ Len(prompt[pid].lat) < LatencyRuns
  /\ epc \in {"close", "stage"} =>
       /\ scen # "A" => Len(prompt[pid].lat) \in 1..LatencyRuns
       /\ scen \in {"F", "C"} /\ withF => prompt[pid].f # "none"
  /\ VerdictCovers

(* The first prompt has nothing yet. *)
LEMMA StreamingStart == StreamingInit => StreamingInv
<1> SUFFICES ASSUME StreamingInit PROVE StreamingInv
    OBVIOUS
<1>1. <<>> \in Seq(Latencies)
  OBVIOUS
<1>2. NoLine \in Lines
  BY <1>1 DEF NoLine, Lines
<1>3. prompt \in [Prompts -> Lines] /\ pid \in Prompts /\ \A p \in Prompts : ~(p < pid)
  BY <1>2, StreamingAssumption DEF StreamingInit, Prompts
<1> QED BY <1>3 DEF StreamingInit, StreamingInv, VerdictCovers

(* What a scenario adds to its prompt's line. *)
LEMMA MeasuredLine ==
  ASSUME StreamingInv, NEW line \in Measured
  PROVE  /\ line \in Lines
         /\ scen = "B" => Len(line.lat) = 1
         /\ scen = "F" => line.lat = prompt[pid].lat /\ line.f # "none"
         /\ scen = "C" => line.f = prompt[pid].f /\ Len(line.lat) = Len(prompt[pid].lat) + 1
<1>0. prompt[pid] \in Lines
  BY DEF StreamingInv
<1>1. CASE scen = "A"
  <2>1. PICK ok \in BOOLEAN : line = [prompt[pid] EXCEPT !.ok = ok]
    BY <1>1 DEF Measured
  <2> QED BY <1>0, <1>1, <2>1 DEF Lines
<1>2. CASE scen = "B"
  <2>1. PICK t \in {"same", "other"}, l \in Latencies : line = MelLine(t, l)
    BY <1>2 DEF Measured
  <2>2. <<l>> \in Seq(Latencies) /\ Len(<<l>>) = 1
    OBVIOUS
  <2> QED BY <1>0, <1>2, <2>1, <2>2 DEF Lines, MelLine
<1>3. CASE scen = "F"
  <2>1. PICK t \in {"same", "other"} : line = [prompt[pid] EXCEPT !.f = t]
    BY <1>3 DEF Measured
  <2> QED BY <1>0, <1>3, <2>1 DEF Lines
<1>4. CASE scen = "C"
  <2>1. PICK l \in Latencies : line = [prompt[pid] EXCEPT !.lat = Append(@, l)]
    BY <1>4 DEF Measured
  <2>2. Append(prompt[pid].lat, l) \in Seq(Latencies) /\ Len(Append(prompt[pid].lat, l)) = Len(prompt[pid].lat) + 1
    BY <1>0 DEF Lines
  <2> QED BY <1>0, <1>4, <2>1, <2>2 DEF Lines
<1> QED BY <1>1, <1>2, <1>3, <1>4 DEF StreamingInv

(* Every step of the gate. *)
LEMMA StreamingKept == StreamingInv /\ [StreamingNext]_e2eVars => StreamingInv'
<1> SUFFICES ASSUME StreamingInv, [StreamingNext]_e2eVars PROVE StreamingInv'
    OBVIOUS
<1>a. LatencyRuns \in Nat \ {0} /\ NPrompts \in Nat \ {0} /\ pid \in 1..NPrompts
  BY StreamingAssumption DEF StreamingInv, Prompts
<1>b. ASSUME UNCHANGED <<prompt, withF>> PROVE \A p : Complete(p)' <=> Complete(p)
  BY <1>b DEF Complete
<1>c. prompt[pid].lat \in Seq(Latencies) /\ Len(prompt[pid].lat) \in Nat
  BY DEF StreamingInv, Lines
<1>1. CASE NoPrompts \/ E2eSpawn
  <2>1. UNCHANGED <<pid, scen, withF, prompt>> /\ epc = "spawn"
    BY <1>1 DEF NoPrompts, E2eSpawn
  <2>2. \/ epc' = "end" /\ eexit' # "0" /\ workers' \in {workers, workers + 1}
        \/ epc' = "scenario" /\ eexit' = eexit /\ workers' = workers + 1
    BY <1>1 DEF NoPrompts, E2eSpawn, EExit
  <2> QED BY <2>1, <2>2, <1>b DEF StreamingInv, VerdictCovers
<1>2. CASE scenario
  <2>0. epc = "scenario" /\ UNCHANGED <<pid, scen, withF, workers, verdict, eexit>>
    BY <1>2, Zenon DEF scenario
  <2>1. CASE epc' = "closeRaised" /\ UNCHANGED prompt
    BY <2>0, <2>1, <1>b DEF StreamingInv, VerdictCovers
  <2>2. ASSUME NEW line \in Measured, prompt' = [prompt EXCEPT ![pid] = line], epc' = "close"
        PROVE  StreamingInv'
    <3>1. /\ line \in Lines
          /\ scen = "B" => Len(line.lat) = 1
          /\ scen = "F" => line.lat = prompt[pid].lat /\ line.f # "none"
          /\ scen = "C" => line.f = prompt[pid].f /\ Len(line.lat) = Len(prompt[pid].lat) + 1
      BY MeasuredLine, <2>2
    <3>2. prompt' \in [Prompts -> Lines] /\ prompt'[pid] = line /\ \A p \in Prompts : p # pid => prompt'[p] = prompt[p]
      BY <3>1, <2>2 DEF StreamingInv
    <3>3. \A p \in Prompts : p < pid => Complete(p)'
      <4> SUFFICES ASSUME NEW p \in Prompts, p < pid PROVE Complete(p)'
          OBVIOUS
      <4>1. p # pid /\ Complete(p)
        BY <2>0, <1>a DEF StreamingInv
      <4> QED BY <4>1, <3>2, <2>0 DEF Complete
    <3>4. /\ scen # "A" => Len(line.lat) \in 1..LatencyRuns
          /\ scen \in {"F", "C"} /\ withF => line.f # "none"
      <4>1. CASE scen = "B"
        <5>1. Len(line.lat) = 1
          BY <3>1, <4>1
        <5> QED BY <4>1, <5>1, <1>a
      <4>2. CASE scen = "F"
        BY <3>1, <4>2, <2>0 DEF StreamingInv
      <4>3. CASE scen = "C"
        <5>1. (withF => prompt[pid].f # "none") /\ Len(prompt[pid].lat) < LatencyRuns
          BY <4>3, <2>0 DEF StreamingInv
        <5>2. line.f = prompt[pid].f /\ Len(line.lat) = Len(prompt[pid].lat) + 1
          BY <3>1, <4>3
        <5>3. Len(line.lat) \in 1..LatencyRuns
          <6> DEFINE n == Len(prompt[pid].lat)
                     L == LatencyRuns
          <6>1. n \in Nat /\ L \in Nat /\ n < L
            BY <5>1, <1>a, <1>c
          <6> HIDE DEF n, L
          <6>2. n + 1 \in 1..L
            BY ONLY <6>1
          <6> QED BY <5>2, <6>2 DEF n, L
        <5> QED BY <4>3, <5>1, <5>2, <5>3
      <4> QED BY <4>1, <4>2, <4>3 DEF StreamingInv
    <3>5. eexit = "none" /\ workers = 1
      BY <2>0 DEF StreamingInv
    <3> QED BY <2>0, <2>2, <3>2, <3>3, <3>4, <3>5 DEF StreamingInv, VerdictCovers
  <2>3. \/ \E line \in Measured : prompt' = [prompt EXCEPT ![pid] = line] /\ epc' = "close"
        \/ epc' = "closeRaised" /\ UNCHANGED prompt
    BY <1>2, Zenon DEF scenario
  <2> HIDE <1>2
  <2> QED BY <2>1, <2>2, <2>3, Zenon
<1>3. CASE close
  <2>1. UNCHANGED <<pid, scen, withF, prompt>> /\ epc \in {"close", "closeRaised"}
    BY <1>3 DEF close
  <2>2. \/ epc' = "end" /\ eexit' # "0" /\ workers' \in {workers, workers - 1}
        \/ epc = "close" /\ epc' = "stage" /\ eexit' = eexit /\ workers' = workers - 1
    BY <1>3 DEF close, EExit
  <2> QED BY <2>1, <2>2, <1>b DEF StreamingInv, VerdictCovers
<1>4. CASE run_one
  <2>0. epc = "stage" /\ UNCHANGED <<withF, prompt, workers, verdict, eexit>> /\ workers = 0 /\ eexit = "none"
    BY <1>4 DEF run_one, StreamingInv
  <2>1. \/ scen = "A" /\ scen' = "B" /\ epc' = "spawn" /\ pid' = pid
        \/ scen = "B" /\ withF /\ scen' = "F" /\ epc' = "spawn" /\ pid' = pid
        \/ /\ scen # "A" /\ ~(scen = "B" /\ withF) /\ Len(prompt[pid].lat) < LatencyRuns
           /\ scen' = "C" /\ epc' = "spawn" /\ pid' = pid
        \/ /\ scen # "A" /\ ~(scen = "B" /\ withF) /\ ~(Len(prompt[pid].lat) < LatencyRuns)
           /\ scen' = "A"
           /\ \/ pid = NPrompts /\ epc' = "verdict" /\ pid' = pid
              \/ pid # NPrompts /\ epc' = "spawn" /\ pid' = pid + 1
    <3> DEFINE next == IF scen = "A" THEN "B"
                       ELSE IF scen = "B" /\ withF THEN "F"
                       ELSE IF Len(prompt[pid].lat) < LatencyRuns THEN "C" ELSE "done"
    <3>1. IF next # "done" THEN scen' = next /\ epc' = "spawn" /\ UNCHANGED pid
          ELSE /\ scen' = "A"
               /\ IF pid = NPrompts THEN epc' = "verdict" /\ UNCHANGED pid
                                    ELSE epc' = "spawn" /\ pid' = pid + 1
      BY <1>4 DEF run_one
    <3>2. /\ scen = "A" => next = "B"
          /\ scen = "B" /\ withF => next = "F"
      OBVIOUS
    <3>3. ASSUME scen # "A", ~(scen = "B" /\ withF)
          PROVE  next = IF Len(prompt[pid].lat) < LatencyRuns THEN "C" ELSE "done"
      BY <3>3
    <3> HIDE DEF next
    <3> QED BY <3>1, <3>2, <3>3
  <2>2. \A p \in Prompts : p < pid => Complete(p)'
    BY <2>0, <1>b DEF StreamingInv
  <2>3. CASE pid' = pid /\ epc' = "spawn"
    <3>1. /\ scen' \in {"B", "F", "C"}
          /\ scen' \in {"F", "C"} => Len(prompt[pid].lat) \in 1..LatencyRuns
          /\ scen' = "F" => withF
          /\ scen' = "C" => (withF => prompt[pid].f # "none") /\ Len(prompt[pid].lat) < LatencyRuns
      BY <2>0, <2>1, <2>3, <1>a DEF StreamingInv
    <3> QED BY <2>0, <2>2, <2>3, <3>1 DEF StreamingInv, VerdictCovers
  <2>4. CASE ~(pid' = pid /\ epc' = "spawn")
    <3>1. Complete(pid) /\ \A p : Complete(p)' <=> Complete(p)
      <4>1. scen # "A" /\ ~(scen = "B" /\ withF) /\ ~(Len(prompt[pid].lat) < LatencyRuns)
        BY <2>1, <2>4
      <4>2. Len(prompt[pid].lat) \in 1..LatencyRuns /\ (withF => prompt[pid].f # "none")
        BY <2>0, <4>1 DEF StreamingInv
      <4>3. Len(prompt[pid].lat) = LatencyRuns
        BY <4>1, <4>2, <1>a, <1>c
      <4> QED BY <2>0, <4>2, <4>3, <1>b DEF Complete
    <3>2. CASE epc' = "verdict"
      BY <2>0, <2>1, <2>2, <3>1, <3>2 DEF StreamingInv, VerdictCovers
    <3>3. CASE epc' # "verdict"
      <4>1. scen' = "A" /\ epc' = "spawn" /\ pid' = pid + 1 /\ pid' \in Prompts
        BY <2>1, <2>4, <3>3, <1>a DEF Prompts
      <4>2. \A p \in Prompts : p < pid' => p < pid \/ p = pid
        BY <4>1, <1>a DEF Prompts
      <4>3. \A p \in Prompts : p < pid' => Complete(p)'
        BY <4>2, <2>2, <3>1
      <4> QED BY <2>0, <4>1, <4>3 DEF StreamingInv, VerdictCovers
    <3> QED BY <3>2, <3>3
  <2> QED BY <2>3, <2>4
<1>5. CASE E2eEnd
  <2>0. epc = "verdict" /\ epc' = "end" /\ UNCHANGED <<pid, scen, withF, prompt, workers>> /\ workers = 0
    BY <1>5 DEF E2eEnd, EExit, StreamingInv
  <2>1. eexit' = "0" => evaluate_gates
    BY <1>5 DEF E2eEnd, EExit
  <2>2. \A p \in Prompts : Complete(p)
    <3> SUFFICES ASSUME NEW p \in Prompts PROVE Complete(p)
        OBVIOUS
    <3>1. pid = NPrompts
      BY <2>0 DEF StreamingInv
    <3> QED BY <2>0, <3>1, <1>a DEF StreamingInv, Prompts
  <2>3. VerdictCovers'
    <3> SUFFICES ASSUME eexit' = "0", NEW p \in Prompts
                 PROVE  /\ prompt[p].ok /\ prompt[p].b = "same" /\ (withF => prompt[p].f = "same")
                        /\ Len(prompt[p].lat) = LatencyRuns
        BY <2>0 DEF VerdictCovers
    <3>1. prompt[p].ok /\ prompt[p].b = "same" /\ prompt[p].f \in {"none", "same"}
      BY <2>1, Zenon DEF evaluate_gates
    <3> QED BY <3>1, <2>2 DEF Complete
  <2> QED BY <2>0, <2>3 DEF StreamingInv
<1>6. CASE WorkerEof
  <2>1. UNCHANGED <<epc, pid, scen, withF, prompt, eexit>> /\ epc = "end" /\ workers > 0 /\ workers' = workers - 1
    BY <1>6 DEF WorkerEof
  <2>2. eexit # "0"
    BY <2>1 DEF StreamingInv, VerdictCovers
  <2> QED BY <2>1, <2>2 DEF StreamingInv, VerdictCovers
<1>7. CASE UNCHANGED e2eVars
  <2>1. UNCHANGED <<epc, pid, scen, withF, prompt, workers, eexit>>
    BY <1>7 DEF e2eVars
  <2> QED BY <2>1, <1>b DEF StreamingInv, VerdictCovers
<1> QED BY <1>1, <1>2, <1>3, <1>4, <1>5, <1>6, <1>7 DEF StreamingNext

(* The streaming gate exits with 0 only with every prompt judged on all its      *)
(* runs, on F too if it was asked for, and with every worker closed (run_one,    *)
(* finally: w.close(), evaluate_gates).                                          *)
THEOREM VerdictIsComplete == StreamingSpec => []VerdictCovers
<1>1. StreamingInv => VerdictCovers
  BY DEF StreamingInv
<1> QED BY StreamingStart, StreamingKept, <1>1, PTL DEF StreamingSpec

-----------------------------------------------------------------------------
(* The percentiles of the latency gate                                       *)

(* The runs within x, and the runs below it. *)
AtMost(xs, x) == {i \in DOMAIN xs : xs[i] <= x}
(* ... strictly. *)
Below(xs, x) == {i \in DOMAIN xs : xs[i] < x}

(* They are finite, and there are more of them the larger x. *)
LEMMA Counts ==
  ASSUME NEW xs \in Seq(Nat), NEW x \in Nat, NEW y \in Nat
  PROVE  /\ Cardinality(AtMost(xs, x)) \in Nat /\ Cardinality(Below(xs, x)) \in Nat
         /\ x <= y => Cardinality(AtMost(xs, x)) <= Cardinality(AtMost(xs, y))
         /\ x < y => Cardinality(AtMost(xs, x)) <= Cardinality(Below(xs, y))
         /\ Cardinality(Below(xs, x + 1)) = Cardinality(AtMost(xs, x))
<1>1. IsFiniteSet(DOMAIN xs)
  BY FS_Interval
<1>2. \A z \in Nat : AtMost(xs, z) \in SUBSET DOMAIN xs /\ Below(xs, z) \in SUBSET DOMAIN xs
  BY DEF AtMost, Below
<1>3. \A z \in Nat : IsFiniteSet(AtMost(xs, z)) /\ IsFiniteSet(Below(xs, z))
  BY <1>1, <1>2, FS_Subset
<1>4. x <= y => AtMost(xs, x) \in SUBSET AtMost(xs, y)
  BY DEF AtMost
<1>5. x < y => AtMost(xs, x) \in SUBSET Below(xs, y)
  BY DEF AtMost, Below
<1>6. Below(xs, x + 1) = AtMost(xs, x)
  BY DEF AtMost, Below
<1>7. Cardinality(AtMost(xs, x)) \in Nat /\ Cardinality(Below(xs, x)) \in Nat
  BY <1>3, FS_CardinalityType
<1> QED BY <1>3, <1>4, <1>5, <1>6, <1>7, FS_Subset

(* The latencies of a prompt have a bound. *)
LEMMA Bounded ==
  ASSUME NEW xs \in Seq(Nat)
  PROVE  \E m \in Nat : \A i \in DOMAIN xs : xs[i] <= m
<1> DEFINE T == {j \in Nat : \E m \in Nat : \A i \in DOMAIN xs : i <= j => xs[i] <= m}
<1>1. 0 \in T
  OBVIOUS
<1>2. ASSUME NEW j \in Nat, j \in T PROVE j + 1 \in T
  <2>1. PICK m \in Nat : \A i \in DOMAIN xs : i <= j => xs[i] <= m
    BY <1>2
  <2>2. CASE j + 1 \notin DOMAIN xs
    <3>1. \A i \in DOMAIN xs : i <= j + 1 => xs[i] <= m
      BY <2>1, <2>2
    <3> QED BY <3>1
  <2>3. CASE j + 1 \in DOMAIN xs
    <3> DEFINE b == IF xs[j + 1] > m THEN xs[j + 1] ELSE m
    <3>1. xs[j + 1] \in Nat /\ m \in Nat
      BY <2>3
    <3>2. b \in Nat /\ xs[j + 1] <= b /\ m <= b
      BY <3>1
    <3> HIDE DEF b
    <3>3. ASSUME NEW i \in DOMAIN xs, i <= j + 1 PROVE xs[i] <= b
      <4>1. i \in Nat /\ xs[i] \in Nat
        OBVIOUS
      <4>2. i <= j \/ i = j + 1
        BY <3>3, <4>1
      <4>3. xs[i] <= m \/ i = j + 1
        BY <2>1, <4>2
      <4> QED BY <3>1, <3>2, <4>1, <4>3
    <3> QED BY <3>2, <3>3
  <2> QED BY <2>2, <2>3
<1> HIDE DEF T
<1>3. Len(xs) \in T
  BY <1>1, <1>2, AllNat
<1>4. PICK m \in Nat : \A i \in DOMAIN xs : i <= Len(xs) => xs[i] <= m
  BY <1>3 DEF T
<1>5. \A i \in DOMAIN xs : i <= Len(xs)
  OBVIOUS
<1> QED BY <1>4, <1>5

(* sorted: the n-th smallest is one of the values; fewer than n are below it,   *)
(* at least n are not above it.                                                *)
LEMMA SortedIs ==
  ASSUME NEW xs \in Seq(Nat), NEW n \in 1..Len(xs)
  PROVE  /\ sorted(xs, n) \in Nat
         /\ Cardinality(Below(xs, sorted(xs, n))) < n
         /\ Cardinality(AtMost(xs, sorted(xs, n))) >= n
<1> DEFINE T == {x \in Nat : Cardinality(AtMost(xs, x)) >= n}
<1>1. T # {}
  <2>1. PICK m \in Nat : \A i \in DOMAIN xs : xs[i] <= m
    BY Bounded
  <2>2. AtMost(xs, m) = 1..Len(xs)
    BY <2>1 DEF AtMost
  <2>3. Cardinality(AtMost(xs, m)) = Len(xs)
    <3>1. 1 \in Int /\ Len(xs) \in Int /\ ~(1 > Len(xs)) /\ Len(xs) - 1 + 1 = Len(xs)
      OBVIOUS
    <3> QED BY <2>2, <3>1, FS_Interval
  <2> QED BY <2>3
<1>2. PICK x \in T : \A y \in T : x <= y
  BY <1>1, LeastNat
<1>3. Cardinality(Below(xs, x)) < n
  <2>1. CASE x = 0
    <3>1. Below(xs, x) = {}
      BY <2>1 DEF Below
    <3> QED BY <3>1, FS_EmptySet
  <2>2. CASE x # 0
    <3>1. x - 1 \in Nat /\ x - 1 \notin T
      BY <1>2, <2>2
    <3>2. Cardinality(AtMost(xs, x - 1)) \in Nat /\ Cardinality(Below(xs, (x - 1) + 1)) = Cardinality(AtMost(xs, x - 1))
      BY <3>1, Counts
    <3>3. ~(Cardinality(AtMost(xs, x - 1)) >= n)
      BY <3>1
    <3>4. (x - 1) + 1 = x
      OBVIOUS
    <3> QED BY <3>2, <3>3, <3>4
  <2> QED BY <2>1, <2>2
<1>4. x \in ToSet(xs)
  <2>1. Below(xs, x) # AtMost(xs, x)
    BY <1>2, <1>3, Counts
  <2>2. PICK i \in DOMAIN xs : xs[i] <= x /\ ~(xs[i] < x)
    BY <2>1 DEF Below, AtMost
  <2>3. xs[i] = x
    BY <2>2
  <2> QED BY <2>3 DEF ToSet
<1>5. \E z \in ToSet(xs) : Cardinality(Below(xs, z)) < n /\ Cardinality(AtMost(xs, z)) >= n
  BY <1>2, <1>3, <1>4
<1>6. sorted(xs, n) \in ToSet(xs) /\ Cardinality(Below(xs, sorted(xs, n))) < n /\ Cardinality(AtMost(xs, sorted(xs, n))) >= n
  <2> DEFINE S == ToSet(xs)
             Q(z) == Cardinality(Below(xs, z)) < n /\ Cardinality(AtMost(xs, z)) >= n
  <2>1. sorted(xs, n) = CHOOSE z \in S : Q(z)
    BY Zenon DEF sorted, Below, AtMost
  <2>2. \E z \in S : Q(z)
    BY <1>5
  <2> HIDE DEF S, Q
  <2>3. sorted(xs, n) \in S /\ Q(sorted(xs, n))
    BY <2>1, <2>2
  <2> QED BY <2>3 DEF S, Q
<1>7. \A i \in DOMAIN xs : xs[i] \in Nat
  OBVIOUS
<1>8. ToSet(xs) \subseteq Nat
  BY <1>7, Zenon DEF ToSet
<1> QED BY <1>6, <1>8

(* A percentile within a gate leaves at least its share of the runs within it:  *)
(* interpolation only adds to the lower of the two values.                     *)
LEMMA PercentileWithin ==
  ASSUME NEW xs \in Seq(Nat), Len(xs) > 0, NEW p \in 0..100, NEW g \in Nat, percentile(xs, p) <= 100 * g
  PROVE  Cardinality(AtMost(xs, g)) >= ((Len(xs) - 1) * p) \div 100 + 1
<1> DEFINE k == (Len(xs) - 1) * p
           f == k \div 100
           c == (k + 99) \div 100
           lo == sorted(xs, f + 1)
           hi == sorted(xs, c + 1)
<1>1. k \in Nat /\ k <= 100 * (Len(xs) - 1)
  <2> DEFINE n == Len(xs) - 1
  <2>1. n \in Nat /\ p \in Nat /\ p <= 100
    OBVIOUS
  <2> HIDE DEF n
  <2>2. n * p \in Nat /\ n * p <= 100 * n
    BY ONLY <2>1
  <2> QED BY <2>2 DEF n
<1>2. f + 1 \in 1..Len(xs) /\ c + 1 \in 1..Len(xs) /\ f <= c /\ k - 100 * f \in Nat
  <2> HIDE DEF k
  <2> QED BY <1>1
<1>3. percentile(xs, p) = 100 * lo + (hi - lo) * (k - 100 * f)
  BY DEF percentile
<1> HIDE DEF k, f, c
<1>4. /\ lo \in Nat /\ Cardinality(Below(xs, lo)) < f + 1 /\ Cardinality(AtMost(xs, lo)) >= f + 1
      /\ hi \in Nat /\ Cardinality(Below(xs, hi)) < c + 1 /\ Cardinality(AtMost(xs, hi)) >= c + 1
  BY <1>2, SortedIs
<1> HIDE DEF lo, hi
<1>5. f \in Int /\ c \in Int
  BY <1>1 DEF f, c
<1>6. lo <= hi
  <2> SUFFICES ASSUME hi < lo PROVE FALSE
    BY <1>4
  <2>1. Cardinality(AtMost(xs, hi)) <= Cardinality(Below(xs, lo)) /\ Cardinality(AtMost(xs, hi)) \in Nat /\ Cardinality(Below(xs, lo)) \in Nat
    BY <1>4, Counts
  <2>2. f <= c /\ Cardinality(Below(xs, lo)) < f + 1 /\ Cardinality(AtMost(xs, hi)) >= c + 1
    BY <1>2, <1>4
  <2> QED BY <2>1, <2>2, <1>5
<1>7. \A a, b \in Nat : a * b \in Nat
  OBVIOUS
<1>8. (hi - lo) * (k - 100 * f) \in Nat
  BY <1>7, <1>6, <1>4, <1>2
<1>9. lo <= g
  <2> DEFINE d == (hi - lo) * (k - 100 * f)
  <2>1. d \in Nat /\ lo \in Nat /\ 100 * lo + d <= 100 * g
    BY <1>8, <1>3, <1>4
  <2> HIDE DEF d
  <2> QED BY <2>1
<1>10. Cardinality(AtMost(xs, lo)) <= Cardinality(AtMost(xs, g)) /\ Cardinality(AtMost(xs, lo)) \in Nat /\ Cardinality(AtMost(xs, g)) \in Nat
  BY <1>9, <1>4, Counts
<1>11. Cardinality(AtMost(xs, g)) >= f + 1
  <2> DEFINE u == Cardinality(AtMost(xs, lo))
             w == Cardinality(AtMost(xs, g))
  <2>1. u \in Nat /\ w \in Nat /\ u <= w /\ u >= f + 1 /\ f \in Int
    BY <1>10, <1>4, <1>5
  <2> HIDE DEF u, w
  <2>2. w >= f + 1
    BY ONLY <2>1
  <2> QED BY <2>2 DEF w
<1> QED BY <1>11 DEF f, k

(* An exit code 0 comes from the gates, on the lines as they are.               *)
GatesMet == eexit = "0" => evaluate_gates

(* Only the verdict sets it, and nothing is measured after.                      *)
LEMMA GatesMetKept == StreamingInv /\ GatesMet /\ [StreamingNext]_e2eVars => GatesMet'
<1> SUFFICES ASSUME StreamingInv, GatesMet, [StreamingNext]_e2eVars PROVE GatesMet'
    OBVIOUS
<1>a. ASSUME UNCHANGED prompt PROVE evaluate_gates' <=> evaluate_gates
  BY <1>a DEF evaluate_gates
<1>1. CASE NoPrompts \/ E2eSpawn \/ scenario \/ close \/ run_one
  <2>1. eexit = "none"
    BY <1>1 DEF StreamingInv, NoPrompts, E2eSpawn, scenario, close, run_one
  <2>2. eexit' \in {eexit, "1", "2"}
    BY <1>1 DEF NoPrompts, E2eSpawn, scenario, close, run_one, EExit
  <2> QED BY <2>1, <2>2 DEF GatesMet
<1>2. CASE E2eEnd
  <2>1. UNCHANGED prompt /\ (eexit' = "0" => evaluate_gates)
    BY <1>2 DEF E2eEnd, EExit
  <2> QED BY <2>1, <1>a DEF GatesMet
<1>3. CASE WorkerEof \/ UNCHANGED e2eVars
  <2>1. UNCHANGED <<prompt, eexit>>
    BY <1>3 DEF WorkerEof, e2eVars
  <2> QED BY <2>1, <1>a DEF GatesMet
<1> QED BY <1>1, <1>2, <1>3 DEF StreamingNext

(* The streaming gate exits with 0 only when on every prompt enough runs were     *)
(* within each latency gate, every stream asked for gave the one-shot text, and    *)
(* no worker is left (percentile, evaluate_gates, finally: w.close()).             *)
THEOREM VerdictIsHonest == StreamingSpec => []VerdictHonest
<1>1. StreamingInit => GatesMet
  BY DEF StreamingInit, GatesMet
<1>2. ASSUME StreamingInv, GatesMet PROVE VerdictHonest
  <2> SUFFICES ASSUME eexit = "0" PROVE VerdictHonest
    BY DEF VerdictHonest
  <2>1. workers = 0
    BY <1>2 DEF StreamingInv, VerdictCovers
  <2>2. ASSUME NEW p \in Prompts
        PROVE  /\ prompt[p].ok /\ prompt[p].b = "same" /\ (withF => prompt[p].f = "same")
               /\ Len(prompt[p].lat) = LatencyRuns
               /\ 2 * Cardinality(AtMost(prompt[p].lat, MedianGate)) >= Len(prompt[p].lat)
               /\ 100 * (Cardinality(AtMost(prompt[p].lat, P95Gate)) - 1) >= 95 * (Len(prompt[p].lat) - 1) - 99
    <3> DEFINE xs == prompt[p].lat
    <3>1. /\ prompt[p].ok /\ prompt[p].b = "same" /\ (withF => prompt[p].f = "same")
          /\ Len(xs) = LatencyRuns
      BY <1>2, <2>2 DEF StreamingInv, VerdictCovers
    <3>2. xs \in Seq(Nat)
      <4>1. xs \in Seq(Latencies)
        BY <1>2 DEF StreamingInv, Lines
      <4>2. \A i \in 1..Len(xs) : xs[i] \in Nat
        <5>1. \A i \in 1..Len(xs) : xs[i] \in Latencies
          <6> HIDE DEF xs
          <6> QED BY <4>1
        <5> QED BY <5>1, StreamingAssumption
      <4>3. xs = [i \in 1..Len(xs) |-> xs[i]] /\ Len(xs) \in Nat
        BY <4>1
      <4> HIDE DEF xs
      <4> QED BY <4>2, <4>3
    <3>3. Len(xs) \in Nat /\ Len(xs) > 0 /\ MedianGate \in Nat /\ P95Gate \in Nat
      BY <3>1, StreamingAssumption
    <3>4. percentile(xs, 50) <= 100 * MedianGate /\ percentile(xs, 95) <= 100 * P95Gate
      BY <1>2, Zenon DEF GatesMet, evaluate_gates
    <3> HIDE DEF xs
    <3>5. Cardinality(AtMost(xs, MedianGate)) >= ((Len(xs) - 1) * 50) \div 100 + 1
      BY <3>2, <3>3, <3>4, PercentileWithin
    <3>6. Cardinality(AtMost(xs, P95Gate)) >= ((Len(xs) - 1) * 95) \div 100 + 1
      BY <3>2, <3>3, <3>4, PercentileWithin
    <3>7. Cardinality(AtMost(xs, MedianGate)) \in Nat /\ Cardinality(AtMost(xs, P95Gate)) \in Nat
      BY <3>2, <3>3, Counts
    <3>8. \A n, a \in Nat : n > 0 /\ a >= ((n - 1) * 50) \div 100 + 1 => 2 * a >= n
      OBVIOUS
    <3>9. \A n, a \in Nat : n > 0 /\ a >= ((n - 1) * 95) \div 100 + 1 => 100 * (a - 1) >= 95 * (n - 1) - 99
      OBVIOUS
    <3>10. 2 * Cardinality(AtMost(xs, MedianGate)) >= Len(xs)
      BY <3>3, <3>5, <3>7, <3>8
    <3>11. 100 * (Cardinality(AtMost(xs, P95Gate)) - 1) >= 95 * (Len(xs) - 1) - 99
      BY <3>3, <3>6, <3>7, <3>9
    <3> QED BY <3>1, <3>10, <3>11 DEF xs
  <2> QED BY <2>1, <2>2 DEF VerdictHonest, AtMost
<1> QED BY StreamingStart, StreamingKept, GatesMetKept, <1>1, <1>2, PTL DEF StreamingSpec

-----------------------------------------------------------------------------
(* What the round trip imports                                                *)

(* Whatever is on a path. *)
Dirs == {"app", "overlay"} \cup UNION {ToSet(p) : p \in StartPaths}

(* The path of the round trip stays a list of directories, and while the app     *)
(* is deployed nothing else was imported.                                       *)
AppInv ==
  program = "roundtrip" => path \in Seq(Dirs) /\ (dep.app => loaded \in {"none", "app"})

(* What is kept of a path is a path. *)
LEMMA PickedPath ==
  ASSUME NEW p \in Seq(Dirs), NEW K \in SUBSET DOMAIN p
  PROVE  Picked(p, K) \in Seq(Dirs)
<1>1. Len(p) \in Nat /\ K \in SUBSET (1..Len(p))
  OBVIOUS
<1>2. Cardinality(K) \in Nat /\ \A n \in 1..Cardinality(K) : Nth(K, n) \in K
  BY <1>1, RankFacts, NthIs
<1>3. \A n \in 1..Cardinality(K) : p[Nth(K, n)] \in Dirs
  BY <1>2
<1> QED BY <1>2, <1>3 DEF Picked

(* The prepared path starts with the app, which is what an import finds. *)
LEMMA AppIsFirst ==
  ASSUME path \in Seq(Dirs)
  PROVE  prepare_imports \in Seq(Dirs) /\ (dep.app => Resolve(prepare_imports) = "app")
<1> DEFINE K == {i \in DOMAIN path : path[i] \notin {"app", "overlay"}}
           rest == Picked(path, K)
<1>1. rest \in Seq(Dirs)
  BY PickedPath
<1> HIDE DEF rest
<1>2. prepare_imports = (IF dep.app THEN <<"app", "overlay">> ELSE <<"overlay">>) \o rest
  BY DEF prepare_imports, rest
<1>a. \A S, x, y : x \in S /\ y \in S => <<x, y>> \in Seq(S) /\ <<y>> \in Seq(S)
  OBVIOUS
<1>b. "app" \in Dirs /\ "overlay" \in Dirs
  BY DEF Dirs
<1>3. <<"app", "overlay">> \in Seq(Dirs) /\ <<"overlay">> \in Seq(Dirs)
  BY <1>a, <1>b, Zenon
<1>c. \A S, x, y : x \in Seq(S) /\ y \in Seq(S) => x \o y \in Seq(S)
  OBVIOUS
<1>4. prepare_imports \in Seq(Dirs)
  BY <1>1, <1>2, <1>3, <1>c
<1>5. ASSUME dep.app PROVE Resolve(prepare_imports) = "app"
  <2> DEFINE p == prepare_imports
  <2>1. p \in Seq(Dirs) /\ 1 \in DOMAIN p /\ p[1] = "app"
    BY <1>1, <1>2, <1>4, <1>5
  <2> HIDE DEF p
  <2> DEFINE regular(d) == (d = "app" /\ dep.app) \/ (d = "overlay" /\ dep.legacy = "package")
             hits == {i \in DOMAIN p : regular(p[i])}
  <2>2. 1 \in hits
    BY <2>1, <1>5
  <2>3. \A y \in hits : y \in Nat /\ 1 <= y
    BY <2>1
  <2> HIDE DEF hits
  <2>4. Min(hits) \in hits /\ Min(hits) <= 1
    BY <2>2, <2>3 DEF Min
  <2>5. Min(hits) = 1
    BY <2>3, <2>4
  <2>6. Resolve(p) = IF hits # {} THEN p[Min(hits)]
                     ELSE IF dep.legacy = "namespace" /\ Contains(p, "overlay") THEN "overlay" ELSE "none"
    BY DEF Resolve, hits
  <2> QED BY <2>1, <2>2, <2>5, <2>6 DEF p
<1> QED BY <1>4, <1>5

(* It holds of every starting path and is kept by every case. *)
LEMMA AppKept == (ContractInit => AppInv) /\ (AppInv /\ [ContractNext]_contractVars => AppInv')
<1>1. ASSUME ContractInit PROVE AppInv
  <2>1. path \in StartPaths /\ loaded = "none"
    BY <1>1 DEF ContractInit
  <2>2. ToSet(path) \subseteq Dirs
    BY <2>1, Zenon DEF Dirs
  <2>3. path \in Seq(ToSet(path))
    BY <2>1, PathAssumption
  <2>4. path \in Seq(Dirs)
    BY <2>2, <2>3
  <2> QED BY <2>1, <2>4 DEF AppInv
<1>2. ASSUME AppInv, [ContractNext]_contractVars PROVE AppInv'
  <2>1. CASE RoundtripCase
    <3>1. /\ program = "roundtrip" /\ program' = program /\ dep' = dep /\ path' = prepare_imports
          /\ loaded' = IF loaded # "none" THEN loaded ELSE Resolve(path')
      BY <2>1 DEF RoundtripCase
    <3>3. path \in Seq(Dirs) /\ (dep.app => loaded \in {"none", "app"})
      BY <1>2, <3>1 DEF AppInv
    <3>4. prepare_imports \in Seq(Dirs) /\ (dep.app => Resolve(prepare_imports) = "app")
      BY <3>3, AppIsFirst
    <3> QED BY <3>1, <3>3, <3>4 DEF AppInv
  <2>2. CASE ContractImport
    BY <2>2 DEF ContractImport, AppInv
  <2>3. CASE RoundtripDone \/ RequireLoaded \/ PreloadRaises \/ RequireFiles \/ RequireEngines \/ RequireSample \/ ContractOk
    <3>1. UNCHANGED <<dep, program, path, loaded>>
      BY <2>3 DEF RoundtripDone, RequireLoaded, PreloadRaises, RequireFiles, RequireEngines, RequireSample, ContractOk, Require
    <3> QED BY <3>1, <1>2 DEF AppInv
  <2>4. CASE UNCHANGED contractVars
    BY <2>4, <1>2 DEF contractVars, AppInv
  <2> QED BY <1>2, <2>1, <2>2, <2>3, <2>4 DEF ContractNext
<1> QED BY <1>1, <1>2

(* In the round trip the product app's backends package is the one that is         *)
(* imported, whatever sys.path was and however often it was prepared              *)
(* (_prepare_imports).                                                           *)
THEOREM ProductAppIsImported == ContractSpec => []ProductAppWins
<1>1. AppInv => ProductAppWins
  BY DEF AppInv, ProductAppWins
<1> QED BY AppKept, <1>1, PTL DEF ContractSpec

=============================================================================
