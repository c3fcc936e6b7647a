-------------------------- MODULE AsrWorkerProofs --------------------------
(***************************************************************************)
(* Machine-checked proofs about the ASR worker, for any number of          *)
(* sessions, lanes, files and lines.                                       *)
(***************************************************************************)
EXTENDS AsrWorker, FiniteSetTheorems, TLAPS

(* The lane arithmetic the rest relies on: the ASR partition is 0..asrMax-1  *)
(* and lies within the physical rows.                                        *)
LEMMA AsrPartition ==
  /\ asrMax \in Nat \ {0} /\ asrMax <= PhysBatch
  /\ Lane!Partition("kAsr") = 0 .. asrMax - 1
  /\ Lane!Partition("kAsr") \subseteq Lane!Lanes
  /\ \A lane \in Lane!Partition("kAsr") : lane # -1 /\ lane \in Int
<1>1. asrMax \in Nat \ {0} /\ asrMax <= PhysBatch
  BY AsrConstants DEF asrMax
<1>2. Lane!Partition("kAsr") = 0 .. asrMax - 1
  BY <1>1 DEF Lane!Partition, Lane!Base
<1>3. QED
  BY <1>1, <1>2, AsrConstants DEF Lane!Lanes

(* A dispatched line is a line, and the buffer keeps its type. *)
LEMMA DispatchType ==
  ASSUME TypeOK, NEW event, Dispatch(event)
  PROVE  /\ line \in Line /\ line.sid \in Sids \cup {NoId}
         /\ line.audio \in Audio \cup {None}
         /\ buffer' \in Seq(Line) /\ pipe' \in Seq(Line)
         /\ stdinOpen' \in BOOLEAN /\ loop' \in {"poll", "lines", "exited"}
<1>1. line \in Line /\ buffer' \in Seq(Line)
  BY DEF TypeOK, Dispatch, line
<1>2. line.sid \in Sids \cup {NoId} /\ line.audio \in Audio \cup {None}
  BY <1>1 DEF Line
<1>3. QED
  BY <1>1, <1>2 DEF TypeOK, Dispatch

-----------------------------------------------------------------------------
(* Typing of the pieces the actions are made of. *)

(* A session record put into the map. *)
LEMMA SessionType ==
  ASSUME TypeOK, NEW s \in Sids, NEW st \in SessionState, SetSession(s, st)
  PROVE  gSessions' \in [Sids -> SessionState]
BY DEF TypeOK, SetSession

(* Files removed from the disk. *)
LEMMA FilesType ==
  ASSUME NEW fs \in [TempFiles -> Pcms \cup {None}], NEW gone
  PROVE  Without(fs, gone) \in [TempFiles -> Pcms \cup {None}]
BY DEF Without

(* An event with a transcript. *)
LEMMA EmitTextType ==
  ASSUME NEW name \in {"begin_ack", "chunk_ack", "partial", "final", "timeout",
                       "done", "pool_saturated", "error"},
         NEW s \in Sids \cup {NoId}, NEW text \in Audio \cup {None},
         EmitText(name, s, text)
  PROVE  out' \in SUBSET Event
BY DEF EmitText, Event

(* An event without one. *)
LEMMA EmitType ==
  ASSUME NEW name \in {"begin_ack", "chunk_ack", "partial", "final", "timeout",
                       "done", "pool_saturated", "error"},
         NEW s \in Sids \cup {NoId}, Emit(name, s)
  PROVE  out' \in SUBSET Event
BY EmitTextType DEF Emit

(* The event of a decode. *)
LEMMA DecodesType ==
  ASSUME NEW fs \in [TempFiles -> Pcms \cup {None}],
         NEW path \in MelPaths \cup TempFiles, NEW s \in Sids,
         NEW name \in {"partial", "final"}, Decodes(name, s, path, fs)
  PROVE  out' \in SUBSET Event
<1>1. ContentOf(path, fs) \in Audio \cup {None}
  BY DEF ContentOf, Audio
<1>2. QED
  BY <1>1, EmitType, EmitTextType DEF Decodes

(* Lanes released. *)
LEMMA ReleaseType ==
  ASSUME Lane!LaneTypeOK, NEW ids, Lane!release(ids)
  PROVE  Lane!LaneTypeOK'
BY DEF Lane!LaneTypeOK, Lane!release, Lane!FreeLane, Lane!LaneRecord

(* The audio of a line put into a session: its lane and its owned file stay. *)
LEMMA WithAudioType ==
  ASSUME NEW st \in SessionState, NEW audio \in Audio \cup {None}
  PROVE  /\ WithAudio(st, audio) \in SessionState
         /\ [WithAudio(st, audio) EXCEPT !.idle = 0] \in SessionState
         /\ WithAudio(st, audio).melPathOwned = st.melPathOwned
         /\ WithAudio(st, audio).laneId = st.laneId
<1> DEFINE mel == IF audio \in MelPaths THEN audio ELSE st.melPath
           pcm == IF audio \in Pcms THEN audio ELSE st.pcmB64
<1>1. /\ mel \in MelPaths \cup TempFiles \cup {None}
      /\ pcm \in Pcms \cup {None}
  BY DEF SessionState
<1>2. WithAudio(st, audio) = [st EXCEPT !.melPath = mel, !.pcmB64 = pcm]
  BY DEF WithAudio
<1> HIDE DEF mel, pcm
<1>3. WithAudio(st, audio) \in SessionState
  BY <1>1, <1>2 DEF SessionState
<1>4. 0 \in 0 .. IdleTimeout + 1
  BY AsrConstants
<1>5. [WithAudio(st, audio) EXCEPT !.idle = 0] \in SessionState
  BY <1>3, <1>4 DEF SessionState
<1>6. QED
  BY <1>2, <1>3, <1>5 DEF SessionState

(* The value that stands for no session. *)
LEMMA NoSessionType == NoSession \in SessionState
BY AsrConstants DEF NoSession, SessionState

(* The history of what a session received. *)
LEMMA ReceivedType ==
  ASSUME TypeOK, NEW s \in Sids, NEW audio \in Audio \cup {None}, Received(s, audio)
  PROVE  latest' \in [Sids -> Receipt]
BY DEF TypeOK, Received, Receipt, Audio

-----------------------------------------------------------------------------
(* Typing, action by action. *)

(* handleBegin. *)
LEMMA BeginType == TypeOK /\ handleBegin => TypeOK'
<1> SUFFICES ASSUME TypeOK, handleBegin PROVE TypeOK'
  OBVIOUS
<1> DEFINE s == line.sid
<1>1. /\ s \in Sids \cup {NoId} /\ buffer' \in Seq(Line) /\ pipe' \in Seq(Line)
      /\ stdinOpen' \in BOOLEAN /\ loop' \in {"poll", "lines", "exited"}
      /\ tempFiles' = tempFiles
  BY DispatchType DEF handleBegin
<1>2. out' \in SUBSET Event
  BY <1>1, EmitType DEF handleBegin
<1>3. latest' \in [Sids -> Receipt]
  <2>1. Nothing \in Receipt
    BY DEF Nothing, Receipt
  <2>2. latest' = latest \/ latest' = [latest EXCEPT ![s] = Nothing]
    BY DEF handleBegin
  <2>3. QED
    BY <2>1, <2>2 DEF TypeOK
<1>4. gSessions' \in [Sids -> SessionState] /\ Lane!LaneTypeOK'
  <2>1. CASE gSessions' = gSessions /\ asrLanes' = asrLanes
    BY <2>1 DEF TypeOK, Lane!LaneTypeOK
  <2>2. CASE /\ s \in Open /\ UNCHANGED asrLanes
             /\ SetSession(s, [gSessions[s] EXCEPT !.idle = 0])
    <3>1. s \in Sids /\ gSessions[s] \in SessionState
      BY <2>2 DEF Open, TypeOK
    <3>2. [gSessions[s] EXCEPT !.idle = 0] \in SessionState
      BY <3>1, AsrConstants DEF SessionState
    <3>3. QED
      BY <2>2, <3>1, <3>2, SessionType DEF TypeOK, Lane!LaneTypeOK
  <2>3. ASSUME s \in Sids \ Open, NEW lane \in Lane!Partition("kAsr"),
               Lane!acquire("kAsr", s, lane),
               SetSession(s, [NoSession EXCEPT !.laneId = lane])
        PROVE  gSessions' \in [Sids -> SessionState] /\ Lane!LaneTypeOK'
    <3>1. [NoSession EXCEPT !.laneId = lane] \in SessionState
      BY NoSessionType, AsrPartition DEF SessionState
    <3>2. gSessions' \in [Sids -> SessionState]
      BY <2>3, <3>1, SessionType
    <3>3. Lane!LaneTypeOK
      BY DEF TypeOK
    <3>4. Lane!LaneTypeOK'
      BY <2>3, <3>3, AsrPartition
      DEF Lane!acquire, Lane!LaneTypeOK, Lane!LaneRecord, Lane!Base
    <3>5. QED
      BY <3>2, <3>4
  <2>4. QED
    BY <2>1, <2>2, <2>3 DEF handleBegin, Lane!acquireFails
<1>5. QED
  BY <1>1, <1>2, <1>3, <1>4 DEF TypeOK

(* handleChunk. *)
LEMMA ChunkType == TypeOK /\ handleChunk => TypeOK'
<1> SUFFICES ASSUME TypeOK, handleChunk PROVE TypeOK'
  OBVIOUS
<1> DEFINE s == line.sid
           st == [WithAudio(gSessions[s], line.audio) EXCEPT !.idle = 0]
           removed == Without(tempFiles, {st.melPathOwned})
<1>1. /\ s \in Sids /\ buffer' \in Seq(Line) /\ pipe' \in Seq(Line)
      /\ stdinOpen' \in BOOLEAN /\ loop' \in {"poll", "lines", "exited"}
      /\ asrLanes' = asrLanes /\ line.audio \in Audio \cup {None}
      /\ gSessions[s] \in SessionState
  BY DispatchType DEF handleChunk, Open, TypeOK
<1>2. latest' \in [Sids -> Receipt]
  BY <1>1, ReceivedType DEF handleChunk
<1>3. st \in SessionState
  BY <1>1, WithAudioType
<1>4. /\ tempFiles \in [TempFiles -> Pcms \cup {None}]
      /\ removed \in [TempFiles -> Pcms \cup {None}]
  BY FilesType DEF TypeOK
<1> HIDE DEF s, st, removed
<1>5. /\ gSessions' \in [Sids -> SessionState]
      /\ tempFiles' \in [TempFiles -> Pcms \cup {None}]
      /\ out' \in SUBSET Event
  <2>1. CASE /\ SetSession(s, st) /\ Emit("error", s)
             /\ tempFiles' \in {tempFiles, removed}
    BY <2>1, <1>1, <1>3, <1>4, SessionType, EmitType
  <2>2. ASSUME st.pcmB64 # None, NEW f \in TempFiles,
               tempFiles' = [removed EXCEPT ![f] = st.pcmB64],
               SetSession(s, [st EXCEPT !.melPath = f, !.melPathOwned = f]),
               Decodes("partial", s, f, tempFiles')
        PROVE  /\ gSessions' \in [Sids -> SessionState]
               /\ tempFiles' \in [TempFiles -> Pcms \cup {None}]
               /\ out' \in SUBSET Event
    <3>1. tempFiles' \in [TempFiles -> Pcms \cup {None}]
      BY <2>2, <1>3, <1>4 DEF SessionState
    <3>2. [st EXCEPT !.melPath = f, !.melPathOwned = f] \in SessionState
      BY <2>2, <1>3 DEF SessionState
    <3>3. out' \in SUBSET Event
      BY <2>2, <3>1, <1>1, DecodesType
    <3>4. QED
      BY <2>2, <3>1, <3>2, <3>3, <1>1, SessionType
  <2>3. CASE /\ SetSession(s, st) /\ tempFiles' = tempFiles
             /\ IF st.melPath = None THEN Emit("chunk_ack", s)
                                     ELSE Decodes("partial", s, st.melPath, tempFiles)
    <3>1. st.melPath \in MelPaths \cup TempFiles \cup {None}
      BY <1>3 DEF SessionState
    <3>2. out' \in SUBSET Event
      BY <2>3, <3>1, <1>1, <1>4, EmitType, DecodesType
    <3>3. QED
      BY <2>3, <3>2, <1>1, <1>3, <1>4, SessionType
  <2>4. QED
    BY <2>1, <2>2, <2>3 DEF handleChunk, s, st, removed
<1>6. QED
  BY <1>1, <1>2, <1>5 DEF TypeOK, Lane!LaneTypeOK

(* The end of a session. *)
LEMMA CloseType ==
  ASSUME TypeOK, NEW s \in Sids, NEW fs \in [TempFiles -> Pcms \cup {None}],
         NEW owned, Close(s, fs, owned)
  PROVE  /\ gSessions' \in [Sids -> SessionState] /\ Lane!LaneTypeOK'
         /\ tempFiles' \in [TempFiles -> Pcms \cup {None}]
<1>1. Lane!LaneTypeOK
  BY DEF TypeOK
<1>2. QED
  BY <1>1, NoSessionType, SessionType, FilesType, ReleaseType DEF Close

(* handleEnd. *)
LEMMA EndType == TypeOK /\ handleEnd => TypeOK'
<1> SUFFICES ASSUME TypeOK, handleEnd PROVE TypeOK'
  OBVIOUS
<1> DEFINE s == line.sid
           st == WithAudio(gSessions[s], line.audio)
           old == {gSessions[s].melPathOwned}
<1>1. /\ s \in Sids /\ buffer' \in Seq(Line) /\ pipe' \in Seq(Line)
      /\ stdinOpen' \in BOOLEAN /\ loop' \in {"poll", "lines", "exited"}
      /\ line.audio \in Audio \cup {None} /\ gSessions[s] \in SessionState
  BY DispatchType DEF handleEnd, Open, TypeOK
<1>2. latest' \in [Sids -> Receipt]
  BY <1>1, ReceivedType DEF handleEnd
<1>3. st \in SessionState
  BY <1>1, WithAudioType
<1>4. /\ tempFiles \in [TempFiles -> Pcms \cup {None}]
      /\ Without(tempFiles, old) \in [TempFiles -> Pcms \cup {None}]
  BY FilesType DEF TypeOK
<1> HIDE DEF s, st, old
<1>5. /\ gSessions' \in [Sids -> SessionState] /\ Lane!LaneTypeOK'
      /\ tempFiles' \in [TempFiles -> Pcms \cup {None}]
      /\ out' \in SUBSET Event
  <2>1. ASSUME line.audio \in Pcms, NEW f \in TempFiles,
               LET written == [Without(tempFiles, old) EXCEPT ![f] = line.audio]
               IN  /\ Decodes("final", s, f, written)
                   /\ Close(s, written, old \cup {f})
        PROVE  /\ gSessions' \in [Sids -> SessionState] /\ Lane!LaneTypeOK'
               /\ tempFiles' \in [TempFiles -> Pcms \cup {None}]
               /\ out' \in SUBSET Event
    <3> DEFINE written == [Without(tempFiles, old) EXCEPT ![f] = line.audio]
    <3>1. written \in [TempFiles -> Pcms \cup {None}]
      BY <2>1, <1>4
    <3> HIDE DEF written
    <3>2. Decodes("final", s, f, written) /\ Close(s, written, old \cup {f})
      BY <2>1 DEF written
    <3>3. QED
      BY <3>1, <3>2, <1>1, CloseType, DecodesType
  <2>2. CASE Emit("error", s) /\ Close(s, tempFiles, old)
    BY <2>2, <1>1, <1>4, CloseType, EmitType
  <2>3. CASE /\ st.melPath # None /\ Decodes("final", s, st.melPath, tempFiles)
             /\ Close(s, tempFiles, old)
    <3>1. st.melPath \in MelPaths \cup TempFiles
      BY <2>3, <1>3 DEF SessionState
    <3>2. QED
      BY <2>3, <3>1, <1>1, <1>4, CloseType, DecodesType
  <2>4. QED
    BY <2>1, <2>2, <2>3 DEF handleEnd, s, st, old
<1>6. QED
  BY <1>1, <1>2, <1>5 DEF TypeOK

(* The sweep, for both of its call sites. *)
LEMMA SweepType ==
  ASSUME TypeOK, sweepIdleSessions
  PROVE  /\ gSessions' \in [Sids -> SessionState] /\ Lane!LaneTypeOK'
         /\ tempFiles' \in [TempFiles -> Pcms \cup {None}]
         /\ out' \in SUBSET Event /\ latest' \in [Sids -> Receipt]
<1>1. gSessions' \in [Sids -> SessionState]
  BY NoSessionType DEF sweepIdleSessions, TypeOK
<1>2. Lane!LaneTypeOK /\ tempFiles \in [TempFiles -> Pcms \cup {None}]
  BY DEF TypeOK
<1>3. Lane!LaneTypeOK' /\ tempFiles' \in [TempFiles -> Pcms \cup {None}]
  BY <1>2, ReleaseType, FilesType DEF sweepIdleSessions
<1>4. out' \in SUBSET Event
  BY DEF sweepIdleSessions, Event, Idle, Open
<1>5. QED
  BY <1>1, <1>3, <1>4 DEF sweepIdleSessions, TypeOK

(* Type correctness: the worker's variables keep their types in every        *)
(* behaviour of the main loop and its handlers.                              *)
THEOREM TypeCorrect == Spec => []TypeOK
<1>1. Init => TypeOK
  <2> SUFFICES ASSUME Init PROVE TypeOK
    OBVIOUS
  <2>1. Lane!LaneTypeOK
    BY DEF Init, Lane!LaneInit, Lane!LaneTypeOK, Lane!LaneRecord, Lane!FreeLane
  <2>2. gSessions \in [Sids -> SessionState]
    BY NoSessionType DEF Init
  <2>3. QED
    BY <2>1, <2>2 DEF Init, TypeOK, Receipt, Nothing
<1>2. TypeOK /\ [Next]_vars => TypeOK'
  <2> SUFFICES ASSUME TypeOK, [Next]_vars PROVE TypeOK'
    OBVIOUS
  <2>1. CASE handleBegin \/ handleChunk \/ handleEnd
    BY <2>1, BeginType, ChunkType, EndType
  <2>2. CASE unknownSession("chunk") \/ unknownSession("end")
    <3>1. out' \in SUBSET Event
      BY <2>2, DispatchType, EmitType DEF unknownSession
    <3>2. QED
      BY <2>2, <3>1, DispatchType DEF unknownSession, TypeOK, Lane!LaneTypeOK
  <2>3. CASE oneShot \/ rejectLine
    <3>1. out' \in SUBSET Event
      BY <2>3, DispatchType, EmitType DEF oneShot, rejectLine
    <3>2. QED
      BY <2>3, <3>1, DispatchType DEF oneShot, rejectLine, TypeOK, Lane!LaneTypeOK
  <2>4. CASE pollTimeout \/ endOfLines
    BY <2>4, SweepType DEF pollTimeout, endOfLines, TypeOK
  <2>5. CASE readStdin
    <3>1. buffer' \in Seq(Line) /\ pipe' \in Seq(Line)
      BY <2>5 DEF readStdin, TypeOK
    <3>2. QED
      BY <2>5, <3>1 DEF readStdin, TypeOK, Lane!LaneTypeOK
  <2>6. CASE eof \/ closeStdin
    BY <2>6 DEF eof, closeStdin, TypeOK, Lane!LaneTypeOK
  <2>7. CASE send
    BY <2>7 DEF send, TypeOK, Lane!LaneTypeOK
  <2>8. CASE tick
    <3>1. ASSUME NEW s \in Sids, gSessions[s].idle <= IdleTimeout
          PROVE  [gSessions[s] EXCEPT !.idle = gSessions[s].idle + 1] \in SessionState
      <4>1. gSessions[s] \in SessionState
        BY DEF TypeOK
      <4>2. gSessions[s].idle + 1 \in 0 .. IdleTimeout + 1
        BY <3>1, <4>1, AsrConstants DEF SessionState
      <4>3. QED
        BY <4>1, <4>2 DEF SessionState
    <3>2. gSessions' \in [Sids -> SessionState]
      BY <2>8, <3>1 DEF tick, TypeOK
    <3>3. QED
      BY <2>8, <3>2 DEF tick, TypeOK, Lane!LaneTypeOK
  <2>9. CASE UNCHANGED vars
    BY <2>9 DEF vars, TypeOK, Lane!LaneTypeOK
  <2>10. QED
    BY <2>1, <2>2, <2>3, <2>4, <2>5, <2>6, <2>7, <2>8, <2>9 DEF Next, Worker
<1>3. QED
  BY <1>1, <1>2, PTL DEF Spec

-----------------------------------------------------------------------------
(* Lanes and sessions.  Two facts cover every step: a step that closes       *)
(* sessions frees exactly their lanes, and a step that changes sessions      *)
(* without touching their lanes keeps the match.                             *)

(* A step that changes no lane and no lane id. *)
LEMMA KeepsLanes ==
  ASSUME TypeOK, LaneOwnership, UNCHANGED asrLanes,
         \A s \in Sids : gSessions'[s].laneId = gSessions[s].laneId
  PROVE  LaneOwnership'
<1>1. Open' = Open
  BY DEF Open
<1>2. QED
  BY <1>1 DEF LaneOwnership, Open

(* A step that closes the sessions S and releases their lanes. *)
LEMMA ClosingFreesLanes ==
  ASSUME TypeOK, LaneOwnership, NEW S \in SUBSET Open,
         gSessions' = [s \in Sids |-> IF s \in S THEN NoSession ELSE gSessions[s]],
         Lane!release({gSessions[s].laneId : s \in S})
  PROVE  LaneOwnership'
<1>1. Open' = Open \ S
  BY DEF Open, NoSession
<1>2. ASSUME NEW s \in Open'
      PROVE  /\ gSessions'[s].laneId \in Lane!Partition("kAsr")
             /\ asrLanes'[gSessions'[s].laneId].inUse
             /\ asrLanes'[gSessions'[s].laneId].ownerId = s
  <2>1. s \in Open /\ s \notin S /\ gSessions'[s] = gSessions[s]
    BY <1>1, <1>2 DEF Open
  <2>2. gSessions[s].laneId \notin {gSessions[t].laneId : t \in S}
    BY <2>1 DEF LaneOwnership
  <2>3. gSessions[s].laneId \in Lane!Lanes
    BY <2>1, AsrPartition DEF LaneOwnership
  <2>4. asrLanes'[gSessions[s].laneId] = asrLanes[gSessions[s].laneId]
    BY <2>2, <2>3 DEF Lane!release
  <2>5. QED
    BY <2>1, <2>4 DEF LaneOwnership
<1>3. ASSUME NEW lane \in Lane!Lanes, asrLanes'[lane].inUse
      PROVE  /\ asrLanes'[lane].ownerId \in Open'
             /\ gSessions'[asrLanes'[lane].ownerId].laneId = lane
  <2>1. lane \notin {gSessions[s].laneId : s \in S} /\ asrLanes'[lane] = asrLanes[lane]
    BY <1>3 DEF Lane!release, Lane!FreeLane
  <2>2. /\ asrLanes[lane].ownerId \in Open
        /\ gSessions[asrLanes[lane].ownerId].laneId = lane
    BY <2>1, <1>3 DEF LaneOwnership
  <2>3. asrLanes[lane].ownerId \notin S
    BY <2>1, <2>2
  <2>4. QED
    BY <2>1, <2>2, <2>3, <1>1 DEF Open
<1>4. QED
  BY <1>2, <1>3 DEF LaneOwnership

(* Closing one session is closing the set that holds it. *)
LEMMA CloseOne ==
  ASSUME TypeOK, LaneOwnership, NEW s \in Open, NEW fs, NEW owned,
         Close(s, fs, owned)
  PROVE  LaneOwnership'
<1>1. gSessions' = [t \in Sids |-> IF t \in {s} THEN NoSession ELSE gSessions[t]]
  BY DEF Close, SetSession, TypeOK
<1>2. {gSessions[t].laneId : t \in {s}} = {gSessions[s].laneId}
  OBVIOUS
<1>3. Lane!release({gSessions[t].laneId : t \in {s}})
  BY <1>2 DEF Close
<1>4. {s} \in SUBSET Open
  OBVIOUS
<1>5. QED
  BY <1>1, <1>3, <1>4, ClosingFreesLanes

(* handleBegin: the lane that is acquired was free, so no session had it. *)
LEMMA BeginKeepsLanes == TypeOK /\ LaneOwnership /\ handleBegin => LaneOwnership'
<1> SUFFICES ASSUME TypeOK, LaneOwnership, handleBegin PROVE LaneOwnership'
  OBVIOUS
<1> DEFINE s == line.sid
<1>1. CASE UNCHANGED <<gSessions, asrLanes>>
  BY <1>1, KeepsLanes
<1>2. CASE /\ s \in Open /\ UNCHANGED asrLanes
           /\ SetSession(s, [gSessions[s] EXCEPT !.idle = 0])
  <2>1. \A t \in Sids : gSessions'[t].laneId = gSessions[t].laneId
    BY <1>2 DEF SetSession, TypeOK, SessionState, Open
  <2>2. QED
    BY <1>2, <2>1, KeepsLanes
<1>3. ASSUME s \in Sids \ Open, NEW lane \in Lane!Partition("kAsr"),
             Lane!acquire("kAsr", s, lane),
             SetSession(s, [NoSession EXCEPT !.laneId = lane])
      PROVE  LaneOwnership'
  <2>1. /\ lane \in Lane!Lanes /\ lane # -1 /\ ~asrLanes[lane].inUse
    BY <1>3, AsrPartition DEF Lane!acquire, Lane!IsFirstFree, Lane!Free
  <2>2. /\ asrLanes' \in [Lane!Lanes -> Lane!LaneRecord]
        /\ asrLanes'[lane].inUse /\ asrLanes'[lane].ownerId = s
        /\ \A l \in Lane!Lanes \ {lane} : asrLanes'[l] = asrLanes[l]
    <3>1. asrLanes \in [Lane!Lanes -> Lane!LaneRecord]
      BY DEF TypeOK, Lane!LaneTypeOK
    <3>2. asrLanes' \in [Lane!Lanes -> Lane!LaneRecord]
      BY BeginType DEF TypeOK, Lane!LaneTypeOK
    <3>3. QED
      BY <1>3, <2>1, <3>1, <3>2 DEF Lane!acquire
  <2>3. /\ gSessions'[s].laneId = lane
        /\ \A t \in Sids \ {s} : gSessions'[t] = gSessions[t]
    BY <1>3 DEF SetSession, NoSession, TypeOK
  <2>4. Open' = Open \cup {s}
    BY <1>3, <2>1, <2>3 DEF Open
  <2>5. \A t \in Open : gSessions[t].laneId \in Lane!Lanes \ {lane}
    BY <2>1, AsrPartition DEF LaneOwnership
  <2>6. QED
    BY <1>3, <2>1, <2>2, <2>3, <2>4, <2>5 DEF LaneOwnership, Open
<1>4. QED
  BY <1>1, <1>2, <1>3 DEF handleBegin, Lane!acquireFails

(* handleChunk never touches a lane. *)
LEMMA ChunkKeepsLaneIds ==
  ASSUME TypeOK, handleChunk
  PROVE  /\ UNCHANGED asrLanes
         /\ \A t \in Sids : gSessions'[t].laneId = gSessions[t].laneId
<1> DEFINE s == line.sid
           st == [WithAudio(gSessions[s], line.audio) EXCEPT !.idle = 0]
<1>1. /\ s \in Sids /\ gSessions[s] \in SessionState
      /\ line.audio \in Audio \cup {None}
  BY DispatchType DEF handleChunk, Open, TypeOK
<1>2. /\ st \in SessionState /\ st.laneId = gSessions[s].laneId
  BY <1>1, WithAudioType DEF SessionState
<1> HIDE DEF st
<1>3. \/ SetSession(s, st)
      \/ \E f \in TempFiles : SetSession(s, [st EXCEPT !.melPath = f, !.melPathOwned = f])
  BY DEF handleChunk, st
<1>4. CASE SetSession(s, st)
  BY <1>1, <1>2, <1>4 DEF handleChunk, SetSession, TypeOK
<1>5. ASSUME NEW f \in TempFiles,
             SetSession(s, [st EXCEPT !.melPath = f, !.melPathOwned = f])
      PROVE  \A t \in Sids : gSessions'[t].laneId = gSessions[t].laneId
  <2>1. [st EXCEPT !.melPath = f, !.melPathOwned = f].laneId = gSessions[s].laneId
    BY <1>2 DEF SessionState
  <2>2. QED
    BY <1>1, <1>5, <2>1 DEF SetSession, TypeOK
<1>6. QED
  BY <1>3, <1>4, <1>5 DEF handleChunk

(* Every step keeps lanes and sessions matched one to one. *)
LEMMA LanesStep == TypeOK /\ LaneOwnership /\ [Next]_vars => LaneOwnership'
<1> SUFFICES ASSUME TypeOK, LaneOwnership, [Next]_vars PROVE LaneOwnership'
  OBVIOUS
<1>1. CASE handleBegin
  BY <1>1, BeginKeepsLanes
<1>2. CASE handleChunk
  BY <1>2, ChunkKeepsLaneIds, KeepsLanes
<1>3. CASE handleEnd
  <2>1. \E fs, owned : line.sid \in Open /\ Close(line.sid, fs, owned)
    BY <1>3 DEF handleEnd
  <2>2. QED
    BY <2>1, CloseOne
<1>4. CASE \/ unknownSession("chunk") \/ unknownSession("end")
           \/ oneShot \/ rejectLine \/ readStdin \/ eof \/ send \/ closeStdin
           \/ UNCHANGED vars
  <2>1. UNCHANGED <<gSessions, asrLanes>>
    BY <1>4 DEF unknownSession, oneShot, rejectLine, readStdin, eof, send,
                closeStdin, vars
  <2>2. QED
    BY <2>1, KeepsLanes
<1>5. CASE pollTimeout \/ endOfLines
  <2>1. sweepIdleSessions /\ Idle \in SUBSET Open
    BY <1>5 DEF pollTimeout, endOfLines, Idle
  <2>2. QED
    BY <2>1, ClosingFreesLanes DEF sweepIdleSessions
<1>6. CASE tick
  <2>1. \A s \in Sids : gSessions'[s].laneId = gSessions[s].laneId
    BY <1>6 DEF tick, TypeOK, SessionState
  <2>2. QED
    BY <1>6, <2>1, KeepsLanes DEF tick
<1>7. QED
  BY <1>1, <1>2, <1>3, <1>4, <1>5, <1>6 DEF Next, Worker

(* No lane is leaked or shared: in every behaviour of the worker the lanes   *)
(* in use and the sessions in the map correspond one to one.                 *)
THEOREM LanesMatchSessions == Spec => []LaneOwnership
<1>1. Init => LaneOwnership
  BY AsrPartition
  DEF Init, LaneOwnership, Open, NoSession, Lane!LaneInit, Lane!FreeLane
<1>2. QED
  BY <1>1, LanesStep, TypeCorrect, PTL DEF Spec

-----------------------------------------------------------------------------
(* Temporary files. *)

(* A step that leaves the files and the owned paths alone. *)
LEMMA KeepsFiles ==
  ASSUME TempFilesOwned, UNCHANGED tempFiles, Open \subseteq Open',
         \A s \in Open : gSessions'[s].melPathOwned = gSessions[s].melPathOwned,
         \A s \in Open' \ Open : gSessions'[s].melPathOwned = None
  PROVE  TempFilesOwned'
BY DEF TempFilesOwned

(* Closing sessions with the removal of at least the files they own. *)
LEMMA ClosingRemovesFiles ==
  ASSUME TypeOK, TempFilesOwned, NEW S \in SUBSET Open,
         gSessions' = [s \in Sids |-> IF s \in S THEN NoSession ELSE gSessions[s]],
         tempFiles' \in [TempFiles -> Pcms \cup {None}],
         \A f \in TempFiles : tempFiles'[f] # None =>
           tempFiles[f] # None /\ \A s \in S : gSessions[s].melPathOwned # f
  PROVE  TempFilesOwned'
<1>1. Open' = Open \ S /\ \A s \in Open' : gSessions'[s] = gSessions[s]
  BY DEF Open, NoSession
<1>2. ASSUME NEW f \in TempFiles, tempFiles'[f] # None
      PROVE  \E s \in Open' : gSessions'[s].melPathOwned = f
  <2>1. PICK s \in Open : gSessions[s].melPathOwned = f
    BY <1>2 DEF TempFilesOwned
  <2>2. s \notin S
    BY <1>2, <2>1
  <2>3. QED
    BY <1>1, <2>1, <2>2
<1>3. ASSUME NEW s \in Open', NEW t \in Open', s # t,
             gSessions'[s].melPathOwned # None
      PROVE  gSessions'[s].melPathOwned # gSessions'[t].melPathOwned
  BY <1>1, <1>3 DEF TempFilesOwned
<1>4. QED
  BY <1>2, <1>3 DEF TempFilesOwned

(* handleChunk: the new file replaces the owned one, which is removed first. *)
LEMMA ChunkKeepsFiles == TypeOK /\ TempFilesOwned /\ handleChunk => TempFilesOwned'
<1> SUFFICES ASSUME TypeOK, TempFilesOwned, handleChunk PROVE TempFilesOwned'
  OBVIOUS
<1> DEFINE s == line.sid
           st == [WithAudio(gSessions[s], line.audio) EXCEPT !.idle = 0]
           removed == Without(tempFiles, {st.melPathOwned})
<1>1. /\ s \in Open /\ s \in Sids /\ gSessions[s] \in SessionState
      /\ line.audio \in Audio \cup {None}
  BY DispatchType DEF handleChunk, Open, TypeOK
<1>2. st \in SessionState /\ st.melPathOwned = gSessions[s].melPathOwned
  BY <1>1, WithAudioType DEF SessionState
<1>3. Open' = Open
  BY ChunkKeepsLaneIds DEF Open
<1>4. \A f \in TempFiles : removed[f] # None =>
        tempFiles[f] # None /\ f # gSessions[s].melPathOwned
  BY <1>2 DEF Without
<1>5. removed \in [TempFiles -> Pcms \cup {None}]
  BY FilesType DEF TypeOK
<1>6. gSessions \in [Sids -> SessionState]
  BY DEF TypeOK
<1> HIDE DEF st, removed
<1>7. CASE SetSession(s, st) /\ tempFiles' \in {tempFiles, removed}
  <2>1. \A t \in Open : gSessions'[t].melPathOwned = gSessions[t].melPathOwned
    BY <1>1, <1>2, <1>6, <1>7 DEF SetSession, Open
  <2>2. \A f \in TempFiles : tempFiles'[f] # None => tempFiles[f] # None
    BY <1>4, <1>7
  <2>3. QED
    BY <1>3, <2>1, <2>2 DEF TempFilesOwned
<1>8. ASSUME NEW f \in TempFiles, IsFresh(f),
             tempFiles' = [removed EXCEPT ![f] = st.pcmB64],
             SetSession(s, [st EXCEPT !.melPath = f, !.melPathOwned = f])
      PROVE  TempFilesOwned'
  <2>1. /\ gSessions'[s].melPathOwned = f
        /\ \A t \in Sids \ {s} : gSessions'[t] = gSessions[t]
    <3>1. [st EXCEPT !.melPath = f, !.melPathOwned = f].melPathOwned = f
      BY <1>2 DEF SessionState
    <3>2. QED
      BY <1>1, <1>6, <1>8, <3>1 DEF SetSession
  <2>2. \A t \in Sids : gSessions[t].melPathOwned # f
    BY <1>8 DEF IsFresh
  <2>3. ASSUME NEW g \in TempFiles, tempFiles'[g] # None
        PROVE  \E t \in Open' : gSessions'[t].melPathOwned = g
    <3>1. CASE g = f
      BY <1>1, <1>3, <2>1, <3>1
    <3>2. CASE g # f
      <4>1. tempFiles[g] # None /\ g # gSessions[s].melPathOwned
        BY <1>4, <1>5, <1>8, <2>3, <3>2
      <4>2. PICK t \in Open : gSessions[t].melPathOwned = g
        BY <4>1 DEF TempFilesOwned
      <4>3. t \in Sids \ {s}
        BY <4>1, <4>2 DEF Open
      <4>4. QED
        BY <1>3, <2>1, <4>2, <4>3
    <3>3. QED
      BY <3>1, <3>2
  <2>4. ASSUME NEW t \in Open, NEW u \in Open, t # u,
               gSessions'[t].melPathOwned # None
        PROVE  gSessions'[t].melPathOwned # gSessions'[u].melPathOwned
    <3>1. t \in Sids /\ u \in Sids
      BY DEF Open
    <3>2. QED
      BY <2>1, <2>2, <2>4, <3>1 DEF TempFilesOwned
  <2>5. QED
    BY <1>3, <2>3, <2>4 DEF TempFilesOwned
<1>9. QED
  BY <1>7, <1>8 DEF handleChunk, st, removed

(* handleEnd: the owned file and the one made on the way are removed. *)
LEMMA EndKeepsFiles == TypeOK /\ TempFilesOwned /\ handleEnd => TempFilesOwned'
<1> SUFFICES ASSUME TypeOK, TempFilesOwned, handleEnd PROVE TempFilesOwned'
  OBVIOUS
<1> DEFINE s == line.sid
           old == {gSessions[s].melPathOwned}
<1>1. s \in Open /\ {s} \in SUBSET Open
  BY DEF handleEnd
<1>2. tempFiles \in [TempFiles -> Pcms \cup {None}]
  BY DEF TypeOK
<1>3. tempFiles' \in [TempFiles -> Pcms \cup {None}]
  BY EndType DEF TypeOK
<1>4. \/ Close(s, tempFiles, old)
      \/ \E f \in TempFiles :
           Close(s, [Without(tempFiles, old) EXCEPT ![f] = line.audio], old \cup {f})
  BY DEF handleEnd
<1>5. gSessions' = [t \in Sids |-> IF t \in {s} THEN NoSession ELSE gSessions[t]]
  BY <1>4 DEF Close, SetSession, TypeOK
<1>6. \A f \in TempFiles : tempFiles'[f] # None =>
        tempFiles[f] # None /\ gSessions[s].melPathOwned # f
  <2>1. CASE Close(s, tempFiles, old)
    BY <2>1 DEF Close, Without
  <2>2. ASSUME NEW f \in TempFiles,
               Close(s, [Without(tempFiles, old) EXCEPT ![f] = line.audio], old \cup {f})
        PROVE  \A g \in TempFiles : tempFiles'[g] # None =>
                 tempFiles[g] # None /\ gSessions[s].melPathOwned # g
    BY <2>2, <1>2 DEF Close, Without
  <2>3. QED
    BY <1>4, <2>1, <2>2
<1>7. QED
  BY <1>1, <1>3, <1>5, <1>6, ClosingRemovesFiles

(* No temporary audio file is orphaned: every one on disk is owned by        *)
(* exactly one session of the map, through failed conversions, ends, sweeps  *)
(* and re-begins.                                                            *)
THEOREM NoOrphanFiles == Spec => []TempFilesOwned
<1>1. Init => TempFilesOwned
  BY DEF Init, TempFilesOwned, Open, NoSession
<1>2. TypeOK /\ TempFilesOwned /\ [Next]_vars => TempFilesOwned'
  <2> SUFFICES ASSUME TypeOK, TempFilesOwned, [Next]_vars PROVE TempFilesOwned'
    OBVIOUS
  <2>1. CASE handleBegin
    <3> DEFINE s == line.sid
    <3>1. gSessions \in [Sids -> SessionState]
      BY DEF TypeOK
    <3>2. \/ UNCHANGED gSessions
          \/ s \in Open /\ SetSession(s, [gSessions[s] EXCEPT !.idle = 0])
          \/ /\ s \in Sids \ Open
             /\ \E lane \in Lane!Partition("kAsr") :
                  SetSession(s, [NoSession EXCEPT !.laneId = lane])
      BY <2>1 DEF handleBegin
    <3>3. /\ Open \subseteq Open'
          /\ \A t \in Open : gSessions'[t].melPathOwned = gSessions[t].melPathOwned
          /\ \A t \in Open' \ Open : gSessions'[t].melPathOwned = None
      <4>1. CASE UNCHANGED gSessions
        BY <4>1 DEF Open
      <4>2. CASE s \in Open /\ SetSession(s, [gSessions[s] EXCEPT !.idle = 0])
        <5>1. s \in Sids /\ gSessions[s] \in SessionState
          BY <3>1, <4>2 DEF Open
        <5>2. /\ gSessions'[s].laneId = gSessions[s].laneId
              /\ gSessions'[s].melPathOwned = gSessions[s].melPathOwned
              /\ \A t \in Sids \ {s} : gSessions'[t] = gSessions[t]
          BY <3>1, <4>2, <5>1 DEF SetSession, SessionState
        <5>3. QED
          BY <5>2 DEF Open
      <4>3. ASSUME s \in Sids \ Open, NEW lane \in Lane!Partition("kAsr"),
                   SetSession(s, [NoSession EXCEPT !.laneId = lane])
            PROVE  /\ Open \subseteq Open'
                   /\ \A t \in Open : gSessions'[t].melPathOwned = gSessions[t].melPathOwned
                   /\ \A t \in Open' \ Open : gSessions'[t].melPathOwned = None
        <5>1. /\ gSessions'[s].melPathOwned = None
              /\ \A t \in Sids \ {s} : gSessions'[t] = gSessions[t]
          BY <3>1, <4>3 DEF SetSession, NoSession
        <5>2. QED
          BY <4>3, <5>1 DEF Open
      <4>4. QED
        BY <3>2, <4>1, <4>2, <4>3
    <3>4. QED
      BY <2>1, <3>3, KeepsFiles DEF handleBegin
  <2>2. CASE handleChunk
    BY <2>2, ChunkKeepsFiles
  <2>3. CASE handleEnd
    BY <2>3, EndKeepsFiles
  <2>4. CASE \/ unknownSession("chunk") \/ unknownSession("end")
             \/ oneShot \/ rejectLine \/ readStdin \/ eof \/ send \/ closeStdin
             \/ UNCHANGED vars
    BY <2>4 DEF unknownSession, oneShot, rejectLine, readStdin, eof, send,
                closeStdin, vars, TempFilesOwned, Open
  <2>5. CASE pollTimeout \/ endOfLines
    <3>1. sweepIdleSessions /\ Idle \in SUBSET Open
      BY <2>5 DEF pollTimeout, endOfLines, Idle
    <3>2. tempFiles' \in [TempFiles -> Pcms \cup {None}]
      BY <3>1, SweepType
    <3>3. \A f \in TempFiles : tempFiles'[f] # None =>
            tempFiles[f] # None /\ \A s \in Idle : gSessions[s].melPathOwned # f
      BY <3>1 DEF sweepIdleSessions, Without
    <3>4. QED
      BY <3>1, <3>2, <3>3, ClosingRemovesFiles DEF sweepIdleSessions
  <2>6. CASE tick
    <3>1. \A s \in Sids : /\ gSessions'[s].laneId = gSessions[s].laneId
                          /\ gSessions'[s].melPathOwned = gSessions[s].melPathOwned
      BY <2>6 DEF tick, TypeOK, SessionState
    <3>2. Open' = Open
      BY <3>1 DEF Open
    <3>3. \A s \in Open : gSessions'[s].melPathOwned = gSessions[s].melPathOwned
      BY <3>1 DEF Open
    <3>4. QED
      BY <2>6, <3>2, <3>3, KeepsFiles DEF tick
  <2>7. QED
    BY <2>1, <2>2, <2>3, <2>4, <2>5, <2>6 DEF Next, Worker
<1>3. QED
  BY <1>1, <1>2, TypeCorrect, PTL DEF Spec

-----------------------------------------------------------------------------
(* The worker implements the session pool. *)

(* Counting: sessions are at most asrMax, and exactly asrMax just when the   *)
(* ASR partition has no free lane.                                           *)
LEMMA FullPool ==
  ASSUME TypeOK, LaneOwnership
  PROVE  /\ IsFiniteSet(Open) /\ Cardinality(Open) \in Nat
         /\ Cardinality(Open) <= asrMax
         /\ Cardinality(Open) = asrMax <=> Lane!Free("kAsr") = {}
<1> DEFINE L == 0 .. asrMax - 1
           laneOf == [s \in Open |-> gSessions[s].laneId]
<1>1. IsFiniteSet(L) /\ Cardinality(L) = asrMax
  BY AsrPartition, FS_Interval
<1>2. laneOf \in Injection(Open, L)
  BY AsrPartition DEF LaneOwnership, Injection, IsInjective
<1>3. laneOf \in Surjection(Open, L) <=> Lane!Free("kAsr") = {}
  <2>1. laneOf \in Surjection(Open, L) <=> \A l \in L : \E s \in Open : laneOf[s] = l
    BY <1>2 DEF Surjection, Injection
  <2>2. \A l \in L : (\E s \in Open : laneOf[s] = l) <=> asrLanes[l].inUse
    BY AsrPartition DEF LaneOwnership
  <2>3. QED
    BY <2>1, <2>2, AsrPartition DEF Lane!Free
<1> HIDE DEF L, laneOf
<1>4. QED
  BY <1>1, <1>2, <1>3, FS_Injection, FS_CardinalityType

(* Only pool_saturated refuses a session. *)
LEMMA NotRefused ==
  ASSUME NEW name, name # "pool_saturated", NEW s, NEW text,
         EmitText(name, s, text)
  PROVE  Refused' = {}
BY DEF EmitText, Refused

(* A decode refuses none. *)
LEMMA DecodeNotRefused ==
  ASSUME NEW name \in {"partial", "final"}, NEW s, NEW path, NEW fs,
         Decodes(name, s, path, fs)
  PROVE  Refused' = {}
BY NotRefused DEF Decodes, Emit

(* The pool's own instance of Cardinality is Cardinality. *)
LEMMA PoolCardinality == \A S : Pool!Cardinality(S) = Cardinality(S)
BY DEF Pool!Cardinality, Cardinality, Pool!IsFiniteSet, IsFiniteSet

(* A step after which the open sessions are some of the ones before and      *)
(* nothing is refused is a step of the pool.                                 *)
LEMMA PoolCloses ==
  ASSUME Open' \subseteq Open, Refused' = {}
  PROVE  Pool!Next
<1>1. Open' = Open \ (Open \ Open') /\ Open \ Open' \in SUBSET Open
  OBVIOUS
<1>2. QED
  BY <1>1 DEF Pool!Next, Pool!CloseAll

(* Every step of the worker is a step of the pool or leaves it alone. *)
LEMMA PoolStep ==
  TypeOK /\ LaneOwnership /\ [Next]_vars => [Pool!Next]_<<Open, Refused>>
<1> SUFFICES ASSUME TypeOK, LaneOwnership, [Next]_vars
             PROVE  [Pool!Next]_<<Open, Refused>>
  OBVIOUS
<1>1. CASE handleBegin
  <2> DEFINE s == line.sid
  <2>1. CASE UNCHANGED gSessions /\ Emit("error", NoId)
    BY <2>1, NotRefused, PoolCloses DEF Emit, Open
  <2>2. CASE /\ s \in Open /\ SetSession(s, [gSessions[s] EXCEPT !.idle = 0])
             /\ Emit("begin_ack", s)
    <3>1. Open' = Open
      BY <2>2 DEF Open, SetSession, TypeOK, SessionState
    <3>2. QED
      BY <2>2, <3>1, NotRefused, PoolCloses DEF Emit
  <2>3. CASE /\ s \in Sids \ Open /\ Lane!acquireFails("kAsr")
             /\ Emit("pool_saturated", s) /\ UNCHANGED gSessions
    <3>1. Cardinality(Open) = asrMax
      BY <2>3, FullPool DEF Lane!acquireFails
    <3>2. Refused' = {s} /\ Open' = Open
      <4>1. out' = {[ev |-> "pool_saturated", sid |-> s, text |-> None]}
        BY <2>3 DEF Emit, EmitText
      <4>2. {x \in out' : x.ev = "pool_saturated"} = out'
        BY <4>1
      <4>3. Refused' = {e.sid : e \in out'}
        BY <4>2 DEF Refused
      <4>4. QED
        BY <2>3, <4>1, <4>3 DEF Open
    <3>3. QED
      BY <2>3, <3>1, <3>2, PoolCardinality DEF Pool!Next, Pool!Refuse
  <2>4. ASSUME s \in Sids \ Open, NEW lane \in Lane!Partition("kAsr"),
               Lane!acquire("kAsr", s, lane),
               SetSession(s, [NoSession EXCEPT !.laneId = lane]),
               Emit("begin_ack", s)
        PROVE  Pool!Next
    <3>1. Cardinality(Open) < asrMax
      <4>1. Lane!Free("kAsr") # {}
        BY <2>4 DEF Lane!acquire, Lane!IsFirstFree
      <4>2. QED
        BY <4>1, FullPool, AsrPartition
    <3>2. Refused' = {}
      BY <2>4, NotRefused DEF Emit
    <3>3. Open' = Open \cup {s}
      BY <2>4, AsrPartition DEF Open, SetSession, NoSession, TypeOK
    <3>4. QED
      BY <2>4, <3>1, <3>2, <3>3, PoolCardinality DEF Pool!Next, Pool!Begin
  <2>5. QED
    BY <1>1, <2>1, <2>2, <2>3, <2>4 DEF handleBegin
<1>2. CASE handleChunk
  <2>1. Open' = Open
    BY <1>2, ChunkKeepsLaneIds DEF Open
  <2>2. Refused' = {}
    BY <1>2, NotRefused, DecodeNotRefused DEF handleChunk, Emit
  <2>3. QED
    BY <2>1, <2>2, PoolCloses
<1>3. CASE handleEnd
  <2>1. Refused' = {}
    BY <1>3, NotRefused, DecodeNotRefused DEF handleEnd, Emit
  <2>2. \E s \in Sids : SetSession(s, NoSession)
    BY <1>3 DEF handleEnd, Close, Open
  <2>3. Open' \subseteq Open
    BY <2>2 DEF Open, SetSession, NoSession, TypeOK
  <2>4. QED
    BY <2>1, <2>3, PoolCloses
<1>4. CASE \/ unknownSession("chunk") \/ unknownSession("end")
           \/ oneShot \/ rejectLine
  <2>1. Refused' = {}
    BY <1>4, NotRefused DEF unknownSession, oneShot, rejectLine, Emit
  <2>2. QED
    BY <1>4, <2>1, PoolCloses DEF unknownSession, oneShot, rejectLine, Open
<1>5. CASE readStdin \/ eof \/ send \/ closeStdin
  BY <1>5, PoolCloses DEF readStdin, eof, send, closeStdin, Refused, Open
<1>6. CASE pollTimeout \/ endOfLines
  <2>1. sweepIdleSessions
    BY <1>6 DEF pollTimeout, endOfLines
  <2>2. Refused' = {}
    BY <2>1 DEF sweepIdleSessions, Refused
  <2>3. Open' \subseteq Open
    BY <2>1 DEF sweepIdleSessions, Open, NoSession
  <2>4. QED
    BY <2>2, <2>3, PoolCloses
<1>7. CASE tick
  <2>1. Open' = Open
    BY <1>7 DEF tick, TypeOK, SessionState, Open
  <2>2. QED
    BY <1>7, <2>1, PoolCloses DEF tick, Refused
<1>8. CASE UNCHANGED vars
  BY <1>8 DEF vars, Open, Refused
<1>9. QED
  BY <1>1, <1>2, <1>3, <1>4, <1>5, <1>6, <1>7, <1>8 DEF Next, Worker

(* The worker implements the session pool, whatever max_slots and the        *)
(* engine's batch size: at most asrMax sessions are open, and begin answers  *)
(* pool_saturated only while asrMax of them are.                             *)
THEOREM WorkerImplementsPool == Spec => ImplementsSessionPool
<1>1. Init => Pool!Init
  BY DEF Init, Pool!Init, Open, Refused, NoSession
<1>2. QED
  BY <1>1, PoolStep, TypeCorrect, LanesMatchSessions, PTL
  DEF Spec, ImplementsSessionPool, Pool!Spec

-----------------------------------------------------------------------------
(* The last audio of its kind is heard.                                      *)

(* What an open session knows of its audio: the last payload, and at its     *)
(* path either the last mel path or its own file, which holds the last       *)
(* payload or is gone.                                                       *)
AudioAt(st, last, fs) ==
  /\ st.pcmB64 = last.pcm
  /\ st.melPath \in TempFiles =>
       PcmSupported /\ st.melPath = st.melPathOwned /\ fs[st.melPath] \in {None, last.pcm}
  /\ st.melPath \notin TempFiles => st.melPath = last.mel

(* Every open session knows its audio. *)
AudioInv == \A s \in Open : AudioAt(gSessions[s], latest[s], tempFiles)

(* A step that leaves the audio of the sessions that stay open alone, and    *)
(* files at most removed, keeps what they know of it.                        *)
LEMMA AudioStays ==
  ASSUME TypeOK, AudioInv, NEW s \in Open, NEW t,
         t.pcmB64 = gSessions[s].pcmB64, t.melPath = gSessions[s].melPath,
         t.melPathOwned = gSessions[s].melPathOwned,
         NEW last, last = latest[s], NEW fs,
         \A f \in TempFiles : fs[f] \in {None, tempFiles[f]} \/ f # gSessions[s].melPath
  PROVE  AudioAt(t, last, fs)
BY DEF AudioInv, AudioAt

(* The session after a line's audio is applied to it. *)
LEMMA AudioApplied ==
  ASSUME TypeOK, AudioInv, NEW s \in Open, NEW audio \in Audio \cup {None}, Received(s, audio)
  PROVE  LET st == WithAudio(gSessions[s], audio) IN
         /\ st.melPathOwned = gSessions[s].melPathOwned
         /\ st.pcmB64 = latest'[s].pcm
         /\ st.melPath \in TempFiles =>
              st.melPath = gSessions[s].melPath /\ st.melPath = st.melPathOwned /\ PcmSupported
         /\ st.melPath \notin TempFiles => st.melPath = latest'[s].mel
         /\ \A t \in Sids \ {s} : latest'[t] = latest[t]
         /\ audio \in Pcms => latest'[s].pcm = audio
         /\ audio \notin Pcms => latest'[s].pcm = latest[s].pcm
<1> DEFINE st == gSessions[s]
           mel == IF audio \in MelPaths THEN audio ELSE st.melPath
           pcm == IF audio \in Pcms THEN audio ELSE st.pcmB64
<1>1. s \in Sids /\ st \in SessionState /\ AudioAt(st, latest[s], tempFiles)
  BY DEF AudioInv, TypeOK, Open
<1>2. WithAudio(st, audio) = [st EXCEPT !.melPath = mel, !.pcmB64 = pcm]
  BY DEF WithAudio
<1>3. /\ latest'[s].mel = (IF audio \in MelPaths THEN audio ELSE latest[s].mel)
      /\ latest'[s].pcm = (IF audio \in Pcms THEN audio ELSE latest[s].pcm)
      /\ \A t \in Sids \ {s} : latest'[t] = latest[t]
  BY <1>1 DEF Received, TypeOK
<1>4. pcm = latest'[s].pcm
  BY <1>1, <1>3 DEF AudioAt
<1>5. /\ mel \in TempFiles => mel = st.melPath /\ mel = st.melPathOwned /\ PcmSupported
      /\ mel \notin TempFiles => mel = latest'[s].mel
  BY <1>1, <1>3, AsrConstants DEF AudioAt
<1> HIDE DEF mel, pcm
<1>6. /\ WithAudio(st, audio).melPath = mel /\ WithAudio(st, audio).pcmB64 = pcm
      /\ WithAudio(st, audio).melPathOwned = st.melPathOwned
  BY <1>1, <1>2 DEF SessionState
<1>7. QED
  BY <1>3, <1>4, <1>5, <1>6

(* A decode of a path with the last audio of a kind, or with nothing, tells   *)
(* of the last audio of a kind or not at all.                                 *)
LEMMA DecodesLast ==
  ASSUME NEW name, NEW s, NEW path, NEW fs,
         ContentOf(path, fs) \in {None, latest'[s].mel, latest'[s].pcm},
         Decodes(name, s, path, fs)
  PROVE  LastOfItsKind'
BY DEF Decodes, Emit, EmitText, LastOfItsKind

(* An event without a transcript. *)
LEMMA EmitsNoText ==
  ASSUME NEW name, NEW s, Emit(name, s)
  PROVE  LastOfItsKind'
BY DEF Emit, EmitText, LastOfItsKind

(* handleBegin: the new session has no audio and has received none. *)
LEMMA BeginAudio == TypeOK /\ AudioInv /\ handleBegin => AudioInv' /\ LastOfItsKind'
<1> SUFFICES ASSUME TypeOK, AudioInv, handleBegin PROVE AudioInv' /\ LastOfItsKind'
  OBVIOUS
<1> DEFINE s == line.sid
<1>1. LastOfItsKind'
  BY EmitsNoText DEF handleBegin
<1>2. tempFiles' = tempFiles
  BY DEF handleBegin
<1>3. \/ UNCHANGED <<gSessions, latest>>
      \/ s \in Open /\ SetSession(s, [gSessions[s] EXCEPT !.idle = 0]) /\ UNCHANGED latest
      \/ /\ s \in Sids \ Open /\ latest' = [latest EXCEPT ![s] = Nothing]
         /\ \E lane \in Lane!Partition("kAsr") : SetSession(s, [NoSession EXCEPT !.laneId = lane])
  BY DEF handleBegin
<1>4. gSessions \in [Sids -> SessionState] /\ latest \in [Sids -> Receipt]
  BY DEF TypeOK
<1>5. CASE UNCHANGED <<gSessions, latest>>
  BY <1>1, <1>2, <1>5 DEF AudioInv, Open
<1>6. CASE s \in Open /\ SetSession(s, [gSessions[s] EXCEPT !.idle = 0]) /\ UNCHANGED latest
  <2>1. /\ s \in Sids /\ \A t \in Sids \ {s} : gSessions'[t] = gSessions[t]
        /\ gSessions'[s].laneId = gSessions[s].laneId
        /\ gSessions'[s].melPathOwned = gSessions[s].melPathOwned
        /\ gSessions'[s].melPath = gSessions[s].melPath /\ gSessions'[s].pcmB64 = gSessions[s].pcmB64
    BY <1>4, <1>6 DEF SetSession, SessionState, Open
  <2>2. Open' = Open
    BY <2>1 DEF Open
  <2> SUFFICES ASSUME NEW t \in Open PROVE AudioAt(gSessions'[t], latest'[t], tempFiles')
    BY <1>1, <2>2 DEF AudioInv
  <2>3. /\ gSessions'[t].melPathOwned = gSessions[t].melPathOwned
        /\ gSessions'[t].melPath = gSessions[t].melPath /\ gSessions'[t].pcmB64 = gSessions[t].pcmB64
    BY <2>1 DEF Open
  <2>4. QED
    BY <1>2, <1>6, <2>3, AudioStays
<1>7. ASSUME s \in Sids \ Open, latest' = [latest EXCEPT ![s] = Nothing], NEW lane \in Lane!Partition("kAsr"),
             SetSession(s, [NoSession EXCEPT !.laneId = lane])
      PROVE  AudioInv'
  <2>1. /\ gSessions'[s] = [NoSession EXCEPT !.laneId = lane] /\ latest'[s] = Nothing
        /\ \A t \in Sids \ {s} : gSessions'[t] = gSessions[t] /\ latest'[t] = latest[t]
    BY <1>4, <1>7 DEF SetSession
  <2> SUFFICES ASSUME NEW t \in Open' PROVE AudioAt(gSessions'[t], latest'[t], tempFiles')
    BY DEF AudioInv
  <2>2. CASE t = s
    BY <2>1, <2>2, AsrConstants DEF AudioAt, NoSession, Nothing
  <2>3. CASE t # s
    <3>1. t \in Open /\ gSessions'[t] = gSessions[t] /\ latest'[t] = latest[t]
      BY <2>1, <2>3 DEF Open
    <3>2. QED
      BY <1>2, <3>1 DEF AudioInv
  <2>4. QED
    BY <2>2, <2>3
<1>8. QED
  BY <1>1, <1>3, <1>5, <1>6, <1>7

(* A step that closes sessions and removes files. *)
LEMMA ClosingKeepsAudio ==
  ASSUME TypeOK, AudioInv, Open' \subseteq Open,
         \A t \in Open' : /\ latest'[t] = latest[t] /\ gSessions'[t].pcmB64 = gSessions[t].pcmB64
                          /\ gSessions'[t].melPath = gSessions[t].melPath
                          /\ gSessions'[t].melPathOwned = gSessions[t].melPathOwned,
         \A f \in TempFiles : tempFiles'[f] \in {None, tempFiles[f]}
  PROVE  AudioInv'
<1> SUFFICES ASSUME NEW t \in Open' PROVE AudioAt(gSessions'[t], latest'[t], tempFiles')
  BY DEF AudioInv
<1>1. t \in Open
  OBVIOUS
<1>2. QED
  BY <1>1, AudioStays

(* handleEnd: what is decoded is the line's own audio, or the session's when  *)
(* the line has none.                                                         *)
LEMMA EndAudio == TypeOK /\ AudioInv /\ handleEnd => AudioInv' /\ LastOfItsKind'
<1> SUFFICES ASSUME TypeOK, AudioInv, handleEnd PROVE AudioInv' /\ LastOfItsKind'
  OBVIOUS
<1> DEFINE s == line.sid
           st == WithAudio(gSessions[s], line.audio)
           old == {gSessions[s].melPathOwned}
           written(f) == [Without(tempFiles, old) EXCEPT ![f] = line.audio]
<1>1. /\ s \in Open /\ s \in Sids /\ gSessions[s] \in SessionState /\ line.audio \in Audio \cup {None}
      /\ Received(s, line.audio)
  BY DispatchType DEF handleEnd, Open, TypeOK
<1>2. /\ st.melPath \in TempFiles => st.melPath = gSessions[s].melPath
      /\ st.melPath \notin TempFiles => st.melPath = latest'[s].mel
      /\ \A t \in Sids \ {s} : latest'[t] = latest[t]
      /\ line.audio \in Pcms => latest'[s].pcm = line.audio
      /\ line.audio \notin Pcms => latest'[s].pcm = latest[s].pcm
  BY <1>1, AudioApplied
<1>3. tempFiles \in [TempFiles -> Pcms \cup {None}] /\ gSessions \in [Sids -> SessionState]
  BY DEF TypeOK
<1>4. \/ /\ line.audio \in Pcms
         /\ \E f \in TempFiles : Decodes("final", s, f, written(f)) /\ Close(s, written(f), old \cup {f})
      \/ Emit("error", s) /\ Close(s, tempFiles, old)
      \/ line.audio \notin Pcms /\ Decodes("final", s, st.melPath, tempFiles) /\ Close(s, tempFiles, old)
  BY DEF handleEnd
<1>5. gSessions' = [t \in Sids |-> IF t = s THEN NoSession ELSE gSessions[t]]
      /\ \A g \in TempFiles : tempFiles'[g] \in {None, tempFiles[g]}
  <2>1. CASE Close(s, tempFiles, old)
    BY <1>3, <2>1 DEF Close, Without, SetSession
  <2>2. ASSUME NEW f \in TempFiles, Close(s, written(f), old \cup {f})
        PROVE  gSessions' = [t \in Sids |-> IF t = s THEN NoSession ELSE gSessions[t]]
               /\ \A g \in TempFiles : tempFiles'[g] \in {None, tempFiles[g]}
    BY <1>3, <2>2 DEF Close, Without, SetSession
  <2>3. QED
    BY <1>4, <2>1, <2>2
<1>6. AudioInv'
  <2>1. Open' \subseteq Open /\ \A t \in Open' : t # s /\ t \in Sids /\ gSessions'[t] = gSessions[t]
    BY <1>5 DEF Open, NoSession
  <2>2. QED
    BY <1>2, <1>5, <2>1, ClosingKeepsAudio
<1> HIDE DEF st
<1>7. CASE Emit("error", s)
  BY <1>6, <1>7, EmitsNoText
<1>8. ASSUME line.audio \in Pcms, NEW f \in TempFiles, Decodes("final", s, f, written(f)) PROVE LastOfItsKind'
  <2>1. ContentOf(f, written(f)) = line.audio
    BY <1>3 DEF ContentOf, Without
  <2>2. line.audio = latest'[s].pcm
    BY <1>2, <1>8
  <2> HIDE DEF written
  <2>3. QED
    BY <1>8, <2>1, <2>2, DecodesLast
<1>9. ASSUME line.audio \notin Pcms, Decodes("final", s, st.melPath, tempFiles) PROVE LastOfItsKind'
  <2>1. ContentOf(st.melPath, tempFiles) \in {None, latest'[s].mel, latest'[s].pcm}
    <3>1. AudioAt(gSessions[s], latest[s], tempFiles)
      BY <1>1 DEF AudioInv
    <3>2. CASE st.melPath \in TempFiles
      BY <1>2, <1>9, <3>1, <3>2 DEF AudioAt, ContentOf
    <3>3. CASE st.melPath \notin TempFiles
      BY <1>2, <3>3 DEF ContentOf
    <3>4. QED
      BY <3>2, <3>3
  <2>2. QED
    BY <1>9, <2>1, DecodesLast
<1>10. QED
  BY <1>4, <1>6, <1>7, <1>8, <1>9

(* handleChunk: any PCM the session holds is converted anew, so that the file  *)
(* handed to the engine holds the last payload; a failed conversion leaves no  *)
(* file behind.                                                                *)
LEMMA ChunkAudio == TypeOK /\ AudioInv /\ handleChunk => AudioInv' /\ LastOfItsKind'
<1> SUFFICES ASSUME TypeOK, AudioInv, handleChunk PROVE AudioInv' /\ LastOfItsKind'
  OBVIOUS
<1> DEFINE s == line.sid
           wa == WithAudio(gSessions[s], line.audio)
           st == [wa EXCEPT !.idle = 0]
           removed == Without(tempFiles, {st.melPathOwned})
<1>1. /\ s \in Open /\ s \in Sids /\ gSessions[s] \in SessionState /\ line.audio \in Audio \cup {None}
      /\ Received(s, line.audio)
  <2>1. Dispatch("chunk") /\ s \in Open /\ Received(s, line.audio)
    BY Zenon DEF handleChunk
  <2>2. QED
    BY <2>1, DispatchType DEF Open, TypeOK
<1>2. /\ wa.melPathOwned = gSessions[s].melPathOwned /\ wa.pcmB64 = latest'[s].pcm
      /\ wa.melPath \in TempFiles =>
           wa.melPath = gSessions[s].melPath /\ wa.melPath = wa.melPathOwned /\ PcmSupported
      /\ wa.melPath \notin TempFiles => wa.melPath = latest'[s].mel
      /\ \A t \in Sids \ {s} : latest'[t] = latest[t]
      /\ line.audio \in Pcms => latest'[s].pcm = line.audio
      /\ line.audio \notin Pcms => latest'[s].pcm = latest[s].pcm
  BY <1>1, AudioApplied
<1>3. wa \in SessionState /\ st \in SessionState
  BY <1>1, WithAudioType
<1>4. st.melPathOwned = wa.melPathOwned /\ st.pcmB64 = wa.pcmB64 /\ st.melPath = wa.melPath
  BY <1>3 DEF SessionState
<1>5. tempFiles \in [TempFiles -> Pcms \cup {None}] /\ gSessions \in [Sids -> SessionState]
  BY DEF TypeOK
<1>6. Open' = Open
  BY ChunkKeepsLaneIds DEF Open
<1>7. AudioAt(gSessions[s], latest[s], tempFiles)
  BY <1>1 DEF AudioInv
<1>8. /\ \A f \in TempFiles : removed[f] \in {None, tempFiles[f]}
      /\ \A f \in TempFiles : f = st.melPathOwned => removed[f] = None
      /\ removed \in [TempFiles -> Pcms \cup {None}]
  BY <1>2, <1>4, <1>5, FilesType DEF Without
<1>9. \/ st.pcmB64 # None /\ ~PcmSupported /\ SetSession(s, st) /\ Emit("error", s) /\ tempFiles' = tempFiles
      \/ st.pcmB64 # None /\ SetSession(s, st) /\ Emit("error", s) /\ tempFiles' = removed
      \/ /\ st.pcmB64 # None /\ PcmSupported
         /\ \E f \in TempFiles :
              /\ IsFresh(f) /\ tempFiles' = [removed EXCEPT ![f] = st.pcmB64]
              /\ SetSession(s, [st EXCEPT !.melPath = f, !.melPathOwned = f])
              /\ Decodes("partial", s, f, tempFiles')
      \/ /\ st.pcmB64 = None /\ SetSession(s, st) /\ tempFiles' = tempFiles
         /\ IF st.melPath = None THEN Emit("chunk_ack", s) ELSE Decodes("partial", s, st.melPath, tempFiles)
  BY Zenon DEF handleChunk
<1> HIDE DEF wa, st, removed
\* the other sessions
<1>10. ASSUME NEW t \in Open \ {s}, gSessions'[t] = gSessions[t],
              \A f \in TempFiles : tempFiles'[f] \in {None, tempFiles[f]} \/ f # gSessions[t].melPath
       PROVE  AudioAt(gSessions'[t], latest'[t], tempFiles')
  <2>1. latest'[t] = latest[t]
    BY <1>2 DEF Open
  <2>2. QED
    BY <1>10, <2>1, AudioStays
<1>11. ASSUME SetSession(s, st), tempFiles' \in {tempFiles, removed}
       PROVE  /\ gSessions'[s] = st /\ \A t \in Open \ {s} : AudioAt(gSessions'[t], latest'[t], tempFiles')
  <2>1. gSessions'[s] = st /\ \A t \in Open \ {s} : gSessions'[t] = gSessions[t]
    BY <1>1, <1>5, <1>11 DEF SetSession, Open
  <2>2. \A f \in TempFiles : tempFiles'[f] \in {None, tempFiles[f]}
    BY <1>8, <1>11
  <2>3. QED
    BY <1>10, <2>1, <2>2
<1>12. ASSUME AudioAt(gSessions'[s], latest'[s], tempFiles'),
              \A t \in Open \ {s} : AudioAt(gSessions'[t], latest'[t], tempFiles')
       PROVE  AudioInv'
  BY <1>6, <1>12 DEF AudioInv
<1>13. CASE st.pcmB64 # None /\ ~PcmSupported /\ SetSession(s, st) /\ Emit("error", s) /\ tempFiles' = tempFiles
  <2>1. AudioAt(st, latest'[s], tempFiles')
    BY <1>2, <1>4, <1>13 DEF AudioAt
  <2>2. QED
    BY <1>11, <1>12, <1>13, <2>1, EmitsNoText
<1>14. CASE st.pcmB64 # None /\ SetSession(s, st) /\ Emit("error", s) /\ tempFiles' = removed
  <2>1. AudioAt(st, latest'[s], tempFiles')
    BY <1>2, <1>4, <1>8, <1>14 DEF AudioAt
  <2>2. QED
    BY <1>11, <1>12, <1>14, <2>1, EmitsNoText
<1>15. ASSUME st.pcmB64 # None, PcmSupported, NEW f \in TempFiles, IsFresh(f),
              tempFiles' = [removed EXCEPT ![f] = st.pcmB64],
              SetSession(s, [st EXCEPT !.melPath = f, !.melPathOwned = f]),
              Decodes("partial", s, f, tempFiles')
       PROVE  AudioInv' /\ LastOfItsKind'
  <2>1. /\ st.pcmB64 = latest'[s].pcm /\ tempFiles'[f] = latest'[s].pcm
        /\ \A g \in TempFiles \ {f} : tempFiles'[g] \in {None, tempFiles[g]}
    BY <1>2, <1>4, <1>8, <1>15
  <2>2. /\ gSessions'[s].melPath = f /\ gSessions'[s].melPathOwned = f /\ gSessions'[s].pcmB64 = st.pcmB64
        /\ \A t \in Open \ {s} : gSessions'[t] = gSessions[t]
    <3>1. gSessions'[s] = [st EXCEPT !.melPath = f, !.melPathOwned = f] /\ \A t \in Open \ {s} : gSessions'[t] = gSessions[t]
      BY <1>1, <1>5, <1>15 DEF SetSession, Open
    <3>2. QED
      BY <1>3, <3>1 DEF SessionState
  <2>3. AudioAt(gSessions'[s], latest'[s], tempFiles')
    BY <1>15, <2>1, <2>2 DEF AudioAt
  <2>4. \A t \in Open \ {s} : AudioAt(gSessions'[t], latest'[t], tempFiles')
    <3> SUFFICES ASSUME NEW t \in Open \ {s} PROVE AudioAt(gSessions'[t], latest'[t], tempFiles')
      OBVIOUS
    <3>1. gSessions[t].melPath # f
      BY <1>15 DEF IsFresh, Open
    <3>2. QED
      BY <1>10, <2>1, <2>2, <3>1
  <2>5. LastOfItsKind'
    <3>1. ContentOf(f, tempFiles') = latest'[s].pcm
      BY <2>1 DEF ContentOf
    <3>2. QED
      BY <1>15, <3>1, DecodesLast
  <2>6. QED
    BY <1>12, <2>3, <2>4, <2>5
<1>16. CASE /\ st.pcmB64 = None /\ SetSession(s, st) /\ tempFiles' = tempFiles
            /\ IF st.melPath = None THEN Emit("chunk_ack", s) ELSE Decodes("partial", s, st.melPath, tempFiles)
  <2>1. latest'[s].pcm = latest[s].pcm
    BY <1>2, <1>4, <1>16, AsrConstants
  <2>2. AudioAt(st, latest'[s], tempFiles')
    BY <1>2, <1>4, <1>7, <1>16, <2>1 DEF AudioAt
  <2>3. ContentOf(st.melPath, tempFiles) \in {None, latest'[s].mel, latest'[s].pcm}
    BY <1>16, <2>2 DEF AudioAt, ContentOf
  <2>4. LastOfItsKind'
    BY <1>16, <2>3, EmitsNoText, DecodesLast
  <2>5. QED
    BY <1>11, <1>12, <1>16, <2>2, <2>4
<1>17. QED
  BY <1>9, <1>13, <1>14, <1>15, <1>16, Zenon

(* Every step keeps what the sessions know of their audio. *)
LEMMA AudioStep == TypeOK /\ AudioInv /\ LastOfItsKind /\ [Next]_vars => AudioInv' /\ LastOfItsKind'
<1> SUFFICES ASSUME TypeOK, AudioInv, LastOfItsKind, [Next]_vars PROVE AudioInv' /\ LastOfItsKind'
  OBVIOUS
<1>1. CASE handleBegin \/ handleChunk \/ handleEnd
  BY <1>1, BeginAudio, ChunkAudio, EndAudio
<1>2. CASE unknownSession("chunk") \/ unknownSession("end") \/ oneShot \/ rejectLine
  <2>1. LastOfItsKind'
    BY <1>2, EmitsNoText DEF unknownSession, oneShot, rejectLine
  <2>2. UNCHANGED <<gSessions, tempFiles, latest>>
    BY <1>2 DEF unknownSession, oneShot, rejectLine
  <2>3. QED
    BY <2>1, <2>2 DEF AudioInv, Open
<1>3. CASE readStdin \/ eof \/ send \/ closeStdin
  <2>1. UNCHANGED <<gSessions, tempFiles, latest>> /\ out' = {}
    BY <1>3 DEF readStdin, eof, send, closeStdin
  <2>2. QED
    BY <2>1 DEF AudioInv, Open, LastOfItsKind
<1>4. CASE pollTimeout \/ endOfLines
  <2>1. sweepIdleSessions
    BY <1>4 DEF pollTimeout, endOfLines
  <2>2. LastOfItsKind'
    BY <2>1 DEF sweepIdleSessions, LastOfItsKind
  <2>3. Open' \subseteq Open /\ \A t \in Open' : gSessions'[t] = gSessions[t]
    BY <2>1 DEF sweepIdleSessions, Open, NoSession
  <2>4. \A f \in TempFiles : tempFiles'[f] \in {None, tempFiles[f]}
    BY <2>1 DEF sweepIdleSessions, Without
  <2>5. latest' = latest
    BY <2>1 DEF sweepIdleSessions
  <2>6. QED
    BY <2>2, <2>3, <2>4, <2>5, ClosingKeepsAudio
<1>5. CASE tick
  <2>1. UNCHANGED <<tempFiles, latest>> /\ out' = {}
    BY <1>5 DEF tick
  <2>2. \A t \in Sids : /\ gSessions'[t].laneId = gSessions[t].laneId /\ gSessions'[t].pcmB64 = gSessions[t].pcmB64
                        /\ gSessions'[t].melPath = gSessions[t].melPath
                        /\ gSessions'[t].melPathOwned = gSessions[t].melPathOwned
    BY <1>5 DEF tick, TypeOK, SessionState
  <2>3. Open' = Open /\ Open \subseteq Sids
    BY <2>2 DEF Open
  <2>4. QED
    BY <2>1, <2>2, <2>3, ClosingKeepsAudio DEF LastOfItsKind
<1>6. CASE UNCHANGED vars
  BY <1>6 DEF vars, AudioInv, Open, LastOfItsKind
<1>7. QED
  BY <1>1, <1>2, <1>3, <1>4, <1>5, <1>6 DEF Next, Worker

(* The engine hears no stale audio (handleChunk, handleEnd): a transcript is *)
(* of the last path or the last payload its session received, for any number *)
(* of sessions, whatever the clients mix and through failed conversions,     *)
(* re-begins and ends.                                                       *)
THEOREM LastAudioIsHeard == Spec => []LastOfItsKind
<1>1. Init => AudioInv /\ LastOfItsKind
  BY DEF Init, AudioInv, LastOfItsKind, Open, NoSession
<1>2. TypeOK /\ AudioInv /\ LastOfItsKind /\ [Next]_vars => AudioInv' /\ LastOfItsKind'
  BY AudioStep
<1>3. QED
  BY <1>1, <1>2, TypeCorrect, PTL DEF Spec
=============================================================================
