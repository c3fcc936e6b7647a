----------------------------- MODULE AsrWorker -----------------------------
(***************************************************************************)
(* native/edgellm_voice_worker/qwen3_asr_worker.cpp: the ASR worker        *)
(* process.  One thread polls stdin, dispatches whole JSON lines to        *)
(* handleBegin / handleChunk / handleEnd or to the event-less one-shot     *)
(* path, and sweeps idle sessions after every read and every poll timeout. *)
(* A session owns a lane of the SessionLaneManager and, when its audio     *)
(* arrives as PCM, one temporary audio file.                               *)
(*                                                                         *)
(* Data is abstracted: an audio descriptor is a client-owned mel path or a *)
(* PCM payload, a transcript is the audio it was decoded from, and time is *)
(* the number of ticks a session has been idle, capped just past the       *)
(* timeout.  A tick may fall between any two steps, so a decode may take   *)
(* arbitrarily long.                                                       *)
(***************************************************************************)
EXTENDS Integers, Sequences, FiniteSets

CONSTANTS
  Sids,          (* session ids                                             *)
  NoId,          (* the empty id of a line that carries none                *)
  MelPaths,      (* mel_path / audio values: files the client owns          *)
  Pcms,          (* pcm_b64 payloads                                        *)
  TempFiles,     (* names for temporary audio files                         *)
  None,          (* absent audio, path, payload or file                     *)
  PhysBatch,     (* runtime->maxSessionBatchSize()                          *)
  MaxSlots,      (* --max_slots                                             *)
  PcmSupported,  (* pcmInputSupported(): fixed by the build and the flags   *)
  IdleTimeout,   (* kIdleTimeoutMs, in ticks                                *)
  PipeCap        (* bound: lines in the stdin pipe                          *)

ASSUME AsrConstants ==
  /\ PhysBatch \in Nat \ {0} /\ MaxSlots \in Nat \ {0}
  /\ IdleTimeout \in Nat /\ PipeCap \in Nat
  /\ PcmSupported \in BOOLEAN
  /\ NoId \notin Sids
  /\ None \notin MelPaths \cup Pcms \cup TempFiles
  /\ MelPaths \cap Pcms = {} /\ MelPaths \cap TempFiles = {}
  /\ Pcms \cap TempFiles = {}

VARIABLES
  gSessions,     (* sid -> SessionState; NoSession when not in the map      *)
  asrLanes,      (* the lane manager's records                              *)
  tempFiles,     (* temporary audio files: the payload each holds, or None  *)
  pipe,          (* complete lines in the stdin pipe                        *)
  stdinOpen,     (* the client still holds the write end                    *)
  buffer,        (* lines read and not yet processed                        *)
  loop,          (* where the main loop is: "poll", "lines" or "exited"     *)
  out,           (* events written to stdout by the last step               *)
  latest         (* history: the last path, the last payload and the newest *)
                 (* audio descriptor a session received                     *)

vars == <<gSessions, asrLanes, tempFiles, pipe, stdinOpen, buffer, loop, out, latest>>

(* main(): max_slots clamped to the engine's batch rows, and to at least 1. *)
asrMax ==
  LET clamped == IF MaxSlots > PhysBatch THEN PhysBatch ELSE MaxSlots
  IN  IF clamped < 1 THEN 1 ELSE clamped

Lane == INSTANCE LaneManager WITH
  MaxBatch <- PhysBatch, AsrMax <- asrMax, TtsMax <- 0, mLanes <- asrLanes,
  OwnerIds <- Sids, NoOwner <- NoId

Audio == MelPaths \cup Pcms

SessionState ==
  [laneId : Int, melPath : MelPaths \cup TempFiles \cup {None},
   melPathOwned : TempFiles \cup {None}, pcmB64 : Pcms \cup {None},
   idle : 0 .. IdleTimeout + 1]

(* What a session has received so far. *)
Receipt ==
  [mel : MelPaths \cup {None}, pcm : Pcms \cup {None}, newest : Audio \cup {None}]
Nothing == [mel |-> None, pcm |-> None, newest |-> None]

NoSession ==
  [laneId |-> -1, melPath |-> None, melPathOwned |-> None, pcmB64 |-> None,
   idle |-> 0]

Open == {s \in Sids : gSessions[s].laneId # -1}

Line ==
  [ev : {"begin"}, sid : Sids \cup {NoId}, audio : {None}, last : {FALSE}]
  \cup [ev : {"chunk"}, sid : Sids, audio : Audio \cup {None}, last : BOOLEAN]
  \cup [ev : {"end"}, sid : Sids, audio : Audio \cup {None}, last : {FALSE}]
  \cup [ev : {"oneshot", "unknown"}, sid : Sids, audio : {None}, last : {FALSE}]
  \cup [ev : {"garbled"}, sid : {NoId}, audio : {None}, last : {FALSE}]

Event ==
  [ev : {"begin_ack", "chunk_ack", "partial", "final", "timeout", "done",
         "pool_saturated", "error"},
   sid : Sids \cup {NoId}, text : Audio \cup {None}]

(* An event with a transcript carries the audio it is the transcript of. *)
EmitText(name, s, text) == out' = {[ev |-> name, sid |-> s, text |-> text]}
Emit(name, s) == EmitText(name, s, None)

-----------------------------------------------------------------------------
(* Temporary files.  Their names carry a clock reading and are never reused: *)
(* a fresh name is one that neither exists nor is remembered by a session.   *)
IsFresh(f) ==
  /\ f \in TempFiles /\ tempFiles[f] = None
  /\ \A s \in Sids : f \notin {gSessions[s].melPath, gSessions[s].melPathOwned}

Without(fs, gone) == [f \in TempFiles |-> IF f \in gone THEN None ELSE fs[f]]

(* What the engine reads at a path: a removed file reads as None. *)
ContentOf(path, fs) == IF path \in TempFiles THEN fs[path] ELSE path

(* A decode of the audio at a path may succeed only when the audio is there. *)
Decodes(name, s, path, fs) ==
  \/ ContentOf(path, fs) # None /\ EmitText(name, s, ContentOf(path, fs))
  \/ Emit(IF name = "final" THEN "final" ELSE "error", s)

-----------------------------------------------------------------------------
line == Head(buffer)

(* The main loop takes the next whole line of the buffer. *)
Dispatch(event) ==
  /\ loop = "lines" /\ buffer # << >>
  /\ line.ev = event
  /\ buffer' = Tail(buffer)
  /\ UNCHANGED <<loop, pipe, stdinOpen>>

SetSession(s, st) == gSessions' = [gSessions EXCEPT ![s] = st]

(* handleBegin: an id is required; a re-begin only refreshes the session; a  *)
(* new session needs a free lane.                                            *)
handleBegin ==
  /\ Dispatch("begin")
  /\ UNCHANGED tempFiles
  /\ LET s == line.sid IN
     \/ /\ s = NoId
        /\ Emit("error", NoId)
        /\ UNCHANGED <<gSessions, asrLanes, latest>>
     \/ /\ s \in Open
        /\ SetSession(s, [gSessions[s] EXCEPT !.idle = 0])
        /\ Emit("begin_ack", s)
        /\ UNCHANGED <<asrLanes, latest>>
     \/ /\ s \in Sids \ Open
        /\ Lane!acquireFails("kAsr")
        /\ Emit("pool_saturated", s)
        /\ UNCHANGED <<gSessions, latest>>
     \/ /\ s \in Sids \ Open
        /\ \E lane \in Lane!Partition("kAsr") :
             /\ Lane!acquire("kAsr", s, lane)
             /\ SetSession(s, [NoSession EXCEPT !.laneId = lane])
        /\ Emit("begin_ack", s)
        /\ latest' = [latest EXCEPT ![s] = Nothing]

(* Mutant: an audio payload of either kind is taken for a path. *)
WithAudioAsPath(st, audio) ==
  [st EXCEPT !.melPath = IF audio = None THEN @ ELSE audio]

(* Mutant: the first PCM payload is kept. *)
WithAudioFirstWins(st, audio) ==
  [st EXCEPT !.melPath = IF audio \in MelPaths THEN audio ELSE @,
             !.pcmB64 = IF audio \in Pcms /\ @ = None THEN audio ELSE @]

(* The session after the audio fields of a chunk or end line are applied. *)
WithAudio(st, audio) ==
  [st EXCEPT !.melPath = IF audio \in MelPaths THEN audio ELSE @,
             !.pcmB64 = IF audio \in Pcms THEN audio ELSE @]

Received(s, audio) ==
  latest' = [latest EXCEPT ![s] =
    [mel    |-> IF audio \in MelPaths THEN audio ELSE @.mel,
     pcm    |-> IF audio \in Pcms THEN audio ELSE @.pcm,
     newest |-> IF audio = None THEN @.newest ELSE audio]]

(* A chunk or end line for a session that is not in the map. *)
unknownSession(event) ==
  /\ Dispatch(event)
  /\ line.sid \notin Open
  /\ Emit("error", line.sid)
  /\ UNCHANGED <<gSessions, asrLanes, tempFiles, latest>>

(* Mutant: the session goes, its lane stays. *)
CloseKeepsLane(s, fs, owned) ==
  /\ tempFiles' = Without(fs, owned)
  /\ SetSession(s, NoSession)
  /\ UNCHANGED asrLanes

(* Mutant: the temporary files of the session stay. *)
CloseKeepsFiles(s, fs, owned) ==
  /\ tempFiles' = fs
  /\ Lane!release({gSessions[s].laneId})
  /\ SetSession(s, NoSession)

(* handleEnd (also reached by a chunk with last:true): the session is copied, *)
(* the line's audio applied to the copy, PCM converted, the audio decoded;    *)
(* whatever happened, the owned files are removed, the lane released and the  *)
(* session erased.                                                           *)
Close(s, fs, owned) ==
  /\ tempFiles' = Without(fs, owned)
  /\ Lane!release({gSessions[s].laneId})
  /\ SetSession(s, NoSession)

handleEnd ==
  LET s  == line.sid
      st == WithAudio(gSessions[s], line.audio)
      carriesPcm == line.audio \in Pcms
      old == {gSessions[s].melPathOwned}
  IN
  /\ \/ Dispatch("end")
     \/ Dispatch("chunk") /\ line.last
  /\ s \in Open
  /\ Received(s, line.audio)
  /\ \/ /\ carriesPcm /\ PcmSupported
        /\ \E f \in TempFiles :
             /\ IsFresh(f)
             /\ LET written == [Without(tempFiles, old) EXCEPT ![f] = line.audio]
                IN  /\ Decodes("final", s, f, written)
                    /\ Close(s, written, old \cup {f})
     \/ /\ carriesPcm                  (* conversion threw, or unsupported *)
        /\ Emit("error", s)
        /\ Close(s, tempFiles, old)
     \/ /\ ~carriesPcm /\ st.melPath = None
        /\ Emit("error", s)
        /\ Close(s, tempFiles, old)
     \/ /\ ~carriesPcm /\ st.melPath # None
        /\ Decodes("final", s, st.melPath, tempFiles)
        /\ Close(s, tempFiles, old)

(* handleChunk, last:false: the audio fields are recorded, any PCM the       *)
(* session holds is converted to a fresh file that replaces the owned one,   *)
(* and the audio so far is decoded into a partial.                           *)
handleChunk ==
  LET s  == line.sid
      st == [WithAudio(gSessions[s], line.audio) EXCEPT !.idle = 0]
      removed == Without(tempFiles, {st.melPathOwned})
  IN
  /\ Dispatch("chunk") /\ ~line.last
  /\ s \in Open
  /\ Received(s, line.audio)
  /\ UNCHANGED asrLanes
  /\ \/ /\ st.pcmB64 # None /\ ~PcmSupported
        /\ SetSession(s, st)
        /\ Emit("error", s)
        /\ UNCHANGED tempFiles
     \/ /\ st.pcmB64 # None /\ PcmSupported      (* the conversion throws *)
        /\ SetSession(s, st)
        /\ tempFiles' = removed
        /\ Emit("error", s)
     \/ /\ st.pcmB64 # None /\ PcmSupported
        /\ \E f \in TempFiles :
             /\ IsFresh(f)
             /\ tempFiles' = [removed EXCEPT ![f] = st.pcmB64]
             /\ SetSession(s, [st EXCEPT !.melPath = f, !.melPathOwned = f])
             /\ Decodes("partial", s, f, tempFiles')
     \/ /\ st.pcmB64 = None
        /\ SetSession(s, st)
        /\ IF st.melPath = None THEN Emit("chunk_ack", s)
                                ELSE Decodes("partial", s, st.melPath, tempFiles)
        /\ UNCHANGED tempFiles

(* A line without "event" runs the one-shot core: the answer carries the id, *)
(* except when the request cannot be parsed or run.                          *)
oneShot ==
  /\ Dispatch("oneshot")
  /\ \/ Emit("done", line.sid)
     \/ Emit("error", line.sid)
     \/ Emit("error", NoId)
  /\ UNCHANGED <<gSessions, asrLanes, tempFiles, latest>>

(* Unparsable lines and unknown events are answered by an error. *)
rejectLine ==
  /\ Dispatch("garbled") \/ Dispatch("unknown")
  /\ Emit("error", line.sid)
  /\ UNCHANGED <<gSessions, asrLanes, tempFiles, latest>>

(* sweepIdleSessions: every session idle past the timeout is closed. *)
Idle == {s \in Open : gSessions[s].idle > IdleTimeout}

(* Mutant: swept sessions keep their lanes. *)
sweepKeepsLanes ==
  /\ gSessions' = [s \in Sids |-> IF s \in Idle THEN NoSession ELSE gSessions[s]]
  /\ tempFiles' = Without(tempFiles, {gSessions[s].melPathOwned : s \in Idle})
  /\ out' = {[ev |-> "timeout", sid |-> s, text |-> None] : s \in Idle}
  /\ UNCHANGED <<latest, asrLanes>>

sweepIdleSessions ==
  /\ gSessions' = [s \in Sids |-> IF s \in Idle THEN NoSession ELSE gSessions[s]]
  /\ tempFiles' = Without(tempFiles, {gSessions[s].melPathOwned : s \in Idle})
  /\ Lane!release({gSessions[s].laneId : s \in Idle})
  /\ out' = {[ev |-> "timeout", sid |-> s, text |-> None] : s \in Idle}
  /\ UNCHANGED latest

(* Mutant: the sweep is skipped when there was nothing to read. *)
pollTimeoutNoSweep ==
  /\ loop = "poll" /\ pipe = << >> /\ stdinOpen
  /\ out' = {}
  /\ UNCHANGED <<gSessions, asrLanes, tempFiles, pipe, stdinOpen, buffer, loop, latest>>

(* poll() times out with nothing to read: only the sweep runs. *)
pollTimeout ==
  /\ loop = "poll" /\ pipe = << >> /\ stdinOpen
  /\ sweepIdleSessions
  /\ UNCHANGED <<pipe, stdinOpen, buffer, loop>>

(* read() takes 4096 bytes: the lines it completes, possibly none when a     *)
(* long line is still arriving, enter the buffer.                            *)
readStdin ==
  /\ loop = "poll" /\ pipe # << >>
  /\ \E n \in 0 .. Len(pipe) :
       /\ buffer' = SubSeq(pipe, 1, n)
       /\ pipe' = SubSeq(pipe, n + 1, Len(pipe))
  /\ loop' = "lines"
  /\ out' = {}
  /\ UNCHANGED <<gSessions, asrLanes, tempFiles, stdinOpen, latest>>

(* The buffer holds no further whole line: the sweep closes the iteration. *)
endOfLines ==
  /\ loop = "lines" /\ buffer = << >>
  /\ sweepIdleSessions
  /\ loop' = "poll"
  /\ UNCHANGED <<pipe, stdinOpen, buffer>>

(* End of file: the loop breaks at once and the process exits.  Sessions are *)
(* not swept and their temporary files stay on disk.                         *)
eof ==
  /\ loop = "poll" /\ pipe = << >> /\ ~stdinOpen
  /\ loop' = "exited"
  /\ out' = {}
  /\ UNCHANGED <<gSessions, asrLanes, tempFiles, pipe, stdinOpen, buffer, latest>>

-----------------------------------------------------------------------------
(* Environment: the client writes lines and may close stdin; time passes. *)
send ==
  /\ stdinOpen /\ loop # "exited" /\ Len(pipe) < PipeCap
  /\ \E l \in Line : pipe' = Append(pipe, l)
  /\ out' = {}
  /\ UNCHANGED <<gSessions, asrLanes, tempFiles, stdinOpen, buffer, loop, latest>>

closeStdin ==
  /\ stdinOpen
  /\ stdinOpen' = FALSE
  /\ out' = {}
  /\ UNCHANGED <<gSessions, asrLanes, tempFiles, pipe, buffer, loop, latest>>

tick ==
  /\ loop # "exited"
  /\ \E s \in Open : gSessions[s].idle <= IdleTimeout
  /\ gSessions' = [s \in Sids |->
       IF s \in Open /\ gSessions[s].idle <= IdleTimeout
       THEN [gSessions[s] EXCEPT !.idle = @ + 1] ELSE gSessions[s]]
  /\ out' = {}
  /\ UNCHANGED <<asrLanes, tempFiles, pipe, stdinOpen, buffer, loop, latest>>

-----------------------------------------------------------------------------
Init ==
  /\ gSessions = [s \in Sids |-> NoSession]
  /\ Lane!LaneInit
  /\ tempFiles = [f \in TempFiles |-> None]
  /\ pipe = << >> /\ stdinOpen = TRUE /\ buffer = << >>
  /\ loop = "poll" /\ out = {}
  /\ latest = [s \in Sids |-> Nothing]

Worker ==
  \/ handleBegin \/ handleChunk \/ handleEnd
  \/ unknownSession("chunk") \/ unknownSession("end")
  \/ oneShot \/ rejectLine
  \/ pollTimeout \/ readStdin \/ endOfLines \/ eof

Next == Worker \/ send \/ closeStdin \/ tick

Spec == Init /\ [][Next]_vars

(* The worker is one thread that never waits longer than a poll, and clocks  *)
(* advance.                                                                  *)
FairSpec == Spec /\ WF_vars(Worker) /\ WF_vars(tick)
-----------------------------------------------------------------------------
TypeOK ==
  /\ gSessions \in [Sids -> SessionState]
  /\ Lane!LaneTypeOK
  /\ tempFiles \in [TempFiles -> Pcms \cup {None}]
  /\ pipe \in Seq(Line) /\ buffer \in Seq(Line)
  /\ stdinOpen \in BOOLEAN
  /\ loop \in {"poll", "lines", "exited"}
  /\ out \in SUBSET Event
  /\ latest \in [Sids -> Receipt]

(* Lanes and sessions match one to one: a session's lane is in use in the    *)
(* session's own name, and a lane in use belongs to a session in the map, so *)
(* re-begins, ends, saturation and sweeps leak no lane and share none.       *)
LaneOwnership ==
  /\ \A s \in Open : /\ gSessions[s].laneId \in Lane!Partition("kAsr")
                     /\ asrLanes[gSessions[s].laneId].inUse
                     /\ asrLanes[gSessions[s].laneId].ownerId = s
  /\ \A lane \in Lane!Lanes : asrLanes[lane].inUse =>
       /\ asrLanes[lane].ownerId \in Open
       /\ gSessions[asrLanes[lane].ownerId].laneId = lane

(* Every temporary audio file on disk is the one an open session owns: no    *)
(* path through chunk, end, failed conversion or sweep orphans a file, and   *)
(* no two sessions own the same one.                                         *)
TempFilesOwned ==
  /\ \A f \in TempFiles : tempFiles[f] # None =>
       \E s \in Open : gSessions[s].melPathOwned = f
  /\ \A s, t \in Open : /\ s # t /\ gSessions[s].melPathOwned # None
                        => gSessions[s].melPathOwned # gSessions[t].melPathOwned

(* A transcript is of audio its own session received, and never of a path    *)
(* that a later path, or of a payload that a later payload, superseded:      *)
(* whatever a client mixes, through conversions that fail, ends that carry   *)
(* audio or none and re-opened ids, the engine is not handed a stale file.   *)
LastOfItsKind ==
  \A e \in out : e.text # None => e.text \in {latest[e.sid].mel, latest[e.sid].pcm}

(* "each chunk carries the full-so-far audio descriptor ... Last wins"       *)
(* (handleChunk, 629-630): a transcript is of the newest descriptor of all.  *)
(* A payload the session holds is converted anew on every chunk and so masks *)
(* a path that came after it; a payload whose conversion failed gives way to *)
(* a path that came before it.                                               *)
LastAudioWins ==
  \A e \in out : e.text # None => e.text = latest[e.sid].newest

(* The audio path a session would hand to the engine always leads to audio:  *)
(* "melPath is ALWAYS a `.safetensors` mel path here ... pcm_b64 callers had *)
(* it converted to a temp mel safetensors" (buildFinalizeRequest, 763-766).  *)
AudioPathPresent ==
  \A s \in Open : gSessions[s].melPath \in TempFiles
                    => tempFiles[gSessions[s].melPath] # None

(* No lane is held for ever by a half-open session: again and again a        *)
(* session is closed or hears from its client, unless the process exits.     *)
(* This is what the sweep on every poll timeout and after every read is for. *)
IdleReclaimed ==
  \A s \in Sids :
    []<>(s \notin Open \/ gSessions[s].idle = 0 \/ loop = "exited")

(* The pool the worker implements: its open sessions, and the ids whose      *)
(* begin the last step refused.                                              *)
Refused == {e.sid : e \in {x \in out : x.ev = "pool_saturated"}}
Pool == INSTANCE SessionPool WITH
  Capacity <- asrMax, open <- Open, refused <- Refused

(* The worker's sessions behave as the pool's: never more than asrMax, and   *)
(* pool_saturated only when asrMax other sessions are really open.           *)
ImplementsSessionPool == Pool!Spec
=============================================================================
