---------------------------- MODULE SparkStream ----------------------------
(***************************************************************************)
(* The token and audio side of processRequest in spark_tts_worker.cpp: the *)
(* consumer collects global and semantic tokens from the StreamChannel,    *)
(* starts the vocoder once the global tokens are there, emits at most one  *)
(* audio chunk per delta while the decode runs, and flushes the rest when  *)
(* it has finished.  A chunk is the range of semantic tokens it is the     *)
(* audio of: the overlap to its left is vocoded again and discarded.       *)
(***************************************************************************)
EXTENDS Integers, Sequences

CONSTANTS
  NGlobal,       (* 32: global tokens the speaker decoder needs             *)
  MaxSemantic,   (* max_semantic: cap of the BiCodec profile                *)
  MaxTokens,     (* max_tokens: the decode produces no more                 *)
  RefTokens,     (* clone: the numbers of reference tokens requests carry   *)
  ChunkSizes,    (* the chunk sizes requests ask for                        *)
  MaxDelta       (* bound: tokens of a kind in one StreamChunk              *)

ASSUME StreamConstants ==
  /\ NGlobal \in Nat \ {0} /\ MaxSemantic \in Nat /\ MaxTokens \in Nat
  /\ RefTokens \subseteq Nat /\ ChunkSizes \subseteq Nat \ {0}
  /\ MaxDelta \in Nat

VARIABLES
  item,          (* the request's parameters                                *)
  promptEchoed,  (* whether the runtime's stream repeats the prompt tokens  *)
  phase,         (* where processRequest is, or how it ended                *)
  decoded,       (* tokens received                                         *)
  received,      (* history: semantic tokens received                       *)
  nGlobal,       (* global.size()                                           *)
  nSemantic,     (* semantic.size()                                         *)
  skipped,       (* semanticSkipped                                         *)
  dVectorReady,  (* the speaker decoder has run                             *)
  emittedTokens, (* semantic tokens turned into audio                       *)
  chunks         (* chunk events written                                    *)

tokens == <<decoded, received, nGlobal, nSemantic, skipped, dVectorReady>>
consumerVars == <<item, promptEchoed, phase, tokens, emittedTokens, chunks>>

Least(a, b) == IF a <= b THEN a ELSE b

(* refSemantic is the number of reference tokens of a clone request; chunk   *)
(* sizes are at least 1.                                                     *)
Items ==
  [isClone : BOOLEAN, refSemantic : RefTokens, streamAudio : BOOLEAN,
   firstChunkTokens : ChunkSizes, chunkTokens : ChunkSizes]

refSemanticEcho == IF item.isClone THEN item.refSemantic ELSE 0

ConsumerInit ==
  /\ item \in Items /\ promptEchoed \in BOOLEAN
  /\ phase = "decoding" /\ decoded = 0 /\ received = 0
  /\ nGlobal = (IF item.isClone THEN NGlobal ELSE 0)
  /\ dVectorReady = item.isClone
  /\ nSemantic = 0 /\ skipped = 0
  /\ emittedTokens = 0 /\ chunks = << >>

(* Tokens the next chunk waits for. *)
want == IF Len(chunks) = 0 THEN item.firstChunkTokens ELSE item.chunkTokens

(* emitAudioChunk of the audio of the tokens from + 1 .. to. *)
Chunk(from, to, isFinal) == [from |-> from, to |-> to, isFinal |-> isFinal]

(* Vocode up to endToken; the samples of the left overlap are discarded, so  *)
(* the audio starts at emittedTokens.                                        *)
vocodeChunkWindow(endToken) == emittedTokens' = endToken

emitOneChunk(endToken, isFinal) ==
  /\ vocodeChunkWindow(endToken)
  /\ chunks' = Append(chunks, Chunk(emittedTokens, endToken, isFinal))

(* Mutant: no prompt token is skipped. *)
EchoesNone(m) == 0

(* Of m semantic tokens, the ones dropped as echoes of the prompt. *)
Echoes(m) == Least(m, refSemanticEcho - skipped)

(* semantic.size() after m more semantic tokens. *)
Collected(m) == Least(MaxSemantic, nSemantic + m - Echoes(m))

(* A StreamChunk with g global and m semantic tokens: echoes of the prompt   *)
(* are dropped, the rest collected up to the caps; the d_vector may become   *)
(* ready, and then at most one full chunk is vocoded.  The last StreamChunk  *)
(* ends the loop.                                                            *)
receive(g, m, last) ==
  /\ phase = "decoding" /\ decoded + g + m <= MaxTokens
  /\ decoded' = decoded + g + m /\ received' = received + m
  /\ nGlobal' = (IF item.isClone THEN nGlobal ELSE Least(NGlobal, nGlobal + g))
  /\ skipped' = skipped + Echoes(m)
  /\ nSemantic' = Collected(m)
  /\ dVectorReady' = (dVectorReady \/ nGlobal' = NGlobal)
  /\ IF item.streamAudio /\ dVectorReady' /\ nSemantic' - emittedTokens >= want
     THEN emitOneChunk(emittedTokens + want, FALSE)
     ELSE UNCHANGED <<chunks, emittedTokens>>
  /\ phase' = IF last THEN "ended" ELSE "decoding"
  /\ UNCHANGED <<item, promptEchoed>>

(* waitPop has nothing more and the channel is finished or cancelled. *)
endOfStream ==
  /\ phase = "decoding"
  /\ phase' = "ended"
  /\ UNCHANGED <<item, promptEchoed, tokens, emittedTokens, chunks>>

(* After the join: the decode failed, the channel was cancelled, or the rest *)
(* of the audio is due.                                                      *)
decideEnd ==
  /\ phase = "ended"
  /\ phase' \in {"error", "cancelled", "flush"}
  /\ UNCHANGED <<item, promptEchoed, tokens, emittedTokens, chunks>>

(* Without all global and some semantic tokens there is no audio. *)
Complete == nGlobal = NGlobal /\ nSemantic > 0

(* Mutant: the last chunk is as long as the others. *)
drainEndFull == emittedTokens + want

drainEnd == Least(nSemantic, emittedTokens + want)

(* The drain loop: the chunk that reaches the last token is the final one. *)
drain ==
  /\ phase = "flush" /\ Complete /\ item.streamAudio /\ emittedTokens < nSemantic
  /\ emitOneChunk(drainEnd, drainEnd >= nSemantic)
  /\ phase' = IF drainEnd >= nSemantic THEN "save" ELSE "flush"
  /\ UNCHANGED <<item, promptEchoed, tokens>>

(* Mutant: the exact-multiple case is forgotten. *)
finalMarkerMissing ==
  /\ phase = "flush" /\ Complete /\ item.streamAudio /\ emittedTokens = nSemantic
  /\ phase' = "save"
  /\ UNCHANGED <<item, promptEchoed, tokens, emittedTokens, chunks>>

(* Live emission has already used every token: an empty final marker. *)
finalMarker ==
  /\ phase = "flush" /\ Complete /\ item.streamAudio /\ emittedTokens = nSemantic
  /\ chunks' = Append(chunks, Chunk(emittedTokens, emittedTokens, TRUE))
  /\ phase' = "save"
  /\ UNCHANGED <<item, promptEchoed, tokens, emittedTokens>>

(* stream_audio = false: one segment, no chunk events. *)
singleSegment ==
  /\ phase = "flush" /\ Complete /\ ~item.streamAudio
  /\ phase' = "save"
  /\ UNCHANGED <<item, promptEchoed, tokens, emittedTokens, chunks>>

(* The WAV file is written and done is sent. *)
saveWav ==
  /\ phase = "save"
  /\ phase' = "done"
  /\ UNCHANGED <<item, promptEchoed, tokens, emittedTokens, chunks>>

(* The catch arm: a vocoder run or the WAV file failed, or tokens are        *)
(* missing, which is noticed before any audio is flushed.                    *)
throw ==
  /\ phase \in {"decoding", "flush", "save"}
  /\ phase' = "error"
  /\ UNCHANGED <<item, promptEchoed, tokens, emittedTokens, chunks>>

ConsumerNext ==
  \/ \E g, m \in 0 .. MaxDelta, last \in BOOLEAN : receive(g, m, last)
  \/ endOfStream \/ decideEnd
  \/ drain \/ finalMarker \/ singleSegment \/ saveWav \/ throw

ConsumerSpec == ConsumerInit /\ [][ConsumerNext]_consumerVars
-----------------------------------------------------------------------------
Chunks == [from : Nat, to : Nat, isFinal : BOOLEAN]

ConsumerTypeOK ==
  /\ phase \in {"decoding", "ended", "flush", "save", "done", "cancelled", "error"}
  /\ item \in Items /\ promptEchoed \in BOOLEAN
  /\ decoded \in 0 .. MaxTokens /\ received \in 0 .. decoded
  /\ nGlobal \in 0 .. NGlobal /\ nSemantic \in 0 .. MaxSemantic
  /\ skipped \in 0 .. refSemanticEcho
  /\ dVectorReady \in BOOLEAN
  /\ emittedTokens \in Nat
  /\ chunks \in Seq(Chunks)

(* The audio chunks cover the semantic tokens without gap or overlap, in     *)
(* order, and never run ahead of the tokens received.                        *)
Contiguous ==
  /\ emittedTokens <= nSemantic
  /\ chunks = << >> => emittedTokens = 0
  /\ chunks # << >> => chunks[1].from = 0 /\ chunks[Len(chunks)].to = emittedTokens
  /\ \A i \in 1 .. Len(chunks) - 1 : chunks[i].to = chunks[i + 1].from
  /\ \A i \in 1 .. Len(chunks) : chunks[i].from <= chunks[i].to

(* is_final comes once: at most one chunk is marked, it is the last one and  *)
(* reaches the last token, no audio follows it, and only it may be empty; a  *)
(* streamed request that is done has it, even when live emission ended       *)
(* exactly at the last token.                                                *)
OneFinalChunk ==
  /\ \A i \in 1 .. Len(chunks) :
       /\ chunks[i].isFinal => /\ i = Len(chunks) /\ chunks[i].to = nSemantic
                              /\ phase \in {"save", "done", "error"}
       /\ chunks[i].from = chunks[i].to => chunks[i].isFinal
  /\ phase \in {"save", "done"} /\ item.streamAudio =>
       chunks # << >> /\ chunks[Len(chunks)].isFinal

(* The semantic tokens received that the model generated: all but the echo   *)
(* of the prompt, if there is one.                                           *)
Beyond(n, prefix) == IF n <= prefix THEN 0 ELSE n - prefix
Generated == IF promptEchoed THEN Beyond(received, refSemanticEcho) ELSE received

(* What reaches the vocoder, however the StreamChunks cut the stream: if the *)
(* runtime echoes the prompt, exactly the generated tokens, up to the cap;   *)
(* if it does not, the first refSemanticEcho of them are taken for the echo  *)
(* and lost, and no other.                                                   *)
VocodedSpeech ==
  nSemantic = Least(MaxSemantic,
                    IF promptEchoed THEN Generated ELSE Beyond(Generated, refSemanticEcho))

(* "The LLM stream may or may not echo prompt tokens ... We skip echoed      *)
(* prompt tokens so only NEWLY generated semantic reaches the vocoder ...    *)
(* Detection is empirical, not assumed": every semantic token the model      *)
(* generated is collected, up to the cap, and none of the prompt is.         *)
GeneratedIsVocoded == nSemantic = Least(MaxSemantic, Generated)
=============================================================================
