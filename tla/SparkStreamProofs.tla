------------------------- MODULE SparkStreamProofs -------------------------
(***************************************************************************)
(* The audio stream of one Spark request, for every chunk size, cap and    *)
(* partition of the tokens into StreamChunks: the chunks are contiguous,   *)
(* the final marker comes once, and exactly the semantic tokens after the  *)
(* first refSemanticEcho are vocoded, whether these were an echo or not.   *)
(***************************************************************************)
EXTENDS SparkStream, TLAPS

USE StreamConstants

(* The fields of a request: std::max(1, ...) makes the chunk sizes positive. *)
LEMMA ItemFacts ==
  ASSUME item \in Items
  PROVE  /\ item.isClone \in BOOLEAN /\ item.streamAudio \in BOOLEAN
         /\ item.refSemantic \in Nat /\ refSemanticEcho \in Nat
         /\ want \in Nat \ {0}
BY DEF Items, refSemanticEcho, want

(* Of m tokens at most m are dropped as echoes, never more than the prompt   *)
(* has, and the collected tokens only grow, up to the cap.                   *)
LEMMA CollectFacts ==
  ASSUME ConsumerTypeOK, NEW m \in Nat
  PROVE  /\ Echoes(m) \in 0 .. m
         /\ skipped + Echoes(m) \in 0 .. refSemanticEcho
         /\ Collected(m) \in nSemantic .. MaxSemantic
<1>1. refSemanticEcho \in Nat /\ skipped \in 0 .. refSemanticEcho
      /\ nSemantic \in 0 .. MaxSemantic
  BY ItemFacts DEF ConsumerTypeOK
<1>2. /\ Echoes(m) \in 0 .. m
      /\ skipped + Echoes(m) \in 0 .. refSemanticEcho
  <2>1. refSemanticEcho - skipped \in Nat
    BY <1>1
  <2> QED BY <1>1, <2>1 DEF Echoes, Least
<1>3. nSemantic + m - Echoes(m) \in Int /\ nSemantic <= nSemantic + m - Echoes(m)
  BY <1>1, <1>2
<1>4. Collected(m) \in nSemantic .. MaxSemantic
  BY <1>1, <1>3 DEF Collected, Least
<1> QED BY <1>2, <1>4

(* The part of Contiguous that is about the chunks alone. *)
Chained ==
  /\ chunks = << >> => emittedTokens = 0
  /\ chunks # << >> => chunks[1].from = 0 /\ chunks[Len(chunks)].to = emittedTokens
  /\ \A i \in 1 .. Len(chunks) - 1 : chunks[i].to = chunks[i + 1].from
  /\ \A i \in 1 .. Len(chunks) : chunks[i].from <= chunks[i].to

(* What emitOneChunk appends. *)
LEMMA Emitted ==
  ASSUME ConsumerTypeOK, NEW e \in Nat, NEW f \in BOOLEAN, emitOneChunk(e, f)
  PROVE  /\ chunks' \in Seq(Chunks) /\ emittedTokens' = e
         /\ Len(chunks') = Len(chunks) + 1 /\ Len(chunks) \in Nat
         /\ \A i \in 1 .. Len(chunks) : chunks'[i] = chunks[i]
         /\ chunks'[Len(chunks) + 1].from = emittedTokens
         /\ chunks'[Len(chunks) + 1].to = e
         /\ chunks'[Len(chunks) + 1].isFinal = f
<1>1. Chunk(emittedTokens, e, f) \in Chunks /\ chunks \in Seq(Chunks)
  BY DEF ConsumerTypeOK, Chunk, Chunks
<1>2. chunks' = Append(chunks, Chunk(emittedTokens, e, f)) /\ emittedTokens' = e
  BY DEF emitOneChunk, vocodeChunkWindow
<1>3. /\ Chunk(emittedTokens, e, f).from = emittedTokens
      /\ Chunk(emittedTokens, e, f).to = e
      /\ Chunk(emittedTokens, e, f).isFinal = f
  BY DEF Chunk
<1>4. /\ chunks' \in Seq(Chunks)
      /\ Len(chunks') = Len(chunks) + 1 /\ Len(chunks) \in Nat
      /\ \A i \in 1 .. Len(chunks) : chunks'[i] = chunks[i]
      /\ chunks'[Len(chunks) + 1] = Chunk(emittedTokens, e, f)
  BY <1>1, <1>2
<1> QED BY <1>2, <1>3, <1>4

(* A chunk that starts at emittedTokens and does not end before it keeps the *)
(* chunks contiguous.                                                        *)
LEMMA EmitKeepsChained ==
  ASSUME ConsumerTypeOK, Chained, NEW e \in Nat, NEW f \in BOOLEAN, emittedTokens <= e,
         emitOneChunk(e, f)
  PROVE  Chained'
<1> DEFINE n == Len(chunks)
<1>1. /\ chunks' \in Seq(Chunks) /\ emittedTokens' = e
      /\ Len(chunks') = n + 1 /\ n \in Nat
      /\ \A i \in 1 .. n : chunks'[i] = chunks[i]
      /\ chunks'[n + 1].from = emittedTokens /\ chunks'[n + 1].to = e
  BY Emitted
<1>2. chunks \in Seq(Chunks) /\ (n = 0 <=> chunks = << >>)
  BY DEF ConsumerTypeOK
<1>3. chunks' # << >>
  BY <1>1
<1>4. chunks'[1].from = 0 /\ chunks'[Len(chunks')].to = emittedTokens'
  BY <1>1, <1>2 DEF Chained
<1>5. ASSUME NEW i \in 1 .. Len(chunks') - 1
      PROVE  chunks'[i].to = chunks'[i + 1].from
  <2>1. CASE i = n
    BY <1>1, <1>2, <2>1 DEF Chained
  <2>2. CASE i # n
    <3>1. i \in 1 .. n /\ i + 1 \in 1 .. n /\ i \in 1 .. n - 1
      BY <1>1, <2>2
    <3> QED BY <1>1, <3>1 DEF Chained
  <2> QED BY <2>1, <2>2
<1>6. ASSUME NEW i \in 1 .. Len(chunks')
      PROVE  chunks'[i].from <= chunks'[i].to
  <2>1. CASE i = n + 1
    BY <1>1, <2>1
  <2>2. CASE i # n + 1
    <3>1. i \in 1 .. n
      BY <1>1, <2>2
    <3> QED BY <1>1, <3>1 DEF Chained
  <2> QED BY <2>1, <2>2
<1> QED BY <1>3, <1>4, <1>5, <1>6 DEF Chained

(* Before the final chunk, one that is empty only if final, and final only   *)
(* when it reaches the last token, keeps is_final unique.                    *)
LEMMA EmitKeepsFinal ==
  ASSUME ConsumerTypeOK, OneFinalChunk, phase \in {"decoding", "flush"},
         NEW e \in Nat, NEW f \in BOOLEAN, emitOneChunk(e, f),
         emittedTokens = e => f,
         f => e = nSemantic' /\ phase' = "save",
         phase' \in {"save", "done"} => f
  PROVE  OneFinalChunk'
<1> DEFINE n == Len(chunks)
<1>1. /\ chunks' \in Seq(Chunks)
      /\ Len(chunks') = n + 1 /\ n \in Nat
      /\ \A i \in 1 .. n : chunks'[i] = chunks[i]
      /\ chunks'[n + 1].from = emittedTokens /\ chunks'[n + 1].to = e
      /\ chunks'[n + 1].isFinal = f
  BY Emitted
<1>2. ASSUME NEW i \in 1 .. Len(chunks')
      PROVE  /\ chunks'[i].isFinal => /\ i = Len(chunks') /\ chunks'[i].to = nSemantic'
                                      /\ phase' \in {"save", "done", "error"}
             /\ chunks'[i].from = chunks'[i].to => chunks'[i].isFinal
  <2>1. CASE i = n + 1
    BY <1>1, <2>1
  <2>2. CASE i # n + 1
    <3>1. i \in 1 .. n /\ chunks'[i] = chunks[i]
      BY <1>1, <2>2
    <3>2. ~chunks[i].isFinal /\ (chunks[i].from = chunks[i].to => chunks[i].isFinal)
      BY <3>1 DEF OneFinalChunk
    <3> QED BY <3>1, <3>2
  <2> QED BY <2>1, <2>2
<1>3. phase' \in {"save", "done"} => chunks' # << >> /\ chunks'[Len(chunks')].isFinal
  BY <1>1
<1> QED BY <1>2, <1>3 DEF OneFinalChunk

(* The three properties together: is_final reaches the last token because    *)
(* the chunks never run ahead, and an empty chunk is excluded because they   *)
(* are positive.                                                             *)
StreamInv == ConsumerTypeOK /\ Contiguous /\ OneFinalChunk

(* A request starts without audio. *)
LEMMA StreamStarts == ConsumerInit => StreamInv
<1> SUFFICES ASSUME ConsumerInit PROVE StreamInv
  OBVIOUS
<1>1. item \in Items /\ refSemanticEcho \in Nat
  BY ItemFacts DEF ConsumerInit
<1>2. ConsumerTypeOK
  BY <1>1 DEF ConsumerInit, ConsumerTypeOK, Items
<1> QED BY <1>2 DEF ConsumerInit, StreamInv, Contiguous, OneFinalChunk

(* A delta keeps the properties: it emits a full chunk of tokens that have   *)
(* arrived, or nothing.                                                      *)
LEMMA ReceiveKeeps ==
  ASSUME StreamInv, NEW g \in Nat, NEW m \in Nat, NEW last \in BOOLEAN,
         receive(g, m, last)
  PROVE  StreamInv'
<1> USE DEF StreamInv
<1>1. /\ Echoes(m) \in 0 .. m
      /\ skipped + Echoes(m) \in 0 .. refSemanticEcho
      /\ Collected(m) \in nSemantic .. MaxSemantic
      /\ refSemanticEcho \in Nat /\ want \in Nat \ {0} /\ item.isClone \in BOOLEAN
  BY CollectFacts, ItemFacts DEF ConsumerTypeOK
<1>2. /\ refSemanticEcho' = refSemanticEcho /\ item' = item
      /\ promptEchoed' = promptEchoed /\ promptEchoed \in BOOLEAN
  BY DEF receive, refSemanticEcho, ConsumerTypeOK
<1>3. nSemantic' \in nSemantic .. MaxSemantic /\ nSemantic \in 0 .. MaxSemantic
  BY <1>1 DEF receive, ConsumerTypeOK
<1>4. nGlobal' \in 0 .. NGlobal /\ dVectorReady' \in BOOLEAN
  <2>1. nGlobal \in 0 .. NGlobal /\ dVectorReady \in BOOLEAN
    BY DEF ConsumerTypeOK
  <2> QED BY <2>1 DEF receive, Least
<1>5. decoded' \in 0 .. MaxTokens /\ received' \in 0 .. decoded'
  BY DEF receive, ConsumerTypeOK
<1>6. skipped' \in 0 .. refSemanticEcho'
  BY <1>1, <1>2 DEF receive
<1>7. phase' \in {"decoding", "ended"} /\ phase = "decoding"
  BY DEF receive
<1>8. ASSUME nSemantic' - emittedTokens >= want,
             emitOneChunk(emittedTokens + want, FALSE)
      PROVE  StreamInv'
  <2>1. emittedTokens \in Nat
    BY DEF ConsumerTypeOK
  <2>2. PICK w \in Nat : w = want /\ w > 0
    BY <1>1
  <2>3. PICK e \in Nat : e = emittedTokens + w
    BY <2>2, <2>1
  <2>4. emittedTokens < e /\ e <= nSemantic'
    <3>1. PICK n \in Int : n = nSemantic'
      BY <1>3
    <3>2. n - emittedTokens >= w
      BY <1>8, <2>2, <3>1, Zenon
    <3>3. emittedTokens < e /\ e <= n
      BY <2>2, <2>1, <2>3, <3>2
    <3> QED BY <3>1, <3>3
  <2>5. PICK f \in BOOLEAN : f = FALSE
    OBVIOUS
  <2>6. emitOneChunk(e, f)
    BY <1>8, <2>2, <2>3, <2>5 DEF emitOneChunk, vocodeChunkWindow
  <2>7. chunks' \in Seq(Chunks) /\ emittedTokens' = e
    BY <2>6, Emitted
  <2>8. ConsumerTypeOK'
    BY <1>2, <1>3, <1>4, <1>5, <1>6, <1>7, <2>7 DEF ConsumerTypeOK
  <2>9. Chained'
    BY <2>1, <2>4, <2>6, EmitKeepsChained DEF Contiguous, Chained
  <2>10. Contiguous'
    BY <2>4, <2>7, <2>9 DEF Contiguous, Chained
  <2>11. OneFinalChunk'
    BY <1>7, <2>1, <2>4, <2>5, <2>6, EmitKeepsFinal
  <2> QED BY <2>8, <2>10, <2>11
<1>9. CASE UNCHANGED <<chunks, emittedTokens>>
  <2>1. ConsumerTypeOK'
    BY <1>2, <1>3, <1>4, <1>5, <1>6, <1>7, <1>9 DEF ConsumerTypeOK
  <2>2. Contiguous'
    BY <1>3, <1>9 DEF Contiguous, ConsumerTypeOK
  <2>3. OneFinalChunk'
    BY <1>7, <1>9 DEF OneFinalChunk
  <2> QED BY <2>1, <2>2, <2>3
<1> QED BY <1>8, <1>9 DEF receive

(* The drain loop keeps the properties: min(total, ...) ends the last chunk  *)
(* at the last token.                                                        *)
LEMMA DrainKeeps ==
  ASSUME StreamInv, drain
  PROVE  StreamInv'
<1> USE DEF StreamInv
<1>1. want \in Nat \ {0} /\ emittedTokens \in Nat /\ nSemantic \in Nat
      /\ emittedTokens < nSemantic
  BY ItemFacts DEF ConsumerTypeOK, drain
<1>2. drainEnd \in Nat /\ emittedTokens < drainEnd /\ drainEnd <= nSemantic
  BY <1>1 DEF drainEnd, Least
<1> DEFINE f == drainEnd >= nSemantic
<1>3. f \in BOOLEAN /\ (f => drainEnd = nSemantic)
  BY <1>1, <1>2
<1>4. emitOneChunk(drainEnd, f) /\ phase = "flush"
      /\ phase' = (IF f THEN "save" ELSE "flush") /\ UNCHANGED <<item, promptEchoed, tokens>>
  BY DEF drain
<1> HIDE DEF f
<1>5. chunks' \in Seq(Chunks) /\ emittedTokens' = drainEnd
  BY <1>2, <1>3, <1>4, Emitted
<1>6. ConsumerTypeOK'
  BY <1>2, <1>4, <1>5 DEF ConsumerTypeOK, tokens, refSemanticEcho
<1>7. Chained'
  BY <1>1, <1>2, <1>3, <1>4, EmitKeepsChained DEF Contiguous, Chained
<1>8. Contiguous'
  BY <1>2, <1>4, <1>5, <1>7 DEF Contiguous, Chained, tokens
<1>9. OneFinalChunk'
  BY <1>1, <1>2, <1>3, <1>4, EmitKeepsFinal DEF tokens
<1> QED BY <1>6, <1>8, <1>9

(* The empty final marker keeps the properties: it is sent only when live    *)
(* emission has used every token.                                            *)
LEMMA MarkerKeeps ==
  ASSUME StreamInv, finalMarker
  PROVE  StreamInv'
<1> USE DEF StreamInv
<1>1. emittedTokens \in Nat /\ phase = "flush" /\ phase' = "save"
      /\ emittedTokens = nSemantic /\ UNCHANGED <<item, promptEchoed, tokens, emittedTokens>>
  BY DEF ConsumerTypeOK, finalMarker
<1>2. emitOneChunk(emittedTokens, TRUE)
  BY DEF finalMarker, emitOneChunk, vocodeChunkWindow
<1>3. chunks' \in Seq(Chunks)
  BY <1>1, <1>2, Emitted
<1>4. ConsumerTypeOK'
  BY <1>1, <1>3 DEF ConsumerTypeOK, tokens, refSemanticEcho
<1>5. Chained'
  BY <1>1, <1>2, EmitKeepsChained DEF Contiguous, Chained
<1>6. Contiguous'
  BY <1>1, <1>5 DEF Contiguous, Chained, tokens
<1>7. OneFinalChunk'
  BY <1>1, <1>2, EmitKeepsFinal DEF tokens
<1> QED BY <1>4, <1>6, <1>7

(* Every step keeps the properties. *)
LEMMA StreamStep == StreamInv /\ [ConsumerNext]_consumerVars => StreamInv'
<1> SUFFICES ASSUME StreamInv, [ConsumerNext]_consumerVars PROVE StreamInv'
  OBVIOUS
<1>1. CASE \E g, m \in 0 .. MaxDelta, last \in BOOLEAN : receive(g, m, last)
  <2>1. PICK g \in 0 .. MaxDelta, m \in 0 .. MaxDelta, last \in BOOLEAN :
          receive(g, m, last)
    BY <1>1
  <2>2. g \in Nat /\ m \in Nat
    OBVIOUS
  <2> QED BY <2>1, <2>2, ReceiveKeeps
<1>2. CASE drain
  BY <1>2, DrainKeeps
<1>3. CASE finalMarker
  BY <1>3, MarkerKeeps
<1>4. ASSUME UNCHANGED <<item, promptEchoed, tokens, emittedTokens, chunks>>,
             \/ phase' \in {"ended", "cancelled", "error", "done"}
                  /\ (phase' = "done" => phase = "save")
                  /\ (phase' \in {"ended", "cancelled"} => phase \in {"decoding", "ended"})
             \/ phase' = "flush" /\ phase = "ended"
             \/ phase' = "save" /\ phase = "flush" /\ ~item.streamAudio
             \/ phase' = phase
      PROVE  StreamInv'
  <2>1. ConsumerTypeOK'
    BY <1>4 DEF StreamInv, ConsumerTypeOK, tokens, refSemanticEcho
  <2>2. Contiguous'
    BY <1>4 DEF StreamInv, Contiguous, tokens
  <2>3. OneFinalChunk'
    BY <1>4 DEF StreamInv, OneFinalChunk, tokens
  <2> QED BY <2>1, <2>2, <2>3 DEF StreamInv
<1>5. CASE endOfStream
  BY <1>4, <1>5 DEF endOfStream
<1>6. CASE decideEnd
  BY <1>4, <1>6 DEF decideEnd
<1>7. CASE singleSegment
  BY <1>4, <1>7 DEF singleSegment
<1>8. CASE saveWav
  BY <1>4, <1>8 DEF saveWav
<1>9. CASE throw
  BY <1>4, <1>9 DEF throw
<1>10. CASE UNCHANGED consumerVars
  BY <1>4, <1>10 DEF consumerVars
<1> QED BY <1>1, <1>2, <1>3, <1>5, <1>6, <1>7, <1>8, <1>9, <1>10 DEF ConsumerNext

(* The stream's state keeps its types, for every chunk size and cap. *)
THEOREM StreamTypes == ConsumerSpec => []ConsumerTypeOK
<1>1. StreamInv => ConsumerTypeOK
  BY DEF StreamInv
<1> QED BY <1>1, StreamStarts, StreamStep, PTL DEF ConsumerSpec

(* The audio chunks of a request cover its semantic tokens without gap or    *)
(* overlap, live emission and drain loop together.                           *)
THEOREM ChunksAreContiguous == ConsumerSpec => []Contiguous
<1>1. StreamInv => Contiguous
  BY DEF StreamInv
<1> QED BY <1>1, StreamStarts, StreamStep, PTL DEF ConsumerSpec

(* is_final is sent once, at the last token, and every streamed request that *)
(* is done has sent it.                                                      *)
THEOREM FinalChunkIsUnique == ConsumerSpec => []OneFinalChunk
<1>1. StreamInv => OneFinalChunk
  BY DEF StreamInv
<1> QED BY <1>1, StreamStarts, StreamStep, PTL DEF ConsumerSpec

(* What has been skipped and what collected, as functions of the tokens      *)
(* received: the first refSemanticEcho are skipped, the rest capped.         *)
EchoInv ==
  /\ skipped = Least(received, refSemanticEcho)
  /\ nSemantic = Least(MaxSemantic, received - skipped)

(* Every step keeps that account. *)
LEMMA EchoStep == StreamInv /\ EchoInv /\ [ConsumerNext]_consumerVars => EchoInv'
<1> SUFFICES ASSUME StreamInv, EchoInv, [ConsumerNext]_consumerVars PROVE EchoInv'
  OBVIOUS
<1>1. ConsumerTypeOK /\ refSemanticEcho \in Nat /\ received \in Nat /\ MaxSemantic \in Nat
  BY ItemFacts DEF StreamInv, ConsumerTypeOK
<1>2. ASSUME NEW g \in 0 .. MaxDelta, NEW m \in 0 .. MaxDelta, NEW last \in BOOLEAN,
             receive(g, m, last)
      PROVE  EchoInv'
  <2>1. /\ received' = received + m /\ skipped' = skipped + Echoes(m)
        /\ nSemantic' = Collected(m) /\ refSemanticEcho' = refSemanticEcho
    BY <1>2 DEF receive, refSemanticEcho
  <2>2. m \in Nat /\ Echoes(m) \in 0 .. m /\ skipped \in Nat
    BY <1>1, CollectFacts DEF EchoInv, Least
  <2>3. skipped + Echoes(m) = Least(received + m, refSemanticEcho)
    BY <1>1, <2>2 DEF EchoInv, Echoes, Least
  <2>4. PICK k \in Nat : k = m - Echoes(m)
    BY <2>2
  <2>5. Collected(m) = Least(MaxSemantic, nSemantic + k)
    <3>1. nSemantic + m - Echoes(m) = nSemantic + k
      BY <1>1, <2>2, <2>4 DEF ConsumerTypeOK
    <3> QED BY <3>1 DEF Collected
  <2>6. received - skipped \in Nat
    BY <1>1 DEF EchoInv, Least
  <2>7. Least(MaxSemantic, nSemantic + k) = Least(MaxSemantic, (received - skipped) + k)
    BY <1>1, <2>4, <2>6 DEF EchoInv, Least
  <2>8. (received - skipped) + k = (received + m) - (skipped + Echoes(m))
    BY <1>1, <2>2, <2>4
  <2> QED BY <2>1, <2>3, <2>5, <2>7, <2>8 DEF EchoInv
<1>3. CASE UNCHANGED <<item, tokens>>
  BY <1>3 DEF EchoInv, tokens, refSemanticEcho
<1> QED BY <1>2, <1>3
        DEF ConsumerNext, consumerVars, endOfStream, decideEnd, drain, finalMarker, singleSegment, saveWav, throw

(* If the runtime echoes the prompt, exactly the tokens the model generated  *)
(* reach the vocoder; if it does not, all but the first refSemanticEcho of   *)
(* them, however echo and speech share the StreamChunks.                     *)
THEOREM SpeechIsVocoded == ConsumerSpec => []VocodedSpeech
<1>1. ConsumerInit => EchoInv
  <2> SUFFICES ASSUME ConsumerInit PROVE EchoInv
    OBVIOUS
  <2>1. refSemanticEcho \in Nat
    BY ItemFacts DEF ConsumerInit
  <2> QED BY <2>1 DEF ConsumerInit, EchoInv, Least
<1>2. StreamInv /\ EchoInv => VocodedSpeech
  <2> SUFFICES ASSUME StreamInv, EchoInv PROVE VocodedSpeech
    OBVIOUS
  <2>1. refSemanticEcho \in Nat /\ received \in Nat /\ MaxSemantic \in Nat
    BY ItemFacts DEF StreamInv, ConsumerTypeOK
  <2>2. received - skipped = Beyond(received, refSemanticEcho)
    BY <2>1 DEF EchoInv, Least, Beyond
  <2> QED BY <2>2 DEF EchoInv, VocodedSpeech, Generated
<1> QED BY <1>1, <1>2, StreamStarts, StreamStep, EchoStep, PTL DEF ConsumerSpec
=============================================================================
