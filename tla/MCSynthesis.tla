---------------------------- MODULE MCSynthesis ----------------------------
(***************************************************************************)
(* Speech synthesis: the Code2Wav programs, the consumer of the Spark worker's   *)
(* tokens, and the Spark worker's threads.  The consumer is one request's part    *)
(* of a slot thread; SparkWorker leaves its data out, so the three share nothing   *)
(* here, and a behaviour follows one of them.                                      *)
(***************************************************************************)
EXTENDS Code2Wav, SparkStream, SparkWorker, TLC

VARIABLE stream
synthesisVars == <<stream, code2wavVars, consumerVars, vars>>

\* what is not followed stays in one initial state
SynthesisInit ==
  /\ stream \in {"code2wav", "consumer", "worker"}
  /\ Code2WavInit /\ (stream = "code2wav" \/ (prog = "gate" /\ file = <<>>))
  /\ ConsumerInit /\ (stream = "consumer" \/ (promptEchoed /\ item = CHOOSE it \in Items : TRUE))
  /\ Init

\* a cancel line that finds no channel changes nothing but asked, and the fewer ids
\* are asked for, the more the properties say: only those that find one are read
CancelsFind == asked' = asked \/ main'.at = "trip"

\* requests are interchangeable
Symmetry == Permutations(Reqs)

SynthesisNext ==
  \/ stream = "code2wav" /\ Code2WavNext /\ UNCHANGED <<stream, consumerVars, vars>>
  \/ stream = "consumer" /\ ConsumerNext /\ UNCHANGED <<stream, code2wavVars, vars>>
  \/ stream = "worker" /\ Next /\ CancelsFind /\ UNCHANGED <<stream, code2wavVars, consumerVars>>

SynthesisSpec == SynthesisInit /\ [][SynthesisNext]_synthesisVars

-----------------------------------------------------------------------------
(* Values of the constants                                                     *)

CONSTANT MaxFrames

\* small networks with every kind of block; the reference trims both sides of a
\* transposed convolution, the TTS tokenizer only the right one
RefNet ==
  <<AttnBlock(<<2, 3>>), TconvBlock(4, 2, 2, 2, <<3, 1>>), Fork, ConvBlock(1), Join, ConvBlock(2),
    TconvBlock(3, 2, 1, 1, <<4, 1, 2>>), Fork, ConvBlock(2), ConvBlock(0), Join, ConvBlock(1)>>
TtsNet ==
  <<ConvBlock(2), AttnBlock(<<2, 3>>), TconvBlock(2, 2, 0, 0, <<1>>), Fork, ConvBlock(1), Join, ConvBlock(1),
    TconvBlock(4, 2, 0, 2, <<1>>), Fork, ConvBlock(2), ConvBlock(0), Join, ConvBlock(1)>>

MCStack(p) ==
  CASE p = "emit" -> <<TconvBlock(5, 2, 3, 3, <<1>>)>>
    [] p \in {"collect", "online"} -> RefNet
    [] OTHER -> TtsNet

MCPrograms == {"collect", "emit", "online", "gate", "export"}

Compositions ==
  {f \in UNION {[1..k -> 1..MaxFrames] : k \in 1..MaxFrames} : Sum(f) \in 2..MaxFrames}

Exact(sizes) == [frames |-> Sum(sizes), sizes |-> sizes]

MCFeeds(p) ==
  CASE p = "gate"   -> {Exact(make_chunks(n, <<c>>)) : n \in 1..MaxFrames, c \in 1..MaxFrames}
    [] p = "export" -> {Exact(f) : f \in Compositions}
    [] OTHER -> {Exact(f) : f \in Compositions}
                \cup [frames : {3, 4}, sizes : {<<2, 0, 1>>, <<0, 1, 2>>, <<2, 3>>, <<1, 1>>, <<1, 2, 4>>}]

\* The parameters of one transformer layer, one upsampling stage and one
\* decoder stage; a few dimensions are equal, most are not.
MCDirect == {Key("pre_conv.bias", 0, 0), Key("norm", 0, 0)}
MCAllowed == {Key("inv_freq", 0, 0)}
MCShape(k) ==
  CASE k[1] = "input_proj"  -> <<2, 4>>
    [] k[1] \in {"q_proj", "o_proj"} -> <<2, 2>>
    [] k[1] \in {"k_proj", "v_proj"} -> <<1, 2>>
    [] k[1] \in {"gate_proj", "up_proj"} -> <<6, 2>>
    [] k[1] = "down_proj"   -> <<2, 6>>
    [] k[1] = "output_proj" -> <<4, 2>>
    [] k[1] = "pwconv1" -> <<8, 4>>
    [] k[1] = "pwconv2" -> <<4, 8>>
    [] k[1] \in {"alpha", "beta"} -> IF k[2] = 1 THEN <<8>> ELSE <<4>>
    [] OTHER -> <<4>>

Ini(kind, k, shape) == [kind |-> kind, key |-> k, shape |-> shape]
MatMulOf(name, l) == LET k == Key(name, l, 0) IN Ini("MatMul", k, <<MCShape(k)[2], MCShape(k)[1]>>)
ExpOf(name, r, u) == LET k == Key(name, r, u) IN Ini("Exp", k, MCShape(k))

\* the order in which the decoder's forward pass uses them
MCGraphOrder ==
  <<Ini("direct", Key("pre_conv.bias", 0, 0), <<4>>), Ini("direct", Key("norm", 0, 0), <<4>>),
    MatMulOf("input_proj", 0), MatMulOf("q_proj", 1), MatMulOf("k_proj", 1), MatMulOf("v_proj", 1),
    MatMulOf("o_proj", 1), MatMulOf("gate_proj", 1), MatMulOf("up_proj", 1), MatMulOf("down_proj", 1),
    MatMulOf("output_proj", 0), MatMulOf("pwconv1", 1), MatMulOf("pwconv2", 1),
    ExpOf("alpha", 1, 0), ExpOf("beta", 1, 0)>>
  \o FlattenSeq([u \in 1..3 |-> <<ExpOf("act1.alpha", 1, u + 1), ExpOf("act1.beta", 1, u + 1),
                                 ExpOf("act2.alpha", 1, u + 1), ExpOf("act2.beta", 1, u + 1)>>])
  \o <<ExpOf("alpha", 2, 0), ExpOf("beta", 2, 0)>>

\* graph order, two neighbours swapped, one missing, one more, none
SwapAt(s, j) == [s EXCEPT ![j] = s[j + 1], ![j + 1] = s[j]]
MCFiles ==
  {<<>>, MCGraphOrder} \cup {SwapAt(MCGraphOrder, j) : j \in 1..Len(MCGraphOrder) - 1}
  \cup {RemoveAt(MCGraphOrder, j) : j \in 1..Len(MCGraphOrder)}
  \cup {Append(MCGraphOrder, MCGraphOrder[j]) : j \in {1, 3, 14}}
=============================================================================
