---------------------------- MODULE MCSequential ----------------------------
(***************************************************************************)
(* The parts that run one step after the other: the ASR worker's loop with its    *)
(* client, the lane manager under its mutex, packaging and deployment of           *)
(* artifacts, the engine bundle, the gates, and the rewriting of ONNX models.       *)
(* They share no state; a behaviour follows one of them and the others stay in       *)
(* one initial state.                                                                *)
(***************************************************************************)
EXTENDS AsrWorker, MCLaneManager, Artifacts, MCBundle, RoundtripGates, StreamingGate, TtsContract,
        OnnxSurgery

VARIABLE chain
sequentialVars == <<chain, vars, mcVars, artifactsVars, bundleVars, gateVars, e2eVars, contractVars, surgeryVars>>

N(op, nm, ins, o) == Plain(op, <<nm>>, [k \in DOMAIN ins |-> <<ins[k]>>], <<o>>)
W(x) == <<"w", x>>
Act == (<<"x">> :> <<"f", "x">>)
Graph(nodes, init, inputs, outputs) == [nodes |-> nodes, init |-> init, inputs |-> inputs, outputs |-> outputs]
Empty == Graph(<<>>, <<>>, <<>>, {})

Chains == {"asr", "lanes", "artifacts", "bundle", "gates", "streaming", "contract", "surgery"}

SequentialInit ==
  /\ chain \in Chains
  /\ Init
  /\ MCInit
  /\ ArtifactsInit /\ (chain = "artifacts" \/ source = [f \in Files |-> Absent])
  /\ BundleInit /\ (chain = "bundle" \/ (onnx = [f \in OnnxFiles |-> Gone] /\ host = CHOOSE h \in Hosts : TRUE))
  /\ GatesInit
  /\ StreamingInit /\ (chain = "streaming" \/ withF)
  /\ ContractInit /\ (chain = "contract" \/
       /\ dep = [app |-> TRUE, legacy |-> "none", wrong |-> {}]
       /\ flags = [trt |-> TRUE, vocoder |-> TRUE, cap |-> TRUE, sample |-> TRUE]
       /\ program = "contract" /\ path = CHOOSE p \in StartPaths : TRUE)
  /\ SurgeryInit /\ (chain = "surgery" \/ (family = "lm_head" /\ disk = Empty))

\* handling a line does not look at the pipe: nothing is lost when the client writes
\* between two reads
Lockstep == Len(pipe') > Len(pipe) => buffer = << >>
\* names of temporary files are interchangeable: they are taken in one order
Names == SetToSeq(TempFiles)
Taken(f) == tempFiles[f] = None /\ tempFiles'[f] # None
InOrder == \A i, j \in DOMAIN Names : i < j /\ IsFresh(Names[i]) => ~Taken(Names[j])
\* one session sends every line, the other sessions begin, send one payload and end
Main == CHOOSE s \in Sids : TRUE
Payload == CHOOSE p \in Pcms : TRUE
Side ==
  Len(pipe') > Len(pipe) =>
    LET l == Last(pipe')
    IN  l.sid \in {Main, NoId} \/ (l.ev \in {"begin", "chunk", "end"} /\ l.audio \in {None, Payload})
AsrBounds == Lockstep /\ InOrder /\ Side

SequentialNext ==
  \/ chain = "asr" /\ Next /\ AsrBounds
     /\ UNCHANGED <<chain, mcVars, artifactsVars, bundleVars, gateVars, e2eVars, contractVars, surgeryVars>>
  \/ chain = "lanes" /\ MCNext /\ UNCHANGED <<chain, vars, artifactsVars, bundleVars, gateVars, e2eVars, contractVars, surgeryVars>>
  \/ chain = "artifacts" /\ ArtifactsNext /\ UNCHANGED <<chain, vars, mcVars, bundleVars, gateVars, e2eVars, contractVars, surgeryVars>>
  \/ chain = "bundle" /\ BundleNext /\ UNCHANGED <<chain, vars, mcVars, artifactsVars, gateVars, e2eVars, contractVars, surgeryVars>>
  \/ chain = "gates" /\ GatesNext /\ UNCHANGED <<chain, vars, mcVars, artifactsVars, bundleVars, e2eVars, contractVars, surgeryVars>>
  \/ chain = "streaming" /\ StreamingNext /\ UNCHANGED <<chain, vars, mcVars, artifactsVars, bundleVars, gateVars, contractVars, surgeryVars>>
  \/ chain = "contract" /\ ContractNext /\ UNCHANGED <<chain, vars, mcVars, artifactsVars, bundleVars, gateVars, e2eVars, surgeryVars>>
  \/ chain = "surgery" /\ SurgeryNext /\ UNCHANGED <<chain, vars, mcVars, artifactsVars, bundleVars, gateVars, e2eVars, contractVars>>

SequentialSpec == SequentialInit /\ [][SequentialNext]_sequentialVars

-----------------------------------------------------------------------------
(* Values of the constants                                                     *)

MCStartPaths == {<<"script">>, <<"script", "overlay">>, <<"overlay", "app">>, <<"script", "app", "overlay/backends">>}

\* two projections of one shape, a tied head that is also the embedding table, and a
\* product of two activations
Decoder ==
  Graph(<<N("Gather", "embed", <<"emb", "x">>, "h"),
          N("MatMul", "q", <<"h", "Wq">>, "a"), N("MatMul", "k", <<"h", "Wk">>, "b"),
          N("MatMul", "qk", <<"a", "b">>, "c"), N("MatMul", "head", <<"c", "emb">>, "y")>>,
        (<<"emb">> :> W("emb")) @@ (<<"Wq">> :> W("q")) @@ (<<"Wk">> :> W("k")), Act, {<<"y">>})
\* one weight under two projections
Shared ==
  Graph(<<N("MatMul", "q", <<"x", "Wq">>, "a"), N("MatMul", "k", <<"a", "Wq">>, "y")>>,
        (<<"Wq">> :> W("q")), Act, {<<"y">>})
MCSlots == <<W("q"), W("k")>>
MCShape(w) == IF w = W("emb") THEN "VK" ELSE "KK"

MatchaInputs == (<<"x">> :> <<"i", "x">>) @@ (<<"n">> :> <<"i", "n">>) @@ (<<"length_scale">> :> <<"f", "ls">>)
Matcha(extra) ==
  Graph(<<N("Range", "/encoder/Range", <<"zero", "n">>, "pos"),
          N("Mul", "dur", <<"pos", "length_scale">>, "d"),
          N("CastF", "limit", <<"d">>, "lim"),
          N("Range", "/Range", <<"zero", "lim">>, "frames"),
          N("Add", "up", <<"frames", "length_scale">>, "mu"),
          N("RandomNormalLike", "/RandomNormalLike", <<"mu">>, "z"),
          N("Mul", "temp", <<"z", "scale">>, "z0")>> \o extra,
        (<<"zero">> :> <<"const", "0">>) @@ (<<"scale">> :> <<"const", "s">>), MatchaInputs,
        IF extra = <<>> THEN {<<"z0">>} ELSE {Last(extra).out})
MatchaModels ==
  {Matcha(<<>>), Matcha(<<N("Add", "flow", <<"mu", "z0">>, "o")>>),
   Matcha(<<N("Add", "flow", <<"z", "z0">>, "o")>>),                                   \* a second reader of the noise
   [Matcha(<<>>) EXCEPT !.nodes[7].in[1] = <<"mu">>],                                 \* none
   Matcha(<<N("Range", "/Range_1", <<"zero", "lim">>, "r1"), N("Add", "flow", <<"r1", "length_scale">>, "o")>>)}

Pad(w, l, o) == <<Plain("Range", <<w, "Range">>, <<<<"zero">>, <<l>>>>, <<w, "r">>),
                  Plain("Less", <<w, "Less">>, <<<<w, "r">>>>, <<w, "l">>),
                  Plain("CastF", <<w, "Cast_3">>, <<<<w, "l">>>>, <<w, "m">>)>>
Para(p0, p1, extra) ==
  Graph(p0 \o p1 \o
        <<Plain("Unsqueeze", <<"Unsqueeze">>, <<<<"make_pad_mask", "m">>>>, <<"u0">>),
          Plain("Unsqueeze", <<"Unsqueeze_1">>, <<<<"make_pad_mask_1", "m">>>>, <<"u1">>)>> \o extra \o
        <<N("Add", "fsmn", <<"u0", "u1">>, "y")>>,
        (<<"zero">> :> <<"const", "0">>), (<<"tl">> :> <<"i", "tl">>) @@ (<<"el">> :> <<"i", "el">>),
        {<<"y">>} \cup {extra[i].out : i \in DOMAIN extra})
P0 == Pad("make_pad_mask", "tl", "m0")
P1 == Pad("make_pad_mask_1", "el", "m1")
Stray(t) == <<Plain("Add", <<"stray">>, <<<<"make_pad_mask", t>>, <<"make_pad_mask", t>>>>, <<"s">>)>>
ParaModels == {Para(P0, P1, <<>>), Para(P1, P0, <<>>),
               Para(P0, P1, Stray("m")), Para(P0, P1, Stray("l")),                     \* masks read elsewhere
               [Para(P0, P1, <<>>) EXCEPT !.nodes[6].name = <<"make_pad_mask_1", "Cast_2">>]}

LmHead(extra, step) ==
  Graph(<<N("Gather", "/Gather", <<"stacked_weights", "step">>, "g"), N("Transpose", "/Transpose", <<"g">>, "t")>>
        \o extra \o <<N("MatMul", "/MatMul", <<"h", step>>, "y")>>,
        (<<"stacked_weights">> :> W("stacked")),
        (<<"h">> :> <<"f", "h">>) @@ (<<"step">> :> <<"i", "step">>), {<<"y">>} \cup {extra[i].out : i \in DOMAIN extra})
LmHeadModels == {Empty, LmHead(<<>>, "t"), LmHead(<<>>, "g"), LmHead(<<N("Add", "o", <<"t", "h">>, "z")>>, "t"),
               [LmHead(<<>>, "t") EXCEPT !.nodes[1].name = <<"/Gather_1">>],
               [LmHead(<<>>, "t") EXCEPT !.init = (<<"other">> :> W("stacked")), !.nodes[1].in[1] = <<"other">>]}
MCModels == [k \in {"decoder", "matcha", "paraformer", "lm_head"} |->
  CASE k = "decoder" -> {Decoder, Shared} [] k = "matcha" -> MatchaModels
    [] k = "paraformer" -> ParaModels [] k = "lm_head" -> LmHeadModels]
=============================================================================
