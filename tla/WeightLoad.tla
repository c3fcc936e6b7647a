----------------------------- MODULE WeightLoad -----------------------------
(***************************************************************************)
(* build_real_decoder of scripts/qwen3_tts_code2wav_stateful_real_gate.py:   *)
(* the parameters of the Code2Wav decoder are filled from the initializers of *)
(* its ONNX export.  A parameter whose name survived the export is found by   *)
(* name; the others are found by their place in the file, because the         *)
(* exporter renamed them onnx::MatMul_<n> and onnx::Exp_<n>.                  *)
(*                                                                          *)
(* A tensor is the key it was exported from and its shape.                    *)
(***************************************************************************)
EXTENDS Integers, Sequences, SequencesExt, Subsequences

CONSTANTS NumLayers,      \* config.num_hidden_layers
          NumUpsample,    \* len(config.upsampling_ratios)
          NumRates,       \* len(config.upsample_rates)
          DirectKeys,     \* state_dict keys that are neither MatMul nor Exp inputs
          AllowedMissing, \* allowed_missing
          Shape(_),       \* shape of a key's tensor in the state_dict
          GraphOrder,     \* the initializers in the order the exporter met them
          Files           \* the initializer lists that are tried

VARIABLES file,           \* the ONNX initializers, in file order
          weights,        \* state: key -> tensor, for the keys in loaded
          build           \* step of build_real_decoder: direct, matmul, exp, missing, ok, raised

loadVars == <<file, weights, build>>

Key(name, i, j) == <<name, i, j>>

\* Mutant: the two activations of a residual unit swap places.
snake_parameter_keysSwapped ==
  FlattenSeq([r \in 1..NumRates |->
      <<Key("alpha", r, 0), Key("beta", r, 0)>>
      \o FlattenSeq([u \in 1..3 |-> <<Key("act2.alpha", r, u + 1), Key("act2.beta", r, u + 1),
                                     Key("act1.alpha", r, u + 1), Key("act1.beta", r, u + 1)>>])])
  \o <<Key("alpha", NumRates + 1, 0), Key("beta", NumRates + 1, 0)>>

snake_parameter_keys ==
  FlattenSeq([r \in 1..NumRates |->
      <<Key("alpha", r, 0), Key("beta", r, 0)>>
      \o FlattenSeq([u \in 1..3 |-> <<Key("act1.alpha", r, u + 1), Key("act1.beta", r, u + 1),
                                     Key("act2.alpha", r, u + 1), Key("act2.beta", r, u + 1)>>])])
  \o <<Key("alpha", NumRates + 1, 0), Key("beta", NumRates + 1, 0)>>

matmul_parameter_keys ==
  <<Key("input_proj", 0, 0)>>
  \o FlattenSeq([l \in 1..NumLayers |-> [p \in 1..7 |->
        Key(<<"q_proj", "k_proj", "v_proj", "o_proj", "gate_proj", "up_proj", "down_proj">>[p], l, 0)]])
  \o <<Key("output_proj", 0, 0)>>
  \o FlattenSeq([s \in 1..NumUpsample |-> <<Key("pwconv1", s, 0), Key("pwconv2", s, 0)>>])

StateKeys == DirectKeys \cup ToSet(matmul_parameter_keys) \cup ToSet(snake_parameter_keys) \cup AllowedMissing

Transposed(shape) == <<shape[2], shape[1]>>

Tensor(key, shape) == [key |-> key, shape |-> shape]

\* the initializers of a kind, in the order of the list
Named(inits, kind) == Picked(inits, {i \in DOMAIN inits : inits[i].kind = kind})

ASSUME WeightAssumption ==
  /\ NumLayers \in Nat /\ NumUpsample \in Nat /\ NumRates \in Nat
  /\ \A f \in Files : f \in Seq(ToSet(f))
  /\ DirectKeys \cap (ToSet(matmul_parameter_keys) \cup ToSet(snake_parameter_keys)) = {}

-----------------------------------------------------------------------------
LoadInit ==
  /\ file \in Files
  /\ weights = <<>>
  /\ build = "direct"

\* by name, when the shape fits
LoadDirect ==
  /\ build = "direct"
  /\ LET hit(k) == {i \in 1..Len(file) : file[i].kind = "direct" /\ file[i].key = k /\ file[i].shape = Shape(k)}
         found  == {k \in StateKeys : hit(k) # {}}
     IN  weights' = [k \in found |-> Tensor(k, Shape(k))]
  /\ build' = "matmul"
  /\ UNCHANGED file

\* weight.transpose(0, 1) of each
TransposedAll(inits) == [i \in DOMAIN inits |-> Tensor(inits[i].key, Transposed(inits[i].shape))]

\* Mutant: initializers left over at the end are not noticed.
FillFromNotStrict(keys, inits, next) ==
  LET fits == \A i \in 1..Len(keys) : inits[i].shape = Shape(keys[i])
      at(k) == CHOOSE i \in 1..Len(keys) : keys[i] = k
  IN  IF Len(keys) <= Len(inits) /\ fits
      THEN /\ weights' = [k \in ToSet(keys) \cup DOMAIN weights |->
                           IF k \in ToSet(keys) THEN Tensor(inits[at(k)].key, inits[at(k)].shape) ELSE weights[k]]
           /\ build' = next
      ELSE build' = "raised" /\ UNCHANGED weights

\* By place: the n-th initializer of the kind is the n-th key's.  A count or a
\* shape that does not fit raises, and the model is gone.
FillFrom(keys, inits, next) ==
  LET fits == \A i \in 1..Len(keys) : inits[i].shape = Shape(keys[i])
      at(k) == CHOOSE i \in 1..Len(keys) : keys[i] = k
  IN  IF Len(keys) = Len(inits) /\ fits
      THEN /\ weights' = [k \in ToSet(keys) \cup DOMAIN weights |->
                           IF k \in ToSet(keys) THEN Tensor(inits[at(k)].key, inits[at(k)].shape) ELSE weights[k]]
           /\ build' = next
      ELSE build' = "raised" /\ UNCHANGED weights

LoadMatMul ==
  /\ build = "matmul"
  /\ FillFrom(matmul_parameter_keys, TransposedAll(Named(file, "MatMul")), "exp")
  /\ UNCHANGED file

LoadExp ==
  /\ build = "exp"
  /\ FillFrom(snake_parameter_keys, Named(file, "Exp"), "missing")
  /\ UNCHANGED file

CheckMissing ==
  /\ build = "missing"
  /\ build' = IF StateKeys \subseteq (DOMAIN weights \cup AllowedMissing) THEN "ok" ELSE "raised"
  /\ UNCHANGED <<file, weights>>

BuildRealDecoder == LoadDirect \/ LoadMatMul \/ LoadExp \/ CheckMissing

RenamedKeys == ToSet(matmul_parameter_keys) \cup ToSet(snake_parameter_keys)

\* every initializer of a kind went to one of the places its position has among
\* the keys, and none was left over
ByPlace(keys, kind) ==
  LET inits == Named(file, kind)
  IN  /\ Len(inits) = Len(keys)
      /\ \A k \in ToSet(keys) :
           /\ k \in DOMAIN weights
           /\ \E i \in 1..Len(keys) : keys[i] = k /\ weights[k].key = inits[i].key

\* What a decoder that was built holds, whatever the order of the file: no
\* parameter is left out but those that may be, each has a tensor of its shape,
\* those found by name their own, and the renamed ones, name by name, the
\* initializers of their kind in file order.  Nothing compares origins: a file in
\* another order, where the shapes permit it, is loaded without complaint
\* (build_real_decoder 193-246).
WeightsByPlace ==
  build = "ok" =>
    /\ StateKeys \ AllowedMissing \subseteq DOMAIN weights
    /\ \A k \in DOMAIN weights : weights[k].shape = Shape(k)
    /\ \A k \in DOMAIN weights \ RenamedKeys : weights[k].key = k
    /\ ByPlace(matmul_parameter_keys, "MatMul")
    /\ ByPlace(snake_parameter_keys, "Exp")

\* The key lists are in the order in which the forward pass uses the parameters:
\* a file whose renamed initializers are in that order gives every parameter its
\* own tensor.  For a file in another order this is not claimed, and is false: the
\* gate compares the loaded model with itself and would not notice.
WeightsInPlace ==
  build = "ok" /\ (\A kind \in {"MatMul", "Exp"} : Named(file, kind) = Named(GraphOrder, kind)) =>
    \A k \in DOMAIN weights : weights[k].key = k
=============================================================================
