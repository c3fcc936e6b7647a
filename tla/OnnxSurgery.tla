---------------------------- MODULE OnnxSurgery ----------------------------
(***************************************************************************)
(* The tools that rewrite exported ONNX models for TensorRT:                   *)
(*   engine-overlay/addon/scripts/quantize_onnx_matmul_w8a16.py and its _awq     *)
(*   variant, scripts/transpose_w8a16_onnx_layout.py and                         *)
(*   scripts/selective_w8a16_onnx.py, applied one after the other to a decoder;   *)
(*   models/matcha/surgery_matcha_acoustic.py,                                    *)
(*   models/paraformer/surgery_paraformer_decoder.py and                          *)
(*   scripts/optimize_qwen3_tts_cp_lm_head_transpose.py, each to its model.        *)
(* Each loads the model on disk, rewrites it, may check it, and saves it; what is   *)
(* raised leaves the file as it was.                                               *)
(***************************************************************************)
EXTENDS OnnxGraph

CONSTANTS Models,      \* family -> the models the tools of that family meet
          Slots,       \* AWQ: the weight of every calibrated projection, in layer order
          ShapeOf(_),  \* weight -> its shape
          MaxTools     \* tools applied to one model

VARIABLES family, disk,  \* the model on disk and the family of tools it is for
          meant,       \* what the exported model computes
          tools,       \* number of tools applied
          misused,     \* a tool met a model its description does not cover
          sexit        \* how the last tool ended
surgeryVars == <<family, disk, meant, tools, misused, sexit>>

SurgeryInit ==
  /\ family \in DOMAIN Models /\ disk \in Models[family]
  /\ meant = Meaning(disk, {}) /\ tools = 0 /\ misused = FALSE /\ sexit = "none"

Save(m) == disk' = m /\ sexit' = "saved"
Raise(how) == UNCHANGED disk /\ sexit' = how
Covered(described) == misused' = (misused \/ ~described)
Tool(k, described) == /\ family = k /\ tools < MaxTools /\ tools' = tools + 1
                      /\ Covered(described) /\ UNCHANGED <<family, meant>>

\* save only what the checker accepts
CheckAndSave(m) == IF check_model(m) THEN Save(m) ELSE Raise("rejected")

-----------------------------------------------------------------------------
(* W8A16                                                                       *)

Casts == [in : BOOLEAN, out : BOOLEAN]     \* --cast-plugin-inputs-to-fp16, --cast-plugin-outputs-to-fp32

\* a node becomes [Cast] Plugin [Cast]; act is the tensor it reads
plugin(n, act, casts) ==
  LET a16 == Part(n.name, "act_fp16")  o16 == Part(n.name, "out_fp16")
      a == IF casts.in THEN a16 ELSE act
      o == IF casts.out THEN o16 ELSE n.out
  IN  (IF casts.in THEN <<Plain("Cast16", Part(n.name, "cast_act"), <<act>>, a16)>> ELSE <<>>)
      \o <<Node("W8A16LinearPlugin", n.name, <<a, Part(n.name, "qweight"), Part(n.name, "scales")>>, o, 0)>>
      \o (IF casts.out THEN <<Plain("Cast16", Part(n.name, "cast_out"), <<o16>>, n.out)>> ELSE <<>>)

\* quantize_per_output_int8: int8 weight [K, N] and a scale per output
quantized(n, w) == <<<<Part(n.name, "qweight"), <<"q", w, 0>>>>, <<Part(n.name, "scales"), <<"s", w>>>>>>

Converts(m, chosen) ==
  {i \in DOMAIN m.nodes : /\ m.nodes[i].op = "MatMul" /\ i \in chosen
                          /\ m.nodes[i].in[2] \in DOMAIN m.init}

\* Mutant: a weight goes with the first node that no longer needs it.
removableAny(m, cs) == {t \in DOMAIN m.init : \E i \in cs : m.nodes[i].in[2] = t}

\* weights all of whose uses were converted
removable(m, cs) ==
  {t \in DOMAIN m.init : /\ \E i \in cs : m.nodes[i].in[2] = t
                         /\ Cardinality({i \in cs : m.nodes[i].in[2] = t}) >= UseCount(m, t)}

\* rewrite_model: include, exclude and min_elements choose among the MatMul nodes
rewrite_model(m, chosen, keep, casts) ==
  LET cs == Converts(m, chosen)
      new == FoldLeftDomain(LAMBDA acc, i :
               acc \o (IF i \in cs THEN plugin(m.nodes[i], m.nodes[i].in[1], casts) ELSE <<m.nodes[i]>>),
               <<>>, m.nodes)
      added == FoldLeftDomain(LAMBDA acc, i :
               acc \o (IF i \in cs THEN quantized(m.nodes[i], m.init[m.nodes[i].in[2]]) ELSE <<>>),
               <<>>, m.nodes)
      kept == IF keep THEN DOMAIN m.init ELSE DOMAIN m.init \ removable(m, cs)
  IN  [m EXCEPT !.nodes = new, !.init = WithInits([t \in kept |-> m.init[t]], added)]

QuantizeW8A16 ==
  /\ Tool("decoder", TRUE)
  /\ \E chosen \in SUBSET Converts(disk, DOMAIN disk.nodes), keep, check \in BOOLEAN, casts \in Casts :
       LET m == rewrite_model(disk, chosen, keep, casts)
       IN  IF check THEN CheckAndSave(m) ELSE Save(m)

\* quantize_onnx_matmul_w8a16_awq.py: position i of the MatMul nodes is slot i
matmuls(m) == SelectSeq([i \in DOMAIN m.nodes |-> i], LAMBDA i : m.nodes[i].op = "MatMul")

slotsFit(m) ==
  LET ms == matmuls(m)
  IN  /\ Len(ms) >= Len(Slots)
      /\ \A p \in DOMAIN Slots :
           LET t == m.nodes[ms[p]].in[2]
           IN  t \in DOMAIN m.init /\ ShapeOf(m.init[t]) = ShapeOf(Slots[p])

awqNodes(n, casts) ==
  <<Plain("Mul", Part(n.name, "pqs_mul"), <<n.in[1], Part(n.name, "inv_pqs")>>, Part(n.name, "smoothed_act"))>>
  \o plugin(n, Part(n.name, "smoothed_act"), casts)

smoothed(w, p) == <<"smooth", w, p>>

awqInits(n, w) ==
  quantized(n, smoothed(w, <<"pqs", w>>)) \o <<<<Part(n.name, "inv_pqs"), <<"inv", <<"pqs", w>>>>>>>>

\* the weights come from the quantization state, not from the model
rewrite_model_awq(m, casts) ==
  LET ms == matmuls(m)
      pos(i) == {p \in DOMAIN Slots : ms[p] = i}
      slot(i) == Slots[CHOOSE p \in pos(i) : TRUE]
      new == FoldLeftDomain(LAMBDA acc, i :
               acc \o (IF pos(i) # {} THEN awqNodes(m.nodes[i], casts) ELSE <<m.nodes[i]>>), <<>>, m.nodes)
      added == FoldLeftDomain(LAMBDA acc, i :
               acc \o (IF pos(i) # {} THEN awqInits(m.nodes[i], slot(i)) ELSE <<>>), <<>>, m.nodes)
      converted == {m.nodes[ms[p]].in[2] : p \in DOMAIN Slots}
      referenced == UNION {{new[i].in[k] : k \in DOMAIN new[i].in} : i \in DOMAIN new}
  IN  [m EXCEPT !.nodes = new,
                !.init = WithInits([t \in (DOMAIN m.init \ converted) \cup (DOMAIN m.init \cap referenced) |-> m.init[t]], added)]

\* the quantization state is meant for this model; position and shape are all
\* that the tool compares
QuantizeAwq ==
  /\ Tool("decoder", slotsFit(disk) => \A p \in DOMAIN Slots :
                         disk.init[disk.nodes[matmuls(disk)[p]].in[2]] = Slots[p])
  /\ \E check \in BOOLEAN, casts \in Casts :
       IF ~slotsFit(disk) THEN Raise("mismatch")
       ELSE LET m == rewrite_model_awq(disk, casts)
            IN  IF check THEN CheckAndSave(m) ELSE Save(m)

\* transpose_w8a16_onnx_layout.py, described for [K, N] weights; it transposes
\* whatever it finds and sets the attribute to 1
TransposeLayout ==
  LET ps == {i \in DOMAIN disk.nodes : disk.nodes[i].op = "W8A16LinearPlugin"}
      qs == {disk.nodes[i].in[2] : i \in ps}
  IN  /\ Tool("decoder", \A i \in ps : disk.nodes[i].layout = 0)
      /\ Save([disk EXCEPT
           !.nodes = [i \in DOMAIN disk.nodes |-> IF i \in ps THEN [disk.nodes[i] EXCEPT !.layout = 1] ELSE disk.nodes[i]],
           !.init = [t \in DOMAIN disk.init |->
                       IF t \in qs THEN [disk.init[t] EXCEPT ![3] = 1 - @] ELSE disk.init[t]]])

\* selective_w8a16_onnx.py: chosen plugin nodes go back to MatMul; the int8
\* initializers stay in the file
Rollback ==
  /\ Tool("decoder", TRUE)
  /\ \E chosen \in SUBSET {i \in DOMAIN disk.nodes : disk.nodes[i].op = "W8A16LinearPlugin"} :
       LET fp(n) == Part(n.name, "fp16_weight")
           old(i) == disk.nodes[i]
       IN  CheckAndSave([disk EXCEPT
             !.nodes = [i \in DOMAIN disk.nodes |->
                IF i \in chosen THEN Plain("MatMul", Part(old(i).name, "fp16_matmul"), <<old(i).in[1], fp(old(i))>>, old(i).out)
                                ELSE old(i)],
             !.init = [t \in DOMAIN disk.init \cup {fp(old(i)) : i \in chosen} |->
                IF t \in DOMAIN disk.init THEN disk.init[t]
                ELSE LET i == CHOOSE j \in chosen : fp(old(j)) = t
                     IN  Dequantized(disk.init[old(i).in[2]], disk.init[old(i).in[3]], old(i).layout)]])

-----------------------------------------------------------------------------
(* Matcha acoustic model                                                       *)

\* the last node that reads the noise, at its first such input
noiseUse(m, t) ==
  LET i == Max({u[1] : u \in Uses(m, t)})
  IN  <<i, Min({u[2] : u \in {v \in Uses(m, t) : v[1] = i}})>>

noises(m) == {i \in DOMAIN m.nodes : m.nodes[i].op = "RandomNormalLike"}

\* what the constants of the rewritten model are long enough for: 64 tokens
\* (max_tokens) and --max-mel frames
Caps == {"tokens", "mel"}

\* noise of --max-mel frames becomes an input of the model, sliced to the shape the
\* generator had
fix_random_normal_like(m) ==
  IF noises(m) = {} THEN m
  ELSE LET r == Min(noises(m))
           n == m.nodes[r]
           use == noiseUse(m, n.out)
           part(x) == Part(n.name, x)
           new == <<Plain("Shape", part("Shape"), <<n.in[1]>>, part("shape_out")),
                    Plain("CastShape", part("Cast"), <<part("shape_out")>>, part("cast_out")),
                    Plain("Slice", part("Slice"), <<<<"noise">>, part("cast_out")>>, part("slice_out"))>>
       IN  [m EXCEPT !.nodes = RemoveNode(InsertAll(Rewire(@, use[1], use[2], part("slice_out")), use[1], new), r),
                     !.inputs = WithInit(@, <<"noise">>, <<"noise", "mel">>)]

ls == <<"length_scale">>
lsPart(x, i) == <<"length_scale", x, i>>

\* length_scale becomes round(1000 * length_scale); every reader gets Cast and Div
fix_length_scale_type(m) ==
  IF ls \notin DOMAIN m.inputs THEN m
  ELSE LET uses == SetToSortSeq(Uses(m, ls), LAMBDA u, v : u[1] < v[1] \/ (u[1] = v[1] /\ u[2] < v[2]))
           fix(nodes, i) ==
             LET at == uses[i][1] + 2 * (i - 1)
             IN  InsertAll(Rewire(nodes, at, uses[i][2], lsPart("div_out", i)), at,
                   <<Plain("CastF", lsPart("cast", i), <<ls>>, lsPart("cast_out", i)),
                     Plain("Div", lsPart("div", i), <<lsPart("cast_out", i), lsPart("const", 0)>>, lsPart("div_out", i))>>)
       IN  [m EXCEPT !.nodes = FoldLeftDomain(fix, @, uses),
                     !.init = WithInit(@, lsPart("const", 0), <<"const", "1000">>),
                     !.inputs = WithInit(@, ls, <<"i", <<"fixed", @[ls]>>>>)]

limitIsFloat(m, t) ==
  \/ \E i \in DOMAIN m.nodes : m.nodes[i].out = t /\ m.nodes[i].op = "CastF"
  \/ t \in DOMAIN m.inputs /\ m.inputs[t][1] = "f"

\* one named Range becomes a Slice of a constant 0, 1, ... of limited length
fix_range(m, cfg) ==
  LET name == cfg.name
      at == {i \in DOMAIN m.nodes : m.nodes[i].name = name}
  IN  IF at = {} THEN m
      ELSE LET r == Min(at)
               n == m.nodes[r]
               limit == n.in[2]
               float == limitIsFloat(m, limit)
               part(x) == Part(name, x)
               final == IF float THEN part("back_out") ELSE part("slice_out")
               pre == IF float THEN <<Plain("CastI", part("cast"), <<limit>>, part("cast_out")),
                                      Plain("Unsqueeze", part("unsq"), <<part("cast_out")>>, part("unsq_out"))>>
                               ELSE <<Plain("Unsqueeze", part("unsq"), <<limit>>, part("unsq_out"))>>
               post == IF float THEN <<Plain("CastF", part("back"), <<part("slice_out")>>, final)>> ELSE <<>>
               slice == Plain("Slice", part("Slice"), <<part("static_range"), part("unsq_out")>>, part("slice_out"))
               rewired == [i \in DOMAIN m.nodes |->
                  [m.nodes[i] EXCEPT !.in = [k \in DOMAIN @ |-> IF @[k] = n.out THEN final ELSE @[k]]]]
               pos == Min({i \in DOMAIN rewired : \E k \in DOMAIN rewired[i].in : rewired[i].in[k] = final}
                          \cup {Len(rewired) + 1})
           IN  [m EXCEPT !.nodes = SelectSeq(InsertAll(rewired, pos, pre \o <<slice>> \o post), LAMBDA x : x.name # name),
                         !.init = WithInit(@, part("static_range"), <<"arange", cfg.max>>)]

range_configs == <<[name |-> <<"/encoder/Range">>, max |-> "tokens"],
                   [name |-> <<"/Range">>, max |-> "mel"], [name |-> <<"/Range_1">>, max |-> "mel"]>>
fix_range_nodes(m) == FoldLeft(fix_range, m, range_configs)

\* --validate runs the model that was saved; it stays whatever comes out
validate_model == sexit' \in {"saved", "failed"}

SurgeryMatcha ==
  /\ Tool("matcha", TRUE)
  /\ IF noises(disk) # {} /\ Uses(disk, disk.nodes[Min(noises(disk))].out) = {}
     THEN Raise("no consumer")
     ELSE LET m == fix_range_nodes(fix_length_scale_type(fix_random_normal_like(disk)))
          IN  IF check_model(m) THEN disk' = m /\ validate_model ELSE Raise("rejected")

-----------------------------------------------------------------------------
(* Paraformer decoder                                                          *)

find_mask_subgraphs(m, which) == {i \in DOMAIN m.nodes : m.nodes[i].name[1] = which}
finalCast(m, which) == {i \in DOMAIN m.nodes : m.nodes[i].name = <<which, "Cast_3">>}
maskOut(m, which) == m.nodes[Max(finalCast(m, which))].out

find_consumer(m, t) ==
  LET i == Min({u[1] : u \in Uses(m, t)})
  IN  <<i, Min({u[2] : u \in {v \in Uses(m, t) : v[1] = i}})>>

Masks == {"make_pad_mask", "make_pad_mask_1"}
maskInput(which) == IF which = "make_pad_mask" THEN <<"pad_mask">> ELSE <<"enc_pad_mask">>

\* the runtime passes the masks the removed nodes computed
replace_mask_subgraphs(m) ==
  LET use(w) == find_consumer(m, maskOut(m, w))
      gone == UNION {find_mask_subgraphs(m, w) : w \in Masks}
      rewired == [i \in DOMAIN m.nodes |-> [m.nodes[i] EXCEPT !.in = [k \in DOMAIN @ |->
                    IF \E w \in Masks : use(w) = <<i, k>>
                    THEN maskInput(CHOOSE w \in Masks : use(w) = <<i, k>>) ELSE @[k]]]]
  IN  [m EXCEPT !.nodes = [j \in 1..(Len(rewired) - Cardinality(gone)) |->
                             rewired[SetToSortSeq(DOMAIN rewired \ gone, <)[j]]],
                !.inputs = [t \in DOMAIN @ \cup {maskInput(w) : w \in Masks} |->
                   IF t \in DOMAIN m.inputs THEN m.inputs[t]
                   ELSE Values(m, {})[maskOut(m, CHOOSE w \in Masks : maskInput(w) = t)]]]

SurgeryParaformer ==
  /\ Tool("paraformer", TRUE)
  /\ IF \E w \in Masks : finalCast(disk, w) = {} THEN Raise("no Cast_3")
     ELSE IF \E w \in Masks : Uses(disk, maskOut(disk, w)) = {} THEN Raise("no consumer")
     ELSE CheckAndSave(replace_mask_subgraphs(disk))

-----------------------------------------------------------------------------
(* Stacked lm_head of the code predictor                                       *)

stacked == <<"stacked_weights">>
Named(m, name) == {i \in DOMAIN m.nodes : m.nodes[i].name = name}
tail(m, name) == m.nodes[Max(Named(m, name))]

\* no check of the result; described for a Gather and a Transpose with one reader
TransposeLmHead ==
  /\ Tool("lm_head", \A x \in {<<"/Gather">>, <<"/Transpose">>} :
                        Named(disk, x) # {} => UseCount(disk, tail(disk, x).out) = 1)
  /\ IF stacked \notin DOMAIN disk.init THEN Raise("missing weights")
     ELSE IF disk.init[stacked][1] = "t" THEN Raise("shape")
     ELSE IF \E x \in {<<"/Gather">>, <<"/Transpose">>, <<"/MatMul">>} : Named(disk, x) = {} THEN Raise("missing tail")
     ELSE LET g == tail(disk, <<"/Gather">>)
              t == tail(disk, <<"/Transpose">>)
              mm == tail(disk, <<"/MatMul">>)
          IN  IF t.in # <<g.out>> \/ mm.in[2] # t.out THEN Raise("unexpected input")
              ELSE Save([disk EXCEPT
                     !.nodes = SelectSeq(Rewire(@, Max(Named(disk, <<"/MatMul">>)), 2, g.out),
                                         LAMBDA n : n.name # <<"/Transpose">>),
                     !.init[stacked] = Transposed(@)])

SurgeryNext ==
  \/ QuantizeW8A16
  \/ QuantizeAwq
  \/ TransposeLayout
  \/ Rollback
  \/ SurgeryMatcha
  \/ SurgeryParaformer
  \/ TransposeLmHead

SurgerySpec == SurgeryInit /\ [][SurgeryNext]_surgeryVars

-----------------------------------------------------------------------------
(* Properties                                                                  *)

\* the caps a model has: an input over one of them gets a shorter range or less
\* noise than it asked for
CapsOf(m) ==
  {cap \in Caps : \/ \E t \in DOMAIN m.init : m.init[t] = <<"arange", cap>>
                  \/ \E t \in DOMAIN m.inputs : m.inputs[t] = <<"noise", cap>>}

\* Whatever tools a model goes through, in whatever order and with whatever
\* choice of nodes, as long as each is given a model its description covers, the
\* model on disk computes what the export computed, for every input that is within
\* the caps the tools have put into the model: a shared or tied weight is
\* not lost with the first projection quantized, smoothing of the weight and of
\* the activation cancel, layout attribute and stored layout agree when a node is
\* rolled back, ranges keep their type, all readers of length_scale see the
\* unscaled value.  And it is a model onnx.checker accepts, although the quantizers
\* check only when asked to and the lm_head tool never does.
MeaningKept ==
  ~misused =>
    /\ check_model(disk)
    /\ \A over \in SUBSET (Caps \ CapsOf(disk)) : Meaning(disk, over) = meant
=============================================================================
