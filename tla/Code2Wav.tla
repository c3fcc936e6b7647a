------------------------------ MODULE Code2Wav ------------------------------
(***************************************************************************)
(* The streaming Code2Wav vocoder: the programs that cut an utterance of RVQ *)
(* codes into chunks, run them through the network block by block, and must   *)
(* produce the waveform of one pass over the whole utterance.                 *)
(*                                                                          *)
(*   collect, emit, online   run_module_probes of the reference script        *)
(*   gate                    main of the real-weights gate                    *)
(*   export                  run_explicit_state_gate over the module whose    *)
(*                           state is an explicit list of tensors             *)
(*                                                                          *)
(* All but export finish a block for every chunk before the next block        *)
(* starts; export pushes one chunk through all blocks and keeps the list of   *)
(* states between chunks.  StreamLayers defines one step of each block.        *)
(***************************************************************************)
EXTENDS StreamLayers, WeightLoad, FiniteSets

CONSTANTS Stack(_),    \* program -> its blocks, in order
          Programs,
          Feeds(_)     \* program -> the chunk size lists it is given

\* A block is one of these; fork and join are the two ends of a residual path.
\* pat is the pattern collect cuts a transposed convolution's output with.
ConvBlock(pad) == [kind |-> "conv", pad |-> pad]
AttnBlock(wins) == [kind |-> "attn", wins |-> wins]
TconvBlock(k, s, left, right, pat) ==
  [kind |-> "tconv", k |-> k, s |-> s, left |-> left, right |-> right, pat |-> pat]
Fork == [kind |-> "fork"]
Join == [kind |-> "join"]

VARIABLES prog, cphase, \* cphase: build, codes, run, done, raised
          feed,        \* the number of code frames and the chunk sizes given for them
          blockNo,       \* index of the block being run
          inputs, chunkNo, \* its input chunks and the next one
          st,          \* its streaming state
          outs,        \* its output chunks
          resid,       \* residual inputs of the open forks
          states,      \* export: the explicit state tensors
          wav          \* the waveform

runVars == <<prog, cphase, feed, blockNo, inputs, chunkNo, st, outs, resid, states, wav>>
code2wavVars == <<loadVars, runVars>>

\* running sums: the samples of the first j chunks
Sums(sizes) == LET sum[j \in 0..Len(sizes)] == IF j = 0 THEN 0 ELSE sum[j - 1] + sizes[j] IN sum
Sum(sizes) == Sums(sizes)[Len(sizes)]
Before(sizes, j) == Sums(sizes)[j - 1]
Cat(parts) == FlattenSeq(parts)

\* parts of x, slices clamped to its end
Split(x, sizes) == [j \in 1..Len(sizes) |-> Slice(x, Before(sizes, j), Before(sizes, j) + sizes[j])]

make_chunks(total, pattern) ==
  LET size(j) == pattern[((j - 1) % Len(pattern)) + 1]
      start[j \in 1..total + 1] == IF j = 1 THEN 0 ELSE start[j - 1] + size(j - 1)
      n == Cardinality({j \in 1..total : start[j] < total})
  IN  [j \in 1..n |-> Minimum(size(j), total - start[j])]

\* length of the offline signal that enters block b
Through(l, n) == IF l.kind = "tconv" THEN Maximum(0, RawLen(l, n) - l.left - l.right) ELSE n
InLen(p, b, n) ==
  LET len[j \in 0..Len(Stack(p))] == IF j = 0 THEN n ELSE Through(Stack(p)[j], len[j - 1]) IN len[b - 1]

\* A block of a network, and whether block b lies between a fork and its join.
IsBlock(l) ==
  \/ l.kind = "conv" /\ l.pad \in Nat
  \/ l.kind = "attn" /\ l.wins \in Seq(Nat \ {0})
  \/ l.kind = "tconv" /\ IsTconv(l) /\ l.pat \in Seq(Nat \ {0}) /\ l.pat # <<>>
  \/ l.kind \in {"fork", "join"}
InResidual(p, b) ==
  \E f \in 1..b - 1 : Stack(p)[f].kind = "fork" /\ \A j \in f + 1..b - 1 : Stack(p)[j].kind # "join"

\* Residual paths are not nested, hold no transposed convolution and start
\* behind a block that has dropped the empty chunks; emit probes single layers.
IsNetwork(p) ==
  LET ls == Stack(p)
  IN  /\ Len(ls) \in Nat \ {0} /\ DOMAIN ls = 1..Len(ls)
      /\ \A b \in 1..Len(ls) :
           /\ IsBlock(ls[b])
           /\ ls[b].kind = "fork" => b > 1 /\ p # "emit" /\ ~InResidual(p, b)
           /\ ls[b].kind = "join" => InResidual(p, b)
           /\ ls[b].kind = "tconv" => ~InResidual(p, b)

\* What Forward takes for granted: the pre-convolution, then the transformer,
\* then the decoder, whose transposed convolutions trim nothing on the left.
IsExported(p) ==
  LET ls == Stack(p)
  IN  /\ Len(ls) >= 2 /\ ls[1].kind = "conv" /\ ls[1].pad > 0 /\ ls[2].kind = "attn"
      /\ \A w \in 1..Len(ls[2].wins) : ls[2].wins[w] >= 2
      /\ \A b \in 3..Len(ls) : ls[b].kind # "attn"
      /\ \A b \in 1..Len(ls) : ls[b].kind = "tconv" => ls[b].left = 0

\* The codes give at least one sample; the gates cut them exactly.
IsFeed(p, f) ==
  /\ f.frames \in Nat /\ f.sizes \in Seq(Nat)
  /\ InLen(p, Len(Stack(p)) + 1, f.frames) > 0
  /\ p \in {"gate", "export"} => Sum(f.sizes) = f.frames

ASSUME StackAssumption ==
  \A p \in Programs :
    /\ IsNetwork(p) /\ (p = "export" => IsExported(p))
    /\ \A f \in Feeds(p) : IsFeed(p, f)

Frames == feed.frames
Block == Stack(prog)[blockNo]

StartState(l) ==
  CASE l.kind = "conv"  -> Zeros(l.pad)
    [] l.kind = "attn"  -> [w \in 1..Len(l.wins) |-> <<>>]
    [] l.kind = "tconv" -> EmitInit
    [] OTHER -> <<>>

Code2WavInit ==
  /\ LoadInit
  /\ prog \in Programs
  /\ prog \notin {"gate", "export"} => file = GraphOrder   \* not read
  /\ cphase = IF prog \in {"gate", "export"} THEN "build" ELSE "codes"
  /\ feed = [frames |-> 0, sizes |-> <<>>] /\ blockNo = 1 /\ inputs = <<>> /\ chunkNo = 1 /\ st = <<>> /\ outs = <<>>
  /\ resid = <<>> /\ states = <<>> /\ wav = <<>>

Build ==
  /\ cphase = "build"
  /\ BuildRealDecoder
  /\ cphase' = CASE build' = "ok" -> "codes" [] build' = "raised" -> "raised" [] OTHER -> "build"
  /\ UNCHANGED <<prog, feed, blockNo, inputs, chunkNo, st, outs, resid, states, wav>>

\* the windows of the transformer's layers, and the blocks that keep a state
Windows(p) == LET ls == Stack(p) IN Picked(ls, {b \in DOMAIN ls : ls[b].kind = "attn"})[1].wins
Stateful(p) ==
  LET ls == Stack(p)
  IN  {b \in DOMAIN ls : (ls[b].kind = "conv" /\ ls[b].pad > 0) \/ (ls[b].kind = "tconv" /\ ls[b].right > 0)}
StatefulBlocks(p) == Picked(Stack(p), Stateful(p))

\* _build_state_specs: keys and values of every attention layer, then every
\* convolution that pads and every transposed convolution that overlaps
state_specs(p) ==
  LET wins == Windows(p)  rest == StatefulBlocks(p)
  IN  [j \in 1..2 * Len(wins) |-> wins[(j + 1) \div 2] - 1]
      \o [j \in 1..Len(rest) |-> IF rest[j].kind = "conv" THEN rest[j].pad ELSE rest[j].right]

\* zeros: of a history, of rows of keys, or a pending sum with no terms yet
initial_states(p) ==
  LET specs == state_specs(p)
      rows  == 2 * Len(Windows(p))
  IN  [j \in 1..Len(specs) |->
         IF j > rows /\ StatefulBlocks(p)[j - rows].kind = "tconv"
         THEN [q \in 1..specs[j] |-> <<>>] ELSE Zeros(specs[j])]

\* load_codes, and the chunks the codes are cut into.  The reference programs
\* check that the sizes cover the codes once the loop over them is over, so the
\* cut is made here and the check with the last chunk.
LoadCodes ==
  /\ cphase = "codes"
  /\ \E f \in Feeds(prog) :
       /\ feed' = f
       /\ inputs' = Split(Iota(0, f.frames), f.sizes)
  /\ st' = StartState(Stack(prog)[1])
  /\ states' = IF prog = "export" THEN initial_states(prog) ELSE <<>>
  /\ cphase' = "run"
  /\ UNCHANGED <<loadVars, prog, blockNo, chunkNo, outs, resid, wav>>

-----------------------------------------------------------------------------
(* Block by block.                                                           *)

Running(kind) == cphase = "run" /\ prog # "export" /\ blockNo <= Len(Stack(prog)) /\ Block.kind = kind

More == chunkNo <= Len(inputs)

\* the reference skips an empty part, the gate has none
Skips == prog # "gate" /\ inputs[chunkNo] = <<>>

Skip ==
  /\ cphase = "run" /\ prog # "export" /\ blockNo <= Len(Stack(prog))
  /\ Block.kind \in {"conv", "attn", "tconv"}
  /\ More /\ Skips
  /\ chunkNo' = chunkNo + 1
  /\ UNCHANGED <<loadVars, prog, cphase, feed, blockNo, inputs, st, outs, resid, states, wav>>

Produce(r, keep) ==
  /\ outs' = IF keep THEN Append(outs, r.y) ELSE outs
  /\ st' = r.st
  /\ chunkNo' = chunkNo + 1
  /\ UNCHANGED <<loadVars, prog, cphase, feed, blockNo, inputs, resid, states, wav>>

causal_conv_step(x) ==
  IF prog = "gate" THEN GateConvStep(Block.pad, st, x) ELSE RefConvStep(Block.pad, st, x)

ConvChunk ==
  /\ Running("conv") /\ More /\ ~Skips
  /\ Produce(causal_conv_step(inputs[chunkNo]), TRUE)

attention_step(W, past, x, offset) ==
  IF prog = "gate" THEN GateAttnStep(W, past, x, offset) ELSE RefAttnStep(W, past, x, offset)

\* a chunk behind the layers of the pre-transformer, and what each layer keeps
Transformed(layers, x, offset) ==
  LET upTo[w \in 0..Len(layers)] ==
        IF w = 0 THEN [y |-> x, st |-> <<>>]
        ELSE LET r == attention_step(layers[w].win, layers[w].past, upTo[w - 1].y, offset)
             IN  [y |-> r.y, st |-> Append(upTo[w - 1].st, r.st)]
  IN  upTo[Len(layers)]

\* one chunk through every layer of the pre-transformer, all at the chunk's
\* position offset
TransformerChunk ==
  /\ Running("attn") /\ More /\ ~Skips
  /\ LET offset == Len(Cat(SubSeq(inputs, 1, chunkNo - 1)))
         layers == [w \in 1..Len(Block.wins) |-> [win |-> Block.wins[w], past |-> st[w]]]
     IN  Produce(Transformed(layers, inputs[chunkNo], offset), TRUE)

Final == chunkNo = Len(inputs)

\* an empty output is dropped
TconvChunk ==
  /\ Running("tconv") /\ More /\ ~Skips
  /\ LET n == InLen(prog, blockNo, Frames)
         r == IF prog = "collect" THEN [y |-> <<>>, st |-> RefCollectStep(Block, st, inputs[chunkNo])]
              ELSE IF prog = "gate" THEN GateEmitStep(Block, st, inputs[chunkNo], Final, n)
              ELSE RefEmitStep(Block, st, inputs[chunkNo], Final, n)
     IN  Produce(r, r.y # <<>> \/ prog = "emit")

GoTo(b, next) ==
  /\ blockNo' = b
  /\ inputs' = next
  /\ chunkNo' = 1
  /\ outs' = <<>>
  /\ st' = IF b <= Len(Stack(prog)) THEN StartState(Stack(prog)[b]) ELSE <<>>

ForkBlock ==
  /\ Running("fork")
  /\ resid' = Append(resid, inputs)
  /\ GoTo(blockNo + 1, inputs)
  /\ UNCHANGED <<loadVars, prog, cphase, feed, states, wav>>

\* zip(strict=True), then a sum that needs equal lengths
SamePieces(a, b) == Len(a) = Len(b) /\ \A j \in 1..Len(a) : Len(a[j]) = Len(b[j])
AddPieces(a, b) ==
  [j \in 1..Len(a) |-> [t \in 1..Len(a[j]) |-> IF a[j][t] = b[j][t] THEN a[j][t] ELSE Bad]]

JoinBlock ==
  /\ Running("join")
  /\ LET res == Last(resid)
     IN  IF SamePieces(res, inputs)
         THEN /\ GoTo(blockNo + 1, AddPieces(res, inputs))
              /\ resid' = Front(resid)
              /\ UNCHANGED cphase
         ELSE /\ cphase' = "raised"
              /\ UNCHANGED <<blockNo, inputs, chunkNo, outs, st, resid>>
  /\ UNCHANGED <<loadVars, prog, feed, states, wav>>

\* the reference's check after the loop over the sizes of the codes: the parts
\* that were not empty count with their nominal size
FeedCovers ==
  LET parts == Split(Iota(0, Frames), feed.sizes)
  IN  Frames = Sum([j \in 1..Len(parts) |-> IF parts[j] = <<>> THEN 0 ELSE feed.sizes[j]])

Covers == prog = "gate" \/ blockNo > 1 \/ FeedCovers

\* what the block hands on: collect trims the collected signal and cuts it anew
NextChunks ==
  IF Block.kind = "tconv" /\ prog = "collect"
  THEN LET y == RefCollectTrim(Block, st, InLen(prog, blockNo, Frames))
       IN  Split(y, make_chunks(Len(y), Block.pat))
  ELSE outs

BlockDone ==
  /\ cphase = "run" /\ prog # "export" /\ blockNo <= Len(Stack(prog))
  /\ Block.kind \in {"conv", "attn", "tconv"} /\ ~More
  /\ IF Covers
     THEN GoTo(blockNo + 1, NextChunks) /\ UNCHANGED cphase
     ELSE cphase' = "raised" /\ UNCHANGED <<blockNo, inputs, chunkNo, outs, st>>
  /\ UNCHANGED <<loadVars, prog, feed, resid, states, wav>>

\* torch.cat of the last block's chunks
Finish ==
  /\ cphase = "run" /\ prog # "export" /\ blockNo > Len(Stack(prog))
  /\ wav' = Cat(inputs)
  /\ cphase' = IF inputs = <<>> THEN "raised" ELSE "done"
  /\ UNCHANGED <<loadVars, prog, feed, blockNo, inputs, chunkNo, st, outs, resid, states>>

-----------------------------------------------------------------------------
(* StatefulCode2WavModule: chunk by chunk.                                    *)

\* states[cursor], cursor + 1; outputs gains the next state
Attention(offset, wins, in, a, w) ==
  LET r == ExportAttnStep(wins[w], in[a.cursor], in[a.cursor + 1], a.x, offset)
  IN  [a EXCEPT !.x = r.y, !.cursor = @ + 2, !.out = @ \o <<r.k, r.v>>]

pre_transformer_step(x, offset, wins, in) ==
  LET upTo[w \in 0..Len(wins)] ==
        IF w = 0 THEN [x |-> x, cursor |-> 1, out |-> <<>>] ELSE Attention(offset, wins, in, upTo[w - 1], w)
  IN  upTo[Len(wins)]

\* Mutant: a convolution without padding takes a state too.
ConvTakeAlways(a, l, in) ==
  LET r == ExportConvStep(l.pad, in[Minimum(a.cursor, Len(in))], a.x)
  IN  [a EXCEPT !.x = r.y, !.cursor = @ + 1, !.out = Append(@, r.st)]

\* no padding, no state
ConvTake(a, l, in) ==
  IF l.pad = 0 THEN [a EXCEPT !.x = Conv(a.x, 0)]
  ELSE LET r == ExportConvStep(l.pad, in[a.cursor], a.x)
       IN  [a EXCEPT !.x = r.y, !.cursor = @ + 1, !.out = Append(@, r.st)]

\* no overlap, no state
TconvTake(a, l, in, n) ==
  IF l.right = 0 THEN [a EXCEPT !.x = ExportTconvNoState(l, a.x, n)]
  ELSE LET r == ExportTconvStep(l, in[a.cursor], a.x, n)
       IN  [a EXCEPT !.x = r.y, !.cursor = @ + 1, !.out = Append(@, r.st)]

ForwardBlock(a, b, in) ==
  LET l == Stack("export")[b]
  IN  CASE l.kind = "conv"  -> ConvTake(a, l, in)
        [] l.kind = "tconv" -> TconvTake(a, l, in, InLen("export", b, Frames))
        [] l.kind = "fork"  -> [a EXCEPT !.resid = Append(@, a.x)]
        [] l.kind = "join"  -> [a EXCEPT !.resid = Front(@), !.x = AddPieces(<<Last(a.resid)>>, <<a.x>>)[1]]

\* forward: pre_conv reads its state behind the attention states, its next
\* state is put out after theirs, and the cursor goes on behind it
Forward(x, offset, in) ==
  LET blocks == Stack("export")
      wins == blocks[2].wins
      at   == 2 * Len(wins) + 1
      pre  == ExportConvStep(blocks[1].pad, in[at], x)
      tr   == pre_transformer_step(pre.y, offset, wins, in)
      upTo[b \in 2..Len(blocks)] ==
        IF b = 2 THEN [x |-> tr.x, cursor |-> at + 1, out |-> Append(tr.out, pre.st), resid |-> <<>>]
        ELSE ForwardBlock(upTo[b - 1], b, in)
  IN  upTo[Len(blocks)]

\* run_explicit_state_gate: the frames fed so far
Offset == Before(feed.sizes, chunkNo)

ExportChunk ==
  /\ cphase = "run" /\ prog = "export" /\ More
  /\ LET r == Forward(inputs[chunkNo], Offset, states)
     IN  /\ outs' = Append(outs, r.x)
         /\ states' = r.out
  /\ chunkNo' = chunkNo + 1
  /\ UNCHANGED <<loadVars, prog, cphase, feed, blockNo, inputs, st, resid, wav>>

ExportFinish ==
  /\ cphase = "run" /\ prog = "export" /\ ~More
  /\ wav' = Cat(outs)
  /\ cphase' = "done"
  /\ UNCHANGED <<loadVars, prog, feed, blockNo, inputs, chunkNo, st, outs, resid, states>>

Code2WavNext ==
  \/ Build \/ LoadCodes \/ Skip \/ ConvChunk \/ TransformerChunk \/ TconvChunk
  \/ ForkBlock \/ JoinBlock \/ BlockDone \/ Finish \/ ExportChunk \/ ExportFinish

Code2WavSpec == Code2WavInit /\ [][Code2WavNext]_code2wavVars

-----------------------------------------------------------------------------
OutLen == InLen(prog, Len(Stack(prog)) + 1, Frames)

\* Whatever way the codes are cut, and whichever program runs them, the
\* waveform is sample for sample the one of a single pass over the utterance
\* (report_probe and the max_abs comparisons of the two gates).  It is given up
\* only because the ONNX file does not fit the model or the sizes do not cover the
\* codes: the two sides of a residual are always in step.
StreamedIsOffline ==
  /\ cphase = "done" => wav = Iota(0, OutLen)
  /\ cphase = "raised" => build = "raised" \/ ~FeedCovers

\* At every moment, what a block has put out is a prefix of its offline output:
\* no sample leaves a transposed convolution before its last contribution has
\* been added, and none is repeated or skipped at a chunk border
\* (stable_trimmed_end, emitted_trimmed).
EmittedIsPrefix ==
  (cphase = "run" /\ blockNo <= Len(Stack(prog))) =>
    IF prog = "export" THEN IsPrefix(Cat(outs), Iota(0, OutLen))
    ELSE IsPrefix(Cat(outs), Iota(0, InLen(prog, blockNo + 1, Frames)))

\* Between two chunks the explicit states are exactly the declared ones, in the
\* declared order and with the declared lengths: what export_onnx names
\* <spec>_out can be fed back as <spec>_in.
StatesAligned ==
  (prog = "export" /\ cphase \in {"run", "done"}) =>
    /\ Len(states) = Len(state_specs(prog))
    /\ \A j \in 1..Len(states) : Len(states[j]) = state_specs(prog)[j]

=============================================================================
