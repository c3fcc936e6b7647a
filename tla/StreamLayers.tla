---------------------------- MODULE StreamLayers ----------------------------
(***************************************************************************)
(* One streaming step of each Code2Wav building block, in the three          *)
(* versions the repository holds:                                            *)
(*   Ref     scripts/qwen3_code2wav_stateful_reference.py                    *)
(*   Gate    scripts/qwen3_tts_code2wav_stateful_real_gate.py                *)
(*   Export  scripts/qwen3_tts_code2wav_stateful_export.py                   *)
(*                                                                          *)
(* A tensor along time is a sequence of samples, and a sample is the name of *)
(* the sample of the offline signal it equals: its position, Pad for the     *)
(* zeros of a left padding, Bad for anything else.  A block produces sample  *)
(* t only when what it read is what the offline block reads for t, so every  *)
(* wrong history, window, overlap or offset shows as a Bad sample.           *)
(* Pointwise work (norms, activations, projections, rotary embedding at the   *)
(* given position) keeps the name.                                           *)
(***************************************************************************)
EXTENDS Integers, Sequences, Subsequences

Pad == -1
Bad == -2

Maximum(a, b) == IF a > b THEN a ELSE b
Minimum(a, b) == IF a < b THEN a ELSE b

\* Python slices: s[-n:] (the whole of s for n = 0) and s[a:b] with 0-based,
\* clamped bounds.
LastN(s, n) == IF n = 0 THEN s ELSE SubSeq(s, Maximum(1, Len(s) - n + 1), Len(s))
Slice(s, a, b) == SubSeq(s, a + 1, Minimum(b, Len(s)))

Zeros(n) == [i \in 1..n |-> Pad]
Iota(a, n) == [i \in 1..n |-> a + i - 1]     \* a, a+1, ..., n of them

-----------------------------------------------------------------------------
(* Causal convolution, stride 1, with pad = (kernel - 1) * dilation zeros on  *)
(* the left of the offline input.                                            *)

\* Offline, sample t is computed from t-pad .. t.
ConvWindow(t, pad) == [j \in 1..pad + 1 |-> IF t - pad + j - 1 < 0 THEN Pad ELSE t - pad + j - 1]

ConvOut(w) ==
  LET t == w[Len(w)]
  IN  IF t >= 0 /\ w = ConvWindow(t, Len(w) - 1) THEN t ELSE Bad

Conv(padded, pad) ==
  [i \in 1..Len(padded) - pad |-> ConvOut(SubSeq(padded, i, i + pad))]

\* Mutant: the history is the tail of the new chunk only.
RefConvStepShort(pad, hist, x) ==
  IF pad = 0 THEN [y |-> Conv(x, 0), st |-> <<>>]
  ELSE [y |-> Conv(hist \o x, pad), st |-> LastN(Zeros(pad) \o x, pad)]

\* padding = 0 keeps no history
RefConvStep(pad, hist, x) ==
  IF pad = 0 THEN [y |-> Conv(x, 0), st |-> <<>>]
  ELSE LET padded == hist \o x
       IN  [y |-> Conv(padded, pad), st |-> LastN(padded, pad)]

GateConvStep(pad, hist, x) ==
  LET padded == hist \o x
  IN  [y |-> Conv(padded, pad), st |-> IF pad > 0 THEN LastN(padded, pad) ELSE <<>>]

\* padding = 0 hands the state it was given back
ExportConvStep(pad, state, x) ==
  IF pad = 0 THEN [y |-> Conv(x, 0), st |-> state]
  ELSE LET padded == state \o x
       IN  [y |-> Conv(padded, pad), st |-> LastN(padded, pad)]

-----------------------------------------------------------------------------
(* Sliding-window attention: offline, query t sees keys t-W+1 .. t.           *)

\* A key is the sample it was made from and the position it was rotated to.
Keys(x, offset) == [i \in 1..Len(x) |-> [v |-> x[i], pos |-> offset + i - 1]]

AttnOut(q, all, W) ==
  LET seen == Picked(all, {i \in DOMAIN all : all[i].pos > q.pos - W /\ all[i].pos <= q.pos})
      lo   == Maximum(0, q.v - W + 1)
  IN  IF q.v >= 0 /\ seen = Keys(Iota(lo, q.v - lo + 1), lo) THEN q.v ELSE Bad

Attend(new, all, W) == [i \in 1..Len(new) |-> AttnOut(new[i], all, W)]

RefAttnStep(W, past, x, offset) ==
  LET new  == Keys(x, offset)
      all  == past \o new
      keep == Maximum(0, W - 1)
  IN  [y |-> Attend(new, all, W), st |-> IF keep > 0 THEN LastN(all, keep) ELSE <<>>]

\* as above, but a window of one (keep = 0) keeps every key ever seen
GateAttnStep(W, past, x, offset) ==
  LET new == Keys(x, offset)
      all == past \o new
  IN  [y |-> Attend(new, all, W), st |-> LastN(all, Maximum(0, W - 1))]

\* The k and v states hold W - 1 rows and no positions: row i of the past is
\* taken to be position offset - (W - 1) + i, and rows before position 0 are
\* masked.
ExportPast(W, k, v, offset) ==
  [i \in 1..Len(k) |-> [v |-> IF k[i] = v[i] THEN k[i] ELSE Bad, pos |-> offset - W + i]]

ExportAttnStep(W, k, v, x, offset) ==
  LET new  == Keys(x, offset)
      rows == ExportPast(W, k, v, offset) \o new
      all  == Picked(rows, {i \in DOMAIN rows : rows[i].pos >= 0})
  IN  [y |-> Attend(new, all, W), k |-> LastN(k \o x, W - 1), v |-> LastN(v \o x, W - 1)]

-----------------------------------------------------------------------------
(* Transposed convolution of kernel k and stride s, trimmed by left and       *)
(* right: a layer is a record with these four fields.  Raw sample p sums the  *)
(* inputs i with i*s <= p < i*s + k, each through tap p - i*s; a sum is kept  *)
(* as the sequence of its terms <<input, tap>>.                               *)

\* the right trim is what the kernel reaches over the stride
IsTconv(l) ==
  /\ l.s \in Nat \ {0} /\ l.k \in Nat /\ l.k >= l.s
  /\ l.left \in Nat /\ l.right = l.k - l.s

RawLen(l, n) == IF n = 0 THEN 0 ELSE (n - 1) * l.s + l.k

\* the tap of input i in raw sample p, and the inputs of n that reach it
Tap(l, p, i) == p - (i - 1) * l.s
Reached(l, p, n) == {i \in 1..n : 0 <= Tap(l, p, i) /\ Tap(l, p, i) < l.k}

\* F.conv_transpose1d of one chunk
ConvTranspose(l, x) ==
  [p \in 1..RawLen(l, Len(x)) |->
     Picked([i \in 1..Len(x) |-> <<x[i], Tap(l, p - 1, i)>>], Reached(l, p - 1, Len(x)))]

\* the terms of raw sample p of an utterance of n inputs
OfflineTerms(l, p, n) ==
  Picked([i \in 1..n |-> <<i - 1, Tap(l, p, i)>>], Reached(l, p, n))

\* the name of a finished sum: its trimmed position
TconvOut(l, terms, n) ==
  LET p == terms[1][1] * l.s + terms[1][2]
  IN  IF terms # <<>> /\ terms[1][1] >= 0 /\ terms = OfflineTerms(l, p, n) /\ p >= l.left
      THEN p - l.left ELSE Bad

\* overlap-add of raw at start into acc, grown when it is too short
OverlapAdd(acc, raw, start) ==
  [p \in 1..Maximum(Len(acc), start + Len(raw)) |->
     (IF p <= Len(acc) THEN acc[p] ELSE <<>>)
       \o (IF p > start /\ p <= start + Len(raw) THEN raw[p - start] ELSE <<>>)]

Emitted(l, raw, n) == [i \in 1..Len(raw) |-> TconvOut(l, raw[i], n)]

EmitInit == [raw |-> <<>>, emitted |-> 0, offset |-> 0]

\* Mutant: the stable end is not moved by the left trim.
RefEmitStepUntrimmed(l, state, x, final, n) ==
  LET acc  == OverlapAdd(state.raw, ConvTranspose(l, x), state.offset * l.s)
      next == state.offset + Len(x)
      stop == IF final THEN Maximum(0, Len(acc) - l.right - l.left) ELSE next * l.s
  IN  [y  |-> Emitted(l, Slice(acc, l.left + state.emitted, l.left + stop), n),
       st |-> [raw |-> acc, emitted |-> stop, offset |-> next]]

\* Samples below next_input_offset * stride are stable; the last chunk releases
\* the rest up to the right trim.  n is the utterance's input length (it only
\* names the samples).
RefEmitStep(l, state, x, final, n) ==
  LET acc    == OverlapAdd(state.raw, ConvTranspose(l, x), state.offset * l.s)
      next   == state.offset + Len(x)
      stable == IF final THEN Maximum(0, Len(acc) - l.right - l.left)
                         ELSE Maximum(0, next * l.s - l.left)
      stop   == Maximum(state.emitted, stable)
  IN  [y  |-> Emitted(l, Slice(acc, l.left + state.emitted, l.left + stop), n),
       st |-> [raw |-> acc, emitted |-> stop, offset |-> next]]

\* the same code, copied
GateEmitStep(l, state, x, final, n) ==
  LET acc    == OverlapAdd(state.raw, ConvTranspose(l, x), state.offset * l.s)
      next   == state.offset + Len(x)
      stable == IF final THEN Maximum(0, Len(acc) - l.right - l.left)
                         ELSE Maximum(0, next * l.s - l.left)
      stop   == Maximum(state.emitted, stable)
  IN  [y  |-> Emitted(l, Slice(acc, l.left + state.emitted, l.left + stop), n),
       st |-> [raw |-> acc, emitted |-> stop, offset |-> next]]

\* transposed_conv_stream_collect: every chunk is added first, the trim is last
RefCollectStep(l, state, x) ==
  [raw |-> OverlapAdd(state.raw, ConvTranspose(l, x), state.offset * l.s),
   emitted |-> 0, offset |-> state.offset + Len(x)]
RefCollectTrim(l, state, n) ==
  Emitted(l, Slice(state.raw, l.left, Len(state.raw) - l.right), n)

\* The pending tail of the earlier chunks is added at the front; s samples per
\* input go out and the rest of raw is the next pending tail.
ExportTconvStep(l, pending, x, n) ==
  LET raw  == OverlapAdd(pending, ConvTranspose(l, x), 0)
      emit == Len(x) * l.s
  IN  [y  |-> Emitted(l, Slice(raw, 0, emit), n),
       st |-> Slice(raw, emit, Len(raw))]

ExportTconvNoState(l, x, n) ==
  Emitted(l, Slice(ConvTranspose(l, x), 0, Len(x) * l.s), n)
=============================================================================
