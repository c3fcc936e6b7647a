--------------------------- MODULE Code2WavProofs ---------------------------
(***************************************************************************)
(* Machine-checked proofs about the streaming vocoder, for every network,     *)
(* every length of the utterance and every way of cutting it.                 *)
(*                                                                          *)
(* The argument: for each kind of block, what it keeps and what it has put     *)
(* out behind m samples is a function of m alone (Hist, IsPast, EmitState,     *)
(* PendingOf, EmittedBy), whatever the cut; one lemma per kind says that a      *)
(* step with a chunk of c samples goes from m to m + c.  The rest carries that  *)
(* through the blocks and the programs.                                      *)
(***************************************************************************)
EXTENDS Code2Wav, CountingLemmas

-----------------------------------------------------------------------------
(* The weights                                                               *)

(* The names of the renamed parameters, and the keys with a name out of a set.        *)
MatMulNames == {"input_proj", "output_proj", "q_proj", "k_proj", "v_proj", "o_proj", "gate_proj", "up_proj",
                "down_proj", "pwconv1", "pwconv2"}
SnakeNames == {"alpha", "beta", "act1.alpha", "act1.beta", "act2.alpha", "act2.beta"}
KeysNamed(N) == {Key(name, i, j) : name \in N, i \in Nat, j \in Nat}

(* A key with such a name is one of them.                                            *)
LEMMA KeyNamed ==
  ASSUME NEW N, NEW name \in N, NEW i \in Nat, NEW j \in Nat
  PROVE  Key(name, i, j) \in KeysNamed(N)
BY DEF KeysNamed

(* The keys of the two kinds differ. *)
LEMMA KindsApart == KeysNamed(MatMulNames) \cap KeysNamed(SnakeNames) = {}
<1> SUFFICES ASSUME NEW k \in KeysNamed(MatMulNames), k \in KeysNamed(SnakeNames) PROVE FALSE
  OBVIOUS
<1>1. k[1] \in MatMulNames /\ k[1] \in SnakeNames
  BY DEF KeysNamed, Key
<1> QED BY <1>1 DEF MatMulNames, SnakeNames

(* The key lists are lists of keys of their kind. *)
LEMMA KeyLists ==
  /\ matmul_parameter_keys \in Seq(KeysNamed(MatMulNames))
  /\ snake_parameter_keys \in Seq(KeysNamed(SnakeNames))
<1>1. NumLayers \in Nat /\ NumUpsample \in Nat /\ NumRates \in Nat
  BY WeightAssumption
<1>2. matmul_parameter_keys \in Seq(KeysNamed(MatMulNames))
  <2> DEFINE S == KeysNamed(MatMulNames)
             names == <<"q_proj", "k_proj", "v_proj", "o_proj", "gate_proj", "up_proj", "down_proj">>
             A == [l \in 1..NumLayers |-> [p \in 1..7 |-> Key(names[p], l, 0)]]
             B == [s \in 1..NumUpsample |-> <<Key("pwconv1", s, 0), Key("pwconv2", s, 0)>>]
  <2>0. \A name \in MatMulNames, i, j \in Nat : Key(name, i, j) \in S
    BY KeyNamed
  <2>1. \A p \in 1..7 : names[p] \in MatMulNames
    BY DEF MatMulNames
  <2>11. {"input_proj", "output_proj", "pwconv1", "pwconv2"} \subseteq MatMulNames
    BY DEF MatMulNames
  <2> HIDE DEF names, S
  <2>2. ASSUME NEW l \in 1..NumLayers PROVE [p \in 1..7 |-> Key(names[p], l, 0)] \in Seq(S)
    <3>0. l \in Nat /\ 0 \in Nat
      BY <1>1
    <3>1. \A p \in 1..7 : Key(names[p], l, 0) \in S
      BY <2>1, <2>0, <3>0
    <3> QED BY <3>1
  <2>3. A \in Seq(Seq(S))
    BY <2>2, <1>1
  <2>4. ASSUME NEW s \in 1..NumUpsample PROVE <<Key("pwconv1", s, 0), Key("pwconv2", s, 0)>> \in Seq(S)
    <3>0. s \in Nat /\ 0 \in Nat
      BY <1>1
    <3>1. Key("pwconv1", s, 0) \in S /\ Key("pwconv2", s, 0) \in S
      BY <2>0, <2>11, <3>0
    <3> QED BY <3>1
  <2>5. B \in Seq(Seq(S))
    BY <2>4, <1>1
  <2>6. Key("input_proj", 0, 0) \in S /\ Key("output_proj", 0, 0) \in S
    BY <2>0, <2>11
  <2> HIDE DEF A, B
  <2>7. FlattenSeq(A) \in Seq(S) /\ FlattenSeq(B) \in Seq(S)
    BY <2>3, <2>5, FlattenSeqType
  <2>8. matmul_parameter_keys = <<Key("input_proj", 0, 0)>> \o FlattenSeq(A) \o <<Key("output_proj", 0, 0)>> \o FlattenSeq(B)
    BY DEF matmul_parameter_keys, A, B, names
  <2>9. <<Key("input_proj", 0, 0)>> \in Seq(S) /\ <<Key("output_proj", 0, 0)>> \in Seq(S)
    BY <2>6
  <2>10. \A a, b \in Seq(S) : a \o b \in Seq(S)
    OBVIOUS
  <2>12. matmul_parameter_keys \in Seq(S)
    BY <2>7, <2>8, <2>9, <2>10
  <2> QED BY <2>12 DEF S
<1>3. snake_parameter_keys \in Seq(KeysNamed(SnakeNames))
  <2> DEFINE S == KeysNamed(SnakeNames)
             U(r) == [u \in 1..3 |-> <<Key("act1.alpha", r, u + 1), Key("act1.beta", r, u + 1),
                                     Key("act2.alpha", r, u + 1), Key("act2.beta", r, u + 1)>>]
             A == [r \in 1..NumRates |-> <<Key("alpha", r, 0), Key("beta", r, 0)>> \o FlattenSeq(U(r))]
             Z == <<Key("alpha", NumRates + 1, 0), Key("beta", NumRates + 1, 0)>>
  <2>0. \A name \in SnakeNames, i, j \in Nat : Key(name, i, j) \in S
    BY KeyNamed
  <2>7. {"alpha", "beta", "act1.alpha", "act1.beta", "act2.alpha", "act2.beta"} \subseteq SnakeNames
    BY DEF SnakeNames
  <2> HIDE DEF S
  <2>1. ASSUME NEW r \in 1..NumRates PROVE <<Key("alpha", r, 0), Key("beta", r, 0)>> \o FlattenSeq(U(r)) \in Seq(S)
    <3>1. ASSUME NEW u \in 1..3
          PROVE  <<Key("act1.alpha", r, u + 1), Key("act1.beta", r, u + 1), Key("act2.alpha", r, u + 1), Key("act2.beta", r, u + 1)>> \in Seq(S)
      <4>1. /\ Key("act1.alpha", r, u + 1) \in S /\ Key("act1.beta", r, u + 1) \in S
            /\ Key("act2.alpha", r, u + 1) \in S /\ Key("act2.beta", r, u + 1) \in S
        <5>1. r \in Nat /\ u + 1 \in Nat
          BY <1>1
        <5> QED BY <5>1, <2>0, <2>7
      <4> QED BY <4>1
    <3>2. U(r) \in Seq(Seq(S))
      BY <3>1
    <3>3. Key("alpha", r, 0) \in S /\ Key("beta", r, 0) \in S
      <4>1. r \in Nat /\ 0 \in Nat
        BY <1>1
      <4> QED BY <4>1, <2>0, <2>7
    <3>4. <<Key("alpha", r, 0), Key("beta", r, 0)>> \in Seq(S)
      BY <3>3
    <3> HIDE DEF U
    <3>5. FlattenSeq(U(r)) \in Seq(S)
      BY <3>2, FlattenSeqType
    <3> QED BY <3>4, <3>5
  <2>2. A \in Seq(Seq(S))
    <3> HIDE DEF U
    <3> QED BY <2>1, <1>1
  <2>3. Key("alpha", NumRates + 1, 0) \in S /\ Key("beta", NumRates + 1, 0) \in S
    <3>1. NumRates + 1 \in Nat
      BY <1>1
    <3> QED BY <3>1, <2>0, <2>7
  <2>4. Z \in Seq(S)
    BY <2>3
  <2>5. snake_parameter_keys = FlattenSeq(A) \o Z
    BY DEF snake_parameter_keys
  <2> HIDE DEF A, Z
  <2>6. FlattenSeq(A) \in Seq(S)
    BY <2>2, FlattenSeqType
  <2>8. snake_parameter_keys \in Seq(S)
    BY <2>4, <2>5, <2>6
  <2> QED BY <2>8 DEF S
<1> QED BY <1>2, <1>3

(* No key is in both lists, nor found by name. *)
LEMMA ListsApart ==
  /\ ToSet(matmul_parameter_keys) \cap ToSet(snake_parameter_keys) = {}
  /\ DOMAIN matmul_parameter_keys = 1..Len(matmul_parameter_keys)
  /\ DOMAIN snake_parameter_keys = 1..Len(snake_parameter_keys)
<1>1. \A S : \A s \in Seq(S) : DOMAIN s = 1..Len(s) /\ \A i \in DOMAIN s : s[i] \in S
  OBVIOUS
<1>2. /\ \A i \in DOMAIN matmul_parameter_keys : matmul_parameter_keys[i] \in KeysNamed(MatMulNames)
      /\ \A i \in DOMAIN snake_parameter_keys : snake_parameter_keys[i] \in KeysNamed(SnakeNames)
      /\ DOMAIN matmul_parameter_keys = 1..Len(matmul_parameter_keys)
      /\ DOMAIN snake_parameter_keys = 1..Len(snake_parameter_keys)
  BY <1>1, KeyLists
<1> QED BY <1>2, KindsApart DEF ToSet

(* What is in a file of a kind. *)
LEMMA NamedIs ==
  ASSUME NEW f \in Files, NEW kind
  PROVE  DOMAIN Named(f, kind) = 1..Len(Named(f, kind))
<1> DEFINE K == {i \in DOMAIN f : f[i].kind = kind}
<1>1. f \in Seq(ToSet(f)) /\ Len(f) \in Nat
  BY WeightAssumption
<1>2. K \in SUBSET (1..Len(f))
  BY <1>1
<1>3. Named(f, kind) = Picked(f, K)
  BY DEF Named
<1> HIDE DEF K
<1>4. Cardinality(K) \in Nat
  BY <1>1, <1>2, RankFacts
<1> QED BY <1>3, <1>4 DEF Picked

-----------------------------------------------------------------------------
(* The inductive invariant of the load: every weight filled so far has its key's shape, the ones not renamed   *)
(* are their own, a stage that is behind has filled its keys by place, and a build that ended well left out    *)
(* no parameter but those it may.                                                                             *)
WeightsInv ==
  /\ file \in Files
  /\ \A k \in DOMAIN weights : weights[k].shape = Shape(k)
  /\ \A k \in DOMAIN weights \ RenamedKeys : weights[k].key = k
  /\ build \in {"exp", "missing", "ok"} => ByPlace(matmul_parameter_keys, "MatMul")
  /\ build \in {"missing", "ok"} => ByPlace(snake_parameter_keys, "Exp")
  /\ build = "ok" => StateKeys \ AllowedMissing \subseteq DOMAIN weights

(* What filling by place does to the weights, if it does not raise.                   *)
LEMMA Filled ==
  ASSUME NEW keys, NEW inits, NEW next, FillFrom(keys, inits, next), build' # "raised"
  PROVE  /\ build' = next /\ Len(keys) = Len(inits)
         /\ DOMAIN weights' = ToSet(keys) \cup DOMAIN weights
         /\ \A k \in ToSet(keys) : \E i \in 1..Len(keys) :
              keys[i] = k /\ weights'[k].key = inits[i].key /\ weights'[k].shape = Shape(k)
         /\ \A k \in DOMAIN weights \ ToSet(keys) : weights'[k] = weights[k]
<1> DEFINE fits == \A i \in 1..Len(keys) : inits[i].shape = Shape(keys[i])
           at(k) == CHOOSE i \in 1..Len(keys) : keys[i] = k
<1>1. Len(keys) = Len(inits) /\ fits
  BY DEF FillFrom
<1>2. /\ weights' = [k \in ToSet(keys) \cup DOMAIN weights |->
                       IF k \in ToSet(keys) THEN Tensor(inits[at(k)].key, inits[at(k)].shape) ELSE weights[k]]
      /\ build' = next
  BY <1>1 DEF FillFrom
<1>3. ASSUME NEW k \in ToSet(keys)
      PROVE  \E i \in 1..Len(keys) : keys[i] = k /\ weights'[k].key = inits[i].key /\ weights'[k].shape = Shape(k)
  <2>1. \E i \in DOMAIN keys : keys[i] = k
    BY <1>3 DEF ToSet
  <2>2. at(k) \in 1..Len(keys) /\ keys[at(k)] = k
    BY <2>1 DEF ToSet
  <2>3. weights'[k] = Tensor(inits[at(k)].key, inits[at(k)].shape)
    BY <1>2, <1>3
  <2> HIDE DEF at
  <2>4. weights'[k].shape = inits[at(k)].shape /\ weights'[k].key = inits[at(k)].key
    BY <2>3 DEF Tensor
  <2> QED BY <1>1, <2>2, <2>4
<1>4. DOMAIN weights' = ToSet(keys) \cup DOMAIN weights
      /\ \A k \in DOMAIN weights \ ToSet(keys) : weights'[k] = weights[k]
  <2> HIDE DEF at
  <2> QED BY <1>2
<1> QED BY <1>1, <1>2, <1>3, <1>4

(* Every step of build_real_decoder. *)
LEMMA LoadKeeps ==
  ASSUME WeightsInv, BuildRealDecoder
  PROVE  WeightsInv'
<1> DEFINE mats == Named(file, "MatMul")
           exps == Named(file, "Exp")
<1>0. DirectKeys \cap RenamedKeys = {}
  BY WeightAssumption DEF RenamedKeys
<1>1. CASE LoadDirect
  <2> DEFINE hit(k) == {i \in 1..Len(file) : file[i].kind = "direct" /\ file[i].key = k /\ file[i].shape = Shape(k)}
             found == {k \in StateKeys : hit(k) # {}}
  <2>1. weights' = [k \in found |-> Tensor(k, Shape(k))] /\ build' = "matmul" /\ file' = file
    BY <1>1 DEF LoadDirect
  <2> HIDE DEF found
  <2> QED BY <2>1 DEF WeightsInv, Tensor
<1>2. CASE LoadMatMul
  <2>1. FillFrom(matmul_parameter_keys, TransposedAll(mats), "exp") /\ file' = file
    BY <1>2 DEF LoadMatMul
  <2>2. CASE build' = "raised"
    <3>1. weights' = weights
      BY <2>1, <2>2 DEF FillFrom
    <3> QED BY <2>1, <2>2, <3>1 DEF WeightsInv
  <2>3. CASE build' # "raised"
    <3>1. /\ build' = "exp" /\ Len(matmul_parameter_keys) = Len(TransposedAll(mats))
          /\ DOMAIN weights' = ToSet(matmul_parameter_keys) \cup DOMAIN weights
          /\ \A k \in ToSet(matmul_parameter_keys) : \E i \in 1..Len(matmul_parameter_keys) :
               /\ matmul_parameter_keys[i] = k /\ weights'[k].key = TransposedAll(mats)[i].key
               /\ weights'[k].shape = Shape(k)
          /\ \A k \in DOMAIN weights \ ToSet(matmul_parameter_keys) : weights'[k] = weights[k]
      BY <2>1, <2>3, Filled
    <3>2. DOMAIN mats = 1..Len(mats)
      BY NamedIs DEF WeightsInv
    <3>3. Len(TransposedAll(mats)) = Len(mats)
      <4> HIDE DEF mats
      <4> QED BY <3>2 DEF TransposedAll
    <3>4. \A i \in 1..Len(mats) : TransposedAll(mats)[i].key = mats[i].key
      <4> HIDE DEF mats
      <4> QED BY <3>2 DEF TransposedAll, Tensor
    <3>5. ByPlace(matmul_parameter_keys, "MatMul")'
      <4>1. Named(file', "MatMul") = mats
        BY <2>1
      <4> HIDE DEF mats
      <4> QED BY <3>1, <3>3, <3>4, <4>1 DEF ByPlace
    <3>6. \A k \in DOMAIN weights' : weights'[k].shape = Shape(k)
      BY <3>1 DEF WeightsInv
    <3>7. \A k \in DOMAIN weights' \ RenamedKeys : weights'[k].key = k
      BY <3>1 DEF WeightsInv, RenamedKeys
    <3> QED BY <2>1, <3>1, <3>5, <3>6, <3>7 DEF WeightsInv
  <2> QED BY <2>2, <2>3
<1>3. CASE LoadExp
  <2>1. FillFrom(snake_parameter_keys, exps, "missing") /\ file' = file /\ build = "exp"
    BY <1>3 DEF LoadExp
  <2>2. CASE build' = "raised"
    <3>1. weights' = weights
      BY <2>1, <2>2 DEF FillFrom
    <3> QED BY <2>1, <2>2, <3>1 DEF WeightsInv
  <2>3. CASE build' # "raised"
    <3>1. /\ build' = "missing" /\ Len(snake_parameter_keys) = Len(exps)
          /\ DOMAIN weights' = ToSet(snake_parameter_keys) \cup DOMAIN weights
          /\ \A k \in ToSet(snake_parameter_keys) : \E i \in 1..Len(snake_parameter_keys) :
               /\ snake_parameter_keys[i] = k /\ weights'[k].key = exps[i].key
               /\ weights'[k].shape = Shape(k)
          /\ \A k \in DOMAIN weights \ ToSet(snake_parameter_keys) : weights'[k] = weights[k]
      BY <2>1, <2>3, Filled
    <3>2. ByPlace(snake_parameter_keys, "Exp")'
      <4>1. Named(file', "Exp") = exps
        BY <2>1
      <4> HIDE DEF exps
      <4> QED BY <3>1, <4>1 DEF ByPlace
    <3>3. ByPlace(matmul_parameter_keys, "MatMul")'
      <4>1. ByPlace(matmul_parameter_keys, "MatMul")
        BY <2>1 DEF WeightsInv
      <4>2. \A k \in ToSet(matmul_parameter_keys) : k \in DOMAIN weights \ ToSet(snake_parameter_keys)
        BY <4>1, ListsApart DEF ByPlace
      <4>3. \A k \in ToSet(matmul_parameter_keys) : k \in DOMAIN weights' /\ weights'[k] = weights[k]
        BY <3>1, <4>2
      <4>4. Named(file', "MatMul") = mats
        BY <2>1
      <4> QED BY <4>1, <4>3, <4>4 DEF ByPlace
    <3>4. \A k \in DOMAIN weights' : weights'[k].shape = Shape(k)
      BY <3>1 DEF WeightsInv
    <3>5. \A k \in DOMAIN weights' \ RenamedKeys : weights'[k].key = k
      BY <3>1 DEF WeightsInv, RenamedKeys
    <3> QED BY <2>1, <3>1, <3>2, <3>3, <3>4, <3>5 DEF WeightsInv
  <2> QED BY <2>2, <2>3
<1>4. CASE CheckMissing
  <2>1. /\ file' = file /\ weights' = weights /\ build = "missing" /\ build' \in {"ok", "raised"}
        /\ (build' = "ok" => StateKeys \subseteq (DOMAIN weights \cup AllowedMissing))
    BY <1>4 DEF CheckMissing
  <2>2. \A keys, kind : ByPlace(keys, kind)' = ByPlace(keys, kind)
    BY <2>1 DEF ByPlace
  <2> QED BY <2>1, <2>2 DEF WeightsInv
<1> QED BY <1>1, <1>2, <1>3, <1>4 DEF BuildRealDecoder

(* Of a file in any order: a decoder that was built has every parameter it needs, in its shape, those found by *)
(* name their own, and the renamed ones the initializers of their kind in file order, none used for another    *)
(* kind and none left over (build_real_decoder).                                                              *)
THEOREM WeightsGoByPlace == Code2WavSpec => []WeightsByPlace
<1>1. Code2WavInit => WeightsInv
  <2> SUFFICES ASSUME Code2WavInit PROVE WeightsInv
      OBVIOUS
  <2>1. file \in Files /\ weights = <<>> /\ build = "direct"
    BY DEF Code2WavInit, LoadInit
  <2> QED BY <2>1 DEF WeightsInv
<1>2. WeightsInv /\ [Code2WavNext]_code2wavVars => WeightsInv'
  <2> SUFFICES ASSUME WeightsInv, [Code2WavNext]_code2wavVars PROVE WeightsInv'
      OBVIOUS
  <2>1. CASE Build
    BY <2>1, LoadKeeps DEF Build
  <2>2. CASE ~Build
    <3>1. UNCHANGED loadVars
      <4>1. LoadCodes => UNCHANGED loadVars
        BY DEF LoadCodes
      <4>2. Skip \/ Finish \/ ExportFinish => UNCHANGED loadVars
        BY DEF Skip, Finish, ExportFinish
      <4>3. ConvChunk => UNCHANGED loadVars
        BY DEF ConvChunk, Produce
      <4>4. TransformerChunk => UNCHANGED loadVars
        <5>1. \A r, keep : Produce(r, keep) => UNCHANGED loadVars
          BY Zenon DEF Produce
        <5> QED BY <5>1, Zenon DEF TransformerChunk
      <4>5. TconvChunk => UNCHANGED loadVars
        BY DEF TconvChunk, Produce
      <4>6. ForkBlock \/ JoinBlock \/ BlockDone => UNCHANGED loadVars
        BY DEF ForkBlock, JoinBlock, BlockDone
      <4>7. ExportChunk => UNCHANGED loadVars
        BY Zenon DEF ExportChunk
      <4>8. UNCHANGED code2wavVars => UNCHANGED loadVars
        BY DEF code2wavVars
      <4> HIDE DEF Build
      <4> QED BY <2>2, <4>1, <4>2, <4>3, <4>4, <4>5, <4>6, <4>7, <4>8 DEF Code2WavNext
    <3> QED BY <3>1 DEF loadVars, WeightsInv, ByPlace
  <2> QED BY <2>1, <2>2
<1>3. WeightsInv => WeightsByPlace
  BY DEF WeightsInv, WeightsByPlace
<1> QED BY <1>1, <1>2, <1>3, PTL DEF Code2WavSpec

-----------------------------------------------------------------------------
(* Convolution                                                               *)

(* What a sequence is: the function of its positions. *)
LEMMA CatIs ==
  ASSUME NEW S, NEW s \in Seq(S), NEW t \in Seq(S)
  PROVE  s \o t = [i \in 1..Len(s) + Len(t) |-> IF i <= Len(s) THEN s[i] ELSE t[i - Len(s)]]
<1> DEFINE u == s \o t
<1>1. u \in Seq(S) /\ Len(u) = Len(s) + Len(t)
  OBVIOUS
<1>2. \A i \in 1..Len(s) + Len(t) : u[i] = IF i <= Len(s) THEN s[i] ELSE t[i - Len(s)]
  OBVIOUS
<1> HIDE DEF u
<1>3. u = [i \in 1..Len(u) |-> u[i]]
  BY <1>1
<1>4. u = [i \in 1..Len(s) + Len(t) |-> IF i <= Len(s) THEN s[i] ELSE t[i - Len(s)]]
  BY <1>1, <1>2, <1>3
<1> QED BY <1>4 DEF u

(* The elements at an interval of positions. *)
LEMMA PickedInterval ==
  ASSUME NEW s, NEW a \in Nat \ {0}, NEW b \in Nat, a <= b + 1
  PROVE  Picked(s, a..b) = [j \in 1..(b - a + 1) |-> s[a + j - 1]]
<1>1. ASSUME NEW i \in a..b PROVE Rank(a..b, i) = i - a + 1
  <2>1. {j \in a..b : j <= i} = a..i
    OBVIOUS
  <2>2. a \in Int /\ i \in Int /\ ~(a > i)
    OBVIOUS
  <2>3. Cardinality(a..i) = i - a + 1
    BY <2>2, FS_Interval
  <2> QED BY <2>1, <2>3 DEF Rank
<1>2. Cardinality(a..b) = b - a + 1
  <2>1. CASE a > b
    <3>1. Cardinality(a..b) = 0
      BY <2>1, FS_Interval
    <3> QED BY <2>1, <3>1
  <2>2. CASE ~(a > b)
    BY <2>2, FS_Interval
  <2> QED BY <2>1, <2>2
<1>3. a..b \in SUBSET (1..b)
  OBVIOUS
<1>4. ASSUME NEW n \in 1..(b - a + 1) PROVE Nth(a..b, n) = a + n - 1
  <2>1. Nth(a..b, n) \in a..b /\ Rank(a..b, Nth(a..b, n)) = n
    BY <1>2, <1>3, NthIs
  <2>2. Rank(a..b, Nth(a..b, n)) = Nth(a..b, n) - a + 1
    BY <1>1, <2>1
  <2> DEFINE x == Nth(a..b, n)
  <2>3. x \in a..b /\ x - a + 1 = n
    BY <2>1, <2>2
  <2> HIDE DEF x
  <2>4. x = a + n - 1
    BY <2>3
  <2> QED BY <2>4 DEF x
<1> QED BY <1>2, <1>4 DEF Picked

-----------------------------------------------------------------------------
(* The samples of a signal around its start: Pad before it. *)
Padded(t) == IF t < 0 THEN Pad ELSE t

(* The last n samples before sample m. *)
Hist(n, m) == [j \in 1..n |-> Padded(m - n + j - 1)]

(* A history and the chunk behind it are the history at the chunk's end. *)
LEMMA HistGrows ==
  ASSUME NEW n \in Nat, NEW m \in Nat, NEW c \in Nat
  PROVE  Hist(n, m) \o Iota(m, c) = Hist(n + c, m + c)
<1> DEFINE h == Hist(n, m)
           x == Iota(m, c)
<1>1. h \in Seq(Int) /\ Len(h) = n /\ \A j \in 1..n : h[j] = Padded(m - n + j - 1)
  BY DEF Hist, Padded, Pad
<1>2. x \in Seq(Int) /\ Len(x) = c /\ \A j \in 1..c : x[j] = m + j - 1
  BY DEF Iota
<1> HIDE DEF h, x
<1>3. h \o x = [i \in 1..n + c |-> IF i <= n THEN h[i] ELSE x[i - n]]
  <2>1. h \o x = [i \in 1..Len(h) + Len(x) |-> IF i <= Len(h) THEN h[i] ELSE x[i - Len(h)]]
    BY <1>1, <1>2, CatIs
  <2> QED BY <2>1, <1>1, <1>2
<1>4. ASSUME NEW i \in 1..n + c
      PROVE  (IF i <= n THEN h[i] ELSE x[i - n]) = Padded((m + c) - (n + c) + i - 1)
  <2>1. (m + c) - (n + c) + i - 1 = m - n + i - 1
    OBVIOUS
  <2>2. CASE i <= n
    BY <2>1, <2>2, <1>1
  <2>3. CASE ~(i <= n)
    <3>1. i - n \in 1..c /\ x[i - n] = m + (i - n) - 1
      BY <2>3, <1>2
    <3> QED BY <2>1, <2>3, <3>1 DEF Padded
  <2> QED BY <2>2, <2>3
<1>5. h \o x = [i \in 1..n + c |-> Padded((m + c) - (n + c) + i - 1)]
  BY <1>3, <1>4
<1> QED BY <1>5 DEF Hist, h, x

(* Its last n samples are a history. *)
LEMMA HistEnds ==
  ASSUME NEW n \in Nat \ {0}, NEW m \in Nat, NEW c \in Nat
  PROVE  LastN(Hist(n + c, m), n) = Hist(n, m)
<1>1. Len(Hist(n + c, m)) = n + c
  BY DEF Hist
<1>2. Maximum(1, (n + c) - n + 1) = c + 1
  BY DEF Maximum
<1>3. LastN(Hist(n + c, m), n) = SubSeq(Hist(n + c, m), c + 1, n + c)
  BY <1>1, <1>2 DEF LastN
<1>4. SubSeq(Hist(n + c, m), c + 1, n + c) = [i \in 1..((n + c) - (c + 1) + 1) |-> Hist(n + c, m)[i + (c + 1) - 1]]
  OBVIOUS
<1>5. (n + c) - (c + 1) + 1 = n
  OBVIOUS
<1>6. ASSUME NEW i \in 1..n PROVE Hist(n + c, m)[i + (c + 1) - 1] = Padded(m - n + i - 1)
  <2>1. i + (c + 1) - 1 \in 1..n + c /\ m - (n + c) + (i + (c + 1) - 1) - 1 = m - n + i - 1
    OBVIOUS
  <2> QED BY <2>1 DEF Hist
<1> QED BY <1>3, <1>4, <1>5, <1>6 DEF Hist

(* A convolution behind its history computes the samples of the chunk. *)
LEMMA ConvIs ==
  ASSUME NEW pad \in Nat, NEW m \in Nat, NEW c \in Nat
  PROVE  Conv(Hist(pad + c, m + c), pad) = Iota(m, c)
<1> DEFINE h == Hist(pad + c, m + c)
<1>1. Len(h) = pad + c /\ \A j \in 1..pad + c : h[j] = Padded(m - pad + j - 1)
  <2>1. \A j \in Int : (m + c) - (pad + c) + j - 1 = m - pad + j - 1
    OBVIOUS
  <2> QED BY <2>1 DEF Hist
<1> HIDE DEF h
<1>2. ASSUME NEW i \in 1..c PROVE ConvOut(SubSeq(h, i, i + pad)) = m + i - 1
  <2> DEFINE w == SubSeq(h, i, i + pad)
             t == m + i - 1
  <2>1. w = [j \in 1..((i + pad) - i + 1) |-> h[j + i - 1]]
    OBVIOUS
  <2>2. (i + pad) - i + 1 = pad + 1
    OBVIOUS
  <2>3. ASSUME NEW j \in 1..pad + 1 PROVE h[j + i - 1] = IF t - pad + j - 1 < 0 THEN Pad ELSE t - pad + j - 1
    <3>1. j + i - 1 \in 1..pad + c /\ m - pad + (j + i - 1) - 1 = t - pad + j - 1
      OBVIOUS
    <3> HIDE DEF t
    <3> QED BY <3>1, <1>1 DEF Padded
  <2>4. w = [j \in 1..pad + 1 |-> IF t - pad + j - 1 < 0 THEN Pad ELSE t - pad + j - 1]
    <3> HIDE DEF t, w
    <3> QED BY <2>1, <2>2, <2>3
  <2> HIDE DEF w
  <2>5. w = ConvWindow(t, pad)
    BY <2>4 DEF ConvWindow
  <2>6. Len(w) = pad + 1 /\ w[pad + 1] = t /\ t >= 0
    BY <2>4
  <2>7. Len(w) - 1 = pad
    BY <2>6
  <2> HIDE DEF t
  <2>8. ConvOut(w) = t
    BY <2>5, <2>6, <2>7 DEF ConvOut
  <2> QED BY <2>8 DEF w, t
<1>3. Conv(h, pad) = [i \in 1..c |-> ConvOut(SubSeq(h, i, i + pad))]
  <2>1. (pad + c) - pad = c
    OBVIOUS
  <2> QED BY <2>1, <1>1 DEF Conv
<1>4. Conv(h, pad) = [i \in 1..c |-> m + i - 1]
  BY <1>2, <1>3
<1> QED BY <1>4 DEF Iota, h

(* One step of a causal convolution, as each of the three programs does it. *)
LEMMA ConvSteps ==
  ASSUME NEW pad \in Nat, NEW m \in Nat, NEW c \in Nat
  PROVE  LET r == [y |-> Iota(m, c), st |-> Hist(pad, m + c)]
         IN  /\ RefConvStep(pad, Hist(pad, m), Iota(m, c)) = r
             /\ GateConvStep(pad, Hist(pad, m), Iota(m, c)) = r
             /\ ExportConvStep(pad, Hist(pad, m), Iota(m, c)) = r
<1>1. Hist(pad, m) \o Iota(m, c) = Hist(pad + c, m + c)
  BY HistGrows
<1>2. Conv(Hist(pad + c, m + c), pad) = Iota(m, c)
  BY ConvIs
<1>3. CASE pad = 0
  <2>1. Hist(0, m) = <<>> /\ Hist(0, m + c) = <<>>
    BY DEF Hist
  <2>2. <<>> \o Iota(m, c) = Iota(m, c)
    <3>1. Iota(m, c) \in Seq(Int)
      BY DEF Iota
    <3> QED BY <3>1
  <2>3. Conv(Iota(m, c), 0) = Iota(m, c)
    BY <1>1, <1>2, <1>3, <2>1, <2>2
  <2>4. RefConvStep(0, <<>>, Iota(m, c)) = [y |-> Iota(m, c), st |-> <<>>]
    BY <2>3 DEF RefConvStep
  <2>5. GateConvStep(0, <<>>, Iota(m, c)) = [y |-> Iota(m, c), st |-> <<>>]
    BY <2>2, <2>3 DEF GateConvStep
  <2>6. ExportConvStep(0, <<>>, Iota(m, c)) = [y |-> Iota(m, c), st |-> <<>>]
    BY <2>3 DEF ExportConvStep
  <2> QED BY <1>3, <2>1, <2>4, <2>5, <2>6, Zenon
<1>4. CASE pad > 0
  <2>1. LastN(Hist(pad + c, m + c), pad) = Hist(pad, m + c)
    BY <1>4, HistEnds
  <2> QED BY <1>1, <1>2, <1>4, <2>1 DEF RefConvStep, GateConvStep, ExportConvStep
<1> QED BY <1>3, <1>4

-----------------------------------------------------------------------------
(* Attention                                                                 *)

(* The keys of the samples from a to m. *)
KeysFrom(a, m) == [i \in 1..m - a |-> [v |-> a + i - 1, pos |-> a + i - 1]]

(* The keys of a chunk. *)
LEMMA KeysOfChunk ==
  ASSUME NEW m \in Nat, NEW c \in Nat
  PROVE  Keys(Iota(m, c), m) = KeysFrom(m, m + c)
<1>1. Len(Iota(m, c)) = c /\ \A i \in 1..c : Iota(m, c)[i] = m + i - 1
  BY DEF Iota
<1>2. (m + c) - m = c
  OBVIOUS
<1> QED BY <1>1, <1>2 DEF Keys, KeysFrom

(* They go on behind the keys before them. *)
LEMMA KeysGrow ==
  ASSUME NEW m \in Nat, NEW c \in Nat, NEW a \in 0..m
  PROVE  KeysFrom(a, m) \o KeysFrom(m, m + c) = KeysFrom(a, m + c)
<1> DEFINE h == KeysFrom(a, m)
           x == KeysFrom(m, m + c)
           S == [v : Int, pos : Int]
<1>0. m - a \in Nat /\ (m + c) - m = c /\ (m + c) - a = (m - a) + c
  OBVIOUS
<1>1. h \in Seq(S) /\ Len(h) = m - a /\ \A j \in 1..m - a : h[j] = [v |-> a + j - 1, pos |-> a + j - 1]
  BY <1>0 DEF KeysFrom
<1>2. x \in Seq(S) /\ Len(x) = c /\ \A j \in 1..c : x[j] = [v |-> m + j - 1, pos |-> m + j - 1]
  BY <1>0 DEF KeysFrom
<1> HIDE DEF h, x, S
<1>3. h \o x = [i \in 1..Len(h) + Len(x) |-> IF i <= Len(h) THEN h[i] ELSE x[i - Len(h)]]
  BY <1>1, <1>2, CatIs
<1>4. ASSUME NEW i \in 1..(m - a) + c
      PROVE  (IF i <= Len(h) THEN h[i] ELSE x[i - Len(h)]) = [v |-> a + i - 1, pos |-> a + i - 1]
  <2>1. CASE i <= m - a
    <3>1. i \in 1..m - a
      BY <2>1, <1>0
    <3> QED BY <3>1, <2>1, <1>1
  <2>2. CASE ~(i <= m - a)
    <3>1. i - (m - a) \in 1..c /\ m + (i - (m - a)) - 1 = a + i - 1
      BY <2>2, <1>0
    <3> QED BY <3>1, <2>2, <1>1, <1>2
  <2> QED BY <2>1, <2>2
<1>5. h \o x = [i \in 1..(m - a) + c |-> [v |-> a + i - 1, pos |-> a + i - 1]]
  BY <1>1, <1>2, <1>3, <1>4
<1> QED BY <1>0, <1>5 DEF KeysFrom, h, x

(* The past of a layer holds every key a query from m on can see. *)
Reaches(a, m, W) == a = 0 \/ a <= m - W + 1

(* A query among keys that reach far enough back is the sample it is made from. *)
LEMMA AttnOutIs ==
  ASSUME NEW n \in Nat, NEW a \in 0..n, NEW q \in a..(n - 1), NEW W \in Nat \ {0}, Reaches(a, q, W)
  PROVE  AttnOut([v |-> q, pos |-> q], KeysFrom(a, n), W) = q
<1> DEFINE all == KeysFrom(a, n)
           K == {i \in DOMAIN all : all[i].pos > q - W /\ all[i].pos <= q}
           lo == Maximum(0, q - W + 1)
           from == lo - a + 1
           to == q - a + 1
<1>0. n - a \in Nat /\ q \in Nat /\ lo \in Nat /\ a <= lo /\ lo <= q /\ from \in Nat \ {0} /\ to \in Nat /\ from <= to /\ to <= n - a
  BY DEF Maximum, Reaches
<1>1. DOMAIN all = 1..n - a /\ \A i \in 1..n - a : all[i] = [v |-> a + i - 1, pos |-> a + i - 1]
  BY DEF KeysFrom
<1> HIDE DEF all
<1>2. \A i \in 1..n - a : all[i].pos = a + i - 1
  BY <1>1
<1>3. K = from..to
  <2>1. \A i \in 1..n - a : (a + i - 1 > q - W /\ a + i - 1 <= q) <=> (from <= i /\ i <= to)
    BY <1>0 DEF Maximum
  <2> HIDE DEF from, to
  <2>2. from \in Int /\ to \in Int /\ from >= 1 /\ to <= n - a /\ n - a \in Int
    BY <1>0
  <2>3. \A i : i \in from..to <=> i \in 1..n - a /\ from <= i /\ i <= to
    BY <2>2
  <2>4. \A i : i \in K <=> i \in 1..n - a /\ a + i - 1 > q - W /\ a + i - 1 <= q
    BY <1>1, <1>2
  <2> QED BY <2>1, <2>3, <2>4
<1>4. Picked(all, from..to) = [j \in 1..(to - from + 1) |-> all[from + j - 1]]
  <2>1. from \in Nat \ {0} /\ to \in Nat /\ from <= to + 1
    BY <1>0
  <2>2. \A x \in Nat \ {0}, y \in Nat : x <= y + 1 => Picked(all, x..y) = [j \in 1..(y - x + 1) |-> all[x + j - 1]]
    BY PickedInterval
  <2> HIDE DEF from, to
  <2>3. from \in Nat \ {0} /\ to \in Nat
    BY <2>1
  <2>4. from <= to + 1
    BY <2>1
  <2> QED BY ONLY <2>2, <2>3, <2>4
<1>5. to - from + 1 = q - lo + 1
  BY <1>0
<1>6. ASSUME NEW j \in 1..q - lo + 1 PROVE all[from + j - 1] = [v |-> lo + j - 1, pos |-> lo + j - 1]
  <2>1. from + j - 1 \in 1..n - a /\ a + (from + j - 1) - 1 = lo + j - 1
    <3> HIDE DEF lo
    <3> QED BY <1>0
  <2> HIDE DEF from, lo
  <2> QED BY <2>1, <1>1
<1> HIDE DEF from, to, lo, K
<1>7. Picked(all, K) = [j \in 1..q - lo + 1 |-> [v |-> lo + j - 1, pos |-> lo + j - 1]]
  BY <1>3, <1>4, <1>5, <1>6
<1>8. Keys(Iota(lo, q - lo + 1), lo) = [j \in 1..q - lo + 1 |-> [v |-> lo + j - 1, pos |-> lo + j - 1]]
  <2>0. q - lo + 1 \in Nat
    BY <1>0
  <2>1. Len(Iota(lo, q - lo + 1)) = q - lo + 1 /\ \A i \in 1..q - lo + 1 : Iota(lo, q - lo + 1)[i] = lo + i - 1
    BY <2>0 DEF Iota
  <2> QED BY <2>1 DEF Keys
<1>9. [v |-> q, pos |-> q].v = q /\ [v |-> q, pos |-> q].pos = q
  OBVIOUS
<1>10. AttnOut([v |-> q, pos |-> q], all, W) = IF q >= 0 /\ Picked(all, K) = Keys(Iota(lo, q - lo + 1), lo) THEN q ELSE Bad
  BY <1>9 DEF AttnOut, K, lo
<1> QED BY <1>0, <1>7, <1>8, <1>10 DEF all

(* So a chunk keeps its samples. *)
LEMMA AttendIs ==
  ASSUME NEW m \in Nat, NEW c \in Nat, NEW a \in 0..m, NEW W \in Nat \ {0}, Reaches(a, m, W)
  PROVE  Attend(KeysFrom(m, m + c), KeysFrom(a, m + c), W) = Iota(m, c)
<1> DEFINE new == KeysFrom(m, m + c)
<1>1. Len(new) = c /\ \A i \in 1..c : new[i] = [v |-> m + i - 1, pos |-> m + i - 1]
  <2>1. (m + c) - m = c
    OBVIOUS
  <2> QED BY <2>1 DEF KeysFrom
<1> HIDE DEF new
<1>2. ASSUME NEW i \in 1..c PROVE AttnOut(new[i], KeysFrom(a, m + c), W) = m + i - 1
  <2> DEFINE q == m + i - 1
  <2>1. q \in a..((m + c) - 1) /\ Reaches(a, q, W) /\ a \in 0..(m + c) /\ m + c \in Nat
    BY DEF Reaches
  <2>2. new[i] = [v |-> q, pos |-> q]
    BY <1>1
  <2> HIDE DEF q
  <2>3. AttnOut([v |-> q, pos |-> q], KeysFrom(a, m + c), W) = q
    BY <2>1, AttnOutIs
  <2> QED BY <2>2, <2>3 DEF q
<1> QED BY <1>1, <1>2 DEF Attend, Iota, new

(* The last n keys. *)
LEMMA KeysEnd ==
  ASSUME NEW n \in Nat \ {0}, NEW m \in Nat, NEW a \in 0..m
  PROVE  \E b \in a..m : LastN(KeysFrom(a, m), n) = KeysFrom(b, m) /\ (b = a \/ b = m - n)
<1> DEFINE s == KeysFrom(a, m)
           b == IF m - n > a THEN m - n ELSE a
<1>0. b \in a..m /\ (b = a \/ b = m - n) /\ m - a \in Nat /\ m - b \in Nat
  OBVIOUS
<1>1. Len(s) = m - a /\ \A i \in 1..m - a : s[i] = [v |-> a + i - 1, pos |-> a + i - 1]
  BY <1>0 DEF KeysFrom
<1> HIDE DEF s
<1>2. Maximum(1, (m - a) - n + 1) = b - a + 1
  BY DEF Maximum
<1>3. LastN(s, n) = SubSeq(s, b - a + 1, m - a)
  BY <1>1, <1>2 DEF LastN
<1>4. SubSeq(s, b - a + 1, m - a) = [i \in 1..((m - a) - (b - a + 1) + 1) |-> s[i + (b - a + 1) - 1]]
  OBVIOUS
<1> HIDE DEF b
<1>5. (m - a) - (b - a + 1) + 1 = m - b
  BY <1>0
<1>6. ASSUME NEW i \in 1..m - b PROVE s[i + (b - a + 1) - 1] = [v |-> b + i - 1, pos |-> b + i - 1]
  <2>1. i + (b - a + 1) - 1 \in 1..m - a /\ a + (i + (b - a + 1) - 1) - 1 = b + i - 1
    BY <1>0
  <2> QED BY <2>1, <1>1
<1>7. LastN(s, n) = KeysFrom(b, m)
  BY <1>3, <1>4, <1>5, <1>6 DEF KeysFrom
<1> QED BY <1>0, <1>7 DEF s

(* The past of a layer at sample m. *)
IsPast(past, m, W) == \E a \in 0..m : past = KeysFrom(a, m) /\ Reaches(a, m, W)

(* One step of an attention layer of the reference and of the gate. *)
LEMMA AttnSteps ==
  ASSUME NEW m \in Nat, NEW c \in Nat, NEW W \in Nat \ {0}, NEW past, IsPast(past, m, W)
  PROVE  /\ RefAttnStep(W, past, Iota(m, c), m).y = Iota(m, c)
         /\ IsPast(RefAttnStep(W, past, Iota(m, c), m).st, m + c, W)
         /\ GateAttnStep(W, past, Iota(m, c), m).y = Iota(m, c)
         /\ IsPast(GateAttnStep(W, past, Iota(m, c), m).st, m + c, W)
<1> DEFINE new == Keys(Iota(m, c), m)
           all == past \o new
<1>1. PICK a \in 0..m : past = KeysFrom(a, m) /\ Reaches(a, m, W)
  BY DEF IsPast
<1>2. new = KeysFrom(m, m + c) /\ all = KeysFrom(a, m + c)
  BY <1>1, KeysOfChunk, KeysGrow
<1>3. Attend(new, all, W) = Iota(m, c)
  <2>1. Attend(KeysFrom(m, m + c), KeysFrom(a, m + c), W) = Iota(m, c)
    BY <1>1, AttendIs
  <2> HIDE DEF new, all
  <2> QED BY <2>1, <1>2
<1>4. Maximum(0, W - 1) = W - 1
  BY DEF Maximum
<1>5. a \in 0..m + c /\ m + c \in Nat
  OBVIOUS
<1>6. RefAttnStep(W, past, Iota(m, c), m) = [y |-> Attend(new, all, W), st |-> IF W - 1 > 0 THEN LastN(all, W - 1) ELSE <<>>]
  BY <1>4 DEF RefAttnStep
<1>7. GateAttnStep(W, past, Iota(m, c), m) = [y |-> Attend(new, all, W), st |-> LastN(all, W - 1)]
  BY <1>4 DEF GateAttnStep
<1> HIDE DEF new, all
<1>8. CASE W = 1
  <2>1. W - 1 = 0 /\ LastN(all, 0) = all
    BY <1>8 DEF LastN
  <2>2. IsPast(all, m + c, W)
    BY <1>1, <1>2, <1>5 DEF IsPast, Reaches
  <2>3. IsPast(<<>>, m + c, W)
    <3>1. KeysFrom(m + c, m + c) = <<>>
      BY DEF KeysFrom
    <3>2. m + c \in 0..m + c /\ Reaches(m + c, m + c, W)
      BY <1>8 DEF Reaches
    <3> QED BY <3>1, <3>2 DEF IsPast
  <2> QED BY <1>3, <1>6, <1>7, <2>1, <2>2, <2>3
<1>9. CASE W # 1
  <2>1. W - 1 \in Nat \ {0} /\ W - 1 > 0
    BY <1>9
  <2>2. PICK b \in a..(m + c) : LastN(all, W - 1) = KeysFrom(b, m + c) /\ (b = a \/ b = (m + c) - (W - 1))
    <3> DEFINE n == W - 1
               e == m + c
    <3>1. n \in Nat \ {0} /\ e \in Nat /\ a \in 0..e
      BY <2>1
    <3> HIDE DEF n, e
    <3>2. \E b \in a..e : LastN(KeysFrom(a, e), n) = KeysFrom(b, e) /\ (b = a \/ b = e - n)
      BY <3>1, KeysEnd
    <3> QED BY <3>2, <1>2 DEF n, e
  <2>3. b \in 0..m + c /\ Reaches(b, m + c, W)
    BY <1>1, <2>2 DEF Reaches
  <2>4. IsPast(LastN(all, W - 1), m + c, W)
    BY <2>2, <2>3 DEF IsPast
  <2> QED BY <1>3, <1>6, <1>7, <2>1, <2>4
<1> QED BY <1>8, <1>9

(* Before the first chunk there is no past. *)
LEMMA NoPast ==
  ASSUME NEW W PROVE IsPast(<<>>, 0, W)
<1>1. KeysFrom(0, 0) = <<>>
  BY DEF KeysFrom
<1>2. Reaches(0, 0, W) /\ 0 \in 0..0
  BY DEF Reaches
<1> QED BY <1>1, <1>2 DEF IsPast

-----------------------------------------------------------------------------
(* The rows of the exported module: W - 1 of them, those before the start masked. *)
LEMMA ExportAttnStepIs ==
  ASSUME NEW m \in Nat, NEW c \in Nat, NEW W \in Nat, W >= 2
  PROVE  LET h == Hist(W - 1, m)  r == ExportAttnStep(W, h, h, Iota(m, c), m)
         IN  r.y = Iota(m, c) /\ r.k = Hist(W - 1, m + c) /\ r.v = Hist(W - 1, m + c)
<1> DEFINE h == Hist(W - 1, m)
           new == Keys(Iota(m, c), m)
           past == ExportPast(W, h, h, m)
           rows == past \o new
           K == {i \in DOMAIN rows : rows[i].pos >= 0}
           all == Picked(rows, K)
           a == Maximum(0, m - W + 1)
           S == [v : Int, pos : Int]
           from == Maximum(1, W - m)
           to == (W - 1) + c
<1>0. W - 1 \in Nat \ {0} /\ a \in 0..m /\ a \in 0..(m + c) /\ Reaches(a, m, W) /\ from \in Nat \ {0} /\ to \in Nat /\ from <= to + 1
      /\ to - from + 1 = (m + c) - a /\ m - W + from = a
  BY DEF Maximum, Reaches
<1>1. past \in Seq(S) /\ Len(past) = W - 1 /\ \A i \in 1..W - 1 : past[i] = [v |-> Padded(m - W + i), pos |-> m - W + i]
  <2>1. Len(h) = W - 1 /\ \A i \in 1..W - 1 : h[i] = Padded(m - (W - 1) + i - 1)
    BY <1>0 DEF Hist
  <2>2. \A i \in Int : m - (W - 1) + i - 1 = m - W + i
    OBVIOUS
  <2>3. past = [i \in 1..W - 1 |-> [v |-> Padded(m - W + i), pos |-> m - W + i]]
    BY <2>1, <2>2 DEF ExportPast
  <2>4. \A i \in 1..W - 1 : Padded(m - W + i) \in Int /\ m - W + i \in Int
    BY DEF Padded, Pad
  <2> HIDE DEF past
  <2> QED BY <2>3, <2>4, <1>0
<1>2. new = KeysFrom(m, m + c) /\ new \in Seq(S) /\ Len(new) = c /\ \A i \in 1..c : new[i] = [v |-> m + i - 1, pos |-> m + i - 1]
  <2>1. new = KeysFrom(m, m + c) /\ (m + c) - m = c
    BY KeysOfChunk
  <2> QED BY <2>1 DEF KeysFrom
<1> HIDE DEF past, new, S
<1>3. rows = [i \in 1..Len(past) + Len(new) |-> IF i <= Len(past) THEN past[i] ELSE new[i - Len(past)]]
  <2>1. past \in Seq(S) /\ new \in Seq(S)
    BY <1>1, <1>2
  <2> QED BY <2>1, CatIs
<1>a. rows = [i \in 1..to |-> IF i <= W - 1 THEN past[i] ELSE new[i - (W - 1)]]
  <2>1. Len(past) = W - 1 /\ Len(new) = c
    BY <1>1, <1>2
  <2> HIDE DEF rows
  <2> QED BY <1>3, <2>1
<1> HIDE DEF rows
<1>4. DOMAIN rows = 1..to
  BY <1>a
<1>5. ASSUME NEW i \in 1..to PROVE rows[i].pos = m - W + i /\ (m - W + i >= 0 => rows[i] = [v |-> m - W + i, pos |-> m - W + i])
  <2>1. CASE i <= W - 1
    <3>1. i \in 1..W - 1 /\ rows[i] = past[i]
      BY <2>1, <1>0, <1>a
    <3>2. rows[i] = [v |-> Padded(m - W + i), pos |-> m - W + i]
      BY <3>1, <1>1
    <3> QED BY <3>2 DEF Padded
  <2>2. CASE ~(i <= W - 1)
    <3>1. i - (W - 1) \in 1..c /\ m + (i - (W - 1)) - 1 = m - W + i
      BY <2>2, <1>0
    <3>2. rows[i] = new[i - (W - 1)]
      BY <2>2, <1>a
    <3> QED BY <3>1, <3>2, <1>2
  <2> QED BY <2>1, <2>2
<1>6. K = from..to
  <2>1. \A i \in 1..to : m - W + i >= 0 <=> from <= i
    BY DEF Maximum
  <2>2. from \in Int /\ to \in Int /\ from >= 1
    BY <1>0
  <2> HIDE DEF from, to
  <2>3. \A i : i \in from..to <=> i \in 1..to /\ from <= i
    BY <2>2
  <2>4. \A i : i \in K <=> i \in 1..to /\ m - W + i >= 0
    BY <1>4, <1>5
  <2> QED BY <2>1, <2>3, <2>4
<1>7. all = KeysFrom(a, m + c)
  <2>1. Picked(rows, from..to) = [j \in 1..(to - from + 1) |-> rows[from + j - 1]]
    <3>1. from \in Nat \ {0} /\ to \in Nat /\ from <= to + 1
      BY <1>0
    <3> HIDE DEF from, to
    <3> QED BY <3>1, PickedInterval
  <2>2. ASSUME NEW j \in 1..(m + c) - a PROVE rows[from + j - 1] = [v |-> a + j - 1, pos |-> a + j - 1]
    <3> HIDE DEF a, from
    <3>1. from + j - 1 \in 1..to /\ m - W + (from + j - 1) = a + j - 1 /\ a + j - 1 >= 0
      BY <1>0
    <3> HIDE DEF to
    <3> QED BY <3>1, <1>5
  <2> HIDE DEF from, to, a, K
  <2> QED BY <1>0, <1>6, <2>1, <2>2 DEF KeysFrom
<1> HIDE DEF all, a, from, to, K
<1>8. Attend(new, all, W) = Iota(m, c)
  BY <1>0, <1>2, <1>7, AttendIs
<1>9. LastN(h \o Iota(m, c), W - 1) = Hist(W - 1, m + c)
  <2> DEFINE n == W - 1
  <2>2. n \in Nat \ {0} /\ n \in Nat /\ m + c \in Nat
    BY <1>0
  <2> HIDE DEF n
  <2>1. Hist(n, m) \o Iota(m, c) = Hist(n + c, m + c)
    BY <2>2, HistGrows
  <2>3. LastN(Hist(n + c, m + c), n) = Hist(n, m + c)
    BY <2>2, HistEnds
  <2> QED BY <2>1, <2>3 DEF n
<1>10. ExportAttnStep(W, h, h, Iota(m, c), m) =
        [y |-> Attend(new, all, W), k |-> LastN(h \o Iota(m, c), W - 1), v |-> LastN(h \o Iota(m, c), W - 1)]
  BY DEF ExportAttnStep, new, all, K, rows, past
<1> HIDE DEF h
<1> QED BY <1>8, <1>9, <1>10 DEF h

-----------------------------------------------------------------------------
(* Sums of a transposed convolution                                          *)

(* The positions of K up to m, and those of the c behind it.                        *)
Lower(K, m) == {i \in K : i <= m}
(* ... counted from the start of the second part. *)
Upper(K, m, c) == {i \in 1..c : m + i \in K}

(* The positions K of 1..m + c, and those of its two parts: ranks go on behind     *)
(* the first part.                                                               *)
LEMMA RankSplit ==
  ASSUME NEW m \in Nat, NEW c \in Nat, NEW N \in Nat, N = m + c, NEW K \in SUBSET (1..N)
  PROVE  /\ Lower(K, m) \in SUBSET (1..m) /\ Upper(K, m, c) \in SUBSET (1..c)
         /\ Cardinality(Lower(K, m)) \in Nat /\ Cardinality(Upper(K, m, c)) \in Nat
         /\ Cardinality(K) = Cardinality(Lower(K, m)) + Cardinality(Upper(K, m, c))
         /\ \A i \in Lower(K, m) : Rank(K, i) = Rank(Lower(K, m), i)
         /\ \A j \in Upper(K, m, c) : Rank(K, m + j) = Cardinality(Lower(K, m)) + Rank(Upper(K, m, c), j)
<1> DEFINE K1 == Lower(K, m)
           K2 == Upper(K, m, c)
<1>0. \A i \in K : i \in Nat /\ 1 <= i
  OBVIOUS
<1>1. K1 \in SUBSET (1..m) /\ K2 \in SUBSET (1..c)
  <2>1. \A i \in K1 : i \in K /\ i <= m
    BY DEF Lower
  <2>2. \A i \in K1 : i \in 1..m
    <3> SUFFICES ASSUME NEW i \in K1 PROVE i \in 1..m
        OBVIOUS
    <3>1. i \in Nat /\ 1 <= i
      BY <1>0, <2>1
    <3>2. i <= m
      BY <2>1
    <3> QED BY <3>1, <3>2
  <2>3. \A i \in K2 : i \in 1..c
    BY DEF Upper
  <2> QED BY <2>2, <2>3
<1> HIDE DEF K1, K2
<1>a. ASSUME NEW h \in Nat
      PROVE  /\ Rank(K, h + 1) = IF h + 1 \in K THEN Rank(K, h) + 1 ELSE Rank(K, h)
             /\ Rank(K2, h + 1) = IF h + 1 \in K2 THEN Rank(K2, h) + 1 ELSE Rank(K2, h)
             /\ Rank(K2, h) \in Nat
  <2>1. Rank(K, h + 1) = IF h + 1 \in K THEN Rank(K, h) + 1 ELSE Rank(K, h)
    BY RankStep
  <2>2. Rank(K2, h + 1) = (IF h + 1 \in K2 THEN Rank(K2, h) + 1 ELSE Rank(K2, h)) /\ Rank(K2, h) \in Nat
    BY <1>1, RankStep
  <2> QED BY <2>1, <2>2
<1>3. /\ Cardinality(K1) \in Nat /\ Cardinality(K2) \in Nat /\ Rank(K1, m) = Cardinality(K1)
      /\ Rank(K2, 0) = 0 /\ Rank(K2, c) = Cardinality(K2) /\ Rank(K, N) = Cardinality(K)
  BY <1>1, RankFacts
<1>4. ASSUME NEW i \in Nat, i <= m PROVE Rank(K, i) = Rank(K1, i)
  <2>1. {j \in K : j <= i} = {j \in K1 : j <= i}
    <3>1. \A j \in K : j <= i => j <= m
      BY <1>0, <1>4
    <3> QED BY <3>1 DEF K1, Lower
  <2> QED BY <2>1 DEF Rank
<1> DEFINE T == {j \in Nat : j <= c => Rank(K, m + j) = Cardinality(K1) + Rank(K2, j)}
<1>5. 0 \in T
  <2>1. Rank(K, m) = Rank(K1, m) /\ m + 0 = m
    BY <1>4
  <2> QED BY <2>1, <1>3
<1>6. ASSUME NEW j \in Nat, j \in T PROVE j + 1 \in T
  <2> SUFFICES ASSUME j + 1 <= c PROVE Rank(K, m + (j + 1)) = Cardinality(K1) + Rank(K2, j + 1)
    OBVIOUS
  <2>1. m + j \in Nat /\ m + (j + 1) = (m + j) + 1 /\ j + 1 \in 1..c
    OBVIOUS
  <2>2. Rank(K, (m + j) + 1) = IF (m + j) + 1 \in K THEN Rank(K, m + j) + 1 ELSE Rank(K, m + j)
    <3> DEFINE x == m + j
    <3>1. x \in Nat
      OBVIOUS
    <3> HIDE DEF x
    <3>2. Rank(K, x + 1) = IF x + 1 \in K THEN Rank(K, x) + 1 ELSE Rank(K, x)
      BY <3>1, <1>a
    <3> QED BY <3>2 DEF x
  <2>3. Rank(K2, j + 1) = (IF j + 1 \in K2 THEN Rank(K2, j) + 1 ELSE Rank(K2, j)) /\ Rank(K2, j) \in Nat
    BY <1>a
  <2>4. j + 1 \in K2 <=> m + (j + 1) \in K
    BY <2>1 DEF K2, Upper
  <2>5. Rank(K, m + j) = Cardinality(K1) + Rank(K2, j)
    BY <1>6
  <2>6. CASE j + 1 \in K2
    <3>1. Rank(K, m + (j + 1)) = Rank(K, m + j) + 1 /\ Rank(K2, j + 1) = Rank(K2, j) + 1
      BY <2>1, <2>2, <2>3, <2>4, <2>6
    <3> QED BY <3>1, <2>3, <2>5, <1>3
  <2>7. CASE j + 1 \notin K2
    <3>1. Rank(K, m + (j + 1)) = Rank(K, m + j) /\ Rank(K2, j + 1) = Rank(K2, j)
      BY <2>1, <2>2, <2>3, <2>4, <2>7
    <3> QED BY <3>1, <2>3, <2>5, <1>3
  <2> QED BY <2>6, <2>7
<1> HIDE DEF T
<1>7. Nat \subseteq T
  BY <1>5, <1>6, AllNat
<1>8. \A j \in Nat : j <= c => Rank(K, m + j) = Cardinality(K1) + Rank(K2, j)
  BY <1>7 DEF T
<1>9. \A i \in K1 : Rank(K, i) = Rank(K1, i)
  BY <1>1, <1>4
<1>10. \A j \in K2 : Rank(K, m + j) = Cardinality(K1) + Rank(K2, j)
  BY <1>1, <1>8
<1>11. Cardinality(K) = Cardinality(K1) + Cardinality(K2)
  BY <1>3, <1>8
<1> QED BY <1>1, <1>3, <1>9, <1>10, <1>11 DEF K1, K2

(* A list of elements of S, its two parts, and positions of it.                     *)
Parts(u, v, w, K, m, c, S) ==
  /\ m \in Nat /\ c \in Nat /\ K \in SUBSET (1..m + c)
  /\ u \in [1..m + c -> S] /\ v \in [1..m -> S] /\ w \in [1..c -> S]
  /\ \A i \in 1..m : v[i] = u[i]
  /\ \A i \in 1..c : w[i] = u[m + i]

(* So what is picked of a list is what is picked of its parts.                     *)
LEMMA PickedSplit ==
  ASSUME NEW m, NEW c, NEW K, NEW S, NEW u, NEW v, NEW w, Parts(u, v, w, K, m, c, S)
  PROVE  Picked(u, K) = Picked(v, Lower(K, m)) \o Picked(w, Upper(K, m, c))
<1> DEFINE K1 == Lower(K, m)
           K2 == Upper(K, m, c)
           A == Cardinality(K1)
           B == Cardinality(K2)
           s == Picked(v, K1)
           t == Picked(w, K2)
           N == m + c
<1>0. /\ m \in Nat /\ c \in Nat /\ N \in Nat /\ K \in SUBSET (1..N)
      /\ u \in [1..N -> S] /\ v \in [1..m -> S] /\ w \in [1..c -> S]
      /\ \A i \in 1..m : v[i] = u[i]
      /\ \A i \in 1..c : w[i] = u[m + i]
  BY DEF Parts
<1>1. /\ K1 \in SUBSET (1..m) /\ K2 \in SUBSET (1..c) /\ A \in Nat /\ B \in Nat /\ Cardinality(K) = A + B
      /\ \A i \in K1 : Rank(K, i) = Rank(K1, i)
      /\ \A j \in K2 : Rank(K, m + j) = A + Rank(K2, j)
  <2>1. N = m + c
    OBVIOUS
  <2> HIDE DEF N
  <2> QED BY <1>0, <2>1, RankSplit
<1>2. \A i \in K1 : i \in K
  BY DEF Lower
<1>3. \A j \in K2 : m + j \in K
  BY DEF Upper
<1> HIDE DEF K1, K2, A, B, N
<1>5. ASSUME NEW n \in 1..A PROVE Nth(K1, n) \in 1..m /\ Nth(K, n) = Nth(K1, n)
  <2>1. Nth(K1, n) \in K1 /\ Rank(K1, Nth(K1, n)) = n
    <3>1. m \in Nat /\ K1 \in SUBSET (1..m) /\ n \in 1..Cardinality(K1)
      BY <1>0, <1>1 DEF A
    <3> QED BY <3>1, NthIs
  <2> DEFINE x == Nth(K1, n)
  <2>2. x \in K /\ Rank(K, x) = n
    BY <2>1, <1>1, <1>2
  <2> HIDE DEF x
  <2>3. Nth(K, Rank(K, x)) = x
    BY <2>2, <1>0, NthOfRank
  <2> QED BY <1>1, <2>1, <2>2, <2>3 DEF x
<1>6. ASSUME NEW n \in 1..B PROVE Nth(K2, n) \in 1..c /\ Nth(K, A + n) = m + Nth(K2, n)
  <2>1. Nth(K2, n) \in K2 /\ Rank(K2, Nth(K2, n)) = n
    <3>1. c \in Nat /\ K2 \in SUBSET (1..c) /\ n \in 1..Cardinality(K2)
      BY <1>0, <1>1 DEF B
    <3> QED BY <3>1, NthIs
  <2> DEFINE x == Nth(K2, n)
  <2>2. m + x \in K /\ Rank(K, m + x) = A + n
    BY <2>1, <1>1, <1>3
  <2> HIDE DEF x
  <2>3. Nth(K, Rank(K, m + x)) = m + x
    BY <2>2, <1>0, NthOfRank
  <2> QED BY <1>1, <2>1, <2>2, <2>3 DEF x
<1>7. s = [n \in 1..A |-> v[Nth(K1, n)]] /\ s \in Seq(S) /\ Len(s) = A
  <2>1. s = [n \in 1..A |-> v[Nth(K1, n)]]
    BY DEF Picked, A
  <2>2. \A n \in 1..A : v[Nth(K1, n)] \in S
    BY <1>0, <1>5
  <2> HIDE DEF s
  <2> QED BY <2>1, <2>2, <1>1
<1>8. t = [n \in 1..B |-> w[Nth(K2, n)]] /\ t \in Seq(S) /\ Len(t) = B
  <2>1. t = [n \in 1..B |-> w[Nth(K2, n)]]
    BY DEF Picked, B
  <2>2. \A n \in 1..B : w[Nth(K2, n)] \in S
    BY <1>0, <1>6
  <2> HIDE DEF t
  <2> QED BY <2>1, <2>2, <1>1
<1> HIDE DEF s, t
<1>9. s \o t = [n \in 1..Len(s) + Len(t) |-> IF n <= Len(s) THEN s[n] ELSE t[n - Len(s)]]
  <2>1. s \in Seq(S) /\ t \in Seq(S)
    BY <1>7, <1>8
  <2> QED BY <2>1, CatIs
<1>10. ASSUME NEW n \in 1..A + B PROVE u[Nth(K, n)] = IF n <= A THEN s[n] ELSE t[n - A]
  <2>1. CASE n <= A
    <3>1. n \in 1..A
      BY <2>1, <1>1
    <3>2. Nth(K, n) = Nth(K1, n) /\ Nth(K1, n) \in 1..m /\ s[n] = v[Nth(K1, n)]
      BY <3>1, <1>5, <1>7
    <3> QED BY <2>1, <3>2, <1>0
  <2>2. CASE ~(n <= A)
    <3>1. n - A \in 1..B /\ A + (n - A) = n
      BY <2>2, <1>1
    <3>2. Nth(K, A + (n - A)) = m + Nth(K2, n - A) /\ Nth(K2, n - A) \in 1..c /\ t[n - A] = w[Nth(K2, n - A)]
      BY <3>1, <1>6, <1>8
    <3> QED BY <2>2, <3>1, <3>2, <1>0
  <2> QED BY <2>1, <2>2
<1>11. Picked(u, K) = [n \in 1..A + B |-> u[Nth(K, n)]]
  BY <1>1 DEF Picked
<1>12. Picked(u, K) = s \o t
  <2>1. Len(s) = A /\ Len(t) = B
    BY <1>7, <1>8
  <2>2. s \o t = [n \in 1..A + B |-> IF n <= A THEN s[n] ELSE t[n - A]]
    BY <1>9, <2>1
  <2>3. [n \in 1..A + B |-> u[Nth(K, n)]] = [n \in 1..A + B |-> IF n <= A THEN s[n] ELSE t[n - A]]
    BY <1>10
  <2> QED BY <1>11, <2>2, <2>3
<1> QED BY <1>12 DEF s, t, K1, K2

-----------------------------------------------------------------------------
(* Products grow with their factors.                                              *)
LEMMA Products ==
  /\ \A a, b \in Nat : a * b \in Nat
  /\ \A a, b, s \in Int : (a + b) * s = a * s + b * s /\ (a - b) * s = a * s - b * s
  /\ \A a, b \in Nat, s \in Nat : a <= b => a * s <= b * s
<1>1. \A a, b \in Nat : a * b \in Nat
  OBVIOUS
<1>2. \A a, b, s \in Int : (a + b) * s = a * s + b * s /\ (a - b) * s = a * s - b * s
  OBVIOUS
<1>3. ASSUME NEW a \in Nat, NEW b \in Nat, NEW s \in Nat, a <= b PROVE a * s <= b * s
  <2>1. (b - a) * s \in Nat
    <3>1. b - a \in Nat
      BY <1>3
    <3> QED BY <3>1, <1>1
  <2>2. (b - a) * s = b * s - a * s
    BY <1>2
  <2>3. a * s \in Int /\ b * s \in Int
    OBVIOUS
  <2> QED BY <2>1, <2>2, <2>3
<1> QED BY <1>1, <1>2, <1>3

(* The terms of inputs m + 1 to m + c in raw sample p.                              *)
NewTerms(l, p, m, c) ==
  Picked([i \in 1..c |-> <<m + i - 1, Tap(l, p, m + i)>>], Upper(Reached(l, p, m + c), m, c))

(* They follow those of the inputs before.                                         *)
LEMMA TermsGrow ==
  ASSUME NEW l, IsTconv(l), NEW p \in Int, NEW m \in Nat, NEW c \in Nat
  PROVE  OfflineTerms(l, p, m + c) = OfflineTerms(l, p, m) \o NewTerms(l, p, m, c)
<1> DEFINE u == [i \in 1..m + c |-> <<i - 1, Tap(l, p, i)>>]
           v == [i \in 1..m |-> <<i - 1, Tap(l, p, i)>>]
           w == [i \in 1..c |-> <<m + i - 1, Tap(l, p, m + i)>>]
           K == Reached(l, p, m + c)
           S == Int \X Int
<1>1. \A i \in Int : Tap(l, p, i) \in Int
  BY DEF Tap, IsTconv
<1>2. u \in [1..m + c -> S] /\ v \in [1..m -> S] /\ w \in [1..c -> S]
  BY <1>1
<1>3. (\A i \in 1..m : v[i] = u[i]) /\ \A i \in 1..c : w[i] = u[m + i]
  OBVIOUS
<1>4. K \in SUBSET (1..m + c)
  BY DEF Reached
<1>5. Lower(K, m) = Reached(l, p, m)
  <2>1. \A i : i \in 1..m <=> i \in 1..m + c /\ i <= m
    OBVIOUS
  <2> QED BY <2>1 DEF Reached, Lower
<1> HIDE DEF u, v, w, K, S
<1>6. Picked(u, K) = Picked(v, Lower(K, m)) \o Picked(w, Upper(K, m, c))
  <2>1. Parts(u, v, w, K, m, c, S)
    BY <1>2, <1>3, <1>4 DEF Parts
  <2> QED BY <2>1, PickedSplit
<1> QED BY <1>5, <1>6 DEF OfflineTerms, NewTerms, u, v, w, K

(* The inputs reach no sample before their first and none behind their last.        *)
LEMMA NoNewTerms ==
  ASSUME NEW l, IsTconv(l), NEW p \in Int, NEW m \in Nat, NEW c \in Nat,
         p < m * l.s \/ p >= m * l.s + RawLen(l, c)
  PROVE  NewTerms(l, p, m, c) = <<>>
<1>1. ASSUME NEW i \in 1..c PROVE m + i \notin Reached(l, p, m + c)
  <2> DEFINE s == l.s
             f == m + i - 1
  <2>1. s \in Nat \ {0} /\ l.k \in Nat /\ f \in Nat /\ m <= f /\ f <= m + (c - 1) /\ c - 1 \in Nat /\ c # 0
    BY DEF IsTconv
  <2>2. m * s <= f * s /\ f * s <= (m + (c - 1)) * s /\ (m + (c - 1)) * s = m * s + (c - 1) * s
    <3> HIDE DEF s, f
    <3>1. m + (c - 1) \in Nat
      OBVIOUS
    <3> QED BY <2>1, <3>1, Products
  <2>3. RawLen(l, c) = (c - 1) * s + l.k
    BY <2>1 DEF RawLen
  <2>4. Tap(l, p, m + i) = p - f * s
    BY DEF Tap
  <2>5. m * s \in Int /\ f * s \in Int /\ (c - 1) * s \in Int
    BY <2>1
  <2>6. ~(0 <= p - f * s /\ p - f * s < l.k)
    <3> HIDE DEF f
    <3>1. p < m * s \/ p >= m * s + ((c - 1) * s + l.k)
      BY <2>3
    <3> HIDE DEF s
    <3> QED BY <2>1, <2>2, <2>5, <3>1
  <2> HIDE DEF s, f
  <2> QED BY <2>4, <2>6 DEF Reached
<1>2. Upper(Reached(l, p, m + c), m, c) = {}
  BY <1>1 DEF Upper
<1>3. Cardinality({}) = 0
  BY FS_EmptySet
<1>4. \A s : Picked(s, {}) = <<>>
  BY <1>3 DEF Picked
<1> QED BY <1>2, <1>4 DEF NewTerms

(* The raw samples of a chunk are sums of these terms.                              *)
LEMMA ChunkTerms ==
  ASSUME NEW l, IsTconv(l), NEW m \in Nat, NEW c \in Nat, NEW q \in 1..RawLen(l, c)
  PROVE  ConvTranspose(l, Iota(m, c))[q] = NewTerms(l, m * l.s + q - 1, m, c)
<1> DEFINE p == m * l.s + q - 1
<1>1. Len(Iota(m, c)) = c /\ \A i \in 1..c : Iota(m, c)[i] = m + i - 1
  BY DEF Iota
<1>0. q \in Int
  BY DEF RawLen, IsTconv
<1>2. ASSUME NEW i \in 1..c PROVE Tap(l, q - 1, i) = Tap(l, p, m + i)
  <2>1. (m + i - 1) * l.s = m * l.s + (i - 1) * l.s
    <3>1. m + i - 1 = m + (i - 1) /\ i - 1 \in Int /\ l.s \in Int /\ m \in Int
      BY DEF IsTconv
    <3> QED BY <3>1, Products
  <2>2. m * l.s \in Int /\ (i - 1) * l.s \in Int
    BY DEF IsTconv
  <2>3. q - 1 - (i - 1) * l.s = (m * l.s + q - 1) - (m * l.s + (i - 1) * l.s)
    BY <1>0, <2>2
  <2> QED BY <2>1, <2>3 DEF Tap
<1> HIDE DEF p
<1>3. Reached(l, q - 1, c) = Upper(Reached(l, p, m + c), m, c)
  <2>1. \A i \in 1..c : m + i \in 1..m + c
    OBVIOUS
  <2> QED BY <1>2, <2>1 DEF Reached, Upper
<1>4. [i \in 1..c |-> <<Iota(m, c)[i], Tap(l, q - 1, i)>>] = [i \in 1..c |-> <<m + i - 1, Tap(l, p, m + i)>>]
  BY <1>1, <1>2
<1>5. ConvTranspose(l, Iota(m, c))[q] = Picked([i \in 1..c |-> <<Iota(m, c)[i], Tap(l, q - 1, i)>>], Reached(l, q - 1, c))
  BY <1>1 DEF ConvTranspose
<1> QED BY <1>3, <1>4, <1>5 DEF NewTerms, p

(* The sums that make a sample: inputs with their taps, in the order they are added. *)
Terms == Seq(Int \X Int)

(* What is picked is a list of what there is. *)
LEMMA PickedType ==
  ASSUME NEW N \in Nat, NEW K \in SUBSET (1..N), NEW S, NEW u \in [1..N -> S]
  PROVE  Picked(u, K) \in Seq(S) /\ Len(Picked(u, K)) = Cardinality(K)
<1>1. Cardinality(K) \in Nat
  BY RankFacts
<1>2. ASSUME NEW x \in 1..Cardinality(K) PROVE u[Nth(K, x)] \in S
  <2>1. Nth(K, x) \in K
    BY NthIs
  <2> QED BY <2>1
<1>3. Picked(u, K) = [x \in 1..Cardinality(K) |-> u[Nth(K, x)]]
  BY DEF Picked
<1> QED BY <1>1, <1>2, <1>3

(* Sums are lists of terms; none without inputs. *)
LEMMA TermsType ==
  ASSUME NEW l, IsTconv(l), NEW p \in Int, NEW m \in Nat
  PROVE  /\ OfflineTerms(l, p, m) \in Terms /\ Len(OfflineTerms(l, p, m)) = Cardinality(Reached(l, p, m))
         /\ OfflineTerms(l, p, 0) = <<>>
<1> DEFINE u == [i \in 1..m |-> <<i - 1, Tap(l, p, i)>>]
           K == Reached(l, p, m)
           S == Int \X Int
<1>1. \A i \in Int : Tap(l, p, i) \in Int
  BY DEF Tap, IsTconv
<1>2. u \in [1..m -> S] /\ K \in SUBSET (1..m)
  BY <1>1 DEF Reached
<1> HIDE DEF u, K, S
<1>3. Picked(u, K) \in Seq(S) /\ Len(Picked(u, K)) = Cardinality(K)
  BY <1>2, PickedType
<1>4. OfflineTerms(l, p, m) \in Terms /\ Len(OfflineTerms(l, p, m)) = Cardinality(Reached(l, p, m))
  BY <1>3 DEF OfflineTerms, Terms, u, K, S
<1>5. Reached(l, p, 0) = {} /\ Cardinality({}) = 0
  BY FS_EmptySet DEF Reached
<1>6. OfflineTerms(l, p, 0) = <<>>
  <2>1. \A v : Picked(v, {}) = <<>>
    BY FS_EmptySet DEF Picked
  <2> QED BY <1>5, <2>1 DEF OfflineTerms
<1> QED BY <1>4, <1>6

(* No terms behind the last raw sample. *)
LEMMA NoTerms ==
  ASSUME NEW l, IsTconv(l), NEW p \in Int, NEW m \in Nat, p >= RawLen(l, m)
  PROVE  OfflineTerms(l, p, m) = <<>>
<1>1. NewTerms(l, p, 0, m) = <<>>
  <2>1. 0 * l.s = 0 /\ 0 + RawLen(l, m) = RawLen(l, m)
    BY DEF IsTconv, RawLen
  <2> QED BY <2>1, NoNewTerms
<1>2. OfflineTerms(l, p, 0 + m) = OfflineTerms(l, p, 0) \o NewTerms(l, p, 0, m)
  BY TermsGrow
<1>3. OfflineTerms(l, p, 0) = <<>> /\ 0 + m = m /\ <<>> \o <<>> = <<>>
  BY TermsType
<1> QED BY <1>1, <1>2, <1>3

(* Lengths: the raw signal of m inputs ends right samples behind theirs. *)
LEMMA RawLens ==
  ASSUME NEW l, IsTconv(l), NEW m \in Nat, NEW c \in Nat
  PROVE  /\ m * l.s \in Nat /\ c * l.s \in Nat /\ (m + c) * l.s = m * l.s + c * l.s /\ l.right \in Nat
         /\ RawLen(l, m) = IF m = 0 THEN 0 ELSE m * l.s + l.right
         /\ RawLen(l, c) = IF c = 0 THEN 0 ELSE c * l.s + l.right
         /\ RawLen(l, m + c) = Maximum(RawLen(l, m), m * l.s + RawLen(l, c))
<1> DEFINE s == l.s
<1>0. s \in Nat \ {0} /\ l.k \in Nat /\ l.k >= s /\ l.right = l.k - s
  BY DEF IsTconv
<1>1. m * s \in Nat /\ c * s \in Nat /\ (m + c) * s = m * s + c * s
  BY <1>0, Products
<1>2. ASSUME NEW n \in Nat PROVE RawLen(l, n) = IF n = 0 THEN 0 ELSE n * s + l.right
  <2>1. (n - 1) * s = n * s - 1 * s /\ 1 * s = s /\ n * s \in Int
    <3>1. n \in Int /\ 1 \in Int /\ s \in Int
      BY <1>0
    <3> HIDE DEF s
    <3> QED BY <3>1, Products
  <2>2. n * s - s + l.k = n * s + l.right
    <3> HIDE DEF s
    <3> QED BY <1>0, <2>1
  <2> QED BY <2>1, <2>2 DEF RawLen
<1>3. RawLen(l, m + c) = IF m + c = 0 THEN 0 ELSE m * s + c * s + l.right
  <2>1. m + c \in Nat
    OBVIOUS
  <2> QED BY <2>1, <1>1, <1>2
<1>4. l.right \in Nat
  BY <1>0
<1>5. RawLen(l, m) = (IF m = 0 THEN 0 ELSE m * s + l.right) /\ RawLen(l, c) = (IF c = 0 THEN 0 ELSE c * s + l.right)
  BY <1>2
<1>6. m = 0 => m * s = 0
  BY <1>0
<1>7. c = 0 => c * s = 0
  BY <1>0
<1> HIDE DEF s
<1>8. RawLen(l, m + c) = Maximum(RawLen(l, m), m * s + RawLen(l, c))
  <2>1. CASE c = 0
    <3>1. m + c = m /\ RawLen(l, c) = 0
      BY <2>1, <1>5
    <3> QED BY <2>1, <3>1, <1>1, <1>3, <1>4, <1>5, <1>6, <1>7 DEF Maximum
  <2>2. CASE c # 0
    <3>1. m + c # 0 /\ RawLen(l, c) = c * s + l.right /\ RawLen(l, m + c) = m * s + c * s + l.right
      BY <2>2, <1>3, <1>5
    <3> QED BY <3>1, <1>1, <1>4, <1>5 DEF Maximum
  <2> QED BY <2>1, <2>2
<1> QED BY <1>1, <1>4, <1>5, <1>8 DEF s

-----------------------------------------------------------------------------
(* The accumulator of m inputs. *)
AccOf(l, m) == [p \in 1..RawLen(l, m) |-> OfflineTerms(l, p - 1, m)]

(* The raw signal of a chunk, sample by sample. *)
LEMMA RawOfChunk ==
  ASSUME NEW l, IsTconv(l), NEW m \in Nat, NEW c \in Nat
  PROVE  /\ Len(ConvTranspose(l, Iota(m, c))) = RawLen(l, c)
         /\ \A p \in Int : (IF p > m * l.s /\ p <= m * l.s + RawLen(l, c) THEN ConvTranspose(l, Iota(m, c))[p - m * l.s] ELSE <<>>)
                             = NewTerms(l, p - 1, m, c)
<1> DEFINE raw == ConvTranspose(l, Iota(m, c))
           b == m * l.s
           e == RawLen(l, c)
<1>0. b \in Nat /\ e \in Nat
  <2>1. c * l.s \in Nat /\ l.right \in Nat /\ m * l.s \in Nat /\ RawLen(l, c) = IF c = 0 THEN 0 ELSE c * l.s + l.right
    BY RawLens
  <2> QED BY <2>1
<1>1. Len(raw) = e
  <2>1. Len(Iota(m, c)) = c
    BY DEF Iota
  <2> QED BY <1>0, <2>1 DEF ConvTranspose
<1>2. ASSUME NEW p \in Int, p > b, p <= b + e PROVE raw[p - b] = NewTerms(l, p - 1, m, c)
  <2> DEFINE q == p - b
  <2>1. q \in 1..e /\ b + q - 1 = p - 1
    <3> HIDE DEF b, e
    <3> QED BY <1>0, <1>2
  <2> HIDE DEF q
  <2>2. ConvTranspose(l, Iota(m, c))[q] = NewTerms(l, m * l.s + q - 1, m, c)
    BY <2>1, ChunkTerms
  <2> QED BY <2>1, <2>2 DEF q
<1>3. ASSUME NEW p \in Int, ~(p > b /\ p <= b + e) PROVE NewTerms(l, p - 1, m, c) = <<>>
  <2>1. p - 1 \in Int /\ (p - 1 < b \/ p - 1 >= b + e)
    <3> HIDE DEF b, e
    <3> QED BY <1>0, <1>3
  <2> QED BY <2>1, NoNewTerms
<1> HIDE DEF b, e, raw
<1>4. \A p \in Int : (IF p > b /\ p <= b + e THEN raw[p - b] ELSE <<>>) = NewTerms(l, p - 1, m, c)
  BY <1>2, <1>3
<1> QED BY <1>1, <1>4 DEF b, e, raw

(* A chunk added at its place gives the accumulator of all inputs so far. *)
LEMMA AccGrows ==
  ASSUME NEW l, IsTconv(l), NEW m \in Nat, NEW c \in Nat
  PROVE  OverlapAdd(AccOf(l, m), ConvTranspose(l, Iota(m, c)), m * l.s) = AccOf(l, m + c)
<1> DEFINE acc == AccOf(l, m)
           raw == ConvTranspose(l, Iota(m, c))
           b == m * l.s
<1>1. Len(acc) = RawLen(l, m) /\ Len(raw) = RawLen(l, c) /\ RawLen(l, m) \in Nat /\ RawLen(l, c) \in Nat /\ b \in Nat
  <2>1. /\ c * l.s \in Nat /\ l.right \in Nat /\ m * l.s \in Nat /\ RawLen(l, c) = IF c = 0 THEN 0 ELSE c * l.s + l.right
        /\ RawLen(l, m) = IF m = 0 THEN 0 ELSE m * l.s + l.right
    BY RawLens
  <2>2. RawLen(l, m) \in Nat /\ RawLen(l, c) \in Nat
    BY <2>1
  <2>3. Len(acc) = RawLen(l, m)
    BY <2>2 DEF AccOf
  <2>4. Len(raw) = RawLen(l, c)
    BY RawOfChunk
  <2> QED BY <2>1, <2>2, <2>3, <2>4
<1>2. RawLen(l, m + c) = Maximum(Len(acc), b + Len(raw)) /\ RawLen(l, m + c) \in Nat
  <2>1. RawLen(l, m + c) = Maximum(RawLen(l, m), m * l.s + RawLen(l, c))
    BY RawLens
  <2>2. Maximum(RawLen(l, m), m * l.s + RawLen(l, c)) \in Nat
    BY <1>1 DEF Maximum
  <2> HIDE DEF acc, raw
  <2> QED BY <1>1, <2>1, <2>2
<1>3. ASSUME NEW p \in 1..RawLen(l, m + c)
      PROVE  (IF p <= Len(acc) THEN acc[p] ELSE <<>>) \o (IF p > b /\ p <= b + Len(raw) THEN raw[p - b] ELSE <<>>)
               = OfflineTerms(l, p - 1, m + c)
  <2>0. p \in Int /\ p - 1 \in Int /\ 1 <= p
    BY <1>2
  <2>1. (IF p <= Len(acc) THEN acc[p] ELSE <<>>) = OfflineTerms(l, p - 1, m)
    <3>1. CASE p <= Len(acc)
      <4>1. p \in 1..RawLen(l, m)
        BY <2>0, <3>1, <1>1
      <4> QED BY <3>1, <4>1 DEF AccOf
    <3>2. CASE ~(p <= Len(acc))
      <4>1. p - 1 >= RawLen(l, m)
        BY <3>2, <2>0, <1>1
      <4>2. OfflineTerms(l, p - 1, m) = <<>>
        BY <4>1, <2>0, NoTerms
      <4> QED BY <3>2, <4>2
    <3> QED BY <3>1, <3>2
  <2>2. (IF p > b /\ p <= b + Len(raw) THEN raw[p - b] ELSE <<>>) = NewTerms(l, p - 1, m, c)
    BY <1>1, <2>0, RawOfChunk
  <2>3. OfflineTerms(l, p - 1, m + c) = OfflineTerms(l, p - 1, m) \o NewTerms(l, p - 1, m, c)
    BY <2>0, TermsGrow
  <2> HIDE DEF acc, raw, b
  <2> QED BY <2>1, <2>2, <2>3
<1>4. OverlapAdd(acc, raw, b) =
        [p \in 1..RawLen(l, m + c) |->
          (IF p <= Len(acc) THEN acc[p] ELSE <<>>) \o (IF p > b /\ p <= b + Len(raw) THEN raw[p - b] ELSE <<>>)]
  <2> HIDE DEF acc, raw, b
  <2> QED BY <1>2 DEF OverlapAdd
<1> HIDE DEF acc, raw, b
<1>5. OverlapAdd(acc, raw, b) = [p \in 1..RawLen(l, m + c) |-> OfflineTerms(l, p - 1, m + c)]
  BY <1>3, <1>4
<1> QED BY <1>5 DEF AccOf, acc, raw, b

(* A raw sample before the place of the next input is finished, and has its name. *)
LEMMA OutIs ==
  ASSUME NEW l, IsTconv(l), NEW m \in Nat, NEW c \in Nat, NEW p \in Nat, p < m * l.s, p >= l.left
  PROVE  TconvOut(l, OfflineTerms(l, p, m), m + c) = p - l.left
<1> DEFINE terms == OfflineTerms(l, p, m)
           K == Reached(l, p, m)
           s == l.s
<1>0. s \in Nat \ {0} /\ l.k \in Nat /\ l.k >= s /\ l.left \in Nat
  BY DEF IsTconv
<1>1. OfflineTerms(l, p, m + c) = terms
  <2>1. OfflineTerms(l, p, m + c) = terms \o NewTerms(l, p, m, c)
    BY TermsGrow
  <2>2. NewTerms(l, p, m, c) = <<>>
    <3>1. p \in Int /\ (p < m * l.s \/ p >= m * l.s + RawLen(l, c))
      OBVIOUS
    <3> QED BY <3>1, NoNewTerms
  <2>3. terms \in Terms
    BY TermsType
  <2> HIDE DEF terms
  <2> QED BY <2>1, <2>2, <2>3 DEF Terms
<1>2. K \in SUBSET (1..m)
  BY DEF Reached
<1>3. K # {}
  <2> DEFINE d == p \div s
             r == p % s
  <2>1. d \in Nat /\ r \in 0..s - 1 /\ p = s * d + r
    BY <1>0
  <2> HIDE DEF d, r
  <2>2. d + 1 \in 1..m
    <3> SUFFICES ASSUME d >= m PROVE FALSE
      BY <2>1
    <3>1. m * s <= d * s
      BY <2>1, <1>0, Products
    <3>2. d * s = s * d /\ s * d \in Int /\ m * s \in Int
      BY <2>1, <1>0
    <3> HIDE DEF s
    <3>3. p < m * s
      BY DEF s
    <3> QED BY <2>1, <3>1, <3>2, <3>3
  <2>3. Tap(l, p, d + 1) = r
    <3>1. (d + 1) - 1 = d /\ d * s = s * d /\ s * d \in Int
      BY <2>1, <1>0
    <3>2. p - d * s = r
      <4> HIDE DEF s
      <4> QED BY <2>1, <3>1
    <3> QED BY <3>1, <3>2 DEF Tap
  <2>4. 0 <= r /\ r < l.k
    <3> HIDE DEF s
    <3> QED BY <2>1, <1>0
  <2>5. d + 1 \in K
    BY <2>2, <2>3, <2>4 DEF Reached
  <2> QED BY <2>5
<1>4. Cardinality(K) \in Nat /\ Cardinality(K) # 0
  <2>1. IsFiniteSet(K) /\ Cardinality(K) \in Nat
    BY <1>2, RankFacts
  <2> QED BY <1>3, <2>1, FS_EmptySet
<1>5. PICK i \in 1..m : terms[1] = <<i - 1, Tap(l, p, i)>>
  <2>1. 1 \in 1..Cardinality(K)
    BY <1>4
  <2>2. Nth(K, 1) \in K
    BY <1>2, <2>1, NthIs
  <2> DEFINE x == Nth(K, 1)
             u == [i \in 1..m |-> <<i - 1, Tap(l, p, i)>>]
  <2>3. terms[1] = u[x]
    BY <2>1 DEF OfflineTerms, Picked
  <2>4. x \in 1..m
    BY <2>2, <1>2
  <2> HIDE DEF x
  <2> QED BY <2>3, <2>4
<1>6. terms # <<>>
  <2>1. Len(terms) # 0
    BY <1>4, TermsType
  <2> QED BY <2>1
<1> HIDE DEF terms
<1>7. terms[1][1] = i - 1 /\ terms[1][2] = Tap(l, p, i) /\ terms[1][1] >= 0
  BY <1>5
<1>8. terms[1][1] * l.s + terms[1][2] = p
  <2>1. (i - 1) * s \in Int
    BY <1>0
  <2>2. (i - 1) * s + (p - (i - 1) * s) = p
    BY <2>1
  <2> QED BY <1>7, <2>2 DEF Tap
<1> QED BY <1>1, <1>6, <1>7, <1>8 DEF TconvOut, terms

-----------------------------------------------------------------------------
(* Emitting and collecting                                                   *)

(* How many samples m inputs settle. *)
EmittedBy(l, m) == Maximum(0, m * l.s - l.left)

(* It grows with the inputs. *)
LEMMA EmittedGrows ==
  ASSUME NEW l, IsTconv(l), NEW m \in Nat, NEW c \in Nat
  PROVE  /\ EmittedBy(l, m) \in Nat /\ EmittedBy(l, m + c) \in Nat /\ EmittedBy(l, m) <= EmittedBy(l, m + c)
         /\ EmittedBy(l, 0) = 0
         /\ Maximum(0, RawLen(l, m) - l.right - l.left) = EmittedBy(l, m)
         /\ Maximum(0, RawLen(l, m) - l.left - l.right) = EmittedBy(l, m)
<1>1. /\ m * l.s \in Nat /\ c * l.s \in Nat /\ (m + c) * l.s = m * l.s + c * l.s /\ l.right \in Nat
      /\ RawLen(l, m) = IF m = 0 THEN 0 ELSE m * l.s + l.right
  BY RawLens
<1>2. l.left \in Nat /\ 0 * l.s = 0
  BY DEF IsTconv
<1>3. m = 0 => m * l.s = 0
  BY <1>2
<1> DEFINE b == m * l.s
           d == c * l.s
           L == l.left
           R == l.right
<1>4. b \in Nat /\ d \in Nat /\ L \in Nat /\ R \in Nat /\ (m = 0 => b = 0)
  BY <1>1, <1>2, <1>3
<1>5. EmittedBy(l, m) = Maximum(0, b - L) /\ EmittedBy(l, m + c) = Maximum(0, (b + d) - L)
  BY <1>1 DEF EmittedBy
<1>6. RawLen(l, m) = IF m = 0 THEN 0 ELSE b + R
  BY <1>1
<1>7. EmittedBy(l, 0) = 0
  BY <1>2 DEF EmittedBy, Maximum
<1>8. Maximum(0, RawLen(l, m) - R - L) = Maximum(0, b - L) /\ Maximum(0, RawLen(l, m) - L - R) = Maximum(0, b - L)
  <2> HIDE DEF b, L, R
  <2>1. CASE m = 0
    BY <2>1, <1>4, <1>6 DEF Maximum
  <2>2. CASE m # 0
    BY <2>2, <1>4, <1>6 DEF Maximum
  <2> QED BY <2>1, <2>2
<1>9. Maximum(0, b - L) \in Nat /\ Maximum(0, (b + d) - L) \in Nat /\ Maximum(0, b - L) <= Maximum(0, (b + d) - L)
  <2> HIDE DEF b, d, L
  <2> QED BY <1>4 DEF Maximum
<1> QED BY <1>5, <1>7, <1>8, <1>9

(* A cut of the accumulator up to what is settled has the names of the samples. *)
LEMMA EmittedCut ==
  ASSUME NEW l, IsTconv(l), NEW m \in Nat, NEW n \in Nat, m <= n, NEW e \in Nat, e <= EmittedBy(l, m), NEW h \in Int,
         IF EmittedBy(l, m) > 0 THEN h = l.left + EmittedBy(l, m) ELSE h <= l.left
  PROVE  Emitted(l, SubSeq(AccOf(l, m), l.left + e + 1, h), n) = Iota(e, EmittedBy(l, m) - e)
<1> DEFINE acc == AccOf(l, m)
           E == EmittedBy(l, m)
           b == m * l.s
           L == l.left
           t == SubSeq(acc, L + e + 1, h)
<1>0. b \in Nat /\ L \in Nat /\ E = Maximum(0, b - L) /\ E \in Nat /\ RawLen(l, m) \in Nat /\ b <= RawLen(l, m)
  <2>1. m * l.s \in Nat /\ l.right \in Nat /\ RawLen(l, m) = IF m = 0 THEN 0 ELSE m * l.s + l.right
    BY RawLens
  <2>2. l.left \in Nat
    BY DEF IsTconv
  <2>3. m = 0 => m * l.s = 0
    BY DEF IsTconv
  <2>4. RawLen(l, m) \in Nat /\ b <= RawLen(l, m)
    BY <2>1, <2>3
  <2>5. E = Maximum(0, b - L)
    BY DEF EmittedBy
  <2>6. E \in Nat
    <3> HIDE DEF b, L, E
    <3>1. b \in Nat /\ L \in Nat
      BY <2>1, <2>2 DEF b, L
    <3> QED BY <2>5, <3>1 DEF Maximum
  <2> QED BY <2>1, <2>2, <2>4, <2>5, <2>6
<1>1. t = [i \in 1..(h - (L + e + 1) + 1) |-> acc[i + (L + e + 1) - 1]]
  <2> DEFINE a == L + e + 1
  <2>0. a \in Int
    BY <1>0
  <2> HIDE DEF a, acc
  <2>1. SubSeq(acc, a, h) = [i \in 1..(h - a + 1) |-> acc[i + a - 1]]
    BY <2>0
  <2> QED BY <2>1 DEF a
<1>2. IF E > 0 THEN h = L + E ELSE h <= L
  OBVIOUS
<1>3. e \in Nat /\ e <= E
  OBVIOUS
<1> HIDE DEF E, b, L
<1>4. 1..(h - (L + e + 1) + 1) = 1..(E - e)
  <2>1. CASE E > 0
    BY <2>1, <1>0, <1>2, <1>3
  <2>2. CASE ~(E > 0)
    <3>1. E = 0 /\ e = 0 /\ h <= L
      BY <2>2, <1>0, <1>2, <1>3
    <3> QED BY <3>1, <1>0
  <2> QED BY <2>1, <2>2
<1>5. E - e \in Nat
  BY <1>0, <1>3
<1>6. t = [i \in 1..(E - e) |-> acc[i + (L + e + 1) - 1]]
  BY <1>1, <1>4
<1>7. ASSUME NEW i \in 1..(E - e) PROVE TconvOut(l, acc[i + (L + e + 1) - 1], n) = e + i - 1
  <2> DEFINE p == L + e + i - 1
  <2>1. p \in Nat /\ p < b /\ p >= L /\ p + 1 = i + (L + e + 1) - 1 /\ p - L = e + i - 1
    BY <1>0, <1>3 DEF Maximum
  <2> HIDE DEF p
  <2>2. p + 1 \in 1..RawLen(l, m) /\ (p + 1) - 1 = p
    BY <2>1, <1>0
  <2>3. acc[p + 1] = OfflineTerms(l, p, m)
    BY <2>2 DEF AccOf
  <2>4. n - m \in Nat /\ m + (n - m) = n
    OBVIOUS
  <2>5. p < m * l.s /\ p >= l.left
    BY <2>1 DEF b, L
  <2>6. TconvOut(l, OfflineTerms(l, p, m), m + (n - m)) = p - l.left
    BY <2>1, <2>4, <2>5, OutIs
  <2>7. TconvOut(l, OfflineTerms(l, p, m), n) = p - L
    BY <2>4, <2>6 DEF L
  <2> QED BY <2>1, <2>3, <2>7
<1>8. Len(t) = E - e
  <2> HIDE DEF t
  <2> QED BY <1>5, <1>6
<1> HIDE DEF t, acc
<1>9. Emitted(l, t, n) = [i \in 1..(E - e) |-> TconvOut(l, t[i], n)]
  BY <1>8 DEF Emitted
<1>10. Emitted(l, t, n) = [i \in 1..(E - e) |-> e + i - 1]
  BY <1>6, <1>7, <1>9
<1> QED BY <1>10 DEF Iota, t, acc, E, L

(* The state of a transposed convolution behind m inputs. *)
EmitState(l, m) == [raw |-> AccOf(l, m), emitted |-> EmittedBy(l, m), offset |-> m]
(* ... and of one that only collects, until the last chunk: nothing has left it. *)
CollectState(l, m) == [raw |-> AccOf(l, m), emitted |-> 0, offset |-> m]

(* One step of a transposed convolution that emits: whether the chunk is called the *)
(* last one makes no difference. *)
LEMMA EmitSteps ==
  ASSUME NEW l, IsTconv(l), NEW m \in Nat, NEW c \in Nat, NEW n \in Nat, m + c <= n, NEW final
  PROVE  LET r == [y |-> Iota(EmittedBy(l, m), EmittedBy(l, m + c) - EmittedBy(l, m)), st |-> EmitState(l, m + c)]
         IN  /\ RefEmitStep(l, EmitState(l, m), Iota(m, c), final, n) = r
             /\ GateEmitStep(l, EmitState(l, m), Iota(m, c), final, n) = r
<1> DEFINE x == Iota(m, c)
           z == EmitState(l, m)
           acc == AccOf(l, m + c)
           e == EmittedBy(l, m)
           E == EmittedBy(l, m + c)
           h == Minimum(l.left + E, Len(acc))
<1>1. z.raw = AccOf(l, m) /\ z.emitted = e /\ z.offset = m /\ Len(x) = c
  BY DEF EmitState, Iota
<1>2. OverlapAdd(z.raw, ConvTranspose(l, x), z.offset * l.s) = acc
  BY <1>1, AccGrows
<1>3. e \in Nat /\ E \in Nat /\ e <= E
  BY EmittedGrows
<1>4. Len(acc) = RawLen(l, m + c) /\ RawLen(l, m + c) \in Nat /\ l.left \in Nat /\ (m + c) * l.s <= RawLen(l, m + c) /\ (m + c) * l.s \in Nat
  <2> DEFINE j == m + c
  <2>0. j \in Nat
    OBVIOUS
  <2> HIDE DEF j
  <2>1. j * l.s \in Nat /\ l.right \in Nat /\ RawLen(l, j) = IF j = 0 THEN 0 ELSE j * l.s + l.right
    BY <2>0, RawLens
  <2>2. j = 0 => j * l.s = 0
    BY DEF IsTconv
  <2>3. RawLen(l, j) \in Nat /\ j * l.s <= RawLen(l, j)
    BY <2>1, <2>2
  <2>4. Len(AccOf(l, j)) = RawLen(l, j)
    BY <2>3 DEF AccOf
  <2> QED BY <2>1, <2>3, <2>4 DEF j, IsTconv
<1>5. (IF final THEN Maximum(0, Len(acc) - l.right - l.left) ELSE Maximum(0, (m + c) * l.s - l.left)) = E
  <2>1. m + c \in Nat
    OBVIOUS
  <2>2. Maximum(0, RawLen(l, m + c) - l.right - l.left) = E
    BY <2>1, EmittedGrows
  <2>3. Maximum(0, (m + c) * l.s - l.left) = E
    BY DEF EmittedBy
  <2> QED BY <1>4, <2>2, <2>3
<1>6. Maximum(e, E) = E
  BY <1>3 DEF Maximum
<1>7. Emitted(l, Slice(acc, l.left + e, l.left + E), n) = Iota(e, E - e)
  <2>1. h \in Int /\ IF E > 0 THEN h = l.left + E ELSE h <= l.left
    <3>1. E = Maximum(0, (m + c) * l.s - l.left)
      BY DEF EmittedBy
    <3> DEFINE b == (m + c) * l.s
               L == l.left
               N == Len(acc)
    <3>2. b \in Nat /\ L \in Nat /\ N \in Nat /\ b <= N /\ E = Maximum(0, b - L) /\ E \in Nat
      BY <1>3, <1>4, <3>1
    <3>3. h = Minimum(L + E, N)
      OBVIOUS
    <3> HIDE DEF b, L, N, E, h
    <3>4. h \in Int /\ IF E > 0 THEN h = L + E ELSE h <= L
      BY <3>2, <3>3 DEF Maximum, Minimum
    <3> QED BY <3>4 DEF L
  <2>2. m + c \in Nat /\ m + c <= n
    OBVIOUS
  <2>3. Slice(acc, l.left + e, l.left + E) = SubSeq(acc, l.left + e + 1, h)
    BY DEF Slice
  <2>4. e \in Nat /\ e <= EmittedBy(l, m + c)
    BY <1>3
  <2>5. h \in Int /\ IF EmittedBy(l, m + c) > 0 THEN h = l.left + EmittedBy(l, m + c) ELSE h <= l.left
    BY <2>1
  <2> HIDE DEF h, e
  <2>6. Emitted(l, SubSeq(AccOf(l, m + c), l.left + e + 1, h), n) = Iota(e, EmittedBy(l, m + c) - e)
    BY <2>2, <2>4, <2>5, EmittedCut
  <2> QED BY <2>3, <2>6
<1> HIDE DEF x, z, acc, e, E
<1>8. RefEmitStep(l, z, x, final, n) = [y |-> Iota(e, E - e), st |-> [raw |-> acc, emitted |-> E, offset |-> m + c]]
  BY <1>1, <1>2, <1>5, <1>6, <1>7 DEF RefEmitStep
<1>9. GateEmitStep(l, z, x, final, n) = [y |-> Iota(e, E - e), st |-> [raw |-> acc, emitted |-> E, offset |-> m + c]]
  BY <1>1, <1>2, <1>5, <1>6, <1>7 DEF GateEmitStep
<1> QED BY <1>8, <1>9 DEF EmitState, x, z, acc, e, E

(* One step of a transposed convolution that collects. *)
LEMMA CollectStep ==
  ASSUME NEW l, IsTconv(l), NEW m \in Nat, NEW c \in Nat
  PROVE  RefCollectStep(l, CollectState(l, m), Iota(m, c)) = CollectState(l, m + c)
<1>1. CollectState(l, m).raw = AccOf(l, m) /\ CollectState(l, m).offset = m /\ Len(Iota(m, c)) = c
  BY DEF CollectState, Iota
<1>2. OverlapAdd(AccOf(l, m), ConvTranspose(l, Iota(m, c)), m * l.s) = AccOf(l, m + c)
  BY AccGrows
<1>3. RefCollectStep(l, CollectState(l, m), Iota(m, c)) = [raw |-> AccOf(l, m + c), emitted |-> 0, offset |-> m + c]
  BY <1>1, <1>2 DEF RefCollectStep
<1> QED BY <1>3 DEF CollectState

(* Its trimmed signal. *)
LEMMA CollectTrim ==
  ASSUME NEW l, IsTconv(l), NEW n \in Nat
  PROVE  RefCollectTrim(l, CollectState(l, n), n) = Iota(0, EmittedBy(l, n))
<1> DEFINE acc == AccOf(l, n)
           E == EmittedBy(l, n)
           h == Minimum(Len(acc) - l.right, Len(acc))
<1>1. /\ n * l.s \in Nat /\ l.right \in Nat /\ RawLen(l, n) = IF n = 0 THEN 0 ELSE n * l.s + l.right
  BY RawLens
<1>2. n = 0 => n * l.s = 0
  BY DEF IsTconv
<1>3. RawLen(l, n) \in Nat /\ l.left \in Nat
  BY <1>1 DEF IsTconv
<1>4. Len(acc) = RawLen(l, n)
  BY <1>3 DEF AccOf
<1>5. h \in Int /\ IF E > 0 THEN h = l.left + E ELSE h <= l.left
  <2> DEFINE b == n * l.s
             L == l.left
             R == l.right
             N == Len(acc)
  <2>1. E = Maximum(0, b - L) /\ h = Minimum(N - R, N)
    BY DEF EmittedBy
  <2>2. b \in Nat /\ R \in Nat /\ L \in Nat /\ N = (IF n = 0 THEN 0 ELSE b + R) /\ (n = 0 => b = 0)
    BY <1>1, <1>2, <1>3, <1>4
  <2> HIDE DEF b, L, R, N, E, h
  <2>3. h \in Int /\ IF E > 0 THEN h = L + E ELSE h <= L
    BY <2>1, <2>2 DEF Maximum, Minimum
  <2> QED BY <2>3 DEF L
<1>6. Slice(acc, l.left, Len(acc) - l.right) = SubSeq(acc, l.left + 0 + 1, h)
  <2>1. l.left + 0 + 1 = l.left + 1
    BY <1>3
  <2> QED BY <2>1 DEF Slice
<1>7. 0 <= EmittedBy(l, n) /\ 0 \in Nat /\ n <= n /\ EmittedBy(l, n) - 0 = EmittedBy(l, n)
  BY EmittedGrows
<1>8. h \in Int /\ IF EmittedBy(l, n) > 0 THEN h = l.left + EmittedBy(l, n) ELSE h <= l.left
  BY <1>5
<1> HIDE DEF h
<1>9. Emitted(l, SubSeq(AccOf(l, n), l.left + 0 + 1, h), n) = Iota(0, EmittedBy(l, n) - 0)
  BY <1>7, <1>8, EmittedCut
<1>10. CollectState(l, n).raw = acc
  BY DEF CollectState
<1> QED BY <1>6, <1>7, <1>9, <1>10 DEF RefCollectTrim

(* Before the first input. *)
LEMMA NoInputs ==
  ASSUME NEW l, IsTconv(l)
  PROVE  EmitInit = EmitState(l, 0) /\ EmitInit = CollectState(l, 0)
<1>1. AccOf(l, 0) = <<>>
  <2>1. RawLen(l, 0) = 0
    BY DEF RawLen
  <2> QED BY <2>1 DEF AccOf
<1>2. EmittedBy(l, 0) = 0
  BY EmittedGrows
<1> QED BY <1>1, <1>2 DEF EmitInit, EmitState, CollectState

-----------------------------------------------------------------------------
(* The pending tail of the exported step                                     *)

(* The pending sums behind m inputs: those the inputs to come still add to. *)
PendingOf(l, m) == [q \in 1..l.right |-> OfflineTerms(l, m * l.s + q - 1, m)]

(* The sums from the place of input m on, with the c inputs behind it. *)
SumsFrom(l, m, c) == [q \in 1..(c * l.s + l.right) |-> OfflineTerms(l, m * l.s + q - 1, m + c)]

(* Facts about the places. *)
LEMMA Places ==
  ASSUME NEW l, IsTconv(l), NEW m \in Nat, NEW c \in Nat
  PROVE  /\ m * l.s \in Nat /\ c * l.s \in Nat /\ (m + c) * l.s = m * l.s + c * l.s /\ l.right \in Nat
         /\ RawLen(l, m) \in Nat /\ RawLen(l, m) <= m * l.s + l.right
         /\ RawLen(l, c) \in Nat /\ RawLen(l, c) <= c * l.s + l.right
         /\ Maximum(l.right, RawLen(l, c)) = c * l.s + l.right
<1>1. /\ m * l.s \in Nat /\ c * l.s \in Nat /\ (m + c) * l.s = m * l.s + c * l.s /\ l.right \in Nat
      /\ RawLen(l, m) = IF m = 0 THEN 0 ELSE m * l.s + l.right
      /\ RawLen(l, c) = IF c = 0 THEN 0 ELSE c * l.s + l.right
  BY RawLens
<1>2. c = 0 => c * l.s = 0
  BY DEF IsTconv
<1> DEFINE b == m * l.s
           d == c * l.s
           R == l.right
           M == RawLen(l, m)
           C == RawLen(l, c)
<1>3. b \in Nat /\ d \in Nat /\ R \in Nat /\ M = (IF m = 0 THEN 0 ELSE b + R) /\ C = (IF c = 0 THEN 0 ELSE d + R) /\ (c = 0 => d = 0)
  BY <1>1, <1>2
<1>4. M \in Nat /\ M <= b + R /\ C \in Nat /\ C <= d + R /\ Maximum(R, C) = d + R
  <2> HIDE DEF b, d, R, M, C
  <2>1. CASE c = 0
    BY <2>1, <1>3 DEF Maximum
  <2>2. CASE c # 0
    BY <2>2, <1>3 DEF Maximum
  <2> QED BY <2>1, <2>2
<1> QED BY <1>1, <1>4

(* The samples of a chunk follow the sums of the inputs before it. *)
AddedAt(l, m, c, q, raw) ==
  /\ OfflineTerms(l, m * l.s + q - 1, m + c)
       = (IF q <= l.right THEN PendingOf(l, m)[q] ELSE <<>>) \o (IF q > 0 /\ q <= 0 + Len(raw) THEN raw[q - 0] ELSE <<>>)
  /\ OfflineTerms(l, m * l.s + q - 1, m + c) \in Terms
  /\ Len(raw) = RawLen(l, c)
  /\ q > l.right => OfflineTerms(l, m * l.s + q - 1, m) = <<>>
  /\ q <= Len(raw) => raw[q] = NewTerms(l, m * l.s + q - 1, m, c)
  /\ OfflineTerms(l, m * l.s + q - 1, m + c) = OfflineTerms(l, m * l.s + q - 1, m) \o NewTerms(l, m * l.s + q - 1, m, c)

(* The taps of a chunk are added behind those that were pending: no tap is lost and none added twice. *)
LEMMA ChunkAdds ==
  ASSUME NEW l, IsTconv(l), NEW m \in Nat, NEW c \in Nat, NEW q \in Nat \ {0}
  PROVE  AddedAt(l, m, c, q, ConvTranspose(l, Iota(m, c)))
<1> DEFINE raw == ConvTranspose(l, Iota(m, c))
           b == m * l.s
           R == l.right
           p == b + q
<1>1. b \in Nat /\ R \in Nat /\ RawLen(l, m) \in Nat /\ RawLen(l, m) <= b + R /\ RawLen(l, c) \in Nat
  BY Places
<1>2. p \in Int /\ p - 1 \in Int /\ p - b = q /\ b + q - 1 = p - 1
  BY <1>1
<1>3. Len(raw) = RawLen(l, c)
  BY RawOfChunk
<1>4. ASSUME q > R PROVE OfflineTerms(l, b + q - 1, m) = <<>>
  <2>1. p - 1 >= RawLen(l, m)
    <3> HIDE DEF b, R
    <3> QED BY <1>1, <1>4
  <2> QED BY <2>1, <1>2, NoTerms
<1>5. (IF q <= R THEN PendingOf(l, m)[q] ELSE <<>>) = OfflineTerms(l, b + q - 1, m)
  <2>1. CASE q <= R
    <3>1. q \in 1..l.right
      BY <2>1, <1>1
    <3> QED BY <2>1, <3>1 DEF PendingOf
  <2>2. CASE ~(q <= R)
    <3>1. q > R
      <4> HIDE DEF R
      <4> QED BY <2>2, <1>1
    <3> QED BY <2>2, <3>1, <1>4
  <2> QED BY <2>1, <2>2
<1>6. (IF p > b /\ p <= b + RawLen(l, c) THEN raw[p - b] ELSE <<>>) = NewTerms(l, p - 1, m, c)
  <2> HIDE DEF p
  <2> QED BY <1>2, RawOfChunk
<1>7. (p > b /\ p <= b + RawLen(l, c)) <=> (q > 0 /\ q <= 0 + Len(raw))
  <2> DEFINE C == RawLen(l, c)
             T == Len(raw)
  <2>1. C \in Nat /\ T = C /\ b \in Nat /\ p = b + q
    BY <1>1, <1>3
  <2> HIDE DEF b, T, C, p
  <2>2. (p > b /\ p <= b + C) <=> (q > 0 /\ q <= 0 + T)
    BY <2>1
  <2> QED BY <2>2 DEF T, C
<1>a. q > 0 /\ 0 + Len(raw) = Len(raw) /\ q - 0 = q
  <2> HIDE DEF raw
  <2> QED BY <1>1, <1>3
<1>8. (IF q > 0 /\ q <= 0 + Len(raw) THEN raw[q - 0] ELSE <<>>) = NewTerms(l, p - 1, m, c)
  BY <1>2, <1>6, <1>7, <1>a
<1>9. OfflineTerms(l, p - 1, m + c) = OfflineTerms(l, p - 1, m) \o NewTerms(l, p - 1, m, c)
  BY <1>2, TermsGrow
<1>10. OfflineTerms(l, p - 1, m + c) \in Terms
  <2>1. m + c \in Nat
    OBVIOUS
  <2> QED BY <1>2, <2>1, TermsType
<1>11. q <= Len(raw) => raw[q] = NewTerms(l, b + q - 1, m, c)
  BY <1>2, <1>8, <1>a
<1> HIDE DEF raw, p
<1>12. /\ OfflineTerms(l, b + q - 1, m + c)
            = (IF q <= R THEN PendingOf(l, m)[q] ELSE <<>>) \o (IF q > 0 /\ q <= 0 + Len(raw) THEN raw[q - 0] ELSE <<>>)
       /\ OfflineTerms(l, b + q - 1, m + c) \in Terms
       /\ OfflineTerms(l, b + q - 1, m + c) = OfflineTerms(l, b + q - 1, m) \o NewTerms(l, b + q - 1, m, c)
  BY <1>2, <1>5, <1>8, <1>9, <1>10
<1> QED BY <1>3, <1>4, <1>11, <1>12 DEF AddedAt, raw

(* So the pending tail and the chunk are the sums from the place of input m on. *)
LEMMA PendingGrows ==
  ASSUME NEW l, IsTconv(l), NEW m \in Nat, NEW c \in Nat
  PROVE  OverlapAdd(PendingOf(l, m), ConvTranspose(l, Iota(m, c)), 0) = SumsFrom(l, m, c)
<1> DEFINE pend == PendingOf(l, m)
           raw == ConvTranspose(l, Iota(m, c))
           N == c * l.s + l.right
<1>1. l.right \in Nat /\ RawLen(l, c) \in Nat /\ Maximum(l.right, RawLen(l, c)) = N
  BY Places
<1>2. Len(pend) = l.right
  BY <1>1 DEF PendingOf
<1>3. Len(raw) = RawLen(l, c)
  BY RawOfChunk
<1>4. Maximum(Len(pend), 0 + Len(raw)) = N
  <2> HIDE DEF pend, raw, N
  <2> QED BY <1>1, <1>2, <1>3
<1>5. ASSUME NEW q \in 1..N
      PROVE  (IF q <= Len(pend) THEN pend[q] ELSE <<>>) \o (IF q > 0 /\ q <= 0 + Len(raw) THEN raw[q - 0] ELSE <<>>)
               = OfflineTerms(l, m * l.s + q - 1, m + c)
  <2>1. q \in Nat \ {0}
    OBVIOUS
  <2>2. OfflineTerms(l, m * l.s + q - 1, m + c)
          = (IF q <= l.right THEN PendingOf(l, m)[q] ELSE <<>>) \o (IF q > 0 /\ q <= 0 + Len(raw) THEN raw[q - 0] ELSE <<>>)
    <3>1. AddedAt(l, m, c, q, raw)
      BY <2>1, ChunkAdds
    <3> HIDE DEF raw
    <3> QED BY <3>1 DEF AddedAt
  <2> HIDE DEF pend, raw
  <2> QED BY <1>2, <2>2 DEF pend
<1> HIDE DEF pend, raw, N
<1>6. OverlapAdd(pend, raw, 0) = [q \in 1..N |->
        (IF q <= Len(pend) THEN pend[q] ELSE <<>>) \o (IF q > 0 /\ q <= 0 + Len(raw) THEN raw[q - 0] ELSE <<>>)]
  BY <1>4 DEF OverlapAdd
<1>7. OverlapAdd(pend, raw, 0) = [q \in 1..N |-> OfflineTerms(l, m * l.s + q - 1, m + c)]
  BY <1>5, <1>6
<1> QED BY <1>7 DEF SumsFrom, pend, raw, N

(* The first c * s of them are settled: they have the names of their samples. *)
LEMMA SettledAre ==
  ASSUME NEW l, IsTconv(l), l.left = 0, NEW m \in Nat, NEW c \in Nat, NEW n \in Nat, m + c <= n
  PROVE  Emitted(l, [q \in 1..c * l.s |-> OfflineTerms(l, m * l.s + q - 1, m + c)], n) = Iota(m * l.s, c * l.s)
<1> DEFINE t == [q \in 1..c * l.s |-> OfflineTerms(l, m * l.s + q - 1, m + c)]
           b == m * l.s
           d == c * l.s
<1>1. b \in Nat /\ d \in Nat /\ (m + c) * l.s = b + d
  BY Places
<1>2. Len(t) = d
  <2> HIDE DEF d
  <2>1. t = [q \in 1..d |-> OfflineTerms(l, m * l.s + q - 1, m + c)]
    BY DEF d
  <2> HIDE DEF t
  <2> QED BY <1>1, <2>1
<1>3. ASSUME NEW q \in 1..d PROVE TconvOut(l, t[q], n) = b + q - 1
  <2> DEFINE p == b + q - 1
             j == m + c
  <2>1. p \in Nat /\ p < b + d
    <3> HIDE DEF b, d
    <3> QED BY <1>1, <1>3
  <2>2. t[q] = OfflineTerms(l, p, j)
    OBVIOUS
  <2>3. p < j * l.s /\ p >= l.left /\ p - l.left = p
    BY <2>1, <1>1
  <2>4. j \in Nat /\ n - j \in Nat /\ j + (n - j) = n
    OBVIOUS
  <2> DEFINE k == n - j
  <2> HIDE DEF p, t, j, b, k
  <2>a. IsTconv(l) /\ p \in Nat /\ j \in Nat /\ k \in Nat /\ p < j * l.s /\ p >= l.left
    BY <2>1, <2>3, <2>4 DEF k
  <2>b. TconvOut(l, OfflineTerms(l, p, j), j + k) = p - l.left
    BY ONLY <2>a, OutIs
  <2>5. TconvOut(l, OfflineTerms(l, p, j), j + (n - j)) = p - l.left
    BY <2>b DEF k
  <2>6. TconvOut(l, t[q], n) = p
    BY <2>2, <2>3, <2>4, <2>5
  <2> QED BY <2>6 DEF p
<1> HIDE DEF t, b, d
<1>4. Emitted(l, t, n) = [q \in 1..d |-> TconvOut(l, t[q], n)]
  BY <1>2 DEF Emitted
<1>5. Emitted(l, t, n) = [q \in 1..d |-> b + q - 1]
  BY <1>3, <1>4
<1> QED BY <1>5 DEF Iota, t, b, d

(* One step of a transposed convolution of the exported module. *)
LEMMA ExportTconvStepIs ==
  ASSUME NEW l, IsTconv(l), l.left = 0, NEW m \in Nat, NEW c \in Nat, NEW n \in Nat, m + c <= n
  PROVE  ExportTconvStep(l, PendingOf(l, m), Iota(m, c), n) = [y |-> Iota(m * l.s, c * l.s), st |-> PendingOf(l, m + c)]
<1> DEFINE raw == SumsFrom(l, m, c)
           d == c * l.s
           R == l.right
           b == m * l.s
<1>1. d \in Nat /\ R \in Nat /\ b \in Nat /\ (m + c) * l.s = b + d
  BY Places
<1>2. OverlapAdd(PendingOf(l, m), ConvTranspose(l, Iota(m, c)), 0) = raw /\ Len(Iota(m, c)) = c
  BY PendingGrows DEF Iota
<1>3. raw = [q \in 1..(d + R) |-> OfflineTerms(l, b + q - 1, m + c)]
  BY DEF SumsFrom
<1> HIDE DEF raw, d, R, b
<1>4. Len(raw) = d + R
  BY <1>1, <1>3
<1>5. Slice(raw, 0, d) = [q \in 1..d |-> OfflineTerms(l, b + q - 1, m + c)]
  <2>1. Minimum(d, d + R) = d /\ 0 + 1 = 1
    BY <1>1 DEF Minimum
  <2>2. Slice(raw, 0, d) = SubSeq(raw, 1, d)
    BY <1>4, <2>1 DEF Slice
  <2>3. SubSeq(raw, 1, d) = [q \in 1..(d - 1 + 1) |-> raw[q + 1 - 1]]
    BY <1>1
  <2>4. d - 1 + 1 = d /\ \A q \in 1..d : q + 1 - 1 = q /\ q \in 1..(d + R)
    BY <1>1
  <2>5. \A q \in 1..d : raw[q + 1 - 1] = OfflineTerms(l, b + q - 1, m + c)
    BY <2>4, <1>3
  <2> QED BY <2>2, <2>3, <2>4, <2>5
<1>6. Slice(raw, d, Len(raw)) = PendingOf(l, m + c)
  <2>1. Minimum(d + R, d + R) = d + R
    BY DEF Minimum
  <2>2. Slice(raw, d, Len(raw)) = SubSeq(raw, d + 1, d + R)
    BY <1>4, <2>1 DEF Slice
  <2>3. SubSeq(raw, d + 1, d + R) = [q \in 1..((d + R) - (d + 1) + 1) |-> raw[q + (d + 1) - 1]]
    BY <1>1
  <2>4. (d + R) - (d + 1) + 1 = R /\ \A q \in 1..R : q + (d + 1) - 1 = d + q /\ d + q \in 1..(d + R) /\ b + (d + q) - 1 = (b + d) + q - 1
    BY <1>1
  <2>5. ASSUME NEW q \in 1..R PROVE raw[q + (d + 1) - 1] = OfflineTerms(l, (b + d) + q - 1, m + c)
    BY <1>3, <2>4
  <2>6. Slice(raw, d, Len(raw)) = [q \in 1..R |-> OfflineTerms(l, (b + d) + q - 1, m + c)]
    BY <2>2, <2>3, <2>4, <2>5
  <2> QED BY <2>6, <1>1 DEF PendingOf, R
<1>7. Emitted(l, Slice(raw, 0, d), n) = Iota(b, d)
  BY <1>5, SettledAre DEF b, d
<1>8. ExportTconvStep(l, PendingOf(l, m), Iota(m, c), n) = [y |-> Emitted(l, Slice(raw, 0, d), n), st |-> Slice(raw, d, Len(raw))]
  BY <1>2 DEF ExportTconvStep, d
<1> QED BY <1>6, <1>7, <1>8 DEF b, d

(* Without overlap no state is needed. *)
LEMMA ExportNoState ==
  ASSUME NEW l, IsTconv(l), l.left = 0, l.right = 0, NEW m \in Nat, NEW c \in Nat, NEW n \in Nat, m + c <= n
  PROVE  ExportTconvNoState(l, Iota(m, c), n) = Iota(m * l.s, c * l.s)
<1> DEFINE raw == ConvTranspose(l, Iota(m, c))
           d == c * l.s
           b == m * l.s
<1>1. d \in Nat /\ b \in Nat /\ RawLen(l, c) \in Nat /\ RawLen(l, c) = d
  <2>1. d \in Nat /\ b \in Nat /\ RawLen(l, c) \in Nat /\ Maximum(0, RawLen(l, c)) = d + 0
    BY Places
  <2> HIDE DEF d, b
  <2> QED BY <2>1 DEF Maximum
<1>2. Len(raw) = d /\ Len(Iota(m, c)) = c
  <2>1. Len(Iota(m, c)) = c
    BY DEF Iota
  <2> QED BY <1>1, <2>1, RawOfChunk
<1>3. ASSUME NEW q \in 1..d PROVE raw[q] = OfflineTerms(l, b + q - 1, m + c)
  <2>0. q \in Nat \ {0} /\ q > 0 /\ q <= d
    BY <1>1
  <2>1. /\ OfflineTerms(l, b + q - 1, m) = <<>> /\ raw[q] = NewTerms(l, b + q - 1, m, c)
        /\ OfflineTerms(l, b + q - 1, m + c) = OfflineTerms(l, b + q - 1, m) \o NewTerms(l, b + q - 1, m, c)
        /\ OfflineTerms(l, b + q - 1, m + c) \in Terms
    <3>1. q > l.right
      BY <2>0
    <3>2. q <= Len(raw)
      BY <2>0, <1>2
    <3>3. AddedAt(l, m, c, q, raw)
      BY <2>0, ChunkAdds
    <3> HIDE DEF raw
    <3> QED BY <3>1, <3>2, <3>3 DEF AddedAt
  <2>2. NewTerms(l, b + q - 1, m, c) \in Terms
    <3>1. b + q - 1 \in Int
      BY <1>1
    <3> DEFINE u == [i \in 1..c |-> <<m + i - 1, Tap(l, b + q - 1, m + i)>>]
               K == Upper(Reached(l, b + q - 1, m + c), m, c)
               S == Int \X Int
    <3>2. u \in [1..c -> S] /\ K \in SUBSET (1..c)
      <4>1. \A i \in Int : Tap(l, b + q - 1, i) \in Int
        <5> HIDE DEF b
        <5> QED BY <1>1 DEF Tap, IsTconv
      <4> QED BY <4>1 DEF Upper
    <3> HIDE DEF u, K, S
    <3>3. Picked(u, K) \in Seq(S)
      BY <3>2, PickedType
    <3> QED BY <3>3 DEF u, K, S, NewTerms, Terms
  <2> DEFINE w == NewTerms(l, b + q - 1, m, c)
  <2>3. w \in Seq(Int \X Int) /\ <<>> \o w = OfflineTerms(l, b + q - 1, m + c) /\ raw[q] = w
    BY <2>1, <2>2 DEF Terms
  <2> HIDE DEF w, raw
  <2>4. <<>> \o w = w
    BY <2>3
  <2> QED BY <2>3, <2>4
<1>4. Slice(raw, 0, d) = [q \in 1..d |-> OfflineTerms(l, b + q - 1, m + c)]
  <2> HIDE DEF raw, d, b
  <2>1. Minimum(d, d) = d /\ 0 + 1 = 1
    BY DEF Minimum
  <2>2. Slice(raw, 0, d) = SubSeq(raw, 1, d)
    BY <1>2, <2>1 DEF Slice
  <2>3. SubSeq(raw, 1, d) = [q \in 1..(d - 1 + 1) |-> raw[q + 1 - 1]]
    BY <1>1
  <2>4. d - 1 + 1 = d /\ \A q \in 1..d : q + 1 - 1 = q
    BY <1>1
  <2> QED BY <2>2, <2>3, <2>4, <1>3
<1>5. Emitted(l, Slice(raw, 0, d), n) = Iota(b, d)
  <2> HIDE DEF raw
  <2> QED BY <1>4, SettledAre
<1> QED BY <1>2, <1>5 DEF ExportTconvNoState

(* Nothing is pending before the first input. *)
LEMMA NothingPending ==
  ASSUME NEW l, IsTconv(l)
  PROVE  PendingOf(l, 0) = [q \in 1..l.right |-> <<>>]
<1>1. ASSUME NEW q \in 1..l.right PROVE OfflineTerms(l, 0 * l.s + q - 1, 0) = <<>>
  <2>1. 0 * l.s = 0 /\ 0 * l.s + q - 1 \in Int
    BY DEF IsTconv
  <2> QED BY <2>1, TermsType
<1> QED BY <1>1 DEF PendingOf

-----------------------------------------------------------------------------
(* Lengths                                                                   *)

(* The running sums of sizes. *)
LEMMA SumsAre ==
  ASSUME NEW sizes \in Seq(Nat)
  PROVE  /\ Sums(sizes) \in [0..Len(sizes) -> Nat] /\ Sums(sizes)[0] = 0
         /\ \A j \in 1..Len(sizes) : Sums(sizes)[j] = Sums(sizes)[j - 1] + sizes[j]
<1> DEFINE n == Len(sizes)
           Rhs(f) == [j \in 0..n |-> IF j = 0 THEN 0 ELSE f[j - 1] + sizes[j]]
           F == CHOOSE f : f = Rhs(f)
           step == [p \in (1..n) \X Nat |-> p[2] + sizes[p[1]]]
<1>1. n \in Nat /\ \A j \in 1..n : sizes[j] \in Nat
  OBVIOUS
<1>2. \A j \in 1..n, x \in Nat : step[<<j, x>>] = x + sizes[j]
  OBVIOUS
<1> HIDE DEF n, step
<1>3. PICK g \in [0..n -> Nat] : Recurs(g, 0, n, step)
  <2>1. StepsIn(step, n, Nat)
    <3>1. ASSUME NEW j \in 1..n, NEW x \in Nat PROVE x + sizes[j] \in Nat
      <4> DEFINE d == sizes[j]
      <4>1. d \in Nat
        BY <1>1
      <4> HIDE DEF d
      <4>2. x + d \in Nat
        BY ONLY <4>1, x \in Nat
      <4> QED BY <4>2 DEF d
    <3> QED BY <3>1, <1>2, Zenon DEF StepsIn
  <2>2. 0 \in Nat
    OBVIOUS
  <2> QED BY <1>1, <2>1, <2>2, Recursion
<1>4. g = Rhs(g)
  <2>1. \A j \in 1..n : g[j] = g[j - 1] + sizes[j]
    <3> TAKE j \in 1..n
    <3>1. g[j - 1] \in Nat
      BY <1>1, <1>3
    <3>2. g[j] = step[<<j, g[j - 1]>>]
      BY <1>3 DEF Recurs
    <3> QED BY <3>1, <3>2, <1>2
  <2>2. \A j \in 0..n : g[j] = IF j = 0 THEN 0 ELSE g[j - 1] + sizes[j]
    BY <1>1, <1>3, <2>1 DEF Recurs
  <2> QED BY <2>2
<1>5. F = Rhs(F)
  BY <1>4
<1>6. Sums(sizes) = F
  BY DEF Sums, n
<1> HIDE DEF F
<1>7. F[0] = 0 /\ \A j \in 1..n : F[j] = F[j - 1] + sizes[j]
  BY <1>1, <1>5
<1>8. \A j \in 0..n : F[j] \in Nat
  <2> DEFINE T == {j \in Nat : j <= n => F[j] \in Nat}
  <2>1. 0 \in T
    BY <1>7
  <2>2. ASSUME NEW i \in 0..(n - 1), i \in T PROVE i + 1 \in T
    <3>1. F[i] \in Nat /\ i + 1 \in 1..n /\ (i + 1) - 1 = i
      BY <2>2, <1>1
    <3>2. F[i + 1] = F[i] + sizes[i + 1]
      BY <3>1, <1>7
    <3> QED BY <3>1, <3>2, <1>1
  <2> HIDE DEF T
  <2>3. 0..n \subseteq T
    BY <2>1, <2>2, <1>1, UpTo
  <2> QED BY <2>3, <1>1 DEF T
<1>9. F \in [0..n -> Nat]
  <2>1. F = [j \in 0..n |-> F[j]]
    BY <1>5
  <2> QED BY <2>1, <1>8
<1> QED BY <1>6, <1>7, <1>9 DEF n

(* What a block makes of a length. *)
LEMMA ThroughIs ==
  ASSUME NEW l, IsBlock(l), NEW n \in Nat, NEW m \in Nat, n <= m
  PROVE  /\ Through(l, n) \in Nat /\ Through(l, n) <= Through(l, m)
         /\ l.kind = "tconv" => Through(l, n) = EmittedBy(l, n)
         /\ l.kind # "tconv" => Through(l, n) = n
<1>1. CASE l.kind = "tconv"
  <2>1. IsTconv(l)
    BY <1>1 DEF IsBlock
  <2>2. m - n \in Nat /\ n + (m - n) = m
    OBVIOUS
  <2>3. EmittedBy(l, n) \in Nat /\ EmittedBy(l, n) <= EmittedBy(l, n + (m - n))
    BY <2>1, <2>2, EmittedGrows
  <2>4. Maximum(0, RawLen(l, n) - l.left - l.right) = EmittedBy(l, n) /\ Maximum(0, RawLen(l, m) - l.left - l.right) = EmittedBy(l, m)
    BY <2>1, EmittedGrows
  <2> QED BY <1>1, <2>2, <2>3, <2>4 DEF Through
<1>2. CASE l.kind # "tconv"
  BY <1>2 DEF Through
<1> QED BY <1>1, <1>2

(* The length that enters a block, block by block. *)
LEMMA InLenIs ==
  ASSUME NEW p \in Programs, NEW n \in Nat
  PROVE  /\ InLen(p, 1, n) = n
         /\ \A b \in 1..Len(Stack(p)) : InLen(p, b + 1, n) = Through(Stack(p)[b], InLen(p, b, n))
         /\ \A b \in 1..Len(Stack(p)) + 1 : InLen(p, b, n) \in Nat
<1> DEFINE ls == Stack(p)
           N == Len(ls)
           Rhs(f) == [j \in 0..N |-> IF j = 0 THEN n ELSE Through(ls[j], f[j - 1])]
           F == CHOOSE f : f = Rhs(f)
           step == [q \in (1..N) \X Nat |-> Through(ls[q[1]], q[2])]
<1>1. N \in Nat /\ \A b \in 1..N : IsBlock(ls[b])
  BY StackAssumption DEF IsNetwork
<1>2. \A j \in 1..N, x \in Nat : step[<<j, x>>] = Through(ls[j], x)
  OBVIOUS
<1>3. \A j \in 1..N, x \in Nat : Through(ls[j], x) \in Nat
  <2> TAKE j \in 1..N, x \in Nat
  <2> HIDE DEF ls
  <2>1. IsBlock(ls[j]) /\ x <= x
    BY <1>1
  <2> QED BY <2>1, ThroughIs
<1> HIDE DEF ls, N, step
<1>4. PICK g \in [0..N -> Nat] : Recurs(g, n, N, step)
  <2>1. StepsIn(step, N, Nat)
    BY <1>2, <1>3, Zenon DEF StepsIn
  <2> QED BY <1>1, <2>1, Recursion
<1>5. g = Rhs(g)
  <2>1. \A j \in 1..N : g[j] = Through(ls[j], g[j - 1])
    <3> TAKE j \in 1..N
    <3>1. g[j - 1] \in Nat
      BY <1>1, <1>4
    <3>2. g[j] = step[<<j, g[j - 1]>>]
      BY <1>4 DEF Recurs
    <3> QED BY <3>1, <3>2, <1>2
  <2>2. \A j \in 0..N : g[j] = IF j = 0 THEN n ELSE Through(ls[j], g[j - 1])
    BY <1>1, <1>4, <2>1 DEF Recurs
  <2> QED BY <2>2
<1>6. F = Rhs(F)
  BY <1>5
<1>7. \A b \in Int : InLen(p, b, n) = F[b - 1]
  BY DEF InLen, N, ls
<1> HIDE DEF F
<1>8. F[0] = n /\ \A j \in 1..N : F[j] = Through(ls[j], F[j - 1])
  BY <1>1, <1>6
<1>9. \A j \in 0..N : F[j] \in Nat
  <2> DEFINE T == {j \in Nat : j <= N => F[j] \in Nat}
  <2>1. 0 \in T
    BY <1>8
  <2>2. ASSUME NEW i \in 0..(N - 1), i \in T PROVE i + 1 \in T
    <3>1. F[i] \in Nat /\ i + 1 \in 1..N /\ (i + 1) - 1 = i
      BY <2>2, <1>1
    <3>2. F[i + 1] = Through(ls[i + 1], F[i])
      BY <3>1, <1>8
    <3> QED BY <3>1, <3>2, <1>3
  <2> HIDE DEF T
  <2>3. 0..N \subseteq T
    BY <2>1, <2>2, <1>1, UpTo
  <2> QED BY <2>3, <1>1 DEF T
<1>10. InLen(p, 1, n) = n
  BY <1>7, <1>8
<1>11. \A b \in 1..N : InLen(p, b + 1, n) = Through(ls[b], InLen(p, b, n))
  <2> TAKE b \in 1..N
  <2>1. b + 1 \in Int /\ b \in Int /\ (b + 1) - 1 = b
    BY <1>1
  <2>2. InLen(p, b + 1, n) = F[b] /\ InLen(p, b, n) = F[b - 1]
    BY <2>1, <1>7
  <2> QED BY <2>2, <1>8
<1>12. \A b \in 1..N + 1 : InLen(p, b, n) \in Nat
  <2> TAKE b \in 1..N + 1
  <2>1. b - 1 \in 0..N /\ b \in Int
    BY <1>1
  <2> QED BY <2>1, <1>7, <1>9
<1> QED BY <1>10, <1>11, <1>12 DEF N, ls

(* A longer utterance is longer at every block. *)
LEMMA InLenGrows ==
  ASSUME NEW p \in Programs, NEW n \in Nat, NEW m \in Nat, n <= m, NEW b \in 1..Len(Stack(p)) + 1
  PROVE  InLen(p, b, n) <= InLen(p, b, m)
<1> DEFINE N == Len(Stack(p))
           T == {j \in Nat : j <= N => InLen(p, j + 1, n) <= InLen(p, j + 1, m)}
<1>1. N \in Nat /\ \A j \in 1..N : IsBlock(Stack(p)[j])
  BY StackAssumption DEF IsNetwork
<1>2. 0 \in T
  <2>1. 0 + 1 = 1 /\ InLen(p, 1, n) = n /\ InLen(p, 1, m) = m
    BY InLenIs
  <2> QED BY <2>1
<1>3. ASSUME NEW i \in 0..(N - 1), i \in T PROVE i + 1 \in T
  <2> DEFINE j == i + 1
  <2>1. j \in 1..N /\ j \in 1..N + 1 /\ i \in Nat /\ i <= N
    BY <1>1
  <2>2. InLen(p, j, n) <= InLen(p, j, m)
    BY <1>3, <2>1
  <2> HIDE DEF j, N
  <2>3. InLen(p, j, n) \in Nat /\ InLen(p, j, m) \in Nat
    BY <2>1, InLenIs DEF N
  <2>4. Through(Stack(p)[j], InLen(p, j, n)) <= Through(Stack(p)[j], InLen(p, j, m))
    <3> DEFINE x == InLen(p, j, n)
               y == InLen(p, j, m)
    <3>1. IsBlock(Stack(p)[j]) /\ x \in Nat /\ y \in Nat /\ x <= y
      BY <1>1, <2>1, <2>2, <2>3
    <3> HIDE DEF x, y
    <3>2. Through(Stack(p)[j], x) <= Through(Stack(p)[j], y)
      BY <3>1, ThroughIs
    <3> QED BY <3>2 DEF x, y
  <2>5. InLen(p, j + 1, n) <= InLen(p, j + 1, m)
    BY <2>1, <2>4, InLenIs DEF N
  <2> QED BY <2>1, <2>5 DEF j
<1> HIDE DEF T
<1>4. 0..N \subseteq T
  BY <1>1, <1>2, <1>3, UpTo
<1>5. b - 1 \in 0..N /\ (b - 1) + 1 = b /\ b - 1 <= N
  BY <1>1
<1> QED BY <1>4, <1>5 DEF T

-----------------------------------------------------------------------------
(* Runs of samples and their concatenation                                   *)

(* A run of numbers is a list. *)
LEMMA IotaIs ==
  ASSUME NEW a \in Int, NEW n \in Nat
  PROVE  Iota(a, n) \in Seq(Int) /\ Len(Iota(a, n)) = n /\ DOMAIN Iota(a, n) = 1..n /\ \A i \in 1..n : Iota(a, n)[i] = a + i - 1
BY DEF Iota

(* Two runs, one behind the other. *)
LEMMA IotaCat ==
  ASSUME NEW a \in Int, NEW n \in Nat, NEW m \in Nat
  PROVE  Iota(a, n) \o Iota(a + n, m) = Iota(a, n + m)
<1> DEFINE s == Iota(a, n)
           t == Iota(a + n, m)
<1>1. s \in Seq(Int) /\ Len(s) = n /\ \A i \in 1..n : s[i] = a + i - 1
  BY IotaIs
<1>2. t \in Seq(Int) /\ Len(t) = m /\ \A i \in 1..m : t[i] = a + n + i - 1
  BY IotaIs
<1> HIDE DEF s, t
<1>3. s \o t = [i \in 1..n + m |-> IF i <= n THEN s[i] ELSE t[i - n]]
  <2>1. s \o t = [i \in 1..Len(s) + Len(t) |-> IF i <= Len(s) THEN s[i] ELSE t[i - Len(s)]]
    BY <1>1, <1>2, CatIs
  <2> QED BY <1>1, <1>2, <2>1
<1>4. \A i \in 1..n + m : (IF i <= n THEN s[i] ELSE t[i - n]) = a + i - 1
  <2> TAKE i \in 1..n + m
  <2>1. CASE i <= n
    BY <2>1, <1>1
  <2>2. CASE ~(i <= n)
    <3>1. i - n \in 1..m /\ a + n + (i - n) - 1 = a + i - 1
      BY <2>2
    <3> QED BY <2>2, <3>1, <1>2
  <2> QED BY <2>1, <2>2
<1>5. s \o t = [i \in 1..n + m |-> a + i - 1]
  BY <1>3, <1>4
<1> QED BY <1>5 DEF Iota, s, t

(* The parts of a run are runs. *)
IsRun(s, t, a, n) == s \in Seq(Int) /\ t \in Seq(Int) /\ a \in Int /\ n \in Nat /\ s \o t = Iota(a, n)
(* Each of the two parts of a run of numbers is the run of its own length. *)
LEMMA IotaSplit ==
  ASSUME NEW s, NEW t, NEW a, NEW n, IsRun(s, t, a, n)
  PROVE  s = Iota(a, Len(s)) /\ t = Iota(a + Len(s), Len(t)) /\ n = Len(s) + Len(t)
<1> DEFINE x == Len(s)
           y == Len(t)
           u == s \o t
<1>0. s \in Seq(Int) /\ t \in Seq(Int) /\ a \in Int /\ n \in Nat /\ u = Iota(a, n)
  BY DEF IsRun
<1>1. x \in Nat /\ y \in Nat /\ Len(u) = x + y /\ (\A i \in 1..x : u[i] = s[i]) /\ \A i \in 1..y : u[x + i] = t[i]
  BY <1>0
<1>2. Len(u) = n /\ \A i \in 1..n : u[i] = a + i - 1
  BY <1>0, IotaIs
<1>3. s = [i \in 1..x |-> s[i]] /\ t = [i \in 1..y |-> t[i]]
  BY <1>0
<1> HIDE DEF u, x, y
<1>4. n = x + y
  BY <1>0, <1>1, <1>2
<1>5. \A i \in 1..x : s[i] = a + i - 1
  <2> TAKE i \in 1..x
  <2>1. i \in 1..n
    BY <1>0, <1>1, <1>4
  <2> QED BY <2>1, <1>0, <1>1, <1>2
<1>6. \A i \in 1..y : t[i] = (a + x) + i - 1
  <2> TAKE i \in 1..y
  <2>1. x + i \in 1..n /\ a + (x + i) - 1 = (a + x) + i - 1
    BY <1>0, <1>1, <1>4
  <2> QED BY <2>1, <1>0, <1>1, <1>2
<1>7. s = [i \in 1..x |-> a + i - 1]
  BY <1>3, <1>5
<1>8. t = [i \in 1..y |-> (a + x) + i - 1]
  BY <1>3, <1>6
<1> QED BY <1>4, <1>7, <1>8 DEF Iota, x, y

-----------------------------------------------------------------------------
(* The samples of the first j parts, and how many they are. *)
Upto(parts, j) == Cat(SubSeq(parts, 1, j))
(* ... their number. *)
At(parts, j) == Len(Upto(parts, j))

(* The first j elements of a list. *)
LEMMA FirstOf ==
  ASSUME NEW S, NEW s \in Seq(S), NEW j \in 0..Len(s)
  PROVE  SubSeq(s, 1, j) \in Seq(S) /\ Len(SubSeq(s, 1, j)) = j /\ \A i \in 1..j : SubSeq(s, 1, j)[i] = s[i]
<1>1. Len(s) \in Nat /\ j \in Nat /\ j <= Len(s)
  OBVIOUS
<1>2. SubSeq(s, 1, j) = [i \in 1..j |-> s[i]]
  BY <1>1
<1>3. \A i \in 1..j : s[i] \in S
  BY <1>1
<1> QED BY <1>1, <1>2, <1>3

(* They are put together part by part. *)
LEMMA CatUpto ==
  ASSUME NEW S, NEW parts \in Seq(Seq(S))
  PROVE  /\ Upto(parts, 0) = <<>> /\ Upto(parts, Len(parts)) = Cat(parts)
         /\ \A j \in 0..Len(parts) : Upto(parts, j) \in Seq(S)
         /\ \A j \in 1..Len(parts) : Upto(parts, j) = Upto(parts, j - 1) \o parts[j]
<1> DEFINE n == Len(parts)
<1>0. n \in Nat
  OBVIOUS
<1>1. PICK f \in [0..n -> Seq(S)] : f[0] = <<>> /\ (\A i \in 1..n : f[i] = f[i - 1] \o parts[i]) /\ FlattenSeq(parts) = f[n]
  BY FlattenIs
<1>2. ASSUME NEW j \in 0..n PROVE Upto(parts, j) = f[j]
  <2> DEFINE sub == SubSeq(parts, 1, j)
  <2>1. sub \in Seq(Seq(S)) /\ Len(sub) = j /\ \A i \in 1..j : sub[i] = parts[i]
    BY <1>0, FirstOf
  <2> HIDE DEF sub
  <2>2. PICK g \in [0..Len(sub) -> Seq(S)] : g[0] = <<>> /\ (\A i \in 1..Len(sub) : g[i] = g[i - 1] \o sub[i]) /\ FlattenSeq(sub) = g[Len(sub)]
    BY <2>1, FlattenIs
  <2>3. g[0] = <<>> /\ (\A i \in 1..j : g[i] = g[i - 1] \o parts[i]) /\ FlattenSeq(sub) = g[j]
    BY <2>1, <2>2
  <2> DEFINE T == {i \in Nat : i <= j => g[i] = f[i]}
  <2>4. 0 \in T
    BY <1>1, <2>3
  <2>5. ASSUME NEW i \in 0..(j - 1), i \in T PROVE i + 1 \in T
    <3>1. i + 1 \in 1..j /\ i + 1 \in 1..n /\ (i + 1) - 1 = i /\ g[i] = f[i]
      BY <1>0, <2>5
    <3>2. g[i + 1] = g[i] \o parts[i + 1] /\ f[i + 1] = f[i] \o parts[i + 1]
      BY <3>1, <1>1, <2>3
    <3>3. g[i + 1] = f[i + 1] /\ i + 1 \in Nat
      BY <3>1, <3>2
    <3> QED BY <3>3
  <2> HIDE DEF T
  <2>6. j \in Nat
    BY <1>0
  <2>7. 0..j \subseteq T
    BY <2>4, <2>5, <2>6, UpTo
  <2>8. g[j] = f[j]
    BY <2>6, <2>7 DEF T
  <2> QED BY <2>3, <2>8 DEF Upto, Cat, sub
<1>3. \A j \in 1..n : j \in 0..n /\ j - 1 \in 0..n
  BY <1>0
<1>4. 0 \in 0..n /\ n \in 0..n
  BY <1>0
<1> QED BY <1>1, <1>2, <1>3, <1>4 DEF Cat

(* One more part. *)
LEMMA CatAppend ==
  ASSUME NEW S, NEW parts \in Seq(Seq(S)), NEW x \in Seq(S)
  PROVE  Append(parts, x) \in Seq(Seq(S)) /\ Cat(Append(parts, x)) = Cat(parts) \o x
<1> DEFINE n == Len(parts)
           u == Append(parts, x)
           Q == Seq(S)
<1>1. n \in Nat /\ u \in Seq(Seq(S)) /\ Len(u) = n + 1 /\ u[n + 1] = x
  <2> HIDE DEF Q
  <2>1. parts \in Seq(Q) /\ x \in Q
    BY DEF Q
  <2>2. n \in Nat /\ u \in Seq(Q) /\ Len(u) = n + 1 /\ u[n + 1] = x
    BY <2>1
  <2> QED BY <2>2 DEF Q
<1>2. SubSeq(u, 1, n) = parts
  <2> HIDE DEF Q
  <2>1. parts \in Seq(Q) /\ x \in Q
    BY DEF Q
  <2> QED BY <2>1
<1> HIDE DEF u, n
<1>3. Upto(u, n + 1) = Upto(u, (n + 1) - 1) \o u[n + 1] /\ Upto(u, n + 1) = Cat(u)
  <2>1. n + 1 \in 1..Len(u)
    BY <1>1
  <2> QED BY <1>1, <2>1, CatUpto
<1>4. (n + 1) - 1 = n
  BY <1>1
<1> QED BY <1>1, <1>2, <1>3, <1>4 DEF Upto, u

(* No part, no samples. *)
LEMMA CatEmpty == Cat(<<>>) = <<>>
<1>1. <<>> \in Seq(Seq(Int)) /\ SubSeq(<<>>, 1, 0) = <<>> /\ Len(<<>>) = 0
  OBVIOUS
<1>2. Upto(<<>>, 0) = <<>>
  BY <1>1, CatUpto
<1> QED BY <1>1, <1>2 DEF Upto

(* The parts of a signal are the runs between the places they start at. *)
LEMMA Tiling ==
  ASSUME NEW parts \in Seq(Seq(Int)), NEW E \in Nat, Cat(parts) = Iota(0, E)
  PROVE  /\ At(parts, 0) = 0 /\ At(parts, Len(parts)) = E
         /\ \A j \in 0..Len(parts) : At(parts, j) \in Nat /\ At(parts, j) <= E /\ Upto(parts, j) = Iota(0, At(parts, j))
         /\ \A j \in 1..Len(parts) : /\ parts[j] = Iota(At(parts, j - 1), Len(parts[j])) /\ Len(parts[j]) \in Nat
                                     /\ At(parts, j) = At(parts, j - 1) + Len(parts[j])
<1> DEFINE n == Len(parts)
<1>0. n \in Nat
  OBVIOUS
<1>1. /\ Upto(parts, 0) = <<>> /\ Upto(parts, n) = Cat(parts)
      /\ \A j \in 0..n : Upto(parts, j) \in Seq(Int)
      /\ \A j \in 1..n : Upto(parts, j) = Upto(parts, j - 1) \o parts[j]
  BY CatUpto
<1>2. \A j \in 0..n : At(parts, j) \in Nat
  BY <1>1 DEF At
<1> DEFINE T == {d \in Nat : d <= n => Upto(parts, n - d) = Iota(0, At(parts, n - d)) /\ At(parts, n - d) <= E}
<1>3. At(parts, n) = E
  <2>1. Len(Iota(0, E)) = E
    BY IotaIs
  <2> QED BY <1>1, <2>1 DEF At
<1>4. 0 \in T
  BY <1>0, <1>1, <1>3
<1>5. ASSUME NEW j \in 1..n, Upto(parts, j) = Iota(0, At(parts, j))
      PROVE  /\ Upto(parts, j - 1) = Iota(0, At(parts, j - 1))
             /\ parts[j] = Iota(At(parts, j - 1), Len(parts[j])) /\ Len(parts[j]) \in Nat
             /\ At(parts, j) = At(parts, j - 1) + Len(parts[j])
  <2> DEFINE s == Upto(parts, j - 1)
             t == parts[j]
             a == At(parts, j)
  <2>1. s \in Seq(Int) /\ t \in Seq(Int) /\ a \in Nat /\ s \o t = Iota(0, a)
    <3>1. j \in 0..n /\ j - 1 \in 0..n
      BY <1>0
    <3>2. s \in Seq(Int)
      BY <3>1, <1>1
    <3>4. t \in Seq(Int)
      BY <1>1
    <3>5. a \in Nat
      BY <3>1, <1>2
    <3>3. s \o t = Upto(parts, j)
      BY <1>1
    <3> QED BY <3>2, <3>3, <3>4, <3>5, <1>5
  <2>2. Len(s) = At(parts, j - 1)
    BY DEF At
  <2> HIDE DEF s, t, a
  <2>3. s = Iota(0, Len(s)) /\ t = Iota(0 + Len(s), Len(t)) /\ a = Len(s) + Len(t)
    <3> DEFINE z == 0
    <3>1. z \in Int /\ s \in Seq(Int) /\ t \in Seq(Int) /\ a \in Nat /\ s \o t = Iota(z, a)
      BY <2>1
    <3> HIDE DEF z
    <3>a. IsRun(s, t, z, a)
      BY <3>1 DEF IsRun
    <3>2. s = Iota(z, Len(s)) /\ t = Iota(z + Len(s), Len(t)) /\ a = Len(s) + Len(t)
      BY ONLY <3>a, IotaSplit
    <3> QED BY <3>2 DEF z
  <2>4. 0 + Len(s) = Len(s) /\ Len(t) \in Nat
    BY <2>1
  <2> QED BY <2>2, <2>3, <2>4 DEF s, t, a
<1>6. ASSUME NEW d \in 0..(n - 1), d \in T PROVE d + 1 \in T
  <2> DEFINE j == n - d
  <2>1. j \in 1..n /\ n - (d + 1) = j - 1 /\ d \in Nat /\ d <= n
    BY <1>0
  <2>2. Upto(parts, j) = Iota(0, At(parts, j)) /\ At(parts, j) <= E
    BY <1>6, <2>1
  <2>3. At(parts, j - 1) \in Nat /\ At(parts, j) \in Nat
    <3>1. j \in 0..n /\ j - 1 \in 0..n
      BY <2>1, <1>0
    <3> QED BY <3>1, <1>2
  <2> HIDE DEF j
  <2>4. /\ Upto(parts, j - 1) = Iota(0, At(parts, j - 1))
        /\ Len(parts[j]) \in Nat /\ At(parts, j) = At(parts, j - 1) + Len(parts[j])
    BY <1>5, <2>1, <2>2
  <2>5. At(parts, j - 1) <= E
    <3> DEFINE x == At(parts, j - 1)
               y == At(parts, j)
               z == Len(parts[j])
    <3>1. x \in Nat /\ y \in Nat /\ z \in Nat /\ y = x + z /\ y <= E
      BY <2>2, <2>3, <2>4
    <3> HIDE DEF x, y, z
    <3>2. x <= E
      BY <3>1
    <3> QED BY <3>2 DEF x
  <2>6. Upto(parts, n - (d + 1)) = Iota(0, At(parts, n - (d + 1))) /\ At(parts, n - (d + 1)) <= E
    BY <2>1, <2>4, <2>5
  <2> QED BY <2>6
<1> HIDE DEF T
<1>7. 0..n \subseteq T
  BY <1>0, <1>4, <1>6, UpTo
<1>8. \A j \in 0..n : Upto(parts, j) = Iota(0, At(parts, j)) /\ At(parts, j) <= E
  <2> TAKE j \in 0..n
  <2>1. n - j \in 0..n /\ n - (n - j) = j /\ n - j <= n
    BY <1>0
  <2>2. n - j \in T
    BY <1>7, <2>1
  <2>3. Upto(parts, n - (n - j)) = Iota(0, At(parts, n - (n - j))) /\ At(parts, n - (n - j)) <= E
    BY <2>1, <2>2 DEF T
  <2> QED BY <2>1, <2>3
<1>9. At(parts, 0) = 0
  BY <1>1 DEF At
<1>10. \A j \in 1..n : j \in 0..n
  BY <1>0
<1> QED BY <1>2, <1>3, <1>5, <1>8, <1>9, <1>10

-----------------------------------------------------------------------------
(* Cutting                                                                   *)

(* Parts that are the runs between the places cut. *)
AreRuns(parts, cut) ==
  /\ parts \in Seq(Seq(Int)) /\ cut \in [0..Len(parts) -> Nat] /\ cut[0] = 0
  /\ \A j \in 1..Len(parts) : cut[j - 1] <= cut[j] /\ parts[j] = Iota(cut[j - 1], cut[j] - cut[j - 1])

(* They are the signal up to the last place. *)
LEMMA RunsAre ==
  ASSUME NEW parts, NEW cut, AreRuns(parts, cut)
  PROVE  /\ \A j \in 0..Len(parts) : Upto(parts, j) = Iota(0, cut[j])
         /\ Cat(parts) = Iota(0, cut[Len(parts)])
<1> DEFINE n == Len(parts)
<1>0. /\ parts \in Seq(Seq(Int)) /\ cut \in [0..n -> Nat] /\ cut[0] = 0 /\ n \in Nat
      /\ \A j \in 1..n : cut[j - 1] <= cut[j] /\ parts[j] = Iota(cut[j - 1], cut[j] - cut[j - 1])
  BY DEF AreRuns
<1>1. /\ Upto(parts, 0) = <<>> /\ Upto(parts, n) = Cat(parts)
      /\ \A j \in 1..n : Upto(parts, j) = Upto(parts, j - 1) \o parts[j]
  BY <1>0, CatUpto
<1> HIDE DEF n
<1> DEFINE T == {j \in Nat : j <= n => Upto(parts, j) = Iota(0, cut[j])}
<1>2. 0 \in T
  <2>1. Iota(0, 0) = <<>>
    BY DEF Iota
  <2> QED BY <2>1, <1>0, <1>1
<1>3. ASSUME NEW i \in 0..(n - 1), i \in T PROVE i + 1 \in T
  <2> DEFINE a == cut[i]
             b == cut[i + 1]
  <2>1. i + 1 \in 1..n /\ (i + 1) - 1 = i /\ i \in Nat /\ i <= n /\ i \in 0..n /\ i + 1 \in 0..n
    BY <1>0
  <2>2. a \in Nat /\ b \in Nat /\ a <= b /\ parts[i + 1] = Iota(a, b - a)
    BY <2>1, <1>0
  <2>3. Upto(parts, i) = Iota(0, a) /\ Upto(parts, i + 1) = Upto(parts, i) \o parts[i + 1]
    BY <1>3, <2>1, <1>1
  <2> HIDE DEF a, b
  <2>4. 0 + a = a /\ a + (b - a) = b /\ b - a \in Nat
    BY <2>2
  <2>5. Iota(0, a) \o Iota(0 + a, b - a) = Iota(0, a + (b - a))
    <3> DEFINE d == b - a
               z == 0
    <3>1. d \in Nat /\ z \in Int /\ a \in Nat
      BY <2>2, <2>4
    <3> HIDE DEF d, z
    <3>2. Iota(z, a) \o Iota(z + a, d) = Iota(z, a + d)
      BY ONLY <3>1, IotaCat
    <3> QED BY <3>2 DEF d, z
  <2>6. Upto(parts, i + 1) = Iota(0, b)
    BY <2>2, <2>3, <2>4, <2>5
  <2> QED BY <2>1, <2>6 DEF b
<1> HIDE DEF T
<1>4. 0..n \subseteq T
  BY <1>0, <1>2, <1>3, UpTo
<1>5. \A j \in 0..n : Upto(parts, j) = Iota(0, cut[j])
  BY <1>0, <1>4 DEF T
<1>6. n \in 0..n
  BY <1>0
<1>7. Cat(parts) = Iota(0, cut[n])
  BY <1>1, <1>5, <1>6
<1> QED BY <1>5, <1>7 DEF n

(* The parts of a signal of n samples, cut by sizes: as far as either goes. *)
LEMMA SplitIs ==
  ASSUME NEW n \in Nat, NEW sizes \in Seq(Nat)
  PROVE  LET parts == Split(Iota(0, n), sizes)
         IN  /\ parts \in Seq(Seq(Int)) /\ Len(parts) = Len(sizes)
             /\ Cat(parts) = Iota(0, Minimum(Sum(sizes), n))
             /\ \A j \in 0..Len(sizes) : Upto(parts, j) = Iota(0, Minimum(Sums(sizes)[j], n))
             /\ \A j \in 1..Len(sizes) : parts[j] = Iota(Minimum(Sums(sizes)[j - 1], n), Minimum(Sums(sizes)[j], n) - Minimum(Sums(sizes)[j - 1], n))
<1> DEFINE x == Iota(0, n)
           parts == Split(x, sizes)
           k == Len(sizes)
           S == Sums(sizes)
           cut == [j \in 0..k |-> Minimum(S[j], n)]
<1>0. k \in Nat /\ \A j \in 1..k : sizes[j] \in Nat
  OBVIOUS
<1>1. S \in [0..k -> Nat] /\ S[0] = 0 /\ \A j \in 1..k : S[j] = S[j - 1] + sizes[j]
  BY SumsAre
<1>2. Len(x) = n /\ \A i \in 1..n : x[i] = 0 + i - 1
  BY IotaIs
<1>3. parts = [j \in 1..k |-> Slice(x, S[j - 1], S[j - 1] + sizes[j])]
  BY DEF Split, Before
<1> HIDE DEF x, parts, k, S
<1>4. cut \in [0..k -> Nat] /\ cut[0] = 0 /\ \A j \in 0..k : cut[j] = Minimum(S[j], n)
  <2>1. \A j \in 0..k : Minimum(S[j], n) \in Nat
    BY <1>1 DEF Minimum
  <2>2. Minimum(0, n) = 0 /\ 0 \in 0..k
    BY <1>0 DEF Minimum
  <2> QED BY <2>1, <2>2, <1>1
<1> HIDE DEF cut
<1>5. ASSUME NEW j \in 1..k
      PROVE  cut[j - 1] <= cut[j] /\ parts[j] = Iota(cut[j - 1], cut[j] - cut[j - 1]) /\ parts[j] \in Seq(Int)
  <2> DEFINE a == S[j - 1]
             b == S[j]
             h == Minimum(b, n)
             g == Minimum(a, n)
  <2>1. j \in 0..k /\ j - 1 \in 0..k
    BY <1>0
  <2>2. a \in Nat /\ b \in Nat /\ b = a + sizes[j] /\ a <= b /\ cut[j] = h /\ cut[j - 1] = g
    <3>1. a \in Nat /\ b = a + sizes[j] /\ sizes[j] \in Nat /\ b \in Nat
      BY <2>1, <1>0, <1>1
    <3>2. cut[j] = h /\ cut[j - 1] = g
      BY <2>1, <1>4
    <3>3. a <= b
      <4> DEFINE d == sizes[j]
      <4>1. a \in Nat /\ d \in Nat /\ b = a + d
        BY <3>1
      <4> HIDE DEF a, b, d
      <4> QED BY ONLY <4>1
    <3> QED BY <3>1, <3>2, <3>3
  <2>3. parts[j] = SubSeq(x, a + 1, h)
    BY <1>2, <1>3, <2>2 DEF Slice
  <2> HIDE DEF a, b
  <2>a. a \in Nat /\ b \in Nat /\ a <= b /\ n \in Nat
    BY <2>2
  <2>4. g \in Nat /\ h \in Nat /\ g <= h /\ h - g \in Nat /\ h <= n
    BY ONLY <2>a DEF Minimum, g, h
  <2>5. SubSeq(x, a + 1, h) = [i \in 1..(h - (a + 1) + 1) |-> x[i + (a + 1) - 1]]
    <3> DEFINE e == a + 1
    <3>1. e \in Int /\ h \in Int
      BY <2>a, <2>4
    <3> HIDE DEF e, h
    <3>2. SubSeq(x, e, h) = [i \in 1..(h - e + 1) |-> x[i + e - 1]]
      BY ONLY <3>1
    <3> QED BY <3>2 DEF e
  <2>6. 1..(h - (a + 1) + 1) = 1..(h - g)
    <3>1. CASE a <= n
      <4>1. g = a
        BY <3>1, <2>2 DEF Minimum
      <4>2. h - (a + 1) + 1 = h - g
        BY <4>1, <2>2, <2>4
      <4> QED BY <4>2
    <3>2. CASE ~(a <= n)
      <4>1. g = n /\ h = n
        BY <3>2, <2>2 DEF Minimum
      <4>2. n - (a + 1) + 1 < 1 /\ n - (a + 1) + 1 \in Int /\ n - n = 0
        BY <3>2, <2>2
      <4>3. 1..(n - (a + 1) + 1) = {} /\ 1..0 = {}
        BY <4>2
      <4> QED BY <4>1, <4>2, <4>3
    <3> QED BY <3>1, <3>2
  <2>7. ASSUME NEW i \in 1..(h - g) PROVE x[i + (a + 1) - 1] = g + i - 1
    <3>1. a <= n /\ g = a
      <4>1. 1 <= i /\ i <= h - g /\ i \in Int
        BY <2>7, <2>4
      <4> QED BY ONLY <2>a, <4>1 DEF Minimum, g, h
    <3>2. i + (a + 1) - 1 \in 1..n /\ 0 + (i + (a + 1) - 1) - 1 = g + i - 1
      BY <3>1, <2>2, <2>4
    <3> HIDE DEF g, h
    <3> QED BY <3>2, <1>2
  <2> HIDE DEF g, h
  <2>8. parts[j] = [i \in 1..(h - g) |-> g + i - 1]
    BY <2>3, <2>5, <2>6, <2>7
  <2>9. parts[j] = Iota(g, h - g)
    BY <2>8 DEF Iota
  <2>10. parts[j] \in Seq(Int)
    <3> DEFINE d == h - g
    <3>1. d \in Nat /\ g \in Int
      BY <2>4
    <3> HIDE DEF d
    <3>2. Iota(g, d) \in Seq(Int)
      BY <3>1, IotaIs
    <3> QED BY <3>2, <2>9 DEF d
  <2> QED BY <2>2, <2>4, <2>9, <2>10
<1>6. parts \in Seq(Seq(Int)) /\ Len(parts) = k
  BY <1>0, <1>3, <1>5
<1>7. AreRuns(parts, cut)
  BY <1>4, <1>5, <1>6 DEF AreRuns
<1>8. (\A j \in 0..k : Upto(parts, j) = Iota(0, cut[j])) /\ Cat(parts) = Iota(0, cut[k])
  BY <1>6, <1>7, RunsAre
<1>9. cut[k] = Minimum(Sum(sizes), n)
  <2>1. k \in 0..k
    BY <1>0
  <2> QED BY <2>1, <1>4 DEF Sum, S, k
<1>10. \A j \in 1..k : j \in 0..k /\ j - 1 \in 0..k
  BY <1>0
<1>11. \A j \in 1..k : parts[j] = Iota(Minimum(S[j - 1], n), Minimum(S[j], n) - Minimum(S[j - 1], n))
  BY <1>4, <1>5, <1>10
<1>12. \A j \in 0..k : Upto(parts, j) = Iota(0, Minimum(S[j], n))
  BY <1>4, <1>8
<1>13. Cat(parts) = Iota(0, Minimum(Sum(sizes), n))
  BY <1>8, <1>9
<1> QED BY <1>6, <1>11, <1>12, <1>13 DEF parts, x, k, S

(* The elements of a list. *)
LEMMA ElementsAre == ASSUME NEW S, NEW s \in Seq(S) PROVE \A j \in 1..Len(s) : s[j] \in S
  OBVIOUS

(* Smaller sizes have a smaller sum. *)
LEMMA SumsGrow ==
  ASSUME NEW s \in Seq(Nat), NEW t \in Seq(Nat), Len(s) = Len(t), \A j \in 1..Len(s) : s[j] <= t[j]
  PROVE  Sum(s) <= Sum(t) /\ Sum(s) \in Nat /\ Sum(t) \in Nat
<1> DEFINE n == Len(s)
           F == Sums(s)
           G == Sums(t)
<1>1. F \in [0..n -> Nat] /\ F[0] = 0 /\ \A j \in 1..n : F[j] = F[j - 1] + s[j]
  BY SumsAre
<1>2. G \in [0..n -> Nat] /\ G[0] = 0 /\ \A j \in 1..n : G[j] = G[j - 1] + t[j]
  BY SumsAre
<1>3. n \in Nat /\ \A j \in 1..n : s[j] \in Nat /\ t[j] \in Nat /\ s[j] <= t[j]
  <2>1. n \in Nat
    OBVIOUS
  <2>2. \A j \in 1..n : s[j] \in Nat
    BY ElementsAre
  <2>3. \A j \in 1..Len(t) : t[j] \in Nat
    BY ElementsAre
  <2> QED BY <2>1, <2>2, <2>3
<1> HIDE DEF n, F, G
<1> DEFINE T == {j \in Nat : j <= n => F[j] <= G[j]}
<1>4. 0 \in T
  BY <1>1, <1>2
<1>5. ASSUME NEW i \in 0..(n - 1), i \in T PROVE i + 1 \in T
  <2>1. i + 1 \in 1..n /\ (i + 1) - 1 = i /\ i \in Nat /\ i <= n /\ i \in 0..n
    BY <1>3
  <2>2. F[i + 1] = F[i] + s[i + 1] /\ G[i + 1] = G[i] + t[i + 1] /\ F[i] <= G[i] /\ F[i] \in Nat /\ G[i] \in Nat
    BY <1>1, <1>2, <1>5, <2>1
  <2>3. s[i + 1] \in Nat /\ t[i + 1] \in Nat /\ s[i + 1] <= t[i + 1]
    BY <1>3, <2>1
  <2>4. F[i + 1] <= G[i + 1]
    <3> DEFINE f == F[i]
               g == G[i]
               a == s[i + 1]
               b == t[i + 1]
    <3>1. f \in Nat /\ g \in Nat /\ a \in Nat /\ b \in Nat /\ f <= g /\ a <= b
      BY <2>2, <2>3
    <3> HIDE DEF f, g, a, b
    <3>2. f + a <= g + b
      BY ONLY <3>1
    <3> QED BY <2>2, <3>2 DEF f, g, a, b
  <2> QED BY <2>1, <2>4
<1> HIDE DEF T
<1>6. 0..n \subseteq T
  BY <1>3, <1>4, <1>5, UpTo
<1>7. n \in 0..n
  BY <1>3
<1>8. F[n] <= G[n] /\ F[n] \in Nat /\ G[n] \in Nat
  BY <1>1, <1>2, <1>3, <1>6, <1>7 DEF T
<1> QED BY <1>8 DEF Sum, F, G, n

(* The places a pattern cuts at: they move on, and reach every number. *)
SizeAt(pat, j) == pat[((j - 1) % Len(pat)) + 1]
(* F are the places where the cuts fall when the sizes of the pattern come round and round. *)
ArePlaces(F, total, pat) ==
  /\ F[1] = 0 /\ \A j \in 2..total + 1 : F[j] = F[j - 1] + SizeAt(pat, j - 1)

(* No size is 0, so every cut lies at least one sample behind the one before it. *)
LEMMA PlacesGrow ==
  ASSUME NEW total \in Nat, NEW pat \in Seq(Nat \ {0}), pat # <<>>, NEW F, ArePlaces(F, total, pat)
  PROVE  /\ \A j \in Nat : SizeAt(pat, j + 1) \in Nat \ {0}
         /\ \A j \in 1..total + 1 : F[j] \in Nat /\ F[j] >= j - 1
         /\ \A j \in 1..total : F[j + 1] = F[j] + SizeAt(pat, j) /\ SizeAt(pat, j) \in Nat \ {0}
<1>1. ASSUME NEW j \in Nat PROVE SizeAt(pat, j + 1) \in Nat \ {0}
  <2>1. Len(pat) \in Nat \ {0}
    BY DEF SizeAt
  <2> DEFINE k == Len(pat)
             r == ((j + 1) - 1) % k
  <2>2. r \in 0..k - 1
    <3> HIDE DEF k
    <3>1. k \in Nat \ {0}
      BY <2>1 DEF k
    <3>2. (j + 1) - 1 \in Nat
      OBVIOUS
    <3> QED BY <3>1, <3>2
  <2> HIDE DEF r
  <2>3. r + 1 \in 1..Len(pat)
    BY <2>1, <2>2
  <2>4. pat[r + 1] \in Nat \ {0}
    BY <2>3
  <2> QED BY <2>4 DEF SizeAt, r
<1>2. ASSUME NEW j \in 1..total PROVE F[j + 1] = F[j] + SizeAt(pat, j) /\ SizeAt(pat, j) \in Nat \ {0}
  <2>1. j + 1 \in 2..total + 1 /\ (j + 1) - 1 = j /\ j - 1 \in Nat /\ (j - 1) + 1 = j
    OBVIOUS
  <2>2. SizeAt(pat, j) \in Nat \ {0}
    BY <2>1, <1>1
  <2>3. F[j + 1] = F[(j + 1) - 1] + SizeAt(pat, (j + 1) - 1)
    BY <2>1 DEF ArePlaces
  <2> QED BY <2>1, <2>2, <2>3
<1> DEFINE T == {j \in Nat : j <= total => F[j + 1] \in Nat /\ F[j + 1] >= j}
<1>3. 0 \in T
  BY DEF ArePlaces
<1>4. ASSUME NEW i \in 0..(total - 1), i \in T PROVE i + 1 \in T
  <2>1. i + 1 \in 1..total /\ F[i + 1] \in Nat /\ F[i + 1] >= i /\ i \in Nat
    BY <1>4
  <2>2. F[(i + 1) + 1] = F[i + 1] + SizeAt(pat, i + 1) /\ SizeAt(pat, i + 1) \in Nat \ {0}
    BY <1>2, <2>1
  <2> DEFINE a == F[i + 1]
             b == SizeAt(pat, i + 1)
  <2>3. a \in Nat /\ a >= i /\ b \in Nat \ {0} /\ i \in Nat
    BY <2>1, <2>2
  <2> HIDE DEF a, b
  <2>4. a + b \in Nat /\ a + b >= i + 1
    BY ONLY <2>3
  <2>5. F[(i + 1) + 1] \in Nat /\ F[(i + 1) + 1] >= i + 1
    BY <2>2, <2>4 DEF a, b
  <2> QED BY <2>1, <2>5
<1> HIDE DEF T
<1>5. 0..total \subseteq T
  BY <1>3, <1>4, UpTo
<1>6. ASSUME NEW j \in 1..total + 1 PROVE F[j] \in Nat /\ F[j] >= j - 1
  <2>1. j - 1 \in 0..total /\ (j - 1) + 1 = j /\ j - 1 <= total
    OBVIOUS
  <2> QED BY <1>5, <2>1 DEF T
<1> QED BY <1>1, <1>2, <1>6

(* Those before the end are the first ones. *)
LEMMA PlacesBefore ==
  ASSUME NEW total \in Nat, NEW pat \in Seq(Nat \ {0}), pat # <<>>, NEW F, ArePlaces(F, total, pat)
  PROVE  \E n \in 0..total : {j \in 1..total : F[j] < total} = 1..n /\ F[n + 1] >= total
<1>1. /\ \A j \in 1..total + 1 : F[j] \in Nat /\ F[j] >= j - 1
      /\ \A j \in 1..total : F[j + 1] = F[j] + SizeAt(pat, j) /\ SizeAt(pat, j) \in Nat \ {0}
  BY PlacesGrow
<1> DEFINE U == {i \in 0..total : F[i + 1] >= total}
<1>2. total \in U
  <2>1. total + 1 \in 1..total + 1 /\ (total + 1) - 1 = total /\ total \in 0..total
    OBVIOUS
  <2>2. F[total + 1] >= (total + 1) - 1
    BY <1>1, <2>1
  <2> QED BY <2>1, <2>2
<1>3. PICK n \in U : \A y \in U : n <= y
  <2>1. U \subseteq Nat /\ U # {}
    <3>1. U \subseteq 0..total
      OBVIOUS
    <3> HIDE DEF U
    <3> QED BY <1>2, <3>1
  <2> HIDE DEF U
  <2> QED BY <2>1, LeastNat
<1>4. n \in 0..total /\ F[n + 1] >= total
  BY <1>3
<1>5. ASSUME NEW j \in 1..n PROVE j \in 1..total /\ F[j] < total
  <2>1. j - 1 \in 0..total /\ j - 1 < n /\ (j - 1) + 1 = j /\ j \in 1..total /\ j \in 1..total + 1
    BY <1>4
  <2>2. j - 1 \notin U
    <3> HIDE DEF U
    <3>1. n \in Nat /\ j - 1 \in Nat /\ ~(n <= j - 1)
      BY <1>4, <2>1
    <3> QED BY <1>3, <3>1
  <2>3. ~(F[j] >= total)
    BY <2>1, <2>2
  <2>4. F[j] \in Nat
    BY <1>1, <2>1
  <2> QED BY <2>1, <2>3, <2>4
<1> DEFINE T == {d \in Nat : (n + 1) + d <= total + 1 => F[(n + 1) + d] >= total}
<1> HIDE DEF U
<1>6. 0 \in T
  <2>1. (n + 1) + 0 = n + 1
    BY <1>4
  <2> QED BY <1>4, <2>1
<1>7. ASSUME NEW d \in Nat, d \in T PROVE d + 1 \in T
  <2> SUFFICES ASSUME (n + 1) + (d + 1) <= total + 1 PROVE F[(n + 1) + (d + 1)] >= total
    OBVIOUS
  <2> DEFINE j == (n + 1) + d
  <2>1. j \in 1..total /\ (n + 1) + (d + 1) = j + 1 /\ j \in 1..total + 1 /\ j <= total + 1
    BY <1>4
  <2>2. F[j] >= total /\ F[j] \in Nat /\ F[j + 1] = F[j] + SizeAt(pat, j) /\ SizeAt(pat, j) \in Nat
    BY <1>1, <1>7, <2>1
  <2> DEFINE a == F[j]
             b == SizeAt(pat, j)
  <2>3. a \in Nat /\ b \in Nat /\ a >= total
    BY <2>2
  <2> HIDE DEF a, b, j
  <2>4. a + b >= total
    BY ONLY <2>3, total \in Nat
  <2> QED BY <2>1, <2>2, <2>4 DEF a, b
<1> HIDE DEF T
<1>8. Nat \subseteq T
  BY <1>6, <1>7, AllNat
<1>9. ASSUME NEW j \in 1..total, F[j] < total PROVE j \in 1..n
  <2> SUFFICES ASSUME j > n PROVE FALSE
    BY <1>4
  <2>1. j - (n + 1) \in Nat /\ (n + 1) + (j - (n + 1)) = j /\ j <= total + 1 /\ j \in 1..total + 1
    BY <1>4
  <2>2. F[j] >= total
    BY <1>8, <2>1 DEF T
  <2>3. F[j] \in Nat
    BY <1>1, <2>1
  <2> QED BY <1>9, <2>2, <2>3
<1>10. {j \in 1..total : F[j] < total} = 1..n
  BY <1>5, <1>9
<1> QED BY <1>4, <1>10

(* make_chunks cuts a length into positive sizes that add up to it. *)
LEMMA ChunksAre ==
  ASSUME NEW total \in Nat, NEW pat \in Seq(Nat \ {0}), pat # <<>>
  PROVE  /\ make_chunks(total, pat) \in Seq(Nat) /\ Sum(make_chunks(total, pat)) = total
         /\ \A j \in 1..Len(make_chunks(total, pat)) : make_chunks(total, pat)[j] > 0
<1> DEFINE Rhs(f) == [j \in 1..total + 1 |-> IF j = 1 THEN 0 ELSE f[j - 1] + SizeAt(pat, j - 1)]
           F == CHOOSE f : f = Rhs(f)
           step == [q \in (1..total) \X Nat |-> q[2] + SizeAt(pat, q[1])]
<1>1. \A j \in 1..total : SizeAt(pat, j) \in Nat
  <2> TAKE j \in 1..total
  <2> DEFINE k == Len(pat)
             r == (j - 1) % k
  <2>1. k \in Nat \ {0}
    OBVIOUS
  <2>2. r \in 0..k - 1
    <3> HIDE DEF k
    <3>2. j - 1 \in Nat
      OBVIOUS
    <3> QED BY <2>1, <3>2
  <2> HIDE DEF r
  <2>3. r + 1 \in 1..Len(pat)
    BY <2>1, <2>2
  <2>4. pat[r + 1] \in Nat
    BY <2>3
  <2> QED BY <2>4 DEF SizeAt, r
<1>2. \A j \in 1..total, x \in Nat : step[<<j, x>>] = x + SizeAt(pat, j)
  OBVIOUS
<1> HIDE DEF step
<1>3. PICK g \in [0..total -> Nat] : Recurs(g, 0, total, step)
  <2>1. \A j \in 1..total, x \in Nat : x + SizeAt(pat, j) \in Nat
    BY <1>1
  <2>2. StepsIn(step, total, Nat)
    BY <2>1, <1>2, Zenon DEF StepsIn
  <2>3. 0 \in Nat
    OBVIOUS
  <2> QED BY <2>2, <2>3, Recursion
<1> DEFINE h == [j \in 1..total + 1 |-> g[j - 1]]
<1>4. h = Rhs(h)
  <2>1. ASSUME NEW j \in 1..total PROVE g[j] = g[j - 1] + SizeAt(pat, j)
    <3>1. g[j - 1] \in Nat
      BY <1>3
    <3>2. g[j] = step[<<j, g[j - 1]>>]
      BY <1>3 DEF Recurs
    <3> QED BY <3>1, <3>2, <1>2
  <2>2. ASSUME NEW j \in 1..total + 1 PROVE g[j - 1] = IF j = 1 THEN 0 ELSE h[j - 1] + SizeAt(pat, j - 1)
    <3>1. CASE j = 1
      BY <3>1, <1>3 DEF Recurs
    <3>2. CASE j # 1
      <4>1. j - 1 \in 1..total /\ j - 1 \in 1..total + 1
        BY <3>2
      <4>2. h[j - 1] = g[(j - 1) - 1]
        BY <4>1
      <4>3. g[j - 1] = g[(j - 1) - 1] + SizeAt(pat, j - 1)
        BY <2>1, <4>1
      <4> QED BY <3>2, <4>2, <4>3
    <3> QED BY <3>1, <3>2
  <2> QED BY <2>2
<1>5. F = Rhs(F)
  BY <1>4
<1> HIDE DEF h
<1>6. make_chunks(total, pat) =
        [j \in 1..Cardinality({j \in 1..total : F[j] < total}) |-> Minimum(SizeAt(pat, j), total - F[j])]
  BY DEF make_chunks, SizeAt
<1> HIDE DEF F
<1>7. ArePlaces(F, total, pat)
  <2>1. F[1] = 0
    BY <1>5
  <2>2. \A j \in 2..total + 1 : j \in 1..total + 1 /\ j # 1
    OBVIOUS
  <2> QED BY <1>5, <2>1, <2>2 DEF ArePlaces
<1>8. PICK n \in 0..total : {j \in 1..total : F[j] < total} = 1..n /\ F[n + 1] >= total
  BY <1>7, PlacesBefore
<1>9. Cardinality(1..n) = n
  <2>1. CASE n = 0
    <3>1. 1..n = {}
      BY <2>1
    <3> QED BY <2>1, <3>1, FS_EmptySet
  <2>2. CASE n # 0
    <3>1. 1 \in Int /\ n \in Int /\ ~(1 > n)
      BY <2>2
    <3>2. Cardinality(1..n) = n - 1 + 1
      BY <3>1, FS_Interval
    <3> QED BY <3>2
  <2> QED BY <2>1, <2>2
<1> DEFINE z == make_chunks(total, pat)
<1>10. z = [j \in 1..n |-> Minimum(SizeAt(pat, j), total - F[j])]
  BY <1>6, <1>8, <1>9
<1> HIDE DEF z
<1>11. /\ \A j \in 1..total + 1 : F[j] \in Nat
       /\ \A j \in 1..total : F[j + 1] = F[j] + SizeAt(pat, j) /\ SizeAt(pat, j) \in Nat \ {0}
  BY <1>7, PlacesGrow
<1>12. ASSUME NEW j \in 1..n
       PROVE  /\ F[j] \in Nat /\ F[j] < total /\ F[j + 1] \in Nat
              /\ z[j] \in Nat /\ z[j] > 0 /\ F[j] + z[j] = Minimum(F[j + 1], total)
  <2>1. j \in 1..total /\ j \in 1..total + 1 /\ j + 1 \in 1..total + 1 /\ F[j] < total
    BY <1>8
  <2> DEFINE a == F[j]
             b == SizeAt(pat, j)
  <2>2. a \in Nat /\ b \in Nat \ {0} /\ a < total /\ F[j + 1] = a + b /\ z[j] = Minimum(b, total - a)
    BY <1>10, <1>11, <2>1
  <2> HIDE DEF a, b
  <2>3. Minimum(b, total - a) \in Nat /\ Minimum(b, total - a) > 0 /\ a + Minimum(b, total - a) = Minimum(a + b, total) /\ a + b \in Nat
    BY ONLY <2>2, total \in Nat DEF Minimum
  <2> QED BY <2>2, <2>3 DEF a
<1>13. z \in Seq(Nat) /\ Len(z) = n
  <2>1. z \in [1..n -> Nat]
    BY <1>10, <1>12
  <2> QED BY <2>1, <1>10
<1>14. Sums(z) \in [0..n -> Nat] /\ Sums(z)[0] = 0 /\ \A j \in 1..n : Sums(z)[j] = Sums(z)[j - 1] + z[j]
  BY <1>13, SumsAre
<1> DEFINE T == {j \in Nat : j <= n => Sums(z)[j] = Minimum(F[j + 1], total)}
<1>15. 0 \in T
  <2>1. F[0 + 1] = 0 /\ Minimum(0, total) = 0
    BY <1>7 DEF ArePlaces, Minimum
  <2> QED BY <2>1, <1>14
<1>16. ASSUME NEW i \in 0..(n - 1), i \in T PROVE i + 1 \in T
  <2> DEFINE j == i + 1
  <2>1. j \in 1..n /\ j - 1 = i /\ i \in Nat /\ i <= n
    BY <1>8
  <2>2. Sums(z)[i] = Minimum(F[j], total) /\ Sums(z)[j] = Sums(z)[i] + z[j]
    BY <1>14, <1>16, <2>1
  <2> HIDE DEF j
  <2>3. F[j] \in Nat /\ F[j] < total /\ F[j] + z[j] = Minimum(F[j + 1], total)
    BY <1>12, <2>1
  <2>4. Minimum(F[j], total) = F[j]
    BY <2>3 DEF Minimum
  <2>5. Sums(z)[j] = Minimum(F[j + 1], total)
    BY <2>2, <2>3, <2>4
  <2> QED BY <2>1, <2>5 DEF j
<1> HIDE DEF T
<1>17. 0..n \subseteq T
  <2>1. n \in Nat
    BY <1>8
  <2> QED BY ONLY <2>1, <1>15, <1>16, UpTo
<1>18. Sums(z)[n] = total
  <2>1. n \in T /\ n \in Nat
    BY <1>8, <1>17
  <2>2. Sums(z)[n] = Minimum(F[n + 1], total)
    BY <2>1 DEF T
  <2>3. F[n + 1] \in Nat
    <3>1. n + 1 \in 1..total + 1
      BY <1>8
    <3> QED BY <3>1, <1>11
  <2>4. F[n + 1] >= total
    BY <1>8
  <2>5. ~(F[n + 1] < total)
    BY <2>3, <2>4
  <2> QED BY <2>2, <2>5 DEF Minimum
<1> QED BY <1>12, <1>13, <1>18 DEF Sum, z

-----------------------------------------------------------------------------
(* A block between two chunks                                                *)

(* No part is empty. *)
NoEmpty(parts) == \A j \in 1..Len(parts) : parts[j] # <<>>

(* FeedCovers of a feed. *)
CoversOf(f) ==
  LET parts == Split(Iota(0, f.frames), f.sizes)
  IN  f.frames = Sum([j \in 1..Len(parts) |-> IF parts[j] = <<>> THEN 0 ELSE f.sizes[j]])

(* The chunks that enter block b are the signal there, from its start; all of it unless the *)
(* sizes given do not cover the codes.  Behind the first block no chunk is empty. *)
FedTo(p, f, b, E) == E \in Nat /\ E <= InLen(p, b, f.frames) /\ ((b > 1 \/ p = "gate" \/ CoversOf(f)) => E = InLen(p, b, f.frames))
(* ... as the list of chunks the block gets. *)
Fed(p, f, b, ins) ==
  /\ ins \in Seq(Seq(Int))
  /\ \E E \in Nat : Cat(ins) = Iota(0, E) /\ FedTo(p, f, b, E)
  /\ (b > 1 /\ p \notin {"emit", "gate"}) => NoEmpty(ins)

(* What a block keeps, and how much it has put out, behind m samples. *)
StateOf(p, l, m, s) ==
  /\ l.kind = "conv" => s = Hist(l.pad, m)
  /\ l.kind = "attn" => \A w \in 1..Len(l.wins) : IsPast(s[w], m, l.wins[w])
  /\ l.kind = "tconv" => s = IF p = "collect" THEN CollectState(l, m) ELSE EmitState(l, m)
(* ... the samples it has put out. *)
OutBy(p, l, m) ==
  IF l.kind \in {"fork", "join"} \/ (l.kind = "tconv" /\ p = "collect") THEN 0 ELSE Through(l, m)

(* Between two chunks of block b: the next is chunk c. *)
AtChunk(p, l, ins, c, s, o) ==
  /\ StateOf(p, l, At(ins, c - 1), s)
  /\ Cat(o) = Iota(0, OutBy(p, l, At(ins, c - 1)))
  /\ (l.kind \in {"conv", "attn"} /\ (p = "gate" \/ NoEmpty(ins))) => o = SubSeq(ins, 1, c - 1)
(* ... with what the earlier blocks handed over and what the residual path holds: the state of a run  *)
(* between two chunks of a block.                                                                     *)
BlockInv(p, f, b, ins, c, s, o, r) ==
  /\ b \in 1..Len(Stack(p)) + 1 /\ Fed(p, f, b, ins) /\ c \in 1..Len(ins) + 1
  /\ o \in Seq(Seq(Int)) /\ (p \notin {"emit", "gate"} => NoEmpty(o))
  /\ r = IF InResidual(p, b) THEN <<ins>> ELSE <<>>
  /\ b <= Len(Stack(p)) => AtChunk(p, Stack(p)[b], ins, c, s, o)

(* A network, block by block. *)
LEMMA Network ==
  ASSUME NEW p \in Programs
  PROVE  /\ Len(Stack(p)) \in Nat \ {0}
         /\ \A b \in 1..Len(Stack(p)) :
              /\ IsBlock(Stack(p)[b])
              /\ Stack(p)[b].kind \in {"conv", "attn", "tconv", "fork", "join"}
              /\ Stack(p)[b].kind = "fork" => b > 1 /\ p # "emit" /\ ~InResidual(p, b) /\ InResidual(p, b + 1)
              /\ Stack(p)[b].kind = "join" => b > 1 /\ InResidual(p, b) /\ ~InResidual(p, b + 1)
              /\ Stack(p)[b].kind = "tconv" => ~InResidual(p, b)
              /\ Stack(p)[b].kind \notin {"fork", "join"} => (InResidual(p, b + 1) <=> InResidual(p, b))
              /\ InResidual(p, b) => b > 1 /\ p # "emit"
<1>1. /\ Len(Stack(p)) \in Nat \ {0}
      /\ \A b \in 1..Len(Stack(p)) :
           /\ IsBlock(Stack(p)[b])
           /\ Stack(p)[b].kind = "fork" => b > 1 /\ p # "emit" /\ ~InResidual(p, b)
           /\ Stack(p)[b].kind = "join" => InResidual(p, b)
           /\ Stack(p)[b].kind = "tconv" => ~InResidual(p, b)
  BY StackAssumption DEF IsNetwork
<1>2. ASSUME NEW b \in 1..Len(Stack(p))
      PROVE  /\ Stack(p)[b].kind = "fork" => InResidual(p, b + 1)
             /\ Stack(p)[b].kind = "join" /\ InResidual(p, b) => b > 1
             /\ Stack(p)[b].kind \notin {"fork", "join"} => (InResidual(p, b + 1) <=> InResidual(p, b))
             /\ InResidual(p, b) => b > 1 /\ p # "emit"
  <2>0. b \in Nat /\ b >= 1 /\ (b + 1) - 1 = b /\ b <= Len(Stack(p)) /\ Len(Stack(p)) \in Nat
    BY <1>1
  <2>1. Stack(p)[b].kind = "fork" => InResidual(p, b + 1)
    <3>1. b \in 1..b /\ b + 1..b = {}
      BY <2>0
    <3> QED BY <2>0, <3>1 DEF InResidual
  <2>2. InResidual(p, b) => b > 1 /\ p # "emit"
    <3> SUFFICES ASSUME InResidual(p, b) PROVE b > 1 /\ p # "emit"
      OBVIOUS
    <3>1. PICK g \in 1..b - 1 : Stack(p)[g].kind = "fork"
      BY DEF InResidual
    <3>2. g \in 1..Len(Stack(p)) /\ b > 1
      BY <2>0, <3>1
    <3> QED BY <1>1, <3>1, <3>2
  <2>3. ASSUME Stack(p)[b].kind \notin {"fork", "join"}, InResidual(p, b + 1) PROVE InResidual(p, b)
    <3>1. PICK g \in 1..b : Stack(p)[g].kind = "fork" /\ \A j \in g + 1..b : Stack(p)[j].kind # "join"
      BY <2>0, <2>3 DEF InResidual
    <3>2. g # b
      BY <2>3, <3>1
    <3>3. g \in 1..b - 1 /\ \A j \in g + 1..b - 1 : j \in g + 1..b
      BY <2>0, <3>1, <3>2
    <3> QED BY <3>1, <3>3 DEF InResidual
  <2>4. ASSUME Stack(p)[b].kind \notin {"fork", "join"}, InResidual(p, b) PROVE InResidual(p, b + 1)
    <3>1. PICK g \in 1..b - 1 : Stack(p)[g].kind = "fork" /\ \A j \in g + 1..b - 1 : Stack(p)[j].kind # "join"
      BY <2>4 DEF InResidual
    <3>2. g \in 1..b /\ \A j \in g + 1..b : j = b \/ j \in g + 1..b - 1
      BY <2>0, <3>1
    <3>3. \A j \in g + 1..b : Stack(p)[j].kind # "join"
      BY <3>1, <3>2, <2>4
    <3> QED BY <2>0, <3>1, <3>2, <3>3 DEF InResidual
  <2> QED BY <2>1, <2>2, <2>3, <2>4
<1>3. ASSUME NEW b \in 1..Len(Stack(p)), Stack(p)[b].kind = "join" PROVE ~InResidual(p, b + 1)
  <2> SUFFICES ASSUME InResidual(p, b + 1) PROVE FALSE
    OBVIOUS
  <2>0. b \in Nat /\ b >= 1 /\ (b + 1) - 1 = b /\ b <= Len(Stack(p)) /\ Len(Stack(p)) \in Nat
    BY <1>1
  <2>1. PICK g \in 1..b : Stack(p)[g].kind = "fork" /\ \A j \in g + 1..b : Stack(p)[j].kind # "join"
    BY <2>0 DEF InResidual
  <2>2. g # b
    BY <1>3, <2>1
  <2>3. b \in g + 1..b
    BY <2>0, <2>1, <2>2
  <2> QED BY <1>3, <2>1, <2>3
<1>4. \A b \in 1..Len(Stack(p)) : Stack(p)[b].kind \in {"conv", "attn", "tconv", "fork", "join"}
  BY <1>1 DEF IsBlock
<1> QED BY <1>1, <1>2, <1>3, <1>4

(* A block starts with the first of its chunks. *)
LEMMA BlockStarts ==
  ASSUME NEW p \in Programs, NEW f, NEW b \in 1..Len(Stack(p)) + 1, NEW ins, Fed(p, f, b, ins)
  PROVE  BlockInv(p, f, b, ins, 1, IF b <= Len(Stack(p)) THEN StartState(Stack(p)[b]) ELSE <<>>, <<>>,
                  IF InResidual(p, b) THEN <<ins>> ELSE <<>>)
<1> DEFINE s == IF b <= Len(Stack(p)) THEN StartState(Stack(p)[b]) ELSE <<>>
<1>1. ins \in Seq(Seq(Int)) /\ Len(ins) \in Nat /\ 1 \in 1..Len(ins) + 1
  BY DEF Fed
<1>2. <<>> \in Seq(Seq(Int)) /\ NoEmpty(<<>>)
  BY DEF NoEmpty
<1>3. ASSUME b <= Len(Stack(p)) PROVE AtChunk(p, Stack(p)[b], ins, 1, s, <<>>)
  <2> DEFINE l == Stack(p)[b]
  <2>1. b \in 1..Len(Stack(p)) /\ s = StartState(l)
    BY <1>3, Network
  <2>2. IsBlock(l)
    BY <2>1, Network
  <2>3. 1 - 1 = 0 /\ At(ins, 0) = 0
    <3>1. Upto(ins, 0) = <<>>
      BY <1>1, CatUpto
    <3> QED BY <3>1 DEF At
  <2> HIDE DEF l, s
  <2>4. StateOf(p, l, 0, s)
    <3>1. CASE l.kind = "conv"
      <4>1. s = Zeros(l.pad) /\ l.pad \in Nat
        BY <2>1, <2>2, <3>1 DEF StartState, IsBlock
      <4>2. Hist(l.pad, 0) = Zeros(l.pad)
        BY <4>1 DEF Hist, Zeros, Padded
      <4> QED BY <3>1, <4>1, <4>2 DEF StateOf
    <3>2. CASE l.kind = "attn"
      <4>1. s = [w \in 1..Len(l.wins) |-> <<>>]
        BY <2>1, <3>2 DEF StartState
      <4>2. \A w \in 1..Len(l.wins) : IsPast(s[w], 0, l.wins[w])
        BY <4>1, NoPast
      <4> QED BY <3>2, <4>2 DEF StateOf
    <3>3. CASE l.kind = "tconv"
      <4>1. s = EmitInit /\ IsTconv(l)
        BY <2>1, <2>2, <3>3 DEF StartState, IsBlock
      <4>2. s = EmitState(l, 0) /\ s = CollectState(l, 0)
        BY <4>1, NoInputs
      <4> QED BY <3>3, <4>2 DEF StateOf
    <3>4. CASE l.kind \notin {"conv", "attn", "tconv"}
      BY <3>4 DEF StateOf
    <3> QED BY <3>1, <3>2, <3>3, <3>4
  <2>5. OutBy(p, l, 0) = 0
    <3>1. CASE l.kind = "tconv"
      <4>1. IsTconv(l)
        BY <2>2, <3>1 DEF IsBlock
      <4>2. EmittedBy(l, 0) = 0
        BY <4>1, EmittedGrows
      <4>3. Through(l, 0) = EmittedBy(l, 0)
        BY <2>2, <3>1, ThroughIs
      <4> QED BY <4>2, <4>3 DEF OutBy
    <3>2. CASE l.kind # "tconv"
      BY <3>2 DEF OutBy, Through
    <3> QED BY <3>1, <3>2
  <2>6. Cat(<<>>) = Iota(0, 0)
    BY CatEmpty DEF Iota
  <2>7. SubSeq(ins, 1, 0) = <<>>
    BY <1>1
  <2> QED BY <2>3, <2>4, <2>5, <2>6, <2>7 DEF AtChunk, l
<1> HIDE DEF s
<1>4. BlockInv(p, f, b, ins, 1, s, <<>>, IF InResidual(p, b) THEN <<ins>> ELSE <<>>)
  BY <1>1, <1>2, <1>3 DEF BlockInv
<1> QED BY <1>4 DEF s

(* The next chunk goes on where the ones before it end. *)
LEMMA NextChunk ==
  ASSUME NEW p \in Programs, NEW f, NEW b, NEW ins, NEW c, c \in 1..Len(ins), Fed(p, f, b, ins),
         b \in 1..Len(Stack(p)), InLen(p, b, f.frames) \in Nat
  PROVE  LET m == At(ins, c - 1)  k == Len(ins[c])
         IN  /\ m \in Nat /\ k \in Nat /\ ins[c] = Iota(m, k) /\ At(ins, (c + 1) - 1) = m + k
             /\ m + k <= InLen(p, b, f.frames)
             /\ ins[c] = <<>> <=> k = 0
<1>1. PICK E \in Nat : Cat(ins) = Iota(0, E) /\ FedTo(p, f, b, E)
  BY DEF Fed
<1>2. ins \in Seq(Seq(Int)) /\ Len(ins) \in Nat
  BY DEF Fed
<1>3. /\ \A j \in 0..Len(ins) : At(ins, j) \in Nat /\ At(ins, j) <= E
      /\ \A j \in 1..Len(ins) : /\ ins[j] = Iota(At(ins, j - 1), Len(ins[j])) /\ Len(ins[j]) \in Nat
                                /\ At(ins, j) = At(ins, j - 1) + Len(ins[j])
  BY <1>1, <1>2, Tiling
<1>4. c \in 0..Len(ins) /\ c - 1 \in 0..Len(ins) /\ (c + 1) - 1 = c
  BY <1>2
<1> DEFINE m == At(ins, c - 1)
           k == Len(ins[c])
           a == At(ins, c)
           L == InLen(p, b, f.frames)
<1>5. m \in Nat /\ k \in Nat /\ a \in Nat /\ a <= E /\ ins[c] = Iota(m, k) /\ a = m + k /\ E <= L /\ L \in Nat
  BY <1>1, <1>3, <1>4 DEF FedTo
<1>6. ins[c] = <<>> <=> k = 0
  <2>1. ins[c] \in Seq(Int)
    BY <1>2
  <2> QED BY <2>1
<1> HIDE DEF m, k, a, L
<1>7. m + k <= L
  BY <1>5
<1> QED BY <1>4, <1>5, <1>6, <1>7 DEF m, k, a, L

(* A block in the middle of its chunks. *)
Inside(p, f, b, ins, c, s, o, r) ==
  /\ p \in Programs /\ f \in Feeds(p) /\ BlockInv(p, f, b, ins, c, s, o, r)
  /\ b \in 1..Len(Stack(p)) /\ c \in 1..Len(ins)

(* What is known there. *)
LEMMA InsideIs ==
  ASSUME NEW p, NEW f, NEW b, NEW ins, NEW c, NEW s, NEW o, NEW r, Inside(p, f, b, ins, c, s, o, r)
  PROVE  LET m == At(ins, c - 1)  k == Len(ins[c])  l == Stack(p)[b]  n == InLen(p, b, f.frames)
         IN  /\ m \in Nat /\ k \in Nat /\ n \in Nat /\ m + k <= n
             /\ ins[c] = Iota(m, k) /\ At(ins, (c + 1) - 1) = m + k /\ (ins[c] = <<>> <=> k = 0)
             /\ IsBlock(l) /\ AtChunk(p, l, ins, c, s, o)
             /\ o \in Seq(Seq(Int)) /\ (p \notin {"emit", "gate"} => NoEmpty(o))
             /\ ins \in Seq(Seq(Int)) /\ c + 1 \in 1..Len(ins) + 1 /\ c \in Nat \ {0} /\ c <= Len(ins)
<1>1. p \in Programs /\ b \in 1..Len(Stack(p)) /\ c \in 1..Len(ins) /\ f \in Feeds(p) /\ BlockInv(p, f, b, ins, c, s, o, r)
  BY DEF Inside
<1>2. Fed(p, f, b, ins) /\ o \in Seq(Seq(Int)) /\ (p \notin {"emit", "gate"} => NoEmpty(o)) /\ Len(Stack(p)) \in Nat
  BY <1>1, Network DEF BlockInv
<1>3. AtChunk(p, Stack(p)[b], ins, c, s, o)
  <2>1. b <= Len(Stack(p))
    BY <1>1, <1>2
  <2> QED BY <1>1, <2>1 DEF BlockInv
<1>4. ins \in Seq(Seq(Int))
  BY <1>2 DEF Fed
<1>5. f.frames \in Nat
  BY <1>1, StackAssumption DEF IsFeed
<1>6. InLen(p, b, f.frames) \in Nat
  <2>1. b \in 1..Len(Stack(p)) + 1
    BY <1>1, <1>2
  <2> QED BY <1>1, <1>5, <2>1, InLenIs
<1>7. /\ At(ins, c - 1) \in Nat /\ Len(ins[c]) \in Nat /\ ins[c] = Iota(At(ins, c - 1), Len(ins[c]))
      /\ At(ins, (c + 1) - 1) = At(ins, c - 1) + Len(ins[c])
      /\ At(ins, c - 1) + Len(ins[c]) <= InLen(p, b, f.frames)
      /\ ins[c] = <<>> <=> Len(ins[c]) = 0
  BY <1>1, <1>2, <1>6, NextChunk
<1>8. IsBlock(Stack(p)[b])
  BY <1>1, Network
<1>9. c + 1 \in 1..Len(ins) + 1 /\ c \in Nat \ {0} /\ c <= Len(ins)
  BY <1>1, <1>4
<1> QED BY <1>2, <1>3, <1>4, <1>6, <1>7, <1>8, <1>9

(* The invariant behind the chunk. *)
LEMMA BehindChunk ==
  ASSUME NEW p, NEW f, NEW b, NEW ins, NEW c, NEW s, NEW o, NEW r, Inside(p, f, b, ins, c, s, o, r),
         NEW t, NEW q, q \in Seq(Seq(Int)), p \notin {"emit", "gate"} => NoEmpty(q),
         AtChunk(p, Stack(p)[b], ins, c + 1, t, q)
  PROVE  BlockInv(p, f, b, ins, c + 1, t, q, r)
<1>1. BlockInv(p, f, b, ins, c, s, o, r) /\ c + 1 \in 1..Len(ins) + 1
  BY InsideIs DEF Inside
<1> QED BY <1>1 DEF BlockInv

(* An empty chunk is passed over. *)
LEMMA SkipKeeps ==
  ASSUME NEW p, NEW f, NEW b, NEW ins, NEW c, NEW s, NEW o, NEW r, Inside(p, f, b, ins, c, s, o, r),
         p # "gate", ins[c] = <<>>
  PROVE  BlockInv(p, f, b, ins, c + 1, s, o, r)
<1> DEFINE m == At(ins, c - 1)
           k == Len(ins[c])
           l == Stack(p)[b]
<1>1. /\ m \in Nat /\ k = 0 /\ At(ins, (c + 1) - 1) = m + k /\ AtChunk(p, l, ins, c, s, o)
      /\ o \in Seq(Seq(Int)) /\ (p \notin {"emit", "gate"} => NoEmpty(o)) /\ c \in 1..Len(ins)
  BY InsideIs DEF Inside
<1>2. At(ins, (c + 1) - 1) = At(ins, c - 1)
  BY <1>1
<1>3. ~NoEmpty(ins)
  BY <1>1 DEF NoEmpty
<1>4. AtChunk(p, l, ins, c + 1, s, o)
  BY <1>1, <1>2, <1>3 DEF AtChunk
<1> QED BY <1>1, <1>4, BehindChunk

(* A chunk put out at its place. *)
LEMMA PutOut ==
  ASSUME NEW o \in Seq(Seq(Int)), NEW a \in Nat, NEW d \in Nat, Cat(o) = Iota(0, a)
  PROVE  /\ Append(o, Iota(a, d)) \in Seq(Seq(Int)) /\ Cat(Append(o, Iota(a, d))) = Iota(0, a + d)
         /\ (NoEmpty(o) /\ d # 0) => NoEmpty(Append(o, Iota(a, d)))
<1> DEFINE x == Iota(a, d)
           q == Append(o, x)
           Q == Seq(Int)
<1>1. x \in Seq(Int) /\ Len(x) = d
  <2>1. a \in Int
    OBVIOUS
  <2> QED BY <2>1, IotaIs
<1>2. q \in Seq(Seq(Int)) /\ Cat(q) = Cat(o) \o x
  BY <1>1, CatAppend
<1>3. Iota(0, a) \o x = Iota(0, a + d)
  <2> DEFINE z == 0
  <2>1. z \in Int /\ z + a = a
    OBVIOUS
  <2> HIDE DEF z
  <2>2. Iota(z, a) \o Iota(z + a, d) = Iota(z, a + d)
    BY <2>1, IotaCat
  <2> QED BY <2>1, <2>2 DEF z
<1>4. ASSUME NoEmpty(o), d # 0 PROVE NoEmpty(q)
  <2>1. x # <<>>
    BY <1>1, <1>4
  <2> HIDE DEF x, Q
  <2>2. o \in Seq(Q) /\ x \in Q
    BY <1>1 DEF Q
  <2>3. Len(q) = Len(o) + 1 /\ Len(o) \in Nat /\ q[Len(o) + 1] = x /\ \A j \in 1..Len(o) : q[j] = o[j]
    BY <2>2
  <2> HIDE DEF q
  <2>4. \A j \in 1..Len(o) + 1 : j \in 1..Len(o) \/ j = Len(o) + 1
    BY <2>3
  <2> QED BY <1>4, <2>1, <2>3, <2>4 DEF NoEmpty
<1> HIDE DEF x, q
<1>5. Cat(q) = Iota(0, a + d)
  BY <1>2, <1>3
<1> QED BY <1>2, <1>4, <1>5 DEF x, q

(* A block that hands every chunk on. *)
LEMMA HandsOn ==
  ASSUME NEW p, NEW f, NEW b, NEW ins, NEW c, NEW s, NEW o, NEW r, Inside(p, f, b, ins, c, s, o, r),
         p = "gate" \/ ins[c] # <<>>, Stack(p)[b].kind \in {"conv", "attn"},
         NEW t, StateOf(p, Stack(p)[b], At(ins, c - 1) + Len(ins[c]), t)
  PROVE  BlockInv(p, f, b, ins, c + 1, t, Append(o, ins[c]), r)
<1> DEFINE m == At(ins, c - 1)
           k == Len(ins[c])
           l == Stack(p)[b]
           q == Append(o, ins[c])
<1>1. /\ m \in Nat /\ k \in Nat /\ At(ins, (c + 1) - 1) = m + k /\ AtChunk(p, l, ins, c, s, o) /\ ins[c] = Iota(m, k)
      /\ o \in Seq(Seq(Int)) /\ (p \notin {"emit", "gate"} => NoEmpty(o)) /\ c \in 1..Len(ins) /\ c \in Nat \ {0}
      /\ (ins[c] = <<>> <=> k = 0) /\ IsBlock(l) /\ ins \in Seq(Seq(Int)) /\ c <= Len(ins)
  BY InsideIs DEF Inside
<1>2. \A n \in Nat : OutBy(p, l, n) = n
  BY DEF OutBy, Through
<1>3. Cat(o) = Iota(0, m)
  BY <1>1, <1>2 DEF AtChunk
<1>4. q \in Seq(Seq(Int)) /\ Cat(q) = Iota(0, m + k) /\ ((NoEmpty(o) /\ k # 0) => NoEmpty(q))
  <2> HIDE DEF m, k
  <2>1. Append(o, Iota(m, k)) \in Seq(Seq(Int)) /\ Cat(Append(o, Iota(m, k))) = Iota(0, m + k)
        /\ ((NoEmpty(o) /\ k # 0) => NoEmpty(Append(o, Iota(m, k))))
    BY <1>1, <1>3, PutOut
  <2> QED BY <1>1, <2>1
<1>5. p \notin {"emit", "gate"} => NoEmpty(q)
  BY <1>1, <1>4
<1>6. (p = "gate" \/ NoEmpty(ins)) => q = SubSeq(ins, 1, (c + 1) - 1)
  <2> SUFFICES ASSUME p = "gate" \/ NoEmpty(ins) PROVE q = SubSeq(ins, 1, (c + 1) - 1)
    OBVIOUS
  <2>1. o = SubSeq(ins, 1, c - 1)
    BY <1>1 DEF AtChunk
  <2> DEFINE Q == Seq(Int)
             h == c - 1
  <2>2. ins \in Seq(Q) /\ (c + 1) - 1 = c /\ h \in Nat /\ h + 1 = c /\ c <= Len(ins)
    <3>1. c \in Nat \ {0}
      BY <1>1
    <3>2. (c + 1) - 1 = c /\ h \in Nat /\ h + 1 = c
      BY ONLY <3>1
    <3> QED BY <1>1, <3>2
  <2> HIDE DEF Q, h
  <2>3. Append(SubSeq(ins, 1, h), ins[h + 1]) = SubSeq(ins, 1, h + 1)
    BY <2>2
  <2> QED BY <2>1, <2>2, <2>3 DEF h
<1>7. AtChunk(p, l, ins, c + 1, t, q)
  <2>1. OutBy(p, l, m + k) = m + k
    <3>0. m \in Nat /\ k \in Nat
      BY <1>1
    <3> HIDE DEF m, k, l
    <3>1. m + k \in Nat
      BY ONLY <3>0
    <3> QED BY <3>1, <1>2
  <2>2. At(ins, (c + 1) - 1) = m + k /\ StateOf(p, l, m + k, t)
    BY <1>1
  <2> HIDE DEF m, k, q, l
  <2> QED BY <1>4, <1>6, <2>1, <2>2 DEF AtChunk
<1> HIDE DEF q
<1>8. BlockInv(p, f, b, ins, c + 1, t, q, r)
  BY <1>4, <1>5, <1>7, BehindChunk
<1> QED BY <1>8 DEF q

(* A convolution does. *)
LEMMA ConvKeeps ==
  ASSUME NEW p, NEW f, NEW b, NEW ins, NEW c, NEW s, NEW o, NEW r, Inside(p, f, b, ins, c, s, o, r),
         p = "gate" \/ ins[c] # <<>>, Stack(p)[b].kind = "conv"
  PROVE  LET l == Stack(p)[b]  x == RefConvStep(l.pad, s, ins[c])
         IN  /\ GateConvStep(l.pad, s, ins[c]) = x
             /\ BlockInv(p, f, b, ins, c + 1, x.st, Append(o, x.y), r)
<1> DEFINE m == At(ins, c - 1)
           k == Len(ins[c])
           l == Stack(p)[b]
<1>1. m \in Nat /\ k \in Nat /\ ins[c] = Iota(m, k) /\ AtChunk(p, l, ins, c, s, o) /\ IsBlock(l)
  BY InsideIs
<1>2. s = Hist(l.pad, m) /\ l.pad \in Nat
  BY <1>1 DEF AtChunk, StateOf, IsBlock
<1> DEFINE x == [y |-> Iota(m, k), st |-> Hist(l.pad, m + k)]
<1>3. RefConvStep(l.pad, s, ins[c]) = x /\ GateConvStep(l.pad, s, ins[c]) = x
  <2> DEFINE pad == l.pad
  <2> HIDE DEF m, k, pad
  <2>1. pad \in Nat /\ s = Hist(pad, m) /\ ins[c] = Iota(m, k) /\ m \in Nat /\ k \in Nat
    BY <1>1, <1>2 DEF pad
  <2>2. /\ RefConvStep(pad, Hist(pad, m), Iota(m, k)) = [y |-> Iota(m, k), st |-> Hist(pad, m + k)]
        /\ GateConvStep(pad, Hist(pad, m), Iota(m, k)) = [y |-> Iota(m, k), st |-> Hist(pad, m + k)]
    BY <2>1, ConvSteps
  <2> QED BY <2>1, <2>2 DEF pad
<1>4. StateOf(p, l, m + k, x.st)
  BY DEF StateOf
<1>5. BlockInv(p, f, b, ins, c + 1, x.st, Append(o, ins[c]), r)
  <2> DEFINE t == x.st
  <2>1. StateOf(p, Stack(p)[b], At(ins, c - 1) + Len(ins[c]), t)
    BY <1>4
  <2> HIDE DEF t
  <2>2. BlockInv(p, f, b, ins, c + 1, t, Append(o, ins[c]), r)
    BY <2>1, HandsOn
  <2> QED BY <2>2 DEF t
<1>6. x.y = ins[c]
  BY <1>1
<1> HIDE DEF x
<1> QED BY <1>3, <1>5, <1>6

(* One more element. *)
LEMMA AppendIs ==
  ASSUME NEW n \in Nat, NEW e
  PROVE  Append([i \in 1..n |-> e[i]], e[n + 1]) = [i \in 1..n + 1 |-> e[i]]
<1> DEFINE S == {e[i] : i \in 1..n + 1}
           u == [i \in 1..n |-> e[i]]
<1>1. u \in Seq(S) /\ Len(u) = n /\ e[n + 1] \in S
  <2>1. \A i \in 1..n : i \in 1..n + 1
    OBVIOUS
  <2>2. n + 1 \in 1..n + 1
    OBVIOUS
  <2> QED BY <2>1, <2>2
<1>2. \A i \in 1..n : u[i] = e[i]
  OBVIOUS
<1> HIDE DEF S, u
<1> DEFINE v == Append(u, e[n + 1])
<1>3. v \in Seq(S) /\ Len(v) = n + 1 /\ v[n + 1] = e[n + 1] /\ \A i \in 1..n : v[i] = u[i]
  BY <1>1
<1> HIDE DEF v
<1>4. v = [i \in 1..Len(v) |-> v[i]]
  BY <1>3
<1>5. \A i \in 1..n + 1 : v[i] = e[i]
  <2>1. \A i \in 1..n + 1 : i \in 1..n \/ i = n + 1
    OBVIOUS
  <2> QED BY <1>2, <1>3, <2>1
<1>6. v = [i \in 1..n + 1 |-> e[i]]
  BY <1>3, <1>4, <1>5
<1> QED BY <1>6 DEF v, u

(* One attention layer, of either program. *)
LEMMA AttentionStepIs ==
  ASSUME NEW m \in Nat, NEW c \in Nat, NEW W \in Nat \ {0}, NEW past, IsPast(past, m, W)
  PROVE  /\ attention_step(W, past, Iota(m, c), m).y = Iota(m, c)
         /\ IsPast(attention_step(W, past, Iota(m, c), m).st, m + c, W)
<1>1. CASE prog = "gate"
  <2>1. attention_step(W, past, Iota(m, c), m) = GateAttnStep(W, past, Iota(m, c), m)
    BY <1>1 DEF attention_step
  <2> QED BY <2>1, AttnSteps
<1>2. CASE prog # "gate"
  <2>1. attention_step(W, past, Iota(m, c), m) = RefAttnStep(W, past, Iota(m, c), m)
    BY <1>2 DEF attention_step
  <2> QED BY <2>1, AttnSteps
<1> QED BY <1>1, <1>2

(* Layers and what they keep behind m samples. *)
AreLayers(layers, n, m) ==
  /\ n \in Nat /\ layers = [w \in 1..n |-> layers[w]] /\ Len(layers) = n
  /\ \A w \in 1..n : layers[w].win \in Nat \ {0} /\ IsPast(layers[w].past, m, layers[w].win)

(* A chunk behind all layers is the chunk, and every layer has its past. *)
LEMMA TransformedIs ==
  ASSUME NEW m \in Nat, NEW c \in Nat, NEW n, NEW layers, AreLayers(layers, n, m)
  PROVE  LET r == Transformed(layers, Iota(m, c), m)
         IN  r.y = Iota(m, c) /\ \A w \in 1..n : IsPast(r.st[w], m + c, layers[w].win)
<1> DEFINE x == Iota(m, c)
           Step(w, y) == attention_step(layers[w].win, layers[w].past, y, m)
           Rhs(f) == [w \in 0..n |-> IF w = 0 THEN [y |-> x, st |-> <<>>]
                                     ELSE [y |-> Step(w, f[w - 1].y).y, st |-> Append(f[w - 1].st, Step(w, f[w - 1].y).st)]]
           F == CHOOSE f : f = Rhs(f)
           e == [w \in 1..n |-> Step(w, x).st]
           g == [w \in 0..n |-> [y |-> x, st |-> [i \in 1..w |-> e[i]]]]
<1>0. n \in Nat /\ Len(layers) = n /\ \A w \in 1..n : layers[w].win \in Nat \ {0} /\ IsPast(layers[w].past, m, layers[w].win)
  BY DEF AreLayers
<1>1. ASSUME NEW w \in 1..n PROVE Step(w, x).y = x /\ IsPast(Step(w, x).st, m + c, layers[w].win) /\ e[w] = Step(w, x).st
  <2>1. layers[w].win \in Nat \ {0} /\ IsPast(layers[w].past, m, layers[w].win)
    BY <1>0
  <2>2. Step(w, x).y = x /\ IsPast(Step(w, x).st, m + c, layers[w].win)
    BY <2>1, AttentionStepIs
  <2> QED BY <2>2
<1>2. Transformed(layers, x, m) = F[n]
  BY <1>0 DEF Transformed
<1> HIDE DEF x, e, Step
<1>a. \A f : Rhs(f) = [w \in 0..n |-> Rhs(f)[w]] /\ Rhs(f)[0] = [y |-> x, st |-> <<>>]
  BY <1>0
<1>b. ASSUME NEW f, NEW w \in 1..n
      PROVE  Rhs(f)[w] = [y |-> Step(w, f[w - 1].y).y, st |-> Append(f[w - 1].st, Step(w, f[w - 1].y).st)]
  <2>1. w \in 0..n /\ w # 0
    BY <1>0
  <2> QED BY <2>1
<1>c. F = CHOOSE f : f = Rhs(f)
  OBVIOUS
<1> HIDE DEF Rhs, F
<1>3. ASSUME NEW w \in 1..n
      PROVE  [y |-> Step(w, x).y, st |-> Append([i \in 1..w - 1 |-> e[i]], Step(w, x).st)] = [y |-> x, st |-> [i \in 1..w |-> e[i]]]
  <2> DEFINE h == w - 1
  <2>1. h \in Nat /\ h + 1 = w
    BY <1>0
  <2> HIDE DEF h
  <2>2. Append([i \in 1..h |-> e[i]], e[h + 1]) = [i \in 1..h + 1 |-> e[i]]
    BY <2>1, AppendIs
  <2>3. Append([i \in 1..w - 1 |-> e[i]], e[w]) = [i \in 1..w |-> e[i]]
    BY <2>1, <2>2 DEF h
  <2> QED BY <1>1, <2>3
<1>4. ASSUME NEW f, NEW w \in 1..n, f[w - 1] = g[w - 1] PROVE Rhs(f)[w] = g[w]
  <2>1. w - 1 \in 0..n /\ w \in 0..n /\ w # 0
    BY <1>0
  <2>2. g[w - 1].y = x /\ g[w - 1].st = [i \in 1..w - 1 |-> e[i]] /\ g[w] = [y |-> x, st |-> [i \in 1..w |-> e[i]]]
    BY <2>1
  <2>3. Rhs(f)[w] = [y |-> Step(w, f[w - 1].y).y, st |-> Append(f[w - 1].st, Step(w, f[w - 1].y).st)]
    BY <1>b
  <2>4. f[w - 1].y = x /\ f[w - 1].st = [i \in 1..w - 1 |-> e[i]]
    BY <1>4, <2>2
  <2> HIDE DEF g
  <2>5. Rhs(f)[w] = [y |-> Step(w, x).y, st |-> Append([i \in 1..w - 1 |-> e[i]], Step(w, x).st)]
    BY <2>3, <2>4
  <2> QED BY <1>3, <2>2, <2>5
<1>5. g = Rhs(g)
  <2>1. g[0] = [y |-> x, st |-> <<>>]
    <3>1. [i \in 1..0 |-> e[i]] = <<>>
      OBVIOUS
    <3> QED BY <1>0, <3>1
  <2>2. \A w \in 0..n : g[w] = Rhs(g)[w]
    <3> TAKE w \in 0..n
    <3>1. CASE w = 0
      BY <2>1, <3>1, <1>a
    <3>2. CASE w # 0
      <4>1. w \in 1..n
        BY <1>0, <3>2
      <4> HIDE DEF g
      <4> QED BY <4>1, <1>4
    <3> QED BY <3>1, <3>2
  <2>3. g = [w \in 0..n |-> g[w]]
    OBVIOUS
  <2>4. Rhs(g) = [w \in 0..n |-> Rhs(g)[w]]
    BY <1>a
  <2> HIDE DEF g
  <2> QED BY <2>2, <2>3, <2>4
<1>6. F = Rhs(F)
  <2> HIDE DEF g
  <2> QED BY <1>5, <1>c
<1> DEFINE T == {w \in Nat : w <= n => F[w] = g[w]}
<1>7. 0 \in T
  <2>1. F[0] = [y |-> x, st |-> <<>>]
    BY <1>6, <1>a
  <2>2. g[0] = [y |-> x, st |-> <<>>]
    <3>1. [i \in 1..0 |-> e[i]] = <<>>
      OBVIOUS
    <3> QED BY <1>0, <3>1
  <2> QED BY <2>1, <2>2
<1>8. ASSUME NEW i \in 0..(n - 1), i \in T PROVE i + 1 \in T
  <2> DEFINE w == i + 1
  <2>1. w \in 1..n /\ w - 1 = i /\ i \in Nat /\ i <= n /\ w \in 0..n
    BY <1>0
  <2>2. F[w - 1] = g[w - 1]
    BY <1>8, <2>1
  <2> HIDE DEF w, g
  <2>3. Rhs(F)[w] = g[w]
    BY <1>4, <2>1, <2>2
  <2>4. F[w] = Rhs(F)[w]
    BY <1>6
  <2>5. F[i + 1] = g[i + 1]
    BY <2>3, <2>4 DEF w
  <2> QED BY <2>1, <2>5
<1> HIDE DEF T
<1>9. 0..n \subseteq T
  BY ONLY <1>0, <1>7, <1>8, UpTo
<1>10. F[n] = g[n] /\ n \in 0..n
  BY <1>0, <1>9 DEF T
<1>11. F[n] = [y |-> x, st |-> [i \in 1..n |-> e[i]]]
  BY <1>10
<1>12. Transformed(layers, x, m).y = x /\ \A w \in 1..n : Transformed(layers, x, m).st[w] = e[w]
  BY <1>2, <1>11
<1> QED BY <1>1, <1>12 DEF x

(* The pre-transformer hands every chunk on. *)
LEMMA TransformerKeeps ==
  ASSUME NEW p, NEW f, NEW b, NEW ins, NEW c, NEW s, NEW o, NEW r, Inside(p, f, b, ins, c, s, o, r),
         p = "gate" \/ ins[c] # <<>>, Stack(p)[b].kind = "attn"
  PROVE  LET l == Stack(p)[b]
             layers == [w \in 1..Len(l.wins) |-> [win |-> l.wins[w], past |-> s[w]]]
             x == Transformed(layers, ins[c], Len(Cat(SubSeq(ins, 1, c - 1))))
         IN  BlockInv(p, f, b, ins, c + 1, x.st, Append(o, x.y), r)
<1> DEFINE m == At(ins, c - 1)
           k == Len(ins[c])
           l == Stack(p)[b]
           n == Len(l.wins)
           layers == [w \in 1..n |-> [win |-> l.wins[w], past |-> s[w]]]
           x == Transformed(layers, ins[c], m)
<1>1. m \in Nat /\ k \in Nat /\ ins[c] = Iota(m, k) /\ AtChunk(p, l, ins, c, s, o) /\ IsBlock(l)
  BY InsideIs
<1>2. l.wins \in Seq(Nat \ {0})
  BY <1>1 DEF IsBlock
<1>3. \A w \in 1..n : IsPast(s[w], m, l.wins[w])
  BY <1>1 DEF AtChunk, StateOf
<1>4. AreLayers(layers, n, m) /\ \A w \in 1..n : layers[w].win = l.wins[w]
  <2>1. n \in Nat /\ \A w \in 1..n : l.wins[w] \in Nat \ {0}
    BY <1>2
  <2>2. Len(layers) = n /\ layers = [w \in 1..n |-> layers[w]]
    BY <2>1
  <2>3. \A w \in 1..n : layers[w].win = l.wins[w] /\ layers[w].past = s[w]
    OBVIOUS
  <2> HIDE DEF layers, n
  <2> QED BY <1>3, <2>1, <2>2, <2>3 DEF AreLayers
<1>5. x.y = ins[c] /\ \A w \in 1..n : IsPast(x.st[w], m + k, l.wins[w])
  <2> HIDE DEF layers, n, m, k
  <2>1. /\ Transformed(layers, Iota(m, k), m).y = Iota(m, k)
        /\ \A w \in 1..n : IsPast(Transformed(layers, Iota(m, k), m).st[w], m + k, layers[w].win)
    BY <1>1, <1>4, TransformedIs
  <2> QED BY <1>1, <1>4, <2>1
<1>6. StateOf(p, l, m + k, x.st)
  <2> HIDE DEF x
  <2> QED BY <1>5 DEF StateOf
<1>7. BlockInv(p, f, b, ins, c + 1, x.st, Append(o, ins[c]), r)
  <2> DEFINE t == x.st
  <2>1. StateOf(p, Stack(p)[b], At(ins, c - 1) + Len(ins[c]), t)
    BY <1>6
  <2> HIDE DEF t
  <2>2. BlockInv(p, f, b, ins, c + 1, t, Append(o, ins[c]), r)
    BY <2>1, HandsOn
  <2> QED BY <2>2 DEF t
<1>8. BlockInv(p, f, b, ins, c + 1, x.st, Append(o, x.y), r)
  <2> HIDE DEF x
  <2> QED BY <1>5, <1>7
<1> QED BY <1>8 DEF At, Upto

(* A transposed convolution that emits. *)
LEMMA EmitKeeps ==
  ASSUME NEW p, NEW f, NEW b, NEW ins, NEW c, NEW s, NEW o, NEW r, Inside(p, f, b, ins, c, s, o, r),
         p = "gate" \/ ins[c] # <<>>, Stack(p)[b].kind = "tconv", p # "collect", NEW final
  PROVE  LET l == Stack(p)[b]  n == InLen(p, b, f.frames)
             x == RefEmitStep(l, s, ins[c], final, n)
         IN  /\ GateEmitStep(l, s, ins[c], final, n) = x
             /\ BlockInv(p, f, b, ins, c + 1, x.st, IF x.y # <<>> \/ p = "emit" THEN Append(o, x.y) ELSE o, r)
<1> DEFINE m == At(ins, c - 1)
           k == Len(ins[c])
           l == Stack(p)[b]
           n == InLen(p, b, f.frames)
           a == EmittedBy(l, m)
           d == EmittedBy(l, m + k) - a
           q == IF Iota(a, d) # <<>> \/ p = "emit" THEN Append(o, Iota(a, d)) ELSE o
<1>1. /\ m \in Nat /\ k \in Nat /\ n \in Nat /\ m + k <= n /\ ins[c] = Iota(m, k) /\ AtChunk(p, l, ins, c, s, o) /\ IsBlock(l)
      /\ At(ins, (c + 1) - 1) = m + k /\ o \in Seq(Seq(Int)) /\ (p \notin {"emit", "gate"} => NoEmpty(o))
  BY InsideIs
<1>2. IsTconv(l)
  BY <1>1 DEF IsBlock
<1>3. s = EmitState(l, m)
  BY <1>1 DEF AtChunk, StateOf
<1>4. /\ RefEmitStep(l, s, ins[c], final, n) = [y |-> Iota(a, d), st |-> EmitState(l, m + k)]
      /\ GateEmitStep(l, s, ins[c], final, n) = [y |-> Iota(a, d), st |-> EmitState(l, m + k)]
  <2> HIDE DEF m, k, l, n
  <2>1. /\ RefEmitStep(l, EmitState(l, m), Iota(m, k), final, n) = [y |-> Iota(a, d), st |-> EmitState(l, m + k)]
        /\ GateEmitStep(l, EmitState(l, m), Iota(m, k), final, n) = [y |-> Iota(a, d), st |-> EmitState(l, m + k)]
    BY <1>1, <1>2, EmitSteps
  <2> QED BY <1>1, <1>3, <2>1
<1>5. a \in Nat /\ d \in Nat /\ EmittedBy(l, m + k) \in Nat /\ a + d = EmittedBy(l, m + k)
  <2> HIDE DEF m, k, l
  <2>1. a \in Nat /\ EmittedBy(l, m + k) \in Nat /\ a <= EmittedBy(l, m + k)
    BY <1>1, <1>2, EmittedGrows
  <2> DEFINE e == EmittedBy(l, m + k)
  <2>2. e \in Nat /\ a <= e /\ d = e - a /\ a \in Nat
    BY <2>1
  <2> HIDE DEF a, d, e
  <2>3. d \in Nat /\ a + d = e
    BY ONLY <2>2
  <2> QED BY <2>1, <2>3 DEF e
<1>6. m + k \in Nat
  <2> HIDE DEF m, k
  <2>1. m \in Nat /\ k \in Nat
    BY <1>1
  <2> QED BY ONLY <2>1
<1>7. OutBy(p, l, m) = a /\ OutBy(p, l, m + k) = EmittedBy(l, m + k)
  <2> DEFINE e == m + k
  <2> HIDE DEF m, e
  <2>1. e \in Nat /\ m \in Nat /\ e <= e /\ m <= m
    BY <1>1, <1>6 DEF e
  <2>2. Through(l, m) = EmittedBy(l, m) /\ Through(l, e) = EmittedBy(l, e)
    BY <1>1, <2>1, ThroughIs
  <2>3. OutBy(p, l, m) = Through(l, m) /\ OutBy(p, l, e) = Through(l, e)
    BY DEF OutBy
  <2> QED BY <2>2, <2>3 DEF e
<1>8. Cat(o) = Iota(0, a)
  BY <1>1, <1>7 DEF AtChunk
<1>9. /\ Append(o, Iota(a, d)) \in Seq(Seq(Int)) /\ Cat(Append(o, Iota(a, d))) = Iota(0, a + d)
      /\ (NoEmpty(o) /\ d # 0) => NoEmpty(Append(o, Iota(a, d)))
  <2> HIDE DEF a, d
  <2> QED BY <1>1, <1>5, <1>8, PutOut
<1>10. Iota(a, d) = <<>> <=> d = 0
  <2> HIDE DEF a, d
  <2>0. a \in Int /\ d \in Nat
    BY <1>5
  <2>1. Iota(a, d) \in Seq(Int) /\ Len(Iota(a, d)) = d
    BY <2>0, IotaIs
  <2> QED BY <2>1
<1> HIDE DEF a, d
<1>11. q \in Seq(Seq(Int)) /\ Cat(q) = Iota(0, a + d) /\ (p \notin {"emit", "gate"} => NoEmpty(q))
  <2>1. CASE Iota(a, d) # <<>> \/ p = "emit"
    <3>1. q = Append(o, Iota(a, d)) /\ (d # 0 \/ p = "emit")
      BY <2>1, <1>10
    <3> HIDE DEF q
    <3> QED BY <3>1, <1>1, <1>9
  <2>2. CASE ~(Iota(a, d) # <<>> \/ p = "emit")
    <3>1. q = o /\ d = 0
      BY <2>2, <1>10
    <3>2. a + d = a
      BY <3>1, <1>5
    <3> HIDE DEF q
    <3> QED BY <3>1, <3>2, <1>1, <1>8
  <2> QED BY <2>1, <2>2
<1> DEFINE t == EmitState(l, m + k)
<1>12. AtChunk(p, l, ins, c + 1, t, q)
  <2>1. StateOf(p, l, m + k, t)
    BY DEF StateOf
  <2>2. Cat(q) = Iota(0, OutBy(p, l, m + k))
    BY <1>5, <1>7, <1>11
  <2>3. l.kind \notin {"conv", "attn"}
    OBVIOUS
  <2> HIDE DEF t, q, m, k, l
  <2> QED BY <1>1, <2>1, <2>2, <2>3 DEF AtChunk
<1>13. BlockInv(p, f, b, ins, c + 1, t, q, r)
  <2> HIDE DEF t, q
  <2> QED BY <1>11, <1>12, BehindChunk
<1> DEFINE x == RefEmitStep(l, s, ins[c], final, n)
<1>14. x.y = Iota(a, d) /\ x.st = t /\ GateEmitStep(l, s, ins[c], final, n) = x
  BY <1>4
<1> HIDE DEF x, t
<1>15. BlockInv(p, f, b, ins, c + 1, x.st, IF x.y # <<>> \/ p = "emit" THEN Append(o, x.y) ELSE o, r)
  BY <1>13, <1>14
<1> QED BY <1>14, <1>15 DEF x

(* A transposed convolution that collects. *)
LEMMA CollectKeeps ==
  ASSUME NEW p, NEW f, NEW b, NEW ins, NEW c, NEW s, NEW o, NEW r, Inside(p, f, b, ins, c, s, o, r),
         Stack(p)[b].kind = "tconv", p = "collect"
  PROVE  BlockInv(p, f, b, ins, c + 1, RefCollectStep(Stack(p)[b], s, ins[c]), o, r)
<1> DEFINE m == At(ins, c - 1)
           k == Len(ins[c])
           l == Stack(p)[b]
           t == RefCollectStep(l, s, ins[c])
<1>1. /\ m \in Nat /\ k \in Nat /\ ins[c] = Iota(m, k) /\ AtChunk(p, l, ins, c, s, o) /\ IsBlock(l)
      /\ At(ins, (c + 1) - 1) = m + k /\ o \in Seq(Seq(Int)) /\ (p \notin {"emit", "gate"} => NoEmpty(o))
  <2>1. Inside(p, f, b, ins, c, s, o, r)
    OBVIOUS
  <2> QED BY ONLY <2>1, InsideIs
<1>2. IsTconv(l) /\ s = CollectState(l, m)
  BY <1>1 DEF IsBlock, AtChunk, StateOf
<1>3. t = CollectState(l, m + k)
  <2> HIDE DEF m, k, l
  <2>1. RefCollectStep(l, CollectState(l, m), Iota(m, k)) = CollectState(l, m + k)
    BY <1>1, <1>2, CollectStep
  <2> QED BY <1>1, <1>2, <2>1
<1>4. OutBy(p, l, m) = 0 /\ OutBy(p, l, m + k) = 0
  BY DEF OutBy
<1>5. AtChunk(p, l, ins, c + 1, t, o)
  <2>1. StateOf(p, l, m + k, t)
    <3> HIDE DEF t
    <3> QED BY <1>3 DEF StateOf
  <2>2. l.kind \notin {"conv", "attn"}
    OBVIOUS
  <2>3. Cat(o) = Iota(0, OutBy(p, l, m + k))
    BY <1>1, <1>4 DEF AtChunk
  <2> HIDE DEF t, m, k, l
  <2> QED BY <1>1, <2>1, <2>2, <2>3 DEF AtChunk
<1> HIDE DEF t
<1>6. BlockInv(p, f, b, ins, c + 1, t, o, r)
  BY <1>1, <1>5, BehindChunk
<1> QED BY <1>6 DEF t

(* No running sum exceeds the sum. *)
LEMMA SumsBelow ==
  ASSUME NEW sizes \in Seq(Nat)
  PROVE  \A j \in 0..Len(sizes) : Sums(sizes)[j] \in Nat /\ Sums(sizes)[j] <= Sum(sizes)
<1> DEFINE n == Len(sizes)
           S == Sums(sizes)
<1>1. S \in [0..n -> Nat] /\ (\A j \in 1..n : S[j] = S[j - 1] + sizes[j]) /\ n \in Nat /\ \A j \in 1..n : sizes[j] \in Nat
  BY SumsAre
<1> HIDE DEF n, S
<1> DEFINE T == {d \in Nat : d <= n => S[n - d] <= S[n]}
<1>2. 0 \in T
  <2>1. n - 0 = n /\ n \in 0..n
    BY <1>1
  <2>2. S[n] \in Nat
    BY <1>1, <2>1
  <2> QED BY <2>1, <2>2
<1>3. ASSUME NEW d \in 0..(n - 1), d \in T PROVE d + 1 \in T
  <2>1. n - d \in 1..n /\ n - (d + 1) = (n - d) - 1 /\ n - (d + 1) \in 0..n /\ d <= n /\ d \in Nat /\ n - d \in 0..n /\ n \in 0..n
    BY <1>1
  <2>2. S[n - d] = S[n - (d + 1)] + sizes[n - d] /\ sizes[n - d] \in Nat /\ S[n - (d + 1)] \in Nat /\ S[n - d] \in Nat /\ S[n] \in Nat
    BY <1>1, <2>1
  <2>3. S[n - d] <= S[n]
    BY <1>3, <2>1
  <2>4. S[n - (d + 1)] <= S[n]
    <3> DEFINE x == S[n - d]
               y == S[n - (d + 1)]
               z == S[n]
               a == sizes[n - d]
    <3>1. x = y + a /\ a \in Nat /\ y \in Nat /\ x \in Nat /\ z \in Nat /\ x <= z
      BY <2>2, <2>3
    <3> HIDE DEF x, y, z, a
    <3>2. y <= z
      BY ONLY <3>1
    <3> QED BY <3>2 DEF y, z
  <2> QED BY <2>1, <2>4
<1> HIDE DEF T
<1>4. 0..n \subseteq T
  BY <1>1, <1>2, <1>3, UpTo
<1>5. ASSUME NEW j \in 0..n PROVE S[j] \in Nat /\ S[j] <= S[n]
  <2>1. n - j \in 0..n /\ n - (n - j) = j /\ n - j <= n
    BY <1>1
  <2>2. n - j \in T
    BY <1>4, <2>1
  <2>3. S[n - (n - j)] <= S[n]
    BY <2>1, <2>2 DEF T
  <2> QED BY <1>1, <2>1, <2>3
<1> QED BY <1>5 DEF Sum, n, S

(* Sizes that are positive and add up cut a signal into parts that are not empty. *)
LEMMA SplitWhole ==
  ASSUME NEW n \in Nat, NEW sizes \in Seq(Nat), Sum(sizes) = n
  PROVE  LET parts == Split(Iota(0, n), sizes)
         IN  /\ parts \in Seq(Seq(Int)) /\ Len(parts) = Len(sizes) /\ Cat(parts) = Iota(0, n)
             /\ \A j \in 1..Len(sizes) : parts[j] = Iota(Sums(sizes)[j - 1], sizes[j])
             /\ (\A j \in 1..Len(sizes) : sizes[j] > 0) => NoEmpty(parts)
<1> DEFINE parts == Split(Iota(0, n), sizes)
           k == Len(sizes)
           S == Sums(sizes)
<1>1. /\ parts \in Seq(Seq(Int)) /\ Len(parts) = k /\ Cat(parts) = Iota(0, Minimum(Sum(sizes), n))
      /\ \A j \in 1..k : parts[j] = Iota(Minimum(S[j - 1], n), Minimum(S[j], n) - Minimum(S[j - 1], n))
  BY SplitIs
<1>2. Minimum(Sum(sizes), n) = n
  BY DEF Minimum
<1>3. /\ k \in Nat /\ (\A j \in 0..k : S[j] \in Nat /\ S[j] <= n) /\ \A j \in 1..k : S[j] = S[j - 1] + sizes[j]
      /\ \A j \in 1..k : sizes[j] \in Nat
  BY SumsBelow, SumsAre
<1> HIDE DEF parts, S, k
<1>4. ASSUME NEW j \in 1..k PROVE parts[j] = Iota(S[j - 1], sizes[j]) /\ sizes[j] \in Nat /\ S[j - 1] \in Nat
  <2>1. j \in 0..k /\ j - 1 \in 0..k
    BY <1>3
  <2> DEFINE x == S[j]
             y == S[j - 1]
             a == sizes[j]
  <2>2. x \in Nat /\ y \in Nat /\ x <= n /\ y <= n /\ x = y + a /\ a \in Nat
    BY <1>3, <2>1
  <2>3. parts[j] = Iota(Minimum(y, n), Minimum(x, n) - Minimum(y, n))
    BY <1>1
  <2> HIDE DEF x, y, a
  <2>4. Minimum(y, n) = y /\ Minimum(x, n) = x /\ x - y = a
    BY <2>2 DEF Minimum
  <2>5. parts[j] = Iota(y, a)
    BY <2>3, <2>4
  <2> QED BY <2>2, <2>5 DEF x, y, a
<1>5. ASSUME \A j \in 1..k : sizes[j] > 0 PROVE NoEmpty(parts)
  <2> SUFFICES ASSUME NEW j \in 1..Len(parts) PROVE parts[j] # <<>>
    BY DEF NoEmpty
  <2>1. j \in 1..k
    BY <1>1
  <2> DEFINE y == S[j - 1]
             a == sizes[j]
  <2>2. parts[j] = Iota(y, a) /\ a \in Nat /\ y \in Int /\ a > 0
    <3>1. parts[j] = Iota(y, a) /\ a \in Nat /\ y \in Nat
      BY <1>4, <2>1
    <3>2. a > 0
      BY <1>5, <2>1
    <3> HIDE DEF y, a
    <3>3. y \in Int
      BY <3>1
    <3> QED BY <3>1, <3>2, <3>3
  <2> HIDE DEF y, a
  <2>3. Iota(y, a) \in Seq(Int) /\ Len(Iota(y, a)) = a
    BY <2>2, IotaIs
  <2> QED BY <2>2, <2>3
<1> QED BY <1>1, <1>2, <1>4, <1>5 DEF parts, S, k

(* The codes are cut for the first block. *)
LEMMA CodesFed ==
  ASSUME NEW p \in Programs, NEW f \in Feeds(p)
  PROVE  Fed(p, f, 1, Split(Iota(0, f.frames), f.sizes))
<1> DEFINE n == f.frames
           sizes == f.sizes
           parts == Split(Iota(0, n), sizes)
           E == Minimum(Sum(sizes), n)
<1>1. n \in Nat /\ sizes \in Seq(Nat) /\ (p \in {"gate", "export"} => Sum(sizes) = n)
  BY StackAssumption DEF IsFeed
<1>2. InLen(p, 1, n) = n
  BY <1>1, InLenIs
<1>3. parts \in Seq(Seq(Int)) /\ Len(parts) = Len(sizes) /\ Cat(parts) = Iota(0, E)
  <2> HIDE DEF n, sizes
  <2> QED BY <1>1, SplitIs
<1>4. Sum(sizes) \in Nat
  <2> HIDE DEF sizes
  <2> QED BY <1>1, SumsGrow
<1>5. CoversOf(f) => n <= Sum(sizes)
  <2> DEFINE t == [j \in 1..Len(parts) |-> IF parts[j] = <<>> THEN 0 ELSE sizes[j]]
  <2>1. CoversOf(f) <=> n = Sum(t)
    BY DEF CoversOf
  <2>2. t \in Seq(Nat) /\ Len(t) = Len(sizes) /\ \A j \in 1..Len(t) : t[j] <= sizes[j]
    <3> HIDE DEF parts, sizes
    <3>1. Len(sizes) \in Nat /\ \A j \in 1..Len(sizes) : sizes[j] \in Nat
      BY <1>1
    <3>2. t = [j \in 1..Len(sizes) |-> IF parts[j] = <<>> THEN 0 ELSE sizes[j]]
      BY <1>3
    <3> QED BY <3>1, <3>2
  <2> HIDE DEF t, sizes
  <2>3. Sum(t) <= Sum(sizes)
    BY <1>1, <2>2, SumsGrow
  <2> QED BY <2>1, <2>3
<1>6. FedTo(p, f, 1, E) /\ E \in Nat
  <2> DEFINE S == Sum(sizes)
  <2>1. S \in Nat /\ n \in Nat /\ (p = "gate" => S = n) /\ (CoversOf(f) => n <= S) /\ E = Minimum(S, n)
    BY <1>1, <1>4, <1>5
  <2> HIDE DEF S, E
  <2>2. E \in Nat /\ E <= n /\ (n <= S => E = n)
    BY <2>1 DEF Minimum
  <2> QED BY <1>2, <2>1, <2>2 DEF FedTo
<1> HIDE DEF parts, E
<1>7. ~(1 > 1)
  OBVIOUS
<1>8. Fed(p, f, 1, parts)
  BY <1>3, <1>6, <1>7 DEF Fed
<1> QED BY <1>8 DEF parts

-----------------------------------------------------------------------------
(* From block to block                                                       *)

(* What block b starts with. *)
StartAt(p, b) == IF b <= Len(Stack(p)) THEN StartState(Stack(p)[b]) ELSE <<>>

(* The numbers and the signal at a block. *)
LEMMA BlockIs ==
  ASSUME NEW p \in Programs, NEW f \in Feeds(p), NEW b \in 1..Len(Stack(p))
  PROVE  /\ b + 1 \in 1..Len(Stack(p)) + 1 /\ b + 1 > 1 /\ b \in Nat /\ f.frames \in Nat
         /\ InLen(p, b, f.frames) \in Nat /\ InLen(p, b + 1, f.frames) \in Nat
         /\ InLen(p, b + 1, f.frames) = Through(Stack(p)[b], InLen(p, b, f.frames))
<1>1. Len(Stack(p)) \in Nat \ {0}
  BY Network
<1>2. f.frames \in Nat
  BY StackAssumption DEF IsFeed
<1>3. b \in 1..Len(Stack(p)) + 1 /\ b + 1 \in 1..Len(Stack(p)) + 1 /\ b + 1 > 1 /\ b \in Nat
  BY <1>1
<1> QED BY <1>2, <1>3, InLenIs

(* The chunks in front of the end of a residual path, or of its start, are those behind it. *)
LEMMA SameSignal ==
  ASSUME NEW p \in Programs, NEW f \in Feeds(p), NEW b \in 1..Len(Stack(p)), NEW ins, Fed(p, f, b, ins),
         Stack(p)[b].kind \in {"fork", "join"}
  PROVE  Fed(p, f, b + 1, ins)
<1>1. PICK E \in Nat : Cat(ins) = Iota(0, E) /\ FedTo(p, f, b, E)
  BY DEF Fed
<1>2. b > 1 /\ b + 1 > 1 /\ InLen(p, b + 1, f.frames) = InLen(p, b, f.frames) /\ InLen(p, b, f.frames) \in Nat
  BY BlockIs, Network DEF Through
<1>3. E = InLen(p, b + 1, f.frames)
  BY <1>1, <1>2 DEF FedTo
<1>4. FedTo(p, f, b + 1, E)
  BY <1>2, <1>3 DEF FedTo
<1> QED BY <1>1, <1>2, <1>4 DEF Fed

(* A residual path starts. *)
LEMMA ForkKeeps ==
  ASSUME NEW p \in Programs, NEW f \in Feeds(p), NEW b \in 1..Len(Stack(p)), NEW ins, NEW c, NEW s, NEW o, NEW r,
         BlockInv(p, f, b, ins, c, s, o, r), Stack(p)[b].kind = "fork"
  PROVE  BlockInv(p, f, b + 1, ins, 1, StartAt(p, b + 1), <<>>, Append(r, ins))
<1>1. Fed(p, f, b, ins) /\ r = <<>> /\ InResidual(p, b + 1)
  BY Network DEF BlockInv
<1>2. Fed(p, f, b + 1, ins) /\ b + 1 \in 1..Len(Stack(p)) + 1
  BY <1>1, SameSignal, BlockIs
<1>3. BlockInv(p, f, b + 1, ins, 1, StartAt(p, b + 1), <<>>, IF InResidual(p, b + 1) THEN <<ins>> ELSE <<>>)
  BY <1>2, BlockStarts DEF StartAt
<1>4. Append(r, ins) = <<ins>>
  BY <1>1
<1> QED BY <1>1, <1>3, <1>4

(* A residual path ends: its two sides are in step. *)
LEMMA JoinKeeps ==
  ASSUME NEW p \in Programs, NEW f \in Feeds(p), NEW b \in 1..Len(Stack(p)), NEW ins, NEW c, NEW s, NEW o, NEW r,
         BlockInv(p, f, b, ins, c, s, o, r), Stack(p)[b].kind = "join"
  PROVE  /\ SamePieces(Last(r), ins)
         /\ BlockInv(p, f, b + 1, AddPieces(Last(r), ins), 1, StartAt(p, b + 1), <<>>, Front(r))
<1>1. Fed(p, f, b, ins) /\ r = <<ins>> /\ ~InResidual(p, b + 1)
  BY Network DEF BlockInv
<1>2. Fed(p, f, b + 1, ins) /\ b + 1 \in 1..Len(Stack(p)) + 1
  BY <1>1, SameSignal, BlockIs
<1>3. BlockInv(p, f, b + 1, ins, 1, StartAt(p, b + 1), <<>>, <<>>)
  BY <1>1, <1>2, BlockStarts DEF StartAt
<1>4. Last(r) = ins /\ Front(r) = <<>>
  BY <1>1 DEF Last, Front
<1>5. SamePieces(ins, ins)
  BY DEF SamePieces
<1>6. AddPieces(ins, ins) = ins
  <2>0. ins \in Seq(Seq(Int))
    BY <1>1 DEF Fed
  <2>1. \A j \in 1..Len(ins) : ins[j] \in Seq(Int)
    BY <2>0
  <2>2. \A j \in 1..Len(ins) : [t \in 1..Len(ins[j]) |-> IF ins[j][t] = ins[j][t] THEN ins[j][t] ELSE Bad] = ins[j]
    BY <2>1
  <2>3. ins = [j \in 1..Len(ins) |-> ins[j]]
    <3> DEFINE Q == Seq(Int)
    <3>1. ins \in Seq(Q)
      BY <2>0
    <3> HIDE DEF Q
    <3> QED BY <3>1
  <2>4. AddPieces(ins, ins) = [j \in 1..Len(ins) |-> ins[j]]
    BY <2>2 DEF AddPieces
  <2> QED BY <2>3, <2>4
<1> QED BY <1>3, <1>4, <1>5, <1>6

(* What a block hands on when its last chunk is done. *)
HandedOn(p, l, s, o, n) ==
  IF l.kind = "tconv" /\ p = "collect"
  THEN Split(RefCollectTrim(l, s, n), make_chunks(Len(RefCollectTrim(l, s, n)), l.pat))
  ELSE o

(* At the end of its chunks a block has read all of its input. *)
LEMMA AtEnd ==
  ASSUME NEW p \in Programs, NEW f \in Feeds(p), NEW b \in 1..Len(Stack(p)), NEW ins, Fed(p, f, b, ins),
         p = "gate" \/ b > 1 \/ CoversOf(f)
  PROVE  At(ins, Len(ins)) = InLen(p, b, f.frames) /\ (Len(ins) + 1) - 1 = Len(ins) /\ Len(ins) \in Nat
<1>1. PICK E \in Nat : Cat(ins) = Iota(0, E) /\ FedTo(p, f, b, E)
  BY DEF Fed
<1>2. ins \in Seq(Seq(Int)) /\ Len(ins) \in Nat
  BY DEF Fed
<1>3. At(ins, Len(ins)) = E
  BY <1>1, <1>2, Tiling
<1> QED BY <1>1, <1>2, <1>3 DEF FedTo

(* What collect cuts anew. *)
LEMMA CollectedAre ==
  ASSUME NEW l, IsTconv(l), l.pat \in Seq(Nat \ {0}), l.pat # <<>>, NEW n \in Nat, NEW s, s = CollectState(l, n)
  PROVE  LET y == RefCollectTrim(l, s, n)  parts == Split(y, make_chunks(Len(y), l.pat))
         IN  parts \in Seq(Seq(Int)) /\ NoEmpty(parts) /\ Cat(parts) = Iota(0, EmittedBy(l, n))
<1> DEFINE e == EmittedBy(l, n)
           y == RefCollectTrim(l, s, n)
           pat == l.pat
           sizes == make_chunks(e, pat)
<1>1. e \in Nat /\ y = Iota(0, e)
  BY EmittedGrows, CollectTrim
<1>2. pat \in Seq(Nat \ {0}) /\ pat # <<>>
  OBVIOUS
<1> HIDE DEF e, y, pat
<1>3. Len(y) = e
  <2> DEFINE z == 0
  <2>1. z \in Int
    OBVIOUS
  <2> HIDE DEF z
  <2>2. Len(Iota(z, e)) = e
    BY <2>1, <1>1, IotaIs
  <2> QED BY <1>1, <2>2 DEF z
<1>4. sizes \in Seq(Nat) /\ Sum(sizes) = e /\ \A j \in 1..Len(sizes) : sizes[j] > 0
  BY <1>1, <1>2, ChunksAre
<1> HIDE DEF sizes
<1>5. /\ Split(Iota(0, e), sizes) \in Seq(Seq(Int)) /\ Cat(Split(Iota(0, e), sizes)) = Iota(0, e)
      /\ NoEmpty(Split(Iota(0, e), sizes))
  BY <1>1, <1>4, SplitWhole
<1>6. Split(y, make_chunks(Len(y), pat)) = Split(Iota(0, e), sizes)
  BY <1>1, <1>3 DEF sizes
<1> QED BY <1>5, <1>6 DEF e, y, pat

(* The next block is fed. *)
LEMMA HandedOnIsFed ==
  ASSUME NEW p \in Programs, NEW f \in Feeds(p), NEW b \in 1..Len(Stack(p)), NEW ins, NEW s, NEW o, NEW r,
         BlockInv(p, f, b, ins, Len(ins) + 1, s, o, r), Stack(p)[b].kind \in {"conv", "attn", "tconv"},
         p = "gate" \/ b > 1 \/ CoversOf(f)
  PROVE  Fed(p, f, b + 1, HandedOn(p, Stack(p)[b], s, o, InLen(p, b, f.frames)))
<1> DEFINE l == Stack(p)[b]
           n == InLen(p, b, f.frames)
           N == InLen(p, b + 1, f.frames)
           q == HandedOn(p, l, s, o, n)
<1>1. n \in Nat /\ N \in Nat /\ N = Through(l, n) /\ b + 1 > 1 /\ IsBlock(l)
  BY BlockIs, Network
<1>2. Fed(p, f, b, ins) /\ o \in Seq(Seq(Int)) /\ (p \notin {"emit", "gate"} => NoEmpty(o))
  BY DEF BlockInv
<1>3. AtChunk(p, l, ins, Len(ins) + 1, s, o)
  <2>1. b <= Len(Stack(p))
    BY Network
  <2> QED BY <2>1 DEF BlockInv
<1>4. StateOf(p, l, n, s) /\ Cat(o) = Iota(0, OutBy(p, l, n))
  BY <1>2, <1>3, AtEnd DEF AtChunk
<1>5. FedTo(p, f, b + 1, N)
  BY <1>1 DEF FedTo
<1>6. q \in Seq(Seq(Int)) /\ Cat(q) = Iota(0, N) /\ (p \notin {"emit", "gate"} => NoEmpty(q))
  <2>1. CASE l.kind = "tconv" /\ p = "collect"
    <3>1. IsTconv(l) /\ l.pat \in Seq(Nat \ {0}) /\ l.pat # <<>>
      BY <1>1, <2>1 DEF IsBlock
    <3>2. s = CollectState(l, n)
      BY <1>4, <2>1 DEF StateOf
    <3> HIDE DEF l, n, N
    <3>3. N = EmittedBy(l, n)
      <4>1. n <= n
        BY <1>1
      <4> QED BY <1>1, <2>1, <4>1, ThroughIs
    <3> QED BY <1>1, <2>1, <3>1, <3>2, <3>3, CollectedAre DEF HandedOn
  <2>2. CASE ~(l.kind = "tconv" /\ p = "collect")
    <3>1. q = o
      BY <2>2 DEF HandedOn
    <3>2. OutBy(p, l, n) = N
      BY <1>1, <2>2 DEF OutBy
    <3> HIDE DEF q, l, n, N
    <3> QED BY <1>2, <1>4, <3>1, <3>2
  <2> QED BY <2>1, <2>2
<1> HIDE DEF q, N
<1> QED BY <1>1, <1>5, <1>6 DEF Fed, q

(* Behind its last chunk a block hands over. *)
LEMMA DoneKeeps ==
  ASSUME NEW p \in Programs, NEW f \in Feeds(p), NEW b \in 1..Len(Stack(p)), NEW ins, NEW s, NEW o, NEW r,
         BlockInv(p, f, b, ins, Len(ins) + 1, s, o, r), Stack(p)[b].kind \in {"conv", "attn", "tconv"},
         p = "gate" \/ b > 1 \/ CoversOf(f)
  PROVE  BlockInv(p, f, b + 1, HandedOn(p, Stack(p)[b], s, o, InLen(p, b, f.frames)), 1, StartAt(p, b + 1), <<>>, r)
<1> DEFINE l == Stack(p)[b]
           q == HandedOn(p, l, s, o, InLen(p, b, f.frames))
<1>1. Fed(p, f, b + 1, q) /\ b + 1 \in 1..Len(Stack(p)) + 1
  BY HandedOnIsFed, BlockIs
<1>2. BlockInv(p, f, b + 1, q, 1, StartAt(p, b + 1), <<>>, IF InResidual(p, b + 1) THEN <<q>> ELSE <<>>)
  <2> HIDE DEF q
  <2> QED BY <1>1, BlockStarts DEF StartAt
<1>3. r = IF InResidual(p, b) THEN <<ins>> ELSE <<>>
  BY DEF BlockInv
<1>4. InResidual(p, b + 1) <=> InResidual(p, b)
  BY Network
<1>5. ASSUME InResidual(p, b) PROVE q = ins
  <2>1. b > 1 /\ p # "emit" /\ l.kind # "tconv"
    BY <1>5, Network
  <2>2. q = o
    BY <2>1 DEF HandedOn
  <2>3. Fed(p, f, b, ins) /\ b <= Len(Stack(p))
    BY Network DEF BlockInv
  <2>4. AtChunk(p, l, ins, Len(ins) + 1, s, o)
    BY <2>3 DEF BlockInv
  <2>5. p = "gate" \/ NoEmpty(ins)
    BY <2>1, <2>3 DEF Fed
  <2>6. o = SubSeq(ins, 1, (Len(ins) + 1) - 1)
    BY <2>1, <2>4, <2>5 DEF AtChunk
  <2>7. ins \in Seq(Seq(Int))
    BY <2>3 DEF Fed
  <2> DEFINE Q == Seq(Int)
  <2>8. ins \in Seq(Q) /\ (Len(ins) + 1) - 1 = Len(ins)
    BY <2>7
  <2> HIDE DEF Q
  <2>9. SubSeq(ins, 1, Len(ins)) = ins
    BY <2>8
  <2> QED BY <2>2, <2>6, <2>8, <2>9
<1>6. r = IF InResidual(p, b + 1) THEN <<q>> ELSE <<>>
  BY <1>3, <1>4, <1>5
<1> HIDE DEF q
<1> QED BY <1>2, <1>6 DEF q

(* Behind the last block there is the whole waveform. *)
LEMMA LastFed ==
  ASSUME NEW p \in Programs, NEW f \in Feeds(p), NEW b \in 1..Len(Stack(p)) + 1, b > Len(Stack(p)), NEW ins, Fed(p, f, b, ins)
  PROVE  ins # <<>> /\ Cat(ins) = Iota(0, InLen(p, Len(Stack(p)) + 1, f.frames))
<1>1. Len(Stack(p)) \in Nat \ {0}
  BY Network
<1>2. b = Len(Stack(p)) + 1 /\ b > 1
  BY <1>1
<1>3. PICK E \in Nat : Cat(ins) = Iota(0, E) /\ FedTo(p, f, b, E)
  BY DEF Fed
<1>4. E = InLen(p, b, f.frames) /\ E > 0
  BY <1>2, <1>3, StackAssumption DEF FedTo, IsFeed
<1>5. ins # <<>>
  <2> SUFFICES ASSUME ins = <<>> PROVE FALSE
    OBVIOUS
  <2>1. Iota(0, E) = <<>>
    BY <1>3, CatEmpty
  <2> DEFINE z == 0
  <2>2. z \in Int
    OBVIOUS
  <2> HIDE DEF z
  <2>3. Len(Iota(z, E)) = E
    BY <2>2, IotaIs
  <2>4. Len(<<>>) = E
    BY <2>1, <2>3 DEF z
  <2> QED BY <1>4, <2>4
<1> QED BY <1>2, <1>3, <1>4, <1>5

-----------------------------------------------------------------------------
(* The exported module: its states                                           *)

(* The exported network: the windows of its transformer, the number of its key and value states, *)
(* and the blocks that keep a state. *)
Wins == Stack("export")[2].wins
(* ... one key and one value state per window. *)
Rows == 2 * Len(Wins)
(* ... the convolutions with a history or with pending samples. *)
Kept == Stateful("export")

(* The state of block b, and the state at place j of the list, behind m code frames. *)
KeptAt(b, m) ==
  LET l == Stack("export")[b]  n == InLen("export", b, m)
  IN  IF l.kind = "conv" THEN Hist(l.pad, n) ELSE PendingOf(l, n)
(* ... the state at place j: keys and values first, then the blocks that keep one. *)
StateAt(j, m) == IF j <= Rows THEN Hist(Wins[(j + 1) \div 2] - 1, m) ELSE KeptAt(Nth(Kept, j - Rows), m)
(* ... the first k of them. *)
StatesAt(m, k) == [j \in 1..k |-> StateAt(j, m)]

(* The shape of the exported network. *)
LEMMA ExportShape ==
  ASSUME "export" \in Programs
  PROVE  LET ls == Stack("export")  N == Len(ls)
         IN  /\ N \in Nat /\ N >= 2 /\ DOMAIN ls = 1..N
             /\ ls[1].kind = "conv" /\ ls[1].pad \in Nat \ {0} /\ ls[2].kind = "attn"
             /\ Len(Wins) \in Nat /\ Rows \in Nat /\ \A w \in 1..Len(Wins) : Wins[w] \in Nat /\ Wins[w] >= 2
             /\ \A b \in 3..N : /\ ls[b].kind \in {"conv", "tconv", "fork", "join"}
                                /\ ls[b].kind = "conv" => ls[b].pad \in Nat
                                /\ ls[b].kind = "tconv" => IsTconv(ls[b]) /\ ls[b].left = 0 /\ ls[b].right \in Nat
<1> DEFINE ls == Stack("export")
           N == Len(ls)
<1>1. /\ N \in Nat /\ N >= 2 /\ DOMAIN ls = 1..N /\ ls[1].kind = "conv" /\ ls[1].pad > 0 /\ ls[2].kind = "attn"
      /\ \A w \in 1..Len(ls[2].wins) : ls[2].wins[w] >= 2
      /\ \A b \in 3..N : ls[b].kind # "attn"
      /\ \A b \in 1..N : ls[b].kind = "tconv" => ls[b].left = 0
  BY StackAssumption DEF IsNetwork, IsExported
<1>2. \A b \in 1..N : IsBlock(ls[b])
  BY Network
<1>3. 1 \in 1..N /\ 2 \in 1..N /\ \A b \in 3..N : b \in 1..N
  BY <1>1
<1>4. ls[1].pad \in Nat
  BY <1>1, <1>2, <1>3 DEF IsBlock
<1>5. ls[2].wins \in Seq(Nat \ {0})
  BY <1>1, <1>2, <1>3 DEF IsBlock
<1>6. ASSUME NEW b \in 3..N
      PROVE  /\ ls[b].kind \in {"conv", "tconv", "fork", "join"}
             /\ ls[b].kind = "conv" => ls[b].pad \in Nat
             /\ ls[b].kind = "tconv" => IsTconv(ls[b]) /\ ls[b].left = 0 /\ ls[b].right \in Nat
  <2>1. IsBlock(ls[b]) /\ ls[b].kind # "attn" /\ (ls[b].kind = "tconv" => ls[b].left = 0)
    BY <1>1, <1>2, <1>3
  <2> HIDE DEF ls
  <2>2. ls[b].kind \in {"conv", "tconv", "fork", "join"}
    BY <2>1 DEF IsBlock
  <2>3. ls[b].kind = "conv" => ls[b].pad \in Nat
    BY <2>1 DEF IsBlock
  <2>4. ls[b].kind = "tconv" => IsTconv(ls[b])
    BY <2>1 DEF IsBlock
  <2>5. IsTconv(ls[b]) => ls[b].right \in Nat
    BY DEF IsTconv
  <2> QED BY <2>1, <2>2, <2>3, <2>4, <2>5
<1>7. Len(Wins) \in Nat /\ \A w \in 1..Len(Wins) : Wins[w] \in Nat /\ Wins[w] >= 2
  <2>1. Wins \in Seq(Nat \ {0})
    BY <1>5 DEF Wins
  <2>2. Len(Wins) \in Nat /\ \A w \in 1..Len(Wins) : Wins[w] \in Nat
    BY <2>1
  <2>3. \A w \in 1..Len(Wins) : Wins[w] >= 2
    BY <1>1 DEF Wins
  <2> QED BY <2>2, <2>3
<1>8. Rows \in Nat
  BY <1>7 DEF Rows
<1> QED BY <1>1, <1>4, <1>6, <1>7, <1>8

(* Its transformer is the second block. *)
LEMMA WindowsAre ==
  ASSUME "export" \in Programs
  PROVE  Windows("export") = Wins
<1> DEFINE ls == Stack("export")
           N == Len(ls)
           K == {b \in DOMAIN ls : ls[b].kind = "attn"}
<1>1. /\ N \in Nat /\ N >= 2 /\ DOMAIN ls = 1..N /\ ls[1].kind = "conv" /\ ls[2].kind = "attn"
      /\ \A b \in 3..N : ls[b].kind \in {"conv", "tconv", "fork", "join"}
  BY ExportShape
<1>2. \A b \in 1..N : b = 1 \/ b = 2 \/ b \in 3..N
  BY <1>1
<1>3. K = {2}
  <2>1. \A b \in 1..N : ls[b].kind = "attn" <=> b = 2
    <3> TAKE b \in 1..N
    <3>1. CASE b = 1
      BY <1>1, <3>1
    <3>2. CASE b = 2
      BY <1>1, <3>2
    <3>3. CASE b \in 3..N
      <4>1. b # 2
        BY <1>1, <3>3
      <4> QED BY <1>1, <3>3, <4>1
    <3> QED BY <1>2, <3>1, <3>2, <3>3
  <2>2. 2 \in 1..N
    BY <1>1
  <2> QED BY <1>1, <2>1, <2>2
<1>4. Cardinality(K) = 1
  BY <1>3, FS_Singleton
<1>5. K \in SUBSET (1..N) /\ 2 \in K
  BY <1>1, <1>3
<1>6. Rank(K, 2) \in 1..Cardinality(K) /\ Nth(K, Rank(K, 2)) = 2
  <2> HIDE DEF K
  <2> QED BY <1>1, <1>5, NthOfRank
<1>7. Nth(K, 1) = 2
  BY <1>4, <1>6
<1>8. Picked(ls, K)[1] = ls[2]
  <2> HIDE DEF K
  <2>1. 1 \in 1..Cardinality(K)
    BY <1>4
  <2> QED BY <1>7, <2>1 DEF Picked
<1>9. Windows("export") = Picked(ls, K)[1].wins
  BY DEF Windows
<1> QED BY <1>8, <1>9 DEF Wins

(* The blocks that keep a state, counted from the first. *)
LEMMA KeptAre ==
  ASSUME "export" \in Programs
  PROVE  LET ls == Stack("export")  N == Len(ls)
         IN  /\ Kept \in SUBSET (1..N) /\ Cardinality(Kept) \in Nat /\ Rank(Kept, N) = Cardinality(Kept)
             /\ Rank(Kept, 1) = 1 /\ Rank(Kept, 2) = 1 /\ Nth(Kept, 1) = 1 /\ Cardinality(Kept) >= 1
             /\ \A b \in 1..N : b \in Kept <=> (ls[b].kind = "conv" /\ ls[b].pad > 0) \/ (ls[b].kind = "tconv" /\ ls[b].right > 0)
             /\ \A b \in 3..N : /\ Rank(Kept, b - 1) \in Nat
                                /\ Rank(Kept, b) = IF b \in Kept THEN Rank(Kept, b - 1) + 1 ELSE Rank(Kept, b - 1)
                                /\ b \in Kept => Rank(Kept, b) \in 1..Cardinality(Kept) /\ Nth(Kept, Rank(Kept, b)) = b
<1> DEFINE ls == Stack("export")
           N == Len(ls)
<1>1. /\ N \in Nat /\ N >= 2 /\ DOMAIN ls = 1..N
      /\ ls[1].kind = "conv" /\ ls[1].pad \in Nat \ {0} /\ ls[2].kind = "attn"
  BY ExportShape
<1>2. Kept = {b \in 1..N : (ls[b].kind = "conv" /\ ls[b].pad > 0) \/ (ls[b].kind = "tconv" /\ ls[b].right > 0)}
  BY <1>1 DEF Kept, Stateful
<1>3. Kept \in SUBSET (1..N)
  BY <1>2
<1>4. 1 \in Kept /\ 2 \notin Kept
  <2>1. 1 \in 1..N /\ ls[1].pad > 0
    BY <1>1
  <2> QED BY <1>1, <1>2, <2>1
<1> HIDE DEF N
<1>5. /\ Cardinality(Kept) \in Nat /\ (\A i \in Nat : Rank(Kept, i) \in Nat) /\ Rank(Kept, 0) = 0 /\ Rank(Kept, N) = Cardinality(Kept)
      /\ \A i \in Nat : Rank(Kept, i + 1) = IF i + 1 \in Kept THEN Rank(Kept, i) + 1 ELSE Rank(Kept, i)
  <2>1. N \in Nat /\ Kept \in SUBSET (1..N)
    BY <1>1, <1>3
  <2> QED BY ONLY <2>1, RankFacts
<1>6. Rank(Kept, 1) = 1 /\ Rank(Kept, 2) = 1
  <2>1. Rank(Kept, 0 + 1) = IF 0 + 1 \in Kept THEN Rank(Kept, 0) + 1 ELSE Rank(Kept, 0)
    BY <1>5
  <2>2. Rank(Kept, 1 + 1) = IF 1 + 1 \in Kept THEN Rank(Kept, 1) + 1 ELSE Rank(Kept, 1)
    BY <1>5
  <2>3. 0 + 1 = 1 /\ 1 + 1 = 2
    OBVIOUS
  <2> QED BY <1>4, <1>5, <2>1, <2>2, <2>3
<1>7. ASSUME NEW b \in 3..N
      PROVE  /\ Rank(Kept, b - 1) \in Nat
             /\ Rank(Kept, b) = IF b \in Kept THEN Rank(Kept, b - 1) + 1 ELSE Rank(Kept, b - 1)
  <2> DEFINE i == b - 1
  <2>1. i \in Nat /\ i + 1 = b
    BY <1>1
  <2> HIDE DEF i
  <2>2. Rank(Kept, i) \in Nat /\ Rank(Kept, i + 1) = IF i + 1 \in Kept THEN Rank(Kept, i) + 1 ELSE Rank(Kept, i)
    BY <1>5, <2>1
  <2> QED BY <2>1, <2>2 DEF i
<1>8. \A b \in Kept : Rank(Kept, b) \in 1..Cardinality(Kept) /\ Nth(Kept, Rank(Kept, b)) = b
  BY <1>1, <1>3, NthOfRank
<1>9. Nth(Kept, 1) = 1 /\ Cardinality(Kept) >= 1
  BY <1>4, <1>5, <1>6, <1>8
<1>10. \A b \in 1..N : b \in Kept <=> (ls[b].kind = "conv" /\ ls[b].pad > 0) \/ (ls[b].kind = "tconv" /\ ls[b].right > 0)
  BY <1>2
<1> QED BY <1>3, <1>5, <1>6, <1>7, <1>8, <1>9, <1>10 DEF N

(* Nothing comes of nothing. *)
LEMMA ZeroLen ==
  ASSUME NEW p \in Programs, NEW b \in 1..Len(Stack(p)) + 1
  PROVE  InLen(p, b, 0) = 0
<1> DEFINE N == Len(Stack(p))
           L(j) == InLen(p, j, 0)
<1>1. N \in Nat /\ \A j \in 1..N : IsBlock(Stack(p)[j])
  BY Network
<1>2. L(1) = 0 /\ \A j \in 1..N : L(j + 1) = Through(Stack(p)[j], L(j))
  BY InLenIs
<1> HIDE DEF N, L
<1> DEFINE T == {j \in Nat : L(j + 1) = 0}
<1>3. 0 \in T
  BY <1>2
<1>4. ASSUME NEW i \in 0..(N - 1), i \in T PROVE i + 1 \in T
  <2>1. i + 1 \in 1..N /\ i + 1 \in Nat
    BY <1>1
  <2>2. L((i + 1) + 1) = Through(Stack(p)[i + 1], 0) /\ IsBlock(Stack(p)[i + 1])
    BY <1>1, <1>2, <1>4, <2>1
  <2> DEFINE l == Stack(p)[i + 1]
  <2>3. IsBlock(l) /\ L((i + 1) + 1) = Through(l, 0)
    BY <2>2
  <2> HIDE DEF l
  <2>4. Through(l, 0) = 0
    <3>1. CASE l.kind = "tconv"
      <4>1. IsTconv(l)
        BY <2>3, <3>1 DEF IsBlock
      <4> DEFINE z == 0
      <4>2. z \in Nat /\ z <= z
        OBVIOUS
      <4> HIDE DEF z
      <4>3. Through(l, z) = EmittedBy(l, z)
        BY <2>3, <3>1, <4>2, ThroughIs
      <4>4. EmittedBy(l, 0) = 0
        BY <4>1, EmittedGrows
      <4> QED BY <4>3, <4>4 DEF z
    <3>2. CASE l.kind # "tconv"
      BY <3>2 DEF Through
    <3> QED BY <3>1, <3>2
  <2> QED BY <2>1, <2>3, <2>4
<1> HIDE DEF T
<1>5. 0..N \subseteq T
  BY <1>1, <1>3, <1>4, UpTo
<1>6. b - 1 \in 0..N /\ (b - 1) + 1 = b
  BY <1>1 DEF N
<1>7. L((b - 1) + 1) = 0
  BY <1>5, <1>6 DEF T
<1> QED BY <1>6, <1>7 DEF L

(* The length declared for place j. *)
SpecAt(j) ==
  IF j <= Rows THEN Wins[(j + 1) \div 2] - 1
  ELSE LET l == Stack("export")[Nth(Kept, j - Rows)] IN IF l.kind = "conv" THEN l.pad ELSE l.right
(* ... and how many places there are. *)
StatesN == Rows + Cardinality(Kept)

(* The two halves of the list of states. *)
LEMMA PlaceIs ==
  ASSUME "export" \in Programs, NEW j \in 1..StatesN
  PROVE  /\ j <= Rows => (j + 1) \div 2 \in 1..Len(Wins) /\ Wins[(j + 1) \div 2] - 1 \in Nat
         /\ j > Rows => LET b == Nth(Kept, j - Rows)  l == Stack("export")[b]
                        IN  /\ j - Rows \in 1..Cardinality(Kept) /\ b \in 1..Len(Stack("export")) /\ b \in Kept
                            /\ \/ l.kind = "conv" /\ l.pad \in Nat /\ l.pad > 0
                               \/ l.kind = "tconv" /\ IsTconv(l) /\ l.right \in Nat
         /\ StatesN \in Nat
<1> DEFINE n == Len(Wins)
           R == Rows
           k == Cardinality(Kept)
           N == Len(Stack("export"))
<1>1. n \in Nat /\ R \in Nat /\ R = 2 * n /\ (\A w \in 1..n : Wins[w] \in Nat /\ Wins[w] >= 2) /\ k \in Nat /\ StatesN = R + k
      /\ N \in Nat /\ Kept \in SUBSET (1..N)
  BY ExportShape, KeptAre DEF Rows, StatesN
<1> HIDE DEF n, R, k, N
<1>2. StatesN \in Nat /\ j \in Nat /\ 1 <= j /\ j <= R + k
  BY <1>1
<1>3. ASSUME j <= R PROVE (j + 1) \div 2 \in 1..n /\ Wins[(j + 1) \div 2] - 1 \in Nat
  <2> DEFINE w == (j + 1) \div 2
  <2>1. w \in 1..n
    BY <1>1, <1>2, <1>3
  <2> HIDE DEF w
  <2>2. Wins[w] \in Nat /\ Wins[w] >= 2
    BY <1>1, <2>1
  <2>3. Wins[w] - 1 \in Nat
    BY <2>2
  <2> QED BY <2>1, <2>3 DEF w
<1>4. ASSUME j > R
      PROVE  LET b == Nth(Kept, j - R)  l == Stack("export")[b]
             IN  /\ j - R \in 1..k /\ b \in 1..N /\ b \in Kept
                 /\ \/ l.kind = "conv" /\ l.pad \in Nat /\ l.pad > 0
                    \/ l.kind = "tconv" /\ IsTconv(l) /\ l.right \in Nat
  <2> DEFINE i == j - R
             b == Nth(Kept, i)
             l == Stack("export")[b]
  <2>1. i \in 1..k
    BY <1>1, <1>2, <1>4
  <2>2. b \in Kept
    <3> HIDE DEF i
    <3>1. i \in 1..Cardinality(Kept)
      BY <2>1 DEF k
    <3> QED BY <1>1, <3>1, NthIs
  <2>3. b \in 1..N
    BY <1>1, <2>2
  <2> HIDE DEF b
  <2>4. (l.kind = "conv" /\ l.pad > 0) \/ (l.kind = "tconv" /\ l.right > 0)
    BY <2>2, <2>3, KeptAre DEF N
  <2>5. IsBlock(l)
    BY <2>3, Network DEF N
  <2> HIDE DEF l
  <2>6. \/ l.kind = "conv" /\ l.pad \in Nat /\ l.pad > 0
        \/ l.kind = "tconv" /\ IsTconv(l) /\ l.right \in Nat
    <3>1. CASE l.kind = "conv" /\ l.pad > 0
      BY <3>1, <2>5 DEF IsBlock
    <3>2. CASE l.kind = "tconv" /\ l.right > 0
      <4>1. IsTconv(l)
        BY <3>2, <2>5 DEF IsBlock
      <4>2. l.right \in Nat
        BY <4>1 DEF IsTconv
      <4> QED BY <3>2, <4>1, <4>2
    <3> QED BY <2>4, <3>1, <3>2
  <2> QED BY <2>1, <2>2, <2>3, <2>6 DEF b, l
<1> QED BY <1>2, <1>3, <1>4 DEF n, R, k, N

(* A state has its declared length, and before the first chunk it holds nothing. *)
LEMMA StateLen ==
  ASSUME "export" \in Programs, NEW j \in 1..StatesN, NEW m \in Nat
  PROVE  /\ SpecAt(j) \in Nat /\ Len(StateAt(j, m)) = SpecAt(j)
         /\ StateAt(j, 0) = IF j > Rows /\ Stack("export")[Nth(Kept, j - Rows)].kind = "tconv"
                            THEN [q \in 1..SpecAt(j) |-> <<>>] ELSE Zeros(SpecAt(j))
<1>1. Rows \in Nat /\ j \in Int
  <2>1. Rows \in Nat /\ StatesN \in Nat
    BY ExportShape, PlaceIs
  <2> QED BY <2>1
<1>2. \A n \in Nat, h \in Nat : Len(Hist(n, h)) = n /\ Hist(n, 0) = Zeros(n)
  BY DEF Hist, Zeros, Padded
<1>3. CASE j <= Rows
  <2> DEFINE n == Wins[(j + 1) \div 2] - 1
  <2>1. n \in Nat
    BY <1>3, PlaceIs
  <2>2. SpecAt(j) = n /\ (\A h : StateAt(j, h) = Hist(n, h)) /\ ~(j > Rows)
    BY <1>1, <1>3 DEF SpecAt, StateAt
  <2> HIDE DEF n
  <2> QED BY <1>2, <2>1, <2>2
<1>4. CASE j > Rows
  <2> DEFINE b == Nth(Kept, j - Rows)
             l == Stack("export")[b]
  <2>1. /\ b \in 1..Len(Stack("export")) + 1 /\ b \in 1..Len(Stack("export"))
        /\ \/ l.kind = "conv" /\ l.pad \in Nat /\ l.pad > 0
           \/ l.kind = "tconv" /\ IsTconv(l) /\ l.right \in Nat
    BY <1>4, PlaceIs, Network
  <2>2. InLen("export", b, 0) = 0 /\ InLen("export", b, m) \in Nat
    <3> HIDE DEF b
    <3> QED BY <2>1, ZeroLen, InLenIs
  <2>3. ~(j <= Rows)
    BY <1>1, <1>4
  <2>4. /\ SpecAt(j) = IF l.kind = "conv" THEN l.pad ELSE l.right
        /\ \A h : StateAt(j, h) = IF l.kind = "conv" THEN Hist(l.pad, InLen("export", b, h)) ELSE PendingOf(l, InLen("export", b, h))
    BY <2>3 DEF SpecAt, StateAt, KeptAt
  <2> DEFINE h == InLen("export", b, m)
  <2>5. /\ StateAt(j, m) = IF l.kind = "conv" THEN Hist(l.pad, h) ELSE PendingOf(l, h)
        /\ StateAt(j, 0) = IF l.kind = "conv" THEN Hist(l.pad, 0) ELSE PendingOf(l, 0)
        /\ h \in Nat
    BY <2>2, <2>4
  <2>6. (Stack("export")[Nth(Kept, j - Rows)].kind = "tconv") <=> (l.kind = "tconv")
    OBVIOUS
  <2> HIDE DEF l, h, b
  <2>7. CASE l.kind = "conv"
    <3>1. l.pad \in Nat
      BY <2>1, <2>7
    <3>2. StateAt(j, m) = Hist(l.pad, h) /\ StateAt(j, 0) = Hist(l.pad, 0) /\ SpecAt(j) = l.pad
      BY <2>4, <2>5, <2>7
    <3>3. Len(Hist(l.pad, h)) = l.pad /\ Hist(l.pad, 0) = Zeros(l.pad)
      BY <1>2, <2>5, <3>1
    <3> QED BY <2>6, <2>7, <3>1, <3>2, <3>3
  <2>8. CASE l.kind # "conv"
    <3>1. l.kind = "tconv" /\ IsTconv(l) /\ l.right \in Nat
      BY <2>1, <2>8
    <3>2. StateAt(j, m) = PendingOf(l, h) /\ StateAt(j, 0) = PendingOf(l, 0) /\ SpecAt(j) = l.right
      BY <2>4, <2>5, <2>8
    <3>3. PendingOf(l, 0) = [q \in 1..l.right |-> <<>>]
      BY <3>1, NothingPending
    <3>4. Len(PendingOf(l, h)) = l.right
      BY <3>1 DEF PendingOf
    <3> QED BY <1>4, <2>6, <3>1, <3>2, <3>3, <3>4
  <2> QED BY <2>7, <2>8
<1> QED BY <1>1, <1>3, <1>4

(* The declared states. *)
LEMMA SpecsAre ==
  ASSUME "export" \in Programs
  PROVE  /\ StatesN \in Nat /\ Len(state_specs("export")) = StatesN
         /\ \A j \in 1..StatesN : state_specs("export")[j] = SpecAt(j)
<1> DEFINE R == Rows
           k == Cardinality(Kept)
           rest == StatefulBlocks("export")
           u == [j \in 1..R |-> Wins[(j + 1) \div 2] - 1]
           v == [j \in 1..k |-> IF rest[j].kind = "conv" THEN rest[j].pad ELSE rest[j].right]
<1>1. R \in Nat /\ k \in Nat /\ StatesN = R + k /\ StatesN \in Nat
  <2>1. R \in Nat /\ k \in Nat
    BY ExportShape, KeptAre
  <2> QED BY <2>1 DEF StatesN
<1>2. rest = [n \in 1..k |-> Stack("export")[Nth(Kept, n)]]
  BY DEF StatefulBlocks, Picked, Kept
<1>3. Len(rest) = k
  <2> HIDE DEF k, rest
  <2> QED BY <1>1, <1>2
<1>4. state_specs("export") = u \o v
  <2>1. Windows("export") = Wins /\ R = 2 * Len(Wins)
    BY WindowsAre DEF Rows
  <2> QED BY <1>3, <2>1 DEF state_specs
<1>5. \A j \in 1..R : u[j] = SpecAt(j) /\ u[j] \in Nat
  <2> TAKE j \in 1..R
  <2>1. j \in 1..StatesN /\ j <= R
    BY <1>1
  <2>2. SpecAt(j) = u[j]
    BY <2>1 DEF SpecAt
  <2> QED BY <2>1, <2>2, StateLen
<1>6. \A j \in 1..k : v[j] = SpecAt(R + j) /\ v[j] \in Nat
  <2> TAKE j \in 1..k
  <2>1. R + j \in 1..StatesN /\ ~(R + j <= R) /\ (R + j) - R = j
    BY <1>1
  <2>2. rest[j] = Stack("export")[Nth(Kept, j)]
    BY <1>2
  <2>3. SpecAt(R + j) = v[j]
    BY <2>1, <2>2 DEF SpecAt
  <2> QED BY <2>1, <2>3, StateLen
<1>7. u \in Seq(Nat) /\ Len(u) = R /\ v \in Seq(Nat) /\ Len(v) = k
  <2>1. u = [j \in 1..R |-> u[j]] /\ v = [j \in 1..k |-> v[j]]
    OBVIOUS
  <2>2. R \in Nat /\ k \in Nat
    BY <1>1
  <2> HIDE DEF u, v, R, k
  <2>3. u \in [1..R -> Nat] /\ v \in [1..k -> Nat]
    BY <1>5, <1>6, <2>1
  <2> QED BY ONLY <2>2, <2>3
<1> HIDE DEF u, v, R, k
<1>8. u \o v = [i \in 1..R + k |-> IF i <= R THEN u[i] ELSE v[i - R]]
  <2>1. u \o v = [i \in 1..Len(u) + Len(v) |-> IF i <= Len(u) THEN u[i] ELSE v[i - Len(u)]]
    BY <1>7, CatIs
  <2> QED BY <1>7, <2>1
<1>9. Len(u \o v) = R + k
  <2> DEFINE w == u \o v
             n == R + k
  <2>1. n \in Nat /\ w = [i \in 1..n |-> IF i <= R THEN u[i] ELSE v[i - R]]
    BY <1>1, <1>8
  <2> HIDE DEF w, n
  <2>2. Len(w) = n
    BY <2>1
  <2> QED BY <2>2 DEF w, n
<1>10. ASSUME NEW j \in 1..R + k PROVE (u \o v)[j] = SpecAt(j)
  <2>1. CASE j <= R
    <3>1. j \in 1..R
      BY <1>1, <2>1
    <3> QED BY <1>5, <1>8, <2>1, <3>1
  <2>2. CASE ~(j <= R)
    <3>1. j - R \in 1..k /\ R + (j - R) = j
      BY <1>1, <2>2
    <3> QED BY <1>6, <1>8, <2>2, <3>1
  <2> QED BY <2>1, <2>2
<1> QED BY <1>1, <1>4, <1>9, <1>10

(* Before the first chunk. *)
LEMMA InitialStatesAre ==
  ASSUME "export" \in Programs
  PROVE  initial_states("export") = StatesAt(0, StatesN)
<1> DEFINE specs == state_specs("export")
<1>1. Len(specs) = StatesN /\ (\A j \in 1..StatesN : specs[j] = SpecAt(j)) /\ StatesN \in Nat
  BY SpecsAre
<1>2. 2 * Len(Windows("export")) = Rows
  BY WindowsAre DEF Rows
<1>3. initial_states("export") = [j \in 1..Len(specs) |->
         IF j > Rows /\ StatefulBlocks("export")[j - Rows].kind = "tconv"
         THEN [q \in 1..specs[j] |-> <<>>] ELSE Zeros(specs[j])]
  BY <1>2 DEF initial_states
<1> HIDE DEF specs
<1>4. ASSUME NEW j \in 1..StatesN
      PROVE (IF j > Rows /\ StatefulBlocks("export")[j - Rows].kind = "tconv"
             THEN [q \in 1..specs[j] |-> <<>>] ELSE Zeros(specs[j])) = StateAt(j, 0)
  <2>1. j > Rows => StatefulBlocks("export")[j - Rows] = Stack("export")[Nth(Kept, j - Rows)]
    <3> SUFFICES ASSUME j > Rows PROVE StatefulBlocks("export")[j - Rows] = Stack("export")[Nth(Kept, j - Rows)]
      OBVIOUS
    <3>1. j - Rows \in 1..Cardinality(Kept)
      BY PlaceIs
    <3> QED BY <3>1 DEF StatefulBlocks, Picked, Kept
  <2>2. StateAt(j, 0) = IF j > Rows /\ Stack("export")[Nth(Kept, j - Rows)].kind = "tconv"
                            THEN [q \in 1..SpecAt(j) |-> <<>>] ELSE Zeros(SpecAt(j))
    BY StateLen
  <2>3. specs[j] = SpecAt(j)
    BY <1>1
  <2> QED BY <2>1, <2>2, <2>3
<1>5. initial_states("export") = [j \in 1..StatesN |-> StateAt(j, 0)]
  BY <1>1, <1>3, <1>4
<1> QED BY <1>5 DEF StatesAt

-----------------------------------------------------------------------------
(* The exported module: one chunk                                            *)

(* The list of states grows at its end. *)
LEMMA StatesAppend ==
  ASSUME NEW m, NEW k \in Nat
  PROVE  Append(StatesAt(m, k), StateAt(k + 1, m)) = StatesAt(m, k + 1)
<1> DEFINE e == [j \in 1..k + 1 |-> StateAt(j, m)]
<1>1. k + 1 \in 1..k + 1 /\ \A j \in 1..k : j \in 1..k + 1
  OBVIOUS
<1>2. StatesAt(m, k) = [j \in 1..k |-> e[j]] /\ StatesAt(m, k + 1) = [j \in 1..k + 1 |-> e[j]] /\ StateAt(k + 1, m) = e[k + 1]
  BY <1>1 DEF StatesAt
<1> HIDE DEF e
<1>3. Append([j \in 1..k |-> e[j]], e[k + 1]) = [j \in 1..k + 1 |-> e[j]]
  BY AppendIs
<1> QED BY <1>2, <1>3

(* Two at once. *)
LEMMA StatesGrow ==
  ASSUME NEW m, NEW k \in Nat
  PROVE  StatesAt(m, k) \o <<StateAt(k + 1, m), StateAt(k + 2, m)>> = StatesAt(m, k + 2)
<1> DEFINE S == {StateAt(j, m) : j \in Nat}
           s == StatesAt(m, k)
           a == StateAt(k + 1, m)
           b == StateAt(k + 2, m)
           t == <<a, b>>
           u == StatesAt(m, k + 2)
<1>1. a \in S /\ b \in S /\ \A j \in 1..k : StateAt(j, m) \in S
  <2>1. k + 1 \in Nat /\ k + 2 \in Nat /\ \A j \in 1..k : j \in Nat
    OBVIOUS
  <2> QED BY <2>1
<1>2. s \in Seq(S) /\ Len(s) = k /\ \A j \in 1..k : s[j] = StateAt(j, m)
  <2> HIDE DEF S
  <2> QED BY <1>1 DEF StatesAt
<1>3. u = [j \in 1..k + 2 |-> StateAt(j, m)]
  BY DEF StatesAt
<1>4. t \in Seq(S) /\ Len(t) = 2 /\ t[1] = a /\ t[2] = b
  <2> HIDE DEF S, a, b
  <2> QED BY <1>1
<1> HIDE DEF S, s, t, u
<1>5. s \o t = [i \in 1..Len(s) + Len(t) |-> IF i <= Len(s) THEN s[i] ELSE t[i - Len(s)]]
  BY <1>2, <1>4, CatIs
<1>6. s \o t = [i \in 1..k + 2 |-> IF i <= k THEN s[i] ELSE t[i - k]]
  BY <1>2, <1>4, <1>5
<1>7. ASSUME NEW i \in 1..k + 2 PROVE (IF i <= k THEN s[i] ELSE t[i - k]) = StateAt(i, m)
  <2>1. CASE i <= k
    <3>1. i \in 1..k
      BY <2>1
    <3> QED BY <1>2, <2>1, <3>1
  <2>2. CASE i = k + 1
    <3>1. i - k = 1 /\ ~(i <= k)
      BY <2>2
    <3> QED BY <1>4, <2>2, <3>1
  <2>3. CASE i = k + 2
    <3>1. i - k = 2 /\ ~(i <= k)
      BY <2>3
    <3> QED BY <1>4, <2>3, <3>1
  <2>4. i <= k \/ i = k + 1 \/ i = k + 2
    OBVIOUS
  <2> QED BY <2>1, <2>2, <2>3, <2>4
<1>8. s \o t = u
  BY <1>3, <1>6, <1>7
<1> QED BY <1>8 DEF s, t, u

(* A chunk behind w layers of the transformer. *)
Behind(m, c, w) == [x |-> Iota(m, c), cursor |-> 2 * w + 1, out |-> StatesAt(m + c, 2 * w)]

(* One layer reads its keys and values and puts out the next ones. *)
LEMMA AttentionIs ==
  ASSUME "export" \in Programs, NEW m \in Nat, NEW c \in Nat, NEW w \in 1..Len(Wins)
  PROVE  Attention(m, Wins, StatesAt(m, StatesN), Behind(m, c, w - 1), w) = Behind(m, c, w)
<1> DEFINE v == w - 1
           W == Wins[w]
           in == StatesAt(m, StatesN)
           j == 2 * v
           a == Behind(m, c, v)
<1>1. /\ Len(Wins) \in Nat /\ Rows = 2 * Len(Wins) /\ W \in Nat /\ W >= 2 /\ StatesN = Rows + Cardinality(Kept)
      /\ Cardinality(Kept) \in Nat
  BY ExportShape, KeptAre DEF Rows, StatesN
<1>2. w \in Nat /\ v \in Nat /\ j \in Nat /\ j + 1 \in 1..StatesN /\ j + 2 \in 1..StatesN /\ j + 1 <= Rows /\ j + 2 <= Rows
      /\ ((j + 1) + 1) \div 2 = w /\ ((j + 2) + 1) \div 2 = w /\ 2 * w = j + 2 /\ 2 * v + 1 = j + 1 /\ (j + 1) + 1 = j + 2
      /\ (j + 1) + 2 = 2 * w + 1
  <2> DEFINE n == Len(Wins)
             R == Rows
             k == Cardinality(Kept)
             N == StatesN
  <2>1. n \in Nat /\ R = 2 * n /\ N = R + k /\ k \in Nat /\ w \in 1..n
    BY <1>1
  <2> HIDE DEF n, R, k, N
  <2>2. w \in Nat /\ v \in Nat /\ j \in Nat /\ w = v + 1 /\ w <= n /\ j = 2 * v
    BY ONLY <2>1
  <2> HIDE DEF v, j
  <2>3. j + 1 \in 1..N /\ j + 2 \in 1..N /\ j + 1 <= R /\ j + 2 <= R
    BY ONLY <2>1, <2>2
  <2>4. ((j + 1) + 1) \div 2 = w /\ ((j + 2) + 1) \div 2 = w
    BY ONLY <2>2
  <2>5. 2 * w = j + 2 /\ 2 * v + 1 = j + 1 /\ (j + 1) + 1 = j + 2 /\ (j + 1) + 2 = 2 * w + 1
    BY ONLY <2>2
  <2> QED BY <2>2, <2>3, <2>4, <2>5 DEF R, N
<1> HIDE DEF W, j, v
<1>3. \A h : StateAt(j + 1, h) = Hist(W - 1, h) /\ StateAt(j + 2, h) = Hist(W - 1, h)
  BY <1>2 DEF StateAt, W
<1>4. in[j + 1] = Hist(W - 1, m) /\ in[j + 2] = Hist(W - 1, m)
  BY <1>2, <1>3 DEF StatesAt
<1> DEFINE x == Iota(m, c)
           H == Hist(W - 1, m)
           r == ExportAttnStep(W, H, H, x, m)
<1>5. r.y = x /\ r.k = StateAt(j + 1, m + c) /\ r.v = StateAt(j + 2, m + c)
  <2>1. r.y = x /\ r.k = Hist(W - 1, m + c) /\ r.v = Hist(W - 1, m + c)
    BY <1>1, ExportAttnStepIs
  <2> HIDE DEF r
  <2> QED BY <1>3, <2>1
<1>6. a = [x |-> x, cursor |-> j + 1, out |-> StatesAt(m + c, j)]
  <2>1. 2 * v = j
    BY DEF j
  <2> QED BY <1>2, <2>1 DEF Behind
<1> HIDE DEF x, H, a, in
<1>7. ExportAttnStep(Wins[w], in[a.cursor], in[a.cursor + 1], a.x, m) = r
  <2>1. a.cursor = j + 1 /\ a.cursor + 1 = j + 2 /\ a.x = x
    BY <1>2, <1>6
  <2> QED BY <1>4, <2>1 DEF W, H
<1> HIDE DEF r
<1>8. Attention(m, Wins, in, a, w) = [x |-> r.y, cursor |-> (j + 1) + 2, out |-> StatesAt(m + c, j) \o <<r.k, r.v>>]
  <2>1. Attention(m, Wins, in, a, w) = [a EXCEPT !.x = r.y, !.cursor = @ + 2, !.out = @ \o <<r.k, r.v>>]
    BY <1>7 DEF Attention
  <2> QED BY <1>6, <2>1
<1>9. StatesAt(m + c, j) \o <<StateAt(j + 1, m + c), StateAt(j + 2, m + c)>> = StatesAt(m + c, j + 2)
  BY <1>2, StatesGrow
<1>10. Attention(m, Wins, in, a, w) = Behind(m, c, w)
  BY <1>2, <1>5, <1>8, <1>9 DEF Behind, x
<1> QED BY <1>10 DEF a, in, v

(* And all of them. *)
LEMMA TransformerStepIs ==
  ASSUME "export" \in Programs, NEW m \in Nat, NEW c \in Nat
  PROVE  pre_transformer_step(Iota(m, c), m, Wins, StatesAt(m, StatesN)) = [x |-> Iota(m, c), cursor |-> Rows + 1, out |-> StatesAt(m + c, Rows)]
<1> DEFINE n == Len(Wins)
           x == Iota(m, c)
           in == StatesAt(m, StatesN)
           Rhs(f) == [w \in 0..n |-> IF w = 0 THEN [x |-> x, cursor |-> 1, out |-> <<>>] ELSE Attention(m, Wins, in, f[w - 1], w)]
           F == CHOOSE f : f = Rhs(f)
           g == [w \in 0..n |-> Behind(m, c, w)]
<1>0. n \in Nat
  BY ExportShape
<1>1. pre_transformer_step(x, m, Wins, in) = F[n]
  BY DEF pre_transformer_step
<1>2. \A w \in 1..n : Attention(m, Wins, in, Behind(m, c, w - 1), w) = Behind(m, c, w)
  BY AttentionIs
<1>3. Behind(m, c, 0) = [x |-> x, cursor |-> 1, out |-> <<>>]
  <2>1. 2 * 0 = 0 /\ 0 + 1 = 1
    OBVIOUS
  <2>2. StatesAt(m + c, 0) = <<>>
    BY DEF StatesAt
  <2> QED BY <2>1, <2>2 DEF Behind
<1> HIDE DEF x, in
<1>4. \A f : /\ Rhs(f) = [w \in 0..n |-> Rhs(f)[w]] /\ Rhs(f)[0] = [x |-> x, cursor |-> 1, out |-> <<>>]
             /\ \A w \in 1..n : Rhs(f)[w] = Attention(m, Wins, in, f[w - 1], w)
  <2> TAKE f
  <2>1. 0 \in 0..n /\ \A w \in 1..n : w \in 0..n /\ w # 0
    BY <1>0
  <2> QED BY <2>1
<1>5. F = CHOOSE f : f = Rhs(f)
  OBVIOUS
<1>6. g = [w \in 0..n |-> g[w]] /\ \A w \in 0..n : g[w] = Behind(m, c, w)
  OBVIOUS
<1> HIDE DEF Rhs, F, g
<1>7. ASSUME NEW w \in 0..n PROVE g[w] = Rhs(g)[w]
  <2>1. CASE w = 0
    BY <1>0, <1>3, <1>4, <1>6, <2>1
  <2>2. CASE w # 0
    <3>1. w \in 1..n /\ w - 1 \in 0..n
      BY <1>0, <2>2
    <3> QED BY <1>2, <1>4, <1>6, <3>1
  <2> QED BY <2>1, <2>2
<1>8. g = Rhs(g)
  <2>1. Rhs(g) = [w \in 0..n |-> Rhs(g)[w]]
    BY <1>4
  <2> QED BY <1>6, <1>7, <2>1
<1>9. F = Rhs(F)
  BY <1>5, <1>8
<1> DEFINE T == {w \in Nat : w <= n => F[w] = Behind(m, c, w)}
<1>10. 0 \in T
  BY <1>3, <1>4, <1>9
<1>11. ASSUME NEW i \in 0..(n - 1), i \in T PROVE i + 1 \in T
  <2> DEFINE w == i + 1
  <2>1. w \in 1..n /\ w - 1 = i /\ i \in Nat /\ i <= n /\ w \in Nat
    BY <1>0
  <2>2. F[w - 1] = Behind(m, c, w - 1)
    BY <1>11, <2>1
  <2> HIDE DEF w
  <2>3. Rhs(F)[w] = Attention(m, Wins, in, F[w - 1], w)
    BY <1>4, <2>1
  <2>4. F[w] = Behind(m, c, w)
    BY <1>2, <1>9, <2>1, <2>2, <2>3
  <2> QED BY <2>1, <2>4 DEF w
<1> HIDE DEF T
<1>12. 0..n \subseteq T
  BY ONLY <1>0, <1>10, <1>11, UpTo
<1>13. F[n] = Behind(m, c, n)
  BY <1>0, <1>12 DEF T
<1>14. Behind(m, c, n) = [x |-> x, cursor |-> Rows + 1, out |-> StatesAt(m + c, Rows)]
  BY DEF Behind, Rows, x
<1> QED BY <1>1, <1>13, <1>14 DEF x, in

(* The part of the signal in front of block b that a chunk of c code frames behind m others gives. *)
SignalAt(b, m, c) == Iota(InLen("export", b, m), InLen("export", b, m + c) - InLen("export", b, m))

(* What forward holds behind block b. *)
BehindBlock(b, m, c) ==
  [x |-> SignalAt(b + 1, m, c), cursor |-> (Rows + Rank(Kept, b)) + 1, out |-> StatesAt(m + c, Rows + Rank(Kept, b)),
   resid |-> IF InResidual("export", b + 1) THEN <<SignalAt(b + 1, m, c)>> ELSE <<>>]

(* A chunk of the utterance: c code frames behind m others. *)
IsChunk(m, c) == m \in Nat /\ c \in Nat /\ feed.frames \in Nat /\ m + c <= feed.frames

(* How long it is at block b. *)
LEMMA SignalIs ==
  ASSUME "export" \in Programs, NEW b \in 1..Len(Stack("export")) + 1, NEW m, NEW c, IsChunk(m, c)
  PROVE  LET a == InLen("export", b, m)  e == InLen("export", b, m + c)  d == e - a
         IN  /\ a \in Nat /\ e \in Nat /\ d \in Nat /\ a + d = e
             /\ Frames \in Nat /\ InLen("export", b, Frames) \in Nat /\ e <= InLen("export", b, Frames)
             /\ SignalAt(b, m, c) = Iota(a, d) /\ SignalAt(b, m, c) \in Seq(Int)
<1> DEFINE M == m + c
           n == feed.frames
           a == InLen("export", b, m)
           e == InLen("export", b, M)
           L == InLen("export", b, n)
           d == e - a
<1>1. m \in Nat /\ M \in Nat /\ n \in Nat /\ m <= M /\ M <= n
  BY DEF IsChunk
<1> HIDE DEF M, n
<1>2. a \in Nat /\ e \in Nat /\ L \in Nat
  BY <1>1, InLenIs
<1>3. a <= e /\ e <= L
  BY <1>1, InLenGrows
<1>4. SignalAt(b, m, c) = Iota(a, d) /\ Frames = n
  BY DEF SignalAt, Frames, M, n
<1> HIDE DEF a, e, L
<1>5. d \in Nat /\ a + d = e
  BY <1>2, <1>3
<1> HIDE DEF d
<1>6. Iota(a, d) \in Seq(Int)
  BY <1>2, <1>5, IotaIs
<1> QED BY <1>1, <1>2, <1>3, <1>4, <1>5, <1>6 DEF M, n, a, e, L, d

(* Only a transposed convolution changes it. *)
LEMMA SignalPasses ==
  ASSUME "export" \in Programs, NEW b \in 3..Len(Stack("export")), NEW m, NEW c, IsChunk(m, c)
  PROVE  LET l == Stack("export")[b]  a == InLen("export", b, m)  e == InLen("export", b, m + c)  d == e - a
         IN  /\ l.kind # "tconv" => SignalAt(b + 1, m, c) = SignalAt(b, m, c)
             /\ l.kind = "tconv" => SignalAt(b + 1, m, c) = Iota(a * l.s, d * l.s)
<1> DEFINE M == m + c
           l == Stack("export")[b]
           a == InLen("export", b, m)
           e == InLen("export", b, M)
           d == e - a
<1>1. m \in Nat /\ M \in Nat
  BY DEF IsChunk
<1>2. b \in 1..Len(Stack("export")) /\ b \in 1..Len(Stack("export")) + 1
  BY ExportShape
<1>3. InLen("export", b + 1, m) = Through(l, a) /\ InLen("export", b + 1, M) = Through(l, e) /\ a \in Nat /\ e \in Nat
  <2> HIDE DEF M
  <2> QED BY <1>1, <1>2, InLenIs
<1>4. SignalAt(b + 1, m, c) = Iota(Through(l, a), Through(l, e) - Through(l, a)) /\ SignalAt(b, m, c) = Iota(a, d)
  BY <1>3 DEF SignalAt
<1>5. IsBlock(l) /\ (l.kind = "tconv" => IsTconv(l) /\ l.left = 0)
  BY <1>2, ExportShape, Network
<1> HIDE DEF l, a, e
<1>6. l.kind # "tconv" => Through(l, a) = a /\ Through(l, e) = e
  BY DEF Through
<1>7. ASSUME l.kind = "tconv" PROVE Through(l, a) = a * l.s /\ Through(l, e) - Through(l, a) = d * l.s
  <2> DEFINE s == l.s
             u == a * s
             v == e * s
  <2>1. a <= a /\ e <= e
    BY <1>3
  <2>2. Through(l, a) = EmittedBy(l, a) /\ Through(l, e) = EmittedBy(l, e)
    BY <1>3, <1>5, <1>7, <2>1, ThroughIs
  <2>3. s \in Nat
    BY <1>5, <1>7 DEF IsTconv
  <2>4. u \in Nat /\ v \in Nat /\ (e - a) * s = v - u
    <3> HIDE DEF s
    <3>1. a \in Int /\ e \in Int /\ s \in Int
      BY <1>3, <2>3
    <3> QED BY <1>3, <2>3, <3>1, Products
  <2>5. EmittedBy(l, a) = Maximum(0, u - 0) /\ EmittedBy(l, e) = Maximum(0, v - 0)
    BY <1>5, <1>7 DEF EmittedBy
  <2> HIDE DEF u, v
  <2>6. Maximum(0, u - 0) = u /\ Maximum(0, v - 0) = v
    BY <2>4 DEF Maximum
  <2> QED BY <2>2, <2>4, <2>5, <2>6 DEF u, v
<1> QED BY <1>4, <1>6, <1>7 DEF l, a, e

(* The state of a block that keeps one. *)
LEMMA KeptPlace ==
  ASSUME "export" \in Programs, NEW b \in 3..Len(Stack("export")), b \in Kept, NEW m
  PROVE  LET j == (Rows + Rank(Kept, b - 1)) + 1
         IN  /\ StatesAt(m, StatesN)[j] = KeptAt(b, m) /\ StateAt(j, m) = KeptAt(b, m)
             /\ Rows + Rank(Kept, b) = j /\ Rows + Rank(Kept, b - 1) \in Nat
             /\ \A h : Append(StatesAt(h, Rows + Rank(Kept, b - 1)), KeptAt(b, h)) = StatesAt(h, Rows + Rank(Kept, b))
<1> DEFINE k == Rank(Kept, b - 1)
           R == Rows
           C == Cardinality(Kept)
           j == (R + k) + 1
<1>1. /\ k \in Nat /\ Rank(Kept, b) = k + 1 /\ Rank(Kept, b) \in 1..C /\ Nth(Kept, Rank(Kept, b)) = b
      /\ R \in Nat /\ C \in Nat /\ StatesN = R + C
  BY ExportShape, KeptAre DEF StatesN
<1> HIDE DEF k, R, C
<1>2. j \in 1..StatesN /\ ~(j <= R) /\ j - R = k + 1 /\ R + (k + 1) = j /\ R + k \in Nat
  BY <1>1
<1>3. \A h : StateAt(j, h) = KeptAt(b, h)
  BY <1>1, <1>2 DEF StateAt, R
<1>4. StatesAt(m, StatesN)[j] = StateAt(j, m)
  BY <1>2 DEF StatesAt
<1>5. \A h : Append(StatesAt(h, R + k), KeptAt(b, h)) = StatesAt(h, j)
  <2> TAKE h
  <2> DEFINE n == R + k
  <2>1. n \in Nat /\ StateAt(n + 1, h) = KeptAt(b, h) /\ j = n + 1
    BY <1>2, <1>3
  <2> HIDE DEF n, j
  <2>2. Append(StatesAt(h, n), StateAt(n + 1, h)) = StatesAt(h, n + 1)
    BY <2>1, StatesAppend
  <2> QED BY <2>1, <2>2 DEF n
<1> QED BY <1>1, <1>2, <1>3, <1>4, <1>5 DEF k, R, j

(* A convolution without padding is the identity on names. *)
LEMMA ConvNoState ==
  ASSUME NEW m \in Nat, NEW c \in Nat PROVE Conv(Iota(m, c), 0) = Iota(m, c)
<1>1. RefConvStep(0, Hist(0, m), Iota(m, c)) = [y |-> Iota(m, c), st |-> Hist(0, m + c)]
  BY ConvSteps
<1>2. RefConvStep(0, Hist(0, m), Iota(m, c)).y = Conv(Iota(m, c), 0)
  BY DEF RefConvStep
<1> QED BY <1>1, <1>2

(* One block of the decoder. *)
LEMMA ForwardBlockIs ==
  ASSUME "export" \in Programs, NEW b \in 3..Len(Stack("export")), NEW m, NEW c, IsChunk(m, c)
  PROVE  ForwardBlock(BehindBlock(b - 1, m, c), b, StatesAt(m, StatesN)) = BehindBlock(b, m, c)
<1> DEFINE l == Stack("export")[b]
           in == StatesAt(m, StatesN)
           M == m + c
           a == InLen("export", b, m)
           e == InLen("export", b, M)
           d == e - a
           n == InLen("export", b, Frames)
           x == SignalAt(b, m, c)
           y == SignalAt(b + 1, m, c)
           k == Rows + Rank(Kept, b - 1)
           o == StatesAt(M, k)
           K == Rows + Rank(Kept, b)
           O == StatesAt(M, K)
           rx == IF InResidual("export", b) THEN <<x>> ELSE <<>>
           ry == IF InResidual("export", b + 1) THEN <<y>> ELSE <<>>
           A == BehindBlock(b - 1, m, c)
<1>1. b \in 1..Len(Stack("export")) /\ b \in 1..Len(Stack("export")) + 1 /\ (b - 1) + 1 = b
  BY ExportShape
<1>2. a \in Nat /\ d \in Nat /\ a + d = e /\ n \in Nat /\ e <= n /\ x = Iota(a, d)
  BY <1>1, SignalIs
<1>3. l.kind # "tconv" => y = x
  BY SignalPasses
<1>4. l.kind = "tconv" => y = Iota(a * l.s, d * l.s)
  BY SignalPasses
<1>5. A = [x |-> x, cursor |-> k + 1, out |-> o, resid |-> rx]
  BY <1>1 DEF BehindBlock
<1>6. BehindBlock(b, m, c) = [x |-> y, cursor |-> K + 1, out |-> O, resid |-> ry]
  BY DEF BehindBlock
<1>7. /\ l.kind \in {"conv", "tconv", "fork", "join"}
      /\ l.kind = "conv" => l.pad \in Nat
      /\ l.kind = "tconv" => IsTconv(l) /\ l.left = 0 /\ l.right \in Nat
  BY ExportShape
<1>8. /\ l.kind = "fork" => rx = <<>> /\ ry = <<y>>
      /\ l.kind = "join" => rx = <<x>> /\ ry = <<>>
      /\ l.kind = "conv" => (InResidual("export", b + 1) <=> InResidual("export", b))
      /\ l.kind = "tconv" => rx = <<>> /\ ry = <<>>
  BY <1>1, Network
<1>9. b \in Kept <=> (l.kind = "conv" /\ l.pad > 0) \/ (l.kind = "tconv" /\ l.right > 0)
  BY <1>1, KeptAre
<1>10. ASSUME b \notin Kept PROVE K = k /\ O = o
  <2>1. Rank(Kept, b) = Rank(Kept, b - 1)
    BY <1>10, KeptAre
  <2> QED BY <2>1
<1>11. ASSUME b \in Kept PROVE in[k + 1] = KeptAt(b, m) /\ K = k + 1 /\ k \in Nat /\ Append(o, KeptAt(b, M)) = O
  BY <1>11, KeptPlace
<1>12. \A h : KeptAt(b, h) = IF l.kind = "conv" THEN Hist(l.pad, InLen("export", b, h)) ELSE PendingOf(l, InLen("export", b, h))
  BY DEF KeptAt
<1>13. KeptAt(b, m) = (IF l.kind = "conv" THEN Hist(l.pad, a) ELSE PendingOf(l, a))
       /\ KeptAt(b, M) = (IF l.kind = "conv" THEN Hist(l.pad, e) ELSE PendingOf(l, e))
  BY <1>12
<1>14. /\ l.kind = "conv" => ForwardBlock(A, b, in) = ConvTake(A, l, in)
       /\ l.kind = "tconv" => ForwardBlock(A, b, in) = TconvTake(A, l, in, n)
       /\ l.kind = "fork" => ForwardBlock(A, b, in) = [A EXCEPT !.resid = Append(@, A.x)]
       /\ l.kind = "join" => ForwardBlock(A, b, in) = [A EXCEPT !.resid = Front(@), !.x = AddPieces(<<Last(A.resid)>>, <<A.x>>)[1]]
  BY DEF ForwardBlock
<1>15. l.kind = "conv" => ry = (IF InResidual("export", b) THEN <<y>> ELSE <<>>)
  BY <1>8
<1>16. l.kind = "conv" => ry = rx
  BY <1>3, <1>15
<1> HIDE DEF l, in, M, a, e, n, x, y, k, o, K, O, rx, ry, A
<1> SUFFICES ForwardBlock(A, b, in) = BehindBlock(b, m, c)
  BY DEF A, in
<1>17. CASE l.kind = "conv"
  <2>1. y = x /\ ry = rx /\ l.pad \in Nat
    BY <1>3, <1>7, <1>16, <1>17
  <2>2. CASE l.pad = 0
    <3>1. b \notin Kept
      BY <1>9, <1>17, <2>2
    <3>2. ConvTake(A, l, in) = [A EXCEPT !.x = Conv(A.x, 0)]
      BY <2>2 DEF ConvTake
    <3>3. Conv(x, 0) = x
      <4> HIDE DEF d
      <4> QED BY <1>2, ConvNoState
    <3>4. ConvTake(A, l, in) = [x |-> x, cursor |-> k + 1, out |-> o, resid |-> rx]
      BY <1>5, <3>2, <3>3
    <3>5. K = k /\ O = o
      BY <1>10, <3>1
    <3> QED BY <1>14, <1>17, <2>1, <3>4, <3>5, <1>6
  <2>3. CASE l.pad # 0
    <3>1. b \in Kept
      BY <1>9, <1>17, <2>1, <2>3
    <3>2. in[k + 1] = Hist(l.pad, a) /\ K = k + 1 /\ Append(o, Hist(l.pad, e)) = O
      BY <1>11, <1>13, <1>17, <3>1
    <3> DEFINE r == ExportConvStep(l.pad, in[A.cursor], A.x)
    <3>3. r = [y |-> x, st |-> Hist(l.pad, e)]
      <4> DEFINE pad == l.pad
      <4>1. pad \in Nat /\ A.cursor = k + 1 /\ A.x = x /\ in[k + 1] = Hist(pad, a)
        BY <1>5, <2>1, <3>2
      <4> HIDE DEF pad, d
      <4>2. ExportConvStep(pad, Hist(pad, a), Iota(a, d)) = [y |-> Iota(a, d), st |-> Hist(pad, a + d)]
        BY <1>2, <4>1, ConvSteps
      <4>3. ExportConvStep(pad, in[A.cursor], A.x) = [y |-> x, st |-> Hist(pad, e)]
        BY <1>2, <4>1, <4>2
      <4> QED BY <4>3 DEF pad
    <3>4. ConvTake(A, l, in) = [A EXCEPT !.x = r.y, !.cursor = @ + 1, !.out = Append(@, r.st)]
      BY <2>3 DEF ConvTake
    <3> HIDE DEF r
    <3>5. ConvTake(A, l, in) = [x |-> x, cursor |-> (k + 1) + 1, out |-> Append(o, Hist(l.pad, e)), resid |-> rx]
      BY <1>5, <3>3, <3>4
    <3> QED BY <1>14, <1>17, <2>1, <3>2, <3>5, <1>6
  <2> QED BY <2>2, <2>3
<1>18. CASE l.kind = "tconv"
  <2>1. y = Iota(a * l.s, d * l.s) /\ ry = rx /\ l.right \in Nat /\ IsTconv(l) /\ l.left = 0
    BY <1>4, <1>7, <1>8, <1>18
  <2>2. CASE l.right = 0
    <3>1. b \notin Kept
      BY <1>9, <1>18, <2>2
    <3>2. TconvTake(A, l, in, n) = [A EXCEPT !.x = ExportTconvNoState(l, A.x, n)]
      BY <2>2 DEF TconvTake
    <3>3. ExportTconvNoState(l, x, n) = y
      <4> HIDE DEF d
      <4>1. a + d <= n
        BY <1>2
      <4> QED BY <1>2, <2>1, <2>2, <4>1, ExportNoState
    <3>4. TconvTake(A, l, in, n) = [x |-> y, cursor |-> k + 1, out |-> o, resid |-> rx]
      BY <1>5, <3>2, <3>3
    <3>5. K = k /\ O = o
      BY <1>10, <3>1
    <3> QED BY <1>14, <1>18, <2>1, <3>4, <3>5, <1>6
  <2>3. CASE l.right # 0
    <3>1. b \in Kept
      BY <1>9, <1>18, <2>1, <2>3
    <3>2. in[k + 1] = PendingOf(l, a) /\ K = k + 1 /\ Append(o, PendingOf(l, e)) = O
      BY <1>11, <1>13, <1>18, <3>1
    <3> DEFINE r == ExportTconvStep(l, in[A.cursor], A.x, n)
    <3>3. r = [y |-> y, st |-> PendingOf(l, e)]
      <4>1. A.cursor = k + 1 /\ A.x = x /\ in[k + 1] = PendingOf(l, a)
        BY <1>5, <3>2
      <4> HIDE DEF d
      <4>2. a + d <= n
        BY <1>2
      <4>3. ExportTconvStep(l, PendingOf(l, a), Iota(a, d), n) = [y |-> Iota(a * l.s, d * l.s), st |-> PendingOf(l, a + d)]
        BY <1>2, <2>1, <4>2, ExportTconvStepIs
      <4> QED BY <1>2, <2>1, <4>1, <4>3
    <3>4. TconvTake(A, l, in, n) = [A EXCEPT !.x = r.y, !.cursor = @ + 1, !.out = Append(@, r.st)]
      BY <2>3 DEF TconvTake
    <3> HIDE DEF r
    <3>5. TconvTake(A, l, in, n) = [x |-> y, cursor |-> (k + 1) + 1, out |-> Append(o, PendingOf(l, e)), resid |-> rx]
      BY <1>5, <3>3, <3>4
    <3> QED BY <1>14, <1>18, <2>1, <3>2, <3>5, <1>6
  <2> QED BY <2>2, <2>3
<1>19. CASE l.kind = "fork"
  <2>1. b \notin Kept /\ y = x /\ rx = <<>> /\ ry = <<y>>
    BY <1>3, <1>8, <1>9, <1>19
  <2>2. ForwardBlock(A, b, in) = [x |-> x, cursor |-> k + 1, out |-> o, resid |-> Append(rx, x)]
    BY <1>5, <1>14, <1>19
  <2>3. Append(rx, x) = ry
    BY <2>1
  <2> QED BY <1>6, <1>10, <2>1, <2>2, <2>3
<1>20. CASE l.kind = "join"
  <2>1. b \notin Kept /\ y = x /\ rx = <<x>> /\ ry = <<>>
    BY <1>3, <1>8, <1>9, <1>20
  <2>2. Last(rx) = x /\ Front(rx) = <<>>
    BY <2>1 DEF Last, Front
  <2>3. AddPieces(<<x>>, <<x>>)[1] = x
    <3>1. x \in Seq(Int)
      BY <1>1, SignalIs DEF x
    <3>2. [t \in 1..Len(x) |-> IF x[t] = x[t] THEN x[t] ELSE Bad] = x
      BY <3>1
    <3>3. AddPieces(<<x>>, <<x>>)[1] = [t \in 1..Len(x) |-> IF x[t] = x[t] THEN x[t] ELSE Bad]
      BY DEF AddPieces
    <3> QED BY <3>2, <3>3
  <2>4. A.resid = rx /\ A.x = x
    BY <1>5
  <2>5. ForwardBlock(A, b, in) = [A EXCEPT !.resid = Front(@), !.x = x]
    BY <1>14, <1>20, <2>2, <2>3, <2>4
  <2>6. ForwardBlock(A, b, in) = [x |-> x, cursor |-> k + 1, out |-> o, resid |-> <<>>]
    BY <1>5, <2>2, <2>5
  <2> QED BY <1>6, <1>10, <2>1, <2>6
<1> QED BY <1>7, <1>17, <1>18, <1>19, <1>20

(* Behind the pre-convolution and the transformer. *)
LEMMA FrontIs ==
  ASSUME "export" \in Programs, NEW m, NEW c, IsChunk(m, c)
  PROVE  LET in == StatesAt(m, StatesN)
             pre == ExportConvStep(Stack("export")[1].pad, in[Rows + 1], Iota(m, c))
             tr == pre_transformer_step(pre.y, m, Wins, in)
         IN  [x |-> tr.x, cursor |-> (Rows + 1) + 1, out |-> Append(tr.out, pre.st), resid |-> <<>>] = BehindBlock(2, m, c)
<1> DEFINE in == StatesAt(m, StatesN)
           l == Stack("export")[1]
           pad == l.pad
           M == m + c
           x == Iota(m, c)
           pre == ExportConvStep(pad, in[Rows + 1], x)
           tr == pre_transformer_step(pre.y, m, Wins, in)
<1>1. m \in Nat /\ c \in Nat /\ M \in Nat /\ M - m = c
  BY DEF IsChunk
<1>2. /\ Len(Stack("export")) \in Nat /\ Len(Stack("export")) >= 2 /\ Rows \in Nat /\ pad \in Nat /\ l.kind = "conv"
      /\ Stack("export")[2].kind = "attn"
  BY ExportShape
<1>3. Rank(Kept, 2) = 1 /\ Nth(Kept, 1) = 1 /\ Cardinality(Kept) \in Nat /\ Cardinality(Kept) >= 1
  BY KeptAre
<1>4. 1 \in 1..Len(Stack("export")) /\ 2 \in 1..Len(Stack("export")) /\ 1 + 1 = 2 /\ 2 + 1 = 3
  BY <1>2
<1>5. ASSUME NEW h \in Nat PROVE InLen("export", 1, h) = h /\ InLen("export", 3, h) = h
  <2>1. InLen("export", 1, h) = h /\ InLen("export", 1 + 1, h) = Through(l, InLen("export", 1, h))
        /\ InLen("export", 2 + 1, h) = Through(Stack("export")[2], InLen("export", 2, h))
    BY <1>4, InLenIs
  <2>2. \A n : Through(l, n) = n /\ Through(Stack("export")[2], n) = n
    BY <1>2 DEF Through
  <2> QED BY <1>4, <2>1, <2>2
<1>6. \A h \in Nat : StateAt(Rows + 1, h) = Hist(pad, h)
  <2> TAKE h \in Nat
  <2>1. ~(Rows + 1 <= Rows) /\ (Rows + 1) - Rows = 1
    BY <1>2
  <2>2. StateAt(Rows + 1, h) = KeptAt(1, h)
    BY <1>3, <2>1 DEF StateAt
  <2>3. KeptAt(1, h) = Hist(pad, InLen("export", 1, h))
    BY <1>2 DEF KeptAt
  <2> QED BY <1>5, <2>2, <2>3
<1>7. in[Rows + 1] = Hist(pad, m)
  <2>1. Rows + 1 \in 1..StatesN
    BY <1>2, <1>3 DEF StatesN
  <2>2. in[Rows + 1] = StateAt(Rows + 1, m)
    BY <2>1 DEF StatesAt
  <2> QED BY <1>1, <1>6, <2>2
<1>8. pre.y = x /\ pre.st = StateAt(Rows + 1, M)
  <2>1. ExportConvStep(pad, Hist(pad, m), x) = [y |-> x, st |-> Hist(pad, M)]
    <3>1. pad \in Nat /\ m \in Nat /\ c \in Nat
      BY <1>1, <1>2
    <3> HIDE DEF pad
    <3>2. ExportConvStep(pad, Hist(pad, m), Iota(m, c)) = [y |-> Iota(m, c), st |-> Hist(pad, m + c)]
      BY ONLY <3>1, ConvSteps
    <3> QED BY <3>2
  <2>2. pre = [y |-> x, st |-> Hist(pad, M)]
    <3> HIDE DEF pad, in, x, M
    <3> QED BY <1>7, <2>1
  <2> HIDE DEF pre, pad, in, x, M
  <2> QED BY <1>1, <1>6, <2>2
<1>9. tr = [x |-> x, cursor |-> Rows + 1, out |-> StatesAt(M, Rows)]
  <2>1. pre_transformer_step(x, m, Wins, in) = [x |-> x, cursor |-> Rows + 1, out |-> StatesAt(M, Rows)]
    BY <1>1, TransformerStepIs
  <2> HIDE DEF pre, x, in, M
  <2> QED BY <1>8, <2>1
<1>10. Append(StatesAt(M, Rows), StateAt(Rows + 1, M)) = StatesAt(M, Rows + 1)
  <2> HIDE DEF M
  <2> QED BY <1>2, StatesAppend
<1>11. SignalAt(3, m, c) = x
  <2>1. SignalAt(3, m, c) = Iota(InLen("export", 3, m), InLen("export", 3, M) - InLen("export", 3, m))
    BY DEF SignalAt
  <2>2. InLen("export", 3, m) = m /\ InLen("export", 3, M) = M
    <3> HIDE DEF M
    <3> QED BY <1>1, <1>5
  <2> HIDE DEF M
  <2> QED BY <1>1, <2>1, <2>2
<1>12. ~InResidual("export", 3)
  <2>1. ~InResidual("export", 1)
    BY <1>4, Network
  <2>2. InResidual("export", 1 + 1) <=> InResidual("export", 1)
    BY <1>2, <1>4, Network
  <2>3. InResidual("export", 2 + 1) <=> InResidual("export", 2)
    BY <1>2, <1>4, Network
  <2> QED BY <1>4, <2>1, <2>2, <2>3
<1>13. BehindBlock(2, m, c) = [x |-> x, cursor |-> (Rows + 1) + 1, out |-> StatesAt(M, Rows + 1), resid |-> <<>>]
  <2> HIDE DEF x
  <2> QED BY <1>3, <1>4, <1>11, <1>12 DEF BehindBlock
<1>14. tr.x = x /\ Append(tr.out, pre.st) = StatesAt(M, Rows + 1)
  <2> HIDE DEF tr, pre, x, M
  <2> QED BY <1>8, <1>9, <1>10
<1> HIDE DEF tr, pre, x, M
<1>15. [x |-> tr.x, cursor |-> (Rows + 1) + 1, out |-> Append(tr.out, pre.st), resid |-> <<>>] = BehindBlock(2, m, c)
  BY <1>13, <1>14
<1> QED BY <1>15 DEF tr, pre, x

(* A chunk through the whole network. *)
LEMMA ForwardIs ==
  ASSUME "export" \in Programs, NEW m, NEW c, IsChunk(m, c)
  PROVE  LET r == Forward(Iota(m, c), m, StatesAt(m, StatesN))
         IN  r.x = SignalAt(Len(Stack("export")) + 1, m, c) /\ r.out = StatesAt(m + c, StatesN)
<1> DEFINE N == Len(Stack("export"))
           x == Iota(m, c)
           in == StatesAt(m, StatesN)
           pre == ExportConvStep(Stack("export")[1].pad, in[Rows + 1], x)
           tr == pre_transformer_step(pre.y, m, Wins, in)
           first == [x |-> tr.x, cursor |-> (Rows + 1) + 1, out |-> Append(tr.out, pre.st), resid |-> <<>>]
           Rhs(f) == [b \in 2..N |-> IF b = 2 THEN first ELSE ForwardBlock(f[b - 1], b, in)]
           F == CHOOSE f : f = Rhs(f)
           g == [b \in 2..N |-> BehindBlock(b, m, c)]
<1>0. N \in Nat /\ N >= 2
  BY ExportShape
<1>1. Forward(x, m, in) = F[N]
  BY DEF Forward, Wins, Rows
<1>2. first = BehindBlock(2, m, c)
  BY FrontIs
<1>3. \A b \in 3..N : ForwardBlock(BehindBlock(b - 1, m, c), b, in) = BehindBlock(b, m, c)
  BY ForwardBlockIs
<1> HIDE DEF N, x, in, first
<1>4. \A f : /\ Rhs(f) = [b \in 2..N |-> Rhs(f)[b]] /\ Rhs(f)[2] = first
             /\ \A b \in 3..N : Rhs(f)[b] = ForwardBlock(f[b - 1], b, in)
  <2> TAKE f
  <2>1. 2 \in 2..N /\ \A b \in 3..N : b \in 2..N /\ b # 2
    BY <1>0
  <2> QED BY <2>1
<1>5. F = CHOOSE f : f = Rhs(f)
  OBVIOUS
<1>6. g = [b \in 2..N |-> g[b]] /\ \A b \in 2..N : g[b] = BehindBlock(b, m, c)
  OBVIOUS
<1> HIDE DEF Rhs, F, g
<1>7. ASSUME NEW b \in 2..N PROVE g[b] = Rhs(g)[b]
  <2>1. CASE b = 2
    BY <1>0, <1>2, <1>4, <1>6, <2>1
  <2>2. CASE b # 2
    <3>1. b \in 3..N /\ b - 1 \in 2..N
      BY <1>0, <2>2
    <3>2. Rhs(g)[b] = ForwardBlock(g[b - 1], b, in)
      BY <1>4, <3>1
    <3>3. g[b - 1] = BehindBlock(b - 1, m, c) /\ g[b] = BehindBlock(b, m, c)
      BY <1>6, <3>1
    <3> QED BY <1>3, <3>1, <3>2, <3>3
  <2> QED BY <2>1, <2>2
<1>8. g = Rhs(g)
  <2>1. Rhs(g) = [b \in 2..N |-> Rhs(g)[b]]
    BY <1>4
  <2> QED BY <1>6, <1>7, <2>1
<1>9. F = Rhs(F)
  BY <1>5, <1>8
<1> DEFINE T == {i \in Nat : i + 2 <= N => F[i + 2] = BehindBlock(i + 2, m, c)}
           K == N - 2
<1>10. 0 \in T
  <2>1. 0 + 2 = 2
    OBVIOUS
  <2> QED BY <1>2, <1>4, <1>9, <2>1
<1>11. ASSUME NEW i \in 0..(K - 1), i \in T PROVE i + 1 \in T
  <2> DEFINE b == (i + 1) + 2
  <2>1. b \in 3..N /\ b - 1 = i + 2 /\ i \in Nat /\ i + 2 <= N /\ i + 1 \in Nat
    BY <1>0
  <2>2. F[b - 1] = BehindBlock(b - 1, m, c)
    BY <1>11, <2>1
  <2> HIDE DEF b
  <2>3. Rhs(F)[b] = ForwardBlock(F[b - 1], b, in)
    BY <1>4, <2>1
  <2>4. F[b] = BehindBlock(b, m, c)
    BY <1>3, <1>9, <2>1, <2>2, <2>3
  <2> QED BY <2>1, <2>4 DEF b
<1>12. K \in Nat /\ K + 2 = N
  BY <1>0
<1> HIDE DEF T, K
<1>13. 0..K \subseteq T
  BY ONLY <1>12, <1>10, <1>11, UpTo
<1>14. F[N] = BehindBlock(N, m, c)
  <2>1. K \in T
    BY <1>12, <1>13
  <2>2. N <= N
    BY <1>0
  <2> QED BY <1>12, <2>1, <2>2 DEF T
<1>15. Rows + Rank(Kept, N) = StatesN
  BY KeptAre DEF StatesN, N
<1>16. F[N].x = SignalAt(N + 1, m, c) /\ F[N].out = StatesAt(m + c, StatesN)
  BY <1>14, <1>15 DEF BehindBlock
<1> QED BY <1>1, <1>16 DEF N, x, in

-----------------------------------------------------------------------------
(* The programs                                                              *)

(* The export program between two chunks: the states and the waveform so far are those of the *)
(* frames fed so far. *)
ExportInv(f, ins, c, sts, o) ==
  /\ ins = Split(Iota(0, f.frames), f.sizes) /\ c \in 1..Len(f.sizes) + 1
  /\ sts = StatesAt(Before(f.sizes, c), StatesN)
  /\ o \in Seq(Seq(Int)) /\ Cat(o) = Iota(0, InLen("export", Len(Stack("export")) + 1, Before(f.sizes, c)))

(* The inductive invariant of the programs (the layer probes, the real-weights gate, the       *)
(* explicit-state gate): between any two chunks, what a block keeps, what it has put out and what    *)
(* waits on the residual path are functions of the number of samples fed so far, so two runs that cut *)
(* the codes differently but have fed as many are in the same state.                                 *)
StreamInv ==
  /\ prog \in Programs /\ cphase \in {"build", "codes", "run", "done", "raised"}
  /\ cphase \in {"build", "codes"} => blockNo = 1 /\ chunkNo = 1 /\ outs = <<>> /\ resid = <<>>
  /\ cphase \in {"run", "done"} => feed \in Feeds(prog)
  /\ (cphase = "run" /\ prog # "export") => BlockInv(prog, feed, blockNo, inputs, chunkNo, st, outs, resid)
  /\ (cphase \in {"run", "done"} /\ prog = "export") => ExportInv(feed, inputs, chunkNo, states, outs)
  /\ cphase = "done" => wav = Iota(0, InLen(prog, Len(Stack(prog)) + 1, feed.frames))
  /\ cphase = "raised" => build = "raised" \/ ~CoversOf(feed)

(* A chunk of the exported module. *)
LEMMA ExportKeeps ==
  ASSUME "export" \in Programs, feed \in Feeds("export"), ExportInv(feed, inputs, chunkNo, states, outs), chunkNo <= Len(inputs)
  PROVE  LET r == Forward(inputs[chunkNo], Offset, states)
         IN  ExportInv(feed, inputs, chunkNo + 1, r.out, Append(outs, r.x))
<1> DEFINE sizes == feed.sizes
           n == feed.frames
           c == chunkNo
           S == Sums(sizes)
           m == S[c - 1]
           k == sizes[c]
           N == Len(Stack("export")) + 1
           r == Forward(inputs[c], Offset, states)
<1>1. n \in Nat /\ sizes \in Seq(Nat) /\ Sum(sizes) = n
  BY StackAssumption DEF IsFeed
<1>2. /\ inputs = Split(Iota(0, n), sizes) /\ c \in 1..Len(sizes) + 1 /\ states = StatesAt(m, StatesN)
      /\ outs \in Seq(Seq(Int)) /\ Cat(outs) = Iota(0, InLen("export", N, m))
  BY DEF ExportInv, Before
<1>3. Len(inputs) = Len(sizes) /\ \A j \in 1..Len(sizes) : inputs[j] = Iota(S[j - 1], sizes[j])
  <2> HIDE DEF n, sizes
  <2> QED BY <1>1, <1>2, SplitWhole DEF S
<1>4. c \in 1..Len(sizes) /\ c - 1 \in 0..Len(sizes) /\ c \in 0..Len(sizes) /\ (c + 1) - 1 = c /\ c + 1 \in 1..Len(sizes) + 1
  <2>1. Len(sizes) \in Nat
    BY <1>1
  <2>2. c \in 1..Len(sizes) + 1 /\ c <= Len(inputs)
    BY <1>2
  <2>3. Len(inputs) = Len(sizes)
    BY <1>3
  <2> HIDE DEF sizes, c
  <2> QED BY ONLY <2>1, <2>2, <2>3
<1>5. S[c] = m + k /\ m \in Nat /\ k \in Nat /\ S[c] <= n
  <2> HIDE DEF sizes, n
  <2>1. /\ \A j \in 0..Len(sizes) : S[j] \in Nat /\ S[j] <= n
        /\ \A j \in 1..Len(sizes) : S[j] = S[j - 1] + sizes[j] /\ sizes[j] \in Nat
    BY <1>1, SumsBelow, SumsAre DEF S
  <2> QED BY <1>4, <2>1
<1>6. inputs[c] = Iota(m, k) /\ Offset = m
  BY <1>3, <1>4 DEF Offset, Before
<1> HIDE DEF m, k
<1>7. IsChunk(m, k)
  BY <1>1, <1>5 DEF IsChunk
<1>8. r.x = SignalAt(N, m, k) /\ r.out = StatesAt(m + k, StatesN)
  <2>1. r = Forward(Iota(m, k), m, StatesAt(m, StatesN))
    BY <1>2, <1>6
  <2> HIDE DEF r
  <2> QED BY <1>7, <2>1, ForwardIs
<1> HIDE DEF r
<1> DEFINE a == InLen("export", N, m)
           e == InLen("export", N, m + k)
           d == e - a
<1>9. a \in Nat /\ d \in Nat /\ a + d = e /\ SignalAt(N, m, k) = Iota(a, d)
  <2>1. N \in 1..Len(Stack("export")) + 1
    BY ExportShape
  <2> QED BY <1>7, <2>1, SignalIs
<1>10. Append(outs, r.x) \in Seq(Seq(Int)) /\ Cat(Append(outs, r.x)) = Iota(0, e)
  <2> HIDE DEF a, d, e
  <2>1. Append(outs, Iota(a, d)) \in Seq(Seq(Int)) /\ Cat(Append(outs, Iota(a, d))) = Iota(0, a + d)
    BY <1>2, <1>9, PutOut DEF a
  <2> QED BY <1>8, <1>9, <2>1
<1>11. Before(sizes, c + 1) = m + k
  BY <1>4, <1>5 DEF Before
<1>12. ExportInv(feed, inputs, c + 1, r.out, Append(outs, r.x))
  BY <1>2, <1>4, <1>8, <1>10, <1>11 DEF ExportInv
<1> QED BY <1>12 DEF r

(* The end of the exported module's run. *)
LEMMA ExportEnds ==
  ASSUME "export" \in Programs, feed \in Feeds("export"), ExportInv(feed, inputs, chunkNo, states, outs), ~(chunkNo <= Len(inputs))
  PROVE  Cat(outs) = Iota(0, InLen("export", Len(Stack("export")) + 1, feed.frames))
<1> DEFINE sizes == feed.sizes
           n == feed.frames
<1>1. n \in Nat /\ sizes \in Seq(Nat) /\ Sum(sizes) = n
  BY StackAssumption DEF IsFeed
<1>2. inputs = Split(Iota(0, n), sizes) /\ chunkNo \in 1..Len(sizes) + 1
  BY DEF ExportInv
<1>3. Len(inputs) = Len(sizes) /\ Len(sizes) \in Nat
  <2> HIDE DEF n, sizes
  <2> QED BY <1>1, <1>2, SplitWhole
<1>4. chunkNo - 1 = Len(sizes)
  BY <1>2, <1>3
<1>5. Before(sizes, chunkNo) = n
  BY <1>1, <1>4 DEF Before, Sum
<1> QED BY <1>5 DEF ExportInv

(* The start of it. *)
LEMMA ExportStarts ==
  ASSUME "export" \in Programs, NEW f \in Feeds("export")
  PROVE  ExportInv(f, Split(Iota(0, f.frames), f.sizes), 1, initial_states("export"), <<>>)
<1> DEFINE N == Len(Stack("export")) + 1
<1>1. f.sizes \in Seq(Nat) /\ Len(f.sizes) \in Nat
  BY StackAssumption DEF IsFeed
<1>2. Before(f.sizes, 1) = 0
  <2>1. 1 - 1 = 0
    OBVIOUS
  <2> QED BY <1>1, <2>1, SumsAre DEF Before
<1>3. N \in 1..Len(Stack("export")) + 1
  BY ExportShape
<1>4. InLen("export", N, 0) = 0
  <2> HIDE DEF N
  <2> QED BY <1>3, ZeroLen
<1>5. Cat(<<>>) = Iota(0, 0)
  BY CatEmpty DEF Iota
<1>6. <<>> \in Seq(Seq(Int)) /\ 1 \in 1..Len(f.sizes) + 1
  BY <1>1
<1>7. initial_states("export") = StatesAt(0, StatesN)
  BY InitialStatesAre
<1> QED BY <1>2, <1>4, <1>5, <1>6, <1>7 DEF ExportInv

(* A step of a program that runs block by block. *)
LEMMA RunStep ==
  ASSUME StreamInv, cphase = "run", prog # "export", prog' = prog, cphase' = "run", feed' = feed,
         BlockInv(prog, feed, blockNo', inputs', chunkNo', st', outs', resid')
  PROVE  StreamInv'
BY DEF StreamInv

(* It is inside a block. *)
LEMMA RunsInside ==
  ASSUME StreamInv, cphase = "run", prog # "export", blockNo <= Len(Stack(prog))
  PROVE  /\ prog \in Programs /\ feed \in Feeds(prog) /\ blockNo \in 1..Len(Stack(prog))
         /\ BlockInv(prog, feed, blockNo, inputs, chunkNo, st, outs, resid)
         /\ chunkNo \in 1..Len(inputs) + 1 /\ Len(inputs) \in Nat
         /\ More => Inside(prog, feed, blockNo, inputs, chunkNo, st, outs, resid)
         /\ ~More => chunkNo = Len(inputs) + 1
<1>1. prog \in Programs /\ feed \in Feeds(prog) /\ BlockInv(prog, feed, blockNo, inputs, chunkNo, st, outs, resid)
  BY DEF StreamInv
<1>2. blockNo \in 1..Len(Stack(prog)) + 1 /\ chunkNo \in 1..Len(inputs) + 1 /\ inputs \in Seq(Seq(Int))
  BY <1>1 DEF BlockInv, Fed
<1>3. Len(inputs) \in Nat /\ Len(Stack(prog)) \in Nat
  BY <1>1, <1>2, Network
<1>4. blockNo \in 1..Len(Stack(prog)) /\ (chunkNo <= Len(inputs) => chunkNo \in 1..Len(inputs)) /\ (~(chunkNo <= Len(inputs)) => chunkNo = Len(inputs) + 1)
  BY <1>2, <1>3
<1> QED BY <1>1, <1>2, <1>3, <1>4 DEF More, Inside

(* Every step keeps the invariant. *)
LEMMA StreamInvKept ==
  ASSUME StreamInv, [Code2WavNext]_code2wavVars PROVE StreamInv'
<1>1. CASE Build
  <2>1. /\ cphase = "build" /\ (cphase' = "codes" \/ (cphase' = "raised" /\ build' = "raised") \/ cphase' = "build")
        /\ UNCHANGED <<prog, feed, blockNo, inputs, chunkNo, st, outs, resid, states, wav>>
    BY <1>1 DEF Build
  <2>2. prog \in Programs /\ blockNo = 1 /\ chunkNo = 1 /\ outs = <<>> /\ resid = <<>>
    BY <2>1 DEF StreamInv
  <2> QED BY <2>1, <2>2 DEF StreamInv
<1>2. CASE LoadCodes
  <2>1. PICK f \in Feeds(prog) : feed' = f /\ inputs' = Split(Iota(0, f.frames), f.sizes)
    BY <1>2 DEF LoadCodes
  <2>2. /\ cphase = "codes" /\ cphase' = "run" /\ st' = StartState(Stack(prog)[1])
        /\ states' = (IF prog = "export" THEN initial_states(prog) ELSE <<>>)
        /\ prog' = prog /\ blockNo' = blockNo /\ chunkNo' = chunkNo /\ outs' = outs /\ resid' = resid
    BY <1>2 DEF LoadCodes
  <2>3. prog \in Programs /\ blockNo = 1 /\ chunkNo = 1 /\ outs = <<>> /\ resid = <<>>
    BY <2>2 DEF StreamInv
  <2>4. ASSUME prog # "export" PROVE BlockInv(prog, feed', blockNo', inputs', chunkNo', st', outs', resid')
    <3>1. Fed(prog, f, 1, inputs') /\ 1 \in 1..Len(Stack(prog)) + 1 /\ 1 <= Len(Stack(prog)) /\ 1 \in 1..Len(Stack(prog))
      BY <2>1, <2>3, CodesFed, Network
    <3>2. ~InResidual(prog, 1)
      BY <2>3, <3>1, Network
    <3> DEFINE p == prog
               ins == inputs'
    <3>3. p \in Programs /\ Fed(p, f, 1, ins) /\ 1 \in 1..Len(Stack(p)) + 1
      BY <2>3, <3>1
    <3> HIDE DEF p, ins
    <3>4. BlockInv(p, f, 1, ins, 1, IF 1 <= Len(Stack(p)) THEN StartState(Stack(p)[1]) ELSE <<>>, <<>>,
                  IF InResidual(p, 1) THEN <<ins>> ELSE <<>>)
      BY <3>3, BlockStarts
    <3> QED BY <2>1, <2>2, <2>3, <3>1, <3>2, <3>4 DEF p, ins
  <2>5. ASSUME prog = "export" PROVE ExportInv(feed', inputs', chunkNo', states', outs')
    BY <2>1, <2>2, <2>3, <2>5, ExportStarts
  <2>6. prog' = prog /\ prog \in Programs /\ cphase' = "run" /\ feed' \in Feeds(prog)
    BY <2>1, <2>2, <2>3
  <2> QED BY <2>4, <2>5, <2>6 DEF StreamInv
<1>3. CASE Skip
  <2>1. /\ cphase = "run" /\ prog # "export" /\ blockNo <= Len(Stack(prog)) /\ More /\ prog # "gate" /\ inputs[chunkNo] = <<>>
        /\ chunkNo' = chunkNo + 1 /\ prog' = prog /\ cphase' = cphase /\ feed' = feed /\ blockNo' = blockNo /\ inputs' = inputs
        /\ st' = st /\ outs' = outs /\ resid' = resid
    BY <1>3 DEF Skip, Skips
  <2>2. Inside(prog, feed, blockNo, inputs, chunkNo, st, outs, resid)
    BY <2>1, RunsInside
  <2>3. BlockInv(prog, feed, blockNo, inputs, chunkNo + 1, st, outs, resid)
    BY <2>1, <2>2, SkipKeeps
  <2> QED BY <2>1, <2>3, RunStep
<1>4. ASSUME NEW kind, Running(kind), More, ~Skips
      PROVE  /\ cphase = "run" /\ prog # "export" /\ blockNo <= Len(Stack(prog)) /\ Block.kind = kind /\ Block = Stack(prog)[blockNo]
             /\ Inside(prog, feed, blockNo, inputs, chunkNo, st, outs, resid) /\ (prog = "gate" \/ inputs[chunkNo] # <<>>)
  <2>1. cphase = "run" /\ prog # "export" /\ blockNo <= Len(Stack(prog)) /\ Block.kind = kind /\ (prog = "gate" \/ inputs[chunkNo] # <<>>)
    BY <1>4 DEF Running, Skips
  <2> QED BY <1>4, <2>1, RunsInside DEF Block
<1>5. ASSUME NEW r, NEW keep, Produce(r, keep), cphase = "run", prog # "export",
             BlockInv(prog, feed, blockNo, inputs, chunkNo + 1, r.st, IF keep THEN Append(outs, r.y) ELSE outs, resid)
      PROVE  StreamInv'
  <2>1. /\ outs' = (IF keep THEN Append(outs, r.y) ELSE outs) /\ st' = r.st /\ chunkNo' = chunkNo + 1
        /\ prog' = prog /\ cphase' = cphase /\ feed' = feed /\ blockNo' = blockNo /\ inputs' = inputs /\ resid' = resid
    BY <1>5 DEF Produce
  <2> QED BY <1>5, <2>1, RunStep
<1>6. CASE ConvChunk
  <2>1. Running("conv") /\ More /\ ~Skips /\ Produce(causal_conv_step(inputs[chunkNo]), TRUE)
    BY <1>6 DEF ConvChunk
  <2>2. /\ cphase = "run" /\ prog # "export" /\ Block = Stack(prog)[blockNo] /\ Stack(prog)[blockNo].kind = "conv"
        /\ Inside(prog, feed, blockNo, inputs, chunkNo, st, outs, resid) /\ (prog = "gate" \/ inputs[chunkNo] # <<>>)
    BY <1>4, <2>1
  <2> DEFINE r == RefConvStep(Stack(prog)[blockNo].pad, st, inputs[chunkNo])
  <2>3. /\ GateConvStep(Stack(prog)[blockNo].pad, st, inputs[chunkNo]) = r
        /\ BlockInv(prog, feed, blockNo, inputs, chunkNo + 1, r.st, Append(outs, r.y), resid)
    BY <2>2, ConvKeeps
  <2>4. causal_conv_step(inputs[chunkNo]) = r
    BY <2>2, <2>3 DEF causal_conv_step
  <2> HIDE DEF r
  <2>5. Produce(r, TRUE)
    BY <2>1, <2>4
  <2> QED BY <1>5, <2>2, <2>3, <2>5
<1>7. CASE TransformerChunk
  <2> DEFINE layers == [w \in 1..Len(Block.wins) |-> [win |-> Block.wins[w], past |-> st[w]]]
             r == Transformed(layers, inputs[chunkNo], Len(Cat(SubSeq(inputs, 1, chunkNo - 1))))
  <2>1. Running("attn") /\ More /\ ~Skips /\ Produce(r, TRUE)
    BY <1>7, Zenon DEF TransformerChunk
  <2>2. /\ cphase = "run" /\ prog # "export" /\ Block = Stack(prog)[blockNo] /\ Stack(prog)[blockNo].kind = "attn"
        /\ Inside(prog, feed, blockNo, inputs, chunkNo, st, outs, resid) /\ (prog = "gate" \/ inputs[chunkNo] # <<>>)
    <3> HIDE DEF r
    <3> QED BY <1>4, <2>1
  <2>3. BlockInv(prog, feed, blockNo, inputs, chunkNo + 1, r.st, Append(outs, r.y), resid)
    <3> DEFINE lays == [w \in 1..Len(Stack(prog)[blockNo].wins) |-> [win |-> Stack(prog)[blockNo].wins[w], past |-> st[w]]]
               q == Transformed(lays, inputs[chunkNo], Len(Cat(SubSeq(inputs, 1, chunkNo - 1))))
    <3>1. BlockInv(prog, feed, blockNo, inputs, chunkNo + 1, q.st, Append(outs, q.y), resid)
      BY <2>2, TransformerKeeps
    <3>2. lays = layers
      BY <2>2
    <3>3. q = r
      <4> HIDE DEF lays, layers
      <4> QED BY <3>2
    <3> HIDE DEF q, r
    <3> QED BY <3>1, <3>3
  <2> HIDE DEF r
  <2> QED BY <1>5, <2>1, <2>2, <2>3
<1>8. CASE TconvChunk
  <2> DEFINE n == InLen(prog, blockNo, Frames)
             l == Stack(prog)[blockNo]
             x == inputs[chunkNo]
             r == IF prog = "collect" THEN [y |-> <<>>, st |-> RefCollectStep(Block, st, x)]
                  ELSE IF prog = "gate" THEN GateEmitStep(Block, st, x, Final, n)
                  ELSE RefEmitStep(Block, st, x, Final, n)
  <2>1. Running("tconv") /\ More /\ ~Skips /\ Produce(r, r.y # <<>> \/ prog = "emit")
    BY <1>8, Zenon DEF TconvChunk
  <2>2. /\ cphase = "run" /\ prog # "export" /\ Block = l /\ l.kind = "tconv"
        /\ Inside(prog, feed, blockNo, inputs, chunkNo, st, outs, resid) /\ (prog = "gate" \/ x # <<>>)
    <3> HIDE DEF r
    <3> QED BY <1>4, <2>1
  <2>3. BlockInv(prog, feed, blockNo, inputs, chunkNo + 1, r.st, IF r.y # <<>> \/ prog = "emit" THEN Append(outs, r.y) ELSE outs, resid)
    <3>1. CASE prog = "collect"
      <4>1. BlockInv(prog, feed, blockNo, inputs, chunkNo + 1, RefCollectStep(l, st, x), outs, resid)
        BY <2>2, <3>1, CollectKeeps
      <4>2. r.y = <<>> /\ r.st = RefCollectStep(l, st, x) /\ prog # "emit"
        BY <2>2, <3>1
      <4> HIDE DEF r, l, x
      <4> QED BY <4>1, <4>2
    <3>2. CASE prog # "collect"
      <4> DEFINE q == RefEmitStep(l, st, x, Final, InLen(prog, blockNo, feed.frames))
      <4>1. /\ GateEmitStep(l, st, x, Final, InLen(prog, blockNo, feed.frames)) = q
            /\ BlockInv(prog, feed, blockNo, inputs, chunkNo + 1, q.st, IF q.y # <<>> \/ prog = "emit" THEN Append(outs, q.y) ELSE outs, resid)
        <5> DEFINE fin == Final
        <5> HIDE DEF fin
        <5>1. LET w == RefEmitStep(l, st, x, fin, InLen(prog, blockNo, feed.frames))
              IN  /\ GateEmitStep(l, st, x, fin, InLen(prog, blockNo, feed.frames)) = w
                  /\ BlockInv(prog, feed, blockNo, inputs, chunkNo + 1, w.st, IF w.y # <<>> \/ prog = "emit" THEN Append(outs, w.y) ELSE outs, resid)
          BY <2>2, <3>2, EmitKeeps
        <5> QED BY <5>1 DEF fin
      <4>2. r = q
        BY <2>2, <3>2, <4>1 DEF Frames
      <4> HIDE DEF r, q
      <4> QED BY <4>1, <4>2
    <3> QED BY <3>1, <3>2
  <2> HIDE DEF r
  <2> QED BY <1>5, <2>1, <2>2, <2>3
<1>9. ASSUME NEW b, NEW next, GoTo(b, next)
      PROVE  blockNo' = b /\ inputs' = next /\ chunkNo' = 1 /\ outs' = <<>> /\ st' = StartAt(prog, b)
  BY <1>9 DEF GoTo, StartAt
<1>10. CASE ForkBlock
  <2>1. /\ cphase = "run" /\ prog # "export" /\ blockNo <= Len(Stack(prog)) /\ Stack(prog)[blockNo].kind = "fork"
        /\ resid' = Append(resid, inputs) /\ GoTo(blockNo + 1, inputs) /\ prog' = prog /\ cphase' = cphase /\ feed' = feed
    BY <1>10 DEF ForkBlock, Running, Block
  <2>2. blockNo' = blockNo + 1 /\ inputs' = inputs /\ chunkNo' = 1 /\ outs' = <<>> /\ st' = StartAt(prog, blockNo + 1)
    BY <1>9, <2>1
  <2>3. BlockInv(prog, feed, blockNo + 1, inputs, 1, StartAt(prog, blockNo + 1), <<>>, Append(resid, inputs))
    BY <2>1, RunsInside, ForkKeeps
  <2> QED BY <2>1, <2>2, <2>3, RunStep
<1>11. CASE JoinBlock
  <2>1. /\ cphase = "run" /\ prog # "export" /\ blockNo <= Len(Stack(prog)) /\ Stack(prog)[blockNo].kind = "join"
        /\ prog' = prog /\ feed' = feed
    BY <1>11 DEF JoinBlock, Running, Block
  <2>2. /\ SamePieces(Last(resid), inputs)
        /\ BlockInv(prog, feed, blockNo + 1, AddPieces(Last(resid), inputs), 1, StartAt(prog, blockNo + 1), <<>>, Front(resid))
    BY <2>1, RunsInside, JoinKeeps
  <2>3. GoTo(blockNo + 1, AddPieces(Last(resid), inputs)) /\ resid' = Front(resid) /\ cphase' = cphase
    BY <1>11, <2>2 DEF JoinBlock
  <2>4. blockNo' = blockNo + 1 /\ inputs' = AddPieces(Last(resid), inputs) /\ chunkNo' = 1 /\ outs' = <<>> /\ st' = StartAt(prog, blockNo + 1)
    BY <1>9, <2>3
  <2> QED BY <2>1, <2>2, <2>3, <2>4, RunStep
<1>12. CASE BlockDone
  <2>1. /\ cphase = "run" /\ prog # "export" /\ blockNo <= Len(Stack(prog)) /\ Stack(prog)[blockNo].kind \in {"conv", "attn", "tconv"} /\ ~More
        /\ prog' = prog /\ feed' = feed /\ resid' = resid
        /\ Covers => GoTo(blockNo + 1, NextChunks) /\ cphase' = cphase
        /\ ~Covers => cphase' = "raised"
    BY <1>12 DEF BlockDone, Block
  <2>2. Covers <=> (prog = "gate" \/ blockNo > 1 \/ CoversOf(feed))
    BY DEF Covers, FeedCovers, CoversOf, Frames
  <2>3. CASE Covers
    <3> DEFINE q == HandedOn(prog, Stack(prog)[blockNo], st, outs, InLen(prog, blockNo, feed.frames))
    <3>1. NextChunks = q
      BY DEF NextChunks, HandedOn, Block, Frames
    <3>2. BlockInv(prog, feed, blockNo, inputs, Len(inputs) + 1, st, outs, resid) /\ prog \in Programs /\ feed \in Feeds(prog) /\ blockNo \in 1..Len(Stack(prog))
      BY <2>1, RunsInside
    <3>3. BlockInv(prog, feed, blockNo + 1, q, 1, StartAt(prog, blockNo + 1), <<>>, resid)
      BY <2>1, <2>2, <2>3, <3>2, DoneKeeps
    <3> HIDE DEF q
    <3>4. blockNo' = blockNo + 1 /\ inputs' = q /\ chunkNo' = 1 /\ outs' = <<>> /\ st' = StartAt(prog, blockNo + 1) /\ cphase' = cphase
      BY <1>9, <2>1, <2>3, <3>1
    <3> QED BY <2>1, <3>3, <3>4, RunStep
  <2>4. CASE ~Covers
    <3>1. cphase' = "raised" /\ ~CoversOf(feed) /\ prog \in Programs
      BY <2>1, <2>2, <2>4 DEF StreamInv
    <3> QED BY <2>1, <3>1 DEF StreamInv
  <2> QED BY <2>3, <2>4
<1>13. CASE Finish
  <2>1. /\ cphase = "run" /\ prog # "export" /\ blockNo > Len(Stack(prog)) /\ wav' = Cat(inputs)
        /\ cphase' = (IF inputs = <<>> THEN "raised" ELSE "done") /\ prog' = prog /\ feed' = feed
    BY <1>13 DEF Finish
  <2>2. prog \in Programs /\ feed \in Feeds(prog) /\ Fed(prog, feed, blockNo, inputs) /\ blockNo \in 1..Len(Stack(prog)) + 1
    BY <2>1 DEF StreamInv, BlockInv
  <2>3. inputs # <<>> /\ Cat(inputs) = Iota(0, InLen(prog, Len(Stack(prog)) + 1, feed.frames))
    BY <2>1, <2>2, LastFed
  <2>4. cphase' = "done" /\ wav' = Iota(0, InLen(prog, Len(Stack(prog)) + 1, feed.frames))
    BY <2>1, <2>3
  <2> QED BY <2>1, <2>2, <2>4 DEF StreamInv
<1>14. CASE ExportChunk
  <2> DEFINE r == Forward(inputs[chunkNo], Offset, states)
  <2>1. /\ cphase = "run" /\ prog = "export" /\ chunkNo <= Len(inputs) /\ outs' = Append(outs, r.x) /\ states' = r.out
        /\ chunkNo' = chunkNo + 1 /\ prog' = prog /\ cphase' = cphase /\ feed' = feed /\ inputs' = inputs
    BY <1>14, Zenon DEF ExportChunk, More
  <2>2. prog \in Programs /\ feed \in Feeds(prog) /\ ExportInv(feed, inputs, chunkNo, states, outs)
    <3> HIDE DEF r
    <3> QED BY <2>1 DEF StreamInv
  <2>3. ExportInv(feed, inputs, chunkNo + 1, r.out, Append(outs, r.x))
    <3>1. "export" \in Programs /\ feed \in Feeds("export") /\ chunkNo <= Len(inputs)
      <4> HIDE DEF r
      <4> QED BY <2>1, <2>2
    <3> QED BY <2>2, <3>1, ExportKeeps
  <2> HIDE DEF r
  <2>4. ExportInv(feed, inputs, chunkNo', states', outs')
    BY <2>1, <2>3
  <2> QED BY <2>1, <2>2, <2>4 DEF StreamInv
<1>15. CASE ExportFinish
  <2>1. /\ cphase = "run" /\ prog = "export" /\ ~(chunkNo <= Len(inputs)) /\ wav' = Cat(outs) /\ cphase' = "done"
        /\ chunkNo' = chunkNo /\ prog' = prog /\ feed' = feed /\ inputs' = inputs /\ states' = states /\ outs' = outs
    BY <1>15 DEF ExportFinish, More
  <2>2. prog \in Programs /\ feed \in Feeds(prog) /\ ExportInv(feed, inputs, chunkNo, states, outs)
    BY <2>1 DEF StreamInv
  <2>3. "export" \in Programs /\ feed \in Feeds("export")
    BY <2>1, <2>2
  <2>4. wav' = Iota(0, InLen(prog, Len(Stack(prog)) + 1, feed.frames))
    BY <2>1, <2>2, <2>3, ExportEnds
  <2> QED BY <2>1, <2>2, <2>4 DEF StreamInv
<1>16. CASE UNCHANGED code2wavVars
  BY <1>16 DEF code2wavVars, runVars, loadVars, StreamInv
<1> QED BY <1>1, <1>2, <1>3, <1>6, <1>7, <1>8, <1>10, <1>11, <1>12, <1>13, <1>14, <1>15, <1>16 DEF Code2WavNext

-----------------------------------------------------------------------------
(* The theorems                                                              *)

(* The invariant holds in every reachable state. *)
LEMMA StreamInvHolds == Code2WavSpec => []StreamInv
<1>1. Code2WavInit => StreamInv
  <2> SUFFICES ASSUME Code2WavInit PROVE StreamInv
    OBVIOUS
  <2>1. /\ prog \in Programs /\ (cphase = "build" \/ cphase = "codes") /\ blockNo = 1 /\ chunkNo = 1 /\ outs = <<>> /\ resid = <<>>
    BY DEF Code2WavInit
  <2> QED BY <2>1 DEF StreamInv
<1>2. StreamInv /\ [Code2WavNext]_code2wavVars => StreamInv'
  BY StreamInvKept
<1> QED BY <1>1, <1>2, PTL DEF Code2WavSpec

(* The waveform of a chunked run is the waveform of one pass over all the codes, for every network of   *)
(* the shape the scripts build, every length and every way of cutting it: no sample is lost, doubled or  *)
(* computed from the wrong history at a chunk boundary, in run_module_probes, in the real-weights gate   *)
(* and in run_explicit_state_gate.  A run ends without its waveform only when the weights could not be   *)
(* loaded or the sizes given do not cover the codes.                                                     *)
THEOREM StreamingIsOffline == Code2WavSpec => []StreamedIsOffline
<1>1. StreamInv => StreamedIsOffline
  BY DEF StreamInv, StreamedIsOffline, OutLen, Frames, FeedCovers, CoversOf
<1> QED BY <1>1, StreamInvHolds, PTL

(* A shorter run is a prefix of a longer one. *)
LEMMA RunsArePrefixes ==
  ASSUME NEW n \in Nat, NEW m \in Nat, n <= m PROVE IsPrefix(Iota(0, n), Iota(0, m))
<1> DEFINE z == 0
           s == Iota(z, n)
           t == Iota(z, m)
<1>0. z \in Int
  OBVIOUS
<1> HIDE DEF z
<1>1. s \in Seq(Int) /\ Len(s) = n /\ (\A i \in 1..n : s[i] = z + i - 1) /\ t \in Seq(Int) /\ Len(t) = m /\ \A i \in 1..m : t[i] = z + i - 1
  BY <1>0, IotaIs
<1> HIDE DEF s, t
<1>2. SubSeq(s, 1, n) = [i \in 1..n |-> s[i]]
  BY <1>1
<1>3. SubSeq(t, 1, n) = [i \in 1..n |-> t[i]]
  BY <1>1
<1>4. \A i \in 1..n : s[i] = t[i]
  BY <1>1
<1>5. IsPrefix(s, t)
  BY <1>1, <1>2, <1>3, <1>4 DEF IsPrefix
<1> QED BY <1>5 DEF s, t, z

(* What a block has put out. *)
LEMMA PutOutIsPrefix ==
  ASSUME NEW p \in Programs, NEW f \in Feeds(p), NEW b \in 1..Len(Stack(p)), NEW ins, NEW c, NEW s, NEW o, NEW r,
         BlockInv(p, f, b, ins, c, s, o, r)
  PROVE  IsPrefix(Cat(o), Iota(0, InLen(p, b + 1, f.frames)))
<1> DEFINE l == Stack(p)[b]
           n == InLen(p, b, f.frames)
           m == At(ins, c - 1)
           k == OutBy(p, l, m)
           L == InLen(p, b + 1, f.frames)
<1>1. n \in Nat /\ L \in Nat /\ L = Through(l, n) /\ IsBlock(l) /\ b <= Len(Stack(p))
  BY BlockIs, Network
<1>2. Fed(p, f, b, ins) /\ c \in 1..Len(ins) + 1 /\ AtChunk(p, l, ins, c, s, o)
  BY <1>1 DEF BlockInv
<1>3. PICK E \in Nat : Cat(ins) = Iota(0, E) /\ E <= n
  BY <1>2 DEF Fed, FedTo
<1>4. m \in Nat /\ m <= n
  <2>1. ins \in Seq(Seq(Int)) /\ Len(ins) \in Nat
    BY <1>2 DEF Fed
  <2>2. c - 1 \in 0..Len(ins)
    BY <1>2, <2>1
  <2>3. m \in Nat /\ m <= E
    BY <1>3, <2>1, <2>2, Tiling
  <2> HIDE DEF m, n
  <2> QED BY <1>1, <1>3, <2>3
<1>5. Cat(o) = Iota(0, k)
  BY <1>2 DEF AtChunk
<1>6. k \in Nat /\ k <= L
  <2> HIDE DEF m, n, l, L
  <2>1. Through(l, m) \in Nat /\ Through(l, m) <= Through(l, n)
    BY <1>1, <1>4, ThroughIs
  <2>2. k = 0 \/ k = Through(l, m)
    BY DEF OutBy
  <2> HIDE DEF k
  <2> QED BY <1>1, <2>1, <2>2
<1> HIDE DEF k, L
<1>7. IsPrefix(Iota(0, k), Iota(0, L))
  BY <1>1, <1>6, RunsArePrefixes
<1> QED BY <1>5, <1>7 DEF L

(* At every moment what a block has put out is the start of what it puts out in one pass: a transposed    *)
(* convolution lets no sample go before the last input that reaches it was added (the pending tail), and  *)
(* nothing already sent would have to be taken back.                                                      *)
THEOREM EmittedIsAPrefix == Code2WavSpec => []EmittedIsPrefix
<1>1. StreamInv => EmittedIsPrefix
  <2> SUFFICES ASSUME StreamInv, cphase = "run", blockNo <= Len(Stack(prog))
               PROVE  IF prog = "export" THEN IsPrefix(Cat(outs), Iota(0, OutLen))
                      ELSE IsPrefix(Cat(outs), Iota(0, InLen(prog, blockNo + 1, Frames)))
    BY DEF EmittedIsPrefix
  <2>1. CASE prog # "export"
    <3>1. /\ prog \in Programs /\ feed \in Feeds(prog) /\ blockNo \in 1..Len(Stack(prog))
          /\ BlockInv(prog, feed, blockNo, inputs, chunkNo, st, outs, resid)
      BY <2>1, RunsInside
    <3> QED BY <2>1, <3>1, PutOutIsPrefix DEF Frames
  <2>2. CASE prog = "export"
    <3>1. prog \in Programs /\ feed \in Feeds(prog) /\ ExportInv(feed, inputs, chunkNo, states, outs)
      BY <2>2 DEF StreamInv
    <3>2. "export" \in Programs /\ feed.frames \in Nat /\ feed.sizes \in Seq(Nat) /\ Sum(feed.sizes) = feed.frames
      BY <2>2, <3>1, StackAssumption DEF IsFeed
    <3> DEFINE N == Len(Stack("export")) + 1
               m == Before(feed.sizes, chunkNo)
               k == InLen("export", N, m)
               L == InLen("export", N, feed.frames)
    <3>3. Cat(outs) = Iota(0, k) /\ chunkNo \in 1..Len(feed.sizes) + 1
      BY <3>1 DEF ExportInv
    <3>4. m \in Nat /\ m <= feed.frames
      <4>1. Len(feed.sizes) \in Nat
        BY <3>2
      <4>2. chunkNo - 1 \in 0..Len(feed.sizes)
        BY <3>3, <4>1
      <4> QED BY <3>2, <4>2, SumsBelow DEF Before
    <3>5. N \in 1..Len(Stack("export")) + 1
      BY <3>2, ExportShape
    <3>6. k \in Nat /\ L \in Nat /\ k <= L
      <4> HIDE DEF N, m
      <4> QED BY <3>2, <3>4, <3>5, InLenIs, InLenGrows
    <3>7. OutLen = L
      BY <2>2 DEF OutLen, Frames
    <3> HIDE DEF k, L
    <3>8. IsPrefix(Iota(0, k), Iota(0, L))
      BY <3>6, RunsArePrefixes
    <3> QED BY <2>2, <3>3, <3>7, <3>8
  <2> QED BY <2>1, <2>2
<1> QED BY <1>1, StreamInvHolds, PTL

(* The states that Forward of the exported module hands from chunk to chunk stay in the order and have the  *)
(* lengths state_specs declares, whatever the chunks: first the keys and values, then the histories and the *)
(* pending samples, so the next call reads each one where it was written.                                   *)
THEOREM StatesStayAligned == Code2WavSpec => []StatesAligned
<1>1. StreamInv => StatesAligned
  <2> SUFFICES ASSUME StreamInv, prog = "export", cphase \in {"run", "done"}
               PROVE  /\ Len(states) = Len(state_specs(prog))
                      /\ \A j \in 1..Len(states) : Len(states[j]) = state_specs(prog)[j]
    BY DEF StatesAligned
  <2>1. prog \in Programs /\ feed \in Feeds(prog) /\ ExportInv(feed, inputs, chunkNo, states, outs)
    BY DEF StreamInv
  <2>2. "export" \in Programs /\ feed.sizes \in Seq(Nat)
    BY <2>1, StackAssumption DEF IsFeed
  <2> DEFINE m == Before(feed.sizes, chunkNo)
  <2>3. states = StatesAt(m, StatesN) /\ chunkNo \in 1..Len(feed.sizes) + 1
    BY <2>1 DEF ExportInv
  <2>4. m \in Nat
    <3>1. Len(feed.sizes) \in Nat
      BY <2>2
    <3>2. chunkNo - 1 \in 0..Len(feed.sizes)
      BY <2>3, <3>1
    <3> QED BY <2>2, <3>2, SumsBelow DEF Before
  <2> HIDE DEF m
  <2>5. /\ StatesN \in Nat /\ Len(state_specs("export")) = StatesN
        /\ \A j \in 1..StatesN : state_specs("export")[j] = SpecAt(j)
    BY <2>2, SpecsAre
  <2>6. Len(states) = StatesN /\ \A j \in 1..StatesN : states[j] = StateAt(j, m)
    BY <2>3, <2>5 DEF StatesAt
  <2>7. \A j \in 1..StatesN : Len(StateAt(j, m)) = SpecAt(j)
    BY <2>2, <2>4, StateLen
  <2> QED BY <2>5, <2>6, <2>7
<1> QED BY <1>1, StreamInvHolds, PTL

=============================================================================
