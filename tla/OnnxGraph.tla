----------------------------- MODULE OnnxGraph -----------------------------
(***************************************************************************)
(* ONNX models as the graph tools of this repository see them, and what such   *)
(* a model computes.                                                           *)
(*                                                                          *)
(* A model is a sequence of nodes, initializers and graph inputs.  A name is a   *)
(* sequence of parts, so that a derived name is an Append.  The value of a        *)
(* tensor is a term; terms that the tools' rewriting is meant to preserve are      *)
(* equal: casts between float types vanish, a quantized weight under its own        *)
(* scales is the weight, a smoothed weight under the inverse smoothing is the        *)
(* weight.  A slice of 0, 1, ... is a range while there is as much to slice as the       *)
(* input asks for; the caps an input is over are a parameter of what a model computes.    *)
(* The constant starts, axes and steps of a Slice and the axes of an Unsqueeze are left    *)
(* out of the nodes' inputs.                                                                *)
(***************************************************************************)
EXTENDS Integers, Sequences, SequencesExt

Node(op, name, in, out, layout) == [op |-> op, name |-> name, in |-> in, out |-> out, layout |-> layout]
Plain(op, name, in, out) == Node(op, name, in, out, 0)

Part(name, part) == Append(name, part)
WithInit(init, t, v) == [x \in DOMAIN init \cup {t} |-> IF x = t THEN v ELSE init[x]]
WithInits(init, tvs) == FoldLeft(LAMBDA acc, tv : WithInit(acc, tv[1], tv[2]), init, tvs)

Undefined == <<"undefined">>
Garbage == <<"garbage">>
Inner(x) == IF x[1] \in {"f", "i"} THEN x[2] ELSE x

\* the weight a W8A16 node computes with: qweight, scales, weight_layout
Dequantized(q, s, layout) ==
  IF q[1] = "q" /\ s = <<"s", q[2]>> /\ q[3] = layout THEN q[2] ELSE Garbage

Product(a, w) ==
  IF a[1] = "mul" /\ a[3][1] = "inv" /\ w[1] = "smooth" /\ w[3] = a[3][2]
  THEN <<"matmul", a[2], w[2]>> ELSE <<"matmul", a, w>>

Transposed(v) == IF v[1] = "t" THEN v[2] ELSE <<"t", v>>

\* the first entries of a constant: all there are, if the input is over its cap
Sliced(cap, over, whole) == IF cap \in over THEN <<"cut", cap>> ELSE whole

\* what a node computes of its arguments, for an input that is over the given caps
Apply(n, a, over) ==
  CASE n.op = "Cast16" -> a[1]
    [] n.op = "CastF" -> IF a[1][1] = "range" THEN <<"range", a[1][2], "f">> ELSE <<"f", Inner(a[1])>>
    [] n.op = "CastI" -> <<"i", Inner(a[1])>>
    [] n.op = "Mul" -> <<"mul", a[1], a[2]>>
    [] n.op = "Add" -> <<"add", a[1], a[2]>>
    [] n.op = "MatMul" -> Product(a[1], a[2])
    [] n.op = "W8A16LinearPlugin" -> Product(a[1], Dequantized(a[2], a[3], n.layout))
    [] n.op = "Gather" -> <<"gather", a[1], a[2]>>
    [] n.op = "Transpose" -> IF a[1][1] = "gather" THEN <<"gather", Transposed(a[1][2]), a[1][3]>> ELSE <<"t", a[1]>>
    [] n.op = "Range" -> <<"range", Inner(a[2]), a[2][1]>>
    [] n.op = "Unsqueeze" -> <<"1d", a[1]>>
    [] n.op = "Shape" -> <<"1d", <<"i", <<"shape", a[1]>>>>>>
    [] n.op = "CastShape" -> a[1]
    [] n.op = "Slice" /\ a[2][1] = "1d" /\ a[2][2][1] = "i" /\ a[1][1] = "arange" ->
         Sliced(a[1][2], over, <<"range", Inner(a[2][2]), "i">>)
    [] n.op = "Slice" /\ a[2][1] = "1d" /\ a[2][2][1] = "i" /\ a[1][1] = "noise" ->
         Sliced(a[1][2], over, <<"noiseLike", Inner(a[2][2])[2]>>)
    [] n.op = "RandomNormalLike" -> <<"noiseLike", a[1]>>
    [] n.op = "Div" -> IF a[1][1] = "f" /\ a[1][2][1] = "fixed" /\ a[2] = <<"const", "1000">>
                       THEN a[1][2][2] ELSE <<"div", a[1], a[2]>>
    [] n.op = "Less" -> <<"mask", a[1]>>
    [] OTHER -> Garbage

\* tensor -> term, in the order of the nodes; inputs gives the graph inputs' terms
Values(m, over) ==
  LET term(env, t) == IF t \in DOMAIN env THEN env[t] ELSE Undefined
      step(env, n) == WithInit(env, n.out, Apply(n, [i \in DOMAIN n.in |-> term(env, n.in[i])], over))
      start == [t \in DOMAIN m.inputs \cup DOMAIN m.init |->
                  IF t \in DOMAIN m.init THEN m.init[t] ELSE m.inputs[t]]
  IN  FoldLeft(step, start, m.nodes)

Meaning(m, over) == LET v == Values(m, over) IN [t \in m.outputs |-> IF t \in DOMAIN v THEN v[t] ELSE Undefined]

\* onnx.checker.check_model: nodes in topological order, every tensor produced once
check_model(m) ==
  LET known(i) == DOMAIN m.inputs \cup DOMAIN m.init \cup {m.nodes[j].out : j \in 1..(i - 1)}
  IN  \A i \in DOMAIN m.nodes :
        /\ \A k \in DOMAIN m.nodes[i].in : m.nodes[i].in[k] \in known(i)
        /\ m.nodes[i].out \notin known(i)

\* consumers of a tensor: <<index of the node, index of the input>>, in order
Uses(m, t) == {u \in (DOMAIN m.nodes) \X (1..3) :
                 u[2] \in DOMAIN m.nodes[u[1]].in /\ m.nodes[u[1]].in[u[2]] = t}
UseCount(m, t) == Cardinality(Uses(m, t))

Rewire(nodes, i, k, t) == [nodes EXCEPT ![i].in[k] = t]
RemoveNode(nodes, i) == SubSeq(nodes, 1, i - 1) \o SubSeq(nodes, i + 1, Len(nodes))
InsertAll(nodes, i, new) == SubSeq(nodes, 1, i - 1) \o new \o SubSeq(nodes, i, Len(nodes))
=============================================================================
