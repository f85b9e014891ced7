---------------------------- MODULE MCLevel1Dpu -----------------------------
(* Small instances of Level1Dpu: all models with a given number of nodes.  *)
EXTENDS LayoutMeaning

TransposeOrders == {<<2, 3, 1>>, <<3, 1, 2>>}
WeightShapes == {Identity, NCHW2NHWC}

Sources ==
  {[n \in {Input, Weight} |->
      IF n = Input THEN Node("input", << >>, << >>, Identity)
      ELSE Node("initializer", << >>, << >>, shape)] : shape \in WeightShapes}

Operators == {"relu", "fix", "transpose", "add", "conv_nchw"}
NewNode(g, op, x, y, order) ==
  IF op = "transpose" THEN Node(op, <<x>>, order, Permuted(g[x].shape, order))
  ELSE Node(op, IF op \in {"relu", "fix"} THEN <<x>> ELSE <<x, y>>, << >>, g[x].shape)

(* Operands have the same shape; a convolution has constant weights.       *)
ReadsInput(g, n) == Input \in Reachable({n}, g)
IsLegal(g, n) ==
  LET in == g[n].in
  IN  /\ Len(in) = 2 => g[in[1]].shape = g[in[2]].shape
      /\ g[n].op = "conv_nchw" => ReadsInput(g, in[1]) /\ ~ReadsInput(g, in[2])

ModelsOf[k \in 1..4] ==
  IF k = 1 THEN Sources
  ELSE {g \in {h @@ (k :> NewNode(h, op, x, y, order)) :
                 h \in ModelsOf[k - 1], op \in Operators, x \in 0..(k - 1), y \in 0..(k - 1),
                 order \in TransposeOrders} : IsLegal(g, k)}
FourArgs == ModelsOf[4]
=============================================================================
