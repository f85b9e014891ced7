------------------------------ MODULE Tensors -------------------------------
(***************************************************************************)
(* What a tensor means, as far as layout is concerned: a sequence of       *)
(* tokens in prefix notation. A leaf is a named source, or a convolution   *)
(* of two tensors, with the order of its axes; element-wise operators      *)
(* commute with a permutation of the axes, so that transposing a tensor    *)
(* only touches its leaves. Orders drop the batch axis, which no order of  *)
(* the code moves: NCHW to NHWC, {0, 2, 3, 1}, is <<2, 3, 1>>.             *)
(***************************************************************************)
EXTENDS Integers, Sequences

Identity == <<1, 2, 3>>
NCHW2NHWC == <<2, 3, 1>>

(* y = transpose(x): axis i of y is axis order[i] of x.                    *)
Permuted(s, order) == [i \in DOMAIN order |-> s[order[i]]]

undo_order(order) ==
  [i \in DOMAIN order |-> CHOOSE j \in DOMAIN order : order[j] = i]

(* undo_transpose_shape: ret[perm[i]] = shape[i].                          *)
TransposedShape(shape, perm) == Permuted(shape, perm)
undo_transpose_shape(shape, perm) == Permuted(shape, undo_order(perm))

Leaf(source, args) == <<[op |-> source, args |-> args, perm |-> Identity]>>
Operator(op) == <<[op |-> op, args |-> << >>, perm |-> << >>]>>

Transposed(v, order) ==
  [i \in DOMAIN v |->
     IF v[i].perm = << >> THEN v[i] ELSE [v[i] EXCEPT !.perm = Permuted(@, order)]]

(* Rounding to fix-point numbers a second time changes nothing.            *)
Fixed(v) == IF Head(v).op = "fix" THEN v ELSE Operator("fix") \o v

(* The convolution of ONNX reads and writes NCHW, that of XIR NHWC.        *)
ConvNchw(a, b) == Leaf("conv", <<a, b>>)
ConvNhwc(a, b) ==
  LET nchw == undo_order(NCHW2NHWC)
  IN  Transposed(ConvNchw(Transposed(a, nchw), Transposed(b, nchw)), NCHW2NHWC)
=============================================================================
