----------------------------- MODULE Rewriting ------------------------------
(***************************************************************************)
(* The graph the passes rewrite, the node builder and the anchor points. A *)
(* node has one output, whose name stands for the node. A node built with  *)
(* set_anchor_point1 takes the name of the node it replaces; one built     *)
(* with set_anchor_point2 gets a new name, and origin_nodes records by     *)
(* which transformations its value is obtained from an arg of the model.   *)
(* The inputs and initializers of the graph are in clone, as sources.      *)
(***************************************************************************)
EXTENDS ConstPool

VARIABLES
  clone,         \* name -> [op, in, order, shape]
  outputs,       \* the outputs of the graph
  origin_nodes,  \* new name -> anchor point
  suffix,        \* suffix_counter: the next new name
  fix_info       \* the names with fix info

rewritingVars == <<clone, origin_nodes, suffix, fix_info>>

Node(op, in, order, shape) == [op |-> op, in |-> in, order |-> order, shape |-> shape]

IsOp(n, op) == n \in DOMAIN clone /\ clone[n].op = op
ReadsOf(g) == UNION {{<<n, g[n].in[i]>> : i \in DOMAIN g[n].in} : n \in DOMAIN g}

(* What a search from the outputs visits.                                  *)
Reachable(S, g) == Searched(S \cap DOMAIN g, ReadsOf(g), DOMAIN g)
Live(g) == Reachable(outputs, g)
Ancestors(n) == Reachable({n}, clone) \ {n}

IsSource(g, n) == g[n].op \in {"input", "initializer"}
GcWithoutConstants(g) ==
  LET kept == {n \in DOMAIN g : g[n].op # "const" /\ (n \in Live(g) \/ IsSource(g, n))}
  IN  [n \in kept |-> g[n]]
graph_gc(g) ==
  LET kept == {n \in DOMAIN g : n \in Live(g) \/ IsSource(g, n)}
  IN  [n \in kept |-> g[n]]

(* The anchor point of a new arg that stands for arg n: the transformation *)
(* in front of those of n. assumed: the rule wrote the order down without  *)
(* looking at the node.                                                    *)
Step(op, order, assumed) == [op |-> op, order |-> order, assumed |-> assumed]
AnchorPoint(n, step) ==
  IF n \in DOMAIN origin_nodes
  THEN [steps |-> <<step>> \o origin_nodes[n].steps, origin |-> origin_nodes[n].origin]
  ELSE [steps |-> <<step>>, origin |-> n]

copy_fix_info(info, from, to) == IF from \in info THEN info \cup {to} ELSE info

-----------------------------------------------------------------------------
(* The rules of fuse_transpose: what they match, what they build. relu     *)
(* stands for the operators with one input, add for those with two.        *)
Transposes(n) == IsOp(n, "transpose")
Arg(n, i) == clone[n].in[i]
Order(n) == clone[n].order

MatchesSiso(n) ==
  (IsOp(n, "relu") \/ IsOp(n, "fix")) /\ Transposes(Arg(n, 1))
MatchesTransposeTranspose(n) == Transposes(n) /\ Transposes(Arg(n, 1))
MatchesTransposeConst(n) == Transposes(n) /\ IsOp(Arg(n, 1), "const")
MatchesBroadcast(n) ==
  /\ IsOp(n, "add") /\ Transposes(Arg(n, 1)) /\ Transposes(Arg(n, 2))
  /\ Order(Arg(n, 1)) = Order(Arg(n, 2))
MatchesBroadcastConst(n) ==
  /\ IsOp(n, "add")
  /\ \E i \in {1, 2} : Transposes(Arg(n, i)) /\ IsOp(Arg(n, 3 - i), "const")

(* siso_op(transpose(x)) => transpose(siso_op(x)), with the shape undone;  *)
(* the new transpose takes the place of n.                                 *)
ShapeBefore(n, order) == undo_transpose_shape(clone[n].shape, order)
NewSiso(n) ==
  Node(clone[n].op, clone[Arg(n, 1)].in, << >>, ShapeBefore(n, Order(Arg(n, 1))))
TransposeOfNew(n, new, order) == Node("transpose", <<new>>, order, clone[n].shape)
TransposedAgain(n, order) == AnchorPoint(n, Step("transpose", order, FALSE))
TransposedBack(n, order) == AnchorPoint(n, Step("transpose", undo_order(order), FALSE))

SisoRule(n) ==
  LET order == Order(Arg(n, 1))
  IN  /\ MatchesSiso(n)
      /\ clone' = Put(Put(clone, suffix, NewSiso(n)), n, TransposeOfNew(n, suffix, order))
      /\ origin_nodes' = Put(origin_nodes, suffix, TransposedBack(n, order))
      /\ suffix' = suffix + 1
      /\ UNCHANGED <<fix_info, poolVars>>

BehindTheFirst(n, t) == Node("transpose", <<t>>, Permuted(Order(t), Order(n)), clone[n].shape)
TransposeOfArg(n, t) ==
  Node("transpose", clone[t].in, Permuted(Order(t), Order(n)), clone[n].shape)

TransposeTransposeRule(n) ==
  /\ MatchesTransposeTranspose(n)
  /\ clone' = Put(clone, n, TransposeOfArg(n, Arg(n, 1)))
  /\ UNCHANGED <<origin_nodes, suffix, fix_info, poolVars>>

TransposeConstRule(n) ==
  LET c == Arg(n, 1)
  IN  /\ MatchesTransposeConst(n)
      /\ clone' = Put(clone, n, Node("const", << >>, << >>, clone[n].shape))
      /\ fix_info' = copy_fix_info(fix_info, c, n)
      /\ create_lazy_const(n, c, Order(n))
      /\ UNCHANGED <<origin_nodes, suffix>>

(* op(transpose(x), transpose(y)) => transpose(op(x, y))                   *)
BroadcastRule(n) ==
  LET order == Order(Arg(n, 1))
      args == <<Arg(Arg(n, 1), 1), Arg(Arg(n, 2), 1)>>
  IN  /\ MatchesBroadcast(n)
      /\ clone' = Put(Put(clone, suffix, Node("add", args, << >>, ShapeBefore(n, order))),
                      n, TransposeOfNew(n, suffix, order))
      /\ origin_nodes' = Put(origin_nodes, suffix,
                             AnchorPoint(n, Step("transpose", NCHW2NHWC, TRUE)))
      /\ suffix' = suffix + 1
      /\ UNCHANGED <<fix_info, poolVars>>

(* op(transpose(x), c) => transpose(op(x, c')), c' being c transposed      *)
(* back; the operands keep their places, since op may be sub.              *)
OperandsInAnyPlace(i, x, c) == <<x, c>>
Operands(i, x, c) == IF i = 1 THEN <<x, c>> ELSE <<c, x>>

BroadcastConstRule(n) ==
  \E i \in {1, 2} :
    LET t == Arg(n, i)
        c == Arg(n, 3 - i)
        new == suffix + 1
        args == Operands(i, Arg(t, 1), suffix)
    IN  /\ MatchesBroadcastConst(n) /\ Transposes(t) /\ IsOp(c, "const")
        /\ clone' = Put(Put(Put(clone,
             suffix, Node("const", << >>, << >>, ShapeBefore(c, Order(t)))),
             new, Node("add", args, << >>, ShapeBefore(n, Order(t)))),
             n, TransposeOfNew(n, new, Order(t)))
        /\ origin_nodes' = Put(Put(origin_nodes,
             suffix, AnchorPoint(c, Step("const", << >>, FALSE))),
             new, TransposedBack(n, Order(t)))
        /\ fix_info' = copy_fix_info(fix_info, c, suffix)
        /\ create_lazy_const(suffix, c, undo_order(Order(t)))
        /\ suffix' = suffix + 2

MatchesRule(n) ==
  \/ MatchesSiso(n) \/ MatchesTransposeTranspose(n) \/ MatchesTransposeConst(n)
  \/ MatchesBroadcast(n) \/ MatchesBroadcastConst(n)
RewriteNode(n) ==
  \/ SisoRule(n) \/ TransposeTransposeRule(n) \/ TransposeConstRule(n)
  \/ BroadcastRule(n) \/ BroadcastConstRule(n)
=============================================================================
