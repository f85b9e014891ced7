----------------------------- MODULE Level1Dpu ------------------------------
(***************************************************************************)
(* The level1_dpu pass up to the compiler: process clones the model, makes *)
(* the clone the current graph, runs its sub passes on it, and exports the *)
(* result with its constants. The sub passes are those that deal with      *)
(* constants and layout: create_const_op with its folding rules,           *)
(* layout_transform_via_adding_transpose, fuse_transpose, const_add_fix.   *)
(***************************************************************************)
EXTENDS Rewriting

CONSTANTS
  Models,  \* the models the pass is applied to
  MaxOp,   \* their nodes are 2..MaxOp
  MaxNew   \* bound: new names

Input == 0
Weight == 1
Ops == 2..MaxOp
FirstNew == MaxOp + 1

(* The shape of a node follows from those it reads: a transpose permutes   *)
(* it, every other operator of the models keeps it.                        *)
HasShape(g, n) ==
  \A i \in DOMAIN g[n].in :
    LET shape == g[g[n].in[i]].shape
    IN  g[n].shape = IF g[n].op = "transpose" THEN Permuted(shape, g[n].order) ELSE shape

(* A model has an input, an initializer, and nodes that read args before   *)
(* them. Tensors have three axes besides the batch axis, two of which are  *)
(* longer than one: the rule of fuse_transpose for tensors that are        *)
(* is_tranpose_immune does not apply to them.                              *)
Orders == {o \in [1..3 -> 1..3] : \A k \in 1..3 : \E i \in 1..3 : o[i] = k}
Arity(op) ==
  CASE op \in {"relu", "fix", "transpose"} -> 1
    [] op \in {"add", "conv_nchw", "conv"} -> 2
    [] OTHER -> 0

Immune(shape) == \A i, j \in 1..3 : shape[i] # 1 /\ shape[j] # 1 => i = j

IsModel(g) ==
  /\ DOMAIN g = 0..MaxOp
  /\ g[Input].op = "input" /\ g[Weight].op = "initializer"
  /\ \A n \in Ops :
       /\ g[n].op \in {"relu", "fix", "transpose", "add", "conv_nchw"}
       /\ g[n].op = "transpose" => g[n].order \in Orders
       /\ \A i \in DOMAIN g[n].in : g[n].in[i] \in 0..(n - 1)
  /\ \A n \in DOMAIN g :
       /\ DOMAIN g[n].in = 1..Arity(g[n].op)
       /\ g[n].shape \in [1..3 -> Nat] /\ ~Immune(g[n].shape) /\ HasShape(g, n)

ASSUME DpuAssumption ==
  /\ MaxOp \in Nat /\ MaxOp >= 1 /\ MaxNew \in Nat
  /\ \A g \in Models : IsModel(g)

VARIABLES
  model,           \* the graph the pass is applied to, as clone
  phase,
  todo,            \* nodes a loop over the graph has not reached yet
  __current_graph  \* the context resource: "model" or "clone"

dpuVars == <<rewritingVars, poolVars, outputs, model, phase, todo, __current_graph>>
frame == <<outputs, model>>

DpuInit ==
  /\ model \in Models
  /\ outputs = {n \in Ops : \A m \in Ops : \A i \in DOMAIN model[m].in : model[m].in[i] # n}
  /\ phase = "start" /\ todo = {} /\ __current_graph = "model"
  /\ clone = << >> /\ origin_nodes = << >> /\ suffix = FirstNew /\ fix_info = {}
  /\ PoolInit

-----------------------------------------------------------------------------
(* Too few convolutions: nothing is done.                                  *)
NotSupported ==
  /\ phase = "start" /\ phase' = "left"
  /\ UNCHANGED <<rewritingVars, poolVars, frame, todo, __current_graph>>

(* run_all_passes makes the clone the current graph; create_const_op first *)
(* turns initializers into nodes, if their data type permits.              *)
Start ==
  /\ phase = "start" /\ phase' = "fold" /\ __current_graph' = "clone"
  /\ \/ /\ clone' = [model EXCEPT ![Weight] = Node("const", << >>, << >>, @.shape)]
        /\ create_const(Weight, Leaf("initializer", << >>))
     \/ clone' = model /\ UNCHANGED poolVars
  /\ UNCHANGED <<frame, origin_nodes, suffix, fix_info, todo>>

(* The walk of a node action goes from the outputs, inputs first, and      *)
(* starts again after each change.                                         *)
IsFirst(n, matches) ==
  n \in matches /\ n \in Live(clone) /\ \A m \in Ancestors(n) : m \notin matches

(* What follows each action of a pass; enable_gc is its configuration.     *)
EndPass(from, to) ==
  /\ phase = from /\ phase' = to
  /\ clone' = clone \/ clone' = graph_gc(clone)
  /\ UNCHANGED <<frame, origin_nodes, suffix, fix_info, poolVars, __current_graph>>

(* The folding of an addition ends in Throw: Broadcast_op_tmpl CHECKs that *)
(* the result has as many elements as both operands have multiplied, which *)
(* operands of one shape pass only if that has a single element.           *)
Foldable(n) ==
  /\ clone[n].op \in {"transpose", "fix"}
  /\ \A i \in DOMAIN clone[n].in : IsOp(Arg(n, i), "const")

compute(n) ==
  LET data == Fetched(Arg(n, 1))
  IN  IF IsOp(n, "transpose") THEN Transposed(data, Order(n)) ELSE Fixed(data)

Fold(n) ==
  /\ phase = "fold" /\ IsFirst(n, {m \in DOMAIN clone : Foldable(m)})
  /\ clone' = Put(clone, n, Node("const", << >>, << >>, clone[n].shape))
  /\ create_const(n, compute(n))
  /\ fix_info' = IF IsOp(n, "fix") THEN fix_info \cup {n} ELSE fix_info
  /\ UNCHANGED <<frame, phase, todo, origin_nodes, suffix, __current_graph>>

(* Whatever has a data type that no rule folds is left as it is.           *)
EndFold ==
  /\ EndPass("fold", "layout")
  /\ todo' = {n \in DOMAIN clone' : clone'[n].op = "conv_nchw"}

(* node_around_add_transpose: transposes in front of both inputs and       *)
(* behind the convolution, which now works on NHWC.                        *)
AddTranspose(n) ==
  LET x == Arg(n, 1)
      y == Arg(n, 2)
      in(a) == Node("transpose", <<a>>, NCHW2NHWC, Permuted(clone[a].shape, NCHW2NHWC))
      step == Step("transpose", NCHW2NHWC, FALSE)
  IN  /\ phase = "layout" /\ n \in todo /\ Ancestors(n) \cap todo = {}
      /\ suffix + 2 < FirstNew + MaxNew
      /\ clone' = Put(Put(Put(Put(clone, suffix, in(x)), suffix + 1, in(y)),
           suffix + 2, Node("conv", <<suffix, suffix + 1>>, << >>,
                            Permuted(clone[n].shape, NCHW2NHWC))),
           n, TransposeOfNew(n, suffix + 2, undo_order(NCHW2NHWC)))
      /\ origin_nodes' = Put(Put(Put(origin_nodes, suffix, AnchorPoint(x, step)),
           suffix + 1, AnchorPoint(y, step)), suffix + 2, AnchorPoint(n, step))
      /\ suffix' = suffix + 3
      /\ fix_info' = copy_fix_info(copy_fix_info(fix_info, x, suffix), y, suffix + 1)
      /\ todo' = todo \ {n}
      /\ UNCHANGED <<frame, phase, poolVars, __current_graph>>

EndLayout == todo = {} /\ EndPass("layout", "fuse") /\ UNCHANGED todo

FuseTranspose(n) ==
  /\ phase = "fuse" /\ IsFirst(n, {m \in DOMAIN clone : MatchesRule(m)})
  /\ suffix + 1 < FirstNew + MaxNew
  /\ RewriteNode(n)
  /\ UNCHANGED <<frame, phase, todo, __current_graph>>

EndFuse ==
  /\ EndPass("fuse", "add_fix") /\ \A n \in Live(clone) : ~MatchesRule(n)
  /\ todo' = {n \in fix_info : n \in DOMAIN clone' /\ clone'[n].op = "const"}

(* A constant with fix info becomes a fix of an alias of itself.           *)
ConstAddFix(n) ==
  /\ phase = "add_fix" /\ n \in todo /\ suffix < FirstNew + MaxNew
  /\ clone' = Put(Put(clone, suffix, clone[n]),
                  n, Node("fix", <<suffix>>, << >>, clone[n].shape))
  /\ origin_nodes' = Put(origin_nodes, suffix, AnchorPoint(n, Step("fix", << >>, FALSE)))
  /\ suffix' = suffix + 1
  /\ create_const_alias(suffix, n)
  /\ todo' = todo \ {n}
  /\ UNCHANGED <<frame, phase, fix_info, __current_graph>>

EndAddFix ==
  /\ todo = {} /\ EndPass("add_fix", "export")
  /\ todo' = {n \in Live(clone') : clone'[n].op = "const"}

(* export_to_xir copies the data of every constant it meets.               *)
Export(n) ==
  /\ phase = "export" /\ n \in todo
  /\ get_const_data(n)
  /\ todo' = todo \ {n}
  /\ UNCHANGED <<rewritingVars, frame, phase, __current_graph>>

(* The end of process, and its catch clause: WithCurrentGraph puts the     *)
(* model back, and the clone is destroyed.                                 *)
Leave ==
  /\ phase' = "left" /\ todo' = {} /\ clone' = << >> /\ __current_graph' = "model"
  /\ UNCHANGED <<frame, origin_nodes, suffix, fix_info, poolVars>>

Finish == phase = "export" /\ todo = {} /\ Leave
ThrowPastRestore ==
  /\ phase \notin {"start", "left"}
  /\ phase' = "left" /\ todo' = {} /\ clone' = << >>
  /\ UNCHANGED <<frame, origin_nodes, suffix, fix_info, poolVars, __current_graph>>
Throw == phase \notin {"start", "left"} /\ Leave

Work ==
  \/ NotSupported \/ Start \/ EndFold \/ EndLayout \/ EndFuse \/ EndAddFix \/ Finish
  \/ \E n \in DOMAIN clone :
       Fold(n) \/ AddTranspose(n) \/ FuseTranspose(n) \/ ConstAddFix(n) \/ Export(n)

DpuNext == Work \/ Throw
DpuSpec == DpuInit /\ [][DpuNext]_dpuVars
FairDpuSpec == DpuSpec /\ WF_dpuVars(Work)
=============================================================================
