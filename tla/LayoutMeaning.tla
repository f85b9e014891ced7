--------------------------- MODULE LayoutMeaning ----------------------------
(***************************************************************************)
(* What the rewriting of Level1Dpu must preserve.                          *)
(***************************************************************************)
EXTENDS Level1Dpu, SequencesExt

(* The value of every node of a graph.                                     *)
Values(g) ==
  LET value[n \in DOMAIN g] ==
        LET arg(i) == value[g[n].in[i]]
        IN  CASE IsSource(g, n) -> Leaf(g[n].op, << >>)
              [] g[n].op = "const" -> Fetched(n)
              [] g[n].op = "relu" -> Operator("relu") \o arg(1)
              [] g[n].op = "fix" -> Fixed(arg(1))
              [] g[n].op = "add" -> Operator("add") \o arg(1) \o arg(2)
              [] g[n].op = "transpose" -> Transposed(arg(1), g[n].order)
              [] g[n].op = "conv_nchw" -> ConvNchw(arg(1), arg(2))
              [] g[n].op = "conv" -> ConvNhwc(arg(1), arg(2))
  IN  value

RewritingTypeOK ==
  /\ phase \in {"start", "fold", "layout", "fuse", "add_fix", "export", "left"}
  /\ __current_graph \in {"model", "clone"}
  /\ suffix \in Nat /\ suffix >= FirstNew
  /\ \A n \in DOMAIN clone \cup DOMAIN origin_nodes \cup DOMAIN const_data_info \cup fix_info :
       n \in 0..(suffix - 1)
  /\ \A n \in DOMAIN clone : \A i \in DOMAIN clone[n].in : clone[n].in[i] \in DOMAIN clone
  /\ phase \notin {"start", "left"} => outputs \subseteq DOMAIN clone
  /\ todo \subseteq DOMAIN clone

(* Whatever was rewritten, in which order, every arg of the model that the *)
(* clone still computes has the value it has in the model, constants not   *)
(* evaluated yet included.                                                 *)
ComputesTheSame ==
  LET now == Values(clone)
      before == Values(model)
  IN  \A n \in Live(clone) \cap DOMAIN model : now[n] = before[n]

(* The anchor point of a new arg leads to its value, from the value of an  *)
(* arg of the model; unless a rule assumed the order, or all that it says  *)
(* is "const".                                                             *)
Applied(step, v) == IF step.op = "fix" THEN Fixed(v) ELSE Transposed(v, step.order)
Exact(steps) == \A i \in DOMAIN steps : steps[i].op # "const" /\ ~steps[i].assumed

AnchorsLeadBack ==
  \A n \in Live(clone) \cap DOMAIN origin_nodes :
    LET anchor == origin_nodes[n]
    IN  Exact(anchor.steps) =>
          Values(clone)[n] = FoldRight(Applied, anchor.steps, Values(model)[anchor.origin])

(* The CHECKs of the export hold: every constant has data, which can be    *)
(* fetched, and every op has the shape that follows from its inputs.       *)
ConstantsFetchable == \A n \in DOMAIN clone : IsOp(n, "const") => Fetchable(n)

ShapesAgree == \A n \in Live(clone) : HasShape(clone, n)

(* When the clone is gone, however process was left, the passes that       *)
(* follow work on the model.                                               *)
CurrentGraphExists == __current_graph = "clone" => phase \notin {"start", "left"}

(* The walks end although their guard against endless loops only looks at  *)
(* the index of the node that matched.                                     *)
PassEnds == <>(phase = "left")
=============================================================================
