------------------------------- MODULE Fusing -------------------------------
(***************************************************************************)
(* IPass_try_fuse and fuse: a pass names the inputs and outputs of a       *)
(* subgraph, try_fuse finds the nodes between them or says why they cannot *)
(* become one node, and fuse records the meta_def and replaces the nodes   *)
(* in the graph. Later fusions meet the fused nodes of earlier ones.       *)
(* Node args are opaque; a node has a set of inputs and a set of outputs.  *)
(***************************************************************************)
EXTENDS Dags, Integers, Sequences, FiniteSets

VARIABLES
  graph,     \* the model: its nodes, what each reads (in) and computes (out),
             \* its inputs, outputs and constants, the nodes that stand for a
             \* meta_def (fused), and the index of the next node (next)
  meta_defs  \* the meta_defs of the context

fuseVars == <<graph, meta_defs>>

Producers(g, args) == {n \in g.node : g.out[n] \cap args # {}}
Consumers(g, a) == {n \in g.node : a \in g.in[n]}
AllInputs(g, body) == UNION {g.in[n] : n \in body}
DataFlow(g) == {e \in g.node \X g.node : g.out[e[1]] \cap g.in[e[2]] # {}}

(* graph_get_isolated_nodes: no graph output depends on them.              *)
Isolated(g) ==
  g.node \ Reached(Producers(g, g.outputs), Reversed(DataFlow(g)), g.node)

-----------------------------------------------------------------------------
(* The steps of try_fuse.                                                  *)

(* The reverse search from the outputs goes along an edge unless all args  *)
(* of the edge are among the inputs.                                       *)
FollowedToTheEnd(g, ins) == Reversed(DataFlow(g))
Followed(g, ins) ==
  {<<e[2], e[1]>> : e \in {e \in DataFlow(g) : ~(g.out[e[1]] \cap g.in[e[2]] \subseteq ins)}}

SearchedBody(g, ins, outs) == Reached(Producers(g, outs), Followed(g, ins), g.node)

HitCeiling(g, ins, body) == (AllInputs(g, body) \cap g.inputs) \ ins # {}

(* Nodes nobody needs join the body when it computes all they read; they   *)
(* are taken by index, and one that joined counts for the next ones.       *)
Joins(g, body, joined, n) ==
  \A p \in Producers(g, g.in[n]) : p \in body \/ (p \in joined /\ p < n)

Islands(g, body) ==
  LET isolated == Isolated(g) \ body
  IN  {i \in isolated :
         \A K \in SUBSET isolated :
           (\A n \in isolated : Joins(g, body, K, n) => n \in K) => i \in K}

IslandConstants(g, body) == {a \in AllInputs(g, Islands(g, body)) : Producers(g, {a}) = {}}

ReturnValuesForNodes(g, body) ==
  {a \in UNION {g.out[n] : n \in body} : ~(Consumers(g, a) \subseteq body)}
ReturnValues(g, body) ==
  {a \in UNION {g.out[n] : n \in body} :
     a \in g.outputs \/ ~(Consumers(g, a) \subseteq body)}

ArgumentsOfEachNode(g, body, consts) == AllInputs(g, body) \ consts
Arguments(g, body, consts) ==
  {a \in AllInputs(g, body) :
     (a \in g.inputs \/ ~(\E n \in body : a \in g.out[n])) /\ a \notin consts}

(* check_loop: an input depends on a value the body returns.               *)
LoopDetected(g, ins, returns) ==
  Reached(Producers(g, ins), Reversed(DataFlow(g)), g.node)
    \cap Producers(g, returns) # {}

(* An input whose producer is gone, fused into the middle of another       *)
(* subgraph.                                                               *)
Contended(g, ins) ==
  {a \in ins \ (g.inputs \cup g.constants) : Producers(g, {a}) = {}}

Body(g, ins, outs) ==
  LET searched == SearchedBody(g, ins, outs)
  IN  searched \cup Islands(g, searched)

Constants(g, ins, outs, consts) ==
  LET searched == SearchedBody(g, ins, outs)
  IN  consts \cup (AllInputs(g, searched) \cap g.constants) \cup IslandConstants(g, searched)

CanFuse(g, ins, outs) ==
  /\ ~HitCeiling(g, ins, SearchedBody(g, ins, outs))
  /\ ~LoopDetected(g, ins, ReturnValues(g, Body(g, ins, outs)))
  /\ Contended(g, ins) = {}

(* The outputs must have producers: a CHECK of the program, not an error of *)
(* try_fuse.                                                               *)
TryFuseFinds(g, ins, outs) ==
  (\A a \in outs : Producers(g, {a}) # {}) /\ CanFuse(g, ins, outs)

MetaDef(g, ins, outs, consts) ==
  LET body == Body(g, ins, outs)
      constants == Constants(g, ins, outs, consts)
  IN  [nodes |-> body, inputs |-> Arguments(g, body, constants),
       outputs |-> ReturnValues(g, body), constant_initializers |-> constants]

-----------------------------------------------------------------------------
(* The index of a new node is never reused. graph_fuse of onnxruntime puts  *)
(* one node in place of the body.                                          *)
FuseNodes(g, md) ==
  LET rest == (g.node \ md.nodes) \cup {g.next}
  IN  [node |-> rest,
       in |-> [n \in rest |-> IF n = g.next THEN md.inputs ELSE g.in[n]],
       out |-> [n \in rest |-> IF n = g.next THEN md.outputs ELSE g.out[n]],
       inputs |-> g.inputs, outputs |-> g.outputs, constants |-> g.constants,
       fused |-> g.fused \cup {g.next}, next |-> g.next + 1]

(* Pass::fuse: the meta_def is recorded and its node put into the graph.   *)
Fuse(md) ==
  /\ meta_defs' = Append(meta_defs, md)
  /\ graph' = FuseNodes(graph, md)

(* The CHECKs of virtual_fuse: a search from the outputs that stays in the *)
(* body finds all of it.                                                   *)
VirtuallyFused(g, md) ==
  LET inside == {e \in Reversed(DataFlow(g)) : e[2] \in md.nodes}
  IN  Reached(Producers(g, md.outputs), inside, g.node) = md.nodes

-----------------------------------------------------------------------------
(* Every arg has one producer at most, inputs and constants have none, and *)
(* what a node or the model needs is there.                                *)
WellFormed(g) ==
  /\ \A n \in g.node : g.out[n] \cap (g.inputs \cup g.constants) = {}
  /\ \A m, n \in g.node : m # n => g.out[m] \cap g.out[n] = {}
  /\ \A n \in g.node : g.in[n] \subseteq
       g.inputs \cup g.constants \cup UNION {g.out[m] : m \in g.node}
  /\ g.outputs \subseteq UNION {g.out[m] : m \in g.node}
=============================================================================
