------------------------------ MODULE Level1DD ------------------------------
(***************************************************************************)
(* The level1_dd pass: process clones the model, lets its sub passes       *)
(* replace groups of nodes of the clone, partitions the clone, and turns   *)
(* every NPU subgraph into one node of the model, one after the other. The *)
(* boundary of a subgraph is always read from the clone; try_fuse works on *)
(* the model, in which the earlier subgraphs are single nodes already.     *)
(* A node of Node stands for a node of the clone and for the nodes of the  *)
(* model it was made from; it computes one value, with its own name. The   *)
(* garbage collection of the sub passes leaves no node in the clone that   *)
(* nobody needs, but the model may have one.                               *)
(***************************************************************************)
EXTENDS Partitioner, Fusing

CONSTANTS
  Input,      \* the input of the model, and of every node without parents
  Weight,     \* a constant of the model, read by every node
  FirstFree,  \* the index of the next node of the clone
  DeadReads,  \* what a node nobody needs can read: nodes, Input
  MaxExtra    \* bound: outputs besides the sinks, and inputs of the dead node

ASSUME ArgAssumption ==
  /\ Input # Weight /\ {Input, Weight} \cap (Node \cup {FirstFree}) = {}
  /\ FirstFree \in Nat /\ \A n \in Node : n < FirstFree
  /\ DeadReads \subseteq Node \cup {Input}

VARIABLES
  clone,             \* cloned_graph
  clusters_to_fuse  \* the rest of subgraph_node_cluster, by label

ddVars == <<partVars, fuseVars, clone, clusters_to_fuse>>

Sinks == {n \in Node : Children(n) = {}}
Parents(n) == {m \in Node : <<m, n>> \in edges}
Reads(n) == (IF n \in InputNodes THEN {Input} ELSE Parents(n)) \cup {Weight}

CloneOf(nodes, outputs) ==
  [node |-> nodes, in |-> [n \in nodes |-> Reads(n)], out |-> [n \in nodes |-> {n}],
   inputs |-> {Input}, outputs |-> outputs, constants |-> {Weight},
   fused |-> {}, next |-> FirstFree]

(* The model: the clone, with at most one node that nobody needs.          *)
WithDeadReader(g, args) ==
  IF args = {} THEN g
  ELSE LET all == g.node \cup {g.next}
       IN  [node |-> all,
            in |-> [n \in all |-> IF n = g.next THEN args ELSE g.in[n]],
            out |-> [n \in all |-> {n}],
            inputs |-> g.inputs, outputs |-> g.outputs, constants |-> g.constants,
            fused |-> {}, next |-> g.next + 1]

NoNodes == CloneOf({}, {})

DDInit ==
  /\ PartInit
  /\ clone = NoNodes /\ graph = NoNodes
  /\ meta_defs = << >> /\ clusters_to_fuse = {}

Partition == PartNext /\ UNCHANGED <<fuseVars, clone, clusters_to_fuse>>

(* subgraph_labels_to_clusters. What the partitioner does not look at, the *)
(* outputs of the model and its dead node, gets its value only here.       *)
Cluster ==
  /\ phase = "labelled"
  /\ phase' = "fuse"
  /\ clusters_to_fuse' = {labels[n] : n \in Node}
  /\ \E more \in SUBSET (Node \ Sinks), dead \in SUBSET DeadReads :
       /\ Cardinality(more) + Cardinality(dead) <= MaxExtra
       /\ clone' = CloneOf(Node, Sinks \cup more)
       /\ graph' = WithDeadReader(clone', dead)
  /\ UNCHANGED <<graphVars, pos, labels, clusters, scanVars, meta_defs>>

-----------------------------------------------------------------------------
NodeInputsOnly(g, nodes) ==
  {a \in AllInputs(g, nodes) \ (g.constants \cup g.inputs) : ~(Producers(g, {a}) \subseteq nodes)}
extract_subgraph_inputs(g, nodes) ==
  {a \in AllInputs(g, nodes) \ g.constants :
     a \in g.inputs \/ ~(Producers(g, {a}) \subseteq nodes)}

extract_subgraph_outputs(g, nodes) ==
  {a \in UNION {g.out[n] : n \in nodes} :
     a \in g.outputs \/ ~(Consumers(g, a) \subseteq nodes)}

SubgraphInputs(l) == extract_subgraph_inputs(clone, Subgraph(l))
SubgraphOutputs(l) == extract_subgraph_outputs(clone, Subgraph(l))

IsNext(l) == l \in clusters_to_fuse /\ \A k \in clusters_to_fuse : l <= k

(* The CHECKs between try_fuse and fuse. The second meta_def, of the clone, *)
(* is used without looking whether there is one.                           *)
Fusable(ins, outs) ==
  /\ TryFuseFinds(graph, ins, outs)
  /\ TryFuseFinds(clone, ins, outs)
  /\ VirtuallyFused(clone, MetaDef(clone, ins, outs, {}))

(* subgraph_nodes[0]: the nodes come out of a map in the order of their     *)
(* indices. The target of the first one is taken for that of all.          *)
IsFirst(n, l) == n \in Subgraph(l) /\ \A m \in Subgraph(l) : n <= m

(* One turn of the loop over the subgraphs.                                *)
SkipCpu(l) ==
  /\ phase = "fuse" /\ IsNext(l)
  /\ \E n \in Node : IsFirst(n, l) /\ property[n] = "CPU"
  /\ clusters_to_fuse' = clusters_to_fuse \ {l}
  /\ UNCHANGED <<partVars, fuseVars, clone>>

FuseSubgraph(l) ==
  /\ phase = "fuse" /\ IsNext(l)
  /\ \A n \in Node : IsFirst(n, l) => property[n] = "AIE"
  /\ IF Fusable(SubgraphInputs(l), SubgraphOutputs(l))
     THEN /\ Fuse(MetaDef(graph, SubgraphInputs(l), SubgraphOutputs(l), {}))
          /\ clusters_to_fuse' = clusters_to_fuse \ {l}
          /\ phase' = phase
     ELSE phase' = "check_failed" /\ UNCHANGED <<fuseVars, clusters_to_fuse>>
  /\ UNCHANGED <<graphVars, pos, labels, clusters, scanVars, clone>>

Offload == \E l \in Node : SkipCpu(l) \/ FuseSubgraph(l)

DDNext == Partition \/ Cluster \/ Offload

DDSpec == DDInit /\ [][DDNext]_ddVars

-----------------------------------------------------------------------------
(* The fatal CHECKs never fail: what the partitioner puts together can be  *)
(* fused, in the clone, and in the model after the other subgraphs.        *)
NoSubgraphRejected == phase # "check_failed"

(* Fusing a subgraph never closes a cycle in the model.                    *)
ModelStaysAcyclic == Acyclic(graph.node, DataFlow(graph))

(* Every value a node or the model needs still has exactly one producer.   *)
ModelStaysWired == WellFormed(graph)

(* Each node of an NPU subgraph is computed by exactly one meta_def, which *)
(* is the one of its subgraph and holds no CPU node of the clone.          *)
OffloadComplete ==
  phase = "fuse" =>
    \A n \in Node :
      LET holders == {i \in DOMAIN meta_defs : n \in meta_defs[i].nodes}
      IN  IF property[n] = "AIE" /\ labels[n] \notin clusters_to_fuse
          THEN /\ Cardinality(holders) = 1
               /\ \A i \in holders : meta_defs[i].nodes \cap Node = Subgraph(labels[n])
          ELSE holders = {}
=============================================================================
