----------------------------- MODULE Partitioner -----------------------------
(***************************************************************************)
(* partition_graph of the level1_dd pass: the nodes of the model that the  *)
(* NPU supports ("AIE") are collected into subgraphs, first along a        *)
(* topological order without any check, then breadth first along the       *)
(* edges with try_fuse, which takes a fusion back when the graph of the    *)
(* subgraphs would get a cycle. A subgraph is named by its smallest node:  *)
(* labels maps a node to its subgraph, clusters a subgraph to its nodes.   *)
(* An absorbed subgraph keeps its entry in clusters, and the subgraph sg   *)
(* of the current node is not read again when a fusion renames it.         *)
(***************************************************************************)
EXTENDS Dags, Integers, Sequences, FiniteSets

CONSTANT Node  \* node indices of onnxruntime

ASSUME NodeAssumption == Node \subseteq Nat /\ IsFiniteSet(Node)

VARIABLES
  edges,     \* child_graph_: <<node, child>>
  property,  \* "AIE" or "CPU"
  order,     \* sorted_node_ids
  phase,     \* "merge", "scan", "labelled", then those of the pass
  pos,       \* i of the first loop
  labels, clusters,
  queue, visited,
  node, sg,  \* the node of the second loop and its subgraph, as read then
  todo       \* its children not tried yet

partVars == <<edges, property, order, phase, pos, labels, clusters, queue, visited,
              node, sg, todo>>
graphVars == <<edges, property, order>>
scanVars == <<queue, visited, node, sg, todo>>

Children(n) == {c \in Node : <<n, c>> \in edges}
InputNodes == {n \in Node : \A m \in Node : <<m, n>> \notin edges}

(* sorted_node_ids: every node once, parents first.                        *)
TopologicalOrder(o) ==
  /\ \A i, j \in DOMAIN o : o[i] = o[j] => i = j
  /\ {o[i] : i \in DOMAIN o} = Node
  /\ \A i, j \in DOMAIN o : <<o[i], o[j]>> \in edges => i < j

Ascending(s) == \A i, j \in DOMAIN s : i < j => s[i] < s[j]

PartInit ==
  /\ edges \in {E \in SUBSET {e \in Node \X Node : e[1] # e[2]} : Acyclic(Node, E)}
  /\ property \in [Node -> {"AIE", "CPU"}]
  /\ order \in {o \in [1..Cardinality(Node) -> Node] : TopologicalOrder(o)}
  /\ phase = "merge" /\ pos = 1
  /\ labels = [n \in Node |-> n]
  /\ clusters = [n \in Node |-> {n}]
  /\ queue = << >> /\ visited = {}
  /\ node = 0 /\ sg = 0 /\ todo = {}

-----------------------------------------------------------------------------
(* The edges of the graph of subgraphs, as get_next_subgraphs finds them:   *)
(* from the entry in clusters to the label of a child outside of it.       *)
NextSubgraphs(lab, clus) ==
  {p \in Node \X Node :
     \E e \in edges : e[1] \in clus[p[1]] /\ e[2] \notin clus[p[1]] /\ p[2] = lab[e[2]]}

InputSubgraphs(lab) == {lab[n] : n \in InputNodes}

is_dag(lab, clus) ==
  LET next == NextSubgraphs(lab, clus)
  IN  Acyclic(Reached(InputSubgraphs(lab), next, Node), next)

(* fuse(a, b): the smaller label takes the nodes of the other entry.       *)
Smaller(a, b) == IF a < b THEN a ELSE b
Larger(a, b) == IF a < b THEN b ELSE a
FusedLabelsNumberedAnew(a, b) ==
  [n \in Node |-> IF a # b /\ n \in clusters[Larger(a, b)] THEN Cardinality(Node) ELSE labels[n]]
FusedLabels(a, b) ==
  [n \in Node |-> IF a # b /\ n \in clusters[Larger(a, b)] THEN Smaller(a, b) ELSE labels[n]]
FusedClusters(a, b) ==
  [clusters EXCEPT ![Smaller(a, b)] = @ \cup clusters[Larger(a, b)]]

MergeableIfSame(n, m) == property[n] = property[m]
Mergeable(n, m) == property[n] # "CPU" /\ property[n] = property[m]

(* One turn of the first loop; fuse without is_dag.                        *)
MergeNeighbours ==
  /\ phase = "merge" /\ pos < Len(order)
  /\ IF Mergeable(order[pos], order[pos + 1])
     THEN LET a == labels[order[pos]]
              b == labels[order[pos + 1]]
          IN  labels' = FusedLabels(a, b) /\ clusters' = FusedClusters(a, b)
     ELSE UNCHANGED <<labels, clusters>>
  /\ pos' = pos + 1
  /\ UNCHANGED <<graphVars, phase, scanVars>>

StartScan ==
  /\ phase = "merge" /\ pos >= Len(order)
  /\ phase' = "scan"
  /\ queue' \in [1..Cardinality(InputNodes) -> InputNodes] /\ Ascending(queue')
  /\ visited' = InputNodes
  /\ UNCHANGED <<graphVars, pos, labels, clusters, node, sg, todo>>

(* The next node of the queue, with its subgraph at this moment.           *)
PopNode ==
  /\ phase = "scan" /\ todo = {} /\ queue # << >>
  /\ node' = Head(queue) /\ queue' = Tail(queue)
  /\ sg' = labels[node'] /\ todo' = Children(node')
  /\ UNCHANGED <<graphVars, phase, pos, labels, clusters, visited>>

Enqueue(c) ==
  /\ queue' = IF c \in visited THEN queue ELSE Append(queue, c)
  /\ visited' = visited \cup {c}
  /\ todo' = todo \ {c}

(* try_fuse(sg, next_sg) that ends with a DAG.                             *)
FuseChildUnchecked(c) ==
  /\ phase = "scan" /\ c \in todo /\ Mergeable(node, c)
  /\ labels' = FusedLabels(sg, labels[c])
  /\ clusters' = FusedClusters(sg, labels[c])
  /\ Enqueue(c)
  /\ UNCHANGED <<graphVars, phase, pos, node, sg>>

FuseChild(c) ==
  /\ phase = "scan" /\ c \in todo /\ Mergeable(node, c)
  /\ is_dag(FusedLabels(sg, labels[c]), FusedClusters(sg, labels[c]))
  /\ labels' = FusedLabels(sg, labels[c])
  /\ clusters' = FusedClusters(sg, labels[c])
  /\ Enqueue(c)
  /\ UNCHANGED <<graphVars, phase, pos, node, sg>>

(* No attempt, or one that is taken back: labels_ and both entries of      *)
(* clusters_ are restored.                                                 *)
PassChildForgetsClusters(c) ==
  /\ phase = "scan" /\ c \in todo
  /\ Mergeable(node, c) => ~is_dag(FusedLabels(sg, labels[c]), FusedClusters(sg, labels[c]))
  /\ clusters' = IF Mergeable(node, c) THEN FusedClusters(sg, labels[c]) ELSE clusters
  /\ Enqueue(c)
  /\ UNCHANGED <<graphVars, phase, pos, labels, node, sg>>

PassChild(c) ==
  /\ phase = "scan" /\ c \in todo
  /\ Mergeable(node, c) => ~is_dag(FusedLabels(sg, labels[c]), FusedClusters(sg, labels[c]))
  /\ Enqueue(c)
  /\ UNCHANGED <<graphVars, phase, pos, labels, clusters, node, sg>>

EndScan ==
  /\ phase = "scan" /\ todo = {} /\ queue = << >>
  /\ phase' = "labelled"
  /\ UNCHANGED <<graphVars, pos, labels, clusters, scanVars>>

PartNext ==
  \/ MergeNeighbours \/ StartScan \/ PopNode \/ EndScan
  \/ \E c \in Node : FuseChild(c) \/ PassChild(c)

PartSpec == PartInit /\ [][PartNext]_partVars

-----------------------------------------------------------------------------
PartTypeOK ==
  /\ edges \subseteq Node \X Node /\ property \in [Node -> {"AIE", "CPU"}]
  /\ order \in Seq(Node) /\ pos \in Nat
  /\ phase \in {"merge", "scan", "labelled", "fuse", "check_failed"}
  /\ labels \in [Node -> Node] /\ clusters \in [Node -> SUBSET Node]
  /\ queue \in Seq(Node) /\ visited \subseteq Node /\ todo \subseteq Node
  /\ node \in Nat /\ sg \in Nat
  /\ phase = "merge" => todo = {}

Subgraph(l) == {n \in Node : labels[n] = l}

Contracted(lab) ==
  {<<lab[e[1]], lab[e[2]]>> : e \in {e \in edges : lab[e[1]] # lab[e[2]]}}

(* The subgraphs can be run one after the other: contracting each of them  *)
(* leaves no cycle, after every fusion of either loop, although the first  *)
(* loop never looks and the second looks at the entries of clusters.       *)
PartitionAcyclic == Acyclic(Node, Contracted(labels))

(* labels and clusters agree on every subgraph in use, also after a fusion *)
(* that started from a stale sg or was taken back.                         *)
ClustersMatchLabels ==
  \A n \in Node : clusters[labels[n]] = Subgraph(labels[n])

(* No subgraph mixes targets, and a CPU node is never put together with    *)
(* another.                                                                *)
OneTarget ==
  \A n, m \in Node : labels[n] = labels[m] /\ n # m =>
    property[n] = "AIE" /\ property[m] = "AIE"
=============================================================================
