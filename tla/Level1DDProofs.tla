--------------------------- MODULE Level1DDProofs ---------------------------
(***************************************************************************)
(* The level1_dd pass: partition_graph keeps its subgraphs free of cycles, *)
(* and fusing keeps the model a graph without cycles in which every value  *)
(* has its producer, whatever the partitioner answers. What it does answer *)
(* passes every check, and is offloaded once.                              *)
(*                                                                         *)
(* The partition, for every graph, every topological order and every       *)
(* choice of targets. In the first loop the subgraphs are intervals of the *)
(* order. In the second loop is_dag looks at every subgraph in use, and a  *)
(* fusion that starts from a stale sg either changes nothing or makes two  *)
(* subgraphs point at each other, which is_dag sees.                       *)
(***************************************************************************)
EXTENDS Level1DD, FiniteSetTheorems, WellFoundedInduction, TLAPS

Matched(L, C) == \A n \in Node : C[L[n]] = {m \in Node : L[m] = L[n]}

Contiguous(L) ==
  \A i, j, k \in DOMAIN order :
    i <= j /\ j <= k /\ L[order[i]] = L[order[k]] => L[order[j]] = L[order[i]]

MergeInv ==
  /\ pos > 0
  /\ Contiguous(labels)
  /\ \A j \in DOMAIN order : j > pos =>
       \A n \in Node : labels[n] = labels[order[j]] => n = order[j]

(* sg when it is no longer the subgraph of node: nobody uses the name, its *)
(* nodes went to the smaller subgraph of some child.                       *)
StaleSg ==
  /\ labels[node] < sg
  /\ \A n \in Node : labels[n] # sg
  /\ node \in clusters[sg]
  /\ \A n \in clusters[sg] : labels[n] = labels[node]
  /\ \E c \in Children(node) : labels[c] = labels[node] /\ c \notin clusters[sg]

ScanInv ==
  todo # {} =>
    /\ node \in Node /\ sg \in Node /\ todo \subseteq Children(node)
    /\ labels[node] # sg => StaleSg

PartInv ==
  /\ PartTypeOK
  /\ TopologicalOrder(order) /\ Acyclic(Node, edges)
  /\ Matched(labels, clusters)
  /\ OneTarget
  /\ PartitionAcyclic
  /\ phase = "merge" => MergeInv
  /\ phase = "scan" => ScanInv

-----------------------------------------------------------------------------
LEMMA LessWellFounded ==
  \E R : IsWellFoundedOn(R, Nat) /\ \A x, y \in Nat : y < x => <<y, x>> \in R
<1>1. \A x, y \in Nat : y < x => <<y, x>> \in OpToRel(<, Nat)
  BY DEF OpToRel
<1> QED BY <1>1, NatLessThanWellFounded

LEMMA Smallest ==
  ASSUME NEW S \in SUBSET Nat, S # {}
  PROVE  \E n \in S : \A m \in S : n <= m
<1>1. PICK R : IsWellFoundedOn(R, Nat) /\ \A x, y \in Nat : y < x => <<y, x>> \in R
  BY LessWellFounded
<1>2. PICK x \in S : \A y \in S : ~(<<y, x>> \in R)
  BY <1>1, WFMin
<1>3. \A m \in S : x <= m
  <2> TAKE m \in S
  <2>1. x \in Nat /\ m \in Nat OBVIOUS
  <2>2. ~(m < x) BY <1>1, <1>2, <2>1
  <2> QED BY <2>1, <2>2
<1> QED BY <1>3

(* fuse on subgraphs in use puts the two together and keeps clusters in    *)
(* step with labels.                                                       *)
LEMMA FuseMerges ==
  ASSUME labels \in [Node -> Node], clusters \in [Node -> SUBSET Node],
         Matched(labels, clusters),
         NEW p \in Node, NEW q \in Node
  PROVE  LET L == FusedLabels(labels[p], labels[q])
             C == FusedClusters(labels[p], labels[q])
         IN  /\ L \in [Node -> Node] /\ C \in [Node -> SUBSET Node]
             /\ Matched(L, C)
             /\ \A x, y \in Node : L[x] = L[y] <=>
                  labels[x] = labels[y] \/ {labels[x], labels[y]} = {labels[p], labels[q]}
<1> DEFINE a == labels[p]
           b == labels[q]
           L == FusedLabels(a, b)
           C == FusedClusters(a, b)
           s == Smaller(a, b)
           l == Larger(a, b)
<1>1. a \in Nat /\ b \in Nat
  BY NodeAssumption
<1>2. {s, l} = {a, b} /\ s \in Node /\ l \in Node
  BY DEF Smaller, Larger
<1>3. clusters[s] = {m \in Node : labels[m] = s} /\ clusters[l] = {m \in Node : labels[m] = l}
  BY <1>2 DEF Matched
<1>4. L = [n \in Node |-> IF a # b /\ labels[n] = l THEN s ELSE labels[n]]
  BY <1>3 DEF FusedLabels
<1>5. C = [clusters EXCEPT ![s] = clusters[s] \cup clusters[l]]
  BY DEF FusedClusters
<1>6. L \in [Node -> Node] /\ C \in [Node -> SUBSET Node]
  BY <1>2, <1>4, <1>5
<1>7. a = b => s = a /\ l = a
  BY <1>2
<1>8. a # b => s # l
  BY <1>2
<1> HIDE DEF s, l, L, C
<1>9. \A x, y \in Node : L[x] = L[y] <=> labels[x] = labels[y] \/ {labels[x], labels[y]} = {a, b}
  <2> SUFFICES ASSUME NEW x \in Node, NEW y \in Node
               PROVE  L[x] = L[y] <=> labels[x] = labels[y] \/ {labels[x], labels[y]} = {a, b}
    OBVIOUS
  <2>1. L[x] = L[y] <=> labels[x] = labels[y] \/ {labels[x], labels[y]} = {s, l}
    <3>1. CASE a = b
      BY <3>1, <1>4, <1>7
    <3>2. CASE a # b
      BY <3>2, <1>4, <1>8
    <3> QED BY <3>1, <3>2
  <2> QED BY <2>1, <1>2
<1>10. Matched(L, C)
  <2> SUFFICES ASSUME NEW n \in Node
               PROVE  C[L[n]] = {m \in Node : L[m] = L[n]}
    BY DEF Matched
  <2>1. CASE a = b
    <3>1. L = labels
      BY <2>1, <1>4
    <3>2. C = clusters
      BY <2>1, <1>5, <1>7
    <3> QED BY <3>1, <3>2 DEF Matched
  <2>2. CASE a # b /\ labels[n] \in {s, l}
    <3>1. L[n] = s
      BY <2>2, <1>4
    <3>2. C[s] = {m \in Node : labels[m] = s} \cup {m \in Node : labels[m] = l}
      BY <1>2, <1>3, <1>5
    <3>3. {m \in Node : L[m] = s} = {m \in Node : labels[m] \in {s, l}}
      BY <2>2, <1>4
    <3> QED BY <3>1, <3>2, <3>3
  <2>3. CASE a # b /\ labels[n] \notin {s, l}
    <3>1. L[n] = labels[n] /\ C[labels[n]] = clusters[labels[n]]
      BY <2>3, <1>4, <1>5
    <3>2. {m \in Node : L[m] = labels[n]} = {m \in Node : labels[m] = labels[n]}
      BY <2>3, <1>4
    <3> QED BY <3>1, <3>2 DEF Matched
  <2> QED BY <2>1, <2>2, <2>3
<1> QED BY <1>6, <1>9, <1>10 DEF L, C

(* Subgraphs that are intervals of a topological order have no cycle.      *)
LEMMA IntervalsAcyclic ==
  ASSUME NEW L \in [Node -> Node], edges \subseteq Node \X Node, order \in Seq(Node),
         TopologicalOrder(order), Contiguous(L)
  PROVE  Acyclic(Node, Contracted(L))
<1> SUFFICES ASSUME NEW S \in SUBSET Node, S # {}
             PROVE  \E n \in S : \A m \in S : <<m, n>> \notin Contracted(L)
  BY DEF Acyclic
<1> DEFINE I == {i \in DOMAIN order : L[order[i]] \in S}
<1>1. I \subseteq Nat
  OBVIOUS
<1>2. \A i \in DOMAIN order : order[i] \in Node /\ i \in Nat
  OBVIOUS
<1>3. CASE I = {}
  <2>1. PICK n \in S : TRUE
    OBVIOUS
  <2>2. \A m \in S : <<m, n>> \notin Contracted(L)
    <3> SUFFICES ASSUME NEW e \in edges, L[e[2]] = n
                 PROVE  FALSE
      BY DEF Contracted
    <3>1. PICK i \in DOMAIN order : order[i] = e[2]
      BY DEF TopologicalOrder
    <3> QED BY <1>3, <3>1
  <2> QED BY <2>2
<1>4. CASE I # {}
  <2>1. PICK i0 \in I : \A i \in I : i0 <= i
    BY <1>1, <1>4, Smallest
  <2>2. SUFFICES ASSUME NEW m \in S, <<m, L[order[i0]]>> \in Contracted(L)
                 PROVE  FALSE
    OBVIOUS
  <2>3. PICK e \in edges : /\ L[e[1]] # L[e[2]] /\ m = L[e[1]]
                           /\ L[order[i0]] = L[e[2]]
    BY <2>2 DEF Contracted
  <2>4. PICK i, j \in DOMAIN order : order[i] = e[1] /\ order[j] = e[2]
    BY DEF TopologicalOrder
  <2>5. e = <<order[i], order[j]>>
    BY <2>4
  <2>6. i < j
    BY <2>5 DEF TopologicalOrder
  <2>7. i0 <= i
    BY <2>1, <2>3, <2>4
  <2>8. L[order[i]] = L[order[i0]]
    BY <1>2, <2>3, <2>4, <2>6, <2>7 DEF Contiguous
  <2> QED BY <2>3, <2>4, <2>8
<1> QED BY <1>3, <1>4

(* A set closed under the edges of the graph of subgraphs that holds the   *)
(* input subgraphs holds all subgraphs in use, when each edge of the model *)
(* that leaves the subgraph of its node is seen or stays in the set.       *)
LEMMA ClosedHoldsAll ==
  ASSUME edges \subseteq Node \X Node, Acyclic(Node, edges),
         NEW L \in [Node -> Node], NEW K, InputSubgraphs(L) \subseteq K,
         \A e \in edges : L[e[1]] \in K => L[e[2]] \in K
  PROVE  \A n \in Node : L[n] \in K
<1> DEFINE B == {n \in Node : L[n] \notin K}
<1>1. SUFFICES ASSUME B # {}
               PROVE  FALSE
  OBVIOUS
<1>2. PICK n \in B : \A m \in B : <<m, n>> \notin edges
  BY <1>1 DEF Acyclic
<1>3. n \notin InputNodes
  BY DEF InputSubgraphs
<1>4. PICK m \in Node : <<m, n>> \in edges
  BY <1>3 DEF InputNodes
<1>5. L[m] \in K
  BY <1>2, <1>4
<1> QED BY <1>4, <1>5

(* is_dag looks at every subgraph in use.                                  *)
LEMMA DagAcyclic ==
  ASSUME edges \subseteq Node \X Node, Acyclic(Node, edges),
         NEW L \in [Node -> Node], NEW C \in [Node -> SUBSET Node], Matched(L, C),
         is_dag(L, C)
  PROVE  Acyclic(Node, Contracted(L))
<1> DEFINE next == NextSubgraphs(L, C)
           R == Reached(InputSubgraphs(L), next, Node)
<1>1. \A e \in edges : L[e[1]] # L[e[2]] => <<L[e[1]], L[e[2]]>> \in next
  BY DEF NextSubgraphs, Matched
<1>2. Contracted(L) \subseteq next
  BY <1>1 DEF Contracted
<1>3. \A n \in Node : L[n] \in R
  <2> SUFFICES ASSUME NEW K \in SUBSET Node, InputSubgraphs(L) \subseteq K, IsClosed(K, next)
               PROVE  \A n \in Node : L[n] \in K
    BY DEF Reached
  <2>1. \A e \in edges : L[e[1]] \in K => L[e[2]] \in K
    BY <1>1 DEF IsClosed
  <2> QED BY <2>1, ClosedHoldsAll
<1>4. SUFFICES ASSUME NEW S \in SUBSET Node, S # {}
               PROVE  \E n \in S : \A m \in S : <<m, n>> \notin Contracted(L)
  BY DEF Acyclic
<1>5. CASE S \subseteq R
  BY <1>2, <1>4, <1>5 DEF is_dag, Acyclic
<1>6. CASE ~(S \subseteq R)
  <2>1. PICK n \in S : n \notin R
    BY <1>6
  <2>2. \A m \in S : <<m, n>> \notin Contracted(L)
    BY <1>3, <2>1 DEF Contracted
  <2> QED BY <2>2
<1> QED BY <1>5, <1>6

(* A fusion that starts from a stale sg and survives is_dag changes        *)
(* nothing: with a third subgraph it would leave the name of node's        *)
(* subgraph and the fused one pointing at each other.                      *)
LEMMA StaleFusion ==
  ASSUME PartTypeOK, Acyclic(Node, edges), Matched(labels, clusters),
         node \in Node, sg \in Node, StaleSg,
         NEW c \in Children(node),
         is_dag(FusedLabels(sg, labels[c]), FusedClusters(sg, labels[c]))
  PROVE  FusedLabels(sg, labels[c]) = labels /\ FusedClusters(sg, labels[c]) = clusters
<1> DEFINE x == labels[node]
           y == labels[c]
           L == FusedLabels(sg, y)
           D == FusedClusters(sg, y)
           next == NextSubgraphs(L, D)
<1>1. /\ labels \in [Node -> Node] /\ clusters \in [Node -> SUBSET Node]
      /\ edges \subseteq Node \X Node
  BY DEF PartTypeOK
<1>2. x \in Node /\ y \in Node /\ sg \in Node /\ c \in Node /\ <<node, c>> \in edges
  BY <1>1 DEF Children
<1>3. x \in Nat /\ y \in Nat /\ sg \in Nat
  BY <1>2, NodeAssumption
<1>4. y # sg /\ x # sg /\ x < sg
  BY <1>2 DEF StaleSg
<1>5. clusters[sg] \subseteq {n \in Node : labels[n] = x}
  BY <1>1 DEF StaleSg
<1>6. CASE y = x
  <2>1. Smaller(sg, y) = x /\ Larger(sg, y) = sg
    BY <1>3, <1>4, <1>6 DEF Smaller, Larger
  <2>2. L = labels
    BY <1>1, <1>5, <2>1 DEF FusedLabels
  <2>3. clusters[x] \cup clusters[sg] = clusters[x]
    BY <1>2, <1>5 DEF Matched
  <2>4. D = clusters
    BY <1>1, <1>2, <2>1, <2>3 DEF FusedClusters
  <2> QED BY <2>2, <2>4
<1>7. CASE y # x
  <2> DEFINE s == Smaller(sg, y)
             l == Larger(sg, y)
  <2>1. {s, l} = {sg, y} /\ s # l /\ s \in Node /\ l \in Node
    BY <1>2, <1>4 DEF Smaller, Larger
  <2>2. s # x /\ l # x
    BY <2>1, <1>4, <1>7
  <2>3. L = [n \in Node |-> IF n \in clusters[l] THEN s ELSE labels[n]]
    BY <1>4 DEF FusedLabels
  <2>4. D = [clusters EXCEPT ![s] = clusters[s] \cup clusters[l]]
    BY DEF FusedClusters
  <2> HIDE DEF s, l, L, D
  <2>5. L \in [Node -> Node] /\ D \in [Node -> SUBSET Node]
    BY <1>1, <2>1, <2>3, <2>4
  <2>6. /\ D[s] = clusters[sg] \cup clusters[y]
        /\ \A z \in Node : z # s => D[z] = clusters[z]
    BY <1>1, <2>1, <2>4
  <2>7. clusters[y] = {n \in Node : labels[n] = y} /\ clusters[x] = {n \in Node : labels[n] = x}
    BY <1>2 DEF Matched
  <2>8. \A n \in Node : n \in clusters[l] => n \in clusters[sg] \/ n \in clusters[y]
    BY <2>1
  (* y's nodes, and maybe those of clusters[sg], are labelled s now.       *)
  <2>9. /\ L[c] = s
        /\ \A n \in Node : labels[n] = y => L[n] = s
        /\ \A n \in Node : L[n] = s => n \in D[s]
        /\ \A n \in Node : labels[n] \notin {x, y} => L[n] = labels[n]
        /\ \A n \in Node : n \notin clusters[sg] /\ labels[n] = x => L[n] = x
        /\ \A n \in Node : L[n] \in {s, labels[n]}
    <3>1. CASE s = sg /\ l = y
      BY <3>1, <1>1, <1>2, <1>4, <1>5, <1>7, <2>3, <2>6, <2>7 DEF StaleSg
    <3>2. CASE s = y /\ l = sg
      BY <3>2, <1>1, <1>2, <1>4, <1>5, <1>7, <2>3, <2>6, <2>7 DEF StaleSg
    <3> QED BY <3>1, <3>2, <2>1
  <2>10. node \in D[s] /\ node \in D[x] /\ c \notin D[x]
    BY <1>2, <1>7, <2>2, <2>6, <2>7 DEF StaleSg
  <2>11. PICK d \in Node : <<node, d>> \in edges /\ labels[d] = x /\ d \notin clusters[sg]
    BY DEF StaleSg, Children
  <2>12. L[d] = x /\ d \notin D[s]
    BY <1>7, <2>6, <2>7, <2>9, <2>11
  <2>13. <<x, s>> \in next
    BY <1>2, <2>1, <2>9, <2>10 DEF NextSubgraphs
  <2>14. <<s, x>> \in next
    BY <1>2, <2>1, <2>10, <2>11, <2>12 DEF NextSubgraphs
  <2>15. \A e \in edges : L[e[1]] # L[e[2]] =>
           <<L[e[1]], L[e[2]]>> \in next \/ (L[e[1]] = x /\ L[e[2]] = s)
                                          \/ (L[e[1]] = s /\ L[e[2]] = x)
    <3> SUFFICES ASSUME NEW e \in edges, L[e[1]] # L[e[2]],
                        ~(L[e[1]] = x /\ L[e[2]] = s), ~(L[e[1]] = s /\ L[e[2]] = x)
                 PROVE  <<L[e[1]], L[e[2]]>> \in next
      OBVIOUS
    <3> DEFINE m == e[1]
               n == e[2]
    <3>1. m \in Node /\ n \in Node
      BY <1>1
    <3>2. L[m] \in Node /\ L[n] \in Node
      BY <3>1, <2>5
    <3>3. CASE L[m] = s
      <4>1. m \in D[s]
        BY <3>1, <3>3, <2>9
      <4>2. n \notin D[s]
        <5>1. n \notin clusters[y]
          BY <3>1, <3>3, <2>7, <2>9
        <5>2. n \notin clusters[sg]
          BY <3>1, <3>3, <1>5, <2>9
        <5> QED BY <5>1, <5>2, <2>6
      <4> QED BY <3>1, <3>2, <3>3, <4>1, <4>2 DEF NextSubgraphs
    <3>4. CASE L[m] # s
      <4>1. L[m] = labels[m] /\ D[L[m]] = clusters[labels[m]]
        BY <3>1, <3>2, <3>4, <2>6, <2>9
      <4>2. m \in D[L[m]]
        BY <3>1, <4>1 DEF Matched
      <4>3. n \notin D[L[m]]
        <5>1. L[n] = s \/ L[n] = labels[n]
          BY <3>1, <2>9
        <5>2. CASE labels[n] # labels[m]
          BY <3>1, <4>1, <5>2 DEF Matched
        <5>3. CASE labels[n] = labels[m]
          <6>1. L[n] = s
            BY <4>1, <5>1, <5>3
          <6>2. labels[n] = x
            BY <3>1, <3>4, <4>1, <5>3, <6>1, <2>9
          <6> QED BY <4>1, <5>3, <6>1, <6>2
        <5> QED BY <5>2, <5>3
      <4> QED BY <3>1, <3>2, <4>2, <4>3 DEF NextSubgraphs
    <3> QED BY <3>3, <3>4
  <2>16. \A n \in Node : L[n] \in Reached(InputSubgraphs(L), next, Node)
    <3> SUFFICES ASSUME NEW K \in SUBSET Node, InputSubgraphs(L) \subseteq K, IsClosed(K, next)
                 PROVE  \A n \in Node : L[n] \in K
      BY <2>5 DEF Reached
    <3>1. x \in K <=> s \in K
      BY <2>13, <2>14 DEF IsClosed
    <3>2. \A e \in edges : L[e[1]] \in K => L[e[2]] \in K
      BY <2>15, <3>1 DEF IsClosed
    <3> QED BY <3>2, <1>1, <2>5, ClosedHoldsAll
  <2>17. {x, s} \subseteq Reached(InputSubgraphs(L), next, Node)
    BY <1>2, <2>9, <2>11, <2>12, <2>16
  <2>18. is_dag(L, D)
    BY DEF L, D
  <2>19. \E n \in {x, s} : \A m \in {x, s} : <<m, n>> \notin next
    <3> DEFINE R == Reached(InputSubgraphs(L), next, Node)
    <3>1. Acyclic(R, next)
      BY <2>18 DEF is_dag
    <3>2. {x, s} \in SUBSET R /\ {x, s} # {}
      BY <2>17
    <3> HIDE DEF R, next
    <3> QED BY <3>1, <3>2 DEF Acyclic
  <2> QED BY <2>13, <2>14, <2>19
<1> QED BY <1>6, <1>7

-----------------------------------------------------------------------------
LEMMA PartInitInv == PartInit => PartInv
<1> SUFFICES ASSUME PartInit PROVE PartInv
  OBVIOUS
<1>1. Cardinality(Node) \in Nat
  BY NodeAssumption, FS_CardinalityType
<1>2. order \in [1..Cardinality(Node) -> Node]
  BY DEF PartInit
<1>3. PartTypeOK
  BY <1>1, <1>2 DEF PartInit, PartTypeOK
<1>4. TopologicalOrder(order) /\ Acyclic(Node, edges)
  BY DEF PartInit
<1>5. Matched(labels, clusters) /\ OneTarget
  BY DEF PartInit, Matched, OneTarget
<1>6. \A i \in DOMAIN order : order[i] \in Node /\ i \in Nat /\ i > 0
  BY <1>1, <1>2
<1>7. MergeInv
  <2>1. Contiguous(labels)
    BY <1>4, <1>6 DEF PartInit, Contiguous, TopologicalOrder
  <2> QED BY <1>6, <2>1 DEF MergeInv, PartInit
<1>8. PartitionAcyclic
  BY <1>3, <1>4, <1>7, IntervalsAcyclic DEF MergeInv, PartTypeOK, PartitionAcyclic
<1> QED BY <1>3, <1>4, <1>5, <1>7, <1>8 DEF PartInv, PartInit

LEMMA MergeStep == PartInv /\ MergeNeighbours => PartInv'
<1> SUFFICES ASSUME PartInv, MergeNeighbours PROVE PartInv'
  OBVIOUS
<1> USE DEF graphVars, scanVars
<1>1. /\ PartTypeOK /\ TopologicalOrder(order) /\ Acyclic(Node, edges)
      /\ Matched(labels, clusters) /\ OneTarget /\ MergeInv
  BY DEF PartInv, MergeNeighbours
<1>2. UNCHANGED <<edges, property, order, phase, queue, visited, node, sg, todo>>
      /\ phase = "merge" /\ pos' = pos + 1 /\ pos < Len(order) /\ pos \in Nat /\ pos > 0
  BY <1>1 DEF MergeNeighbours, PartTypeOK, MergeInv
<1>3. /\ labels \in [Node -> Node] /\ clusters \in [Node -> SUBSET Node] /\ order \in Seq(Node)
  BY <1>1 DEF PartTypeOK
<1> DEFINE p == order[pos]
           q == order[pos + 1]
<1>4. /\ pos \in DOMAIN order /\ pos + 1 \in DOMAIN order /\ p \in Node /\ q \in Node
      /\ \A i \in DOMAIN order : order[i] \in Node /\ i \in Nat
  BY <1>2, <1>3
<1>5. CASE Mergeable(p, q)
  <2>1. /\ labels' = FusedLabels(labels[p], labels[q])
        /\ clusters' = FusedClusters(labels[p], labels[q])
    BY <1>5 DEF MergeNeighbours
  <2>2. /\ labels' \in [Node -> Node] /\ clusters' \in [Node -> SUBSET Node]
        /\ Matched(labels', clusters')
        /\ \A x, y \in Node : labels'[x] = labels'[y] <=>
             labels[x] = labels[y] \/ {labels[x], labels[y]} = {labels[p], labels[q]}
    <3> HIDE DEF p, q
    <3>1. Matched(labels, clusters) /\ p \in Node /\ q \in Node
      BY <1>1, <1>4
    <3> DEFINE L == FusedLabels(labels[p], labels[q])
               C == FusedClusters(labels[p], labels[q])
    <3>2. /\ L \in [Node -> Node] /\ C \in [Node -> SUBSET Node]
          /\ Matched(L, C)
          /\ \A x, y \in Node : L[x] = L[y] <=>
               labels[x] = labels[y] \/ {labels[x], labels[y]} = {labels[p], labels[q]}
      BY <1>3, <3>1, FuseMerges
    <3>3. labels' = L /\ clusters' = C
      BY <2>1
    <3> HIDE DEF L, C
    <3> QED BY <3>2, <3>3
  <2>3. PartTypeOK'
    BY <1>1, <1>2, <2>2 DEF PartTypeOK
  <2>4. OneTarget'
    <3>1. property[p] = "AIE" /\ property[q] = "AIE"
      BY <1>1, <1>4, <1>5 DEF Mergeable, PartTypeOK
    <3>2. \A n \in Node : labels[n] \in {labels[p], labels[q]} => property[n] = "AIE"
      BY <1>1, <1>4, <3>1 DEF OneTarget
    <3> SUFFICES ASSUME NEW n \in Node, NEW m \in Node, labels'[n] = labels'[m], n # m
                 PROVE  property[n] = "AIE" /\ property[m] = "AIE"
      BY <1>2 DEF OneTarget
    <3>3. CASE labels[n] = labels[m]
      BY <1>1, <3>3 DEF OneTarget
    <3>4. CASE labels[n] # labels[m]
      BY <2>2, <3>2, <3>4
    <3> QED BY <3>3, <3>4
  <2>5. \A n \in Node : labels[n] = labels[q] <=> n = q
    BY <1>1, <1>2, <1>4 DEF MergeInv
  <2>6. Contiguous(labels')
    <3> SUFFICES ASSUME NEW i \in DOMAIN order, NEW j \in DOMAIN order, NEW k \in DOMAIN order,
                        i <= j, j <= k, labels'[order[i]] = labels'[order[k]]
                 PROVE  labels'[order[j]] = labels'[order[i]]
      BY <1>2 DEF Contiguous
    <3>1. CASE labels[order[i]] = labels[order[k]]
      BY <1>1, <1>4, <2>2, <3>1 DEF MergeInv, Contiguous
    <3>2. CASE labels[order[i]] = labels[q] /\ labels[order[k]] = labels[p]
      <4>1. i = pos + 1
        BY <1>1, <1>4, <2>5, <3>2 DEF TopologicalOrder
      <4>2. k > pos
        BY <1>2, <1>4, <4>1
      <4>3. order[k] = p
        BY <1>1, <1>4, <3>2, <4>2 DEF MergeInv
      <4> QED BY <1>1, <1>2, <1>4, <4>2, <4>3 DEF TopologicalOrder
    <3>3. CASE labels[order[i]] = labels[p] /\ labels[order[k]] = labels[q]
      <4>1. k = pos + 1
        BY <1>1, <1>4, <2>5, <3>3 DEF TopologicalOrder
      <4>2. CASE j = pos + 1
        BY <1>4, <2>2, <3>3, <4>2
      <4>3. CASE j # pos + 1
        <5>1. j <= pos
          BY <1>2, <1>4, <4>1, <4>3
        <5>2. labels[order[j]] = labels[p]
          BY <1>1, <1>4, <3>3, <5>1 DEF MergeInv, Contiguous
        <5> QED BY <1>4, <2>2, <3>3, <5>2
      <4> QED BY <4>2, <4>3
    <3>4. order[i] \in Node /\ order[k] \in Node
      BY <1>4
    <3>5. \/ labels[order[i]] = labels[order[k]]
          \/ {labels[order[i]], labels[order[k]]} = {labels[p], labels[q]}
      BY <2>2, <3>4
    <3>6. \/ labels[order[i]] = labels[order[k]]
          \/ labels[order[i]] = labels[q] /\ labels[order[k]] = labels[p]
          \/ labels[order[i]] = labels[p] /\ labels[order[k]] = labels[q]
      BY ONLY <3>5
    <3> QED BY <3>1, <3>2, <3>3, <3>6
  <2>7. MergeInv'
    <3>1. \A j \in DOMAIN order : j > pos + 1 =>
            \A n \in Node : labels'[n] = labels'[order[j]] => n = order[j]
      <4> SUFFICES ASSUME NEW j \in DOMAIN order, j > pos + 1, NEW n \in Node,
                          labels'[n] = labels'[order[j]]
                   PROVE  n = order[j]
        OBVIOUS
      <4>1. order[j] # p /\ order[j] # q
        BY <1>1, <1>2, <1>4 DEF TopologicalOrder
      <4>2. labels[order[j]] # labels[p] /\ labels[order[j]] # labels[q]
        BY <1>1, <1>2, <1>4, <4>1 DEF MergeInv
      <4>3. labels[n] = labels[order[j]]
        BY <1>4, <2>2, <4>2
      <4> QED BY <1>1, <1>2, <1>4, <4>3 DEF MergeInv
    <3> QED BY <1>2, <2>6, <3>1 DEF MergeInv, Contiguous
  <2>8. PartitionAcyclic'
    <3>1. Acyclic(Node, Contracted(labels'))
      BY <1>1, <1>3, <2>2, <2>6, IntervalsAcyclic DEF PartTypeOK
    <3> QED BY <1>2, <3>1 DEF PartitionAcyclic, Contracted
  <2> QED BY <1>1, <1>2, <2>2, <2>3, <2>4, <2>7, <2>8 DEF PartInv, Matched, TopologicalOrder
<1>6. CASE ~Mergeable(p, q)
  <2>1. labels' = labels /\ clusters' = clusters
    BY <1>6 DEF MergeNeighbours
  <2>2. MergeInv'
    BY <1>1, <1>2, <1>4, <2>1 DEF MergeInv, Contiguous
  <2> QED BY <1>1, <1>2, <2>1, <2>2
       DEF PartInv, PartTypeOK, Matched, TopologicalOrder, OneTarget, PartitionAcyclic, Contracted
<1> QED BY <1>5, <1>6

(* Steps that leave labels, clusters and the graph alone.                  *)
LEMMA LabelsUntouched ==
  ASSUME PartInv, UNCHANGED <<edges, property, order, labels, clusters>>
  PROVE  /\ TopologicalOrder(order)' /\ Acyclic(Node, edges)'
         /\ Matched(labels, clusters)' /\ OneTarget' /\ PartitionAcyclic'
BY DEF PartInv, TopologicalOrder, Matched, OneTarget, PartitionAcyclic, Contracted

LEMMA StartScanStep == PartInv /\ StartScan => PartInv'
<1> SUFFICES ASSUME PartInv, StartScan PROVE PartInv'
  OBVIOUS
<1>1. UNCHANGED <<edges, property, order, labels, clusters, pos, node, sg, todo>>
      /\ phase' = "scan" /\ phase = "merge"
  BY DEF StartScan, graphVars
<1>2. InputNodes \subseteq Node
  BY DEF InputNodes
<1>3. Cardinality(InputNodes) \in Nat
  BY <1>2, NodeAssumption, FS_Subset, FS_CardinalityType
<1>4. queue' \in Seq(Node) /\ visited' \subseteq Node
  BY <1>2, <1>3 DEF StartScan
<1>5. PartTypeOK'
  BY <1>1, <1>4 DEF PartInv, PartTypeOK
<1>6. todo = {}
  BY <1>1 DEF PartInv, PartTypeOK
<1>7. ScanInv'
  BY <1>1, <1>6 DEF ScanInv
<1> QED BY <1>1, <1>5, <1>7, LabelsUntouched DEF PartInv

LEMMA PopNodeStep == PartInv /\ PopNode => PartInv'
<1> SUFFICES ASSUME PartInv, PopNode PROVE PartInv'
  OBVIOUS
<1>1. UNCHANGED <<edges, property, order, labels, clusters, phase, pos, visited>>
      /\ phase = "scan" /\ queue # << >> /\ queue \in Seq(Node) /\ labels \in [Node -> Node]
  BY DEF PopNode, graphVars, PartInv, PartTypeOK
<1>2. node' \in Node /\ queue' \in Seq(Node)
  BY <1>1 DEF PopNode
<1>3. sg' = labels[node'] /\ sg' \in Node /\ todo' = Children(node')
  BY <1>1, <1>2 DEF PopNode
<1>4. todo' \subseteq Node
  BY <1>3 DEF Children
<1>5. PartTypeOK'
  BY <1>1, <1>2, <1>3, <1>4, NodeAssumption DEF PartInv, PartTypeOK
<1>6. ScanInv'
  BY <1>1, <1>2, <1>3 DEF ScanInv, Children
<1> QED BY <1>1, <1>5, <1>6, LabelsUntouched DEF PartInv

LEMMA EnqueueTypes ==
  ASSUME PartTypeOK, NEW c \in Node, Enqueue(c)
  PROVE  queue' \in Seq(Node) /\ visited' \subseteq Node /\ todo' \subseteq todo
BY DEF Enqueue, PartTypeOK

LEMMA PassChildStep == ASSUME PartInv, NEW c \in Node, PassChild(c) PROVE PartInv'
<1>1. UNCHANGED <<edges, property, order, labels, clusters, phase, pos, node, sg>>
      /\ phase = "scan" /\ c \in todo /\ Enqueue(c) /\ PartTypeOK
  BY DEF PassChild, graphVars, PartInv
<1>2. queue' \in Seq(Node) /\ visited' \subseteq Node /\ todo' \subseteq todo
  BY <1>1, EnqueueTypes
<1>3. PartTypeOK'
  BY <1>1, <1>2 DEF PartTypeOK
<1>4. ScanInv'
  BY <1>1, <1>2 DEF PartInv, ScanInv, StaleSg, Children
<1> QED BY <1>1, <1>3, <1>4, LabelsUntouched DEF PartInv

LEMMA FuseChildStep == ASSUME PartInv, NEW c \in Node, FuseChild(c) PROVE PartInv'
<1>1. /\ UNCHANGED <<edges, property, order, phase, pos, node, sg>>
      /\ phase = "scan" /\ c \in todo /\ Enqueue(c)
      /\ PartTypeOK /\ ScanInv /\ Matched(labels, clusters) /\ OneTarget
      /\ TopologicalOrder(order) /\ Acyclic(Node, edges)
  BY DEF FuseChild, graphVars, PartInv
<1>2. queue' \in Seq(Node) /\ visited' \subseteq Node /\ todo' \subseteq todo
  BY <1>1, EnqueueTypes
<1>3. node \in Node /\ sg \in Node /\ c \in Children(node)
  BY <1>1 DEF ScanInv
<1>4. labels' = FusedLabels(sg, labels[c]) /\ clusters' = FusedClusters(sg, labels[c])
      /\ is_dag(FusedLabels(sg, labels[c]), FusedClusters(sg, labels[c]))
  BY DEF FuseChild
<1>5. CASE labels[node] # sg
  <2>1. StaleSg
    BY <1>1, <1>5 DEF ScanInv
  <2>2. labels' = labels /\ clusters' = clusters
    BY <1>1, <1>3, <1>4, <2>1, StaleFusion
  <2>3. PartTypeOK'
    BY <1>1, <1>2, <2>2 DEF PartTypeOK
  <2>4. ScanInv'
    BY <1>1, <1>2, <2>2 DEF ScanInv, StaleSg, Children
  <2> QED BY <1>1, <2>2, <2>3, <2>4, LabelsUntouched DEF PartInv
<1>6. CASE labels[node] = sg
  <2> DEFINE b == labels[c]
  <2>1. labels \in [Node -> Node] /\ clusters \in [Node -> SUBSET Node]
    BY <1>1 DEF PartTypeOK
  <2>2. labels' = FusedLabels(labels[node], labels[c])
        /\ clusters' = FusedClusters(labels[node], labels[c])
    BY <1>4, <1>6
  <2>3. /\ labels' \in [Node -> Node] /\ clusters' \in [Node -> SUBSET Node]
        /\ Matched(labels', clusters')
        /\ \A x, y \in Node : labels'[x] = labels'[y] <=>
             labels[x] = labels[y] \/ {labels[x], labels[y]} = {labels[node], labels[c]}
    <3> DEFINE L == FusedLabels(labels[node], labels[c])
               C == FusedClusters(labels[node], labels[c])
    <3>1. /\ L \in [Node -> Node] /\ C \in [Node -> SUBSET Node]
          /\ Matched(L, C)
          /\ \A x, y \in Node : L[x] = L[y] <=>
               labels[x] = labels[y] \/ {labels[x], labels[y]} = {labels[node], labels[c]}
      BY <1>1, <1>3, <2>1, FuseMerges
    <3>2. labels' = L /\ clusters' = C
      BY <2>2
    <3> HIDE DEF L, C
    <3> QED BY <3>1, <3>2
  <2>4. PartTypeOK'
    BY <1>1, <1>2, <2>3 DEF PartTypeOK
  <2>5. OneTarget'
    <3>1. property[node] = "AIE" /\ property[c] = "AIE"
      BY <1>1, <1>3 DEF FuseChild, Mergeable, PartTypeOK
    <3>2. \A n \in Node : labels[n] \in {labels[node], labels[c]} => property[n] = "AIE"
      BY <1>1, <1>3, <3>1 DEF OneTarget
    <3> SUFFICES ASSUME NEW n \in Node, NEW m \in Node, labels'[n] = labels'[m], n # m
                 PROVE  property[n] = "AIE" /\ property[m] = "AIE"
      BY <1>1 DEF OneTarget
    <3>3. CASE labels[n] = labels[m]
      BY <1>1, <3>3 DEF OneTarget
    <3>4. CASE labels[n] # labels[m]
      BY <2>3, <3>2, <3>4
    <3> QED BY <3>3, <3>4
  <2>6. PartitionAcyclic'
    <3>1. is_dag(labels', clusters')
      BY <1>4
    <3>2. Acyclic(Node, Contracted(labels'))
      BY <1>1, <2>3, <3>1, DagAcyclic DEF PartTypeOK
    <3> QED BY <1>1, <3>2 DEF PartitionAcyclic, Contracted
  <2>7. labels'[node] # sg => StaleSg'
    <3> SUFFICES ASSUME labels'[node] # sg PROVE StaleSg'
      OBVIOUS
    <3>1. sg \in Nat /\ b \in Nat
      BY <1>3, <2>1, NodeAssumption
    <3>2. clusters[sg] = {n \in Node : labels[n] = sg} /\ clusters[b] = {n \in Node : labels[n] = b}
      BY <1>1, <1>3, <1>6 DEF Matched
    <3>3. b < sg
      BY <1>3, <1>4, <1>6, <2>1, <3>1, <3>2 DEF FusedLabels, Smaller, Larger
    <3>4. Smaller(sg, b) = b /\ Larger(sg, b) = sg
      BY <3>1, <3>3 DEF Smaller, Larger
    <3>5. labels' = [n \in Node |-> IF labels[n] = sg THEN b ELSE labels[n]]
      BY <1>4, <2>1, <3>1, <3>2, <3>3, <3>4 DEF FusedLabels
    <3>6. clusters'[sg] = clusters[sg]
      BY <1>3, <1>4, <2>1, <3>1, <3>3, <3>4 DEF FusedClusters
    <3>7. labels'[node] = b /\ labels'[c] = b /\ \A n \in Node : labels'[n] # sg
      BY <1>3, <1>6, <3>1, <3>3, <3>5
    <3>8. node \in clusters[sg] /\ c \notin clusters[sg]
          /\ \A n \in clusters[sg] : labels'[n] = b
      BY <1>3, <1>6, <3>1, <3>2, <3>3, <3>5
    <3> QED BY <1>1, <1>3, <3>3, <3>6, <3>7, <3>8 DEF StaleSg, Children
  <2>8. ScanInv'
    BY <1>1, <1>2, <1>3, <2>7 DEF ScanInv, Children
  <2> QED BY <1>1, <2>3, <2>4, <2>5, <2>6, <2>8 DEF PartInv, Matched, TopologicalOrder
<1> QED BY <1>5, <1>6

(* The steps of the pass after partition_graph change nothing but phase.   *)
LEMMA OtherPhaseStep ==
  ASSUME PartInv,
         UNCHANGED <<edges, property, order, pos, labels, clusters, queue, visited,
                     node, sg, todo>>,
         phase' \in {"labelled", "fuse", "check_failed"}
  PROVE  PartInv'
<1>1. PartTypeOK'
  BY DEF PartInv, PartTypeOK
<1> QED BY <1>1, LabelsUntouched DEF PartInv

LEMMA PartNextInv == PartInv /\ [PartNext]_partVars => PartInv'
<1> SUFFICES ASSUME PartInv, [PartNext]_partVars PROVE PartInv'
  OBVIOUS
<1>1. CASE MergeNeighbours
  BY <1>1, MergeStep
<1>2. CASE StartScan
  BY <1>2, StartScanStep
<1>3. CASE PopNode
  BY <1>3, PopNodeStep
<1>4. CASE EndScan
  BY <1>4, OtherPhaseStep DEF EndScan, graphVars, scanVars
<1>5. CASE \E c \in Node : FuseChild(c)
  BY <1>5, FuseChildStep
<1>6. CASE \E c \in Node : PassChild(c)
  BY <1>6, PassChildStep
<1>7. CASE UNCHANGED partVars
  <2> USE <1>7 DEF partVars
  <2>1. PartTypeOK'
    BY DEF PartInv, PartTypeOK
  <2>2. MergeInv => MergeInv'
    BY DEF MergeInv, Contiguous
  <2>3. ScanInv => ScanInv'
    BY DEF ScanInv, StaleSg, Children
  <2> QED BY <2>1, <2>2, <2>3, LabelsUntouched DEF PartInv
<1> QED BY <1>1, <1>2, <1>3, <1>4, <1>5, <1>6, <1>7 DEF PartNext

LEMMA DDNextInv == PartInv /\ [DDNext]_ddVars => PartInv'
<1> SUFFICES ASSUME PartInv, [DDNext]_ddVars PROVE PartInv'
  OBVIOUS
<1>1. CASE Partition
  BY <1>1, PartNextInv DEF Partition
<1>2. CASE Cluster
  BY <1>2, OtherPhaseStep DEF Cluster, graphVars, scanVars
<1>3. ASSUME NEW l \in Node, SkipCpu(l) PROVE PartInv'
  BY <1>3, PartNextInv DEF SkipCpu
<1>4. ASSUME NEW l \in Node, FuseSubgraph(l) PROVE PartInv'
  BY <1>4, OtherPhaseStep DEF FuseSubgraph, graphVars, scanVars
<1>5. CASE UNCHANGED ddVars
  BY <1>5, PartNextInv DEF ddVars
<1> QED BY <1>1, <1>2, <1>3, <1>4, <1>5 DEF DDNext, Offload

-----------------------------------------------------------------------------
(* Types, for every finite graph of nodes.                                 *)
THEOREM PartitionTypes == DDSpec => []PartTypeOK
<1>1. DDInit => PartInv
  BY PartInitInv DEF DDInit
<1>2. PartInv => PartTypeOK
  BY DEF PartInv
<1> QED BY <1>1, <1>2, DDNextInv, PTL DEF DDSpec

(* Whatever is fused in whatever order, contracting the subgraphs leaves   *)
(* no cycle, during both loops and while the pass offloads them.           *)
THEOREM PartitionStaysAcyclic == DDSpec => []PartitionAcyclic
<1>1. DDInit => PartInv
  BY PartInitInv DEF DDInit
<1>2. PartInv => PartitionAcyclic
  BY DEF PartInv
<1> QED BY <1>1, <1>2, DDNextInv, PTL DEF DDSpec

(* clusters and labels stay in step, stale sg and fusions taken back       *)
(* included.                                                               *)
THEOREM ClustersStayInStep == DDSpec => []ClustersMatchLabels
<1>1. DDInit => PartInv
  BY PartInitInv DEF DDInit
<1>2. PartInv => ClustersMatchLabels
  BY DEF PartInv, ClustersMatchLabels, Matched, Subgraph
<1> QED BY <1>1, <1>2, DDNextInv, PTL DEF DDSpec

(* No subgraph mixes targets.                                              *)
THEOREM SubgraphsHaveOneTarget == DDSpec => []OneTarget
<1>1. DDInit => PartInv
  BY PartInitInv DEF DDInit
<1>2. PartInv => OneTarget
  BY DEF PartInv
<1> QED BY <1>1, <1>2, DDNextInv, PTL DEF DDSpec

-----------------------------------------------------------------------------
(***************************************************************************)
(* What try_fuse accepts can be fused: the graph stays free of cycles and  *)
(* every value keeps its producer, for every graph and every request. The  *)
(* argument for the cycles: what a body reads from outside is among the    *)
(* named inputs, so it comes from A, the nodes the inputs depend on; A is  *)
(* closed under dependency, and no node of A computes a return value.      *)
(***************************************************************************)
(* What nodes, next index and model args have in common.                   *)
IsGraph(g) ==
  /\ g.node \subseteq Nat /\ g.next \in Nat /\ \A n \in g.node : n < g.next
  /\ WellFormed(g)
  /\ Acyclic(g.node, DataFlow(g))

LEMMA ReachedFacts ==
  ASSUME NEW S, NEW E, NEW N, S \subseteq N
  PROVE  /\ Reached(S, E, N) \subseteq N
         /\ S \subseteq Reached(S, E, N)
         /\ \A m, n \in N : m \in Reached(S, E, N) /\ <<m, n>> \in E => n \in Reached(S, E, N)
<1>1. \A m, n \in N : m \in Reached(S, E, N) /\ <<m, n>> \in E => n \in Reached(S, E, N)
  <2> SUFFICES ASSUME NEW m \in N, NEW n \in N, m \in Reached(S, E, N), <<m, n>> \in E,
                      NEW C \in SUBSET N, S \subseteq C, IsClosed(C, E)
               PROVE  n \in C
    BY DEF Reached
  <2>1. m \in C
    BY DEF Reached
  <2> QED BY <2>1 DEF IsClosed
<1> QED BY <1>1 DEF Reached

(* A node that joined as an island has all it reads computed in the body.  *)
LEMMA IslandsSelfContained ==
  ASSUME NEW g, NEW body, NEW n \in Islands(g, body)
  PROVE  Producers(g, g.in[n]) \subseteq body \cup Islands(g, body)
<1> DEFINE I == Isolated(g) \ body
           J == Islands(g, body)
           F == {i \in I : Joins(g, body, J, i)}
<1>1. J \subseteq I
  BY DEF Islands
<1>2. \A i \in I : Joins(g, body, J, i) => i \in J
  <2> SUFFICES ASSUME NEW i \in I, Joins(g, body, J, i), NEW K \in SUBSET I,
                      \A k \in I : Joins(g, body, K, k) => k \in K
               PROVE  i \in K
    BY DEF Islands
  <2>1. J \subseteq K
    BY DEF Islands
  <2>2. Joins(g, body, K, i)
    BY <2>1 DEF Joins
  <2> QED BY <2>2
<1>3. F \subseteq J
  BY <1>2
<1>4. \A i \in I : Joins(g, body, F, i) => i \in F
  BY <1>3 DEF Joins
<1>5. F \in SUBSET I
  OBVIOUS
<1>6. n \in F
  <2> HIDE DEF F
  <2> QED BY <1>4, <1>5 DEF Islands
<1> QED BY <1>6 DEF Joins

LEMMA BodyInGraph ==
  ASSUME NEW g, NEW ins, NEW outs
  PROVE  SearchedBody(g, ins, outs) \subseteq g.node /\ Body(g, ins, outs) \subseteq g.node
BY DEF SearchedBody, Body, Islands, Isolated, Reached

(* What a body reads and does not compute is named as an input.            *)
LEMMA ArgumentsAreNamed ==
  ASSUME NEW g, IsGraph(g), NEW ins, NEW outs, NEW consts, NEW p \in g.node,
         NEW a \in Arguments(g, Body(g, ins, outs), consts), a \in g.out[p]
  PROVE  p \notin Body(g, ins, outs) /\ a \in ins
<1> DEFINE searched == SearchedBody(g, ins, outs)
           B == Body(g, ins, outs)
<1>1. a \notin g.inputs
  BY DEF IsGraph, WellFormed
<1>2. p \notin B
  BY <1>1 DEF Arguments
<1>3. PICK b \in B : a \in g.in[b]
  BY DEF Arguments, AllInputs
<1>4. b \in g.node /\ searched \subseteq B
  BY BodyInGraph DEF Body
<1>5. CASE b \in searched
  <2>1. SUFFICES ASSUME a \notin ins PROVE FALSE
    BY <1>2
  <2>2. <<p, b>> \in DataFlow(g)
    BY <1>3, <1>4 DEF DataFlow
  <2>3. ~(g.out[p] \cap g.in[b] \subseteq ins)
    BY <1>3, <2>1
  <2>4. <<b, p>> \in Followed(g, ins)
    BY <2>2, <2>3 DEF Followed
  <2>5. Producers(g, outs) \subseteq g.node
    BY DEF Producers
  <2>6. p \in searched
    BY <1>4, <1>5, <2>4, <2>5, ReachedFacts DEF SearchedBody
  <2> QED BY <1>2, <1>4, <2>6
<1>6. CASE b \notin searched
  <2>1. b \in Islands(g, searched)
    BY <1>6 DEF Body
  <2>2. p \in Producers(g, g.in[b])
    BY <1>3 DEF Producers
  <2>3. p \in searched \cup Islands(g, searched)
    BY <2>1, <2>2, IslandsSelfContained
  <2> QED BY <1>2, <2>3 DEF Body
<1> QED BY <1>5, <1>6

(* Every value keeps its one producer.                                     *)
LEMMA FuseKeepsWired ==
  ASSUME NEW g, IsGraph(g), NEW ins, NEW outs, NEW consts
  PROVE  WellFormed(FuseNodes(g, MetaDef(g, ins, outs, consts)))
<1> DEFINE md == MetaDef(g, ins, outs, consts)
           h == FuseNodes(g, md)
           B == Body(g, ins, outs)
           f == g.next
           rest == (g.node \ B) \cup {f}
<1>1. /\ md.nodes = B
      /\ md.inputs = Arguments(g, B, md.constant_initializers)
      /\ md.outputs = ReturnValues(g, B)
  BY DEF MetaDef
<1>2. /\ h.node = rest
      /\ h.in = [n \in rest |-> IF n = f THEN md.inputs ELSE g.in[n]]
      /\ h.out = [n \in rest |-> IF n = f THEN md.outputs ELSE g.out[n]]
      /\ h.inputs = g.inputs /\ h.outputs = g.outputs /\ h.constants = g.constants
  BY <1>1 DEF FuseNodes
<1> HIDE DEF h, md
<1>3. f \notin g.node /\ B \subseteq g.node
  BY BodyInGraph DEF IsGraph
<1>4. /\ \A n \in g.node \ B : n \in rest /\ n # f /\ h.in[n] = g.in[n] /\ h.out[n] = g.out[n]
      /\ f \in rest /\ h.in[f] = md.inputs /\ h.out[f] = md.outputs
  BY <1>2, <1>3
<1>5. \A a \in md.outputs : \E b \in B : a \in g.out[b]
  BY <1>1 DEF ReturnValues
<1>6. /\ \A n \in g.node : g.out[n] \cap (g.inputs \cup g.constants) = {}
      /\ \A m, n \in g.node : m # n => g.out[m] \cap g.out[n] = {}
      /\ \A n \in g.node : \A a \in g.in[n] :
           a \in g.inputs \cup g.constants \/ \E m \in g.node : a \in g.out[m]
      /\ \A a \in g.outputs : \E m \in g.node : a \in g.out[m]
  BY DEF IsGraph, WellFormed
<1>7. \A n \in rest : h.out[n] \cap (h.inputs \cup h.constants) = {}
  BY <1>2, <1>3, <1>4, <1>5, <1>6
<1>8. \A m, n \in rest : m # n => h.out[m] \cap h.out[n] = {}
  <2> SUFFICES ASSUME NEW m \in rest, NEW n \in rest, m # n, n # f,
                      NEW a \in h.out[m], a \in h.out[n]
               PROVE  FALSE
    OBVIOUS
  <2>1. n \in g.node \ B /\ a \in g.out[n]
    BY <1>4
  <2>2. CASE m = f
    BY <1>3, <1>4, <1>5, <1>6, <2>1, <2>2
  <2>3. CASE m # f
    BY <1>4, <1>6, <2>1, <2>3
  <2> QED BY <2>2, <2>3
(* A value of the body that somebody outside needs is returned.            *)
<1>9. \A a : \A m \in g.node : /\ a \in g.out[m]
                               /\ a \in g.outputs \/ \E n \in g.node \ B : a \in g.in[n]
        => \E k \in rest : a \in h.out[k]
  <2> SUFFICES ASSUME NEW a, NEW m \in g.node, a \in g.out[m],
                      a \in g.outputs \/ \E n \in g.node \ B : a \in g.in[n]
               PROVE  \E k \in rest : a \in h.out[k]
    OBVIOUS
  <2>1. CASE m \in B
    <3>1. a \in md.outputs
      BY <1>1, <2>1 DEF ReturnValues, Consumers
    <3> QED BY <1>4, <3>1
  <2>2. CASE m \notin B
    BY <1>4, <2>2
  <2> QED BY <2>1, <2>2
<1>10. \A n \in rest : \A a \in h.in[n] :
         a \in h.inputs \cup h.constants \/ \E k \in rest : a \in h.out[k]
  <2> SUFFICES ASSUME NEW n \in rest, NEW a \in h.in[n], a \notin h.inputs \cup h.constants
               PROVE  \E k \in rest : a \in h.out[k]
    OBVIOUS
  <2>1. CASE n = f
    <3>1. a \in Arguments(g, B, md.constant_initializers)
      BY <1>1, <1>4, <2>1
    <3>2. PICK b \in B : a \in g.in[b]
      BY <3>1 DEF Arguments, AllInputs
    <3>3. PICK m \in g.node : a \in g.out[m]
      BY <1>2, <1>3, <1>6, <3>2
    <3>4. m \notin B
      BY <3>1, <3>3, ArgumentsAreNamed
    <3> QED BY <1>4, <3>3, <3>4
  <2>2. CASE n # f
    <3>1. n \in g.node \ B /\ a \in g.in[n]
      BY <1>4, <2>2
    <3>2. PICK m \in g.node : a \in g.out[m]
      BY <1>2, <1>6, <3>1
    <3> QED BY <1>9, <3>1, <3>2
  <2> QED BY <2>1, <2>2
<1>11. \A a \in h.outputs : \E k \in rest : a \in h.out[k]
  BY <1>2, <1>6, <1>9
<1>12. WellFormed(h)
  <2>1. \A n \in h.node : h.out[n] \cap (h.inputs \cup h.constants) = {}
    BY <1>2, <1>7
  <2>2. \A m, n \in h.node : m # n => h.out[m] \cap h.out[n] = {}
    BY <1>2, <1>8
  <2>3. \A n \in h.node :
          h.in[n] \subseteq h.inputs \cup h.constants \cup UNION {h.out[m] : m \in h.node}
    BY <1>2, <1>10
  <2>4. h.outputs \subseteq UNION {h.out[m] : m \in h.node}
    BY <1>2, <1>11
  <2> QED BY <2>1, <2>2, <2>3, <2>4 DEF WellFormed
<1> QED BY <1>12 DEF h, md

(* No cycle through the new node.                                          *)
LEMMA FuseKeepsAcyclic ==
  ASSUME NEW g, IsGraph(g), NEW ins, NEW outs, NEW consts, CanFuse(g, ins, outs)
  PROVE  LET h == FuseNodes(g, MetaDef(g, ins, outs, consts))
         IN  Acyclic(h.node, DataFlow(h))
<1> DEFINE md == MetaDef(g, ins, outs, consts)
           h == FuseNodes(g, md)
           B == Body(g, ins, outs)
           f == g.next
           rest == (g.node \ B) \cup {f}
           A == Reached(Producers(g, ins), Reversed(DataFlow(g)), g.node)
<1>1. /\ md.nodes = B
      /\ md.inputs = Arguments(g, B, md.constant_initializers)
      /\ md.outputs = ReturnValues(g, B)
  BY DEF MetaDef
<1>2. /\ h.node = rest
      /\ h.in = [n \in rest |-> IF n = f THEN md.inputs ELSE g.in[n]]
      /\ h.out = [n \in rest |-> IF n = f THEN md.outputs ELSE g.out[n]]
  BY <1>1 DEF FuseNodes
<1> HIDE DEF h, md
<1>3. f \notin g.node /\ B \subseteq g.node
  BY BodyInGraph DEF IsGraph
<1>4. /\ \A n \in g.node \ B : n \in rest /\ n # f /\ h.in[n] = g.in[n] /\ h.out[n] = g.out[n]
      /\ f \in rest /\ h.in[f] = md.inputs /\ h.out[f] = md.outputs
  BY <1>2, <1>3
<1>5. A \cap Producers(g, md.outputs) = {}
  BY <1>1 DEF CanFuse, LoopDetected
<1>6. /\ Producers(g, ins) \subseteq A /\ A \subseteq g.node
      /\ \A m, n \in g.node : n \in A /\ <<m, n>> \in DataFlow(g) => m \in A
  <2>1. Producers(g, ins) \subseteq g.node
    BY DEF Producers
  <2>2. \A m, n \in g.node : <<m, n>> \in DataFlow(g) => <<n, m>> \in Reversed(DataFlow(g))
    BY DEF Reversed
  <2>3. /\ A \subseteq g.node /\ Producers(g, ins) \subseteq A
        /\ \A n, m \in g.node : n \in A /\ <<n, m>> \in Reversed(DataFlow(g)) => m \in A
    BY <2>1, ReachedFacts
  <2> HIDE DEF A
  <2> QED BY <2>2, <2>3
<1> HIDE DEF A
<1>7. \A m, n \in g.node \ B : <<m, n>> \in DataFlow(h) => <<m, n>> \in DataFlow(g)
  BY <1>2, <1>4 DEF DataFlow
<1>8. \A m \in rest : <<m, f>> \in DataFlow(h) => m \in A /\ m # f
  <2> SUFFICES ASSUME NEW m \in rest, <<m, f>> \in DataFlow(h)
               PROVE  m \in A /\ m # f
    OBVIOUS
  <2>1. PICK a : a \in h.out[m] /\ a \in md.inputs
    BY <1>2, <1>4 DEF DataFlow
  <2>2. m # f
    <3>1. SUFFICES ASSUME m = f PROVE FALSE
      OBVIOUS
    <3>2. PICK b \in B : a \in g.out[b]
      BY <1>1, <1>4, <2>1, <3>1 DEF ReturnValues
    <3> QED BY <1>1, <1>3, <2>1, <3>2, ArgumentsAreNamed
  <2>3. m \in g.node /\ a \in g.out[m]
    BY <1>4, <2>1, <2>2
  <2>4. a \in ins
    BY <1>1, <2>1, <2>3, ArgumentsAreNamed
  <2>5. m \in A
    BY <1>6, <2>3, <2>4 DEF Producers
  <2> QED BY <2>2, <2>5
<1>9. \A n \in g.node \ B : <<f, n>> \in DataFlow(h) => n \notin A
  <2> SUFFICES ASSUME NEW n \in g.node \ B, <<f, n>> \in DataFlow(h), n \in A
               PROVE  FALSE
    OBVIOUS
  <2>1. PICK a : a \in md.outputs /\ a \in g.in[n]
    BY <1>2, <1>4 DEF DataFlow
  <2>2. PICK b \in B : a \in g.out[b]
    BY <1>1, <2>1 DEF ReturnValues
  <2>3. <<b, n>> \in DataFlow(g) /\ b \in Producers(g, md.outputs)
    BY <1>3, <2>1, <2>2 DEF DataFlow, Producers
  <2>4. b \in A
    BY <1>3, <1>6, <2>3
  <2> QED BY <1>5, <2>3, <2>4
<1>10. SUFFICES ASSUME NEW S \in SUBSET rest, S # {},
                       \A n \in S : \E m \in S : <<m, n>> \in DataFlow(h)
                PROVE  FALSE
  BY <1>2 DEF Acyclic, h, md
<1>11. Acyclic(g.node, DataFlow(g))
  BY DEF IsGraph
<1>12. CASE f \notin S
  <2>1. S \in SUBSET g.node /\ S \subseteq g.node \ B
    BY <1>12
  <2>2. \A n \in S : \E m \in S : <<m, n>> \in DataFlow(g)
    BY <1>7, <1>10, <2>1
  <2> QED BY <1>10, <1>11, <2>1, <2>2 DEF Acyclic
<1>13. CASE f \in S
  <2> DEFINE T == S \cap A
  <2>1. T # {} /\ T \in SUBSET g.node /\ f \notin T
    BY <1>3, <1>6, <1>8, <1>10, <1>13
  <2>2. \A n \in T : \E m \in T : <<m, n>> \in DataFlow(g)
    <3> SUFFICES ASSUME NEW n \in T PROVE \E m \in T : <<m, n>> \in DataFlow(g)
      OBVIOUS
    <3>1. PICK m \in S : <<m, n>> \in DataFlow(h)
      BY <1>10
    <3>2. n \in g.node \ B
      BY <2>1
    <3>3. m # f
      BY <1>9, <3>1, <3>2
    <3>4. m \in g.node \ B
      BY <3>3
    <3>5. <<m, n>> \in DataFlow(g)
      BY <1>7, <3>1, <3>2, <3>4
    <3> QED BY <1>6, <3>2, <3>4, <3>5
  <2> HIDE DEF T
  <2> QED BY <1>11, <2>1, <2>2 DEF Acyclic
<1> QED BY <1>12, <1>13

LEMMA FuseKeepsGraph ==
  ASSUME NEW g, IsGraph(g), NEW ins, NEW outs, NEW consts, CanFuse(g, ins, outs)
  PROVE  IsGraph(FuseNodes(g, MetaDef(g, ins, outs, consts)))
<1> DEFINE h == FuseNodes(g, MetaDef(g, ins, outs, consts))
<1>1. h.node \subseteq g.node \cup {g.next} /\ h.next = g.next + 1
  BY DEF FuseNodes
<1>2. h.node \subseteq Nat /\ h.next \in Nat /\ \A n \in h.node : n < h.next
  BY <1>1 DEF IsGraph
<1> QED BY <1>2, FuseKeepsWired, FuseKeepsAcyclic DEF IsGraph

-----------------------------------------------------------------------------
LEMMA CloneIsGraph ==
  ASSUME PartInv, NEW outputs \in SUBSET Node
  PROVE  IsGraph(CloneOf(Node, outputs))
<1> DEFINE g == CloneOf(Node, outputs)
<1>1. /\ g.node = Node /\ g.inputs = {Input} /\ g.constants = {Weight} /\ g.outputs = outputs
      /\ g.next = FirstFree
      /\ \A n \in Node : g.in[n] = Reads(n) /\ g.out[n] = {n}
  BY DEF CloneOf
<1> HIDE DEF g
<1>2. \A n \in Node : Reads(n) \subseteq Node \cup {Input, Weight}
  BY DEF Reads, Parents
<1>3. WellFormed(g)
  <2>1. \A n \in g.node : g.out[n] \cap (g.inputs \cup g.constants) = {}
    BY <1>1, ArgAssumption
  <2>2. \A m, n \in g.node : m # n => g.out[m] \cap g.out[n] = {}
    BY <1>1
  <2>3. \A n \in Node : n \in UNION {g.out[m] : m \in g.node}
    BY <1>1
  <2>4. \A n \in g.node :
          g.in[n] \subseteq g.inputs \cup g.constants \cup UNION {g.out[m] : m \in g.node}
    BY <1>1, <1>2, <2>3
  <2>5. g.outputs \subseteq UNION {g.out[m] : m \in g.node}
    BY <1>1, <2>3
  <2> QED BY <2>1, <2>2, <2>4, <2>5 DEF WellFormed
<1>4. DataFlow(g) \subseteq edges
  <2> SUFFICES ASSUME NEW m \in Node, NEW n \in Node, m \in Reads(n)
               PROVE  <<m, n>> \in edges
    BY <1>1 DEF DataFlow
  <2>1. m # Input /\ m # Weight
    BY ArgAssumption
  <2> QED BY <2>1 DEF Reads, Parents
<1>5. Acyclic(g.node, DataFlow(g))
  BY <1>1, <1>4 DEF PartInv, Acyclic
<1>6. g.node \subseteq Nat /\ g.next \in Nat /\ \A n \in g.node : n < g.next
  BY <1>1, NodeAssumption, ArgAssumption
<1>7. IsGraph(g)
  BY <1>3, <1>5, <1>6 DEF IsGraph
<1> QED BY <1>7 DEF g

(* A node that nobody reads does no harm.                                  *)
LEMMA DeadReaderIsGraph ==
  ASSUME PartInv, NEW outputs \in SUBSET Node, NEW args \in SUBSET DeadReads
  PROVE  IsGraph(WithDeadReader(CloneOf(Node, outputs), args))
<1> DEFINE g == CloneOf(Node, outputs)
           h == WithDeadReader(g, args)
           all == Node \cup {FirstFree}
<1>1. IsGraph(g)
  BY CloneIsGraph
<1>2. CASE args = {}
  BY <1>1, <1>2 DEF WithDeadReader
<1>3. CASE args # {}
  <2>1. /\ g.node = Node /\ g.inputs = {Input} /\ g.constants = {Weight} /\ g.outputs = outputs
        /\ g.next = FirstFree
        /\ \A n \in Node : g.in[n] = Reads(n) /\ g.out[n] = {n}
    BY DEF CloneOf
  <2> HIDE DEF g
  <2>2. /\ h.node = all /\ h.inputs = {Input} /\ h.constants = {Weight} /\ h.outputs = outputs
        /\ h.next = FirstFree + 1
        /\ \A n \in all : h.in[n] = (IF n = FirstFree THEN args ELSE g.in[n]) /\ h.out[n] = {n}
    BY <1>3, <2>1 DEF WithDeadReader
  <2> HIDE DEF h
  <2>3. FirstFree \notin Node /\ args \subseteq Node \cup {Input}
    BY NodeAssumption, ArgAssumption
  <2>4. \A n \in Node : Reads(n) \subseteq Node \cup {Input, Weight}
    BY DEF Reads, Parents
  <2>5. WellFormed(h)
    <3>1. \A n \in h.node : h.out[n] \cap (h.inputs \cup h.constants) = {}
      BY <2>2, ArgAssumption
    <3>2. \A m, n \in h.node : m # n => h.out[m] \cap h.out[n] = {}
      BY <2>2
    <3>3. \A n \in all : n \in UNION {h.out[m] : m \in h.node}
      BY <2>2
    <3>4. \A n \in h.node : h.in[n] \subseteq Node \cup {Input, Weight}
      BY <2>1, <2>2, <2>3, <2>4
    <3>5. \A n \in h.node :
            h.in[n] \subseteq h.inputs \cup h.constants \cup UNION {h.out[m] : m \in h.node}
      BY <2>2, <3>3, <3>4
    <3>6. h.outputs \subseteq UNION {h.out[m] : m \in h.node}
      BY <2>2, <3>3
    <3> QED BY <3>1, <3>2, <3>5, <3>6 DEF WellFormed
  <2>6. \A m, n \in all : <<m, n>> \in DataFlow(h) =>
          m \in Node /\ (n \in Node => <<m, n>> \in DataFlow(g))
    <3> SUFFICES ASSUME NEW m \in all, NEW n \in all, <<m, n>> \in DataFlow(h)
                 PROVE  m \in Node /\ (n \in Node => <<m, n>> \in DataFlow(g))
      OBVIOUS
    <3>0. m \in h.in[n]
      BY <2>2 DEF DataFlow
    <3>1. m # Input /\ m # Weight
      BY ArgAssumption
    <3>2. m \in Node
      BY <2>1, <2>2, <2>3, <2>4, <3>0, <3>1
    <3> QED BY <2>1, <2>2, <2>3, <3>0, <3>2 DEF DataFlow
  <2>7. Acyclic(h.node, DataFlow(h))
    <3> SUFFICES ASSUME NEW S \in SUBSET all, S # {}
                 PROVE  \E n \in S : \A m \in S : <<m, n>> \notin DataFlow(h)
      BY <2>2 DEF Acyclic
    <3>1. CASE S \cap Node = {}
      BY <2>6, <3>1
    <3>2. CASE S \cap Node # {}
      <4>1. PICK n \in S \cap Node : \A m \in S \cap Node : <<m, n>> \notin DataFlow(g)
        BY <1>1, <2>1, <3>2 DEF IsGraph, Acyclic
      <4> QED BY <2>6, <4>1
    <3> QED BY <3>1, <3>2
  <2>8. h.node \subseteq Nat /\ h.next \in Nat /\ \A n \in h.node : n < h.next
    <3>1. \A n \in all : n \in Nat /\ n <= FirstFree
      BY NodeAssumption, ArgAssumption
    <3> QED BY <2>2, <3>1, ArgAssumption
  <2>9. IsGraph(h)
    BY <2>5, <2>7, <2>8 DEF IsGraph
  <2> QED BY <2>9 DEF h, g
<1> QED BY <1>2, <1>3

LEMMA InitGraph == DDInit => IsGraph(graph)
<1> SUFFICES ASSUME DDInit PROVE IsGraph(graph)
  OBVIOUS
<1>1. graph.node = {} /\ graph.outputs = {} /\ graph.next \in Nat
  BY ArgAssumption DEF DDInit, NoNodes, CloneOf
<1>2. WellFormed(graph) /\ Acyclic(graph.node, DataFlow(graph))
  BY <1>1 DEF WellFormed, Acyclic
<1> QED BY <1>1, <1>2 DEF IsGraph

LEMMA NextGraph == PartInv /\ IsGraph(graph) /\ [DDNext]_ddVars => IsGraph(graph')
<1> SUFFICES ASSUME PartInv, IsGraph(graph), [DDNext]_ddVars PROVE IsGraph(graph')
  OBVIOUS
<1>1. CASE UNCHANGED graph
  BY <1>1
<1>2. CASE Cluster
  <2>1. PICK more \in SUBSET (Node \ Sinks), dead \in SUBSET DeadReads :
          graph' = WithDeadReader(CloneOf(Node, Sinks \cup more), dead)
    BY <1>2 DEF Cluster
  <2>2. Sinks \cup more \subseteq Node
    BY DEF Sinks
  <2> QED BY <2>1, <2>2, DeadReaderIsGraph
<1>3. ASSUME NEW l \in Node, FuseSubgraph(l), graph' # graph PROVE IsGraph(graph')
  <2> DEFINE ins == SubgraphInputs(l)
             outs == SubgraphOutputs(l)
  <2>1. Fusable(ins, outs) /\ Fuse(MetaDef(graph, ins, outs, {}))
    BY <1>3 DEF FuseSubgraph, fuseVars
  <2>2. CanFuse(graph, ins, outs) /\ graph' = FuseNodes(graph, MetaDef(graph, ins, outs, {}))
    BY <2>1 DEF Fusable, TryFuseFinds, Fuse
  <2> HIDE DEF ins, outs
  <2> QED BY <2>2, FuseKeepsGraph
<1> QED BY <1>1, <1>2, <1>3
     DEF DDNext, Offload, Partition, SkipCpu, fuseVars, ddVars

-----------------------------------------------------------------------------
DDInv == PartInv /\ IsGraph(graph)

LEMMA DDInvariant == DDSpec => []DDInv
<1>1. DDInit => DDInv
  BY PartInitInv, InitGraph DEF DDInit, DDInv
<1>2. DDInv /\ [DDNext]_ddVars => DDInv'
  BY DDNextInv, NextGraph DEF DDInv
<1> QED BY <1>1, <1>2, PTL DEF DDSpec

(* No fusion closes a cycle in the model, for every graph and partition.   *)
THEOREM ModelAcyclic == DDSpec => []ModelStaysAcyclic
<1>1. DDInv => ModelStaysAcyclic
  BY DEF DDInv, IsGraph, ModelStaysAcyclic
<1> QED BY <1>1, DDInvariant, PTL

(* No fusion loses or duplicates the producer of a value.                  *)
THEOREM ModelWired == DDSpec => []ModelStaysWired
<1>1. DDInv => ModelStaysWired
  BY DEF DDInv, IsGraph, ModelStaysWired
<1> QED BY <1>1, DDInvariant, PTL
-----------------------------------------------------------------------------
(***************************************************************************)
(* Every subgraph of the partition can be fused, and is, once. Which nodes *)
(* the model has while the pass works on it follows from the subgraphs     *)
(* offloaded so far: a node stands for each of them, which computes what   *)
(* the others need of it and reads what it needs of them; the other nodes  *)
(* are as in the clone; nodes that nobody needs may be left. The search of *)
(* try_fuse then finds exactly the subgraph, and that it is no ancestor of *)
(* itself is PartitionAcyclic.                                             *)
(***************************************************************************)
Offloaded == {labels[n] : n \in {n \in Node : property[n] = "AIE"}} \ clusters_to_fuse

BoundaryReads(l) ==
  {a \in Node : labels[a] # l /\ \E n \in Subgraph(l) : <<a, n>> \in edges}

StandsFor(g, x, l) ==
  /\ SubgraphOutputs(l) \subseteq g.out[x] /\ g.out[x] \subseteq Subgraph(l)
  /\ g.in[x] \ {Input} = BoundaryReads(l)

NobodyNeeds(g, x) == g.out[x] = {x} /\ g.in[x] \subseteq Node \cup {Input}

Shaped(g, O) ==
  /\ g.inputs = {Input} /\ g.constants = {Weight} /\ g.outputs = clone.outputs
  /\ FirstFree <= g.next
  /\ \A n \in Node : n \in g.node <=> labels[n] \notin O
  /\ \A n \in Node \cap g.node : g.in[n] = Reads(n) /\ g.out[n] = {n}
  /\ \A x \in g.node \ Node : NobodyNeeds(g, x) \/ \E l \in O : StandsFor(g, x, l)
  /\ \A l \in O : \E x \in g.node \ Node : StandsFor(g, x, l)

CloneInv ==
  /\ Sinks \subseteq clone.outputs /\ clone.outputs \subseteq Node
  /\ clone = CloneOf(Node, clone.outputs)

(* The edges of the model go forward in the order, so every set of nodes   *)
(* has one that reads into no other of them.                               *)
LEMMA LastOfSet ==
  ASSUME PartInv, NEW S \in SUBSET Node, S # {}
  PROVE  \E n \in S : \A m \in S : <<n, m>> \notin edges
<1>1. /\ order \in Seq(Node) /\ {order[i] : i \in DOMAIN order} = Node
      /\ \A i, j \in DOMAIN order : <<order[i], order[j]>> \in edges => i < j
  BY DEF PartInv, PartTypeOK, TopologicalOrder
<1>2. Len(order) \in Nat /\ DOMAIN order = 1..Len(order)
  BY <1>1
<1> DEFINE D == {Len(order) - i : i \in {i \in DOMAIN order : order[i] \in S}}
<1>3. D \subseteq Nat
  BY <1>2
<1>4. PICK s \in S : TRUE
  OBVIOUS
<1>5. PICK i \in DOMAIN order : order[i] = s
  BY <1>1, <1>4
<1>6. Len(order) - i \in D
  BY <1>5
<1>7. PICK d \in D : \A c \in D : d <= c
  <2> HIDE DEF D
  <2> QED BY <1>3, <1>6, Smallest
<1>8. PICK k \in DOMAIN order : order[k] \in S /\ d = Len(order) - k
  BY <1>7
<1>9. \A m \in S : <<order[k], m>> \notin edges
  <2> SUFFICES ASSUME NEW m \in S, <<order[k], m>> \in edges
               PROVE  FALSE
    OBVIOUS
  <2>1. PICK j \in DOMAIN order : order[j] = m
    BY <1>1
  <2>2. k < j
    BY <1>1, <1>8, <2>1
  <2>3. Len(order) - j \in D
    BY <2>1
  <2>4. Len(order) - k <= Len(order) - j
    BY <1>7, <1>8, <2>3
  <2> QED BY <1>2, <1>8, <2>1, <2>2, <2>4
<1> QED BY <1>8, <1>9

(* No node is among its own strict ancestors.                              *)
LEMMA NoReturn ==
  ASSUME NEW N, NEW E \in SUBSET (N \X N), Acyclic(N, E), NEW l \in N
  PROVE  l \notin Reached({k \in N : <<k, l>> \in E}, Reversed(E), N)
<1> DEFINE P == {k \in N : <<k, l>> \in E}
           T == Reached(P, Reversed(E), N)
           F == Reached({l}, E, N)
           X == F \cap T
<1>1. SUFFICES ASSUME l \in T
               PROVE  FALSE
  OBVIOUS
<1>2. P \subseteq N
  OBVIOUS
<1>3. /\ T \subseteq N /\ P \subseteq T
      /\ \A n, m \in N : n \in T /\ <<m, n>> \in E => m \in T
  <2> HIDE DEF P
  <2>1. /\ T \subseteq N /\ P \subseteq T
        /\ \A n, m \in N : n \in T /\ <<n, m>> \in Reversed(E) => m \in T
    BY <1>2, ReachedFacts
  <2>2. \A m, n \in N : <<m, n>> \in E => <<n, m>> \in Reversed(E)
    BY DEF Reversed
  <2> HIDE DEF T
  <2> QED BY <2>1, <2>2
<1>4. /\ F \subseteq N /\ l \in F
      /\ \A m, n \in N : m \in F /\ <<m, n>> \in E => n \in F
  <2>1. {l} \subseteq N
    OBVIOUS
  <2>2. /\ F \subseteq N /\ {l} \subseteq F
        /\ \A m, n \in N : m \in F /\ <<m, n>> \in E => n \in F
    BY <2>1, ReachedFacts
  <2> QED BY <2>2
<1>5. \A C \in SUBSET N : P \subseteq C /\ IsClosed(C, Reversed(E)) => T \subseteq C
  <2> HIDE DEF P
  <2> QED BY DEF Reached
<1>6. \A C \in SUBSET N : l \in C /\ IsClosed(C, E) => F \subseteq C
  BY DEF Reached
<1> HIDE DEF T, F
<1>7. PICK n \in X : \A m \in X : <<m, n>> \notin E
  <2>1. X \in SUBSET N /\ X # {}
    BY <1>1, <1>3, <1>4
  <2> HIDE DEF X
  <2> QED BY <2>1 DEF Acyclic
(* Without what l leads to, the ancestors of l would still be closed.      *)
<1>8. CASE n = l
  <2> DEFINE C == T \ F
  <2>1. C \in SUBSET N /\ P \subseteq C
    BY <1>3, <1>7, <1>8
  <2>2. IsClosed(C, Reversed(E))
    <3> SUFFICES ASSUME NEW e \in E, e[2] \in C
                 PROVE  e[1] \in C
      BY DEF IsClosed, Reversed
    <3>1. e[1] \in N /\ e[2] \in N /\ <<e[1], e[2]>> \in E
      OBVIOUS
    <3> QED BY <1>3, <1>4, <3>1
  <2>3. T \subseteq C
    <3> HIDE DEF C, P
    <3> QED BY <1>5, <2>1, <2>2
  <2> QED BY <1>1, <1>4, <2>3
(* Without n, what l leads to would still be closed.                       *)
<1>9. CASE n # l
  <2> DEFINE C == F \ {n}
  <2>1. C \in SUBSET N /\ l \in C
    BY <1>4, <1>9
  <2>2. IsClosed(C, E)
    <3> SUFFICES ASSUME NEW e \in E, e[1] \in C
                 PROVE  e[2] \in C
      BY DEF IsClosed
    <3>1. e[1] \in N /\ e[2] \in N /\ <<e[1], e[2]>> \in E
      OBVIOUS
    <3>2. e[2] \in F
      BY <1>4, <3>1
    <3>3. e[2] # n
      BY <1>3, <1>7, <3>1
    <3> QED BY <3>2, <3>3
  <2>3. F \subseteq C
    <3> HIDE DEF C
    <3> QED BY <1>6, <2>1, <2>2
  <2> QED BY <1>7, <2>3
<1> QED BY <1>8, <1>9

(* The boundary of a subgraph, as it is read from the clone.               *)
LEMMA Boundary ==
  ASSUME PartInv, CloneInv, NEW l \in Node
  PROVE  /\ SubgraphOutputs(l) = {a \in Subgraph(l) :
              a \in clone.outputs \/ \E c \in Node \ Subgraph(l) : <<a, c>> \in edges}
         /\ SubgraphInputs(l) = BoundaryReads(l) \cup
              {a \in {Input} : \E n \in Subgraph(l) : Input \in Reads(n)}
<1> DEFINE B == Subgraph(l)
<1>1. /\ clone.node = Node /\ clone.inputs = {Input} /\ clone.constants = {Weight}
      /\ \A n \in Node : clone.in[n] = Reads(n) /\ clone.out[n] = {n}
  BY DEF CloneInv, CloneOf
<1>2. B \subseteq Node
  BY DEF Subgraph
<1>3. \A n \in Node : Reads(n) \subseteq Node \cup {Input, Weight}
  BY DEF Reads, Parents
<1>4. \A a, n \in Node : a \in Reads(n) <=> <<a, n>> \in edges
  BY ArgAssumption DEF Reads, Parents, InputNodes
<1>5. Input \notin Node /\ Weight \notin Node /\ Input # Weight
  BY ArgAssumption
<1>6. \A a \in Node : /\ Producers(clone, {a}) = {a}
                     /\ Consumers(clone, a) = {c \in Node : <<a, c>> \in edges}
  BY <1>1, <1>4 DEF Producers, Consumers
<1>7. UNION {clone.out[n] : n \in B} = B
  BY <1>1, <1>2
<1>8. \A a : a \in AllInputs(clone, B) <=> \E n \in B : a \in Reads(n)
  BY <1>1, <1>2 DEF AllInputs
<1>9. SubgraphOutputs(l) = {a \in B : a \in clone.outputs \/ \E c \in Node \ B : <<a, c>> \in edges}
  BY <1>2, <1>6, <1>7 DEF SubgraphOutputs, extract_subgraph_outputs
<1>10. \A a \in Node : a \in SubgraphInputs(l) <=> a \in BoundaryReads(l)
  <2> SUFFICES ASSUME NEW a \in Node
               PROVE  a \in SubgraphInputs(l) <=> a \in BoundaryReads(l)
    OBVIOUS
  <2>1. a \in SubgraphInputs(l) <=> a \in AllInputs(clone, B) /\ a \notin B
    BY <1>1, <1>5, <1>6 DEF SubgraphInputs, extract_subgraph_inputs
  <2>2. a \in AllInputs(clone, B) <=> \E n \in B : <<a, n>> \in edges
    BY <1>2, <1>4, <1>8
  <2> QED BY <2>1, <2>2 DEF BoundaryReads, Subgraph
<1>11. Weight \notin SubgraphInputs(l)
  BY <1>1 DEF SubgraphInputs, extract_subgraph_inputs
<1>12. Input \in SubgraphInputs(l) <=> \E n \in B : Input \in Reads(n)
  BY <1>1, <1>5, <1>8 DEF SubgraphInputs, extract_subgraph_inputs
<1>13. SubgraphInputs(l) \subseteq Node \cup {Input, Weight}
  BY <1>2, <1>3, <1>8 DEF SubgraphInputs, extract_subgraph_inputs
<1>14. BoundaryReads(l) \subseteq Node
  BY DEF BoundaryReads
<1> QED BY <1>5, <1>9, <1>10, <1>11, <1>12, <1>13, <1>14

(* Inside a subgraph every node leads to one of its outputs.               *)
LEMMA LeadsToOutputs ==
  ASSUME PartInv, CloneInv, NEW l \in Node, NEW D \in SUBSET Subgraph(l),
         SubgraphOutputs(l) \subseteq D,
         \A m, n \in Subgraph(l) : n \in D /\ <<m, n>> \in edges => m \in D
  PROVE  D = Subgraph(l)
<1> DEFINE S == Subgraph(l) \ D
<1>1. SUFFICES ASSUME S # {}
               PROVE  FALSE
  OBVIOUS
<1>2. S \in SUBSET Node
  BY DEF Subgraph
<1>3. PICK n \in S : \A m \in S : <<n, m>> \notin edges
  <2> HIDE DEF S
  <2> QED BY <1>1, <1>2, LastOfSet
<1>4. n \notin clone.outputs /\ \A c \in Node : <<n, c>> \in edges => c \in Subgraph(l)
  BY Boundary
<1>5. n \notin Sinks
  BY <1>4 DEF CloneInv
<1>6. PICK c \in Node : <<n, c>> \in edges
  BY <1>2, <1>5 DEF Sinks, Children
<1> QED BY <1>3, <1>4, <1>6

-----------------------------------------------------------------------------
(* What a graph has instead of the nodes of the clone.                     *)
LEMMA ShapedFacts ==
  ASSUME PartInv, CloneInv, NEW g, IsGraph(g), NEW O \in SUBSET Node, Shaped(g, O)
  PROVE  /\ \A x \in g.node : Weight \notin g.out[x] /\ Input \notin g.out[x]
         /\ \A x, y \in g.node : x # y => g.out[x] \cap g.out[y] = {}
         /\ \A n \in Node : labels[n] \notin O =>
              n \in g.node /\ g.in[n] = Reads(n) /\ g.out[n] = {n}
         /\ \A n \in Node \cap g.node : labels[n] \notin O
         /\ \A a \in Node, x \in g.node : a \in g.out[x] =>
              \/ x = a /\ labels[a] \notin O
              \/ x \notin Node /\ labels[a] \in O /\ StandsFor(g, x, labels[a])
         /\ \A x \in g.node : g.in[x] \subseteq Node \cup {Input, Weight}
<1>1. /\ \A x \in g.node : Weight \notin g.out[x] /\ Input \notin g.out[x]
      /\ \A x, y \in g.node : x # y => g.out[x] \cap g.out[y] = {}
  BY DEF IsGraph, WellFormed, Shaped
<1>2. /\ \A n \in Node : labels[n] \notin O =>
              n \in g.node /\ g.in[n] = Reads(n) /\ g.out[n] = {n}
      /\ \A n \in Node \cap g.node : labels[n] \notin O
      /\ \A x \in g.node \ Node : NobodyNeeds(g, x) \/ \E l \in O : StandsFor(g, x, l)
  BY DEF Shaped
<1>3. ASSUME NEW a \in Node, NEW x \in g.node, a \in g.out[x]
      PROVE  \/ x = a /\ labels[a] \notin O
             \/ x \notin Node /\ labels[a] \in O /\ StandsFor(g, x, labels[a])
  <2>1. CASE x \in Node
    BY <1>2, <1>3, <2>1
  <2>2. CASE x \notin Node
    <3>1. ~NobodyNeeds(g, x)
      BY <1>3, <2>2 DEF NobodyNeeds
    <3>2. PICK l \in O : StandsFor(g, x, l)
      BY <1>2, <2>2, <3>1
    <3>3. labels[a] = l
      BY <1>3, <3>2 DEF StandsFor, Subgraph
    <3> QED BY <2>2, <3>2, <3>3
  <2> QED BY <2>1, <2>2
<1>4. ASSUME NEW x \in g.node
      PROVE  g.in[x] \subseteq Node \cup {Input, Weight}
  <2>1. CASE x \in Node
    <3>1. g.in[x] = Reads(x)
      BY <1>2, <2>1
    <3> QED BY <3>1 DEF Reads, Parents
  <2>2. CASE x \notin Node
    <3>1. CASE NobodyNeeds(g, x)
      BY <3>1 DEF NobodyNeeds
    <3>2. CASE \E l \in O : StandsFor(g, x, l)
      BY <3>2 DEF StandsFor, BoundaryReads
    <3> QED BY <1>2, <2>2, <3>1, <3>2
  <2> QED BY <2>1, <2>2
<1> QED BY <1>1, <1>2, <1>3, <1>4

(* A value that is read across subgraphs, or by a node that still has its  *)
(* own node, is computed by the node of its subgraph and read by that of   *)
(* the reader.                                                             *)
LEMMA Producer ==
  ASSUME PartInv, CloneInv, NEW g, IsGraph(g), NEW O \in SUBSET Node, Shaped(g, O),
         NEW a \in Node,
         \/ labels[a] \notin O
         \/ a \in clone.outputs
         \/ \E c \in Node : <<a, c>> \in edges /\ labels[c] # labels[a]
  PROVE  \E x \in g.node : a \in g.out[x]
<1>1. CASE labels[a] \notin O
  BY <1>1, ShapedFacts
<1>2. CASE labels[a] \in O
  <2> DEFINE l == labels[a]
  <2>1. PICK x \in g.node : StandsFor(g, x, l)
    BY <1>2 DEF Shaped
  <2>2. a \in SubgraphOutputs(l)
    BY <1>2, Boundary DEF Subgraph
  <2> QED BY <2>1, <2>2 DEF StandsFor
<1> QED BY <1>1, <1>2

LEMMA Reader ==
  ASSUME PartInv, CloneInv, NEW g, IsGraph(g), NEW O \in SUBSET Node, Shaped(g, O),
         NEW a \in Node, NEW c \in Node, <<a, c>> \in edges
  PROVE  /\ c \in g.node => a \in g.in[c]
         /\ \A y \in g.node :
              labels[a] # labels[c] /\ StandsFor(g, y, labels[c]) => a \in g.in[y]
<1>1. ASSUME c \in g.node
      PROVE  a \in g.in[c]
  <2>1. g.in[c] = Reads(c)
    BY <1>1, ShapedFacts
  <2>2. c \notin InputNodes
    BY DEF InputNodes
  <2> QED BY <2>1, <2>2 DEF Reads, Parents
<1>2. ASSUME NEW y \in g.node, labels[a] # labels[c], StandsFor(g, y, labels[c])
      PROVE  a \in g.in[y]
  <2>1. a \in BoundaryReads(labels[c])
    BY <1>2 DEF BoundaryReads, Subgraph
  <2> QED BY <1>2, <2>1 DEF StandsFor
<1> QED BY <1>1, <1>2

(* Every node, and the node of every subgraph, leads to an output of the   *)
(* model; only the nodes nobody needs are isolated.                        *)
LEMMA IsolatedAreDead ==
  ASSUME PartInv, CloneInv, NEW g, IsGraph(g), NEW O \in SUBSET Node, Shaped(g, O),
         \A l \in O : \E n \in Node : labels[n] = l
  PROVE  \A x \in Isolated(g) : x \notin Node /\ NobodyNeeds(g, x)
<1> DEFINE Owns(x, n) ==
             \/ x = n /\ labels[n] \notin O
             \/ x \notin Node /\ labels[n] \in O /\ StandsFor(g, x, labels[n])
           R == Reached(Producers(g, g.outputs), Reversed(DataFlow(g)), g.node)
           Bad == {n \in Node : \E x \in g.node : Owns(x, n) /\ x \notin R}
<1>1. /\ Producers(g, g.outputs) \subseteq R
      /\ \A x, y \in g.node : y \in R /\ g.out[x] \cap g.in[y] # {} => x \in R
  <2>1. Producers(g, g.outputs) \subseteq g.node
    BY DEF Producers
  <2>2. \A x, y \in g.node : g.out[x] \cap g.in[y] # {} => <<y, x>> \in Reversed(DataFlow(g))
    <3>1. \A x, y \in g.node : g.out[x] \cap g.in[y] # {} => <<x, y>> \in DataFlow(g)
      BY DEF DataFlow
    <3>2. \A x, y : <<x, y>> \in DataFlow(g) => <<y, x>> \in Reversed(DataFlow(g))
      BY DEF Reversed
    <3> QED BY <3>1, <3>2
  <2>3. /\ Producers(g, g.outputs) \subseteq R
        /\ \A y, x \in g.node : y \in R /\ <<y, x>> \in Reversed(DataFlow(g)) => x \in R
    BY <2>1, ReachedFacts
  <2> HIDE DEF R
  <2> QED BY <2>2, <2>3
<1> HIDE DEF R
<1>2. Bad = {}
  <2>1. SUFFICES ASSUME Bad # {}
                 PROVE  FALSE
    OBVIOUS
  <2>2. PICK n \in Bad : \A m \in Bad : <<n, m>> \notin edges
    <3>1. Bad \in SUBSET Node
      OBVIOUS
    <3> HIDE DEF Bad
    <3> QED BY <2>1, <3>1, LastOfSet
  <2>3. PICK x \in g.node : Owns(x, n) /\ x \notin R
    BY <2>2
  <2>4. n \in Node
    BY <2>2
  <2>5. \A c \in Node : <<n, c>> \in edges => \A y \in g.node : Owns(y, c) => y \in R
    BY <2>2
  <2>6. n \in clone.outputs \/ (\E c \in Node : <<n, c>> \in edges /\ labels[c] # labels[n])
          => n \in g.out[x]
    <3>1. CASE labels[n] \notin O
      BY <2>3, <2>4, <3>1, ShapedFacts
    <3>2. CASE labels[n] \in O
      <4>1. SubgraphOutputs(labels[n]) \subseteq g.out[x] /\ labels[n] \in Node
        BY <2>3, <3>2 DEF StandsFor
      <4>2. n \in Subgraph(labels[n])
        BY <2>4 DEF Subgraph
      <4>3. \A c \in Node : labels[c] # labels[n] => c \notin Subgraph(labels[n])
        BY DEF Subgraph
      <4> QED BY <4>1, <4>2, <4>3, Boundary
    <3> QED BY <3>1, <3>2
  <2>7. n \notin clone.outputs
    <3>1. SUFFICES ASSUME n \in clone.outputs
                   PROVE  FALSE
      OBVIOUS
    <3>2. n \in g.out[x] /\ n \in g.outputs
      BY <2>6, <3>1 DEF Shaped
    <3>3. x \in Producers(g, g.outputs)
      BY <3>2 DEF Producers
    <3> QED BY <1>1, <2>3, <3>3
  <2>8. PICK c \in Node : <<n, c>> \in edges
    BY <2>4, <2>7 DEF CloneInv, Sinks, Children
  <2>9. CASE labels[c] \in O /\ labels[c] = labels[n]
    <3>1. Owns(x, c)
      BY <2>3, <2>9
    <3> QED BY <2>3, <2>5, <2>8, <3>1
  <2>10. CASE labels[c] \notin O
    <3>1. c \in g.node /\ Owns(c, c)
      BY <2>10, ShapedFacts
    <3>2. n \in g.in[c]
      <4>1. c \in g.node
        BY <3>1
      <4> QED BY <2>4, <2>8, <4>1, Reader
    <3>3. n \in g.out[x]
      <4>1. CASE labels[c] # labels[n]
        BY <2>6, <2>8, <4>1
      <4>2. CASE labels[c] = labels[n]
        BY <2>3, <2>4, <2>10, <4>2, ShapedFacts
      <4> QED BY <4>1, <4>2
    <3>4. c \in R
      BY <2>5, <2>8, <3>1
    <3> QED BY <1>1, <2>3, <3>1, <3>2, <3>3, <3>4
  <2>11. CASE labels[c] \in O /\ labels[c] # labels[n]
    <3>1. PICK y \in g.node : y \notin Node /\ StandsFor(g, y, labels[c])
      BY <2>11 DEF Shaped
    <3>2. n \in g.in[y]
      BY <2>4, <2>8, <2>11, <3>1, Reader
    <3>3. n \in g.out[x]
      BY <2>6, <2>8, <2>11
    <3>4. y \in R
      BY <2>5, <2>8, <2>11, <3>1
    <3> QED BY <1>1, <2>3, <3>2, <3>3, <3>4
  <2> QED BY <2>9, <2>10, <2>11
<1>3. ASSUME NEW x \in g.node, x \notin R
      PROVE  x \notin Node /\ NobodyNeeds(g, x)
  <2>1. x \notin Node
    <3>1. x \in Node => Owns(x, x)
      BY ShapedFacts
    <3> QED BY <1>2, <1>3, <3>1
  <2>2. \A l \in O : ~StandsFor(g, x, l)
    <3> SUFFICES ASSUME NEW l \in O, StandsFor(g, x, l)
                 PROVE  FALSE
      OBVIOUS
    <3>1. PICK n \in Node : labels[n] = l
      OBVIOUS
    <3>2. Owns(x, n)
      BY <2>1, <3>1
    <3> QED BY <1>2, <1>3, <3>1, <3>2
  <2> QED BY <2>1, <2>2 DEF Shaped
<1> QED BY <1>3 DEF Isolated, R

-----------------------------------------------------------------------------
(* What try_fuse makes of the boundary of a subgraph that is still as in   *)
(* the clone. The search from the outputs finds the subgraph.              *)
LEMMA SearchFindsSubgraph ==
  ASSUME PartInv, CloneInv, NEW g, IsGraph(g), NEW O \in SUBSET Node, Shaped(g, O),
         NEW l \in Node \ O
  PROVE  SearchedBody(g, SubgraphInputs(l), SubgraphOutputs(l)) = Subgraph(l)
<1> DEFINE B == Subgraph(l)
           ins == SubgraphInputs(l)
           outs == SubgraphOutputs(l)
           start == Producers(g, outs)
           follow == Followed(g, ins)
<1>1. B \subseteq Node /\ \A n \in B : n \in g.node /\ g.in[n] = Reads(n) /\ g.out[n] = {n}
  BY ShapedFacts DEF Subgraph
<1>2. \A a \in B, x \in g.node : a \in g.out[x] => x = a
  BY <1>1, ShapedFacts
<1>3. outs \subseteq B
  BY Boundary
<1>4. start \subseteq B /\ \A a \in outs : a \in start
  BY <1>1, <1>2, <1>3 DEF Producers
<1>5. \A a \in Node, n \in B : <<a, n>> \in edges => (a \in ins <=> a \notin B)
  <2> SUFFICES ASSUME NEW a \in Node, NEW n \in B, <<a, n>> \in edges
               PROVE  a \in ins <=> a \notin B
    OBVIOUS
  <2>1. a \in BoundaryReads(l) <=> a \notin B
    BY DEF BoundaryReads, Subgraph
  <2>2. a # Input
    BY ArgAssumption
  <2> QED BY <2>1, <2>2, Boundary
<1> HIDE DEF B, ins, outs
<1>6. IsClosed(B, follow)
  <2> SUFFICES ASSUME NEW e \in DataFlow(g), e[2] \in B,
                      ~(g.out[e[1]] \cap g.in[e[2]] \subseteq ins)
               PROVE  e[1] \in B
    BY DEF IsClosed, Followed
  <2>1. e[1] \in g.node
    BY DEF DataFlow
  <2>2. PICK a : a \in g.out[e[1]] /\ a \in g.in[e[2]] /\ a \notin ins
    OBVIOUS
  <2>3. a \in Reads(e[2]) /\ a # Input /\ a # Weight
    BY <1>1, <2>1, <2>2, ShapedFacts
  <2>4. a \in Node /\ <<a, e[2]>> \in edges
    BY <2>3 DEF Reads, Parents
  <2>5. a \in B
    BY <1>5, <2>2, <2>4
  <2> QED BY <1>2, <2>1, <2>2, <2>5
<1>7. ASSUME NEW K \in SUBSET g.node, start \subseteq K, IsClosed(K, follow)
      PROVE  B \subseteq K
  <2> DEFINE D == K \cap B
  <2>1. outs \subseteq D
    BY <1>3, <1>4, <1>7
  <2>2. \A m, n \in B : n \in D /\ <<m, n>> \in edges => m \in D
    <3> SUFFICES ASSUME NEW m \in B, NEW n \in B, n \in K, <<m, n>> \in edges
                 PROVE  m \in K
      OBVIOUS
    <3>1. m \in g.in[n]
      BY <1>1, Reader
    <3>2. <<m, n>> \in DataFlow(g)
      BY <1>1, <3>1 DEF DataFlow
    <3>3. m \notin ins
      BY <1>1, <1>5
    <3>4. <<n, m>> \in follow
      BY <1>1, <3>1, <3>2, <3>3 DEF Followed
    <3> QED BY <1>7, <3>4 DEF IsClosed
  <2>3. D = B
    <3>1. D \in SUBSET B
      OBVIOUS
    <3> HIDE DEF D
    <3> QED BY <2>1, <2>2, <3>1, LeadsToOutputs DEF B, outs
  <2> QED BY <2>3
<1>8. B \in SUBSET g.node
  BY <1>1
<1> HIDE DEF start, follow
<1>9. Reached(start, follow, g.node) = B
  <2>1. Reached(start, follow, g.node) \subseteq B
    BY <1>4, <1>6, <1>8 DEF Reached
  <2>2. B \subseteq Reached(start, follow, g.node)
    BY <1>7, <1>8 DEF Reached
  <2> QED BY <2>1, <2>2
<1> QED BY <1>9 DEF SearchedBody, start, follow, B, ins, outs

(* The body is the subgraph and perhaps nodes nobody needs.                *)
LEMMA BodyOfSubgraph ==
  ASSUME PartInv, CloneInv, NEW g, IsGraph(g), NEW O \in SUBSET Node, Shaped(g, O),
         \A k \in O : \E n \in Node : labels[n] = k,
         NEW l \in Node \ O
  PROVE  /\ Body(g, SubgraphInputs(l), SubgraphOutputs(l)) =
              Subgraph(l) \cup Islands(g, Subgraph(l))
         /\ \A x \in Islands(g, Subgraph(l)) :
              x \in g.node /\ x \notin Node /\ NobodyNeeds(g, x)
<1>1. Body(g, SubgraphInputs(l), SubgraphOutputs(l)) =
        Subgraph(l) \cup Islands(g, Subgraph(l))
  BY SearchFindsSubgraph DEF Body
<1>2. Islands(g, Subgraph(l)) \subseteq Isolated(g) /\ Isolated(g) \subseteq g.node
  BY DEF Islands, Isolated
<1> QED BY <1>1, <1>2, IsolatedAreDead

(* What the body returns and takes.                                        *)
LEMMA ReturnsOfSubgraph ==
  ASSUME PartInv, CloneInv, NEW g, IsGraph(g), NEW O \in SUBSET Node, Shaped(g, O),
         \A k \in O : \E n \in Node : labels[n] = k,
         NEW l \in Node \ O
  PROVE  LET returns == ReturnValues(g, Body(g, SubgraphInputs(l), SubgraphOutputs(l)))
         IN  SubgraphOutputs(l) \subseteq returns /\ returns \subseteq Subgraph(l)
<1> DEFINE B == Subgraph(l)
           J == Islands(g, B)
           body == Body(g, SubgraphInputs(l), SubgraphOutputs(l))
<1>1. body = B \cup J /\ \A x \in J : x \in g.node /\ x \notin Node /\ NobodyNeeds(g, x)
  BY BodyOfSubgraph
<1>2. B \subseteq Node /\ \A n \in B : n \in g.node /\ g.out[n] = {n}
  BY ShapedFacts DEF Subgraph
<1> HIDE DEF J, body
<1>3. ASSUME NEW x \in J, NEW a \in g.out[x]
      PROVE  a \notin g.outputs /\ Consumers(g, a) = {}
  <2>1. a = x /\ x \notin Node
    BY <1>1, <1>3 DEF NobodyNeeds
  <2>2. x # Input /\ x # Weight
    BY <1>1, <2>1, ShapedFacts
  <2>3. \A y \in g.node : x \notin g.in[y]
    BY <2>1, <2>2, ShapedFacts
  <2> QED BY <2>1, <2>3 DEF Consumers, CloneInv, Shaped
<1>4. ReturnValues(g, body) \subseteq B
  <2> SUFFICES ASSUME NEW a \in ReturnValues(g, body)
               PROVE  a \in B
    OBVIOUS
  <2>1. PICK x \in body : a \in g.out[x] /\ (a \in g.outputs \/ ~(Consumers(g, a) \subseteq body))
    BY DEF ReturnValues
  <2>2. x \notin J
    BY <1>3, <2>1
  <2> QED BY <1>1, <1>2, <2>1, <2>2
<1>5. SubgraphOutputs(l) \subseteq ReturnValues(g, body)
  <2> SUFFICES ASSUME NEW a \in SubgraphOutputs(l)
               PROVE  a \in ReturnValues(g, body)
    OBVIOUS
  <2>1. /\ a \in B
        /\ a \in clone.outputs \/ \E c \in Node \ B : <<a, c>> \in edges
    BY Boundary
  <2>2. a \in UNION {g.out[n] : n \in body}
    BY <1>1, <1>2, <2>1
  <2>3. CASE a \in clone.outputs
    BY <2>2, <2>3 DEF ReturnValues, Shaped
  <2>4. CASE \E c \in Node \ B : <<a, c>> \in edges
    <3>1. PICK c \in Node \ B : <<a, c>> \in edges
      BY <2>4
    <3>2. labels[a] # labels[c] /\ a \in Node
      BY <1>2, <2>1, <3>1 DEF Subgraph
    <3>3. PICK y \in g.node : y \notin body /\ a \in g.in[y]
      <4>1. CASE labels[c] \notin O
        <5>1. c \in g.node
          BY <4>1, ShapedFacts
        <5>2. a \in g.in[c]
          BY <3>1, <3>2, <5>1, Reader
        <5> QED BY <1>1, <3>1, <5>1, <5>2
      <4>2. CASE labels[c] \in O
        <5>1. PICK y \in g.node : y \notin Node /\ StandsFor(g, y, labels[c])
          BY <4>2 DEF Shaped
        <5>2. a \in g.in[y]
          BY <3>1, <3>2, <5>1, Reader
        <5>3. PICK n \in Node : labels[n] = labels[c]
          BY <3>1
        <5>4. y \notin J
          <6>1. SUFFICES ASSUME y \in J
                         PROVE  FALSE
            OBVIOUS
          <6>2. g.out[y] \subseteq Node /\ g.out[y] = {y}
            BY <1>1, <5>1, <6>1 DEF StandsFor, NobodyNeeds, Subgraph
          <6> QED BY <5>1, <6>2
        <5> QED BY <1>1, <1>2, <5>1, <5>2, <5>4
      <4> QED BY <4>1, <4>2
    <3>4. ~(Consumers(g, a) \subseteq body)
      BY <3>3 DEF Consumers
    <3> QED BY <2>2, <3>4 DEF ReturnValues
  <2> QED BY <2>1, <2>3, <2>4
<1> QED BY <1>4, <1>5 DEF body

LEMMA ArgumentsOfSubgraph ==
  ASSUME PartInv, CloneInv, NEW g, IsGraph(g), NEW O \in SUBSET Node, Shaped(g, O),
         \A k \in O : \E n \in Node : labels[n] = k,
         NEW l \in Node \ O
  PROVE  MetaDef(g, SubgraphInputs(l), SubgraphOutputs(l), {}).inputs \ {Input} = BoundaryReads(l)
<1> DEFINE B == Subgraph(l)
           J == Islands(g, B)
           ins == SubgraphInputs(l)
           outs == SubgraphOutputs(l)
           body == Body(g, ins, outs)
           consts == (AllInputs(g, B) \cap g.constants) \cup IslandConstants(g, B)
<1>1. MetaDef(g, ins, outs, {}).inputs = Arguments(g, body, consts)
  <2>1. MetaDef(g, ins, outs, {}).inputs = Arguments(g, body, Constants(g, ins, outs, {}))
    BY DEF MetaDef
  <2>2. Constants(g, ins, outs, {}) = consts
    BY SearchFindsSubgraph DEF Constants
  <2> QED BY <2>1, <2>2
<1>2. body = B \cup J /\ \A x \in J : x \in g.node /\ x \notin Node /\ NobodyNeeds(g, x)
  BY BodyOfSubgraph
<1>3. B \subseteq Node /\ \A n \in B : n \in g.node /\ g.in[n] = Reads(n) /\ g.out[n] = {n}
  BY ShapedFacts DEF Subgraph
<1>4. \A x \in J : Producers(g, g.in[x]) \subseteq B \cup J
  BY IslandsSelfContained
<1>5. \A a \in AllInputs(g, B) : a = Weight => a \in consts
  BY DEF Shaped
<1>6. \A a \in consts : a = Weight \/ Producers(g, {a}) = {}
  BY DEF IslandConstants, Shaped
<1>7. \A a : a \in AllInputs(g, body) <=> \E n \in body : a \in g.in[n]
  BY DEF AllInputs
<1> HIDE DEF B, J, body, consts
<1>8. ASSUME NEW a \in Arguments(g, body, consts), a # Input
      PROVE  a \in BoundaryReads(l)
  <2>1. /\ a \in AllInputs(g, body) /\ a \notin consts
        /\ \A n \in body : a \notin g.out[n]
    BY <1>8 DEF Arguments, Shaped
  <2>2. PICK n \in body : a \in g.in[n]
    BY <1>7, <2>1
  <2>3. CASE n \in B
    <3>1. a # Weight
      BY <1>5, <2>1, <2>2, <2>3 DEF AllInputs
    <3>2. a \in Node /\ <<a, n>> \in edges
      BY <1>3, <1>8, <2>2, <2>3, <3>1 DEF Reads, Parents
    <3>3. a \notin B
      BY <1>2, <1>3, <2>1
    <3> QED BY <2>3, <3>2, <3>3 DEF BoundaryReads, B, Subgraph
  <2>4. CASE n \in J
    <3>1. a \in Node
      BY <1>2, <1>8, <2>2, <2>4 DEF NobodyNeeds
    <3>2. PICK m \in g.node : a \in g.out[m]
      <4>1. n \in g.node
        BY <1>2, <2>4
      <4>2. a \in g.inputs \cup g.constants \cup UNION {g.out[m] : m \in g.node}
        BY <2>2, <4>1 DEF IsGraph, WellFormed
      <4>3. a \notin g.inputs \cup g.constants
        BY <3>1, ArgAssumption DEF Shaped
      <4> QED BY <4>2, <4>3
    <3>3. m \in Producers(g, g.in[n])
      BY <2>2, <3>2 DEF Producers
    <3> QED BY <1>2, <1>4, <2>1, <2>4, <3>2, <3>3
  <2> QED BY <1>2, <2>2, <2>3, <2>4
<1>9. ASSUME NEW a \in BoundaryReads(l)
      PROVE  a \in Arguments(g, body, consts) /\ a # Input
  <2>1. PICK n \in B : /\ a \in Node /\ labels[a] # l /\ <<a, n>> \in edges
                       /\ n \in Node /\ labels[n] = l
    BY DEF BoundaryReads, B, Subgraph
  <2>2. a # Input /\ a # Weight
    BY <2>1, ArgAssumption
  <2>3. a \in AllInputs(g, body)
    <3>1. a \in g.in[n]
      BY <1>3, <2>1, Reader
    <3> QED BY <1>2, <1>7, <3>1
  <2>4. a \notin consts
    <3>1. PICK x \in g.node : a \in g.out[x]
      BY <2>1, Producer
    <3>2. Producers(g, {a}) # {}
      BY <3>1 DEF Producers
    <3> QED BY <1>6, <2>2, <3>2
  <2>5. \A m \in body : a \notin g.out[m]
    <3>1. a \notin B
      BY <2>1 DEF B, Subgraph
    <3>2. \A m \in J : g.out[m] = {m} /\ m \notin Node
      BY <1>2 DEF NobodyNeeds
    <3> QED BY <1>2, <1>3, <2>1, <3>1, <3>2
  <2> QED BY <2>2, <2>3, <2>4, <2>5 DEF Arguments
<1> QED BY <1>1, <1>8, <1>9 DEF ins, outs

(* The inputs do not depend on what the body returns: the subgraphs they   *)
(* come from are ancestors of l, and l is not one of its own.              *)
LEMMA NoLoop ==
  ASSUME PartInv, CloneInv, NEW g, IsGraph(g), NEW O \in SUBSET Node, Shaped(g, O),
         NEW l \in Node \ O, NEW returns \in SUBSET Subgraph(l)
  PROVE  ~LoopDetected(g, SubgraphInputs(l), returns)
<1> DEFINE E == Contracted(labels)
           P == {k \in Node : <<k, l>> \in E}
           T == Reached(P, Reversed(E), Node)
           C == {x \in g.node : \E a \in Node : a \in g.out[x] /\ labels[a] \in T}
           start == Producers(g, SubgraphInputs(l))
<1>1. E \in SUBSET (Node \X Node) /\ labels \in [Node -> Node]
  BY DEF PartInv, PartTypeOK, Contracted
<1>2. l \notin T
  BY <1>1, NoReturn DEF PartInv, PartitionAcyclic
<1>3. \A a, c \in Node : <<a, c>> \in edges /\ labels[a] # labels[c] =>
        <<labels[a], labels[c]>> \in E
  BY DEF Contracted
<1>4. P \subseteq T /\ \A m, n \in Node : n \in T /\ <<m, n>> \in E => m \in T
  <2>1. P \subseteq Node
    OBVIOUS
  <2> HIDE DEF P, E
  <2>2. /\ P \subseteq T
        /\ \A n, m \in Node : n \in T /\ <<n, m>> \in Reversed(E) => m \in T
    BY <2>1, ReachedFacts
  <2>3. \A m, n : <<m, n>> \in E => <<n, m>> \in Reversed(E)
    BY DEF Reversed
  <2> HIDE DEF T
  <2> QED BY <2>2, <2>3
<1> HIDE DEF T, E
(* The nodes of ancestors.                                                 *)
<1>5. \A x \in g.node, a, b \in Node : a \in g.out[x] /\ b \in g.out[x] => labels[a] = labels[b]
  <2> SUFFICES ASSUME NEW x \in g.node, NEW a \in Node, NEW b \in Node,
                      a \in g.out[x], b \in g.out[x]
               PROVE  labels[a] = labels[b]
    OBVIOUS
  <2>1. CASE x = a
    BY <2>1, ShapedFacts
  <2>2. CASE x # a
    <3>1. StandsFor(g, x, labels[a])
      BY <2>2, ShapedFacts
    <3> QED BY <3>1 DEF StandsFor, Subgraph
  <2> QED BY <2>1, <2>2
<1>6. start \subseteq C
  <2> SUFFICES ASSUME NEW x \in start
               PROVE  x \in C
    OBVIOUS
  <2>1. PICK a \in SubgraphInputs(l) : x \in g.node /\ a \in g.out[x]
    BY DEF Producers
  <2>2. a # Input
    BY <2>1, ShapedFacts
  <2>3. a \in BoundaryReads(l)
    BY <2>2, Boundary
  <2>4. PICK n \in Node : labels[n] = l /\ <<a, n>> \in edges /\ a \in Node /\ labels[a] # l
    BY <2>3 DEF BoundaryReads, Subgraph
  <2>5. <<labels[a], l>> \in E /\ labels[a] \in Node
    BY <1>1, <1>3, <2>4
  <2>6. labels[a] \in T
    BY <1>4, <2>5
  <2> QED BY <2>1, <2>4, <2>6
<1> HIDE DEF P
<1>7. IsClosed(C, Reversed(DataFlow(g)))
  <2> SUFFICES ASSUME NEW y \in g.node, NEW x \in g.node, NEW b,
                      b \in g.out[y], b \in g.in[x], x \in C
               PROVE  y \in C
    BY DEF IsClosed, Reversed, DataFlow
  <2>1. PICK a \in Node : a \in g.out[x] /\ labels[a] \in T
    OBVIOUS
  <2>2. b \in Node
    BY ShapedFacts
  <2>3. PICK c \in Node : <<b, c>> \in edges /\ labels[c] = labels[a]
    <3>1. CASE x = a
      <4>1. g.in[x] = Reads(a)
        BY <2>1, <3>1, ShapedFacts
      <4>2. <<b, a>> \in edges
        BY <2>2, <4>1, ArgAssumption DEF Reads, Parents
      <4> QED BY <4>2
    <3>2. CASE x # a
      <4>1. StandsFor(g, x, labels[a])
        BY <2>1, <3>2, ShapedFacts
      <4>2. b \in BoundaryReads(labels[a])
        BY <2>2, <4>1, ArgAssumption DEF StandsFor
      <4> QED BY <4>2 DEF BoundaryReads, Subgraph
    <3> QED BY <3>1, <3>2
  <2>4. labels[b] \in T
    <3>1. CASE labels[b] = labels[c]
      BY <2>1, <2>3, <3>1
    <3>2. CASE labels[b] # labels[c]
      BY <1>1, <1>3, <1>4, <2>1, <2>2, <2>3, <3>2
    <3> QED BY <3>1, <3>2
  <2> QED BY <2>2, <2>4
<1>8. Reached(start, Reversed(DataFlow(g)), g.node) \subseteq C
  <2>1. C \in SUBSET g.node
    OBVIOUS
  <2> HIDE DEF C, start
  <2> QED BY <1>6, <1>7, <2>1 DEF Reached
<1>9. C \cap Producers(g, returns) = {}
  <2> SUFFICES ASSUME NEW x \in C, NEW b \in returns, b \in g.out[x]
               PROVE  FALSE
    BY DEF Producers
  <2>1. b \in Node /\ labels[b] = l
    BY DEF Subgraph
  <2>2. PICK a \in Node : a \in g.out[x] /\ labels[a] \in T
    OBVIOUS
  <2> QED BY <1>2, <1>5, <2>1, <2>2
<1> HIDE DEF C
<1> QED BY <1>8, <1>9 DEF LoopDetected, start

(* None of the checks of try_fuse fails.                                   *)
LEMMA TryFuseAccepts ==
  ASSUME PartInv, CloneInv, NEW g, IsGraph(g), NEW O \in SUBSET Node, Shaped(g, O),
         \A k \in O : \E n \in Node : labels[n] = k,
         NEW l \in Node \ O
  PROVE  TryFuseFinds(g, SubgraphInputs(l), SubgraphOutputs(l))
<1> DEFINE B == Subgraph(l)
           ins == SubgraphInputs(l)
           outs == SubgraphOutputs(l)
<1>1. B \subseteq Node /\ \A n \in B : n \in g.node /\ g.in[n] = Reads(n) /\ g.out[n] = {n}
  BY ShapedFacts DEF Subgraph
<1>2. SearchedBody(g, ins, outs) = B
  BY SearchFindsSubgraph
<1>3. \A a \in outs : Producers(g, {a}) # {}
  <2>1. outs \subseteq B
    BY Boundary
  <2> QED BY <1>1, <2>1 DEF Producers
<1>4. ~HitCeiling(g, ins, B)
  <2>1. ASSUME \E n \in B : Input \in Reads(n)
        PROVE  Input \in ins
    BY <2>1, Boundary
  <2> HIDE DEF ins, B
  <2> QED BY <1>1, <2>1 DEF HitCeiling, AllInputs, Shaped
<1>5. ~LoopDetected(g, ins, ReturnValues(g, Body(g, ins, outs)))
  BY ReturnsOfSubgraph, NoLoop
<1>6. Contended(g, ins) = {}
  <2> SUFFICES ASSUME NEW a \in ins, a # Input, Producers(g, {a}) = {}
               PROVE  FALSE
    BY DEF Contended, Shaped
  <2>1. a \in BoundaryReads(l)
    BY Boundary
  <2>2. a \in Node /\ \E c \in Node : <<a, c>> \in edges /\ labels[c] # labels[a]
    BY <2>1 DEF BoundaryReads, Subgraph
  <2>3. \E x \in g.node : a \in g.out[x]
    BY <2>2, Producer
  <2> QED BY <2>3 DEF Producers
<1> QED BY <1>2, <1>3, <1>4, <1>5, <1>6 DEF TryFuseFinds, CanFuse

(* The clone itself, before anything is offloaded.                         *)
LEMMA CloneShaped ==
  ASSUME PartInv, CloneInv
  PROVE  IsGraph(clone) /\ Shaped(clone, {}) /\ clone.node = Node
<1>1. IsGraph(clone)
  BY CloneIsGraph DEF CloneInv
<1>2. /\ clone.node = Node /\ clone.inputs = {Input} /\ clone.constants = {Weight}
      /\ clone.next = FirstFree
      /\ \A n \in Node : clone.in[n] = Reads(n) /\ clone.out[n] = {n}
  BY DEF CloneInv, CloneOf
<1>3. FirstFree <= clone.next
  BY <1>2, ArgAssumption
<1> QED BY <1>1, <1>2, <1>3 DEF Shaped

(* The checks of virtual_fuse hold: the search stays inside and misses     *)
(* nothing.                                                                *)
LEMMA VirtualFuseAccepts ==
  ASSUME PartInv, CloneInv, NEW l \in Node
  PROVE  VirtuallyFused(clone, MetaDef(clone, SubgraphInputs(l), SubgraphOutputs(l), {}))
<1> DEFINE B == Subgraph(l)
           outs == SubgraphOutputs(l)
           md == MetaDef(clone, SubgraphInputs(l), outs, {})
           start == Producers(clone, md.outputs)
           inside == {e \in Reversed(DataFlow(clone)) : e[2] \in md.nodes}
<1>1. IsGraph(clone) /\ Shaped(clone, {}) /\ clone.node = Node
  BY CloneShaped
<1>2. B \subseteq Node /\ \A n \in B : clone.in[n] = Reads(n) /\ clone.out[n] = {n}
  BY <1>1, ShapedFacts DEF Subgraph
<1>3. md.nodes = B
  <2>1. md.nodes = Body(clone, SubgraphInputs(l), outs)
    BY DEF MetaDef
  <2>2. /\ Body(clone, SubgraphInputs(l), outs) = B \cup Islands(clone, B)
        /\ \A x \in Islands(clone, B) : x \in clone.node /\ x \notin Node
    BY <1>1, BodyOfSubgraph
  <2> QED BY <1>1, <2>1, <2>2
<1>4. outs \subseteq md.outputs /\ md.outputs \subseteq B
  <2>1. md.outputs = ReturnValues(clone, Body(clone, SubgraphInputs(l), outs))
    BY DEF MetaDef
  <2> QED BY <1>1, <2>1, ReturnsOfSubgraph
<1> HIDE DEF md, B
<1>5. start \subseteq B /\ md.outputs \subseteq start
  <2>1. \A a \in B, x \in clone.node : a \in clone.out[x] => x = a
    BY <1>1, <1>2, ShapedFacts
  <2> QED BY <1>1, <1>2, <1>4, <2>1 DEF Producers
<1>6. IsClosed(B, inside)
  BY <1>3 DEF IsClosed
<1>7. ASSUME NEW K \in SUBSET Node, start \subseteq K, IsClosed(K, inside)
      PROVE  B \subseteq K
  <2> DEFINE D == K \cap B
  <2>1. outs \subseteq D
    BY <1>4, <1>5, <1>7
  <2>2. \A m, n \in B : n \in D /\ <<m, n>> \in edges => m \in D
    <3> SUFFICES ASSUME NEW m \in B, NEW n \in B, n \in K, <<m, n>> \in edges
                 PROVE  m \in K
      OBVIOUS
    <3>1. m \in clone.in[n]
      BY <1>1, <1>2, Reader
    <3>2. <<m, n>> \in DataFlow(clone)
      BY <1>1, <1>2, <3>1 DEF DataFlow
    <3>3. <<n, m>> \in inside
      BY <1>3, <3>2 DEF Reversed
    <3> QED BY <1>7, <3>3 DEF IsClosed
  <2>3. D = B
    <3>1. D \in SUBSET B
      OBVIOUS
    <3> HIDE DEF D
    <3> QED BY <2>1, <2>2, <3>1, LeadsToOutputs DEF B
  <2> QED BY <2>3
<1> HIDE DEF start, inside
<1>8. Reached(start, inside, Node) = B
  <2>1. Reached(start, inside, Node) \subseteq B
    BY <1>2, <1>5, <1>6 DEF Reached
  <2>2. B \subseteq Reached(start, inside, Node)
    BY <1>2, <1>7 DEF Reached
  <2> QED BY <2>1, <2>2
<1> QED BY <1>1, <1>3, <1>8 DEF VirtuallyFused, start, inside, md

-----------------------------------------------------------------------------
(* After the fusion the model has the shape with one more subgraph         *)
(* offloaded.                                                              *)
LEMMA OffloadKeepsShape ==
  ASSUME PartInv, CloneInv, NEW g, IsGraph(g), NEW O \in SUBSET Node, Shaped(g, O),
         \A k \in O : \E n \in Node : labels[n] = k,
         NEW l \in Node \ O
  PROVE  LET md == MetaDef(g, SubgraphInputs(l), SubgraphOutputs(l), {})
         IN  md.nodes \cap Node = Subgraph(l) /\ Shaped(FuseNodes(g, md), O \cup {l})
<1> DEFINE B == Subgraph(l)
           md == MetaDef(g, SubgraphInputs(l), SubgraphOutputs(l), {})
           J == Islands(g, B)
           h == FuseNodes(g, md)
           f == g.next
           rest == (g.node \ (B \cup J)) \cup {f}
<1>1. /\ md.nodes = B \cup J
      /\ \A x \in J : x \in g.node /\ x \notin Node /\ NobodyNeeds(g, x)
  BY BodyOfSubgraph DEF MetaDef
<1>2. SubgraphOutputs(l) \subseteq md.outputs /\ md.outputs \subseteq B
  <2>1. md.outputs = ReturnValues(g, Body(g, SubgraphInputs(l), SubgraphOutputs(l)))
    BY DEF MetaDef
  <2> QED BY <2>1, ReturnsOfSubgraph
<1>3. md.inputs \ {Input} = BoundaryReads(l)
  BY ArgumentsOfSubgraph
<1> HIDE DEF md, J
<1>4. /\ h.node = rest
      /\ h.in = [n \in rest |-> IF n = f THEN md.inputs ELSE g.in[n]]
      /\ h.out = [n \in rest |-> IF n = f THEN md.outputs ELSE g.out[n]]
      /\ h.inputs = g.inputs /\ h.outputs = g.outputs /\ h.constants = g.constants
      /\ h.next = f + 1
  BY <1>1 DEF FuseNodes
<1> HIDE DEF h
<1>5. f \notin g.node /\ f \in Nat /\ FirstFree <= f /\ f \notin Node
  BY NodeAssumption, ArgAssumption DEF IsGraph, Shaped
<1>6. /\ \A n \in g.node \ (B \cup J) :
           n \in rest /\ n # f /\ h.in[n] = g.in[n] /\ h.out[n] = g.out[n]
      /\ f \in rest /\ h.in[f] = md.inputs /\ h.out[f] = md.outputs
      /\ \A n \in rest : n # f => n \in g.node \ (B \cup J)
  BY <1>4, <1>5
<1>7. B = {n \in Node : labels[n] = l}
  BY DEF Subgraph
<1>8. StandsFor(h, f, l)
  BY <1>2, <1>3, <1>6 DEF StandsFor
<1>9. h.inputs = {Input} /\ h.constants = {Weight} /\ h.outputs = clone.outputs
  BY <1>4 DEF Shaped
<1>10. FirstFree <= h.next
  BY <1>4, <1>5, ArgAssumption
<1>11. \A n \in Node : n \in h.node <=> labels[n] \notin O \cup {l}
  <2>1. \A n \in Node : n \in g.node <=> labels[n] \notin O
    BY DEF Shaped
  <2> QED BY <1>1, <1>4, <1>5, <1>7, <2>1
<1>12. \A n \in Node \cap h.node : h.in[n] = Reads(n) /\ h.out[n] = {n}
  <2>1. \A n \in Node \cap g.node : g.in[n] = Reads(n) /\ g.out[n] = {n}
    BY DEF Shaped
  <2> QED BY <1>4, <1>5, <1>6, <2>1
<1>13. \A x \in h.node \ Node : NobodyNeeds(h, x) \/ \E k \in O \cup {l} : StandsFor(h, x, k)
  <2> SUFFICES ASSUME NEW x \in rest, x \notin Node
               PROVE  NobodyNeeds(h, x) \/ \E k \in O \cup {l} : StandsFor(h, x, k)
    BY <1>4
  <2>1. CASE x = f
    BY <1>8, <2>1
  <2>2. CASE x # f
    <3>1. x \in g.node /\ h.in[x] = g.in[x] /\ h.out[x] = g.out[x]
      BY <1>6, <2>2
    <3>2. NobodyNeeds(g, x) \/ \E k \in O : StandsFor(g, x, k)
      BY <3>1 DEF Shaped
    <3>3. CASE NobodyNeeds(g, x)
      BY <3>1, <3>3 DEF NobodyNeeds
    <3>4. CASE \E k \in O : StandsFor(g, x, k)
      BY <3>1, <3>4 DEF StandsFor
    <3> QED BY <3>2, <3>3, <3>4
  <2> QED BY <2>1, <2>2
<1>14. \A k \in O \cup {l} : \E x \in h.node \ Node : StandsFor(h, x, k)
  <2> SUFFICES ASSUME NEW k \in O
               PROVE  \E x \in h.node \ Node : StandsFor(h, x, k)
    BY <1>4, <1>5, <1>8
  <2>1. PICK x \in g.node \ Node : StandsFor(g, x, k)
    BY DEF Shaped
  <2>2. x \notin J
    <3>1. SUFFICES ASSUME x \in J
                   PROVE  FALSE
      OBVIOUS
    <3>2. g.out[x] = {x} /\ g.out[x] \subseteq Node
      BY <1>1, <2>1, <3>1 DEF NobodyNeeds, StandsFor, Subgraph
    <3> QED BY <2>1, <3>2
  <2>3. x \in rest /\ h.in[x] = g.in[x] /\ h.out[x] = g.out[x]
    BY <1>6, <1>7, <2>1, <2>2
  <2>4. StandsFor(h, x, k)
    BY <2>1, <2>3 DEF StandsFor
  <2> QED BY <1>4, <2>1, <2>3, <2>4
<1>15. Shaped(h, O \cup {l})
  BY <1>9, <1>10, <1>11, <1>12, <1>13, <1>14 DEF Shaped
<1>16. md.nodes \cap Node = B
  BY <1>1, <1>7
<1> QED BY <1>15, <1>16 DEF h, md

-----------------------------------------------------------------------------
Holders(n) == {i \in DOMAIN meta_defs : n \in meta_defs[i].nodes}

(* Who holds a node of the clone, by the subgraphs offloaded so far.       *)
HoldersInv ==
  /\ \E S : meta_defs \in Seq(S)
  /\ \A n \in Node :
       IF labels[n] \in Offloaded
       THEN \E i : /\ Holders(n) = {i}
                   /\ meta_defs[i].nodes \cap Node = Subgraph(labels[n])
       ELSE Holders(n) = {}

FuseInv ==
  /\ clusters_to_fuse \subseteq {labels[n] : n \in Node}
  /\ CloneInv
  /\ Shaped(graph, Offloaded)
  /\ HoldersInv

OffloadInv ==
  /\ DDInv
  /\ NoSubgraphRejected
  /\ phase = "fuse" => FuseInv
  /\ phase # "fuse" => meta_defs = << >>

LEMMA ClusterStartsOffload == OffloadInv /\ Cluster => FuseInv'
<1> SUFFICES ASSUME OffloadInv, Cluster
             PROVE  FuseInv'
  OBVIOUS
<1>0. PartInv
  BY DEF OffloadInv, DDInv
<1>1. PICK more \in SUBSET (Node \ Sinks), dead \in SUBSET DeadReads :
        /\ clone' = CloneOf(Node, Sinks \cup more)
        /\ graph' = WithDeadReader(clone', dead)
  BY DEF Cluster
<1>2. /\ clusters_to_fuse' = {labels[n] : n \in Node}
      /\ UNCHANGED <<edges, property, labels, meta_defs>>
      /\ phase = "labelled"
  BY DEF Cluster, graphVars
<1> DEFINE g == CloneOf(Node, Sinks \cup more)
           h == WithDeadReader(g, dead)
           all == Node \cup {FirstFree}
<1>3. Offloaded' = {} /\ meta_defs' = << >>
  BY <1>2 DEF Offloaded, OffloadInv
<1>4. /\ g.node = Node /\ g.inputs = {Input} /\ g.constants = {Weight}
      /\ g.outputs = Sinks \cup more /\ g.next = FirstFree
      /\ \A n \in Node : g.in[n] = Reads(n) /\ g.out[n] = {n}
  BY DEF CloneOf
<1> HIDE DEF g
<1>5. /\ Sinks' = Sinks /\ Sinks \cup more \subseteq Node
      /\ \A n \in Node : Reads(n)' = Reads(n)
      /\ \A nodes, outputs : CloneOf(nodes, outputs)' = CloneOf(nodes, outputs)
  BY <1>2 DEF Sinks, Children, Reads, Parents, InputNodes, CloneOf
<1>6. CloneInv'
  BY <1>1, <1>4, <1>5 DEF CloneInv, g
<1>7. /\ h.inputs = {Input} /\ h.constants = {Weight} /\ h.outputs = g.outputs
      /\ FirstFree <= h.next
      /\ Node \subseteq h.node /\ h.node \subseteq all
      /\ \A n \in Node : h.in[n] = Reads(n) /\ h.out[n] = {n}
      /\ FirstFree \in h.node =>
           h.out[FirstFree] = {FirstFree} /\ h.in[FirstFree] \subseteq DeadReads
  <2>0. FirstFree \notin Node /\ FirstFree \in Nat
    BY NodeAssumption, ArgAssumption
  <2>1. CASE dead = {}
    BY <1>4, <2>0, <2>1 DEF WithDeadReader
  <2>2. CASE dead # {}
    BY <1>4, <2>0, <2>2 DEF WithDeadReader
  <2> QED BY <2>1, <2>2
<1> HIDE DEF h
<1>8. graph' = h /\ clone' = g
  BY <1>1 DEF h, g
<1>9. \A x \in h.node \ Node : NobodyNeeds(h, x)
  BY <1>7, ArgAssumption DEF NobodyNeeds
<1>10. Shaped(graph, Offloaded)'
  BY <1>3, <1>5, <1>7, <1>8, <1>9 DEF Shaped, NobodyNeeds
<1>11. HoldersInv'
  <2>1. meta_defs' \in Seq({})
    BY <1>3
  <2> QED BY <1>3, <2>1 DEF HoldersInv, Holders
<1>12. clusters_to_fuse' \subseteq {labels'[n] : n \in Node}
  BY <1>2
<1> QED BY <1>6, <1>10, <1>11, <1>12 DEF FuseInv

(* What the shape refers to does not change while the pass offloads.       *)
LEMMA SameBoundary ==
  ASSUME edges' = edges, labels' = labels, clone' = clone
  PROVE  /\ \A l : /\ Subgraph(l)' = Subgraph(l) /\ BoundaryReads(l)' = BoundaryReads(l)
                   /\ SubgraphOutputs(l)' = SubgraphOutputs(l)
         /\ \A n : Reads(n)' = Reads(n)
         /\ CloneInv => CloneInv'
<1>1. \A l : Subgraph(l)' = Subgraph(l) /\ BoundaryReads(l)' = BoundaryReads(l)
  BY DEF BoundaryReads, Subgraph
<1>2. \A l : SubgraphOutputs(l)' = SubgraphOutputs(l)
  BY <1>1 DEF SubgraphOutputs, extract_subgraph_outputs, Consumers
<1>3. \A n : Reads(n)' = Reads(n)
  BY DEF Reads, Parents, InputNodes
<1>4. CloneInv => CloneInv'
  BY <1>3 DEF CloneInv, Sinks, Children, CloneOf
<1> QED BY <1>1, <1>2, <1>3, <1>4

(* A turn that changes neither what is offloaded nor the model.            *)
LEMMA SkipKeepsOffload ==
  ASSUME OffloadInv, NEW l \in Node, SkipCpu(l)
  PROVE  FuseInv'
<1>1. PartInv /\ FuseInv
  BY DEF OffloadInv, DDInv, SkipCpu
<1>2. /\ clusters_to_fuse' = clusters_to_fuse \ {l}
      /\ UNCHANGED <<edges, property, labels, graph, meta_defs, clone>>
  BY DEF SkipCpu, partVars, fuseVars
<1>3. PICK n \in Node : labels[n] = l /\ property[n] = "CPU"
  BY DEF SkipCpu, IsFirst, Subgraph
<1>4. \A m \in Node : property[m] = "AIE" => labels[m] # l
  BY <1>1, <1>3 DEF PartInv, OneTarget
<1>5. Offloaded' = Offloaded
  <2>1. {labels[m] : m \in {m \in Node : property[m] = "AIE"}} \ (clusters_to_fuse \ {l})
          = Offloaded
    BY <1>4 DEF Offloaded
  <2> QED BY <1>2, <2>1 DEF Offloaded
<1>6. CloneInv'
  BY <1>1, <1>2, SameBoundary DEF FuseInv
<1>7. Shaped(graph, Offloaded)'
  BY <1>1, <1>2, <1>5, SameBoundary DEF FuseInv, Shaped, StandsFor, NobodyNeeds
<1>8. HoldersInv'
  BY <1>1, <1>2, <1>5 DEF FuseInv, HoldersInv, Holders, Subgraph
<1>9. clusters_to_fuse' \subseteq {labels'[m] : m \in Node}
  BY <1>1, <1>2 DEF FuseInv
<1> QED BY <1>6, <1>7, <1>8, <1>9 DEF FuseInv

(* Every subgraph whose turn comes passes the checks.                      *)
LEMMA SubgraphAccepted ==
  ASSUME OffloadInv, NEW l \in Node, FuseSubgraph(l)
  PROVE  /\ Fusable(SubgraphInputs(l), SubgraphOutputs(l))
         /\ Offloaded \in SUBSET Node /\ l \in Node \ Offloaded
         /\ \A k \in Offloaded : \E n \in Node : labels[n] = k
<1>1. PartInv /\ IsGraph(graph) /\ FuseInv
  BY DEF OffloadInv, DDInv, FuseSubgraph
<1>2. labels \in [Node -> Node]
  BY <1>1 DEF PartInv, PartTypeOK
<1>3. /\ Offloaded \in SUBSET Node /\ l \in Node \ Offloaded
      /\ \A k \in Offloaded : \E n \in Node : labels[n] = k
  BY <1>2 DEF Offloaded, FuseSubgraph, IsNext
<1>4. TryFuseFinds(graph, SubgraphInputs(l), SubgraphOutputs(l))
  BY <1>1, <1>3, TryFuseAccepts DEF FuseInv
<1>5. TryFuseFinds(clone, SubgraphInputs(l), SubgraphOutputs(l))
  <2>1. IsGraph(clone) /\ Shaped(clone, {}) /\ {} \in SUBSET Node /\ l \in Node \ {}
    BY <1>1, CloneShaped DEF FuseInv
  <2> QED BY <1>1, <2>1, TryFuseAccepts DEF FuseInv
<1>6. VirtuallyFused(clone, MetaDef(clone, SubgraphInputs(l), SubgraphOutputs(l), {}))
  BY <1>1, VirtualFuseAccepts DEF FuseInv
<1> QED BY <1>3, <1>4, <1>5, <1>6 DEF Fusable

LEMMA FuseKeepsOffload ==
  ASSUME OffloadInv, NEW l \in Node, FuseSubgraph(l)
  PROVE  phase' = "fuse" /\ FuseInv'
<1> DEFINE md == MetaDef(graph, SubgraphInputs(l), SubgraphOutputs(l), {})
<1>1. PartInv /\ IsGraph(graph) /\ FuseInv
  BY DEF OffloadInv, DDInv, FuseSubgraph
<1>2. /\ Offloaded \in SUBSET Node /\ l \in Node \ Offloaded
      /\ \A k \in Offloaded : \E n \in Node : labels[n] = k
  BY SubgraphAccepted
<1>3. /\ clusters_to_fuse' = clusters_to_fuse \ {l} /\ phase' = "fuse"
      /\ meta_defs' = Append(meta_defs, md) /\ graph' = FuseNodes(graph, md)
      /\ UNCHANGED <<edges, property, labels, clone>>
  BY SubgraphAccepted DEF FuseSubgraph, Fuse, graphVars
<1>4. l \in clusters_to_fuse
  BY DEF FuseSubgraph, IsNext
<1>5. PICK n0 \in Node : labels[n0] = l
  BY <1>1, <1>4 DEF FuseInv
<1>6. \A n \in Node : labels[n] = l => property[n] = "AIE"
  <2>1. PICK first \in Subgraph(l) : IsFirst(first, l)
    <3>1. Subgraph(l) \in SUBSET Nat /\ Subgraph(l) # {}
      BY <1>5, NodeAssumption DEF Subgraph
    <3> QED BY <3>1, Smallest DEF IsFirst
  <2>2. labels[first] = l /\ property[first] = "AIE"
    BY <2>1 DEF FuseSubgraph, Subgraph
  <2> QED BY <1>1, <2>2 DEF PartInv, OneTarget, Subgraph
<1>7. Offloaded' = Offloaded \cup {l}
  <2>1. {labels[m] : m \in {m \in Node : property[m] = "AIE"}} \ (clusters_to_fuse \ {l})
          = Offloaded \cup {l}
    BY <1>5, <1>6 DEF Offloaded
  <2> QED BY <1>3, <2>1 DEF Offloaded
<1>8. md.nodes \cap Node = Subgraph(l) /\ Shaped(FuseNodes(graph, md), Offloaded \cup {l})
  BY <1>1, <1>2, OffloadKeepsShape DEF FuseInv
<1> HIDE DEF md
<1>9. CloneInv'
  BY <1>1, <1>3, SameBoundary DEF FuseInv
<1>10. Shaped(graph, Offloaded)'
  <2>1. Shaped(graph', Offloaded')
    BY <1>3, <1>7, <1>8
  <2> QED BY <1>3, <2>1, SameBoundary DEF Shaped, StandsFor, NobodyNeeds
<1>11. HoldersInv'
  <2>1. PICK S : meta_defs \in Seq(S)
    BY <1>1 DEF FuseInv, HoldersInv
  <2> DEFINE k == Len(meta_defs) + 1
             T == S \cup {md}
  <2>2. meta_defs \in Seq(T)
    BY <2>1
  <2>3. /\ meta_defs' \in Seq(T) /\ DOMAIN meta_defs' = DOMAIN meta_defs \cup {k}
        /\ k \notin DOMAIN meta_defs /\ meta_defs'[k] = md
        /\ \A i \in DOMAIN meta_defs : meta_defs'[i] = meta_defs[i]
    BY <1>3, <2>2
  <2> HIDE DEF T, k
  <2>4. ASSUME NEW n \in Node
        PROVE  IF labels[n] \in Offloaded \cup {l}
               THEN \E i : /\ Holders(n)' = {i}
                           /\ meta_defs'[i].nodes \cap Node = Subgraph(labels[n])
               ELSE Holders(n)' = {}
    <3>1. Holders(n)' = Holders(n) \cup {i \in {k} : n \in md.nodes}
      BY <2>3 DEF Holders
    <3>2. n \in md.nodes <=> labels[n] = l
      BY <1>8 DEF Subgraph
    <3>3. IF labels[n] \in Offloaded
          THEN \E i : /\ Holders(n) = {i}
                      /\ meta_defs[i].nodes \cap Node = Subgraph(labels[n])
          ELSE Holders(n) = {}
      BY <1>1 DEF FuseInv, HoldersInv
    <3>4. CASE labels[n] \in Offloaded
      <4>1. PICK i : Holders(n) = {i} /\ meta_defs[i].nodes \cap Node = Subgraph(labels[n])
        BY <3>3, <3>4
      <4>2. i \in DOMAIN meta_defs
        BY <4>1 DEF Holders
      <4>3. Holders(n)' = {i}
        BY <1>2, <3>1, <3>2, <3>4, <4>1
      <4> QED BY <2>3, <3>4, <4>1, <4>2, <4>3
    <3>5. CASE labels[n] = l
      <4>1. Holders(n)' = {k}
        BY <1>2, <3>1, <3>2, <3>3, <3>5
      <4> QED BY <1>8, <2>3, <3>5, <4>1
    <3>6. CASE labels[n] \notin Offloaded \cup {l}
      BY <3>1, <3>2, <3>3, <3>6
    <3> QED BY <3>4, <3>5, <3>6
  <2>5. \A m : Subgraph(m)' = Subgraph(m)
    BY <1>3 DEF Subgraph
  <2> QED BY <1>3, <1>7, <2>3, <2>4, <2>5 DEF HoldersInv
<1>12. clusters_to_fuse' \subseteq {labels'[m] : m \in Node}
  BY <1>1, <1>3 DEF FuseInv
<1> QED BY <1>3, <1>9, <1>10, <1>11, <1>12 DEF FuseInv

LEMMA OffloadInductive == OffloadInv /\ [DDNext]_ddVars => OffloadInv'
<1> SUFFICES ASSUME OffloadInv, [DDNext]_ddVars
             PROVE  OffloadInv'
  OBVIOUS
<1>1. DDInv'
  BY DDNextInv, NextGraph DEF OffloadInv, DDInv
<1>2. ASSUME NEW l \in Node, FuseSubgraph(l)
      PROVE  OffloadInv'
  <2>1. phase' = "fuse" /\ FuseInv'
    BY <1>2, FuseKeepsOffload
  <2> QED BY <1>1, <2>1 DEF OffloadInv, NoSubgraphRejected
<1>3. ASSUME NEW l \in Node, SkipCpu(l)
      PROVE  OffloadInv'
  <2>1. FuseInv'
    BY <1>3, SkipKeepsOffload
  <2>2. phase' = "fuse"
    BY <1>3 DEF SkipCpu, partVars
  <2> QED BY <1>1, <2>1, <2>2 DEF OffloadInv, NoSubgraphRejected
<1>4. CASE Cluster
  <2>1. FuseInv'
    BY <1>4, ClusterStartsOffload
  <2>2. phase' = "fuse"
    BY <1>4 DEF Cluster
  <2> QED BY <1>1, <2>1, <2>2 DEF OffloadInv, NoSubgraphRejected
<1>5. CASE Partition
  <2>1. phase \in {"merge", "scan"} /\ phase' \in {"merge", "scan", "labelled"}
    BY <1>5 DEF Partition, PartNext, MergeNeighbours, StartScan, PopNode, EndScan,
                FuseChild, PassChild
  <2>2. meta_defs' = << >>
    BY <1>5, <2>1 DEF Partition, fuseVars, OffloadInv
  <2> QED BY <1>1, <2>1, <2>2 DEF OffloadInv, NoSubgraphRejected
<1>6. CASE UNCHANGED ddVars
  <2>1. /\ UNCHANGED <<edges, property, labels, phase>>
        /\ UNCHANGED <<graph, meta_defs, clone, clusters_to_fuse>>
    BY <1>6 DEF ddVars, partVars, fuseVars
  <2>2. FuseInv => FuseInv'
    <3>1. Offloaded' = Offloaded
      BY <2>1 DEF Offloaded
    <3>2. Shaped(graph, Offloaded) => Shaped(graph, Offloaded)'
      BY <2>1, <3>1, SameBoundary DEF Shaped, StandsFor, NobodyNeeds
    <3>3. HoldersInv => HoldersInv'
      BY <2>1, <3>1, SameBoundary DEF HoldersInv, Holders
    <3> QED BY <2>1, <3>2, <3>3, SameBoundary DEF FuseInv
  <2> QED BY <1>1, <2>1, <2>2 DEF OffloadInv, NoSubgraphRejected
<1> QED BY <1>2, <1>3, <1>4, <1>5, <1>6 DEF DDNext, Offload

LEMMA OffloadInvariant == DDSpec => []OffloadInv
<1>1. DDInit => OffloadInv
  BY PartInitInv, InitGraph DEF DDInit, PartInit, OffloadInv, DDInv, NoSubgraphRejected
<1> QED BY <1>1, OffloadInductive, PTL DEF DDSpec

(* For every model and every partition the code can come to: none of the   *)
(* fatal checks of try_fuse and virtual_fuse ever fails.                   *)
THEOREM NothingRejected == DDSpec => []NoSubgraphRejected
<1>1. OffloadInv => NoSubgraphRejected
  BY DEF OffloadInv
<1> QED BY <1>1, OffloadInvariant, PTL

(* For every model: each subgraph whose turn has come is computed by       *)
(* exactly one meta_def, which computes nothing else of the clone, and     *)
(* CPU nodes by none.                                                      *)
THEOREM OffloadedOnce == DDSpec => []OffloadComplete
<1>1. OffloadInv => OffloadComplete
  <2> SUFFICES ASSUME OffloadInv, phase = "fuse", NEW n \in Node
               PROVE  IF property[n] = "AIE" /\ labels[n] \notin clusters_to_fuse
                      THEN /\ Cardinality(Holders(n)) = 1
                           /\ \A i \in Holders(n) :
                                meta_defs[i].nodes \cap Node = Subgraph(labels[n])
                      ELSE Holders(n) = {}
    BY DEF OffloadComplete, Holders
  <2>1. IF labels[n] \in Offloaded
        THEN \E i : /\ Holders(n) = {i}
                    /\ meta_defs[i].nodes \cap Node = Subgraph(labels[n])
        ELSE Holders(n) = {}
    BY DEF OffloadInv, FuseInv, HoldersInv
  <2>2. CASE property[n] = "AIE" /\ labels[n] \notin clusters_to_fuse
    <3>1. labels[n] \in Offloaded
      BY <2>2 DEF Offloaded
    <3>2. PICK i : Holders(n) = {i} /\ meta_defs[i].nodes \cap Node = Subgraph(labels[n])
      BY <2>1, <3>1
    <3>3. Cardinality(Holders(n)) = 1
      BY <3>2, FS_Singleton
    <3> QED BY <2>2, <3>2, <3>3
  <2>3. CASE property[n] # "AIE" \/ labels[n] \in clusters_to_fuse
    <3>1. labels[n] \notin Offloaded
      <4>1. ASSUME NEW m \in Node, property[m] = "AIE", labels[m] = labels[n], property[n] # "AIE"
            PROVE  FALSE
        BY <4>1 DEF OffloadInv, DDInv, PartInv, OneTarget
      <4> QED BY <2>3, <4>1 DEF Offloaded
    <3> QED BY <2>1, <2>3, <3>1
  <2> QED BY <2>2, <2>3
<1> QED BY <1>1, OffloadInvariant, PTL
=============================================================================
