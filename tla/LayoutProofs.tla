---------------------------- MODULE LayoutProofs ----------------------------
(***************************************************************************)
(* The names and the shapes of the graph of Level1Dpu: what a search from  *)
(* the outputs visits, what composing and undoing orders does to a shape,  *)
(* and, rule by rule, that the args of every node exist and its shape      *)
(* follows from theirs.                                                    *)
(***************************************************************************)
EXTENDS Level1DpuProofs, FiniteSetTheorems, WellFoundedInduction

LEMMA SmallestNat ==
  ASSUME NEW T, T \subseteq Nat, T # {}
  PROVE  \E x \in T : \A y \in T : x <= y
<1>1. IsWellFoundedOn(OpToRel(<, Nat), Nat)
  BY NatLessThanWellFounded
<1>2. PICK x \in T : \A y \in T : ~(<<y, x>> \in OpToRel(<, Nat))
  BY <1>1, WFMin
<1>3. \A y \in T : ~(y < x)
  BY <1>2 DEF OpToRel
<1> QED BY <1>3

-----------------------------------------------------------------------------
(* A search that stays among finitely many nodes ends with the least       *)
(* closed set.                                                             *)
More(C, E) == C \cup {e[2] : e \in {e \in E : e[1] \in C}}

LEMMA MoreFacts ==
  ASSUME NEW N, NEW E, \A e \in E : e[1] \in N => e[2] \in N, NEW C \in SUBSET N
  PROVE  /\ More(C, E) \in SUBSET N /\ C \subseteq More(C, E)
         /\ More(C, E) = C => Reached(C, E, N) = C
         /\ Reached(More(C, E), E, N) = Reached(C, E, N)
<1>1. More(C, E) \in SUBSET N /\ C \subseteq More(C, E)
  BY DEF More
<1>2. \A D \in SUBSET N :
        C \subseteq D /\ IsClosed(D, E) <=> More(C, E) \subseteq D /\ IsClosed(D, E)
  BY DEF More, IsClosed
<1>3. Reached(More(C, E), E, N) = Reached(C, E, N)
  BY <1>2 DEF Reached
<1>4. ASSUME More(C, E) = C PROVE Reached(C, E, N) = C
  <2>1. IsClosed(C, E)
    BY <1>4 DEF More, IsClosed
  <2> QED BY <2>1 DEF Reached
<1> QED BY <1>1, <1>3, <1>4

LEMMA SearchedIsReached ==
  ASSUME NEW N, IsFiniteSet(N), NEW E, \A e \in E : e[1] \in N => e[2] \in N,
         NEW S \in SUBSET N
  PROVE  Searched(S, E, N) = Reached(S, E, N)
<1> DEFINE Step1(f, C) == IF More(C, E) = C THEN C ELSE f[More(C, E)]
           Solves(f) == f = [C \in SUBSET N |-> Step1(f, C)]
           search == CHOOSE f : Solves(f)
<1>1. Searched(S, E, N) = search[S]
  BY DEF Searched, More
<1>2. Solves(search)
  <2> DEFINE least == [C \in SUBSET N |-> Reached(C, E, N)]
  <2>1. \A C \in SUBSET N : least[C] = Step1(least, C)
    BY MoreFacts
  <2>2. Solves(least)
    BY <2>1
  <2> QED BY <2>2
<1> HIDE DEF search
<1>3. \A C \in SUBSET N : search[C] = IF More(C, E) = C THEN C ELSE search[More(C, E)]
  BY <1>2
<1> DEFINE wrong == {C \in SUBSET N : search[C] # Reached(C, E, N)}
           sizes == {Cardinality(N \ C) : C \in wrong}
<1>4. ASSUME wrong # {} PROVE FALSE
  <2>1. \A C \in SUBSET N : IsFiniteSet(N \ C) /\ Cardinality(N \ C) \in Nat
    BY FS_Subset, FS_CardinalityType
  <2>2. sizes \subseteq Nat /\ sizes # {}
    BY <1>4, <2>1
  <2>3. PICK least \in sizes : \A k \in sizes : least <= k
    BY <2>2, SmallestNat
  <2>4. PICK C \in wrong : least = Cardinality(N \ C)
    OBVIOUS
  <2>5. /\ More(C, E) \in SUBSET N /\ C \subseteq More(C, E)
        /\ Reached(More(C, E), E, N) = Reached(C, E, N)
        /\ More(C, E) = C => Reached(C, E, N) = C
    BY MoreFacts
  <2>6. More(C, E) # C /\ search[C] = search[More(C, E)]
    BY <1>3, <2>5
  <2>7. More(C, E) \in wrong
    BY <2>5, <2>6
  <2> DEFINE before == N \ C
             after == N \ More(C, E)
  <2>8. after \in SUBSET before /\ after # before
    BY <2>5, <2>6
  <2>9. /\ IsFiniteSet(before)
        /\ Cardinality(before) \in Nat /\ Cardinality(after) \in Nat
    BY <2>1, <2>5
  <2> HIDE DEF before, after
  <2>10. Cardinality(after) < Cardinality(before)
    BY <2>8, <2>9, FS_Subset
  <2>11. Cardinality(after) \in sizes
    BY <2>7 DEF after
  <2>12. least = Cardinality(before) /\ least <= Cardinality(after)
    BY <2>3, <2>4, <2>11 DEF before
  <2> QED BY <2>9, <2>10, <2>12
<1> QED BY <1>1, <1>4

-----------------------------------------------------------------------------
(* Orders can be composed and undone, and so can what they do to a shape.  *)
LEMMA OrderIsOneToOne ==
  ASSUME NEW o \in Orders
  PROVE  /\ o \in [1..3 -> 1..3] /\ \A k \in 1..3 : \E i \in 1..3 : o[i] = k
         /\ \A i, k \in 1..3 : o[i] = o[k] => i = k
<1>1. o \in [1..3 -> 1..3] /\ \A k \in 1..3 : \E i \in 1..3 : o[i] = k
  BY DEF Orders
<1>2. 1..3 = {1, 2, 3}
  OBVIOUS
<1>3. /\ o[1] \in {1, 2, 3} /\ o[2] \in {1, 2, 3} /\ o[3] \in {1, 2, 3}
      /\ o[1] = 1 \/ o[2] = 1 \/ o[3] = 1
      /\ o[1] = 2 \/ o[2] = 2 \/ o[3] = 2
      /\ o[1] = 3 \/ o[2] = 3 \/ o[3] = 3
  BY <1>1, <1>2
<1>4. o[1] # o[2] /\ o[1] # o[3] /\ o[2] # o[3]
  BY <1>3
<1>5. \A i, k \in 1..3 : o[i] = o[k] => i = k
  BY <1>2, <1>4
<1> QED BY <1>1, <1>5

LEMMA OrderUndone ==
  ASSUME NEW o \in Orders
  PROVE  /\ undo_order(o) \in Orders
         /\ \A k \in 1..3 : o[undo_order(o)[k]] = k /\ undo_order(o)[o[k]] = k
<1> DEFINE u == undo_order(o)
<1>1. /\ o \in [1..3 -> 1..3] /\ \A k \in 1..3 : \E i \in 1..3 : o[i] = k
      /\ \A i, k \in 1..3 : o[i] = o[k] => i = k
  BY OrderIsOneToOne
<1>2. u = [k \in 1..3 |-> CHOOSE i \in 1..3 : o[i] = k]
  BY <1>1 DEF undo_order
<1>3. \A k \in 1..3 : u[k] \in 1..3 /\ o[u[k]] = k
  <2> TAKE k \in 1..3
  <2>1. u[k] = CHOOSE i \in 1..3 : o[i] = k
    BY <1>2
  <2> HIDE DEF u
  <2> QED BY <1>1, <2>1
<1>4. u \in [1..3 -> 1..3]
  BY <1>2, <1>3
<1> HIDE DEF u
<1>5. \A k \in 1..3 : o[k] \in 1..3 /\ u[o[k]] = k
  BY <1>1, <1>3
<1>6. u \in Orders
  BY <1>4, <1>5 DEF Orders
<1> QED BY <1>3, <1>5, <1>6 DEF u

LEMMA OrdersComposed ==
  ASSUME NEW o \in Orders, NEW p \in Orders
  PROVE  Permuted(o, p) \in Orders /\ \A k \in 1..3 : Permuted(o, p)[k] = o[p[k]]
<1>1. /\ o \in [1..3 -> 1..3] /\ \A k \in 1..3 : \E i \in 1..3 : o[i] = k
      /\ p \in [1..3 -> 1..3] /\ \A k \in 1..3 : \E i \in 1..3 : p[i] = k
  BY DEF Orders
<1>2. Permuted(o, p) = [k \in 1..3 |-> o[p[k]]]
  BY <1>1 DEF Permuted
<1>3. Permuted(o, p) \in [1..3 -> 1..3]
  BY <1>1, <1>2
<1>4. \A k \in 1..3 : \E i \in 1..3 : o[p[i]] = k
  BY <1>1
<1> QED BY <1>2, <1>3, <1>4 DEF Orders

LEMMA PermutedTwice ==
  ASSUME NEW s, NEW o \in Orders, NEW p \in Orders
  PROVE  Permuted(Permuted(s, o), p) = Permuted(s, Permuted(o, p))
<1>1. o \in [1..3 -> 1..3] /\ p \in [1..3 -> 1..3]
  BY DEF Orders
<1>2. \A k \in 1..3 : p[k] \in 1..3 /\ Permuted(s, o)[p[k]] = s[o[p[k]]]
  BY <1>1 DEF Permuted
<1>3. Permuted(Permuted(s, o), p) = [k \in 1..3 |-> s[o[p[k]]]]
  BY <1>1, <1>2 DEF Permuted
<1>4. Permuted(s, Permuted(o, p)) = [k \in 1..3 |-> s[o[p[k]]]]
  BY <1>1 DEF Permuted
<1> QED BY <1>3, <1>4

LEMMA PermutedBack ==
  ASSUME NEW T, NEW s \in [1..3 -> T], NEW o \in Orders
  PROVE  /\ Permuted(s, o) \in [1..3 -> T]
         /\ Permuted(Permuted(s, o), undo_order(o)) = s
         /\ Permuted(Permuted(s, undo_order(o)), o) = s
<1>1. o \in [1..3 -> 1..3]
  BY DEF Orders
<1>2. /\ undo_order(o) \in Orders /\ undo_order(o) \in [1..3 -> 1..3]
      /\ \A k \in 1..3 : o[undo_order(o)[k]] = k /\ undo_order(o)[o[k]] = k
  BY OrderUndone DEF Orders
<1>3. Permuted(s, o) \in [1..3 -> T]
  BY <1>1 DEF Permuted
<1>4. Permuted(s, Permuted(o, undo_order(o))) = s
  BY <1>1, <1>2 DEF Permuted
<1>5. Permuted(s, Permuted(undo_order(o), o)) = s
  BY <1>1, <1>2 DEF Permuted
<1> QED BY <1>2, <1>3, <1>4, <1>5, PermutedTwice

LEMMA LayoutIsOrder == NCHW2NHWC \in Orders
<1>1. NCHW2NHWC \in [1..3 -> 1..3]
  BY DEF NCHW2NHWC
<1>2. NCHW2NHWC[3] = 1 /\ NCHW2NHWC[1] = 2 /\ NCHW2NHWC[2] = 3
  BY DEF NCHW2NHWC
<1>3. \A k \in 1..3 : k = 1 \/ k = 2 \/ k = 3
  OBVIOUS
<1> QED BY <1>1, <1>2, <1>3 DEF Orders

-----------------------------------------------------------------------------
(* The nodes of a graph: how many args each reads, that the args exist,    *)
(* and that its shape follows from theirs.                                 *)
Kinds == {"input", "initializer", "const", "relu", "fix", "transpose", "add", "conv_nchw", "conv"}
Shapes == [1..3 -> Nat]

IsNode(g, n) ==
  /\ g[n].op \in Kinds /\ g[n].shape \in Shapes
  /\ g[n].op = "transpose" => g[n].order \in Orders
  /\ DOMAIN g[n].in = 1..Arity(g[n].op)
  /\ \A i \in DOMAIN g[n].in : g[n].in[i] \in DOMAIN g
  /\ HasShape(g, n)
AllNodes(g) == \A n \in DOMAIN g : IsNode(g, n)

LEMMA ModelNodes == ASSUME NEW g \in Models PROVE AllNodes(g)
<1>1. IsModel(g) /\ MaxOp \in Nat
  BY DpuAssumption
<1>2. SUFFICES ASSUME NEW n \in DOMAIN g PROVE IsNode(g, n)
  BY DEF AllNodes
<1>3. /\ DOMAIN g = 0..MaxOp /\ g[n].shape \in Shapes /\ HasShape(g, n)
      /\ DOMAIN g[n].in = 1..Arity(g[n].op)
  BY <1>1 DEF IsModel, Shapes
<1>4. CASE n \in {Input, Weight}
  <2>1. g[n].op \in {"input", "initializer"}
    BY <1>1, <1>4 DEF IsModel
  <2>2. DOMAIN g[n].in = {}
    BY <1>3, <2>1 DEF Arity
  <2> QED BY <1>3, <2>1, <2>2 DEF IsNode, Kinds
<1>5. CASE n \in Ops
  <2>1. /\ g[n].op \in {"relu", "fix", "transpose", "add", "conv_nchw"}
        /\ g[n].op = "transpose" => g[n].order \in Orders
        /\ \A i \in DOMAIN g[n].in : g[n].in[i] \in 0..(n - 1)
    BY <1>1, <1>5 DEF IsModel
  <2>2. 0..(n - 1) \subseteq 0..MaxOp
    BY <1>1, <1>3
  <2> QED BY <1>3, <2>1, <2>2 DEF IsNode, Kinds
<1> QED BY <1>1, <1>3, <1>4, <1>5 DEF Ops, Input, Weight

(* A node is put into a graph, as a new one or in place of one of the same *)
(* shape.                                                                  *)
LEMMA PutNode ==
  ASSUME NEW g, AllNodes(g), NEW n, NEW op \in Kinds, NEW in, NEW order,
         NEW shape \in Shapes, n \in DOMAIN g => shape = g[n].shape,
         op = "transpose" => order \in Orders,
         DOMAIN in = 1..Arity(op),
         \A i \in DOMAIN in :
           /\ in[i] \in DOMAIN g
           /\ shape = IF op = "transpose" THEN Permuted(g[in[i]].shape, order)
                      ELSE g[in[i]].shape
  PROVE  AllNodes(Put(g, n, Node(op, in, order, shape)))
<1> DEFINE node == Node(op, in, order, shape)
<1> HIDE DEF node
<1> DEFINE h == Put(g, n, node)
<1>1. /\ DOMAIN h = DOMAIN g \cup {n} /\ h[n] = node
      /\ \A m \in DOMAIN g : m # n => h[m] = g[m]
  BY DEF Put
<1>2. node.op = op /\ node.in = in /\ node.order = order /\ node.shape = shape
  BY DEF node, Node
<1> HIDE DEF h
<1>3. \A m \in DOMAIN g : m \in DOMAIN h /\ h[m].shape = g[m].shape
  BY <1>1, <1>2
<1>4. IsNode(h, n)
  <2>1. HasShape(h, n)
    BY <1>1, <1>2, <1>3 DEF HasShape
  <2>2. \A i \in DOMAIN in : in[i] \in DOMAIN h
    BY <1>3
  <2> QED BY <1>1, <1>2, <2>1, <2>2 DEF IsNode
<1>5. ASSUME NEW m \in DOMAIN g, m # n PROVE IsNode(h, m)
  <2>1. h[m] = g[m] /\ IsNode(g, m)
    BY <1>1, <1>5 DEF AllNodes
  <2> QED BY <1>3, <2>1 DEF IsNode, HasShape
<1> QED BY <1>1, <1>4, <1>5 DEF AllNodes, h, node

(* The args a node reads, by the kind of node.                             *)
LEMMA ReadsByKind ==
  ASSUME NEW g, AllNodes(g), NEW n \in DOMAIN g
  PROVE  /\ g[n].shape \in Shapes
         /\ g[n].op \in {"relu", "fix"} =>
              g[n].in[1] \in DOMAIN g /\ g[n].shape = g[g[n].in[1]].shape
         /\ g[n].op = "transpose" =>
              /\ g[n].in[1] \in DOMAIN g /\ g[n].order \in Orders
              /\ g[n].shape = Permuted(g[g[n].in[1]].shape, g[n].order)
         /\ g[n].op \in {"add", "conv_nchw", "conv"} => \A i \in {1, 2} :
              g[n].in[i] \in DOMAIN g /\ g[n].shape = g[g[n].in[i]].shape
         /\ IsSource(g, n) \/ g[n].op = "const" => DOMAIN g[n].in = {}
<1>1. IsNode(g, n)
  BY DEF AllNodes
<1> QED BY <1>1 DEF IsNode, HasShape, IsSource, Arity

LEMMA Arguments ==
  /\ DOMAIN << >> = 1..Arity("const")
  /\ \A x : DOMAIN <<x>> = 1..Arity("transpose") /\ DOMAIN <<x>> = 1..Arity("fix")
  /\ \A x, y : DOMAIN <<x, y>> = 1..Arity("add") /\ DOMAIN <<x, y>> = 1..Arity("conv")
<1>1. /\ Arity("const") = 0 /\ Arity("transpose") = 1 /\ Arity("fix") = 1
      /\ Arity("add") = 2 /\ Arity("conv") = 2
  BY DEF Arity
<1>2. /\ DOMAIN << >> = 1..0 /\ \A x : DOMAIN <<x>> = 1..1
      /\ \A x, y : DOMAIN <<x, y>> = 1..2
  OBVIOUS
<1> QED BY <1>1, <1>2

LEMMA PutConst ==
  ASSUME NEW g, AllNodes(g), NEW n, NEW shape \in Shapes, n \in DOMAIN g => shape = g[n].shape
  PROVE  AllNodes(Put(g, n, Node("const", << >>, << >>, shape)))
<1> DEFINE in == << >>
<1>1. DOMAIN in = {} /\ DOMAIN in = 1..Arity("const") /\ "const" \in Kinds
  BY Arguments DEF Kinds
<1> HIDE DEF in
<1>2. AllNodes(Put(g, n, Node("const", in, << >>, shape)))
  BY <1>1, PutNode
<1> QED BY <1>2 DEF in

LEMMA PutTransposeOf ==
  ASSUME NEW g, AllNodes(g), NEW n, NEW shape \in Shapes, n \in DOMAIN g => shape = g[n].shape,
         NEW x \in DOMAIN g, NEW order \in Orders, shape = Permuted(g[x].shape, order),
         NEW in, DOMAIN in = 1..Arity("transpose"), \A i \in DOMAIN in : in[i] = x
  PROVE  AllNodes(Put(g, n, Node("transpose", in, order, shape)))
<1>1. "transpose" \in Kinds
  BY DEF Kinds
<1> QED BY <1>1, PutNode

LEMMA PutTranspose ==
  ASSUME NEW g, AllNodes(g), NEW n, NEW shape \in Shapes, n \in DOMAIN g => shape = g[n].shape,
         NEW x \in DOMAIN g, NEW order \in Orders, shape = Permuted(g[x].shape, order)
  PROVE  AllNodes(Put(g, n, Node("transpose", <<x>>, order, shape)))
<1> DEFINE in == <<x>>
<1>1. DOMAIN in = 1..Arity("transpose") /\ \A i \in DOMAIN in : in[i] = x
  BY Arguments
<1> HIDE DEF in
<1>2. AllNodes(Put(g, n, Node("transpose", in, order, shape)))
  BY <1>1, PutTransposeOf
<1> QED BY <1>2 DEF in

LEMMA PutElementwise ==
  ASSUME NEW g, AllNodes(g), NEW n, NEW shape \in Shapes, n \in DOMAIN g => shape = g[n].shape,
         NEW op \in {"relu", "fix", "add", "conv"}, NEW in, DOMAIN in = 1..Arity(op),
         \A i \in DOMAIN in : in[i] \in DOMAIN g /\ g[in[i]].shape = shape
  PROVE  AllNodes(Put(g, n, Node(op, in, << >>, shape)))
<1>1. op # "transpose" /\ op \in Kinds
  BY DEF Kinds
<1> QED BY <1>1, PutNode

-----------------------------------------------------------------------------
(* Every step leaves a graph of such nodes, and those that were there; the *)
(* garbage collection keeps what the outputs depend on.                    *)
LEMMA SearchStaysInGraph ==
  ASSUME NEW g, AllNodes(g), IsFiniteSet(DOMAIN g), NEW S
  PROVE  /\ Reachable(S, g) \subseteq DOMAIN g
         /\ S \cap DOMAIN g \subseteq Reachable(S, g)
         /\ \A n \in Reachable(S, g) : \A i \in DOMAIN g[n].in : g[n].in[i] \in Reachable(S, g)
<1> DEFINE E == ReadsOf(g)
           R == Reached(S \cap DOMAIN g, E, DOMAIN g)
<1>1. \A e \in E : e[1] \in DOMAIN g => e[2] \in DOMAIN g
  BY DEF ReadsOf, AllNodes, IsNode
<1>2. \A n \in DOMAIN g : \A i \in DOMAIN g[n].in : <<n, g[n].in[i]>> \in E
  BY DEF ReadsOf
<1> HIDE DEF E
<1>3. Searched(S \cap DOMAIN g, E, DOMAIN g) = R
  BY <1>1, SearchedIsReached
<1>4. Reachable(S, g) = R
  BY <1>3 DEF Reachable, E
<1>5. ASSUME NEW n \in R, NEW i \in DOMAIN g[n].in PROVE g[n].in[i] \in R
  <2>1. n \in DOMAIN g
    BY DEF Reached
  <2>2. <<n, g[n].in[i]>> \in E
    BY <1>2, <2>1
  <2>3. g[n].in[i] \in DOMAIN g
    BY <2>1 DEF AllNodes, IsNode
  <2>4. \A C \in SUBSET DOMAIN g : n \in C /\ IsClosed(C, E) => g[n].in[i] \in C
    BY <2>2 DEF IsClosed
  <2> QED BY <2>3, <2>4 DEF Reached
<1> QED BY <1>4, <1>5 DEF Reached

LEMMA GcNodes ==
  ASSUME NEW g, AllNodes(g), IsFiniteSet(DOMAIN g)
  PROVE  /\ AllNodes(graph_gc(g)) /\ outputs \cap DOMAIN g \subseteq DOMAIN graph_gc(g)
<1> DEFINE h == graph_gc(g)
<1>1. /\ DOMAIN h = {n \in DOMAIN g : n \in Live(g) \/ IsSource(g, n)}
      /\ \A n \in DOMAIN h : h[n] = g[n]
  BY DEF graph_gc
<1>2. /\ outputs \cap DOMAIN g \subseteq Live(g)
      /\ \A n \in Live(g) : \A i \in DOMAIN g[n].in : g[n].in[i] \in Live(g)
      /\ Live(g) \subseteq DOMAIN g
  BY SearchStaysInGraph DEF Live
<1> HIDE DEF h
<1>3. ASSUME NEW n \in DOMAIN h PROVE IsNode(h, n)
  <2>1. IsNode(g, n) /\ h[n] = g[n] /\ n \in DOMAIN g
    BY <1>1 DEF AllNodes
  <2>2. IsSource(g, n) => DOMAIN g[n].in = {}
    BY <2>1, ReadsByKind
  <2>3. \A i \in DOMAIN g[n].in : g[n].in[i] \in DOMAIN h
    BY <1>1, <1>2, <2>2
  <2>4. HasShape(h, n)
    BY <1>1, <2>1, <2>3 DEF IsNode, HasShape
  <2> QED BY <2>1, <2>3, <2>4 DEF IsNode
<1> QED BY <1>1, <1>2, <1>3 DEF AllNodes, h

LEMMA StartNodes ==
  ASSUME model \in Models, Start PROVE AllNodes(clone') /\ DOMAIN clone' = DOMAIN model
<1>1. AllNodes(model) /\ DOMAIN model = 0..MaxOp /\ Weight \in DOMAIN model
  BY ModelNodes, DpuAssumption DEF IsModel, Weight
<1> DEFINE h == Put(model, Weight, Node("const", << >>, << >>, model[Weight].shape))
<1>2. AllNodes(h) /\ DOMAIN h = DOMAIN model
  <2>1. model[Weight].shape \in Shapes
    BY <1>1 DEF AllNodes, IsNode
  <2>2. AllNodes(h)
    BY <1>1, <2>1, PutConst
  <2> QED BY <1>1, <2>2 DEF Put
<1>3. [model EXCEPT ![Weight] = Node("const", << >>, << >>, @.shape)] = h
  BY <1>1 DEF Put
<1> QED BY <1>1, <1>2, <1>3 DEF Start

(* n becomes a constant.                                                   *)
LEMMA ConstNodes ==
  ASSUME AllNodes(clone), NEW n \in DOMAIN clone,
         clone' = Put(clone, n, Node("const", << >>, << >>, clone[n].shape))
  PROVE  AllNodes(clone') /\ DOMAIN clone' = DOMAIN clone
<1>1. clone[n].shape \in Shapes
  BY DEF AllNodes, IsNode
<1>2. AllNodes(clone')
  BY <1>1, PutConst
<1> QED BY <1>2 DEF Put

Fresh == suffix \in Nat /\ \A m \in DOMAIN clone : m \in Nat /\ m < suffix

(* y takes the place of n, as the transpose of new, whose shape is that of *)
(* n transposed back.                                                      *)
LEMMA ShapeUndone ==
  ASSUME NEW s \in Shapes, NEW shape, NEW order \in Orders, shape = Permuted(s, order)
  PROVE  shape \in Shapes /\ undo_transpose_shape(shape, order) = s
BY PermutedBack DEF Shapes, undo_transpose_shape

LEMMA SisoNodes ==
  ASSUME AllNodes(clone), Fresh, NEW n \in DOMAIN clone, SisoRule(n)
  PROVE  AllNodes(clone') /\ DOMAIN clone' = DOMAIN clone \cup {suffix}
<1> DEFINE t == Arg(n, 1)
           x == Arg(t, 1)
           order == Order(t)
           op == clone[n].op
           in == clone[t].in
           shape == clone[n].shape
           g == Put(clone, suffix, Node(op, in, << >>, clone[x].shape))
           h == Put(g, n, Node("transpose", <<suffix>>, order, shape))
<1>1. op \in {"relu", "fix"} /\ t \in DOMAIN clone /\ clone[t].op = "transpose"
  BY DEF SisoRule, MatchesSiso, Transposes, IsOp
<1>2. shape = clone[t].shape /\ shape \in Shapes
  BY <1>1, ReadsByKind DEF Arg
<1>3. /\ x \in DOMAIN clone /\ order \in Orders
      /\ clone[t].shape = Permuted(clone[x].shape, order)
  BY <1>1, ReadsByKind DEF Arg, Order
<1>4. clone[x].shape \in Shapes
  BY <1>3, ReadsByKind
<1>5. ShapeBefore(n, order) = clone[x].shape
  BY <1>2, <1>3, <1>4, ShapeUndone DEF ShapeBefore
<1>6. clone' = h
  BY <1>5 DEF SisoRule, NewSiso, TransposeOfNew
<1>7. suffix \notin DOMAIN clone
  BY DEF Fresh
<1>8. DOMAIN in = 1..Arity(op) /\ \A i \in DOMAIN in : in[i] = x
  <2>1. DOMAIN in = 1..Arity("transpose")
    BY <1>1 DEF AllNodes, IsNode
  <2>2. Arity("transpose") = 1 /\ Arity(op) = 1
    BY <1>1 DEF Arity
  <2> QED BY <2>1, <2>2 DEF Arg
<1> HIDE DEF x, in, order
<1>9. AllNodes(g)
  BY <1>1, <1>3, <1>4, <1>7, <1>8, PutElementwise
<1>10. /\ DOMAIN g = DOMAIN clone \cup {suffix} /\ g[suffix].shape = clone[x].shape
       /\ g[n] = clone[n]
  BY <1>7 DEF Put, Node
<1> HIDE DEF g
<1>11. AllNodes(h)
  BY <1>2, <1>3, <1>9, <1>10, PutTranspose
<1> QED BY <1>6, <1>10, <1>11 DEF Put

LEMMA TransposeTransposeNodes ==
  ASSUME AllNodes(clone), NEW n \in DOMAIN clone, TransposeTransposeRule(n)
  PROVE  AllNodes(clone') /\ DOMAIN clone' = DOMAIN clone
<1> DEFINE t == Arg(n, 1)
           x == Arg(t, 1)
           shape == clone[n].shape
           order == Permuted(Order(t), Order(n))
<1>1. clone[n].op = "transpose" /\ t \in DOMAIN clone /\ clone[t].op = "transpose"
  BY DEF TransposeTransposeRule, MatchesTransposeTranspose, Transposes, IsOp
<1>2. /\ shape \in Shapes /\ shape = Permuted(clone[t].shape, Order(n)) /\ Order(n) \in Orders
  BY <1>1, ReadsByKind DEF Arg, Order
<1>3. /\ x \in DOMAIN clone /\ Order(t) \in Orders
      /\ clone[t].shape = Permuted(clone[x].shape, Order(t))
  BY <1>1, ReadsByKind DEF Arg, Order
<1>4. order \in Orders /\ shape = Permuted(clone[x].shape, order)
  BY <1>2, <1>3, OrdersComposed, PermutedTwice
<1>5. DOMAIN clone[t].in = 1..Arity("transpose") /\ \A i \in DOMAIN clone[t].in : clone[t].in[i] = x
  <2>1. DOMAIN clone[t].in = 1..Arity("transpose") /\ Arity("transpose") = 1
    BY <1>1 DEF AllNodes, IsNode, Arity
  <2> QED BY <2>1 DEF Arg
<1>6. clone' = Put(clone, n, Node("transpose", clone[t].in, order, shape))
  BY DEF TransposeTransposeRule, TransposeOfArg
<1> HIDE DEF x, order
<1>7. AllNodes(clone')
  BY <1>2, <1>3, <1>4, <1>5, <1>6, PutTransposeOf
<1> QED BY <1>6, <1>7 DEF Put

LEMMA BroadcastNodes ==
  ASSUME AllNodes(clone), Fresh, NEW n \in DOMAIN clone, BroadcastRule(n)
  PROVE  AllNodes(clone') /\ DOMAIN clone' = DOMAIN clone \cup {suffix}
<1> DEFINE t == Arg(n, 1)
           u == Arg(n, 2)
           x == Arg(t, 1)
           y == Arg(u, 1)
           in == <<x, y>>
           order == Order(t)
           shape == clone[n].shape
           g == Put(clone, suffix, Node("add", in, << >>, clone[x].shape))
           h == Put(g, n, Node("transpose", <<suffix>>, order, shape))
<1>1. /\ clone[n].op = "add" /\ t \in DOMAIN clone /\ clone[t].op = "transpose"
      /\ u \in DOMAIN clone /\ clone[u].op = "transpose" /\ Order(u) = order
  BY DEF BroadcastRule, MatchesBroadcast, Transposes, IsOp
<1>2. shape = clone[t].shape /\ shape = clone[u].shape /\ shape \in Shapes
  BY <1>1, ReadsByKind DEF Arg
<1>3. /\ x \in DOMAIN clone /\ order \in Orders
      /\ clone[t].shape = Permuted(clone[x].shape, order)
      /\ y \in DOMAIN clone /\ clone[u].shape = Permuted(clone[y].shape, order)
  BY <1>1, ReadsByKind DEF Arg, Order
<1>4. clone[x].shape \in Shapes /\ clone[y].shape \in Shapes
  BY <1>3, ReadsByKind
<1>5. ShapeBefore(n, order) = clone[x].shape /\ clone[x].shape = clone[y].shape
  <2>1. shape = Permuted(clone[x].shape, order) /\ shape = Permuted(clone[y].shape, order)
    BY <1>2, <1>3
  <2> HIDE DEF x, y, order, shape
  <2>2. undo_transpose_shape(shape, order) = clone[x].shape
    BY <1>3, <1>4, <2>1, ShapeUndone
  <2>3. undo_transpose_shape(shape, order) = clone[y].shape
    BY <1>3, <1>4, <2>1, ShapeUndone
  <2> QED BY <2>2, <2>3 DEF ShapeBefore, shape
<1>6. clone' = h
  BY <1>5 DEF BroadcastRule, TransposeOfNew
<1>7. suffix \notin DOMAIN clone
  BY DEF Fresh
<1>8. DOMAIN in = 1..Arity("add") /\ \A i \in DOMAIN in : in[i] \in {x, y}
  <2> HIDE DEF x, y
  <2> QED BY Arguments
<1> HIDE DEF x, y, in, order
<1>9. AllNodes(g)
  BY <1>3, <1>4, <1>5, <1>7, <1>8, PutElementwise
<1>10. /\ DOMAIN g = DOMAIN clone \cup {suffix} /\ g[suffix].shape = clone[x].shape
       /\ g[n] = clone[n]
  BY <1>7 DEF Put, Node
<1> HIDE DEF g
<1>11. AllNodes(h)
  BY <1>2, <1>3, <1>9, <1>10, PutTranspose
<1> QED BY <1>6, <1>10, <1>11 DEF Put

LEMMA BroadcastConstNodes ==
  ASSUME AllNodes(clone), Fresh, NEW n \in DOMAIN clone, BroadcastConstRule(n)
  PROVE  AllNodes(clone') /\ DOMAIN clone' = DOMAIN clone \cup {suffix, suffix + 1}
<1>1. PICK i \in {1, 2} :
        LET t == Arg(n, i)
            c == Arg(n, 3 - i)
            new == suffix + 1
            args == Operands(i, Arg(t, 1), suffix)
        IN  /\ MatchesBroadcastConst(n) /\ Transposes(t) /\ IsOp(c, "const")
            /\ clone' = Put(Put(Put(clone,
                 suffix, Node("const", << >>, << >>, ShapeBefore(c, Order(t)))),
                 new, Node("add", args, << >>, ShapeBefore(n, Order(t)))),
                 n, TransposeOfNew(n, new, Order(t)))
  BY DEF BroadcastConstRule
<1> DEFINE t == Arg(n, i)
           c == Arg(n, 3 - i)
           x == Arg(t, 1)
           in == Operands(i, x, suffix)
           order == Order(t)
           shape == clone[n].shape
           f == Put(clone, suffix, Node("const", << >>, << >>, clone[x].shape))
           g == Put(f, suffix + 1, Node("add", in, << >>, clone[x].shape))
           h == Put(g, n, Node("transpose", <<suffix + 1>>, order, shape))
<1>2. /\ clone[n].op = "add" /\ t \in DOMAIN clone /\ clone[t].op = "transpose"
      /\ c \in DOMAIN clone
  BY <1>1 DEF MatchesBroadcastConst, Transposes, IsOp
<1>3. shape = clone[t].shape /\ shape = clone[c].shape /\ shape \in Shapes
  <2>1. i \in {1, 2} /\ 3 - i \in {1, 2}
    OBVIOUS
  <2> QED BY <1>2, <2>1, ReadsByKind DEF Arg
<1>4. /\ x \in DOMAIN clone /\ order \in Orders
      /\ clone[t].shape = Permuted(clone[x].shape, order)
  BY <1>2, ReadsByKind DEF Arg, Order
<1>5. clone[x].shape \in Shapes
  BY <1>4, ReadsByKind
<1>6. ShapeBefore(n, order) = clone[x].shape /\ ShapeBefore(c, order) = clone[x].shape
  BY <1>3, <1>4, <1>5, ShapeUndone DEF ShapeBefore
<1>7. clone' = h
  BY <1>1, <1>6 DEF TransposeOfNew
<1>8. suffix \notin DOMAIN clone /\ suffix + 1 \notin DOMAIN clone /\ suffix # suffix + 1
  BY DEF Fresh
<1>9. DOMAIN in = 1..Arity("add") /\ \A j \in DOMAIN in : in[j] \in {x, suffix}
  <2> HIDE DEF x
  <2>1. in = <<x, suffix>> \/ in = <<suffix, x>>
    BY DEF Operands
  <2>2. DOMAIN in = 1..Arity("add")
    <3> HIDE DEF in
    <3> QED BY <2>1, Arguments
  <2>3. DOMAIN in = 1..2
    BY <2>1
  <2> QED BY <2>1, <2>2, <2>3
<1> HIDE DEF x, in, order
<1>10. AllNodes(f)
  BY <1>5, <1>8, PutConst
<1>11. /\ DOMAIN f = DOMAIN clone \cup {suffix} /\ f[suffix].shape = clone[x].shape
       /\ \A m \in DOMAIN clone : f[m] = clone[m]
  BY <1>8 DEF Put, Node
<1> HIDE DEF f
<1>12. AllNodes(g)
  BY <1>4, <1>5, <1>8, <1>9, <1>10, <1>11, PutElementwise
<1>13. /\ DOMAIN g = DOMAIN clone \cup {suffix, suffix + 1}
       /\ g[suffix + 1].shape = clone[x].shape /\ g[n] = clone[n]
  BY <1>8, <1>11 DEF Put, Node
<1> HIDE DEF g
<1>14. AllNodes(h)
  BY <1>3, <1>4, <1>12, <1>13, PutTranspose
<1> QED BY <1>7, <1>13, <1>14 DEF Put

LEMMA AddTransposeNodes ==
  ASSUME AllNodes(clone), Fresh, NEW n \in DOMAIN clone, clone[n].op = "conv_nchw",
         AddTranspose(n)
  PROVE  /\ AllNodes(clone') /\ DOMAIN clone' = DOMAIN clone \cup {suffix, suffix + 1, suffix + 2}
         /\ Arg(n, 1) \in DOMAIN clone /\ Arg(n, 2) \in DOMAIN clone
<1> DEFINE x == Arg(n, 1)
           y == Arg(n, 2)
           nhwc == NCHW2NHWC
           shape == clone[n].shape
           inner == Permuted(shape, nhwc)
           in == <<suffix, suffix + 1>>
           f == Put(clone, suffix, Node("transpose", <<x>>, nhwc, inner))
           g == Put(f, suffix + 1, Node("transpose", <<y>>, nhwc, inner))
           h == Put(g, suffix + 2, Node("conv", in, << >>, inner))
           k == Put(h, n, Node("transpose", <<suffix + 2>>, undo_order(nhwc), shape))
<1>1. /\ x \in DOMAIN clone /\ clone[x].shape = shape /\ shape \in Shapes
      /\ y \in DOMAIN clone /\ clone[y].shape = shape
  BY ReadsByKind DEF Arg
<1>2. /\ nhwc \in Orders /\ undo_order(nhwc) \in Orders
      /\ inner \in Shapes /\ Permuted(inner, undo_order(nhwc)) = shape
  BY <1>1, LayoutIsOrder, OrderUndone, PermutedBack DEF Shapes
<1>3. clone' = k
  BY <1>1 DEF AddTranspose, TransposeOfNew
<1>4. /\ suffix \notin DOMAIN clone /\ suffix + 1 \notin DOMAIN clone
      /\ suffix + 2 \notin DOMAIN clone /\ suffix # suffix + 1 /\ suffix # suffix + 2
      /\ suffix + 1 # suffix + 2
  BY DEF Fresh
<1>5. DOMAIN in = 1..Arity("conv") /\ \A j \in DOMAIN in : in[j] \in {suffix, suffix + 1}
  BY Arguments
<1> HIDE DEF nhwc, x, y, inner, shape, in
<1>6. AllNodes(f)
  BY <1>1, <1>2, <1>4, PutTranspose DEF inner
<1>7. /\ DOMAIN f = DOMAIN clone \cup {suffix} /\ f[suffix].shape = inner
      /\ \A m \in DOMAIN clone : f[m] = clone[m]
  BY <1>4 DEF Put, Node
<1> HIDE DEF f
<1>8. AllNodes(g)
  <2>1. y \in DOMAIN f /\ inner = Permuted(f[y].shape, nhwc) /\ suffix + 1 \notin DOMAIN f
    BY <1>1, <1>4, <1>7 DEF inner
  <2> QED BY <1>2, <1>6, <2>1, PutTranspose
<1>9. /\ DOMAIN g = DOMAIN clone \cup {suffix, suffix + 1}
      /\ g[suffix].shape = inner /\ g[suffix + 1].shape = inner
      /\ \A m \in DOMAIN clone : g[m] = clone[m]
  BY <1>4, <1>7 DEF Put, Node
<1> HIDE DEF g
<1>10. AllNodes(h)
  <2>1. /\ suffix + 2 \notin DOMAIN g
        /\ \A j \in DOMAIN in : in[j] \in DOMAIN g /\ g[in[j]].shape = inner
    BY <1>4, <1>5, <1>9
  <2> QED BY <1>2, <1>5, <1>8, <2>1, PutElementwise
<1>11. /\ DOMAIN h = DOMAIN clone \cup {suffix, suffix + 1, suffix + 2}
       /\ h[suffix + 2].shape = inner /\ h[n] = clone[n]
  BY <1>4, <1>9 DEF Put, Node
<1> HIDE DEF h
<1>12. AllNodes(k)
  <2>1. n \in DOMAIN h /\ shape = h[n].shape /\ suffix + 2 \in DOMAIN h
    BY <1>11 DEF shape
  <2> QED BY <1>1, <1>2, <1>10, <1>11, <2>1, PutTranspose
<1>13. DOMAIN k = DOMAIN clone \cup {suffix, suffix + 1, suffix + 2}
  BY <1>11 DEF Put
<1> QED BY <1>1, <1>3, <1>12, <1>13 DEF x, y

LEMMA ConstAddFixNodes ==
  ASSUME AllNodes(clone), Fresh, NEW n \in DOMAIN clone, clone[n].op = "const", ConstAddFix(n)
  PROVE  AllNodes(clone') /\ DOMAIN clone' = DOMAIN clone \cup {suffix}
<1> DEFINE shape == clone[n].shape
           in == <<suffix>>
           g == Put(clone, suffix, clone[n])
           h == Put(g, n, Node("fix", in, << >>, shape))
<1>1. shape \in Shapes /\ suffix \notin DOMAIN clone
  BY ReadsByKind DEF Fresh
<1>2. DOMAIN in = 1..Arity("fix") /\ \A i \in DOMAIN in : in[i] = suffix
  BY Arguments
<1>3. clone' = h
  BY DEF ConstAddFix
<1>4. /\ DOMAIN g = DOMAIN clone \cup {suffix} /\ g[suffix] = clone[n]
      /\ \A m \in DOMAIN clone : g[m] = clone[m]
  BY <1>1 DEF Put
<1> HIDE DEF in, g
<1>5. AllNodes(g)
  <2>1. \A m \in DOMAIN g : \E k \in DOMAIN clone : g[m] = clone[k]
    BY <1>4
  <2>2. \A m \in DOMAIN clone : g[m].shape = clone[m].shape /\ m \in DOMAIN g
    BY <1>4
  <2>3. ASSUME NEW m \in DOMAIN g PROVE IsNode(g, m)
    <3>1. PICK k \in DOMAIN clone : g[m] = clone[k]
      BY <2>1
    <3>2. IsNode(clone, k)
      BY DEF AllNodes
    <3> QED BY <2>2, <3>1, <3>2 DEF IsNode, HasShape
  <2> QED BY <2>3 DEF AllNodes
<1>6. AllNodes(h)
  BY <1>1, <1>2, <1>4, <1>5, PutElementwise
<1> QED BY <1>3, <1>4, <1>6 DEF Put

-----------------------------------------------------------------------------
(* The invariant: the nodes are in order, and whatever names a node was    *)
(* made before the next name.                                              *)
NamesInv ==
  /\ phase \in {"start", "fold", "layout", "fuse", "add_fix", "export", "left"}
  /\ __current_graph \in {"model", "clone"}
  /\ suffix >= FirstNew
  /\ DOMAIN origin_nodes \subseteq Names(suffix) /\ fix_info \subseteq Names(suffix)
  /\ outputs \subseteq Ops
  /\ phase \notin {"start", "left"} => outputs \subseteq DOMAIN clone
  /\ todo \subseteq DOMAIN clone
  /\ phase = "start" => todo = {}

LayoutInv == GraphInv /\ NamesInv /\ AllNodes(clone)

LEMMA GraphIsFresh == GraphInv => Fresh /\ IsFiniteSet(DOMAIN clone)
<1> SUFFICES ASSUME GraphInv PROVE Fresh /\ IsFiniteSet(DOMAIN clone)
  OBVIOUS
<1>1. suffix \in Nat /\ DOMAIN clone \subseteq 0..(suffix - 1)
  BY DEF GraphInv, NamesAreOld, Names
<1>2. IsFiniteSet(0..(suffix - 1))
  BY <1>1, FS_Interval
<1>3. IsFiniteSet(DOMAIN clone)
  BY <1>1, <1>2, FS_Subset
<1> QED BY <1>1, <1>3 DEF Fresh

LEMMA MoreNames ==
  ASSUME NEW s \in Nat, NEW t \in Nat, t >= s
  PROVE  Names(s) \subseteq Names(t) /\ \A m \in s..(t - 1) : m \in Names(t)
BY DEF Names

LEMMA EndPassNodes ==
  ASSUME LayoutInv, NEW from, NEW to, EndPass(from, to), from \notin {"start", "left"},
         to \in {"layout", "fuse", "add_fix", "export"}, todo' \subseteq DOMAIN clone'
  PROVE  NamesInv' /\ AllNodes(clone')
<1>1. AllNodes(clone') /\ (outputs \subseteq DOMAIN clone => outputs \subseteq DOMAIN clone')
  BY GraphIsFresh, GcNodes DEF LayoutInv, EndPass
<1> QED BY <1>1 DEF LayoutInv, NamesInv, EndPass, frame

LEMMA StartLayout == ASSUME LayoutInv, Start PROVE NamesInv' /\ AllNodes(clone')
<1>1. model \in Models /\ AllNodes(clone') /\ DOMAIN clone' = DOMAIN model
  BY StartNodes DEF LayoutInv, GraphInv, AtStart
<1>2. DOMAIN model = 0..MaxOp /\ Ops \subseteq DOMAIN model
  BY <1>1, DpuAssumption DEF IsModel, Ops
<1> QED BY <1>1, <1>2 DEF LayoutInv, NamesInv, Start, frame

LEMMA FoldLayout ==
  ASSUME LayoutInv, NEW n \in DOMAIN clone, Fold(n) PROVE NamesInv' /\ AllNodes(clone')
<1>1. AllNodes(clone') /\ DOMAIN clone' = DOMAIN clone
  BY ConstNodes DEF LayoutInv, Fold
<1>2. n \in Names(suffix)
  BY DEF LayoutInv, GraphInv, NamesAreOld
<1> QED BY <1>1, <1>2 DEF LayoutInv, NamesInv, Fold, frame

LEMMA AddTransposeLayout ==
  ASSUME LayoutInv, NEW n \in DOMAIN clone, AddTranspose(n) PROVE NamesInv' /\ AllNodes(clone')
<1>1. clone[n].op = "conv_nchw" /\ Fresh
  BY GraphIsFresh DEF LayoutInv, GraphInv, TodoKinds, AddTranspose
<1>2. AllNodes(clone') /\ DOMAIN clone' = DOMAIN clone \cup {suffix, suffix + 1, suffix + 2}
  BY <1>1, AddTransposeNodes DEF LayoutInv
<1>3. /\ suffix' = suffix + 3 /\ suffix \in Nat
      /\ Names(suffix) \subseteq Names(suffix')
      /\ \A m \in {suffix, suffix + 1, suffix + 2} : m \in Names(suffix')
  BY <1>1 DEF AddTranspose, Fresh, Names
<1>4. /\ DOMAIN origin_nodes' \subseteq DOMAIN origin_nodes \cup {suffix, suffix + 1, suffix + 2}
      /\ fix_info' \subseteq fix_info \cup {suffix, suffix + 1}
  BY DEF AddTranspose, Put, copy_fix_info
<1>5. /\ phase = "layout" /\ UNCHANGED <<phase, outputs, __current_graph>>
      /\ todo' \subseteq todo
  BY DEF AddTranspose, frame
<1>6. DOMAIN origin_nodes' \subseteq Names(suffix') /\ fix_info' \subseteq Names(suffix')
  BY <1>3, <1>4 DEF LayoutInv, NamesInv
<1>7. FirstNew \in Nat
  BY DpuAssumption DEF FirstNew
<1> QED BY <1>2, <1>3, <1>5, <1>6, <1>7 DEF LayoutInv, NamesInv

LEMMA FuseTransposeLayout ==
  ASSUME LayoutInv, NEW n \in DOMAIN clone, FuseTranspose(n) PROVE NamesInv' /\ AllNodes(clone')
<1>1. Fresh /\ AllNodes(clone) /\ RewriteNode(n) /\ n \in Names(suffix)
  BY GraphIsFresh DEF LayoutInv, FuseTranspose, GraphInv, NamesAreOld
<1>2. phase = "fuse" /\ UNCHANGED <<phase, outputs, __current_graph, todo>>
  BY DEF FuseTranspose, frame
<1>3. AllNodes(clone') /\ DOMAIN clone \subseteq DOMAIN clone'
  <2>1. CASE SisoRule(n)
    BY <1>1, <2>1, SisoNodes
  <2>2. CASE TransposeTransposeRule(n)
    BY <1>1, <2>2, TransposeTransposeNodes
  <2>3. CASE TransposeConstRule(n)
    BY <1>1, <2>3, ConstNodes DEF TransposeConstRule
  <2>4. CASE BroadcastRule(n)
    BY <1>1, <2>4, BroadcastNodes
  <2>5. CASE BroadcastConstRule(n)
    BY <1>1, <2>5, BroadcastConstNodes
  <2> QED BY <1>1, <2>1, <2>2, <2>3, <2>4, <2>5 DEF RewriteNode
<1>4. /\ suffix' \in {suffix, suffix + 1, suffix + 2}
      /\ DOMAIN origin_nodes' \subseteq DOMAIN origin_nodes \cup suffix..(suffix' - 1)
      /\ fix_info' \subseteq fix_info \cup {n} \cup suffix..(suffix' - 1)
  <2>1. CASE SisoRule(n) \/ BroadcastRule(n)
    <3>1. /\ suffix' = suffix + 1 /\ fix_info' = fix_info
          /\ DOMAIN origin_nodes' = DOMAIN origin_nodes \cup {suffix}
      BY <2>1 DEF SisoRule, BroadcastRule, Put
    <3>2. suffix \in suffix..(suffix' - 1)
      BY <1>1, <3>1 DEF Fresh
    <3> QED BY <3>1, <3>2
  <2>2. CASE TransposeTransposeRule(n) \/ TransposeConstRule(n)
    BY <2>2 DEF TransposeTransposeRule, TransposeConstRule, copy_fix_info
  <2>3. CASE BroadcastConstRule(n)
    <3>1. /\ suffix' = suffix + 2
          /\ DOMAIN origin_nodes' = DOMAIN origin_nodes \cup {suffix, suffix + 1}
          /\ fix_info' \subseteq fix_info \cup {suffix}
      BY <2>3 DEF BroadcastConstRule, Put, copy_fix_info
    <3>2. suffix \in suffix..(suffix' - 1) /\ suffix + 1 \in suffix..(suffix' - 1)
      BY <1>1, <3>1 DEF Fresh
    <3> QED BY <3>1, <3>2
  <2> QED BY <1>1, <2>1, <2>2, <2>3 DEF RewriteNode
<1>5. /\ suffix \in Nat /\ suffix' \in Nat /\ suffix' >= suffix
      /\ Names(suffix) \subseteq Names(suffix') /\ suffix..(suffix' - 1) \subseteq Names(suffix')
  <2>1. suffix \in Nat /\ suffix' \in Nat /\ suffix' >= suffix
    BY <1>1, <1>4 DEF Fresh
  <2> QED BY <2>1, MoreNames
<1>6. DOMAIN origin_nodes' \subseteq Names(suffix') /\ fix_info' \subseteq Names(suffix')
  BY <1>1, <1>4, <1>5 DEF LayoutInv, NamesInv
<1>7. FirstNew \in Nat
  BY DpuAssumption DEF FirstNew
<1> QED BY <1>2, <1>3, <1>5, <1>6, <1>7 DEF LayoutInv, NamesInv

LEMMA ConstAddFixLayout ==
  ASSUME LayoutInv, NEW n \in DOMAIN clone, ConstAddFix(n) PROVE NamesInv' /\ AllNodes(clone')
<1>1. clone[n].op = "const" /\ Fresh
  BY GraphIsFresh DEF LayoutInv, GraphInv, TodoKinds, ConstAddFix
<1>2. AllNodes(clone') /\ DOMAIN clone' = DOMAIN clone \cup {suffix}
  BY <1>1, ConstAddFixNodes DEF LayoutInv
<1>3. /\ suffix' = suffix + 1 /\ suffix \in Nat
      /\ Names(suffix) \subseteq Names(suffix') /\ suffix \in Names(suffix')
  BY <1>1 DEF ConstAddFix, Fresh, Names
<1>4. DOMAIN origin_nodes' = DOMAIN origin_nodes \cup {suffix}
  BY DEF ConstAddFix, Put
<1>5. /\ phase = "add_fix" /\ UNCHANGED <<phase, outputs, __current_graph, fix_info>>
      /\ todo' \subseteq todo
  BY DEF ConstAddFix, frame
<1>6. FirstNew \in Nat
  BY DpuAssumption DEF FirstNew
<1> QED BY <1>2, <1>3, <1>4, <1>5, <1>6 DEF LayoutInv, NamesInv

LEMMA LayoutStep == LayoutInv /\ [DpuNext]_dpuVars => LayoutInv'
<1> SUFFICES ASSUME LayoutInv, [DpuNext]_dpuVars PROVE NamesInv' /\ AllNodes(clone')
  BY GraphStep DEF LayoutInv
<1>1. CASE UNCHANGED dpuVars
  BY <1>1 DEF dpuVars, rewritingVars, LayoutInv, NamesInv
<1>2. CASE NotSupported
  BY <1>2 DEF NotSupported, rewritingVars, frame, LayoutInv, NamesInv
<1>3. CASE Start
  BY <1>3, StartLayout
<1>4. CASE EndFold \/ EndLayout \/ EndFuse \/ EndAddFix
  <2>1. CASE EndFold
    BY <2>1, EndPassNodes DEF EndFold
  <2>2. CASE EndLayout
    BY <2>2, EndPassNodes DEF EndLayout
  <2>3. CASE EndFuse
    BY <2>3, EndPassNodes DEF EndFuse
  <2>4. CASE EndAddFix
    <3>1. todo' \subseteq DOMAIN clone'
      <4>1. AllNodes(clone') /\ DOMAIN clone' \subseteq DOMAIN clone
        BY <2>4, GraphIsFresh, GcNodes, GcKeepsNodes DEF LayoutInv, EndAddFix, EndPass
      <4>2. IsFiniteSet(DOMAIN clone')
        BY <4>1, GraphIsFresh, FS_Subset DEF LayoutInv
      <4>3. Live(clone') \subseteq DOMAIN clone'
        BY <4>1, <4>2, SearchStaysInGraph DEF Live
      <4> QED BY <2>4, <4>3 DEF EndAddFix
    <3> QED BY <2>4, <3>1, EndPassNodes DEF EndAddFix
  <2> QED BY <1>4, <2>1, <2>2, <2>3, <2>4
<1>5. CASE Finish \/ Throw
  <2>1. AllNodes(clone')
    BY <1>5 DEF Finish, Throw, Leave, AllNodes
  <2> QED BY <1>5, <2>1 DEF Finish, Throw, Leave, frame, LayoutInv, NamesInv
<1>6. ASSUME NEW n \in DOMAIN clone,
             Fold(n) \/ AddTranspose(n) \/ FuseTranspose(n) \/ ConstAddFix(n)
      PROVE  NamesInv' /\ AllNodes(clone')
  BY <1>6, FoldLayout, AddTransposeLayout, FuseTransposeLayout, ConstAddFixLayout
<1>7. ASSUME NEW n \in DOMAIN clone, Export(n) PROVE NamesInv' /\ AllNodes(clone')
  BY <1>7 DEF Export, rewritingVars, frame, LayoutInv, NamesInv
<1> QED BY <1>1, <1>2, <1>3, <1>4, <1>5, <1>6, <1>7 DEF DpuNext, Work

LEMMA LayoutInit == DpuInit => LayoutInv
<1> SUFFICES ASSUME DpuInit PROVE LayoutInv
  OBVIOUS
<1>1. FirstNew \in Nat
  BY DpuAssumption DEF FirstNew
<1>2. NamesInv
  BY <1>1 DEF DpuInit, NamesInv
<1>3. AllNodes(clone)
  BY DEF DpuInit, AllNodes
<1> QED BY <1>2, <1>3, GraphInitInv DEF LayoutInv

LEMMA LayoutHolds == DpuSpec => []LayoutInv
BY LayoutInit, LayoutStep, PTL DEF DpuSpec

(* Names of nodes, anchor points, constants and fix infos come from the    *)
(* model or from suffix_counter; after every rule and garbage collection   *)
(* the args of every node exist, as do the outputs of the model.           *)
THEOREM RewritingTyped == DpuSpec => []RewritingTypeOK
<1>1. LayoutInv => RewritingTypeOK
  BY DEF LayoutInv, GraphInv, NamesAreOld, Names, NamesInv, AllNodes, IsNode, RewritingTypeOK
<1> QED BY <1>1, LayoutHolds, PTL

(* Whatever the orders of the transposes, what trans_shape and             *)
(* undo_transpose_shape give to new nodes is the shape that follows from   *)
(* their inputs, the one the XIR graph checks when a node is exported.     *)
THEOREM ShapesFollow == DpuSpec => []ShapesAgree
<1>1. LayoutInv => ShapesAgree
  <2> SUFFICES ASSUME LayoutInv, NEW n \in Live(clone) PROVE HasShape(clone, n)
    BY DEF ShapesAgree
  <2>1. n \in DOMAIN clone
    BY GraphIsFresh, SearchStaysInGraph DEF Live, LayoutInv
  <2> QED BY <2>1 DEF LayoutInv, AllNodes, IsNode
<1> QED BY <1>1, LayoutHolds, PTL
=============================================================================
