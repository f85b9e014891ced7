-------------------------- MODULE Level1DpuProofs ---------------------------
(***************************************************************************)
(* Proofs about the constants of Level1Dpu: whatever the models and        *)
(* however the sub passes rewrite them, the data of every constant can be  *)
(* fetched, and is written once.                                           *)
(***************************************************************************)
EXTENDS LayoutMeaning, SequenceTheorems, TLAPS

(* Sequences of anything.                                                  *)
IsSequence(s) == Len(s) \in Nat /\ s = [i \in 1..Len(s) |-> s[i]]

LEMMA FunctionIsSequence ==
  ASSUME NEW s, NEW n \in Nat, s = [i \in 1..n |-> s[i]]
  PROVE  IsSequence(s) /\ Len(s) = n
<1> DEFINE T == {s[i] : i \in 1..n}
<1>1. s \in [1..n -> T]
  OBVIOUS
<1>2. s \in Seq(T)
  BY <1>1, SeqDef
<1>3. DOMAIN s = 1..Len(s) /\ Len(s) \in Nat
  BY <1>2, LenProperties
<1>4. Len(s) = n
  BY <1>1, <1>3
<1> QED BY <1>4 DEF IsSequence

LEMMA AppendToSequence ==
  ASSUME NEW s, IsSequence(s), NEW e
  PROVE  /\ IsSequence(Append(s, e)) /\ Len(Append(s, e)) = Len(s) + 1
         /\ \A i \in 1..Len(s) : Append(s, e)[i] = s[i]
         /\ Append(s, e)[Len(s) + 1] = e
<1> DEFINE T == {s[i] : i \in 1..Len(s)} \cup {e}
<1>1. s \in Seq(T)
  <2>1. s \in [1..Len(s) -> T]
    BY DEF IsSequence
  <2> QED BY <2>1, SeqDef DEF IsSequence
<1>2. /\ Append(s, e) \in Seq(T) /\ Len(Append(s, e)) = Len(s) + 1
      /\ \A i \in 1..Len(s) : Append(s, e)[i] = s[i]
      /\ Append(s, e)[Len(s) + 1] = e
  BY <1>1, AppendProperties
<1>3. IsSequence(Append(s, e))
  BY <1>2, LenProperties DEF IsSequence
<1> QED BY <1>2, <1>3

-----------------------------------------------------------------------------
(* The pool: a constant is lazy or not for all names of its cell, and its  *)
(* cell is filled exactly when no closure is pending.                      *)
PoolIndexed ==
  /\ IsSequence(const_data) /\ IsSequence(closures)
  /\ \A m \in DOMAIN const_data_info : const_data_info[m] \in 1..Len(const_data)
  /\ DOMAIN const_lazy \subseteq DOMAIN const_data_info
  /\ \A m \in DOMAIN const_lazy : const_lazy[m] \in 1..Len(closures)

SameCellSameClosure ==
  \A m, k \in DOMAIN const_data_info :
    const_data_info[m] = const_data_info[k] =>
      /\ m \in DOMAIN const_lazy <=> k \in DOMAIN const_lazy
      /\ m \in DOMAIN const_lazy => const_lazy[m] = const_lazy[k]

SameClosureSameCell ==
  \A m, k \in DOMAIN const_lazy :
    const_lazy[m] = const_lazy[k] => const_data_info[m] = const_data_info[k]

SourcesComeFirst ==
  \A m \in DOMAIN const_lazy :
    /\ Source(m) \in DOMAIN const_data_info
    /\ const_data_info[Source(m)] < const_data_info[m]

FilledUnlessPending ==
  \A m \in DOMAIN const_data_info :
    IF Pending(m) THEN ~const_data[const_data_info[m]].filled
    ELSE const_data[const_data_info[m]].filled

PoolInv ==
  /\ PoolIndexed /\ SameCellSameClosure /\ SameClosureSameCell
  /\ SourcesComeFirst /\ FilledUnlessPending

CellsKept ==
  \A i \in DOMAIN const_data :
    const_data[i].filled => i \in DOMAIN const_data' /\ const_data'[i] = const_data[i]

LEMMA PoolInitInv == PoolInit => PoolInv
BY DEF PoolInit, PoolInv, PoolIndexed, SameCellSameClosure, SameClosureSameCell,
       SourcesComeFirst, FilledUnlessPending, IsSequence

LEMMA CreateConst ==
  ASSUME PoolInv, NEW n, NEW v, n \notin DOMAIN const_data_info, create_const(n, v)
  PROVE  PoolInv' /\ CellsKept
<1> DEFINE new == Len(const_data) + 1
<1>1. /\ IsSequence(const_data') /\ Len(const_data') = new
      /\ \A i \in 1..Len(const_data) : const_data'[i] = const_data[i]
      /\ const_data'[new] = Cell(v) /\ Len(const_data) \in Nat
  BY AppendToSequence DEF create_const, PoolInv, PoolIndexed, IsSequence
<1>2. /\ DOMAIN const_data_info' = DOMAIN const_data_info \cup {n}
      /\ const_data_info'[n] = new
      /\ \A m \in DOMAIN const_data_info : const_data_info'[m] = const_data_info[m]
      /\ const_lazy' = const_lazy /\ closures' = closures
  BY DEF create_const, Insert, Put
<1>3. /\ n \notin DOMAIN const_lazy
      /\ \A m \in DOMAIN const_data_info : const_data_info[m] \in 1..Len(const_data)
      /\ \A m \in DOMAIN const_data_info : const_data_info[m] # new
  BY <1>1 DEF PoolInv, PoolIndexed
<1>4. \A m \in DOMAIN const_data_info :
        const_data'[const_data_info'[m]] = const_data[const_data_info[m]]
  BY <1>1, <1>2, <1>3
<1>5. PoolIndexed'
  BY <1>1, <1>2, <1>3 DEF PoolInv, PoolIndexed
<1>6. SameCellSameClosure'
  BY <1>2, <1>3 DEF PoolInv, SameCellSameClosure
<1>7. SameClosureSameCell'
  BY <1>2, <1>3 DEF PoolInv, PoolIndexed, SameClosureSameCell
<1>8. SourcesComeFirst'
  BY <1>2, <1>3 DEF PoolInv, PoolIndexed, SourcesComeFirst, Source
<1>9. FilledUnlessPending'
  BY <1>1, <1>2, <1>3, <1>4 DEF PoolInv, FilledUnlessPending, Pending, Cell
<1>10. CellsKept
  BY <1>1 DEF CellsKept, PoolInv, PoolIndexed, IsSequence
<1> QED BY <1>5, <1>6, <1>7, <1>8, <1>9, <1>10 DEF PoolInv

LEMMA CreateLazyConst ==
  ASSUME PoolInv, NEW n, NEW source, NEW order, n \notin DOMAIN const_data_info,
         source \in DOMAIN const_data_info, create_lazy_const(n, source, order)
  PROVE  PoolInv' /\ CellsKept
<1> DEFINE new == Len(const_data) + 1
           newClosure == Len(closures) + 1
<1>1. /\ IsSequence(const_data') /\ Len(const_data') = new
      /\ \A i \in 1..Len(const_data) : const_data'[i] = const_data[i]
      /\ const_data'[new] = EmptyCell /\ Len(const_data) \in Nat
  <2>1. IsSequence(const_data) /\ const_data' = Append(const_data, EmptyCell)
    BY DEF create_lazy_const, PoolInv, PoolIndexed
  <2> QED BY <2>1, AppendToSequence DEF IsSequence
<1>2. /\ IsSequence(closures') /\ Len(closures') = newClosure
      /\ \A i \in 1..Len(closures) : closures'[i] = closures[i]
      /\ closures'[newClosure] = Closure(source, order) /\ Len(closures) \in Nat
  <2>1. IsSequence(closures) /\ closures' = Append(closures, Closure(source, order))
    BY DEF create_lazy_const, PoolInv, PoolIndexed
  <2> QED BY <2>1, AppendToSequence DEF IsSequence
<1>3. /\ DOMAIN const_data_info' = DOMAIN const_data_info \cup {n}
      /\ const_data_info'[n] = new
      /\ \A m \in DOMAIN const_data_info : const_data_info'[m] = const_data_info[m]
      /\ DOMAIN const_lazy' = DOMAIN const_lazy \cup {n}
      /\ const_lazy'[n] = newClosure
  BY DEF create_lazy_const, Insert, Put
<1>4. /\ n \notin DOMAIN const_lazy /\ DOMAIN const_lazy \subseteq DOMAIN const_data_info
      /\ \A m \in DOMAIN const_data_info : const_data_info[m] \in 1..Len(const_data)
      /\ \A m \in DOMAIN const_lazy : const_lazy[m] \in 1..Len(closures)
  BY DEF PoolInv, PoolIndexed
<1>5. \A m \in DOMAIN const_lazy : const_lazy'[m] = const_lazy[m]
  BY <1>4 DEF create_lazy_const, Put
<1>6. /\ \A m \in DOMAIN const_data_info :
           const_data'[const_data_info'[m]] = const_data[const_data_info[m]]
      /\ \A m \in DOMAIN const_lazy : closures'[const_lazy'[m]] = closures[const_lazy[m]]
  BY <1>1, <1>2, <1>3, <1>4, <1>5
<1>7. /\ \A m \in DOMAIN const_data_info : const_data_info[m] # new
      /\ \A m \in DOMAIN const_lazy : const_lazy[m] # newClosure
  BY <1>1, <1>2, <1>4
<1>8. PoolIndexed'
  <2>1. \A m \in DOMAIN const_data_info' : const_data_info'[m] \in 1..Len(const_data')
    BY <1>1, <1>3, <1>4
  <2>2. \A m \in DOMAIN const_lazy' : const_lazy'[m] \in 1..Len(closures')
    BY <1>2, <1>3, <1>4, <1>5
  <2> QED BY <1>1, <1>2, <1>3, <1>4, <2>1, <2>2 DEF PoolIndexed
<1>9. SameCellSameClosure'
  BY <1>3, <1>4, <1>5, <1>7 DEF PoolInv, SameCellSameClosure
<1>10. SameClosureSameCell'
  BY <1>3, <1>4, <1>5, <1>7 DEF PoolInv, SameClosureSameCell
<1>11. SourcesComeFirst'
  <2>1. const_data_info[source] < new
    BY <1>1, <1>4
  <2>2. \A m \in DOMAIN const_lazy :
          /\ closures'[const_lazy'[m]].source \in DOMAIN const_data_info
          /\ const_data_info[closures'[const_lazy'[m]].source] < const_data_info[m]
    BY <1>6 DEF PoolInv, SourcesComeFirst, Source
  <2>3. closures'[const_lazy'[n]].source = source
    BY <1>2, <1>3 DEF Closure
  <2> QED BY <1>3, <1>4, <2>1, <2>2, <2>3 DEF SourcesComeFirst, Source
<1>12. FilledUnlessPending'
  <2>1. closures'[const_lazy'[n]].pending /\ ~const_data'[const_data_info'[n]].filled
    BY <1>1, <1>2, <1>3 DEF Closure, EmptyCell
  <2>2. ASSUME NEW m \in DOMAIN const_data_info
        PROVE  IF m \in DOMAIN const_lazy' /\ closures'[const_lazy'[m]].pending
               THEN ~const_data'[const_data_info'[m]].filled
               ELSE const_data'[const_data_info'[m]].filled
    BY <1>3, <1>6 DEF PoolInv, FilledUnlessPending, Pending
  <2> QED BY <1>3, <2>1, <2>2 DEF FilledUnlessPending, Pending
<1>13. CellsKept
  BY <1>1 DEF CellsKept, PoolInv, PoolIndexed, IsSequence
<1> QED BY <1>8, <1>9, <1>10, <1>11, <1>12, <1>13 DEF PoolInv

LEMMA CreateConstAlias ==
  ASSUME PoolInv, NEW n \in DOMAIN const_data_info, NEW alias,
         alias \notin DOMAIN const_data_info, create_const_alias(alias, n)
  PROVE  PoolInv' /\ CellsKept
<1>1. /\ const_data' = const_data /\ closures' = closures
      /\ DOMAIN const_data_info' = DOMAIN const_data_info \cup {alias}
      /\ const_data_info'[alias] = const_data_info[n]
      /\ \A m \in DOMAIN const_data_info : const_data_info'[m] = const_data_info[m]
  BY DEF create_const_alias, Insert, Put
<1>2. alias \notin DOMAIN const_lazy /\ DOMAIN const_lazy \subseteq DOMAIN const_data_info
  BY DEF PoolInv, PoolIndexed
<1>3. /\ DOMAIN const_lazy' = IF n \in DOMAIN const_lazy
                              THEN DOMAIN const_lazy \cup {alias} ELSE DOMAIN const_lazy
      /\ \A m \in DOMAIN const_lazy : const_lazy'[m] = const_lazy[m]
      /\ n \in DOMAIN const_lazy => const_lazy'[alias] = const_lazy[n]
  BY <1>2 DEF create_const_alias, Put
<1>4. PoolIndexed'
  BY <1>1, <1>2, <1>3 DEF PoolInv, PoolIndexed
<1>5. SameCellSameClosure'
  BY <1>1, <1>2, <1>3 DEF PoolInv, SameCellSameClosure
<1>6. SameClosureSameCell'
  BY <1>1, <1>2, <1>3 DEF PoolInv, SameClosureSameCell
<1>7. SourcesComeFirst'
  BY <1>1, <1>2, <1>3 DEF PoolInv, SourcesComeFirst, Source
<1>8. FilledUnlessPending'
  BY <1>1, <1>2, <1>3 DEF PoolInv, FilledUnlessPending, Pending
<1>9. CellsKept
  BY <1>1 DEF CellsKept
<1> QED BY <1>4, <1>5, <1>6, <1>7, <1>8, <1>9 DEF PoolInv

(* All names of a cell are evaluated together.                             *)
LEMMA GetConstData ==
  ASSUME PoolInv, NEW n, get_const_data(n)
  PROVE  PoolInv' /\ CellsKept
<1> DEFINE forced == Forced(n)
<1>1. /\ forced \subseteq DOMAIN const_data_info
      /\ \A m \in forced : Pending(m)
  BY DEF Forced
<1>2. /\ const_data_info' = const_data_info /\ const_lazy' = const_lazy
      /\ DOMAIN const_data' = DOMAIN const_data
      /\ \A i \in DOMAIN const_data :
           IF \E m \in forced : const_data_info[m] = i
           THEN const_data'[i].filled ELSE const_data'[i] = const_data[i]
      /\ const_data' = [i \in DOMAIN const_data |-> const_data'[i]]
  BY DEF get_const_data, Cell
<1>3. /\ closures' = [c \in DOMAIN closures |->
           IF \E m \in forced : const_lazy[m] = c
           THEN [closures[c] EXCEPT !.pending = FALSE] ELSE closures[c]]
  BY DEF get_const_data
<1> HIDE DEF forced
<1>4. /\ DOMAIN const_data = 1..Len(const_data) /\ Len(const_data) \in Nat
      /\ DOMAIN closures = 1..Len(closures) /\ Len(closures) \in Nat
  BY DEF PoolInv, PoolIndexed, IsSequence
<1>5. IsSequence(const_data') /\ Len(const_data') = Len(const_data)
  BY <1>2, <1>4, FunctionIsSequence
<1>6. IsSequence(closures') /\ Len(closures') = Len(closures)
  BY <1>3, <1>4, FunctionIsSequence
<1>7. PoolIndexed'
  BY <1>2, <1>5, <1>6 DEF PoolInv, PoolIndexed
<1>8. SameCellSameClosure' /\ SameClosureSameCell'
  BY <1>2 DEF PoolInv, SameCellSameClosure, SameClosureSameCell
<1>9. \A m \in DOMAIN const_lazy : closures'[const_lazy[m]].source = closures[const_lazy[m]].source
  BY <1>3, <1>4 DEF PoolInv, PoolIndexed
<1>10. SourcesComeFirst'
  BY <1>2, <1>9 DEF PoolInv, SourcesComeFirst, Source
<1>11. FilledUnlessPending'
  <2> SUFFICES ASSUME NEW m \in DOMAIN const_data_info
               PROVE  IF m \in DOMAIN const_lazy /\ closures'[const_lazy[m]].pending
                      THEN ~const_data'[const_data_info[m]].filled
                      ELSE const_data'[const_data_info[m]].filled
    BY <1>2 DEF FilledUnlessPending, Pending
  <2>1. const_data_info[m] \in DOMAIN const_data
    BY <1>4 DEF PoolInv, PoolIndexed
  <2>2. CASE \E k \in forced : const_data_info[k] = const_data_info[m]
    <3>1. PICK k \in forced : const_data_info[k] = const_data_info[m]
      BY <2>2
    <3>2. m \in DOMAIN const_lazy /\ const_lazy[m] = const_lazy[k]
      BY <1>1, <3>1 DEF PoolInv, SameCellSameClosure, Pending
    <3>3. const_lazy[m] \in DOMAIN closures
      BY <1>4, <3>2 DEF PoolInv, PoolIndexed
    <3>4. ~closures'[const_lazy[m]].pending
      BY <1>3, <3>2, <3>3 DEF Pending
    <3> QED BY <1>2, <2>1, <3>1, <3>2, <3>4
  <2>3. CASE \A k \in forced : const_data_info[k] # const_data_info[m]
    <3>1. const_data'[const_data_info[m]] = const_data[const_data_info[m]]
      BY <1>2, <2>1, <2>3
    <3>2. ASSUME m \in DOMAIN const_lazy
          PROVE  closures'[const_lazy[m]] = closures[const_lazy[m]]
      <4>1. const_lazy[m] \in DOMAIN closures
        BY <1>4, <3>2 DEF PoolInv, PoolIndexed
      <4>2. \A k \in forced : const_lazy[k] # const_lazy[m]
        BY <1>1, <2>3, <3>2 DEF PoolInv, SameClosureSameCell, Pending
      <4> QED BY <1>3, <4>1, <4>2
    <3> QED BY <3>1, <3>2 DEF PoolInv, FilledUnlessPending, Pending
  <2> QED BY <2>2, <2>3
<1>12. CellsKept
  <2> SUFFICES ASSUME NEW i \in DOMAIN const_data, const_data[i].filled
               PROVE  const_data'[i] = const_data[i]
    BY <1>2 DEF CellsKept
  <2>1. \A k \in forced : const_data_info[k] # i
    BY <1>1 DEF PoolInv, FilledUnlessPending
  <2> QED BY <1>2, <2>1
<1> QED BY <1>7, <1>8, <1>10, <1>11, <1>12 DEF PoolInv

-----------------------------------------------------------------------------
(* The graph and the pool: names are used once, constant nodes have a      *)
(* constant, and until the constants get their fix nodes, so do only they. *)
Names(s) == 0..(s - 1)

NamesAreOld ==
  /\ suffix \in Nat
  /\ DOMAIN const_data_info \subseteq Names(suffix)
  /\ DOMAIN clone \subseteq Names(suffix)

ConstsInPool == \A n \in DOMAIN clone : clone[n].op = "const" => n \in DOMAIN const_data_info

OnlyConstsInPool ==
  phase \in {"fold", "layout", "fuse"} =>
    \A n \in DOMAIN clone : n \in DOMAIN const_data_info => clone[n].op = "const"

TodoKinds ==
  /\ phase = "layout" => \A n \in todo : n \in DOMAIN clone /\ clone[n].op = "conv_nchw"
  /\ phase = "add_fix" => \A n \in todo : n \in DOMAIN clone /\ clone[n].op = "const"

AtStart ==
  /\ model \in Models
  /\ phase = "start" => suffix = FirstNew /\ const_data_info = << >>

GraphInv == NamesAreOld /\ ConstsInPool /\ OnlyConstsInPool /\ TodoKinds /\ AtStart

(* What a step does to the pool.                                           *)
PoolStep ==
  \/ UNCHANGED poolVars
  \/ \E n, v : n \notin DOMAIN const_data_info /\ create_const(n, v)
  \/ \E n, source, order :
       /\ n \notin DOMAIN const_data_info /\ source \in DOMAIN const_data_info
       /\ create_lazy_const(n, source, order)
  \/ \E alias, n :
       /\ alias \notin DOMAIN const_data_info /\ n \in DOMAIN const_data_info
       /\ create_const_alias(alias, n)
  \/ \E n : get_const_data(n)

LEMMA PoolStepInv == PoolInv /\ PoolStep => PoolInv' /\ CellsKept
<1> SUFFICES ASSUME PoolInv, PoolStep PROVE PoolInv' /\ CellsKept
  OBVIOUS
<1>1. CASE UNCHANGED poolVars
  BY <1>1 DEF poolVars, PoolInv, PoolIndexed, SameCellSameClosure, SameClosureSameCell,
              SourcesComeFirst, FilledUnlessPending, Pending, Source, CellsKept
<1>2. CASE \E n, v : n \notin DOMAIN const_data_info /\ create_const(n, v)
  BY <1>2, CreateConst
<1>3. CASE \E n, source, order :
             /\ n \notin DOMAIN const_data_info /\ source \in DOMAIN const_data_info
             /\ create_lazy_const(n, source, order)
  BY <1>3, CreateLazyConst
<1>4. CASE \E alias, n :
             /\ alias \notin DOMAIN const_data_info /\ n \in DOMAIN const_data_info
             /\ create_const_alias(alias, n)
  BY <1>4, CreateConstAlias
<1>5. CASE \E n : get_const_data(n)
  BY <1>5, GetConstData
<1> QED BY <1>1, <1>2, <1>3, <1>4, <1>5 DEF PoolStep

LEMMA PutEntry ==
  ASSUME NEW f, NEW x, NEW v
  PROVE  /\ DOMAIN Put(f, x, v) = DOMAIN f \cup {x}
         /\ Put(f, x, v)[x] = v
         /\ \A y \in DOMAIN f : y # x => Put(f, x, v)[y] = f[y]
BY DEF Put

LEMMA PoolDomains ==
  /\ \A n, v : create_const(n, v) =>
       DOMAIN const_data_info' = DOMAIN const_data_info \cup {n}
  /\ \A n, source, order : create_lazy_const(n, source, order) =>
       DOMAIN const_data_info' = DOMAIN const_data_info \cup {n}
  /\ \A alias, n : create_const_alias(alias, n) =>
       DOMAIN const_data_info' = DOMAIN const_data_info \cup {alias}
BY DEF create_const, create_lazy_const, create_const_alias, Insert, Put

(* One lemma per kind of step: it keeps GraphInv and is a PoolStep.        *)
LEMMA StartStep ==
  ASSUME GraphInv, Start PROVE GraphInv' /\ PoolStep
<1>1. /\ phase = "start" /\ phase' = "fold" /\ suffix = FirstNew /\ suffix' = suffix
      /\ const_data_info = << >> /\ DOMAIN const_data_info = {} /\ IsModel(model)
      /\ model \in Models /\ model' = model
      /\ FirstNew \in Nat /\ FirstNew - 1 = MaxOp /\ Weight \in Names(suffix)
  BY DpuAssumption DEF GraphInv, AtStart, Start, frame, FirstNew, Weight, Names
<1>2. DOMAIN model = Names(suffix) /\ \A n \in DOMAIN model : model[n].op # "const"
  BY <1>1, DpuAssumption DEF IsModel, Names, Ops, Input, Weight
<1>3. CASE /\ clone' = [model EXCEPT ![Weight] = Node("const", << >>, << >>, @.shape)]
           /\ create_const(Weight, Leaf("initializer", << >>))
  <2>1. DOMAIN const_data_info' = {Weight}
    BY <1>1, <1>3, PoolDomains
  <2>2. /\ DOMAIN clone' = Names(suffix) /\ clone'[Weight].op = "const"
        /\ \A n \in DOMAIN clone' : n # Weight => clone'[n].op # "const"
    BY <1>1, <1>2, <1>3 DEF Node
  <2>3. PoolStep
    BY <1>1, <1>3 DEF PoolStep
  <2> QED BY <1>1, <2>1, <2>2, <2>3
          DEF GraphInv, NamesAreOld, ConstsInPool, OnlyConstsInPool, TodoKinds, AtStart
<1>4. CASE clone' = model /\ UNCHANGED poolVars
  BY <1>1, <1>2, <1>4 DEF PoolStep, poolVars,
     GraphInv, NamesAreOld, ConstsInPool, OnlyConstsInPool, TodoKinds, AtStart
<1> QED BY <1>3, <1>4 DEF Start

LEMMA GcKeepsNodes ==
  /\ DOMAIN graph_gc(clone) \subseteq DOMAIN clone
  /\ \A n \in DOMAIN graph_gc(clone) : graph_gc(clone)[n] = clone[n]
BY DEF graph_gc

(* The end of a pass, whatever the next pass has to do.                    *)
LEMMA EndPassStep ==
  ASSUME GraphInv, NEW from, NEW to, EndPass(from, to), from # "start", to # "start",
         to \in {"layout", "fuse"} => from \in {"fold", "layout"}, to # "fold",
         TodoKinds'
  PROVE  GraphInv' /\ PoolStep
<1>1. /\ DOMAIN clone' \subseteq DOMAIN clone
      /\ \A n \in DOMAIN clone' : clone'[n] = clone[n]
  BY GcKeepsNodes DEF EndPass
<1>2. /\ phase = from /\ phase' = to /\ suffix' = suffix /\ model' = model
      /\ const_data_info' = const_data_info /\ PoolStep
  BY DEF EndPass, poolVars, frame, PoolStep
<1> QED BY <1>1, <1>2
        DEF GraphInv, NamesAreOld, ConstsInPool, OnlyConstsInPool, AtStart

LEMMA FoldStep ==
  ASSUME GraphInv, NEW n \in DOMAIN clone, Fold(n) PROVE GraphInv' /\ PoolStep
<1>1. /\ phase = "fold" /\ phase' = "fold" /\ suffix' = suffix /\ model' = model
      /\ clone[n].op # "const" /\ create_const(n, compute(n))
      /\ clone' = Put(clone, n, Node("const", << >>, << >>, clone[n].shape))
  BY DEF Fold, IsFirst, Foldable, frame
<1>2. n \notin DOMAIN const_data_info
  BY <1>1 DEF GraphInv, OnlyConstsInPool
<1>3. DOMAIN const_data_info' = DOMAIN const_data_info \cup {n}
  BY <1>1, PoolDomains
<1>4. /\ DOMAIN clone' = DOMAIN clone /\ clone'[n].op = "const"
      /\ \A m \in DOMAIN clone : m # n => clone'[m] = clone[m]
  BY <1>1 DEF Put, Node
<1>5. PoolStep
  BY <1>1, <1>2 DEF PoolStep
<1> QED BY <1>1, <1>3, <1>4, <1>5
        DEF GraphInv, NamesAreOld, ConstsInPool, OnlyConstsInPool, TodoKinds, AtStart

LEMMA AddTransposeStep ==
  ASSUME GraphInv, NEW n \in DOMAIN clone, AddTranspose(n) PROVE GraphInv' /\ PoolStep
<1>1. /\ phase = "layout" /\ phase' = "layout" /\ suffix' = suffix + 3 /\ model' = model
      /\ n \in todo /\ todo' = todo \ {n} /\ UNCHANGED poolVars
  BY DEF AddTranspose, frame
<1>2. n \notin DOMAIN const_data_info
  BY <1>1 DEF GraphInv, OnlyConstsInPool, TodoKinds
<1>3. /\ suffix \in Nat /\ n < suffix /\ n \in Nat
      /\ \A m \in DOMAIN clone : m \in Nat /\ m < suffix
      /\ \A m \in DOMAIN const_data_info : m \in Nat /\ m < suffix
  BY DEF GraphInv, NamesAreOld, Names
<1>4. /\ DOMAIN clone' = DOMAIN clone \cup {suffix, suffix + 1, suffix + 2}
      /\ \A m \in DOMAIN clone' :
           IF m \in DOMAIN clone \ {n} THEN clone'[m] = clone[m]
           ELSE clone'[m].op \in {"transpose", "conv"}
  BY <1>3 DEF AddTranspose, Put, Node, TransposeOfNew
<1>5. const_data_info' = const_data_info /\ PoolStep
  BY <1>1 DEF PoolStep, poolVars
<1>6. NamesAreOld'
  BY <1>1, <1>3, <1>4, <1>5 DEF NamesAreOld, Names
<1>7. ConstsInPool' /\ OnlyConstsInPool'
  BY <1>1, <1>2, <1>3, <1>4, <1>5 DEF GraphInv, ConstsInPool, OnlyConstsInPool
<1>8. TodoKinds' /\ AtStart'
  BY <1>1, <1>4 DEF GraphInv, TodoKinds, AtStart
<1> QED BY <1>5, <1>6, <1>7, <1>8 DEF GraphInv

LEMMA FuseTransposeStep ==
  ASSUME GraphInv, NEW n \in DOMAIN clone, FuseTranspose(n) PROVE GraphInv' /\ PoolStep
<1>1. /\ phase = "fuse" /\ phase' = "fuse" /\ model' = model /\ RewriteNode(n)
  BY DEF FuseTranspose, frame
<1>2. /\ suffix \in Nat /\ n < suffix /\ n \in Nat
      /\ \A m \in DOMAIN clone : m \in Nat /\ m < suffix
      /\ \A m \in DOMAIN const_data_info : m \in Nat /\ m < suffix
  BY DEF GraphInv, NamesAreOld, Names
<1>3. ASSUME clone[n].op # "const" PROVE n \notin DOMAIN const_data_info
  BY <1>1, <1>3 DEF GraphInv, OnlyConstsInPool
<1>4. /\ TodoKinds' /\ AtStart'
      /\ OnlyConstsInPool' <=> \A m \in DOMAIN clone' :
                                 m \in DOMAIN const_data_info' => clone'[m].op = "const"
      /\ \A m \in DOMAIN clone : clone[m].op = "const" <=> m \in DOMAIN const_data_info
  BY <1>1 DEF GraphInv, TodoKinds, AtStart, OnlyConstsInPool, ConstsInPool
(* Rules that leave the pool alone.                                        *)
<1>5. ASSUME SisoRule(n) \/ TransposeTransposeRule(n) \/ BroadcastRule(n)
      PROVE  GraphInv' /\ PoolStep
  <2>1. clone[n].op # "const" /\ UNCHANGED poolVars /\ suffix' \in {suffix, suffix + 1}
    BY <1>5 DEF SisoRule, TransposeTransposeRule, BroadcastRule, MatchesSiso, IsOp,
                MatchesTransposeTranspose, Transposes, MatchesBroadcast
  <2>2. /\ DOMAIN clone' \in {DOMAIN clone, DOMAIN clone \cup {suffix}}
        /\ \A m \in DOMAIN clone' :
             IF m \in DOMAIN clone \ {n} THEN clone'[m] = clone[m]
             ELSE clone'[m].op # "const"
        /\ suffix' = suffix => DOMAIN clone' = DOMAIN clone
    <3>1. CASE SisoRule(n)
      BY <1>2, <2>1, <3>1 DEF SisoRule, Put, Node, NewSiso, TransposeOfNew
    <3>2. CASE TransposeTransposeRule(n)
      BY <1>2, <3>2 DEF TransposeTransposeRule, Put, Node, TransposeOfArg
    <3>3. CASE BroadcastRule(n)
      BY <1>2, <3>3 DEF BroadcastRule, Put, Node, TransposeOfNew
    <3> QED BY <1>5, <3>1, <3>2, <3>3
  <2>3. const_data_info' = const_data_info /\ PoolStep
    BY <2>1 DEF PoolStep, poolVars
  <2>4. NamesAreOld'
    BY <1>2, <2>1, <2>2, <2>3 DEF NamesAreOld, Names
  <2>5. ConstsInPool' /\ OnlyConstsInPool'
    BY <1>2, <1>3, <1>4, <2>1, <2>2, <2>3 DEF ConstsInPool
  <2> QED BY <1>4, <2>3, <2>4, <2>5 DEF GraphInv
<1>6. ASSUME TransposeConstRule(n) PROVE GraphInv' /\ PoolStep
  <2> DEFINE c == Arg(n, 1)
  <2>1. /\ clone[n].op # "const" /\ c \in DOMAIN const_data_info
        /\ create_lazy_const(n, c, Order(n)) /\ suffix' = suffix
    BY <1>4, <1>6 DEF TransposeConstRule, MatchesTransposeConst, Transposes, IsOp
  <2>2. /\ DOMAIN clone' = DOMAIN clone /\ clone'[n].op = "const"
        /\ \A m \in DOMAIN clone : m # n => clone'[m] = clone[m]
    BY <1>6 DEF TransposeConstRule, Put, Node
  <2>3. DOMAIN const_data_info' = DOMAIN const_data_info \cup {n}
    BY <2>1, PoolDomains
  <2>4. PoolStep
    BY <1>3, <2>1 DEF PoolStep
  <2>5. NamesAreOld'
    BY <1>2, <2>1, <2>2, <2>3 DEF NamesAreOld, Names
  <2>6. ConstsInPool' /\ OnlyConstsInPool'
    BY <1>4, <2>2, <2>3 DEF ConstsInPool
  <2> QED BY <1>4, <2>4, <2>5, <2>6 DEF GraphInv
<1>7. ASSUME BroadcastConstRule(n) PROVE GraphInv' /\ PoolStep
  <2>1. PICK i \in {1, 2} :
          LET t == Arg(n, i)
              c == Arg(n, 3 - i)
              new == suffix + 1
              args == Operands(i, Arg(t, 1), suffix)
          IN  /\ MatchesBroadcastConst(n) /\ IsOp(c, "const")
              /\ clone' = Put(Put(Put(clone,
                   suffix, Node("const", << >>, << >>, ShapeBefore(c, Order(t)))),
                   new, Node("add", args, << >>, ShapeBefore(n, Order(t)))),
                   n, TransposeOfNew(n, new, Order(t)))
              /\ create_lazy_const(suffix, c, undo_order(Order(t)))
              /\ suffix' = suffix + 2
    BY <1>7 DEF BroadcastConstRule
  <2> DEFINE t == Arg(n, i)
             c == Arg(n, 3 - i)
  <2>2. /\ clone[n].op # "const" /\ c \in DOMAIN const_data_info
        /\ suffix \notin DOMAIN const_data_info
    BY <1>2, <1>4, <2>1 DEF MatchesBroadcastConst, IsOp
  <2>3. /\ DOMAIN clone' = DOMAIN clone \cup {suffix, suffix + 1}
        /\ clone'[suffix].op = "const" /\ clone'[suffix + 1].op = "add"
        /\ clone'[n].op = "transpose"
        /\ \A m \in DOMAIN clone : m # n => clone'[m] = clone[m]
    BY <1>2, <2>1 DEF Put, Node, TransposeOfNew
  <2>4. DOMAIN const_data_info' = DOMAIN const_data_info \cup {suffix}
    BY <2>1, PoolDomains
  <2>5. PoolStep
    <3>1. create_lazy_const(suffix, c, undo_order(Order(t)))
      BY <2>1
    <3> QED BY <2>2, <3>1 DEF PoolStep
  <2>6. NamesAreOld'
    BY <1>2, <2>1, <2>3, <2>4 DEF NamesAreOld, Names
  <2>7. ConstsInPool' /\ OnlyConstsInPool'
    BY <1>2, <1>3, <1>4, <2>2, <2>3, <2>4 DEF ConstsInPool
  <2> QED BY <1>4, <2>5, <2>6, <2>7 DEF GraphInv
<1> QED BY <1>1, <1>5, <1>6, <1>7 DEF RewriteNode

LEMMA ConstAddFixStep ==
  ASSUME GraphInv, NEW n \in DOMAIN clone, ConstAddFix(n) PROVE GraphInv' /\ PoolStep
<1>1. /\ phase = "add_fix" /\ phase' = "add_fix" /\ suffix' = suffix + 1 /\ model' = model
      /\ n \in todo /\ todo' = todo \ {n} /\ create_const_alias(suffix, n)
  BY DEF ConstAddFix, frame
<1>2. /\ suffix \in Nat /\ n < suffix /\ n \in Nat
      /\ \A m \in DOMAIN clone : m \in Nat /\ m < suffix
      /\ \A m \in DOMAIN const_data_info : m \in Nat /\ m < suffix
  BY DEF GraphInv, NamesAreOld, Names
<1>3. /\ n \in DOMAIN const_data_info /\ suffix \notin DOMAIN const_data_info
  BY <1>1, <1>2 DEF GraphInv, TodoKinds, ConstsInPool
<1>4. /\ DOMAIN clone' = DOMAIN clone \cup {suffix} /\ clone'[n].op = "fix"
      /\ \A m \in DOMAIN clone : m # n => clone'[m] = clone[m]
  BY <1>2 DEF ConstAddFix, Put, Node
<1>5. DOMAIN const_data_info' = DOMAIN const_data_info \cup {suffix}
  BY <1>1, PoolDomains
<1>6. PoolStep
  BY <1>1, <1>3 DEF PoolStep
<1>7. NamesAreOld'
  BY <1>1, <1>2, <1>4, <1>5 DEF NamesAreOld, Names
<1>8. ConstsInPool'
  BY <1>2, <1>4, <1>5 DEF GraphInv, ConstsInPool
<1>9. OnlyConstsInPool' /\ TodoKinds' /\ AtStart'
  BY <1>1, <1>2, <1>4 DEF GraphInv, OnlyConstsInPool, TodoKinds, AtStart
<1> QED BY <1>6, <1>7, <1>8, <1>9 DEF GraphInv

LEMMA ExportStep ==
  ASSUME GraphInv, NEW n \in DOMAIN clone, Export(n) PROVE GraphInv' /\ PoolStep
<1>1. /\ phase = "export" /\ phase' = "export" /\ suffix' = suffix /\ model' = model
      /\ clone' = clone /\ const_data_info' = const_data_info /\ get_const_data(n)
  BY DEF Export, rewritingVars, frame, get_const_data
<1>2. PoolStep
  BY <1>1 DEF PoolStep
<1> QED BY <1>1, <1>2
        DEF GraphInv, NamesAreOld, ConstsInPool, OnlyConstsInPool, TodoKinds, AtStart

LEMMA LeaveStep ==
  ASSUME GraphInv, Leave PROVE GraphInv' /\ PoolStep
<1>1. /\ phase' = "left" /\ suffix' = suffix /\ model' = model /\ DOMAIN clone' = {}
      /\ UNCHANGED poolVars
  BY DEF Leave, frame
<1>2. const_data_info' = const_data_info /\ PoolStep
  BY <1>1 DEF poolVars, PoolStep
<1> QED BY <1>1, <1>2
        DEF GraphInv, NamesAreOld, ConstsInPool, OnlyConstsInPool, TodoKinds, AtStart

LEMMA GraphStep == GraphInv /\ [DpuNext]_dpuVars => GraphInv' /\ PoolStep
<1> SUFFICES ASSUME GraphInv, [DpuNext]_dpuVars PROVE GraphInv' /\ PoolStep
  OBVIOUS
<1>1. CASE UNCHANGED dpuVars
  BY <1>1 DEF dpuVars, rewritingVars, poolVars, PoolStep,
              GraphInv, NamesAreOld, ConstsInPool, OnlyConstsInPool, TodoKinds, AtStart
<1>2. CASE NotSupported
  BY <1>2 DEF NotSupported, rewritingVars, poolVars, frame, PoolStep,
              GraphInv, NamesAreOld, ConstsInPool, OnlyConstsInPool, TodoKinds, AtStart
<1>3. CASE Start
  BY <1>3, StartStep
<1>4. CASE EndFold
  <2>1. EndPass("fold", "layout") /\ TodoKinds'
    BY <1>4 DEF EndFold, EndPass, TodoKinds
  <2> QED BY <2>1, EndPassStep
<1>5. CASE EndLayout
  <2>1. EndPass("layout", "fuse") /\ TodoKinds'
    BY <1>5 DEF EndLayout, EndPass, TodoKinds
  <2> QED BY <2>1, EndPassStep
<1>6. CASE EndFuse
  <2>1. EndPass("fuse", "add_fix") /\ TodoKinds'
    BY <1>6 DEF EndFuse, EndPass, TodoKinds
  <2> QED BY <2>1, EndPassStep
<1>7. CASE EndAddFix
  <2>1. EndPass("add_fix", "export") /\ TodoKinds'
    BY <1>7 DEF EndAddFix, EndPass, TodoKinds
  <2> QED BY <2>1, EndPassStep
<1>8. CASE Finish \/ Throw
  BY <1>8, LeaveStep DEF Finish, Throw
<1>9. ASSUME NEW n \in DOMAIN clone,
             Fold(n) \/ AddTranspose(n) \/ FuseTranspose(n) \/ ConstAddFix(n) \/ Export(n)
      PROVE  GraphInv' /\ PoolStep
  BY <1>9, FoldStep, AddTransposeStep, FuseTransposeStep, ConstAddFixStep, ExportStep
<1> QED BY <1>1, <1>2, <1>3, <1>4, <1>5, <1>6, <1>7, <1>8, <1>9 DEF DpuNext, Work

LEMMA GraphInitInv == DpuInit => GraphInv /\ PoolInv
<1> SUFFICES ASSUME DpuInit PROVE GraphInv /\ PoolInv
  OBVIOUS
<1>1. FirstNew \in Nat
  BY DpuAssumption DEF FirstNew
<1>2. GraphInv
  BY <1>1 DEF DpuInit, PoolInit, GraphInv, NamesAreOld, ConstsInPool, OnlyConstsInPool,
              TodoKinds, AtStart
<1> QED BY <1>2, PoolInitInv DEF DpuInit

LEMMA PoolAndGraph == DpuSpec => [](GraphInv /\ PoolInv)
<1>1. GraphInv /\ PoolInv /\ [DpuNext]_dpuVars => (GraphInv /\ PoolInv)'
  BY GraphStep, PoolStepInv
<1> QED BY GraphInitInv, <1>1, PTL DEF DpuSpec

-----------------------------------------------------------------------------
(* Whatever create_const_op, fuse_transpose and const_add_fix do to the    *)
(* constants of a model, get_const_data_ptr ends and finds data for every  *)
(* constant node that export_to_xir can meet: its closure reads a constant *)
(* that is in the pool and older, and a constant without one is filled.    *)
THEOREM AllFetchable == DpuSpec => []ConstantsFetchable
<1>1. GraphInv /\ PoolInv => ConstantsFetchable
  BY DEF GraphInv, ConstsInPool, PoolInv, PoolIndexed, SourcesComeFirst, FilledUnlessPending,
         ConstantsFetchable, Fetchable, IsOp, Pending
<1> QED BY <1>1, PoolAndGraph, PTL

(* Bytes of a constant that were written, by its creation or by its        *)
(* closure, are never written again: neither by the creation of another    *)
(* constant nor by the closure an alias shares.                            *)
THEOREM CellsAreWrittenOnce == DpuSpec => CellsStay
<1>1. GraphInv /\ PoolInv /\ [DpuNext]_dpuVars => [CellsKept]_poolVars
  BY GraphStep, PoolStepInv
<1>2. DpuSpec => [][CellsKept]_poolVars
  BY <1>1, PoolAndGraph, PTL DEF DpuSpec
<1> QED BY <1>2 DEF CellsStay, CellsKept

(* However level1_dpu ends, by itself or with an exception, the resource   *)
(* __current_graph is the model again when the clone is destroyed.         *)
THEOREM CurrentGraphRestored == DpuSpec => []CurrentGraphExists
<1>1. DpuInit => CurrentGraphExists
  BY DEF DpuInit, CurrentGraphExists
<1>2. CurrentGraphExists /\ [DpuNext]_dpuVars => CurrentGraphExists'
  <2> SUFFICES ASSUME CurrentGraphExists, [DpuNext]_dpuVars PROVE CurrentGraphExists'
    OBVIOUS
  <2> USE DEF CurrentGraphExists
  <2>1. CASE UNCHANGED dpuVars
    BY <2>1 DEF dpuVars
  <2>2. CASE NotSupported \/ Start \/ Finish \/ Throw
    BY <2>2 DEF NotSupported, Start, Finish, Throw, Leave
  <2>3. CASE EndFold \/ EndLayout \/ EndFuse \/ EndAddFix
    BY <2>3 DEF EndFold, EndLayout, EndFuse, EndAddFix, EndPass
  <2>4. CASE \E n \in DOMAIN clone :
               Fold(n) \/ AddTranspose(n) \/ FuseTranspose(n) \/ ConstAddFix(n) \/ Export(n)
    BY <2>4 DEF Fold, AddTranspose, FuseTranspose, ConstAddFix, Export
  <2> QED BY <2>1, <2>2, <2>3, <2>4 DEF DpuNext, Work
<1> QED BY <1>1, <1>2, PTL DEF DpuSpec
=============================================================================
