--------------------------- MODULE MeaningProofs ----------------------------
(***************************************************************************)
(* The clone computes what the model does. The values of a graph are the   *)
(* one solution of its equations: the args of a node come before it, and a *)
(* constant that is not evaluated yet follows from those it reads. Every   *)
(* step of the pass extends the solution of the graph before it, and what  *)
(* it writes into an anchor point is an equation of the new graph.         *)
(***************************************************************************)
EXTENDS LayoutProofs

-----------------------------------------------------------------------------
(* What the constants hold, as a function of their names: the equation of  *)
(* get_const_data_ptr has one solution, which every step extends.          *)
DataOf(d) ==
  d = [m \in DOMAIN const_data_info |->
         IF Pending(m) THEN Transposed(d[Source(m)], closures[const_lazy[m]].order)
         ELSE const_data[const_data_info[m]].data]

LEMMA FetchedIsData ==
  ASSUME PoolInv, NEW d, DataOf(d), NEW n \in DOMAIN const_data_info
  PROVE  Fetched(n) = d[n]
<1> DEFINE data == CHOOSE e : DataOf(e)
<1>1. Fetched(n) = data[n]
  BY DEF Fetched, DataOf
<1>2. DataOf(data)
  OBVIOUS
<1> HIDE DEF data
<1> DEFINE wrong == {m \in DOMAIN const_data_info : data[m] # d[m]}
           cells == {const_data_info[m] : m \in wrong}
<1>3. \A m \in DOMAIN const_data_info :
        /\ const_data_info[m] \in Nat
        /\ Pending(m) => /\ Source(m) \in DOMAIN const_data_info
                         /\ const_data_info[Source(m)] < const_data_info[m]
  BY DEF PoolInv, PoolIndexed, SourcesComeFirst, Pending, IsSequence
<1>4. ASSUME wrong # {} PROVE FALSE
  <2>1. PICK c \in cells : \A b \in cells : c <= b
    BY <1>3, <1>4, SmallestNat
  <2>2. PICK m \in wrong : const_data_info[m] = c
    OBVIOUS
  <2>3. Pending(m) => Source(m) \notin wrong
    BY <1>3, <2>1, <2>2
  <2>4. Pending(m) => data[Source(m)] = d[Source(m)]
    BY <1>3, <2>3
  <2>5. data[m] = d[m]
    BY <1>2, <2>4 DEF DataOf
  <2> QED BY <2>5
<1> QED BY <1>1, <1>4

(* The entry of a name stays as it is.                                     *)
SameEntry(m) ==
  /\ Pending(m) <=> m \in DOMAIN const_lazy' /\ closures'[const_lazy'[m]].pending
  /\ IF Pending(m) THEN closures'[const_lazy'[m]] = closures[const_lazy[m]]
     ELSE const_data'[const_data_info'[m]].data = const_data[const_data_info[m]].data

LEMMA OneMoreEntry ==
  ASSUME PoolInv, NEW d, DataOf(d), NEW n, n \notin DOMAIN const_data_info, NEW v,
         DOMAIN const_data_info' = DOMAIN const_data_info \cup {n},
         \A m \in DOMAIN const_data_info : SameEntry(m),
         v = IF n \in DOMAIN const_lazy' /\ closures'[const_lazy'[n]].pending
             THEN Transposed(Put(d, n, v)[closures'[const_lazy'[n]].source],
                             closures'[const_lazy'[n]].order)
             ELSE const_data'[const_data_info'[n]].data
  PROVE  DataOf(Put(d, n, v))'
<1> DEFINE e == Put(d, n, v)
<1>1. /\ DOMAIN d = DOMAIN const_data_info
      /\ e = [m \in DOMAIN const_data_info \cup {n} |-> e[m]]
      /\ e[n] = v /\ \A m \in DOMAIN const_data_info : e[m] = d[m]
  BY DEF DataOf, Put
<1>2. ASSUME NEW m \in DOMAIN const_data_info
      PROVE  e[m] = IF m \in DOMAIN const_lazy' /\ closures'[const_lazy'[m]].pending
                    THEN Transposed(e[closures'[const_lazy'[m]].source],
                                    closures'[const_lazy'[m]].order)
                    ELSE const_data'[const_data_info'[m]].data
  <2> HIDE DEF e
  <2>1. Pending(m) => Source(m) \in DOMAIN const_data_info
    BY DEF PoolInv, SourcesComeFirst, Pending
  <2>2. e[m] = d[m] /\ (Pending(m) => e[Source(m)] = d[Source(m)])
    BY <1>1, <2>1
  <2>3. d[m] = IF Pending(m) THEN Transposed(d[Source(m)], closures[const_lazy[m]].order)
               ELSE const_data[const_data_info[m]].data
    BY DEF DataOf
  <2> QED BY <2>2, <2>3 DEF SameEntry, Source
<1> HIDE DEF e
<1>3. e = [m \in DOMAIN const_data_info' |->
             IF m \in DOMAIN const_lazy' /\ closures'[const_lazy'[m]].pending
             THEN Transposed(e[closures'[const_lazy'[m]].source],
                             closures'[const_lazy'[m]].order)
             ELSE const_data'[const_data_info'[m]].data]
  BY <1>1, <1>2 DEF e
<1> QED BY <1>3 DEF DataOf, Pending, Source, e

LEMMA CreateConstData ==
  ASSUME PoolInv, NEW d, DataOf(d), NEW n, n \notin DOMAIN const_data_info, NEW v,
         create_const(n, v)
  PROVE  DataOf(Put(d, n, v))'
<1>1. /\ Len(const_data) \in Nat /\ const_data'[Len(const_data) + 1] = Cell(v)
      /\ \A i \in 1..Len(const_data) : const_data'[i] = const_data[i]
  BY AppendToSequence DEF create_const, PoolInv, PoolIndexed, IsSequence
<1>2. /\ DOMAIN const_data_info' = DOMAIN const_data_info \cup {n}
      /\ const_data_info'[n] = Len(const_data) + 1
      /\ \A m \in DOMAIN const_data_info : const_data_info'[m] = const_data_info[m]
      /\ const_lazy' = const_lazy /\ closures' = closures
  BY DEF create_const, Insert, Put
<1>3. /\ n \notin DOMAIN const_lazy
      /\ \A m \in DOMAIN const_data_info : const_data_info[m] \in 1..Len(const_data)
  BY DEF PoolInv, PoolIndexed
<1>4. \A m \in DOMAIN const_data_info : SameEntry(m)
  BY <1>1, <1>2, <1>3 DEF SameEntry, Pending
<1>5. const_data'[const_data_info'[n]].data = v /\ n \notin DOMAIN const_lazy'
  BY <1>1, <1>2, <1>3 DEF Cell
<1> QED BY <1>2, <1>4, <1>5, OneMoreEntry

LEMMA CreateLazyData ==
  ASSUME PoolInv, NEW d, DataOf(d), NEW n, n \notin DOMAIN const_data_info,
         NEW source \in DOMAIN const_data_info, NEW order, create_lazy_const(n, source, order)
  PROVE  DataOf(Put(d, n, Transposed(d[source], order)))'
<1> DEFINE v == Transposed(d[source], order)
<1>1. /\ \A i \in 1..Len(const_data) : const_data'[i] = const_data[i]
      /\ Len(closures) \in Nat
      /\ closures'[Len(closures) + 1] = Closure(source, order)
      /\ \A i \in 1..Len(closures) : closures'[i] = closures[i]
  <2>1. /\ IsSequence(const_data) /\ const_data' = Append(const_data, EmptyCell)
        /\ IsSequence(closures) /\ closures' = Append(closures, Closure(source, order))
    BY DEF create_lazy_const, PoolInv, PoolIndexed
  <2> QED BY <2>1, AppendToSequence DEF IsSequence
<1>2. /\ \A m \in DOMAIN const_data_info : const_data_info[m] \in 1..Len(const_data)
      /\ \A m \in DOMAIN const_lazy : const_lazy[m] \in 1..Len(closures)
      /\ n \notin DOMAIN const_lazy
  BY DEF PoolInv, PoolIndexed
<1>3. /\ DOMAIN const_data_info' = DOMAIN const_data_info \cup {n}
      /\ \A m \in DOMAIN const_data_info : const_data_info'[m] = const_data_info[m]
      /\ DOMAIN const_lazy' = DOMAIN const_lazy \cup {n}
      /\ const_lazy'[n] = Len(closures) + 1
      /\ \A m \in DOMAIN const_lazy : const_lazy'[m] = const_lazy[m]
  BY <1>2 DEF create_lazy_const, Insert, Put
<1>4. \A m \in DOMAIN const_data_info : SameEntry(m)
  <2> SUFFICES ASSUME NEW m \in DOMAIN const_data_info PROVE SameEntry(m)
    OBVIOUS
  <2>1. const_data'[const_data_info'[m]] = const_data[const_data_info[m]]
    BY <1>1, <1>2, <1>3
  <2>2. m \in DOMAIN const_lazy' <=> m \in DOMAIN const_lazy
    BY <1>3
  <2>3. m \in DOMAIN const_lazy => closures'[const_lazy'[m]] = closures[const_lazy[m]]
    BY <1>1, <1>2, <1>3
  <2> QED BY <2>1, <2>2, <2>3 DEF SameEntry, Pending
<1>5. /\ n \in DOMAIN const_lazy' /\ closures'[const_lazy'[n]].pending
      /\ closures'[const_lazy'[n]].source = source
      /\ closures'[const_lazy'[n]].order = order
  BY <1>1, <1>3 DEF Closure
<1>6. Put(d, n, v)[source] = d[source]
  BY DEF Put, DataOf
<1> HIDE DEF v
<1>7. DataOf(Put(d, n, v))'
  <2>1. v = Transposed(Put(d, n, v)[source], order)
    BY <1>6 DEF v
  <2> QED BY <1>3, <1>4, <1>5, <2>1, OneMoreEntry
<1> QED BY <1>7 DEF v

LEMMA CreateAliasData ==
  ASSUME PoolInv, NEW d, DataOf(d), NEW n \in DOMAIN const_data_info, NEW alias,
         alias \notin DOMAIN const_data_info, create_const_alias(alias, n)
  PROVE  DataOf(Put(d, alias, d[n]))'
<1> DEFINE v == d[n]
<1>1. /\ const_data' = const_data /\ closures' = closures
      /\ DOMAIN const_data_info' = DOMAIN const_data_info \cup {alias}
      /\ const_data_info'[alias] = const_data_info[n]
      /\ \A m \in DOMAIN const_data_info : const_data_info'[m] = const_data_info[m]
  BY DEF create_const_alias, Insert, Put
<1>2. alias \notin DOMAIN const_lazy /\ DOMAIN const_lazy \subseteq DOMAIN const_data_info
  BY DEF PoolInv, PoolIndexed
<1>3. /\ DOMAIN const_lazy' = IF n \in DOMAIN const_lazy
                              THEN DOMAIN const_lazy \cup {alias} ELSE DOMAIN const_lazy
      /\ \A m \in DOMAIN const_lazy : const_lazy'[m] = const_lazy[m]
      /\ n \in DOMAIN const_lazy => const_lazy'[alias] = const_lazy[n]
  BY <1>2 DEF create_const_alias, Put
<1>4. \A m \in DOMAIN const_data_info : SameEntry(m)
  BY <1>1, <1>2, <1>3 DEF SameEntry, Pending
<1>5. Pending(n) => Source(n) \in DOMAIN const_data_info
  BY DEF PoolInv, SourcesComeFirst, Pending
<1>6. d[n] = IF Pending(n) THEN Transposed(d[Source(n)], closures[const_lazy[n]].order)
             ELSE const_data[const_data_info[n]].data
  BY DEF DataOf
<1>7. Pending(n) => Put(d, alias, v)[Source(n)] = d[Source(n)]
  BY <1>5 DEF Put, DataOf
<1>8. v = IF alias \in DOMAIN const_lazy' /\ closures'[const_lazy'[alias]].pending
          THEN Transposed(Put(d, alias, v)[closures'[const_lazy'[alias]].source],
                          closures'[const_lazy'[alias]].order)
          ELSE const_data'[const_data_info'[alias]].data
  BY <1>1, <1>2, <1>3, <1>6, <1>7 DEF Pending, Source
<1> HIDE DEF v
<1>9. DataOf(Put(d, alias, v))'
  BY <1>1, <1>4, <1>8, OneMoreEntry
<1> QED BY <1>9 DEF v

(* Forcing constants changes when they are computed, not what they are.    *)
LEMMA ForcedData ==
  ASSUME PoolInv, NEW d, DataOf(d), NEW n, get_const_data(n)
  PROVE  DataOf(d)'
<1> DEFINE forced == Forced(n)
           filler(i) == CHOOSE m \in forced : const_data_info[m] = i
<1>1. forced \subseteq DOMAIN const_data_info /\ \A m \in forced : Pending(m)
  BY DEF Forced
<1>2. /\ const_data_info' = const_data_info /\ const_lazy' = const_lazy
      /\ const_data' = [i \in DOMAIN const_data |->
           IF \E m \in forced : const_data_info[m] = i
           THEN Cell(Fetched(filler(i))) ELSE const_data[i]]
      /\ closures' = [c \in DOMAIN closures |->
           IF \E m \in forced : const_lazy[m] = c
           THEN [closures[c] EXCEPT !.pending = FALSE] ELSE closures[c]]
  BY DEF get_const_data
<1> HIDE DEF forced
<1>3. \A m \in DOMAIN const_data_info :
        /\ const_data_info[m] \in DOMAIN const_data
        /\ m \in DOMAIN const_lazy => const_lazy[m] \in DOMAIN closures
  BY DEF PoolInv, PoolIndexed, IsSequence
<1>4. ASSUME NEW m \in DOMAIN const_data_info
      PROVE  d[m] = IF m \in DOMAIN const_lazy /\ closures'[const_lazy[m]].pending
                    THEN Transposed(d[closures'[const_lazy[m]].source],
                                    closures'[const_lazy[m]].order)
                    ELSE const_data'[const_data_info[m]].data
  <2>1. d[m] = IF Pending(m) THEN Transposed(d[Source(m)], closures[const_lazy[m]].order)
               ELSE const_data[const_data_info[m]].data
    BY DEF DataOf
  <2>2. CASE \E k \in forced : const_data_info[k] = const_data_info[m]
    <3> DEFINE k == filler(const_data_info[m])
    <3>1. k \in forced /\ const_data_info[k] = const_data_info[m]
      BY <2>2
    <3> HIDE DEF k
    <3>2. k \in DOMAIN const_data_info /\ Pending(k)
      BY <1>1, <3>1
    <3>3. m \in DOMAIN const_lazy /\ const_lazy[m] = const_lazy[k]
      BY <3>1, <3>2 DEF PoolInv, SameCellSameClosure, Pending
    <3>4. d[k] = d[m]
      <4>1. d[k] = Transposed(d[Source(k)], closures[const_lazy[k]].order)
        BY <3>2 DEF DataOf
      <4>2. Pending(m) /\ Source(m) = Source(k)
        BY <3>2, <3>3 DEF Pending, Source
      <4> QED BY <2>1, <3>3, <4>1, <4>2
    <3>5. ~closures'[const_lazy[m]].pending
      BY <1>2, <1>3, <3>1, <3>3
    <3>6. const_data'[const_data_info[m]] = Cell(Fetched(k))
      BY <1>2, <1>3, <2>2 DEF k
    <3>7. Fetched(k) = d[k]
      BY <3>2, FetchedIsData
    <3> QED BY <3>4, <3>5, <3>6, <3>7 DEF Cell
  <2>3. CASE \A k \in forced : const_data_info[k] # const_data_info[m]
    <3>1. const_data'[const_data_info[m]] = const_data[const_data_info[m]]
      BY <1>2, <1>3, <2>3
    <3>2. ASSUME m \in DOMAIN const_lazy
          PROVE  closures'[const_lazy[m]] = closures[const_lazy[m]]
      <4>1. \A k \in forced : const_lazy[k] # const_lazy[m]
        BY <1>1, <2>3, <3>2 DEF PoolInv, SameClosureSameCell, Pending
      <4> QED BY <1>2, <1>3, <3>2, <4>1
    <3> QED BY <2>1, <3>1, <3>2 DEF Pending, Source
  <2> QED BY <2>2, <2>3
<1>5. d = [m \in DOMAIN const_data_info' |-> d[m]]
  BY <1>2 DEF DataOf
<1>6. \A m \in DOMAIN const_data_info' :
        d[m] = IF m \in DOMAIN const_lazy' /\ closures'[const_lazy'[m]].pending
               THEN Transposed(d[closures'[const_lazy'[m]].source],
                               closures'[const_lazy'[m]].order)
               ELSE const_data'[const_data_info'[m]].data
  <2>1. const_data_info' = const_data_info /\ const_lazy' = const_lazy
    BY <1>2
  <2> SUFFICES ASSUME NEW m \in DOMAIN const_data_info
               PROVE  d[m] = IF m \in DOMAIN const_lazy /\ closures'[const_lazy[m]].pending
                             THEN Transposed(d[closures'[const_lazy[m]].source],
                                             closures'[const_lazy[m]].order)
                             ELSE const_data'[const_data_info[m]].data
    BY <2>1
  <2> QED BY <1>4
<1>7. d = [m \in DOMAIN const_data_info' |->
             IF m \in DOMAIN const_lazy' /\ closures'[const_lazy'[m]].pending
             THEN Transposed(d[closures'[const_lazy'[m]].source],
                             closures'[const_lazy'[m]].order)
             ELSE const_data'[const_data_info'[m]].data]
  BY <1>5, <1>6
<1> QED BY <1>7 DEF DataOf, Pending, Source

-----------------------------------------------------------------------------
(* Transposing tensors.                                                    *)
IsToken(t) ==
  /\ t = [op |-> t.op, args |-> t.args, perm |-> t.perm]
  /\ t.perm = << >> \/ t.perm \in Orders
IsTensor(v) == IsSequence(v) /\ Len(v) >= 1 /\ \A i \in 1..Len(v) : IsToken(v[i])

Turned(t, order) ==
  IF t.perm = << >> THEN t ELSE [t EXCEPT !.perm = Permuted(@, order)]

LEMMA OrderIsNotEmpty == ASSUME NEW o \in Orders PROVE o # << >>
<1>1. DOMAIN o = 1..3 /\ 1 \in 1..3
  BY DEF Orders
<1>2. 1 \notin DOMAIN << >>
  OBVIOUS
<1> QED BY <1>1, <1>2

LEMMA TurnedToken ==
  ASSUME NEW t, IsToken(t), NEW o \in Orders
  PROVE  /\ IsToken(Turned(t, o)) /\ Turned(t, o).op = t.op
         /\ Turned(t, o) = IF t.perm = << >> THEN t
              ELSE [op |-> t.op, args |-> t.args, perm |-> Permuted(t.perm, o)]
         /\ t.perm = << >> <=> Turned(t, o).perm = << >>
<1>1. CASE t.perm = << >>
  BY <1>1 DEF Turned
<1>2. CASE t.perm # << >>
  <2> DEFINE perm == Permuted(t.perm, o)
  <2>1. t.perm \in Orders
    BY <1>2 DEF IsToken
  <2>2. perm \in Orders /\ perm # << >>
    BY <2>1, OrdersComposed, OrderIsNotEmpty
  <2>3. Turned(t, o) = [t EXCEPT !.perm = perm]
    BY <1>2 DEF Turned
  <2> HIDE DEF perm
  <2>4. Turned(t, o) = [op |-> t.op, args |-> t.args, perm |-> perm]
    BY <2>3 DEF IsToken
  <2> QED BY <1>2, <2>2, <2>4 DEF IsToken, perm
<1> QED BY <1>1, <1>2

LEMMA TurnedTwice ==
  ASSUME NEW t, IsToken(t), NEW o \in Orders, NEW p \in Orders
  PROVE  Turned(Turned(t, o), p) = Turned(t, Permuted(o, p))
<1>1. Permuted(o, p) \in Orders
  BY OrdersComposed
<1>2. CASE t.perm = << >>
  BY <1>2 DEF Turned
<1>3. CASE t.perm # << >>
  <2>1. t.perm \in Orders
    BY <1>3 DEF IsToken
  <2>2. Turned(t, o) = [op |-> t.op, args |-> t.args, perm |-> Permuted(t.perm, o)]
    BY <1>3, TurnedToken
  <2>3. IsToken(Turned(t, o)) /\ Turned(t, o).perm # << >>
    BY <1>3, TurnedToken
  <2>4. Turned(Turned(t, o), p)
          = [op |-> t.op, args |-> t.args, perm |-> Permuted(Permuted(t.perm, o), p)]
    BY <2>2, <2>3, TurnedToken
  <2>5. Turned(t, Permuted(o, p))
          = [op |-> t.op, args |-> t.args, perm |-> Permuted(t.perm, Permuted(o, p))]
    BY <1>1, <1>3, TurnedToken
  <2>6. Permuted(Permuted(t.perm, o), p) = Permuted(t.perm, Permuted(o, p))
    BY PermutedTwice
  <2> QED BY <2>4, <2>5, <2>6
<1> QED BY <1>2, <1>3

LEMMA TurnedBack ==
  ASSUME NEW t, IsToken(t), NEW o \in Orders
  PROVE  Turned(Turned(t, o), undo_order(o)) = t /\ Turned(Turned(t, undo_order(o)), o) = t
<1>1. undo_order(o) \in Orders
  BY OrderUndone
<1>2. CASE t.perm = << >>
  BY <1>2 DEF Turned
<1>3. CASE t.perm # << >>
  <2>1. t.perm \in Orders /\ t.perm \in [1..3 -> 1..3]
    BY <1>3 DEF IsToken, Orders
  <2> DEFINE u == undo_order(o)
             there == Turned(t, o)
             back == Turned(t, u)
  <2>2. /\ IsToken(there) /\ there.perm # << >>
        /\ there = [op |-> t.op, args |-> t.args, perm |-> Permuted(t.perm, o)]
    BY <1>3, TurnedToken
  <2>3. /\ IsToken(back) /\ back.perm # << >>
        /\ back = [op |-> t.op, args |-> t.args, perm |-> Permuted(t.perm, u)]
    BY <1>1, <1>3, TurnedToken
  <2>4. Permuted(Permuted(t.perm, o), u) = t.perm /\ Permuted(Permuted(t.perm, u), o) = t.perm
    BY <2>1, PermutedBack
  <2> HIDE DEF there, back, u
  <2>5. Turned(there, u)
          = [op |-> t.op, args |-> t.args, perm |-> Permuted(Permuted(t.perm, o), u)]
    BY <1>1, <2>2, TurnedToken DEF u
  <2>6. Turned(back, o)
          = [op |-> t.op, args |-> t.args, perm |-> Permuted(Permuted(t.perm, u), o)]
    BY <2>3, TurnedToken
  <2>7. Turned(there, u) = t /\ Turned(back, o) = t
    BY <2>4, <2>5, <2>6 DEF IsToken
  <2> QED BY <2>7 DEF there, back, u
<1> QED BY <1>2, <1>3

LEMMA TransposedTensor ==
  ASSUME NEW v, IsTensor(v), NEW o \in Orders
  PROVE  /\ IsTensor(Transposed(v, o)) /\ Len(Transposed(v, o)) = Len(v)
         /\ \A i \in 1..Len(v) : Transposed(v, o)[i] = Turned(v[i], o)
<1> DEFINE w == Transposed(v, o)
<1>1. DOMAIN v = 1..Len(v) /\ Len(v) \in Nat
  BY DEF IsTensor, IsSequence
<1>2. w = [i \in 1..Len(v) |-> Turned(v[i], o)]
  BY <1>1 DEF Transposed, Turned
<1>3. w = [i \in 1..Len(v) |-> w[i]] /\ \A i \in 1..Len(v) : w[i] = Turned(v[i], o)
  BY <1>2
<1> HIDE DEF w
<1>4. IsSequence(w) /\ Len(w) = Len(v)
  BY <1>1, <1>3, FunctionIsSequence
<1>5. \A i \in 1..Len(v) : IsToken(w[i])
  BY <1>3, TurnedToken DEF IsTensor
<1> QED BY <1>3, <1>4, <1>5 DEF IsTensor, w

LEMMA SameTensor ==
  ASSUME NEW v, IsTensor(v), NEW w, IsTensor(w), Len(v) = Len(w),
         \A i \in 1..Len(v) : v[i] = w[i]
  PROVE  v = w
BY DEF IsTensor, IsSequence

LEMMA TransposedTwice ==
  ASSUME NEW v, IsTensor(v), NEW o \in Orders, NEW p \in Orders
  PROVE  Transposed(Transposed(v, o), p) = Transposed(v, Permuted(o, p))
<1> DEFINE w == Transposed(v, o)
<1>1. Permuted(o, p) \in Orders
  BY OrdersComposed
<1>2. /\ IsTensor(w) /\ Len(w) = Len(v)
      /\ \A i \in 1..Len(v) : w[i] = Turned(v[i], o)
  BY TransposedTensor
<1> HIDE DEF w
<1>3. /\ IsTensor(Transposed(w, p)) /\ Len(Transposed(w, p)) = Len(v)
      /\ \A i \in 1..Len(v) : Transposed(w, p)[i] = Turned(Turned(v[i], o), p)
  BY <1>2, TransposedTensor
<1>4. /\ IsTensor(Transposed(v, Permuted(o, p))) /\ Len(Transposed(v, Permuted(o, p))) = Len(v)
      /\ \A i \in 1..Len(v) : Transposed(v, Permuted(o, p))[i] = Turned(v[i], Permuted(o, p))
  BY <1>1, TransposedTensor
<1>5. \A i \in 1..Len(v) : Turned(Turned(v[i], o), p) = Turned(v[i], Permuted(o, p))
  BY TurnedTwice DEF IsTensor
<1>6. \A i \in 1..Len(v) : Transposed(w, p)[i] = Transposed(v, Permuted(o, p))[i]
  BY <1>3, <1>4, <1>5
<1> QED BY <1>3, <1>4, <1>6, SameTensor DEF w

LEMMA TransposedAndBack ==
  ASSUME NEW v, IsTensor(v), NEW o \in Orders
  PROVE  /\ Transposed(Transposed(v, o), undo_order(o)) = v
         /\ Transposed(Transposed(v, undo_order(o)), o) = v
<1> DEFINE u == undo_order(o)
<1>1. u \in Orders
  BY OrderUndone
<1>2. \A i \in 1..Len(v) : Turned(Turned(v[i], o), u) = v[i] /\ Turned(Turned(v[i], u), o) = v[i]
  BY TurnedBack DEF IsTensor
<1> HIDE DEF u
<1>3. ASSUME NEW a \in Orders, NEW b \in Orders,
             \A i \in 1..Len(v) : Turned(Turned(v[i], a), b) = v[i]
      PROVE  Transposed(Transposed(v, a), b) = v
  <2> DEFINE w == Transposed(v, a)
  <2>1. /\ IsTensor(w) /\ Len(w) = Len(v)
        /\ \A i \in 1..Len(v) : w[i] = Turned(v[i], a)
    BY TransposedTensor
  <2> HIDE DEF w
  <2>2. /\ IsTensor(Transposed(w, b)) /\ Len(Transposed(w, b)) = Len(v)
        /\ \A i \in 1..Len(v) : Transposed(w, b)[i] = v[i]
    BY <1>3, <2>1, TransposedTensor
  <2> QED BY <2>2, SameTensor DEF w
<1>4. Transposed(Transposed(v, o), u) = v /\ Transposed(Transposed(v, u), o) = v
  BY <1>1, <1>2, <1>3
<1> QED BY <1>4 DEF u

LEMMA Concatenated ==
  ASSUME NEW a, IsTensor(a), NEW b, IsTensor(b)
  PROVE  /\ IsTensor(a \o b) /\ Len(a \o b) = Len(a) + Len(b)
         /\ \A i \in 1..(Len(a) + Len(b)) :
              (a \o b)[i] = IF i <= Len(a) THEN a[i] ELSE b[i - Len(a)]
<1> DEFINE T == {a[i] : i \in 1..Len(a)} \cup {b[i] : i \in 1..Len(b)}
           c == a \o b
<1>1. a \in Seq(T) /\ b \in Seq(T) /\ Len(a) \in Nat /\ Len(b) \in Nat
  <2>1. a \in [1..Len(a) -> T] /\ b \in [1..Len(b) -> T] /\ Len(a) \in Nat /\ Len(b) \in Nat
    BY DEF IsTensor, IsSequence
  <2> QED BY <2>1, SeqDef
<1> HIDE DEF T
<1>2. /\ c \in Seq(T) /\ Len(c) = Len(a) + Len(b)
      /\ \A i \in 1..(Len(a) + Len(b)) : c[i] = IF i <= Len(a) THEN a[i] ELSE b[i - Len(a)]
  BY <1>1, ConcatProperties
<1> HIDE DEF c
<1>3. IsSequence(c)
  BY <1>2, LenProperties DEF IsSequence
<1>4. Len(c) >= 1
  BY <1>1, <1>2 DEF IsTensor
<1>5. ASSUME NEW i \in 1..Len(c) PROVE IsToken(c[i])
  <2>1. i \in 1..(Len(a) + Len(b))
    BY <1>2
  <2>2. CASE i <= Len(a)
    <3>1. i \in 1..Len(a) /\ c[i] = a[i]
      BY <1>1, <1>2, <2>1, <2>2
    <3> QED BY <3>1 DEF IsTensor
  <2>3. CASE ~(i <= Len(a))
    <3>1. i - Len(a) \in 1..Len(b) /\ c[i] = b[i - Len(a)]
      BY <1>1, <1>2, <2>1, <2>3
    <3> QED BY <3>1 DEF IsTensor
  <2> QED BY <2>2, <2>3
<1> QED BY <1>2, <1>3, <1>4, <1>5 DEF IsTensor, c

LEMMA TransposedConcat ==
  ASSUME NEW a, IsTensor(a), NEW b, IsTensor(b), NEW o \in Orders
  PROVE  Transposed(a \o b, o) = Transposed(a, o) \o Transposed(b, o)
<1> DEFINE c == a \o b
           x == Transposed(a, o)
           y == Transposed(b, o)
           left == Transposed(c, o)
           right == x \o y
<1>1. Len(a) \in Nat /\ Len(b) \in Nat
  BY DEF IsTensor, IsSequence
<1>2. /\ IsTensor(c) /\ Len(c) = Len(a) + Len(b)
      /\ \A i \in 1..(Len(a) + Len(b)) : c[i] = IF i <= Len(a) THEN a[i] ELSE b[i - Len(a)]
  BY Concatenated
<1>3. /\ IsTensor(x) /\ Len(x) = Len(a) /\ \A i \in 1..Len(a) : x[i] = Turned(a[i], o)
      /\ IsTensor(y) /\ Len(y) = Len(b) /\ \A i \in 1..Len(b) : y[i] = Turned(b[i], o)
  BY TransposedTensor
<1> HIDE DEF c, x, y
<1>4. /\ IsTensor(left) /\ Len(left) = Len(c) /\ \A i \in 1..Len(c) : left[i] = Turned(c[i], o)
  BY <1>2, TransposedTensor
<1>5. /\ IsTensor(right) /\ Len(right) = Len(a) + Len(b)
      /\ \A i \in 1..(Len(a) + Len(b)) : right[i] = IF i <= Len(a) THEN x[i] ELSE y[i - Len(a)]
  <2>1. /\ IsTensor(right) /\ Len(right) = Len(x) + Len(y)
        /\ \A i \in 1..(Len(x) + Len(y)) : right[i] = IF i <= Len(x) THEN x[i] ELSE y[i - Len(x)]
    BY <1>3, Concatenated
  <2> QED BY <1>3, <2>1
<1> HIDE DEF left, right
<1>6. ASSUME NEW i \in 1..(Len(a) + Len(b)) PROVE left[i] = right[i]
  <2>1. CASE i <= Len(a)
    <3>1. i \in 1..Len(a)
      BY <1>1, <2>1
    <3> QED BY <1>2, <1>3, <1>4, <1>5, <2>1, <3>1
  <2>2. CASE ~(i <= Len(a))
    <3>1. i - Len(a) \in 1..Len(b)
      BY <1>1, <2>2
    <3> QED BY <1>2, <1>3, <1>4, <1>5, <2>2, <3>1
  <2> QED BY <2>1, <2>2
<1>7. left = right
  BY <1>2, <1>4, <1>5, <1>6, SameTensor
<1> QED BY <1>7 DEF left, right, c, x, y

LEMMA OperatorTensor ==
  ASSUME NEW op
  PROVE  /\ IsTensor(Operator(op)) /\ Operator(op)[1].op = op
         /\ \A o \in Orders : Transposed(Operator(op), o) = Operator(op)
<1> DEFINE token == [op |-> op, args |-> << >>, perm |-> << >>]
<1>1. Operator(op) = <<token>>
  BY DEF Operator
<1>2. token.perm = << >> /\ token.op = op /\ IsToken(token)
  BY DEF IsToken
<1> HIDE DEF token
<1>3. /\ IsSequence(<<token>>) /\ Len(<<token>>) = 1 /\ <<token>>[1] = token
      /\ DOMAIN <<token>> = 1..1
  BY DEF IsSequence
<1>4. IsTensor(Operator(op))
  BY <1>1, <1>2, <1>3 DEF IsTensor
<1>5. ASSUME NEW o \in Orders PROVE Transposed(Operator(op), o) = Operator(op)
  <2>1. Transposed(<<token>>, o) = [i \in 1..1 |-> token]
    BY <1>2, <1>3 DEF Transposed
  <2>2. <<token>> = [i \in 1..1 |-> token]
    OBVIOUS
  <2> QED BY <1>1, <2>1, <2>2
<1> QED BY <1>1, <1>2, <1>3, <1>4, <1>5

LEMMA LeafTensor == ASSUME NEW source, NEW args PROVE IsTensor(Leaf(source, args))
<1> DEFINE token == [op |-> source, args |-> args, perm |-> Identity]
<1>1. Identity \in Orders
  <2>1. Identity \in [1..3 -> 1..3] /\ Identity[1] = 1 /\ Identity[2] = 2 /\ Identity[3] = 3
    BY DEF Identity
  <2>2. \A k \in 1..3 : k = 1 \/ k = 2 \/ k = 3
    OBVIOUS
  <2> QED BY <2>1, <2>2 DEF Orders
<1>2. Leaf(source, args) = <<token>> /\ IsToken(token)
  BY <1>1 DEF Leaf, IsToken
<1> HIDE DEF token
<1>3. IsSequence(<<token>>) /\ Len(<<token>>) = 1 /\ <<token>>[1] = token
  BY DEF IsSequence
<1> QED BY <1>2, <1>3 DEF IsTensor

(* Operators, element-wise, commute with a transpose; rounding is one.     *)
LEMMA HeadOfTensor == ASSUME NEW v, IsTensor(v) PROVE Head(v) = v[1]
<1> DEFINE T == {v[i] : i \in 1..Len(v)}
<1>1. v \in [1..Len(v) -> T] /\ Len(v) \in Nat /\ Len(v) >= 1
  BY DEF IsTensor, IsSequence
<1>2. v \in Seq(T)
  BY <1>1, SeqDef
<1> QED BY <1>1, <1>2

IsFixed(v) == v[1].op = "fix"

LEMMA FixedTensor ==
  ASSUME NEW v, IsTensor(v)
  PROVE  /\ IsTensor(Fixed(v)) /\ IsFixed(Fixed(v))
         /\ IsFixed(v) => Fixed(v) = v
         /\ \A o \in Orders : IsFixed(v) => IsFixed(Transposed(v, o))
         /\ \A o \in Orders : Fixed(Transposed(v, o)) = Transposed(Fixed(v), o)
<1> DEFINE fix == Operator("fix")
<1>1. /\ IsTensor(fix) /\ fix[1].op = "fix" /\ Len(fix) \in Nat /\ Len(fix) >= 1
      /\ \A o \in Orders : Transposed(fix, o) = fix
  BY OperatorTensor DEF IsTensor, IsSequence
<1>2. Len(v) \in Nat /\ Len(v) >= 1
  BY DEF IsTensor, IsSequence
<1> HIDE DEF fix
<1>3. ASSUME NEW w, IsTensor(w) PROVE Fixed(w) = IF IsFixed(w) THEN w ELSE fix \o w
  BY <1>3, HeadOfTensor DEF Fixed, IsFixed, fix
<1>4. IsTensor(fix \o v) /\ IsFixed(fix \o v)
  BY <1>1, <1>2, Concatenated DEF IsFixed
<1>5. IsTensor(Fixed(v)) /\ IsFixed(Fixed(v)) /\ (IsFixed(v) => Fixed(v) = v)
  BY <1>3, <1>4
<1>6. ASSUME NEW o \in Orders
      PROVE  /\ IsFixed(v) <=> IsFixed(Transposed(v, o))
             /\ Fixed(Transposed(v, o)) = Transposed(Fixed(v), o)
  <2> DEFINE w == Transposed(v, o)
  <2>1. IsTensor(w) /\ w[1] = Turned(v[1], o) /\ IsToken(v[1])
    BY <1>2, TransposedTensor DEF IsTensor
  <2>2. IsFixed(v) <=> IsFixed(w)
    BY <2>1, TurnedToken DEF IsFixed
  <2>3. Transposed(fix \o v, o) = fix \o w
    <3>1. Transposed(fix \o v, o) = Transposed(fix, o) \o Transposed(v, o)
      BY <1>1, TransposedConcat
    <3>2. Transposed(fix, o) = fix
      BY <1>1
    <3> QED BY <3>1, <3>2
  <2> HIDE DEF w
  <2>4. Fixed(w) = IF IsFixed(v) THEN w ELSE fix \o w
    BY <1>3, <2>1, <2>2
  <2>5. Transposed(Fixed(v), o) = IF IsFixed(v) THEN w ELSE fix \o w
    BY <1>3, <2>3 DEF w
  <2> QED BY <2>2, <2>4, <2>5 DEF w
<1> QED BY <1>5, <1>6

-----------------------------------------------------------------------------
(* What the nodes of a graph compute. v gives every node a tensor that     *)
(* follows from those of its args and from the constants d; r orders the   *)
(* nodes, so that no other v does.                                         *)
Result(node, n, d, v) ==
  LET arg(i) == v[node.in[i]]
  IN  CASE node.op \in {"input", "initializer"} -> Leaf(node.op, << >>)
        [] node.op = "const" -> d[n]
        [] node.op = "relu" -> Operator("relu") \o arg(1)
        [] node.op = "fix" -> Fixed(arg(1))
        [] node.op = "add" -> Operator("add") \o arg(1) \o arg(2)
        [] node.op = "transpose" -> Transposed(arg(1), node.order)
        [] node.op = "conv_nchw" -> ConvNchw(arg(1), arg(2))
        [] node.op = "conv" -> ConvNhwc(arg(1), arg(2))

GoodNode(node, S) ==
  /\ node.op \in Kinds
  /\ node.op = "transpose" => node.order \in Orders
  /\ DOMAIN node.in = 1..Arity(node.op)
  /\ \A i \in DOMAIN node.in : node.in[i] \in S

Below(node, r, n) == \A i \in DOMAIN node.in : r[node.in[i]] < r[n]

Meaning(g, d, v, r) ==
  /\ r \in [DOMAIN g -> Nat] /\ v = [n \in DOMAIN g |-> v[n]]
  /\ \A n \in DOMAIN g :
       /\ GoodNode(g[n], DOMAIN g) /\ Below(g[n], r, n)
       /\ IsTensor(v[n]) /\ v[n] = Result(g[n], n, d, v)

LEMMA ArgsOfKind ==
  ASSUME NEW node, NEW S, GoodNode(node, S)
  PROVE  /\ node.op \in {"relu", "fix", "transpose"} => 1 \in DOMAIN node.in /\ node.in[1] \in S
         /\ node.op \in {"add", "conv_nchw", "conv"} =>
              /\ 1 \in DOMAIN node.in /\ node.in[1] \in S
              /\ 2 \in DOMAIN node.in /\ node.in[2] \in S
BY DEF GoodNode, Arity

LEMMA ConvTensor ==
  ASSUME NEW a, NEW b PROVE IsTensor(ConvNchw(a, b)) /\ IsTensor(ConvNhwc(a, b))
<1>1. \A x, y : IsTensor(ConvNchw(x, y))
  BY LeafTensor DEF ConvNchw
<1>2. NCHW2NHWC \in Orders
  BY LayoutIsOrder
<1>3. IsTensor(ConvNhwc(a, b))
  BY <1>1, <1>2, TransposedTensor DEF ConvNhwc
<1> QED BY <1>1, <1>3

LEMMA ResultTensor ==
  ASSUME NEW node, NEW S, GoodNode(node, S), NEW n, NEW d, NEW v,
         \A m \in S : IsTensor(v[m]), node.op = "const" => IsTensor(d[n])
  PROVE  IsTensor(Result(node, n, d, v))
<1> DEFINE a == v[node.in[1]]
           b == v[node.in[2]]
<1>1. CASE node.op \in {"input", "initializer"}
  BY <1>1, LeafTensor DEF Result
<1>2. CASE node.op = "const"
  BY <1>2 DEF Result
<1>3. CASE node.op = "relu"
  <2>1. IsTensor(a) /\ IsTensor(Operator("relu"))
    BY <1>3, ArgsOfKind, OperatorTensor
  <2> QED BY <1>3, <2>1, Concatenated DEF Result
<1>4. CASE node.op = "fix"
  <2>1. IsTensor(a)
    BY <1>4, ArgsOfKind
  <2> QED BY <1>4, <2>1, FixedTensor DEF Result
<1>5. CASE node.op = "add"
  <2>1. IsTensor(a) /\ IsTensor(b) /\ IsTensor(Operator("add"))
    BY <1>5, ArgsOfKind, OperatorTensor
  <2> HIDE DEF a, b
  <2>2. IsTensor(Operator("add") \o a)
    BY <2>1, Concatenated
  <2>3. IsTensor(Operator("add") \o a \o b)
    BY <2>1, <2>2, Concatenated
  <2> QED BY <1>5, <2>3 DEF Result, a, b
<1>6. CASE node.op = "transpose"
  <2>1. IsTensor(a) /\ node.order \in Orders
    BY <1>6, ArgsOfKind DEF GoodNode
  <2> QED BY <1>6, <2>1, TransposedTensor DEF Result
<1>7. CASE node.op \in {"conv_nchw", "conv"}
  BY <1>7, ConvTensor DEF Result
<1> QED BY <1>1, <1>2, <1>3, <1>4, <1>5, <1>6, <1>7 DEF GoodNode, Kinds

LEMMA ResultSame ==
  ASSUME NEW node, NEW S, GoodNode(node, S), NEW n, NEW d, NEW e, NEW v, NEW w,
         \A i \in DOMAIN node.in : v[node.in[i]] = w[node.in[i]],
         node.op = "const" => d[n] = e[n]
  PROVE  Result(node, n, d, v) = Result(node, n, e, w)
<1>1. CASE node.op \in {"input", "initializer", "const"}
  BY <1>1 DEF Result
<1>2. CASE node.op \in {"relu", "fix", "transpose"}
  <2>1. v[node.in[1]] = w[node.in[1]]
    BY <1>2, ArgsOfKind
  <2> QED BY <1>2, <2>1 DEF Result
<1>3. CASE node.op \in {"add", "conv_nchw", "conv"}
  <2>1. v[node.in[1]] = w[node.in[1]] /\ v[node.in[2]] = w[node.in[2]]
    BY <1>3, ArgsOfKind
  <2> QED BY <1>3, <2>1 DEF Result
<1> QED BY <1>1, <1>2, <1>3 DEF GoodNode, Kinds

LEMMA MeaningIsUnique ==
  ASSUME NEW g, NEW d, NEW v, NEW r, Meaning(g, d, v, r),
         NEW w, w = [n \in DOMAIN g |-> Result(g[n], n, d, w)]
  PROVE  w = v
<1> DEFINE wrong == {n \in DOMAIN g : w[n] # v[n]}
           ranks == {r[n] : n \in wrong}
<1>1. ASSUME wrong # {} PROVE FALSE
  <2>1. \A n \in DOMAIN g : r[n] \in Nat
    BY DEF Meaning
  <2>2. ranks \subseteq Nat /\ ranks # {}
    BY <1>1, <2>1
  <2>3. PICK k \in ranks : \A j \in ranks : k <= j
    BY <2>2, SmallestNat
  <2>4. PICK n \in wrong : r[n] = k
    OBVIOUS
  <2>5. GoodNode(g[n], DOMAIN g) /\ Below(g[n], r, n) /\ v[n] = Result(g[n], n, d, v)
    BY DEF Meaning
  <2>6. \A i \in DOMAIN g[n].in : w[g[n].in[i]] = v[g[n].in[i]]
    <3> SUFFICES ASSUME NEW i \in DOMAIN g[n].in PROVE g[n].in[i] \notin wrong
      BY <2>5 DEF GoodNode
    <3> DEFINE x == g[n].in[i]
    <3>1. x \in DOMAIN g /\ r[x] < r[n]
      BY <2>5 DEF GoodNode, Below
    <3>2. r[x] \in Nat /\ r[n] \in Nat
      BY <2>1, <3>1
    <3> HIDE DEF x
    <3>3. ASSUME x \in wrong PROVE FALSE
      <4>1. r[x] \in ranks
        BY <3>3
      <4>2. k <= r[x]
        BY <2>3, <4>1
      <4> QED BY <2>4, <3>1, <3>2, <4>2
    <3> QED BY <3>3 DEF x
  <2>7. Result(g[n], n, d, w) = Result(g[n], n, d, v)
    BY <2>5, <2>6, ResultSame
  <2> QED BY <2>5, <2>7
<1>2. v = [n \in DOMAIN g |-> v[n]]
  BY DEF Meaning
<1> QED BY <1>1, <1>2

LEMMA ValuesAreMeant ==
  ASSUME NEW g, NEW d, NEW v, NEW r, Meaning(g, d, v, r),
         \A n \in DOMAIN g : g[n].op = "const" => Fetched(n) = d[n]
  PROVE  Values(g) = v
<1> DEFINE With(w, n) ==
             LET arg(i) == w[g[n].in[i]]
             IN  CASE IsSource(g, n) -> Leaf(g[n].op, << >>)
                   [] g[n].op = "const" -> Fetched(n)
                   [] g[n].op = "relu" -> Operator("relu") \o arg(1)
                   [] g[n].op = "fix" -> Fixed(arg(1))
                   [] g[n].op = "add" -> Operator("add") \o arg(1) \o arg(2)
                   [] g[n].op = "transpose" -> Transposed(arg(1), g[n].order)
                   [] g[n].op = "conv_nchw" -> ConvNchw(arg(1), arg(2))
                   [] g[n].op = "conv" -> ConvNhwc(arg(1), arg(2))
           Solves(w) == w = [n \in DOMAIN g |-> With(w, n)]
           value == CHOOSE w : Solves(w)
<1>1. Values(g) = value
  BY DEF Values
<1>2. ASSUME NEW w, NEW n \in DOMAIN g PROVE With(w, n) = Result(g[n], n, d, w)
  <2>1. g[n].op \in Kinds
    BY DEF Meaning, GoodNode
  <2>2. CASE g[n].op \in {"input", "initializer"}
    BY <2>2 DEF Result, IsSource
  <2>3. CASE g[n].op = "const"
    BY <2>3 DEF Result, IsSource
  <2>4. CASE g[n].op \in {"relu", "fix", "add", "transpose"}
    BY <2>4 DEF Result, IsSource
  <2>5. CASE g[n].op \in {"conv_nchw", "conv"}
    BY <2>5 DEF Result, IsSource
  <2> QED BY <2>1, <2>2, <2>3, <2>4, <2>5 DEF Kinds
<1> HIDE DEF With
<1>3. Solves(v)
  BY <1>2 DEF Meaning
<1>4. Solves(value)
  BY <1>3
<1> HIDE DEF value
<1>5. value = [n \in DOMAIN g |-> Result(g[n], n, d, value)]
  BY <1>2, <1>4
<1> QED BY <1>1, <1>5, MeaningIsUnique

(* A node is replaced by one that computes the same.                       *)
LEMMA ReplaceNode ==
  ASSUME NEW g, NEW d, NEW v, NEW r, Meaning(g, d, v, r), NEW n \in DOMAIN g, NEW node,
         GoodNode(node, DOMAIN g), Below(node, r, n), v[n] = Result(node, n, d, v)
  PROVE  Meaning(Put(g, n, node), d, v, r)
<1> DEFINE h == Put(g, n, node)
<1>1. DOMAIN h = DOMAIN g /\ h[n] = node /\ \A m \in DOMAIN g : m # n => h[m] = g[m]
  BY DEF Put
<1> HIDE DEF h
<1>2. Meaning(h, d, v, r)
  BY <1>1 DEF Meaning
<1> QED BY <1>2 DEF h

(* A node is added, between n and what n may depend on.                    *)
Between(r, new, n) ==
  [m \in DOMAIN r \cup {new} |-> IF m = new THEN 2 * r[n] ELSE 2 * r[m] + 1]

LEMMA AddNode ==
  ASSUME NEW g, NEW d, NEW v, NEW r, Meaning(g, d, v, r), NEW n \in DOMAIN g,
         NEW new, new \notin DOMAIN g, NEW node, GoodNode(node, DOMAIN g), Below(node, r, n),
         NEW value, IsTensor(value), value = Result(node, new, d, v)
  PROVE  /\ Meaning(Put(g, new, node), d, Put(v, new, value), Between(r, new, n))
         /\ Between(r, new, n)[new] < Between(r, new, n)[n]
         /\ \A m, k \in DOMAIN g : r[m] < r[k] => Between(r, new, n)[m] < Between(r, new, n)[k]
         /\ \A m \in DOMAIN g : r[m] < r[n] => Between(r, new, n)[m] < Between(r, new, n)[new]
<1> DEFINE h == Put(g, new, node)
           w == Put(v, new, value)
           q == Between(r, new, n)
<1>1. DOMAIN r = DOMAIN g /\ DOMAIN v = DOMAIN g /\ \A m \in DOMAIN g : r[m] \in Nat
  BY DEF Meaning
<1>2. /\ DOMAIN h = DOMAIN g \cup {new} /\ h[new] = node
      /\ \A m \in DOMAIN g : h[m] = g[m]
  BY DEF Put
<1>3. /\ w = [m \in DOMAIN g \cup {new} |-> w[m]] /\ w[new] = value
      /\ \A m \in DOMAIN g : w[m] = v[m]
  BY <1>1 DEF Put
<1>4. /\ q \in [DOMAIN g \cup {new} -> Nat] /\ q[new] = 2 * r[n]
      /\ \A m \in DOMAIN g : q[m] = 2 * r[m] + 1
  BY <1>1 DEF Between
<1> HIDE DEF h, w, q
<1>5. \A m, k \in DOMAIN g : r[m] < r[k] => q[m] < q[k]
  BY <1>1, <1>4
<1>6. \A m \in DOMAIN g : r[m] < r[n] => q[m] < q[new]
  BY <1>1, <1>4
<1>7. q[new] < q[n]
  BY <1>1, <1>4
<1>8. ASSUME NEW m \in DOMAIN g
      PROVE  /\ GoodNode(h[m], DOMAIN h) /\ Below(h[m], q, m)
             /\ IsTensor(w[m]) /\ w[m] = Result(h[m], m, d, w)
  <2>1. /\ GoodNode(g[m], DOMAIN g) /\ Below(g[m], r, m)
        /\ IsTensor(v[m]) /\ v[m] = Result(g[m], m, d, v)
    BY DEF Meaning
  <2>2. GoodNode(h[m], DOMAIN h)
    BY <1>2, <2>1 DEF GoodNode
  <2>3. Below(h[m], q, m)
    BY <1>2, <1>5, <2>1 DEF GoodNode, Below
  <2>4. \A i \in DOMAIN g[m].in : v[g[m].in[i]] = w[g[m].in[i]]
    BY <1>3, <2>1 DEF GoodNode
  <2>5. Result(g[m], m, d, v) = Result(g[m], m, d, w)
    BY <2>1, <2>4, ResultSame
  <2> QED BY <1>2, <1>3, <2>1, <2>2, <2>3, <2>5
<1>9. /\ GoodNode(h[new], DOMAIN h) /\ Below(h[new], q, new)
      /\ IsTensor(w[new]) /\ w[new] = Result(h[new], new, d, w)
  <2>1. GoodNode(node, DOMAIN h)
    BY <1>2 DEF GoodNode
  <2>2. Below(node, q, new)
    BY <1>6 DEF GoodNode, Below
  <2>3. \A i \in DOMAIN node.in : v[node.in[i]] = w[node.in[i]]
    BY <1>3 DEF GoodNode
  <2>4. Result(node, new, d, v) = Result(node, new, d, w)
    BY <2>3, ResultSame
  <2> QED BY <1>2, <1>3, <2>1, <2>2, <2>4
<1>10. Meaning(h, d, w, q)
  BY <1>2, <1>3, <1>4, <1>8, <1>9 DEF Meaning
<1> QED BY <1>5, <1>6, <1>7, <1>10 DEF h, w, q

LEMMA MoreData ==
  ASSUME NEW g, NEW d, NEW v, NEW r, Meaning(g, d, v, r), NEW e,
         \A n \in DOMAIN g : g[n].op = "const" => e[n] = d[n]
  PROVE  Meaning(g, e, v, r)
<1>1. \A n \in DOMAIN g : Result(g[n], n, d, v) = Result(g[n], n, e, v)
  <2> TAKE n \in DOMAIN g
  <2>1. GoodNode(g[n], DOMAIN g)
    BY DEF Meaning
  <2> QED BY <2>1, ResultSame
<1> QED BY <1>1 DEF Meaning

(* The nodes of a model read nodes before them: it has a meaning.          *)
LEMMA ModelHasMeaning ==
  ASSUME NEW g \in Models
  PROVE  \E w, r : Meaning(g, << >>, w, r)
<1>1. /\ MaxOp \in Nat /\ DOMAIN g = 0..MaxOp
      /\ \A n \in DOMAIN g : GoodNode(g[n], DOMAIN g) /\ g[n].op # "const"
      /\ \A n \in DOMAIN g : \A i \in DOMAIN g[n].in : g[n].in[i] \in 0..(n - 1)
  <2>1. IsModel(g) /\ MaxOp \in Nat /\ MaxOp >= 1
    BY DpuAssumption
  <2>2. \A n \in DOMAIN g : GoodNode(g[n], DOMAIN g)
    BY ModelNodes DEF AllNodes, IsNode, GoodNode
  <2>3. ASSUME NEW n \in DOMAIN g
        PROVE  g[n].op # "const" /\ \A i \in DOMAIN g[n].in : g[n].in[i] \in 0..(n - 1)
    <3>1. n \in {Input, Weight} \/ n \in Ops
      BY <2>1 DEF IsModel, Ops, Input, Weight
    <3>2. ASSUME n \in {Input, Weight} PROVE DOMAIN g[n].in = {} /\ g[n].op # "const"
      BY <2>1, <3>2, ModelNodes, ReadsByKind DEF IsModel, IsSource
    <3> QED BY <2>1, <3>1, <3>2 DEF IsModel
  <2> QED BY <2>1, <2>2, <2>3 DEF IsModel
<1> DEFINE Right(w, k) ==
             /\ w = [n \in DOMAIN g |-> w[n]]
             /\ \A n \in DOMAIN g : n < k => IsTensor(w[n]) /\ w[n] = Result(g[n], n, << >>, w)
           stuck == {k \in Nat : ~ \E w : Right(w, k)}
<1>2. ASSUME stuck # {} PROVE FALSE
  <2>1. PICK k \in stuck : \A j \in stuck : k <= j
    BY <1>2, SmallestNat
  <2>2. k # 0
    <3>1. Right([n \in DOMAIN g |-> n], 0)
      BY <1>1
    <3> QED BY <3>1
  <2>3. k - 1 \in Nat /\ k - 1 \notin stuck
    BY <2>1, <2>2
  <2>4. PICK w : Right(w, k - 1)
    BY <2>3
  <2>5. k - 1 \in DOMAIN g
    <3>1. ASSUME k - 1 \notin DOMAIN g PROVE FALSE
      <4>1. \A n \in DOMAIN g : n < k => n < k - 1
        BY <1>1, <3>1
      <4>2. Right(w, k)
        BY <2>4, <4>1
      <4> QED BY <4>2
    <3> QED BY <3>1
  <2> DEFINE last == k - 1
             value == Result(g[last], last, << >>, w)
             u == [w EXCEPT ![last] = value]
  <2> HIDE DEF value
  <2>6. /\ u = [n \in DOMAIN g |-> u[n]] /\ u[last] = value
        /\ \A n \in DOMAIN g : n # last => u[n] = w[n]
    BY <2>4, <2>5
  <2> HIDE DEF u
  <2>7. IsTensor(value)
    <3>1. GoodNode(g[last], 0..(last - 1))
      <4>1. last \in DOMAIN g
        BY <2>5
      <4> HIDE DEF last
      <4>2. /\ GoodNode(g[last], DOMAIN g)
            /\ \A i \in DOMAIN g[last].in : g[last].in[i] \in 0..(last - 1)
        BY <1>1, <4>1
      <4> QED BY <4>2 DEF GoodNode
    <3>2. \A m \in 0..(last - 1) : IsTensor(w[m])
      <4> TAKE m \in 0..(last - 1)
      <4>1. k - 1 \in 0..MaxOp
        BY <1>1, <2>5
      <4>2. m \in 0..MaxOp /\ m < k - 1
        BY <1>1, <4>1
      <4> QED BY <1>1, <2>4, <4>2
    <3>3. g[last].op # "const"
      BY <1>1, <2>5
    <3> HIDE DEF last
    <3> QED BY <3>1, <3>2, <3>3, ResultTensor DEF value
  <2>8. ASSUME NEW n \in DOMAIN g, n < k
        PROVE  IsTensor(u[n]) /\ u[n] = Result(g[n], n, << >>, u)
    <3>1. \A i \in DOMAIN g[n].in : w[g[n].in[i]] = u[g[n].in[i]]
      <4> TAKE i \in DOMAIN g[n].in
      <4>1. g[n].in[i] \in 0..(n - 1)
        BY <1>1
      <4>2. g[n].in[i] \in DOMAIN g /\ g[n].in[i] # last
        BY <1>1, <2>3, <2>8, <4>1
      <4> QED BY <2>6, <4>2
    <3>2. Result(g[n], n, << >>, w) = Result(g[n], n, << >>, u)
      BY <1>1, <3>1, ResultSame
    <3>3. CASE n = last
      BY <2>6, <2>7, <3>2, <3>3 DEF value
    <3>4. CASE n # last
      <4>1. n < k - 1
        BY <1>1, <2>3, <2>8, <3>4
      <4> QED BY <2>4, <2>6, <3>2, <3>4, <4>1
    <3> QED BY <3>3, <3>4
  <2>9. Right(u, k)
    BY <2>6, <2>8
  <2> QED BY <2>9
<1>3. PICK w : Right(w, MaxOp + 1)
  BY <1>1, <1>2
<1> DEFINE r == [n \in DOMAIN g |-> n]
<1>4. r \in [DOMAIN g -> Nat] /\ \A n \in DOMAIN g : Below(g[n], r, n)
  BY <1>1 DEF Below
<1>5. \A n \in DOMAIN g : n < MaxOp + 1
  BY <1>1
<1>6. Meaning(g, << >>, w, r)
  BY <1>1, <1>3, <1>4, <1>5 DEF Meaning
<1> QED BY <1>6

(* The same, for a new node without the ranks: what the graph computed it  *)
(* still computes, and n may depend on the new node.                       *)
Added(g, v, r, n, new, value, u, s) ==
  /\ u[new] = value /\ \A m \in DOMAIN g : u[m] = v[m]
  /\ s[new] < s[n]
  /\ \A m \in DOMAIN g : r[m] < r[n] => s[m] < s[n]

LEMMA NodeAdded ==
  ASSUME NEW g, NEW d, NEW v, NEW r, Meaning(g, d, v, r), NEW n \in DOMAIN g,
         NEW new, new \notin DOMAIN g, NEW node, GoodNode(node, DOMAIN g), Below(node, r, n),
         node.op = "const" => IsTensor(d[new])
  PROVE  \E u, s : /\ Meaning(Put(g, new, node), d, u, s)
                   /\ Added(g, v, r, n, new, Result(node, new, d, v), u, s)
<1> DEFINE value == Result(node, new, d, v)
<1>1. \A m \in DOMAIN g : IsTensor(v[m])
  BY DEF Meaning
<1>2. IsTensor(value)
  BY <1>1, ResultTensor
<1> HIDE DEF value
<1> DEFINE u == Put(v, new, value)
           s == Between(r, new, n)
<1>3. /\ Meaning(Put(g, new, node), d, u, s) /\ s[new] < s[n]
      /\ \A m, k \in DOMAIN g : r[m] < r[k] => s[m] < s[k]
  BY <1>2, AddNode DEF value
<1>4. DOMAIN v = DOMAIN g
  BY DEF Meaning
<1>5. u[new] = value /\ \A m \in DOMAIN g : u[m] = v[m]
  BY <1>4 DEF Put
<1> HIDE DEF u, s
<1>6. Added(g, v, r, n, new, value, u, s)
  BY <1>3, <1>5 DEF Added
<1> QED BY <1>3, <1>6 DEF value

(* The nodes the rules build.                                              *)
LEMMA UnaryNode ==
  ASSUME NEW node, node.op \in {"relu", "fix", "transpose"},
         node.op = "transpose" => node.order \in Orders,
         NEW x, DOMAIN node.in = 1..Arity("transpose"), node.in[1] = x,
         NEW S, x \in S, NEW r, NEW n, r[x] < r[n]
  PROVE  GoodNode(node, S) /\ Below(node, r, n)
<1>1. Arity("transpose") = 1 /\ Arity(node.op) = 1 /\ node.op \in Kinds
  BY DEF Arity, Kinds
<1>2. \A i \in DOMAIN node.in : node.in[i] = x
  BY <1>1
<1> QED BY <1>1, <1>2 DEF GoodNode, Below

LEMMA BinaryNode ==
  ASSUME NEW node, node.op \in {"add", "conv"}, DOMAIN node.in = 1..Arity("add"),
         NEW S, node.in[1] \in S, node.in[2] \in S,
         NEW r, NEW n, r[node.in[1]] < r[n], r[node.in[2]] < r[n]
  PROVE  GoodNode(node, S) /\ Below(node, r, n)
<1>1. Arity("add") = 2 /\ Arity(node.op) = 2 /\ node.op \in Kinds
  BY DEF Arity, Kinds
<1>2. \A i \in DOMAIN node.in : node.in[i] \in {node.in[1], node.in[2]}
  BY <1>1
<1> QED BY <1>1, <1>2 DEF GoodNode, Below

LEMMA ConstNode ==
  ASSUME NEW node, node.op = "const", DOMAIN node.in = {}
  PROVE  /\ \A S : GoodNode(node, S)
         /\ \A r, n : Below(node, r, n)
<1>1. Arity("const") = 0 /\ "const" \in Kinds
  BY DEF Arity, Kinds
<1> QED BY <1>1 DEF GoodNode, Below

(* n becomes the transpose of new.                                         *)
LEMMA TransposeInPlace ==
  ASSUME NEW g, NEW d, NEW u, NEW s, Meaning(g, d, u, s), NEW n \in DOMAIN g,
         NEW new \in DOMAIN g, s[new] < s[n], NEW order \in Orders, NEW shape,
         NEW in, DOMAIN in = 1..Arity("transpose"), in[1] = new,
         u[n] = Transposed(u[new], order)
  PROVE  Meaning(Put(g, n, Node("transpose", in, order, shape)), d, u, s)
<1> DEFINE node == Node("transpose", in, order, shape)
<1>1. node.op = "transpose" /\ node.in = in /\ node.order = order
  BY DEF Node
<1> HIDE DEF node
<1>2. GoodNode(node, DOMAIN g) /\ Below(node, s, n)
  <2>1. node.op \in {"relu", "fix", "transpose"} /\ node.order \in Orders
    BY <1>1
  <2>2. DOMAIN node.in = 1..Arity("transpose") /\ node.in[1] = new
    BY <1>1
  <2> QED BY <2>1, <2>2, UnaryNode
<1>3. Result(node, n, d, u) = Transposed(u[new], order)
  BY <1>1 DEF Result
<1>4. Meaning(Put(g, n, node), d, u, s)
  BY <1>2, <1>3, ReplaceNode
<1> QED BY <1>4 DEF node

(* A new node behind which n becomes a transpose.                          *)
LEMMA TransposeOfAdded ==
  ASSUME NEW g, NEW d, NEW v, NEW r, Meaning(g, d, v, r), NEW n \in DOMAIN g,
         NEW new, new \notin DOMAIN g, NEW node, GoodNode(node, DOMAIN g), Below(node, r, n),
         node.op # "const", NEW order \in Orders, NEW shape,
         v[n] = Transposed(Result(node, new, d, v), order)
  PROVE  \E u, s : /\ Meaning(Put(Put(g, new, node), n,
                                 Node("transpose", <<new>>, order, shape)), d, u, s)
                   /\ \A m \in DOMAIN g : u[m] = v[m]
<1> DEFINE value == Result(node, new, d, v)
           h == Put(g, new, node)
           in == <<new>>
<1>1. DOMAIN in = 1..Arity("transpose") /\ in[1] = new
  BY Arguments
<1> HIDE DEF value, in
<1>2. PICK u, s : Meaning(h, d, u, s) /\ Added(g, v, r, n, new, value, u, s)
  BY NodeAdded DEF value
<1>3. DOMAIN h = DOMAIN g \cup {new}
  BY DEF Put
<1> HIDE DEF h
<1>4. /\ s[new] < s[n] /\ u[n] = Transposed(u[new], order)
      /\ \A m \in DOMAIN g : u[m] = v[m]
  BY <1>2 DEF Added, value
<1>5. Meaning(Put(h, n, Node("transpose", in, order, shape)), d, u, s)
  BY <1>1, <1>2, <1>3, <1>4, TransposeInPlace
<1> QED BY <1>4, <1>5 DEF h, in

(* A constant is added; a node becomes one.                                *)
ConstsIn(g, d) == \A m \in DOMAIN g : g[m].op = "const" => m \in DOMAIN d

LEMMA ConstAdded ==
  ASSUME NEW g, NEW d, NEW v, NEW r, Meaning(g, d, v, r), ConstsIn(g, d), NEW n \in DOMAIN g,
         NEW new, new \notin DOMAIN g, NEW node, node.op = "const", DOMAIN node.in = {},
         NEW value, IsTensor(value)
  PROVE  \E u, s : /\ Meaning(Put(g, new, node), Put(d, new, value), u, s)
                   /\ Added(g, v, r, n, new, value, u, s)
<1> DEFINE e == Put(d, new, value)
<1>1. e[new] = value /\ \A m \in DOMAIN g : g[m].op = "const" => e[m] = d[m]
  BY DEF Put, ConstsIn
<1> HIDE DEF e
<1>2. Meaning(g, e, v, r)
  BY <1>1, MoreData
<1>3. GoodNode(node, DOMAIN g) /\ Below(node, r, n) /\ Result(node, new, e, v) = value
  BY <1>1, ConstNode DEF Result
<1>4. \E u, s : /\ Meaning(Put(g, new, node), e, u, s)
                /\ Added(g, v, r, n, new, Result(node, new, e, v), u, s)
  BY <1>1, <1>2, <1>3, NodeAdded
<1> QED BY <1>3, <1>4 DEF e

LEMMA ConstInPlace ==
  ASSUME NEW g, NEW d, NEW v, NEW r, Meaning(g, d, v, r), ConstsIn(g, d), NEW n \in DOMAIN g,
         n \notin DOMAIN d, NEW node, node.op = "const", DOMAIN node.in = {}
  PROVE  Meaning(Put(g, n, node), Put(d, n, v[n]), v, r)
<1> DEFINE e == Put(d, n, v[n])
<1>1. e[n] = v[n] /\ \A m \in DOMAIN g : g[m].op = "const" => e[m] = d[m]
  BY DEF Put, ConstsIn
<1> HIDE DEF e
<1>2. Meaning(g, e, v, r)
  BY <1>1, MoreData
<1>3. GoodNode(node, DOMAIN g) /\ Below(node, r, n) /\ Result(node, n, e, v) = v[n]
  BY <1>1, ConstNode DEF Result
<1> QED BY <1>2, <1>3, ReplaceNode DEF e

LEMMA Args ==
  /\ \A x : DOMAIN <<x>> = 1..Arity("transpose") /\ <<x>>[1] = x
  /\ \A x, y : DOMAIN <<x, y>> = 1..Arity("add") /\ <<x, y>>[1] = x /\ <<x, y>>[2] = y
BY Arguments

(* A graph that loses nodes nothing kept depends on.                       *)
LEMMA FewerNodes ==
  ASSUME NEW g, NEW d, NEW v, NEW r, Meaning(g, d, v, r), NEW h,
         DOMAIN h \subseteq DOMAIN g, \A n \in DOMAIN h : h[n] = g[n],
         \A n \in DOMAIN h : \A i \in DOMAIN h[n].in : h[n].in[i] \in DOMAIN h
  PROVE  \E u, s : Meaning(h, d, u, s) /\ \A n \in DOMAIN h : u[n] = v[n]
<1> DEFINE u == [n \in DOMAIN h |-> v[n]]
           s == [n \in DOMAIN h |-> r[n]]
<1>1. /\ u = [n \in DOMAIN h |-> u[n]] /\ \A n \in DOMAIN h : u[n] = v[n] /\ s[n] = r[n]
      /\ s \in [DOMAIN h -> Nat]
  BY DEF Meaning
<1> HIDE DEF u, s
<1>2. ASSUME NEW n \in DOMAIN h
      PROVE  /\ GoodNode(h[n], DOMAIN h) /\ Below(h[n], s, n)
             /\ IsTensor(u[n]) /\ u[n] = Result(h[n], n, d, u)
  <2>1. /\ GoodNode(h[n], DOMAIN g) /\ Below(h[n], r, n)
        /\ IsTensor(v[n]) /\ v[n] = Result(h[n], n, d, v)
    BY DEF Meaning
  <2>2. GoodNode(h[n], DOMAIN h)
    BY <2>1 DEF GoodNode
  <2>3. Below(h[n], s, n)
    BY <1>1, <2>1 DEF Below
  <2>4. \A i \in DOMAIN h[n].in : v[h[n].in[i]] = u[h[n].in[i]]
    BY <1>1
  <2>5. Result(h[n], n, d, v) = Result(h[n], n, d, u)
    BY <2>1, <2>4, ResultSame
  <2> QED BY <1>1, <2>1, <2>2, <2>3, <2>5
<1>3. Meaning(h, d, u, s)
  BY <1>1, <1>2 DEF Meaning
<1> QED BY <1>1, <1>3

-----------------------------------------------------------------------------
(* Every rule leaves every node the value it had.                          *)
Same(u, v) == \A m \in DOMAIN clone : u[m] = v[m]

LEMMA Computed ==
  ASSUME NEW d, NEW v, NEW r, Meaning(clone, d, v, r), NEW n \in DOMAIN clone
  PROVE  /\ IsTensor(v[n]) /\ r[n] \in Nat /\ v[n] = Result(clone[n], n, d, v)
         /\ GoodNode(clone[n], DOMAIN clone) /\ Below(clone[n], r, n)
         /\ IsOp(n, "const") => v[n] = d[n]
<1>1. /\ IsTensor(v[n]) /\ r[n] \in Nat /\ v[n] = Result(clone[n], n, d, v)
      /\ GoodNode(clone[n], DOMAIN clone) /\ Below(clone[n], r, n)
  BY DEF Meaning
<1>2. clone[n].op = "const" => Result(clone[n], n, d, v) = d[n]
  BY DEF Result
<1> QED BY <1>1, <1>2 DEF IsOp

LEMMA UnaryComputed ==
  ASSUME NEW d, NEW v, NEW r, Meaning(clone, d, v, r), NEW n,
         IsOp(n, "relu") \/ IsOp(n, "fix") \/ IsOp(n, "transpose")
  PROVE  /\ Arg(n, 1) \in DOMAIN clone /\ r[Arg(n, 1)] \in Nat /\ r[Arg(n, 1)] < r[n]
         /\ IsTensor(v[Arg(n, 1)]) /\ DOMAIN clone[n].in = 1..Arity("transpose")
         /\ IsOp(n, "relu") => v[n] = Operator("relu") \o v[Arg(n, 1)]
         /\ IsOp(n, "fix") => v[n] = Fixed(v[Arg(n, 1)])
         /\ IsOp(n, "transpose") =>
              Order(n) \in Orders /\ v[n] = Transposed(v[Arg(n, 1)], Order(n))
<1> DEFINE node == clone[n]
<1>1. n \in DOMAIN clone /\ node.op \in {"relu", "fix", "transpose"}
  BY DEF IsOp
<1>2. GoodNode(node, DOMAIN clone) /\ Below(node, r, n) /\ v[n] = Result(node, n, d, v)
  BY <1>1, Computed
<1> HIDE DEF node
<1>3. 1 \in DOMAIN node.in /\ node.in[1] \in DOMAIN clone
  BY <1>1, <1>2, ArgsOfKind
<1>4. /\ DOMAIN node.in = 1..Arity("transpose") /\ r[node.in[1]] < r[n]
      /\ node.op = "transpose" => node.order \in Orders
  BY <1>1, <1>2, <1>3 DEF GoodNode, Arity, Below
<1>5. /\ node.op = "relu" => v[n] = Operator("relu") \o v[node.in[1]]
      /\ node.op = "fix" => v[n] = Fixed(v[node.in[1]])
      /\ node.op = "transpose" => v[n] = Transposed(v[node.in[1]], node.order)
  BY <1>2 DEF Result
<1>6. r[node.in[1]] \in Nat /\ IsTensor(v[node.in[1]])
  BY <1>3, Computed
<1> QED BY <1>3, <1>4, <1>5, <1>6 DEF node, IsOp, Arg, Order

LEMMA BinaryComputed ==
  ASSUME NEW d, NEW v, NEW r, Meaning(clone, d, v, r), NEW n, NEW i \in {1, 2},
         IsOp(n, "add") \/ IsOp(n, "conv_nchw")
  PROVE  /\ Arg(n, i) \in DOMAIN clone /\ r[Arg(n, i)] \in Nat /\ r[Arg(n, i)] < r[n]
         /\ IsTensor(v[Arg(n, i)])
         /\ IsOp(n, "add") => v[n] = Operator("add") \o v[Arg(n, 1)] \o v[Arg(n, 2)]
         /\ IsOp(n, "conv_nchw") => v[n] = ConvNchw(v[Arg(n, 1)], v[Arg(n, 2)])
<1> DEFINE node == clone[n]
<1>1. n \in DOMAIN clone /\ node.op \in {"add", "conv_nchw", "conv"}
  BY DEF IsOp
<1>2. GoodNode(node, DOMAIN clone) /\ Below(node, r, n) /\ v[n] = Result(node, n, d, v)
  BY <1>1, Computed
<1> HIDE DEF node
<1>3. i \in DOMAIN node.in /\ node.in[i] \in DOMAIN clone
  BY <1>1, <1>2, ArgsOfKind
<1>4. r[node.in[i]] < r[n]
  BY <1>2, <1>3 DEF Below
<1>5. /\ node.op = "add" => v[n] = Operator("add") \o v[node.in[1]] \o v[node.in[2]]
      /\ node.op = "conv_nchw" => v[n] = ConvNchw(v[node.in[1]], v[node.in[2]])
  BY <1>2 DEF Result
<1>6. r[node.in[i]] \in Nat /\ IsTensor(v[node.in[i]])
  BY <1>3, Computed
<1> QED BY <1>3, <1>4, <1>5, <1>6 DEF node, IsOp, Arg

LEMMA AddComputed ==
  ASSUME NEW d, NEW v, NEW r, Meaning(clone, d, v, r), NEW n, IsOp(n, "add")
  PROVE  v[n] = Operator("add") \o v[Arg(n, 1)] \o v[Arg(n, 2)]
<1>1. 1 \in {1, 2}
  OBVIOUS
<1> QED BY <1>1, BinaryComputed

(* Rewriting below a transpose.                                            *)
LEMMA ReluOfTransposed ==
  ASSUME NEW a, IsTensor(a), NEW o \in Orders
  PROVE  /\ IsTensor(Operator("relu") \o a)
         /\ Operator("relu") \o Transposed(a, o) = Transposed(Operator("relu") \o a, o)
<1> DEFINE f == Operator("relu")
<1>1. IsTensor(f) /\ Transposed(f, o) = f
  BY OperatorTensor
<1> HIDE DEF f
<1>2. IsTensor(f \o a) /\ Transposed(f \o a, o) = Transposed(f, o) \o Transposed(a, o)
  BY <1>1, Concatenated, TransposedConcat
<1> QED BY <1>1, <1>2 DEF f

LEMMA AddOfTransposed ==
  ASSUME NEW a, IsTensor(a), NEW b, IsTensor(b), NEW o \in Orders
  PROVE  /\ IsTensor(Operator("add") \o a \o b)
         /\ Operator("add") \o Transposed(a, o) \o Transposed(b, o)
              = Transposed(Operator("add") \o a \o b, o)
<1> DEFINE f == Operator("add")
           c == f \o a
<1>1. IsTensor(f) /\ Transposed(f, o) = f
  BY OperatorTensor
<1> HIDE DEF f
<1>2. IsTensor(c) /\ Transposed(c, o) = Transposed(f, o) \o Transposed(a, o)
  BY <1>1, Concatenated, TransposedConcat
<1> HIDE DEF c
<1>3. IsTensor(c \o b) /\ Transposed(c \o b, o) = Transposed(c, o) \o Transposed(b, o)
  BY <1>2, Concatenated, TransposedConcat
<1> QED BY <1>1, <1>2, <1>3 DEF f, c

LEMMA SisoMeaning ==
  ASSUME Fresh, NEW d, NEW v, NEW r, Meaning(clone, d, v, r), NEW n \in DOMAIN clone, SisoRule(n)
  PROVE  \E u, s : Meaning(clone', d, u, s) /\ Same(u, v)
<1> DEFINE t == Arg(n, 1)
           x == Arg(t, 1)
           order == Order(t)
           op == clone[n].op
           node == NewSiso(n)
           g == Put(clone, suffix, node)
<1>1. op \in {"relu", "fix"} /\ t \in DOMAIN clone /\ clone[t].op = "transpose"
  BY DEF SisoRule, MatchesSiso, Transposes, IsOp
<1>2. suffix \notin DOMAIN clone /\ suffix # n
  BY DEF Fresh
<1>3. /\ r[t] \in Nat /\ r[n] \in Nat /\ r[t] < r[n]
      /\ v[n] = IF op = "relu" THEN Operator("relu") \o v[t] ELSE Fixed(v[t])
  <2>1. IsOp(n, "relu") \/ IsOp(n, "fix") \/ IsOp(n, "transpose")
    BY <1>1 DEF IsOp
  <2>2. r[n] \in Nat
    BY Computed
  <2>3. /\ r[t] \in Nat /\ r[t] < r[n]
        /\ IsOp(n, "relu") => v[n] = Operator("relu") \o v[t]
        /\ IsOp(n, "fix") => v[n] = Fixed(v[t])
    BY <2>1, UnaryComputed
  <2> HIDE DEF t
  <2> QED BY <1>1, <2>2, <2>3 DEF IsOp
<1>4. /\ x \in DOMAIN clone /\ r[x] < r[t] /\ r[x] \in Nat /\ IsTensor(v[x])
      /\ order \in Orders /\ v[t] = Transposed(v[x], order)
      /\ DOMAIN clone[t].in = 1..Arity("transpose") /\ clone[t].in[1] = x
  <2>1. IsOp(t, "transpose")
    BY <1>1 DEF IsOp
  <2> HIDE DEF t
  <2>2. clone[t].in[1] = x
    BY DEF Arg
  <2> QED BY <2>1, <2>2, UnaryComputed
<1>5. clone' = Put(g, n, Node("transpose", <<suffix>>, order, clone[n].shape))
  BY DEF SisoRule, TransposeOfNew
<1>6. node.op = op /\ node.in = clone[t].in
  BY DEF NewSiso, Node
<1> HIDE DEF t, x, order, node, op
<1>8. GoodNode(node, DOMAIN clone) /\ Below(node, r, n)
  <2>1. r[x] < r[n]
    BY <1>3, <1>4
  <2>2. node.op \in {"relu", "fix", "transpose"} /\ node.op # "transpose"
    BY <1>1, <1>6
  <2> QED BY <1>4, <1>6, <2>1, <2>2, UnaryNode
<1> DEFINE value == Result(node, suffix, d, v)
<1>9. value = IF op = "relu" THEN Operator("relu") \o v[x] ELSE Fixed(v[x])
  BY <1>1, <1>4, <1>6 DEF Result
<1>10. v[n] = Transposed(value, order)
  <2>1. CASE op = "relu"
    BY <1>3, <1>4, <1>9, <2>1, ReluOfTransposed
  <2>2. CASE op = "fix"
    BY <1>3, <1>4, <1>9, <2>2, FixedTensor
  <2> QED BY <1>1, <2>1, <2>2
<1> HIDE DEF value
<1>11. node.op # "const"
  BY <1>1, <1>6
<1> QED BY <1>2, <1>4, <1>5, <1>8, <1>10, <1>11, TransposeOfAdded DEF Same, value

LEMMA TransposeTransposeMeaning ==
  ASSUME NEW d, NEW v, NEW r, Meaning(clone, d, v, r), NEW n \in DOMAIN clone,
         TransposeTransposeRule(n)
  PROVE  Meaning(clone', d, v, r)
<1> DEFINE t == Arg(n, 1)
           x == Arg(t, 1)
           in == clone[t].in
           order == Permuted(Order(t), Order(n))
<1>1. IsOp(n, "transpose") /\ IsOp(t, "transpose")
  BY DEF TransposeTransposeRule, MatchesTransposeTranspose, Transposes
<1>2. /\ r[t] \in Nat /\ r[n] \in Nat /\ r[t] < r[n]
      /\ v[n] = Transposed(v[t], Order(n)) /\ Order(n) \in Orders
  BY <1>1, UnaryComputed, Computed
<1>3. clone' = Put(clone, n, Node("transpose", in, order, clone[n].shape))
  BY DEF TransposeTransposeRule, TransposeOfArg
<1>4. in[1] = x
  BY DEF Arg
<1> HIDE DEF t
<1>5. /\ x \in DOMAIN clone /\ r[x] \in Nat /\ r[x] < r[t] /\ IsTensor(v[x])
      /\ v[t] = Transposed(v[x], Order(t)) /\ Order(t) \in Orders
      /\ DOMAIN in = 1..Arity("transpose")
  BY <1>1, UnaryComputed
<1> HIDE DEF x, in
<1>6. order \in Orders /\ v[n] = Transposed(v[x], order)
  BY <1>2, <1>5, OrdersComposed, TransposedTwice
<1> HIDE DEF order
<1>7. r[x] < r[n]
  BY <1>2, <1>5
<1> QED BY <1>3, <1>4, <1>5, <1>6, <1>7, TransposeInPlace

LEMMA BroadcastMeaning ==
  ASSUME Fresh, NEW d, NEW v, NEW r, Meaning(clone, d, v, r), NEW n \in DOMAIN clone,
         BroadcastRule(n)
  PROVE  \E u, s : Meaning(clone', d, u, s) /\ Same(u, v)
<1> DEFINE t1 == Arg(n, 1)
           t2 == Arg(n, 2)
           x == Arg(t1, 1)
           y == Arg(t2, 1)
           order == Order(t1)
           node == Node("add", <<x, y>>, << >>, ShapeBefore(n, order))
           value == Result(node, suffix, d, v)
<1>1. IsOp(n, "add") /\ IsOp(t1, "transpose") /\ IsOp(t2, "transpose") /\ order = Order(t2)
  BY DEF BroadcastRule, MatchesBroadcast, Transposes
<1>2. suffix \notin DOMAIN clone
  BY DEF Fresh
<1>3. /\ r[t1] \in Nat /\ r[n] \in Nat /\ r[t1] < r[n] /\ r[t2] \in Nat /\ r[t2] < r[n]
      /\ v[n] = Operator("add") \o v[t1] \o v[t2]
  <2>1. r[n] \in Nat
    BY Computed
  <2>2. \A i \in {1, 2} : r[Arg(n, i)] \in Nat /\ r[Arg(n, i)] < r[n]
    BY <1>1, BinaryComputed
  <2>3. v[n] = Operator("add") \o v[t1] \o v[t2]
    BY <1>1, BinaryComputed
  <2> QED BY <2>1, <2>2, <2>3
<1>4. clone' = Put(Put(clone, suffix, node), n,
                   Node("transpose", <<suffix>>, order, clone[n].shape))
  BY DEF BroadcastRule, TransposeOfNew
<1>5. /\ node.op = "add" /\ node.in[1] = x /\ node.in[2] = y
      /\ DOMAIN node.in = 1..Arity("add")
  BY Args DEF Node
<1> HIDE DEF t1, t2, node
<1>6. /\ x \in DOMAIN clone /\ r[x] \in Nat /\ r[x] < r[t1] /\ IsTensor(v[x])
      /\ v[t1] = Transposed(v[x], order) /\ order \in Orders
  BY <1>1, UnaryComputed
<1>7. /\ y \in DOMAIN clone /\ r[y] \in Nat /\ r[y] < r[t2] /\ IsTensor(v[y])
      /\ v[t2] = Transposed(v[y], order)
  BY <1>1, UnaryComputed
<1> HIDE DEF x, y, order
<1>8. r[x] < r[n] /\ r[y] < r[n]
  BY <1>3, <1>6, <1>7
<1>9. GoodNode(node, DOMAIN clone) /\ Below(node, r, n) /\ node.op # "const"
  <2>1. node.op \in {"add", "conv"} /\ node.op # "const"
    BY <1>5
  <2>2. /\ node.in[1] \in DOMAIN clone /\ node.in[2] \in DOMAIN clone
        /\ r[node.in[1]] < r[n] /\ r[node.in[2]] < r[n]
    BY <1>5, <1>6, <1>7, <1>8
  <2> QED BY <1>5, <2>1, <2>2, BinaryNode
<1>10. value = Operator("add") \o v[x] \o v[y]
  BY <1>5 DEF Result
<1> HIDE DEF value
<1>11. v[n] = Transposed(value, order)
  <2>1. Operator("add") \o Transposed(v[x], order) \o Transposed(v[y], order)
          = Transposed(Operator("add") \o v[x] \o v[y], order)
    BY <1>6, <1>7, AddOfTransposed
  <2> QED BY <1>3, <1>6, <1>7, <1>10, <2>1
<1> QED BY <1>2, <1>4, <1>6, <1>9, <1>11, TransposeOfAdded DEF Same, value

(* What is known of the values in a state, and after a step.               *)
Held(d) == DataOf(d) /\ \A m \in DOMAIN const_data_info : IsTensor(d[m])
FixesFixed(v) == \A m \in DOMAIN clone : m \in fix_info => IsFixed(v[m])
Follows(e, u, s, v) ==
  /\ Held(e)' /\ Meaning(clone', e, u, s)
  /\ \A m \in DOMAIN clone' : m \in DOMAIN clone => u[m] = v[m]
  /\ \A m \in DOMAIN clone' : m \in fix_info' => m \in fix_info \/ IsFixed(u[m])

LEMMA MoreHeld ==
  ASSUME NEW d, Held(d), NEW n, NEW value, IsTensor(value), DataOf(Put(d, n, value))'
  PROVE  Held(Put(d, n, value))'
<1> DEFINE e == Put(d, n, value)
<1>1. DOMAIN e = DOMAIN const_data_info' /\ DOMAIN d = DOMAIN const_data_info
  BY DEF Held, DataOf
<1>2. \A m \in DOMAIN e : e[m] = value \/ (m \in DOMAIN d /\ e[m] = d[m])
  BY DEF Put
<1> HIDE DEF e
<1>3. \A m \in DOMAIN const_data_info' : IsTensor(e[m])
  BY <1>1, <1>2 DEF Held
<1> QED BY <1>3 DEF Held, e

LEMMA PoolHolds ==
  ASSUME NEW d, Held(d), ConstsInPool
  PROVE  DOMAIN d = DOMAIN const_data_info /\ ConstsIn(clone, d)
BY DEF Held, DataOf, ConstsInPool, ConstsIn

LEMMA BroadcastConstMeaning ==
  ASSUME Fresh, PoolInv, ConstsInPool, suffix \notin DOMAIN const_data_info,
         NEW d, NEW v, NEW r, Held(d), Meaning(clone, d, v, r), FixesFixed(v),
         NEW n \in DOMAIN clone, BroadcastConstRule(n)
  PROVE  \E e, u, s : Follows(e, u, s, v)
<1>1. PICK i \in {1, 2} :
        LET t == Arg(n, i)
            c == Arg(n, 3 - i)
        IN  /\ Transposes(t) /\ IsOp(c, "const")
            /\ clone' = Put(Put(Put(clone,
                 suffix, Node("const", << >>, << >>, ShapeBefore(c, Order(t)))),
                 suffix + 1, Node("add", Operands(i, Arg(t, 1), suffix), << >>,
                                  ShapeBefore(n, Order(t)))),
                 n, TransposeOfNew(n, suffix + 1, Order(t)))
            /\ fix_info' = copy_fix_info(fix_info, c, suffix)
            /\ create_lazy_const(suffix, c, undo_order(Order(t)))
  BY DEF BroadcastConstRule
<1>a. PICK t, c, new : t = Arg(n, i) /\ c = Arg(n, 3 - i) /\ new = suffix
  OBVIOUS
<1>b. PICK x, order : x = Arg(t, 1) /\ order = Order(t)
  OBVIOUS
<1> DEFINE undo == undo_order(order)
           const == Node("const", << >>, << >>, ShapeBefore(c, order))
           g == Put(clone, new, const)
           in == Operands(i, x, new)
           node == Node("add", in, << >>, ShapeBefore(n, order))
           value == Transposed(d[c], undo)
           e == Put(d, new, value)
<1>2. /\ IsOp(n, "add") /\ IsOp(t, "transpose") /\ IsOp(c, "const")
      /\ clone' = Put(Put(g, new + 1, node), n,
                      Node("transpose", <<new + 1>>, order, clone[n].shape))
      /\ fix_info' = copy_fix_info(fix_info, c, new)
      /\ create_lazy_const(new, c, undo)
  BY <1>1, <1>a, <1>b
  DEF BroadcastConstRule, MatchesBroadcastConst, Transposes, TransposeOfNew
<1>3. /\ new \notin DOMAIN clone /\ new + 1 \notin DOMAIN clone /\ new # n
      /\ new # new + 1
  BY <1>a DEF Fresh
<1>4. const.op = "const" /\ DOMAIN const.in = {}
  BY DEF Node
<1>5. /\ node.op = "add" /\ DOMAIN node.in = 1..Arity("add")
      /\ i = 1 => node.in[1] = x /\ node.in[2] = new
      /\ i # 1 => node.in[1] = new /\ node.in[2] = x
  BY Args DEF Node, Operands
<1>6. /\ t \in DOMAIN clone /\ c \in DOMAIN clone
      /\ r[t] \in Nat /\ r[t] < r[n] /\ r[n] \in Nat /\ IsTensor(v[c])
      /\ v[n] = Operator("add") \o v[Arg(n, 1)] \o v[Arg(n, 2)]
  <2>1. \A j \in {1, 2} :
          /\ Arg(n, j) \in DOMAIN clone /\ r[Arg(n, j)] \in Nat /\ r[Arg(n, j)] < r[n]
          /\ IsTensor(v[Arg(n, j)])
    <3> TAKE j \in {1, 2}
    <3> QED BY <1>2, BinaryComputed
  <2>2. v[n] = Operator("add") \o v[Arg(n, 1)] \o v[Arg(n, 2)]
    BY <1>2, AddComputed
  <2>3. i \in {1, 2} /\ 3 - i \in {1, 2}
    OBVIOUS
  <2>4. r[n] \in Nat
    BY Computed
  <2> QED BY <1>a, <2>1, <2>2, <2>3, <2>4
<1>7. /\ i = 1 => t = Arg(n, 1) /\ c = Arg(n, 2)
      /\ i # 1 => t = Arg(n, 2) /\ c = Arg(n, 1)
  BY <1>a
<1>8. /\ x \in DOMAIN clone /\ r[x] \in Nat /\ r[x] < r[t] /\ IsTensor(v[x])
      /\ v[t] = Transposed(v[x], order) /\ order \in Orders
  BY <1>2, <1>b, UnaryComputed
<1> HIDE DEF in, node, const
<1>9. c \in DOMAIN const_data_info /\ v[c] = d[c] /\ IsTensor(d[c])
  BY <1>2, <1>6, Computed DEF ConstsInPool, IsOp
<1>10. IsTensor(value) /\ v[c] = Transposed(value, order)
  <2>1. undo \in Orders
    BY <1>8, OrderUndone
  <2> QED BY <1>8, <1>9, <2>1, TransposedTensor, TransposedAndBack
<1>11. DataOf(e)'
  <2>1. DataOf(d)
    BY DEF Held
  <2> QED BY <1>2, <1>9, <1>a, <2>1, CreateLazyData
<1> HIDE DEF undo, value
<1>12. Held(e)'
  BY <1>10, <1>11, MoreHeld
<1>13. PICK a, b : Meaning(g, e, a, b) /\ Added(clone, v, r, n, new, value, a, b)
  BY <1>3, <1>4, <1>10, PoolHolds, ConstAdded
<1>14. DOMAIN g = DOMAIN clone \cup {new}
  BY DEF Put
<1> HIDE DEF g
<1> HIDE DEF e
<1>15. /\ a[new] = value /\ \A m \in DOMAIN clone : a[m] = v[m]
       /\ b[new] < b[n] /\ b[x] < b[n]
  <2>1. r[x] < r[n]
    BY <1>6, <1>8
  <2> QED BY <1>8, <1>13, <2>1 DEF Added
<1>16. GoodNode(node, DOMAIN g) /\ Below(node, b, n) /\ node.op # "const"
  <2>1. node.op \in {"add", "conv"} /\ node.op # "const"
    BY <1>5
  <2>2. node.in[1] \in {x, new} /\ node.in[2] \in {x, new}
    BY <1>5
  <2>3. \A y \in {x, new} : y \in DOMAIN g /\ b[y] < b[n]
    BY <1>8, <1>14, <1>15
  <2>4. /\ node.in[1] \in DOMAIN g /\ b[node.in[1]] < b[n]
        /\ node.in[2] \in DOMAIN g /\ b[node.in[2]] < b[n]
    BY <2>2, <2>3
  <2> QED BY <1>5, <2>1, <2>4, BinaryNode
<1> DEFINE sum == Result(node, new + 1, e, a)
<1>17. a[n] = Transposed(sum, order)
  <2>1. sum = Operator("add") \o a[node.in[1]] \o a[node.in[2]]
    BY <1>5 DEF Result
  <2>2. a[x] = v[x] /\ a[n] = v[n]
    BY <1>8, <1>15
  <2>3. sum = IF i = 1 THEN Operator("add") \o v[x] \o value ELSE Operator("add") \o value \o v[x]
    BY <1>5, <1>15, <2>1, <2>2
  <2> HIDE DEF sum
  <2>4. CASE i = 1
    <3>1. v[n] = Operator("add") \o Transposed(v[x], order) \o Transposed(value, order)
      BY <1>6, <1>7, <1>8, <1>10, <2>4
    <3>2. v[n] = Transposed(Operator("add") \o v[x] \o value, order)
      BY <1>8, <1>10, <3>1, AddOfTransposed
    <3> QED BY <2>2, <2>3, <2>4, <3>2
  <2>5. CASE i # 1
    <3>1. v[n] = Operator("add") \o Transposed(value, order) \o Transposed(v[x], order)
      BY <1>6, <1>7, <1>8, <1>10, <2>5
    <3>2. v[n] = Transposed(Operator("add") \o value \o v[x], order)
      BY <1>8, <1>10, <3>1, AddOfTransposed
    <3> QED BY <2>2, <2>3, <2>5, <3>2
  <2> QED BY <2>4, <2>5
<1>18. PICK u, s : Meaning(clone', e, u, s) /\ \A m \in DOMAIN g : u[m] = a[m]
  <2>1. n \in DOMAIN g /\ new + 1 \notin DOMAIN g
    BY <1>3, <1>14
  <2> QED BY <1>2, <1>8, <1>13, <1>16, <1>17, <2>1, TransposeOfAdded
<1>19. \A m \in DOMAIN clone : u[m] = v[m]
  BY <1>14, <1>15, <1>18
<1>20. ASSUME NEW m \in fix_info', m \notin fix_info PROVE IsFixed(u[m])
  <2>1. m = new /\ c \in fix_info
    BY <1>2, <1>20 DEF copy_fix_info
  <2>2. u[m] = value /\ IsFixed(v[c])
    BY <1>6, <1>14, <1>15, <1>18, <2>1 DEF FixesFixed
  <2>3. IsFixed(value)
    BY <1>8, <1>9, <2>2, FixedTensor, OrderUndone DEF value, undo
  <2> QED BY <2>2, <2>3
<1> QED BY <1>12, <1>18, <1>19, <1>20 DEF Follows

LEMMA SameHeld == ASSUME NEW d, Held(d), UNCHANGED poolVars PROVE Held(d)'
BY DEF Held, DataOf, Pending, Source, poolVars

LEMMA SameDataFollows ==
  ASSUME NEW d, Held(d), UNCHANGED <<poolVars, fix_info>>, NEW v, NEW u, NEW s,
         Meaning(clone', d, u, s), Same(u, v)
  PROVE  Follows(d, u, s, v)
BY SameHeld DEF Follows, Same

(* n becomes a constant with the value it had.                             *)
LEMMA BecomesConst ==
  ASSUME NEW d, NEW v, NEW r, Held(d), Meaning(clone, d, v, r), ConstsInPool,
         NEW n \in DOMAIN clone, n \notin DOMAIN const_data_info,
         clone' = Put(clone, n, Node("const", << >>, << >>, clone[n].shape)),
         DataOf(Put(d, n, v[n]))',
         fix_info' \subseteq fix_info \cup {n}, n \in fix_info' => n \in fix_info \/ IsFixed(v[n])
  PROVE  \E e, u, s : Follows(e, u, s, v)
<1> DEFINE node == Node("const", << >>, << >>, clone[n].shape)
           e == Put(d, n, v[n])
<1>1. node.op = "const" /\ DOMAIN node.in = {}
  BY DEF Node
<1> HIDE DEF node
<1>2. IsTensor(v[n])
  BY Computed
<1>3. Held(e)'
  BY <1>2, MoreHeld
<1>4. Meaning(clone', e, v, r)
  BY <1>1, PoolHolds, ConstInPlace DEF node
<1> HIDE DEF e
<1>5. Follows(e, v, r, v)
  BY <1>3, <1>4 DEF Follows
<1> QED BY <1>5

LEMMA TransposeConstMeaning ==
  ASSUME PoolInv, ConstsInPool,
         NEW d, NEW v, NEW r, Held(d), Meaning(clone, d, v, r), FixesFixed(v),
         NEW n \in DOMAIN clone, n \notin DOMAIN const_data_info, TransposeConstRule(n)
  PROVE  \E e, u, s : Follows(e, u, s, v)
<1>1. PICK c, order : c = Arg(n, 1) /\ order = Order(n)
  OBVIOUS
<1>2. /\ IsOp(n, "transpose") /\ IsOp(c, "const")
      /\ clone' = Put(clone, n, Node("const", << >>, << >>, clone[n].shape))
      /\ fix_info' = copy_fix_info(fix_info, c, n) /\ create_lazy_const(n, c, order)
  BY <1>1 DEF TransposeConstRule, MatchesTransposeConst, Transposes
<1>3. v[n] = Transposed(v[c], order) /\ order \in Orders /\ IsTensor(v[c])
  BY <1>1, <1>2, UnaryComputed
<1>4. c \in DOMAIN clone /\ c \in DOMAIN const_data_info
  BY <1>2 DEF IsOp, ConstsInPool
<1>5. v[c] = d[c]
  BY <1>2, <1>4, Computed
<1>6. DataOf(Put(d, n, v[n]))'
  <2>1. DataOf(d) /\ v[n] = Transposed(d[c], order)
    BY <1>3, <1>5 DEF Held
  <2> QED BY <1>2, <1>4, <2>1, CreateLazyData
<1>7. /\ fix_info' \subseteq fix_info \cup {n}
      /\ n \in fix_info' => n \in fix_info \/ c \in fix_info
  BY <1>2 DEF copy_fix_info
<1>8. c \in fix_info => IsFixed(v[n])
  BY <1>3, <1>4, FixedTensor DEF FixesFixed
<1> QED BY <1>2, <1>6, <1>7, <1>8, BecomesConst

LEMMA FoldMeaning ==
  ASSUME PoolInv, ConstsInPool,
         NEW d, NEW v, NEW r, Held(d), Meaning(clone, d, v, r),
         NEW n \in DOMAIN clone, n \notin DOMAIN const_data_info, Fold(n)
  PROVE  \E e, u, s : Follows(e, u, s, v)
<1>1. PICK value : value = compute(n)
  OBVIOUS
<1>2. /\ Foldable(n) /\ create_const(n, value)
      /\ clone' = Put(clone, n, Node("const", << >>, << >>, clone[n].shape))
      /\ fix_info' = IF IsOp(n, "fix") THEN fix_info \cup {n} ELSE fix_info
  BY <1>1 DEF Fold, IsFirst
<1>3. ASSUME NEW i, i \in DOMAIN clone[n].in PROVE Fetched(Arg(n, i)) = v[Arg(n, i)]
  <2> DEFINE c == Arg(n, i)
  <2>1. IsOp(c, "const")
    BY <1>2, <1>3 DEF Foldable
  <2> HIDE DEF c
  <2>2. c \in DOMAIN clone /\ c \in DOMAIN const_data_info
    BY <2>1 DEF IsOp, ConstsInPool
  <2>3. v[c] = d[c]
    BY <2>1, <2>2, Computed
  <2>4. DataOf(d)
    BY DEF Held
  <2> QED BY <2>2, <2>3, <2>4, FetchedIsData DEF c
<1>4. GoodNode(clone[n], DOMAIN clone)
  BY Computed
<1>5. value = v[n]
  <2>1. CASE clone[n].op = "transpose"
    <3>1. Fetched(Arg(n, 1)) = v[Arg(n, 1)]
      BY <1>3, <1>4, <2>1, ArgsOfKind
    <3>2. IsOp(n, "transpose")
      BY <2>1 DEF IsOp
    <3>3. value = Transposed(Fetched(Arg(n, 1)), Order(n))
      BY <1>1, <3>2 DEF compute
    <3> QED BY <3>1, <3>2, <3>3, UnaryComputed
  <2>2. CASE clone[n].op = "fix"
    <3>1. Fetched(Arg(n, 1)) = v[Arg(n, 1)]
      BY <1>3, <1>4, <2>2, ArgsOfKind
    <3>2. IsOp(n, "fix") /\ ~IsOp(n, "transpose")
      BY <2>2 DEF IsOp
    <3>3. value = Fixed(Fetched(Arg(n, 1)))
      BY <1>1, <3>2 DEF compute
    <3> QED BY <3>1, <3>2, <3>3, UnaryComputed
  <2> QED BY <1>2, <2>1, <2>2 DEF Foldable
<1>6. DataOf(Put(d, n, v[n]))'
  <2>1. DataOf(d)
    BY DEF Held
  <2> QED BY <1>2, <1>5, <2>1, CreateConstData
<1>7. IsOp(n, "fix") => IsFixed(v[n])
  <2> SUFFICES ASSUME IsOp(n, "fix") PROVE IsFixed(v[n])
    OBVIOUS
  <2>1. v[n] = Fixed(v[Arg(n, 1)]) /\ IsTensor(v[Arg(n, 1)])
    BY UnaryComputed
  <2> QED BY <2>1, FixedTensor
<1> QED BY <1>2, <1>6, <1>7, BecomesConst

(* A transpose is put between x and n.                                     *)
LEMMA TransposeAdded ==
  ASSUME NEW g, NEW d, NEW v, NEW r, Meaning(g, d, v, r), NEW n \in DOMAIN g,
         NEW x \in DOMAIN g, r[x] < r[n], NEW new, new \notin DOMAIN g,
         NEW order \in Orders, NEW shape
  PROVE  \E u, s : /\ Meaning(Put(g, new, Node("transpose", <<x>>, order, shape)), d, u, s)
                   /\ Added(g, v, r, n, new, Transposed(v[x], order), u, s)
<1> DEFINE in == <<x>>
           node == Node("transpose", in, order, shape)
<1>1. node.op = "transpose" /\ node.in = in /\ node.order = order
  BY DEF Node
<1>2. DOMAIN in = 1..Arity("transpose") /\ in[1] = x
  BY Arguments
<1> HIDE DEF node, in
<1>3. GoodNode(node, DOMAIN g) /\ Below(node, r, n) /\ node.op # "const"
  <2>1. node.op \in {"relu", "fix", "transpose"} /\ node.order \in Orders /\ node.op # "const"
    BY <1>1
  <2>2. DOMAIN node.in = 1..Arity("transpose") /\ node.in[1] = x
    BY <1>1, <1>2
  <2> QED BY <2>1, <2>2, UnaryNode
<1>4. Result(node, new, d, v) = Transposed(v[x], order)
  BY <1>1, <1>2 DEF Result
<1>5. \E u, s : /\ Meaning(Put(g, new, node), d, u, s)
                /\ Added(g, v, r, n, new, Result(node, new, d, v), u, s)
  BY <1>3, NodeAdded
<1> QED BY <1>4, <1>5 DEF node, in

LEMMA ConvTurned ==
  ASSUME NEW a, IsTensor(a), NEW b, IsTensor(b)
  PROVE  ConvNchw(a, b) = Transposed(ConvNhwc(Transposed(a, NCHW2NHWC), Transposed(b, NCHW2NHWC)),
                                     undo_order(NCHW2NHWC))
<1> DEFINE nhwc == NCHW2NHWC
           undo == undo_order(nhwc)
           c == ConvNchw(a, b)
<1>1. nhwc \in Orders
  BY LayoutIsOrder
<1>2. Transposed(Transposed(a, nhwc), undo) = a /\ Transposed(Transposed(b, nhwc), undo) = b
  BY <1>1, TransposedAndBack
<1>3. ConvNhwc(Transposed(a, nhwc), Transposed(b, nhwc)) = Transposed(c, nhwc)
  BY <1>2 DEF ConvNhwc
<1>4. IsTensor(c)
  BY ConvTensor
<1> HIDE DEF c
<1>5. Transposed(Transposed(c, nhwc), undo) = c
  BY <1>1, <1>4, TransposedAndBack
<1> QED BY <1>3, <1>5 DEF c

LEMMA AddTransposeMeaning ==
  ASSUME Fresh, NEW d, NEW v, NEW r, Held(d), Meaning(clone, d, v, r), FixesFixed(v),
         NEW n \in DOMAIN clone, IsOp(n, "conv_nchw"), AddTranspose(n)
  PROVE  \E u, s : Follows(d, u, s, v)
<1>1. PICK x, y, new : x = Arg(n, 1) /\ y = Arg(n, 2) /\ new = suffix
  OBVIOUS
<1> DEFINE nhwc == NCHW2NHWC
           undo == undo_order(nhwc)
           f == Put(clone, new, Node("transpose", <<x>>, nhwc, Permuted(clone[x].shape, nhwc)))
           g == Put(f, new + 1, Node("transpose", <<y>>, nhwc, Permuted(clone[y].shape, nhwc)))
           in == <<new, new + 1>>
           conv == Node("conv", in, << >>, Permuted(clone[n].shape, nhwc))
<1>2. /\ clone' = Put(Put(g, new + 2, conv), n,
                      Node("transpose", <<new + 2>>, undo, clone[n].shape))
      /\ fix_info' = copy_fix_info(copy_fix_info(fix_info, x, new), y, new + 1)
      /\ UNCHANGED poolVars
  BY <1>1 DEF AddTranspose, TransposeOfNew
<1>3. /\ new \notin DOMAIN clone /\ new + 1 \notin DOMAIN clone /\ new + 2 \notin DOMAIN clone
      /\ new # new + 1 /\ new # new + 2 /\ new + 1 # new + 2
  BY <1>1 DEF Fresh
<1>4. /\ x \in DOMAIN clone /\ r[x] < r[n] /\ IsTensor(v[x])
      /\ y \in DOMAIN clone /\ r[y] < r[n] /\ IsTensor(v[y])
  <2>1. \A j \in {1, 2} : /\ Arg(n, j) \in DOMAIN clone /\ r[Arg(n, j)] < r[n]
                          /\ IsTensor(v[Arg(n, j)])
    <3> TAKE j \in {1, 2}
    <3> QED BY BinaryComputed
  <2> QED BY <1>1, <2>1
<1>5. v[n] = ConvNchw(v[x], v[y])
  <2>1. 1 \in {1, 2}
    OBVIOUS
  <2> QED BY <1>1, <2>1, BinaryComputed
<1>6. nhwc \in Orders /\ undo \in Orders
  BY LayoutIsOrder, OrderUndone
<1>7. conv.op = "conv" /\ conv.in = in
  BY DEF Node
<1>8. DOMAIN in = 1..Arity("add") /\ in[1] = new /\ in[2] = new + 1
  BY Args
<1> HIDE DEF conv, in
<1>9. PICK u1, s1 :
        /\ Meaning(f, d, u1, s1)
        /\ Added(clone, v, r, n, new, Transposed(v[x], nhwc), u1, s1)
  BY <1>3, <1>4, <1>6, TransposeAdded
<1>10. /\ DOMAIN f = DOMAIN clone \cup {new}
       /\ u1[new] = Transposed(v[x], nhwc) /\ s1[new] < s1[n]
       /\ \A m \in DOMAIN clone : u1[m] = v[m]
       /\ s1[y] < s1[n]
  BY <1>4, <1>9 DEF Added, Put
<1> HIDE DEF f
<1>11. PICK u2, s2 :
         /\ Meaning(g, d, u2, s2)
         /\ Added(f, u1, s1, n, new + 1, Transposed(u1[y], nhwc), u2, s2)
  <2>1. y \in DOMAIN f /\ n \in DOMAIN f /\ new + 1 \notin DOMAIN f
    BY <1>3, <1>4, <1>10
  <2> QED BY <1>6, <1>9, <1>10, <2>1, TransposeAdded
<1>12. /\ DOMAIN g = DOMAIN clone \cup {new, new + 1}
       /\ u2[new] = Transposed(v[x], nhwc) /\ u2[new + 1] = Transposed(v[y], nhwc)
       /\ s2[new] < s2[n] /\ s2[new + 1] < s2[n]
       /\ \A m \in DOMAIN clone : u2[m] = v[m]
  <2>1. DOMAIN g = DOMAIN clone \cup {new, new + 1}
    BY <1>10 DEF Put
  <2> QED BY <1>4, <1>10, <1>11, <2>1 DEF Added
<1> HIDE DEF g
<1>13. GoodNode(conv, DOMAIN g) /\ Below(conv, s2, n) /\ conv.op # "const"
  <2>1. conv.op \in {"add", "conv"} /\ conv.op # "const"
    BY <1>7
  <2>2. /\ DOMAIN conv.in = 1..Arity("add")
        /\ conv.in[1] \in DOMAIN g /\ s2[conv.in[1]] < s2[n]
        /\ conv.in[2] \in DOMAIN g /\ s2[conv.in[2]] < s2[n]
    BY <1>7, <1>8, <1>12
  <2> QED BY <2>1, <2>2, BinaryNode
<1> DEFINE value == Result(conv, new + 2, d, u2)
<1>14. u2[n] = Transposed(value, undo)
  <2>1. value = ConvNhwc(u2[new], u2[new + 1])
    BY <1>7, <1>8 DEF Result
  <2>2. v[n] = Transposed(value, undo)
    BY <1>4, <1>5, <1>12, <2>1, ConvTurned
  <2> QED BY <1>12, <2>2
<1>15. PICK u, s : Meaning(clone', d, u, s) /\ \A m \in DOMAIN g : u[m] = u2[m]
  <2>1. n \in DOMAIN g /\ new + 2 \notin DOMAIN g
    BY <1>3, <1>12
  <2> QED BY <1>2, <1>6, <1>11, <1>13, <1>14, <2>1, TransposeOfAdded
<1>16. \A m \in DOMAIN clone : u[m] = v[m]
  BY <1>12, <1>15
<1>17. ASSUME NEW m \in fix_info', m \notin fix_info PROVE IsFixed(u[m])
  <2>1. \/ m = new /\ x \in fix_info
        \/ m = new + 1 /\ y \in fix_info
    <3>1. \/ m \in fix_info \/ (m = new /\ x \in fix_info)
          \/ (m = new + 1 /\ y \in copy_fix_info(fix_info, x, new))
      BY <1>2 DEF copy_fix_info
    <3>2. y \in copy_fix_info(fix_info, x, new) => y \in fix_info
      BY <1>3, <1>4 DEF copy_fix_info
    <3> QED BY <1>17, <3>1, <3>2
  <2>2. x \in fix_info => IsFixed(u[new])
    BY <1>4, <1>6, <1>12, <1>15, FixedTensor DEF FixesFixed
  <2>3. y \in fix_info => IsFixed(u[new + 1])
    BY <1>4, <1>6, <1>12, <1>15, FixedTensor DEF FixesFixed
  <2> QED BY <2>1, <2>2, <2>3
<1>18. Held(d)'
  BY <1>2, SameHeld
<1> QED BY <1>15, <1>16, <1>17, <1>18 DEF Follows

LEMMA ConstAddFixMeaning ==
  ASSUME Fresh, PoolInv, ConstsInPool, suffix \notin DOMAIN const_data_info,
         NEW d, NEW v, NEW r, Held(d), Meaning(clone, d, v, r), FixesFixed(v),
         NEW n \in DOMAIN clone, IsOp(n, "const"), n \in fix_info, ConstAddFix(n)
  PROVE  \E e, u, s : Follows(e, u, s, v) /\ u[suffix] = v[n]
<1>1. PICK new : new = suffix
  OBVIOUS
<1> DEFINE value == d[n]
           e == Put(d, new, value)
           g == Put(clone, new, clone[n])
           in == <<new>>
           node == Node("fix", in, << >>, clone[n].shape)
<1>2. /\ clone' = Put(g, n, node) /\ create_const_alias(new, n) /\ UNCHANGED fix_info
  BY <1>1 DEF ConstAddFix
<1>3. new \notin DOMAIN clone /\ new \notin DOMAIN const_data_info
  BY <1>1 DEF Fresh
<1>4. n \in DOMAIN const_data_info /\ v[n] = value /\ IsTensor(value) /\ IsFixed(value)
  BY Computed DEF ConstsInPool, IsOp, FixesFixed
<1>5. clone[n].op = "const" /\ DOMAIN clone[n].in = {}
  <2>1. GoodNode(clone[n], DOMAIN clone) /\ clone[n].op = "const"
    BY Computed DEF IsOp
  <2>2. Arity("const") = 0
    BY DEF Arity
  <2> QED BY <2>1, <2>2 DEF GoodNode
<1>6. Held(e)'
  <2>1. DataOf(d)
    BY DEF Held
  <2>2. DataOf(e)'
    BY <1>2, <1>3, <1>4, <2>1, CreateAliasData
  <2> HIDE DEF value
  <2> QED BY <1>4, <2>2, MoreHeld
<1>7. node.op = "fix" /\ node.in = in
  BY DEF Node
<1>8. DOMAIN in = 1..Arity("transpose") /\ in[1] = new
  BY Arguments
<1> HIDE DEF node, in, value
<1>9. PICK u, s : Meaning(g, e, u, s) /\ Added(clone, v, r, n, new, value, u, s)
  BY <1>3, <1>4, <1>5, PoolHolds, ConstAdded
<1>10. /\ DOMAIN g = DOMAIN clone \cup {new}
       /\ u[new] = value /\ s[new] < s[n] /\ \A m \in DOMAIN clone : u[m] = v[m]
  BY <1>9 DEF Added, Put
<1> HIDE DEF g, e
<1>11. GoodNode(node, DOMAIN g) /\ Below(node, s, n)
  <2>1. node.op \in {"relu", "fix", "transpose"} /\ node.op # "transpose"
    BY <1>7
  <2>2. DOMAIN node.in = 1..Arity("transpose") /\ node.in[1] = new /\ new \in DOMAIN g
    BY <1>7, <1>8, <1>10
  <2> QED BY <1>10, <2>1, <2>2, UnaryNode
<1>12. u[n] = Result(node, n, e, u)
  <2>1. Result(node, n, e, u) = Fixed(value)
    BY <1>7, <1>8, <1>10 DEF Result
  <2>2. Fixed(value) = value
    BY <1>4, FixedTensor
  <2> QED BY <1>4, <1>10, <2>1, <2>2
<1>13. Meaning(clone', e, u, s)
  <2>1. n \in DOMAIN g
    BY <1>10
  <2> QED BY <1>2, <1>9, <1>11, <1>12, <2>1, ReplaceNode
<1>14. Follows(e, u, s, v)
  BY <1>2, <1>6, <1>10, <1>13 DEF Follows
<1> QED BY <1>1, <1>4, <1>10, <1>14

LEMMA FuseTransposeMeaning ==
  ASSUME LayoutInv, PoolInv,
         NEW d, NEW v, NEW r, Held(d), Meaning(clone, d, v, r), FixesFixed(v),
         NEW n \in DOMAIN clone, FuseTranspose(n)
  PROVE  /\ \E e, u, s : Follows(e, u, s, v)
         /\ DOMAIN clone' \subseteq DOMAIN clone \cup {suffix, suffix + 1}
<1>1. /\ Fresh /\ AllNodes(clone) /\ RewriteNode(n) /\ ConstsInPool
      /\ suffix \notin DOMAIN const_data_info
      /\ \A m \in DOMAIN clone : m \in DOMAIN const_data_info => clone[m].op = "const"
  <2>1. suffix \in Nat /\ suffix \notin Names(suffix)
    BY DEF LayoutInv, GraphInv, NamesAreOld, Names
  <2> QED BY <2>1, GraphIsFresh
      DEF FuseTranspose, LayoutInv, GraphInv, NamesAreOld, OnlyConstsInPool
<1>2. CASE SisoRule(n)
  <2>1. PICK u, s : Meaning(clone', d, u, s) /\ Same(u, v)
    BY <1>1, <1>2, SisoMeaning
  <2>2. UNCHANGED <<poolVars, fix_info>>
    BY <1>2 DEF SisoRule
  <2>3. Follows(d, u, s, v)
    BY <2>1, <2>2, SameDataFollows
  <2> QED BY <1>1, <1>2, <2>3, SisoNodes
<1>3. CASE TransposeTransposeRule(n)
  <2>1. Meaning(clone', d, v, r)
    BY <1>3, TransposeTransposeMeaning
  <2>2. UNCHANGED <<poolVars, fix_info>>
    BY <1>3 DEF TransposeTransposeRule
  <2>3. Follows(d, v, r, v)
    BY <2>1, <2>2, SameDataFollows DEF Same
  <2> QED BY <1>1, <1>3, <2>3, TransposeTransposeNodes
<1>4. CASE TransposeConstRule(n)
  <2>1. n \notin DOMAIN const_data_info
    BY <1>1, <1>4 DEF TransposeConstRule, MatchesTransposeConst, Transposes, IsOp
  <2>2. \E e, u, s : Follows(e, u, s, v)
    BY <1>1, <1>4, <2>1, TransposeConstMeaning
  <2>3. DOMAIN clone' = DOMAIN clone
    BY <1>4 DEF TransposeConstRule, Put
  <2> QED BY <2>2, <2>3
<1>5. CASE BroadcastRule(n)
  <2>1. PICK u, s : Meaning(clone', d, u, s) /\ Same(u, v)
    BY <1>1, <1>5, BroadcastMeaning
  <2>2. UNCHANGED <<poolVars, fix_info>>
    BY <1>5 DEF BroadcastRule
  <2>3. Follows(d, u, s, v)
    BY <2>1, <2>2, SameDataFollows
  <2> QED BY <1>1, <1>5, <2>3, BroadcastNodes
<1>6. CASE BroadcastConstRule(n)
  BY <1>1, <1>6, BroadcastConstMeaning, BroadcastConstNodes
<1> QED BY <1>1, <1>2, <1>3, <1>4, <1>5, <1>6 DEF RewriteNode

(* The invariant: the clone and the model compute the same.                *)
ValuesKept ==
  \E d, v, r, w, q :
    /\ Held(d) /\ Meaning(clone, d, v, r) /\ Meaning(model, << >>, w, q)
    /\ FixesFixed(v)
    /\ \A n \in DOMAIN clone : n \in DOMAIN model => v[n] = w[n]

MeaningInv ==
  /\ phase = "start" => fix_info = {}
  /\ phase = "add_fix" => todo \subseteq fix_info
  /\ ValuesKept

(* A step that adds names and keeps values.                                *)
LEMMA FollowsKeeps ==
  ASSUME LayoutInv, model' = model,
         NEW d, NEW v, NEW r, NEW w, NEW q,
         Held(d), Meaning(clone, d, v, r), Meaning(model, << >>, w, q), FixesFixed(v),
         \A n \in DOMAIN clone : n \in DOMAIN model => v[n] = w[n],
         \E e, u, s : Follows(e, u, s, v),
         \A n \in DOMAIN clone' : n \in DOMAIN clone \/ n \notin Names(suffix)
  PROVE  ValuesKept'
<1>1. PICK e, u, s : Follows(e, u, s, v)
  OBVIOUS
<1>2. DOMAIN model \subseteq Names(suffix) /\ fix_info \subseteq Names(suffix)
  <2>1. DOMAIN model = 0..MaxOp /\ MaxOp \in Nat
    BY DpuAssumption DEF LayoutInv, GraphInv, AtStart, IsModel
  <2>2. suffix \in Nat /\ suffix >= MaxOp + 1
    BY DEF LayoutInv, GraphInv, NamesInv, NamesAreOld, FirstNew
  <2> QED BY <2>1, <2>2 DEF LayoutInv, NamesInv, Names
<1>3. FixesFixed(u)'
  <2>1. ASSUME NEW m \in DOMAIN clone', m \in fix_info' PROVE IsFixed(u[m])
    <3>1. CASE m \in fix_info
      <4>1. m \in DOMAIN clone
        BY <1>2, <3>1
      <4> QED BY <1>1, <3>1, <4>1 DEF FixesFixed, Follows
    <3>2. CASE m \notin fix_info
      BY <1>1, <2>1, <3>2 DEF Follows
    <3> QED BY <3>1, <3>2
  <2> QED BY <2>1 DEF FixesFixed
<1>4. \A n \in DOMAIN clone' : n \in DOMAIN model' => u[n] = w[n]
  BY <1>1, <1>2 DEF Follows
<1>5. Meaning(model', << >>, w, q) /\ Meaning(clone', e, u, s) /\ Held(e)'
  BY <1>1 DEF Follows
<1> QED BY <1>3, <1>4, <1>5 DEF ValuesKept

LEMMA StartKeeps ==
  ASSUME LayoutInv, PoolInv, MeaningInv, Start PROVE ValuesKept'
<1>1. PICK d, v, r, w, q :
        Held(d) /\ Meaning(clone, d, v, r) /\ Meaning(model, << >>, w, q)
  BY DEF MeaningInv, ValuesKept
<1>2. /\ model \in Models /\ model' = model /\ fix_info' = {} /\ const_data_info = << >>
      /\ DOMAIN const_data_info = {}
  BY DEF LayoutInv, GraphInv, AtStart, MeaningInv, Start, frame
<1>3. /\ Weight \in DOMAIN model /\ model[Weight].op = "initializer"
      /\ \A n \in DOMAIN model : model[n].op # "const"
  <2>1. IsModel(model) /\ MaxOp \in Nat /\ MaxOp >= 1
    BY <1>2, DpuAssumption
  <2>2. \A n \in DOMAIN model : n = Input \/ n = Weight \/ n \in Ops
    BY <2>1 DEF IsModel, Input, Weight, Ops
  <2> QED BY <2>1, <2>2 DEF IsModel, Weight
<1>4. Meaning(model, d, w, q) /\ DOMAIN d = {}
  BY <1>1, <1>2, <1>3, MoreData DEF Held, DataOf
<1>5. CASE clone' = model /\ UNCHANGED poolVars
  <2>1. Held(d)' /\ Meaning(clone', d, w, q) /\ Meaning(model', << >>, w, q)
    BY <1>1, <1>2, <1>4, <1>5, SameHeld
  <2>2. FixesFixed(w)' /\ \A n \in DOMAIN clone' : n \in DOMAIN model' => w[n] = w[n]
    BY <1>2 DEF FixesFixed
  <2> QED BY <2>1, <2>2 DEF ValuesKept
<1>6. CASE /\ clone' = [model EXCEPT ![Weight] = Node("const", << >>, << >>, @.shape)]
           /\ create_const(Weight, Leaf("initializer", << >>))
  <2> DEFINE leaf == Leaf("initializer", << >>)
             node == Node("const", << >>, << >>, model[Weight].shape)
             e == Put(d, Weight, leaf)
  <2>1. clone' = Put(model, Weight, node)
    BY <1>3, <1>6 DEF Put
  <2>2. node.op = "const" /\ DOMAIN node.in = {}
    BY DEF Node
  <2> HIDE DEF node
  <2>3. w[Weight] = leaf
    BY <1>3, <1>4 DEF Meaning, Result
  <2>4. IsTensor(leaf)
    BY LeafTensor
  <2>5. Held(e)'
    <3>1. DataOf(e)'
      <4>1. DataOf(d) /\ Weight \notin DOMAIN const_data_info
        BY <1>1, <1>2 DEF Held
      <4> QED BY <1>6, <4>1, CreateConstData
    <3> QED BY <1>1, <2>4, <3>1, MoreHeld
  <2>6. Meaning(clone', e, w, q)
    <3>1. ConstsIn(model, d) /\ Weight \notin DOMAIN d
      BY <1>3, <1>4 DEF ConstsIn
    <3> QED BY <1>3, <1>4, <2>1, <2>2, <2>3, <3>1, ConstInPlace
  <2> HIDE DEF e
  <2>7. FixesFixed(w)' /\ \A n \in DOMAIN clone' : n \in DOMAIN model' => w[n] = w[n]
    BY <1>2 DEF FixesFixed
  <2>8. Meaning(model', << >>, w, q)
    BY <1>1, <1>2
  <2> QED BY <2>5, <2>6, <2>7, <2>8 DEF ValuesKept
<1> QED BY <1>5, <1>6 DEF Start

(* The end of a pass, and the end of process.                              *)
LEMMA EndPassFollows ==
  ASSUME LayoutInv, NEW d, NEW v, NEW r, Held(d), Meaning(clone, d, v, r),
         NEW from, NEW to, EndPass(from, to)
  PROVE  /\ \E e, u, s : Follows(e, u, s, v)
         /\ DOMAIN clone' \subseteq DOMAIN clone
<1>1. /\ DOMAIN clone' \subseteq DOMAIN clone /\ \A n \in DOMAIN clone' : clone'[n] = clone[n]
      /\ UNCHANGED <<poolVars, fix_info>>
  BY GcKeepsNodes DEF EndPass
<1>2. AllNodes(clone')
  BY GraphIsFresh, GcNodes DEF LayoutInv, EndPass
<1>3. \A n \in DOMAIN clone' : \A i \in DOMAIN clone'[n].in : clone'[n].in[i] \in DOMAIN clone'
  BY <1>2 DEF AllNodes, IsNode
<1>4. PICK u, s : Meaning(clone', d, u, s) /\ \A n \in DOMAIN clone' : u[n] = v[n]
  BY <1>1, <1>3, FewerNodes
<1>5. Follows(d, u, s, v)
  BY <1>1, <1>4, SameHeld DEF Follows
<1> QED BY <1>1, <1>5

LEMMA LeaveFollows ==
  ASSUME NEW d, Held(d), NEW v, clone' = << >>, UNCHANGED poolVars
  PROVE  \E e, u, s : Follows(e, u, s, v)
<1>1. DOMAIN clone' = {}
  OBVIOUS
<1> DEFINE none == [n \in {} |-> 0]
<1>2. none \in [{} -> Nat] /\ none = [n \in {} |-> none[n]]
  OBVIOUS
<1> HIDE DEF none
<1>3. Meaning(clone', d, none, none)
  BY <1>1, <1>2 DEF Meaning
<1>4. Follows(d, none, none, v)
  BY <1>1, <1>3, SameHeld DEF Follows
<1> QED BY <1>4

(* What a step but the first of process does to the values.                *)
Keeps(v) ==
  /\ model' = model
  /\ DOMAIN clone' \subseteq DOMAIN clone \cup {suffix, suffix + 1, suffix + 2}
  /\ \E e, u, s : Follows(e, u, s, v)

LEMMA StepKeeps ==
  ASSUME LayoutInv, PoolInv, MeaningInv, [DpuNext]_dpuVars,
         NEW d, NEW v, NEW r, Held(d), Meaning(clone, d, v, r), FixesFixed(v)
  PROVE  Start \/ Keeps(v)
<1>1. /\ Fresh /\ AllNodes(clone) /\ ConstsInPool /\ suffix \notin DOMAIN const_data_info
  <2>1. suffix \in Nat /\ suffix \notin Names(suffix)
    BY DEF LayoutInv, GraphInv, NamesAreOld, Names
  <2> QED BY <2>1, GraphIsFresh DEF LayoutInv, GraphInv, NamesAreOld
<1>2. CASE UNCHANGED dpuVars \/ NotSupported
  <2>1. UNCHANGED <<clone, model, fix_info, poolVars>>
    BY <1>2 DEF dpuVars, NotSupported, rewritingVars, frame
  <2>2. Follows(d, v, r, v)
    BY <2>1, SameDataFollows DEF Same
  <2> QED BY <2>1, <2>2 DEF Keeps
<1>3. CASE EndFold \/ EndLayout \/ EndFuse \/ EndAddFix
  <2>1. PICK from, to : EndPass(from, to)
    BY <1>3 DEF EndFold, EndLayout, EndFuse, EndAddFix
  <2>2. model' = model
    BY <2>1 DEF EndPass, frame
  <2> QED BY <2>1, <2>2, EndPassFollows DEF Keeps
<1>4. CASE Finish \/ Throw
  <2>1. clone' = << >> /\ DOMAIN clone' = {} /\ UNCHANGED <<model, poolVars>>
    BY <1>4 DEF Finish, Throw, Leave, frame
  <2> QED BY <2>1, LeaveFollows DEF Keeps
<1>5. ASSUME NEW n \in DOMAIN clone, Fold(n) PROVE Keeps(v)
  <2>1. n \notin DOMAIN const_data_info
    BY <1>5 DEF Fold, IsFirst, Foldable, LayoutInv, GraphInv, OnlyConstsInPool
  <2>2. \E e, u, s : Follows(e, u, s, v)
    BY <1>1, <1>5, <2>1, FoldMeaning
  <2>3. model' = model /\ DOMAIN clone' = DOMAIN clone
    BY <1>5 DEF Fold, frame, Put
  <2> QED BY <2>2, <2>3 DEF Keeps
<1>6. ASSUME NEW n \in DOMAIN clone, AddTranspose(n) PROVE Keeps(v)
  <2>1. IsOp(n, "conv_nchw")
    BY <1>6 DEF AddTranspose, LayoutInv, GraphInv, TodoKinds, IsOp
  <2>2. \E u, s : Follows(d, u, s, v)
    BY <1>1, <1>6, <2>1, AddTransposeMeaning
  <2>3. DOMAIN clone' = DOMAIN clone \cup {suffix, suffix + 1, suffix + 2}
    BY <1>1, <1>6, <2>1, AddTransposeNodes DEF IsOp
  <2>4. model' = model
    BY <1>6 DEF AddTranspose, frame
  <2> QED BY <2>2, <2>3, <2>4 DEF Keeps
<1>7. ASSUME NEW n \in DOMAIN clone, FuseTranspose(n) PROVE Keeps(v)
  <2>1. model' = model
    BY <1>7 DEF FuseTranspose, frame
  <2>2. /\ \E e, u, s : Follows(e, u, s, v)
        /\ DOMAIN clone' \subseteq DOMAIN clone \cup {suffix, suffix + 1}
    BY <1>7, FuseTransposeMeaning
  <2> QED BY <2>1, <2>2 DEF Keeps
<1>8. ASSUME NEW n \in DOMAIN clone, ConstAddFix(n) PROVE Keeps(v)
  <2>1. IsOp(n, "const") /\ n \in fix_info
    BY <1>8 DEF ConstAddFix, LayoutInv, GraphInv, TodoKinds, IsOp, MeaningInv
  <2>2. \E e, u, s : Follows(e, u, s, v)
    BY <1>1, <1>8, <2>1, ConstAddFixMeaning
  <2>3. DOMAIN clone' = DOMAIN clone \cup {suffix}
    BY <1>1, <1>8, <2>1, ConstAddFixNodes DEF IsOp
  <2>4. model' = model
    BY <1>8 DEF ConstAddFix, frame
  <2> QED BY <2>2, <2>3, <2>4 DEF Keeps
<1>9. ASSUME NEW n \in DOMAIN clone, Export(n) PROVE Keeps(v)
  <2>1. UNCHANGED <<clone, model, fix_info>> /\ get_const_data(n)
    BY <1>9 DEF Export, rewritingVars, frame
  <2>2. DataOf(d)'
    BY <2>1, ForcedData DEF Held
  <2>3. Held(d)'
    <3>1. DOMAIN const_data_info' = DOMAIN const_data_info
      BY <2>1 DEF get_const_data
    <3> QED BY <2>2, <3>1 DEF Held
  <2>4. Follows(d, v, r, v)
    BY <2>1, <2>3 DEF Follows
  <2> QED BY <2>1, <2>4 DEF Keeps
<1> QED BY <1>2, <1>3, <1>4, <1>5, <1>6, <1>7, <1>8, <1>9 DEF DpuNext, Work

LEMMA MeaningStep ==
  ASSUME LayoutInv, PoolInv, MeaningInv, [DpuNext]_dpuVars PROVE MeaningInv'
<1>1. /\ phase' = "start" => fix_info' = {}
      /\ phase' = "add_fix" => todo' \subseteq fix_info'
  <2> USE DEF MeaningInv
  <2>1. CASE UNCHANGED dpuVars
    BY <2>1 DEF dpuVars, rewritingVars
  <2>2. CASE NotSupported \/ Start \/ Finish \/ Throw
    BY <2>2 DEF NotSupported, Start, Finish, Throw, Leave
  <2>3. CASE EndFold \/ EndLayout \/ EndFuse \/ EndAddFix
    BY <2>3 DEF EndFold, EndLayout, EndFuse, EndAddFix, EndPass
  <2>4. CASE \E n \in DOMAIN clone :
               Fold(n) \/ AddTranspose(n) \/ FuseTranspose(n) \/ ConstAddFix(n) \/ Export(n)
    BY <2>4 DEF Fold, AddTranspose, FuseTranspose, ConstAddFix, Export, rewritingVars
  <2> QED BY <2>1, <2>2, <2>3, <2>4 DEF DpuNext, Work
<1>2. ValuesKept'
  <2>1. PICK d, v, r, w, q :
          /\ Held(d) /\ Meaning(clone, d, v, r) /\ Meaning(model, << >>, w, q)
          /\ FixesFixed(v)
          /\ \A n \in DOMAIN clone : n \in DOMAIN model => v[n] = w[n]
    BY DEF MeaningInv, ValuesKept
  <2>2. CASE Start
    BY <2>2, StartKeeps
  <2>3. CASE Keeps(v)
    <3>1. suffix \in Nat
      BY DEF LayoutInv, GraphInv, NamesAreOld
    <3>2. \A n \in {suffix, suffix + 1, suffix + 2} : n \notin Names(suffix)
      BY <3>1 DEF Names
    <3>3. \A n \in DOMAIN clone' : n \in DOMAIN clone \/ n \notin Names(suffix)
      BY <2>3, <3>2 DEF Keeps
    <3> QED BY <2>1, <2>3, <3>3, FollowsKeeps DEF Keeps
  <2> QED BY <2>1, <2>2, <2>3, StepKeeps
<1> QED BY <1>1, <1>2 DEF MeaningInv

LEMMA MeaningInit == DpuInit => MeaningInv
<1> SUFFICES ASSUME DpuInit PROVE MeaningInv
  OBVIOUS
<1>1. /\ clone = << >> /\ DOMAIN clone = {} /\ fix_info = {} /\ phase = "start"
      /\ model \in Models /\ const_data_info = << >> /\ DOMAIN const_data_info = {}
  BY DEF DpuInit, PoolInit
<1> DEFINE none == [n \in {} |-> 0]
<1>2. none \in [{} -> Nat] /\ none = [n \in {} |-> none[n]] /\ DOMAIN none = {}
  OBVIOUS
<1> HIDE DEF none
<1>3. Held(none)
  BY <1>1, <1>2 DEF Held, DataOf
<1>4. Meaning(clone, none, none, none) /\ FixesFixed(none)
  BY <1>1, <1>2 DEF Meaning, FixesFixed
<1>5. \E w, q : Meaning(model, << >>, w, q)
  BY <1>1, ModelHasMeaning
<1>6. ValuesKept
  BY <1>1, <1>3, <1>4, <1>5 DEF ValuesKept
<1> QED BY <1>1, <1>6 DEF MeaningInv

LEMMA MeaningHolds == DpuSpec => [](LayoutInv /\ PoolInv /\ MeaningInv)
<1>1. DpuSpec => [](LayoutInv /\ PoolInv)
  BY LayoutHolds, PoolAndGraph, PTL
<1>2. LayoutInv /\ PoolInv /\ MeaningInv /\ [DpuNext]_dpuVars => MeaningInv'
  BY MeaningStep
<1> QED BY <1>1, <1>2, MeaningInit, PTL DEF DpuSpec

(* The values of clone and model are the one solution of their equations.  *)
Meant ==
  /\ \E d, r : Held(d) /\ Meaning(clone, d, Values(clone), r)
  /\ \A d, v, r : Held(d) /\ Meaning(clone, d, v, r) => v = Values(clone)
  /\ \E w, q : Meaning(model, << >>, w, q)
  /\ \A w, q : Meaning(model, << >>, w, q) => w = Values(model)
  /\ FixesFixed(Values(clone))
  /\ \A n \in DOMAIN clone : n \in DOMAIN model => Values(clone)[n] = Values(model)[n]

LEMMA ValuesMeant == LayoutInv /\ PoolInv /\ MeaningInv => Meant
<1> SUFFICES ASSUME LayoutInv, PoolInv, MeaningInv PROVE Meant
  OBVIOUS
<1>1. PICK d, v, r, w, q :
        /\ Held(d) /\ Meaning(clone, d, v, r) /\ Meaning(model, << >>, w, q) /\ FixesFixed(v)
        /\ \A m \in DOMAIN clone : m \in DOMAIN model => v[m] = w[m]
  BY DEF MeaningInv, ValuesKept
<1>2. ASSUME NEW e, NEW u, NEW s, Held(e), Meaning(clone, e, u, s) PROVE Values(clone) = u
  <2>1. \A m \in DOMAIN clone : clone[m].op = "const" => Fetched(m) = e[m]
    BY <1>2, FetchedIsData DEF Held, LayoutInv, GraphInv, ConstsInPool
  <2> QED BY <1>2, <2>1, ValuesAreMeant
<1>3. \A m \in DOMAIN model : model[m].op # "const"
  <2>1. IsModel(model) /\ MaxOp \in Nat /\ MaxOp >= 1
    BY DpuAssumption DEF LayoutInv, GraphInv, AtStart
  <2>2. \A m \in DOMAIN model : m = Input \/ m = Weight \/ m \in Ops
    BY <2>1 DEF IsModel, Input, Weight, Ops
  <2> QED BY <2>1, <2>2 DEF IsModel
<1>4. \A u, s : Meaning(model, << >>, u, s) => u = Values(model)
  BY <1>3, ValuesAreMeant
<1>5. Values(clone) = v /\ Values(model) = w
  BY <1>1, <1>2, <1>4
<1> QED BY <1>1, <1>2, <1>4, <1>5 DEF Meant

(* Folding constants, convolutions in NHWC, fused transposes, constants    *)
(* transposed lazily and the fix nodes of the constants: after any number  *)
(* of rewrites, in any order the node actions allow, on any model of such  *)
(* operators, every arg of the model that the clone computes has in the    *)
(* clone the value it has in the model.                                    *)
THEOREM ValuesPreserved == DpuSpec => []ComputesTheSame
<1>1. LayoutInv /\ Meant => ComputesTheSame
  <2> SUFFICES ASSUME LayoutInv, Meant, NEW n \in Live(clone), n \in DOMAIN model
               PROVE  Values(clone)[n] = Values(model)[n]
    BY DEF ComputesTheSame
  <2>1. n \in DOMAIN clone
    BY GraphIsFresh, SearchStaysInGraph DEF LayoutInv, Live
  <2> QED BY <2>1 DEF Meant
<1> QED BY <1>1, ValuesMeant, MeaningHolds, PTL

-----------------------------------------------------------------------------
(* Anchor points. The steps of an anchor point are folded from the last to *)
(* the first; the fold over some steps and one in front applies that one   *)
(* to the fold over the others.                                            *)
LedBack(steps, v) == FoldRight(Applied, steps, v)

(* The folds of FoldRight over parts of the steps.                         *)
Folds(steps, v, f) ==
  f = [s \in SUBSET DOMAIN steps |->
         IF s = {} THEN v ELSE Applied(steps[Min(s)], f[s \ {Min(s)}])]

LEMMA LedBackIsFold ==
  ASSUME NEW steps, NEW v
  PROVE  LedBack(steps, v) = (CHOOSE f : Folds(steps, v, f))[DOMAIN steps]
BY DEF LedBack, FoldRight, MapThenFoldSet, Folds

LEMMA MinOfNats ==
  ASSUME NEW s \in SUBSET Nat, s # {}
  PROVE  /\ Min(s) \in s /\ \A i \in s : Min(s) <= i
         /\ \A m \in s : (\A i \in s : m <= i) => m = Min(s)
<1>1. \E m \in s : \A i \in s : m <= i
  BY SmallestNat
<1> DEFINE Least(m) == m \in s /\ \A i \in s : m <= i
<1>2. Min(s) = CHOOSE m : Least(m)
  BY DEF Min
<1>3. Least(Min(s))
  <2>1. \E m : Least(m)
    BY <1>1
  <2> HIDE DEF Least
  <2> QED BY <1>2, <2>1
<1>4. ASSUME NEW m \in s, \A i \in s : m <= i PROVE m = Min(s)
  <2>1. m <= Min(s) /\ Min(s) <= m /\ m \in Nat /\ Min(s) \in Nat
    BY <1>3, <1>4
  <2> HIDE DEF Least
  <2> QED BY <2>1
<1> QED BY <1>3, <1>4

(* It has no two: they would differ on a set whose least element is last.  *)
LEMMA OneFold ==
  ASSUME NEW S, NEW steps \in Seq(S), NEW v, NEW f, NEW g,
         Folds(steps, v, f), Folds(steps, v, g)
  PROVE  f = g
<1> DEFINE n == Len(steps)
           wrong == {k \in Nat : \E s \in SUBSET DOMAIN steps :
                       s # {} /\ f[s] # g[s] /\ k = n - Min(s)}
<1>1. n \in Nat /\ DOMAIN steps = 1..n
  OBVIOUS
<1>2. SUFFICES ASSUME f # g PROVE FALSE
  OBVIOUS
<1>3. PICK s0 \in SUBSET DOMAIN steps : f[s0] # g[s0]
  BY <1>2 DEF Folds
<1>4. s0 # {} /\ Min(s0) \in 1..n
  <2>1. s0 # {}
    BY <1>3 DEF Folds
  <2> QED BY <1>1, <2>1, MinOfNats
<1>5. n - Min(s0) \in wrong
  BY <1>1, <1>3, <1>4
<1>6. PICK k \in wrong : \A j \in wrong : k <= j
  BY <1>5, SmallestNat
<1>7. PICK s \in SUBSET DOMAIN steps : s # {} /\ f[s] # g[s] /\ k = n - Min(s)
  BY <1>6
<1> DEFINE rest == s \ {Min(s)}
<1>8. /\ f[s] = Applied(steps[Min(s)], f[rest]) /\ g[s] = Applied(steps[Min(s)], g[rest])
  BY <1>7 DEF Folds
<1>9. rest \in SUBSET DOMAIN steps /\ f[rest] # g[rest]
  BY <1>7, <1>8
<1>10. rest # {}
  BY <1>9 DEF Folds
<1>11. PICK i, j : i = Min(s) /\ j = Min(rest)
  OBVIOUS
<1>12. i \in s /\ \A m \in s : i <= m
  BY <1>1, <1>7, <1>11, MinOfNats
<1>13. j \in rest
  <2>1. rest \in SUBSET Nat
    BY <1>1, <1>9
  <2> HIDE DEF rest
  <2> QED BY <1>10, <1>11, <2>1, MinOfNats
<1>14. i \in 1..n /\ j \in 1..n /\ i < j
  <2>1. i \in 1..n /\ j \in 1..n /\ i <= j /\ i # j
    BY <1>1, <1>11, <1>12, <1>13
  <2> QED BY <1>1, <2>1
<1>15. n - j \in Nat /\ n - j < n - i
  BY <1>1, <1>14
<1> HIDE DEF n, rest
<1>16. n - j \in wrong
  BY <1>9, <1>10, <1>11, <1>15
<1> HIDE DEF wrong
<1>17. k <= n - j /\ k = n - i
  BY <1>6, <1>7, <1>11, <1>16
<1> QED BY <1>1, <1>14, <1>15, <1>17

(* A step in front is applied last.                                        *)
LEMMA FoldPrepended ==
  ASSUME NEW S, NEW steps \in Seq(S), NEW step \in S, NEW v, NEW f, Folds(steps, v, f)
  PROVE  \E g : Folds(<<step>> \o steps, v, g)
                /\ g[DOMAIN (<<step>> \o steps)] = Applied(step, f[DOMAIN steps])
<1> DEFINE n == Len(steps)
           more == <<step>> \o steps
           Back(s) == {i - 1 : i \in s \ {1}}
           g == [s \in SUBSET DOMAIN more |->
                   IF 1 \in s THEN Applied(step, f[Back(s)]) ELSE f[Back(s)]]
<1>1. /\ n \in Nat /\ DOMAIN steps = 1..n /\ DOMAIN more = 1..(n + 1)
      /\ more[1] = step /\ \A i \in 2..(n + 1) : more[i] = steps[i - 1]
  OBVIOUS
<1> HIDE DEF more
<1>2. ASSUME NEW s \in SUBSET (1..(n + 1))
      PROVE  Back(s) \in SUBSET (1..n)
  BY <1>1
<1>3. ASSUME NEW s \in SUBSET DOMAIN more
      PROVE  g[s] = IF s = {} THEN v ELSE Applied(more[Min(s)], g[s \ {Min(s)}])
  <2>1. CASE s = {}
    <3>1. Back(s) = {}
      BY <2>1
    <3>2. f[{}] = v
      BY DEF Folds
    <3> QED BY <2>1, <3>1, <3>2
  <2>2. CASE 1 \in s
    <3>1. Min(s) = 1
      BY <1>1, <2>2, MinOfNats
    <3>2. Back(s \ {1}) = Back(s) /\ s \ {1} \in SUBSET DOMAIN more
      OBVIOUS
    <3>3. g[s \ {1}] = f[Back(s)]
      BY <3>2
    <3> HIDE DEF Back
    <3> QED BY <1>1, <2>2, <3>1, <3>3
  <2>3. CASE s # {} /\ 1 \notin s
    <3> DEFINE m == Min(s)
               b == Back(s)
    <3>1. m \in s /\ m \in 2..(n + 1) /\ \A i \in s : m <= i
      BY <1>1, <2>3, MinOfNats
    <3>2. b \in SUBSET (1..n) /\ m - 1 \in b /\ \A j \in b : m - 1 <= j
      BY <1>1, <2>3, <3>1
    <3>3. Min(b) = m - 1
      <4>1. b \in SUBSET Nat /\ b # {}
        BY <1>1, <3>2
      <4> HIDE DEF b, m
      <4> QED BY <3>2, <4>1, MinOfNats
    <3>4. Back(s \ {m}) = b \ {m - 1}
      <4>1. ASSUME NEW i \in s \ {m} PROVE i - 1 \in b \ {m - 1}
        BY <1>1, <2>3, <3>1
      <4>2. ASSUME NEW j \in b \ {m - 1} PROVE j \in Back(s \ {m})
        <5>1. PICK i \in s : j = i - 1 /\ i # 1
          OBVIOUS
        <5> QED BY <1>1, <3>1, <5>1
      <4> QED BY <2>3, <4>1, <4>2
    <3>5. f[b] = Applied(steps[m - 1], f[b \ {m - 1}])
      BY <1>1, <3>2, <3>3 DEF Folds
    <3>6. g[s] = f[b] /\ g[s \ {m}] = f[b \ {m - 1}]
      BY <2>3, <3>4
    <3>7. more[m] = steps[m - 1]
      BY <1>1, <3>1
    <3> HIDE DEF m, b, g
    <3> QED BY <2>3, <3>5, <3>6, <3>7 DEF m
  <2> QED BY <2>1, <2>2, <2>3
<1>4. g[DOMAIN more] = Applied(step, f[DOMAIN steps])
  <2>1. 1 \in DOMAIN more /\ Back(DOMAIN more) \subseteq 1..n
    BY <1>1, <1>2
  <2>2. ASSUME NEW j \in 1..n PROVE j \in Back(DOMAIN more)
    <3>1. j + 1 \in DOMAIN more \ {1} /\ j = (j + 1) - 1
      BY <1>1
    <3> QED BY <3>1
  <2>3. Back(DOMAIN more) = DOMAIN steps
    BY <1>1, <2>1, <2>2
  <2> HIDE DEF Back
  <2> QED BY <2>1, <2>3
<1>5. Folds(more, v, g)
  <2>1. g = [s \in SUBSET DOMAIN more |-> g[s]]
    OBVIOUS
  <2> HIDE DEF g
  <2> QED BY <1>3, <2>1 DEF Folds
<1> HIDE DEF g
<1> QED BY <1>4, <1>5 DEF more

LEMMA FoldOfNone ==
  ASSUME NEW v, NEW steps, DOMAIN steps = {}
  PROVE  Folds(steps, v, [s \in {{}} |-> v])
BY DEF Folds

(* Every sequence of steps has a fold: the shortest without one is not     *)
(* empty, and its tail has one.                                            *)
LEMMA FoldExists ==
  ASSUME NEW S, NEW steps \in Seq(S), NEW v
  PROVE  \E f : Folds(steps, v, f)
<1> DEFINE None(t) == \A f : ~Folds(t, v, f)
           wrong == {k \in Nat : \E t \in Seq(S) : Len(t) = k /\ None(t)}
<1>1. SUFFICES ASSUME None(steps) PROVE FALSE
  OBVIOUS
<1>2. Len(steps) \in wrong
  BY <1>1
<1>3. PICK k \in wrong : \A j \in wrong : k <= j
  BY <1>2, SmallestNat
<1>4. PICK t \in Seq(S) : Len(t) = k /\ None(t)
  BY <1>3
<1>5. t # << >>
  <2>1. t = << >> => DOMAIN t = {}
    OBVIOUS
  <2> QED BY <1>4, <2>1, FoldOfNone
<1>6. /\ Head(t) \in S /\ Tail(t) \in Seq(S) /\ t = <<Head(t)>> \o Tail(t)
      /\ Len(Tail(t)) \in Nat /\ Len(Tail(t)) < k
  BY <1>4, <1>5
<1>7. ~None(Tail(t))
  <2> SUFFICES ASSUME None(Tail(t)) PROVE FALSE
    OBVIOUS
  <2> HIDE DEF None
  <2>1. Len(Tail(t)) \in wrong
    BY <1>6
  <2>2. k <= Len(Tail(t)) /\ k \in Nat
    BY <1>3, <2>1
  <2> QED BY <1>6, <2>2
<1>8. PICK f : Folds(Tail(t), v, f)
  BY <1>7
<1>9. \E g : Folds(<<Head(t)>> \o Tail(t), v, g)
  BY <1>6, <1>8, FoldPrepended
<1> QED BY <1>4, <1>6, <1>9

LEMMA LedBackPrepended ==
  ASSUME NEW S, NEW steps \in Seq(S), NEW step \in S, NEW v
  PROVE  LedBack(<<step>> \o steps, v) = Applied(step, LedBack(steps, v))
<1> DEFINE more == <<step>> \o steps
           f == CHOOSE h : Folds(steps, v, h)
           g == CHOOSE h : Folds(more, v, h)
<1>1. more \in Seq(S)
  OBVIOUS
<1> HIDE DEF more
<1>2. Folds(steps, v, f)
  BY FoldExists
<1>3. Folds(more, v, g)
  BY <1>1, FoldExists
<1>4. LedBack(steps, v) = f[DOMAIN steps] /\ LedBack(more, v) = g[DOMAIN more]
  BY LedBackIsFold
<1> HIDE DEF f, g
<1>5. PICK h : Folds(more, v, h) /\ h[DOMAIN more] = Applied(step, f[DOMAIN steps])
  BY <1>2, FoldPrepended DEF more
<1>6. h = g
  BY <1>1, <1>3, <1>5, OneFold
<1> QED BY <1>4, <1>5, <1>6 DEF more

LEMMA LedBackByNone == ASSUME NEW v PROVE LedBack(<< >>, v) = v
<1>1. << >> \in Seq({}) /\ DOMAIN << >> = {}
  OBVIOUS
<1>2. Folds(<< >>, v, CHOOSE h : Folds(<< >>, v, h))
  BY <1>1, FoldExists
<1> DEFINE f == CHOOSE h : Folds(<< >>, v, h)
<1>3. LedBack(<< >>, v) = f[{}]
  BY <1>1, LedBackIsFold
<1> HIDE DEF f
<1> QED BY <1>1, <1>2, <1>3 DEF Folds, f

-----------------------------------------------------------------------------
(* An anchor point leads to a value, from the values w of the model.       *)
Steps == {Step(op, order, assumed) :
            op \in {"transpose", "fix", "const"}, order \in Orders \cup {<< >>},
            assumed \in BOOLEAN}
LeadsTo(anchor, value, w) ==
  /\ anchor.steps \in Seq(Steps) /\ anchor.origin \in DOMAIN w
  /\ Exact(anchor.steps) => value = LedBack(anchor.steps, w[anchor.origin])

AnchorInv ==
  /\ phase = "start" => DOMAIN clone = {} /\ DOMAIN origin_nodes = {}
  /\ \A n \in DOMAIN clone :
       IF n \in DOMAIN origin_nodes
       THEN LeadsTo(origin_nodes[n], Values(clone)[n], Values(model))
       ELSE n \in DOMAIN model

LEMMA StepPrepended ==
  ASSUME NEW steps \in Seq(Steps), NEW step \in Steps, NEW v
  PROVE  /\ <<step>> \o steps \in Seq(Steps)
         /\ LedBack(<<step>> \o steps, v) = Applied(step, LedBack(steps, v))
         /\ Exact(<<step>> \o steps) => Exact(steps) /\ step.op # "const" /\ ~step.assumed
<1> DEFINE more == <<step>> \o steps
<1>1. /\ more \in Seq(Steps) /\ DOMAIN more = 1..(Len(steps) + 1) /\ Len(steps) \in Nat
      /\ more[1] = step /\ \A i \in 1..Len(steps) : more[i + 1] = steps[i]
      /\ DOMAIN steps = 1..Len(steps)
  OBVIOUS
<1> HIDE DEF more
<1>2. 1 \in DOMAIN more /\ \A i \in DOMAIN steps : i + 1 \in DOMAIN more
  BY <1>1
<1>3. Exact(more) => Exact(steps) /\ step.op # "const" /\ ~step.assumed
  BY <1>1, <1>2 DEF Exact
<1> QED BY <1>1, <1>3, LedBackPrepended DEF more

(* The anchor point AnchorPoint makes for a value obtained from that of n. *)
LEMMA NewAnchor ==
  ASSUME Meant, AnchorInv, NEW n \in DOMAIN clone,
         NEW op \in {"transpose", "fix", "const"}, NEW order \in Orders \cup {<< >>},
         NEW assumed \in BOOLEAN, NEW value,
         op # "const" /\ ~assumed => value = Applied(Step(op, order, assumed), Values(clone)[n])
  PROVE  LeadsTo(AnchorPoint(n, Step(op, order, assumed)), value, Values(model))
<1> DEFINE step == Step(op, order, assumed)
           w == Values(model)
           now == Values(clone)
<1>1. step \in Steps /\ step.op = op /\ step.assumed = assumed
  BY DEF Steps, Step
<1> HIDE DEF step
<1>2. CASE n \in DOMAIN origin_nodes
  <2>1. PICK steps, origin : steps = origin_nodes[n].steps /\ origin = origin_nodes[n].origin
    OBVIOUS
  <2> DEFINE more == <<step>> \o steps
             x == w[origin]
  <2>2. /\ steps \in Seq(Steps) /\ origin \in DOMAIN w
        /\ Exact(steps) => now[n] = LedBack(steps, x)
    BY <1>2, <2>1 DEF AnchorInv, LeadsTo
  <2>3. /\ AnchorPoint(n, step).steps = more /\ AnchorPoint(n, step).origin = origin
    BY <1>2, <2>1 DEF AnchorPoint
  <2> HIDE DEF w, now, x
  <2>4. /\ more \in Seq(Steps) /\ LedBack(more, x) = Applied(step, LedBack(steps, x))
        /\ Exact(more) => Exact(steps) /\ step.op # "const" /\ ~step.assumed
    BY <1>1, <2>2, StepPrepended
  <2> HIDE DEF more
  <2>5. Exact(more) => value = LedBack(more, x)
    BY <1>1, <2>2, <2>4 DEF now, step
  <2> QED BY <2>2, <2>3, <2>4, <2>5 DEF LeadsTo, step, w, x
<1>3. CASE n \notin DOMAIN origin_nodes
  <2> DEFINE one == <<step>>
  <2>1. n \in DOMAIN model /\ now[n] = w[n] /\ DOMAIN w = DOMAIN model
    <3>1. n \in DOMAIN model
      BY <1>3 DEF AnchorInv
    <3>2. DOMAIN w = DOMAIN model
      BY DEF Meant, Meaning
    <3> QED BY <3>1, <3>2 DEF Meant
  <2>2. AnchorPoint(n, step) = [steps |-> one, origin |-> n]
    BY <1>3 DEF AnchorPoint
  <2> HIDE DEF w, now
  <2>3. one \in Seq(Steps) /\ one = one \o << >> /\ << >> \in Seq(Steps)
    BY <1>1
  <2>4. 1 \in DOMAIN one /\ one[1] = step
    OBVIOUS
  <2>5. LedBack(one \o << >>, w[n]) = Applied(step, LedBack(<< >>, w[n]))
    BY <1>1, <2>3, LedBackPrepended
  <2> HIDE DEF one
  <2>6. LedBack(one, w[n]) = Applied(step, now[n])
    BY <2>1, <2>3, <2>5, LedBackByNone
  <2>7. Exact(one) => op # "const" /\ ~assumed
    BY <1>1, <2>4 DEF Exact
  <2> QED BY <2>1, <2>2, <2>3, <2>6, <2>7 DEF LeadsTo, step, w, now
<1> QED BY <1>2, <1>3 DEF step

(* What a step leaves of the values.                                       *)
LEMMA StepValues ==
  ASSUME LayoutInv, PoolInv, MeaningInv, [DpuNext]_dpuVars, ~Start, Meant, Meant'
  PROVE  /\ model' = model /\ Values(model)' = Values(model)
         /\ \A n \in DOMAIN clone' : n \in DOMAIN clone => Values(clone)'[n] = Values(clone)[n]
<1>1. PICK d, r : Held(d) /\ Meaning(clone, d, Values(clone), r) /\ FixesFixed(Values(clone))
  BY DEF Meant
<1>2. Keeps(Values(clone))
  BY <1>1, StepKeeps
<1>3. model' = model
  BY <1>2 DEF Keeps
<1>4. PICK w, q : Meaning(model, << >>, w, q)
  BY DEF Meant
<1>5. w = Values(model) /\ w = Values(model)'
  <2>1. Meaning(model', << >>, w, q)
    BY <1>3, <1>4
  <2> QED BY <1>4, <2>1 DEF Meant
<1>6. PICK e, u, s : Follows(e, u, s, Values(clone))
  BY <1>2 DEF Keeps
<1>7. u = Values(clone)'
  BY <1>6 DEF Follows, Meant
<1>8. \A n \in DOMAIN clone' : n \in DOMAIN clone => u[n] = Values(clone)[n]
  BY <1>6 DEF Follows
<1> QED BY <1>3, <1>5, <1>7, <1>8

(* Nodes that were there keep their values and their anchor points; new    *)
(* ones need one.                                                          *)
LEMMA AnchorsKept ==
  ASSUME LayoutInv, PoolInv, MeaningInv, [DpuNext]_dpuVars, ~Start, Meant, Meant', AnchorInv,
         \A n \in DOMAIN origin_nodes : n \in DOMAIN clone =>
           n \in DOMAIN origin_nodes' /\ origin_nodes'[n] = origin_nodes[n],
         \A n \in DOMAIN origin_nodes' : n \in DOMAIN clone => n \in DOMAIN origin_nodes,
         phase' # "start" \/ UNCHANGED <<phase, clone, origin_nodes>>,
         \A n \in DOMAIN clone' : n \notin DOMAIN clone =>
           /\ n \in DOMAIN origin_nodes'
           /\ LeadsTo(origin_nodes'[n], Values(clone)'[n], Values(model))
  PROVE  AnchorInv'
<1>1. /\ model' = model /\ Values(model)' = Values(model)
      /\ \A n \in DOMAIN clone' : n \in DOMAIN clone => Values(clone)'[n] = Values(clone)[n]
  BY StepValues
<1>2. phase' = "start" => DOMAIN clone' = {} /\ DOMAIN origin_nodes' = {}
  BY DEF AnchorInv
<1>3. ASSUME NEW n \in DOMAIN clone'
      PROVE  IF n \in DOMAIN origin_nodes'
             THEN LeadsTo(origin_nodes'[n], Values(clone)'[n], Values(model)')
             ELSE n \in DOMAIN model'
  <2>1. CASE n \in DOMAIN clone
    BY <1>1, <1>3, <2>1 DEF AnchorInv
  <2>2. CASE n \notin DOMAIN clone
    BY <1>1, <1>3, <2>2
  <2> QED BY <2>1, <2>2
<1> QED BY <1>2, <1>3 DEF AnchorInv

(* A transpose says what its arg is, and the other way round.              *)
LEMMA TransposeValue ==
  ASSUME NEW g, NEW e, NEW u, NEW s, Meaning(g, e, u, s), NEW n \in DOMAIN g,
         NEW x, NEW order, NEW shape, g[n] = Node("transpose", <<x>>, order, shape)
  PROVE  /\ order \in Orders /\ x \in DOMAIN g /\ IsTensor(u[x])
         /\ u[n] = Transposed(u[x], order)
<1> DEFINE in == <<x>>
           node == Node("transpose", in, order, shape)
<1>1. node.op = "transpose" /\ node.in = in /\ node.order = order
  BY DEF Node
<1>2. DOMAIN in = 1..Arity("transpose") /\ in[1] = x
  BY Arguments
<1> HIDE DEF in
<1>3. /\ GoodNode(node, DOMAIN g) /\ u[n] = Result(node, n, e, u)
      /\ \A m \in DOMAIN g : IsTensor(u[m])
  BY DEF Meaning, in
<1> HIDE DEF node
<1>4. 1 \in DOMAIN node.in /\ node.order \in Orders
  BY <1>1, <1>2, <1>3, ArgsOfKind DEF GoodNode
<1>5. x \in DOMAIN g
  BY <1>1, <1>2, <1>3, <1>4 DEF GoodNode
<1>6. Result(node, n, e, u) = Transposed(u[x], order)
  BY <1>1, <1>2 DEF Result
<1> QED BY <1>1, <1>3, <1>4, <1>5, <1>6

(* What each rule and pass writes down of its new nodes is what the        *)
(* equations of the new graph say.                                         *)
Anchoring ==
  /\ LayoutInv /\ PoolInv /\ MeaningInv /\ Meant /\ Meant' /\ AnchorInv
  /\ [DpuNext]_dpuVars /\ ~Start /\ phase' # "start"

LEMMA SisoAnchors ==
  ASSUME Anchoring, NEW n \in DOMAIN clone, SisoRule(n) PROVE AnchorInv'
<1>1. PICK order, new : order = Order(Arg(n, 1)) /\ new = suffix
  OBVIOUS
<1>2. new \notin DOMAIN clone
  BY <1>1, GraphIsFresh DEF Anchoring, LayoutInv, Fresh
<1>3. /\ clone' = Put(Put(clone, new, NewSiso(n)), n,
                      Node("transpose", <<new>>, order, clone[n].shape))
      /\ origin_nodes' = Put(origin_nodes, new,
                             AnchorPoint(n, Step("transpose", undo_order(order), FALSE)))
  BY <1>1 DEF SisoRule, TransposeOfNew, TransposedBack
<1> DEFINE now == Values(clone)
           next == Values(clone)'
<1>4. PICK e, s : Meaning(clone', e, next, s)
  BY DEF Anchoring, Meant
<1>5. /\ DOMAIN clone' = DOMAIN clone \cup {new}
      /\ DOMAIN origin_nodes' = DOMAIN origin_nodes \cup {new}
  BY <1>3 DEF Put
<1>6. order \in Orders /\ IsTensor(next[new]) /\ next[n] = Transposed(next[new], order)
  <2>1. clone'[n] = Node("transpose", <<new>>, order, clone[n].shape)
    BY <1>3 DEF Put
  <2> QED BY <1>4, <1>5, <2>1, TransposeValue
<1>7. next[n] = now[n]
  BY <1>5, StepValues DEF Anchoring
<1> HIDE DEF now, next
<1>8. next[new] = Transposed(now[n], undo_order(order)) /\ undo_order(order) \in Orders
  <2>1. Transposed(Transposed(next[new], order), undo_order(order)) = next[new]
    BY <1>6, TransposedAndBack
  <2>2. undo_order(order) \in Orders
    BY <1>6, OrderUndone
  <2> QED BY <1>6, <1>7, <2>1, <2>2
<1>9. LeadsTo(origin_nodes'[new], next[new], Values(model))
  <2>1. Applied(Step("transpose", undo_order(order), FALSE), now[n]) = next[new]
    BY <1>8 DEF Applied, Step
  <2>2. origin_nodes'[new] = AnchorPoint(n, Step("transpose", undo_order(order), FALSE))
    BY <1>3 DEF Put
  <2> QED BY <1>8, <2>1, <2>2, NewAnchor DEF Anchoring, now
<1>10. \A m \in DOMAIN origin_nodes : m \in DOMAIN clone => origin_nodes'[m] = origin_nodes[m]
  BY <1>2, <1>3 DEF Put
<1> QED BY <1>2, <1>5, <1>9, <1>10, AnchorsKept DEF Anchoring, next

LEMMA BroadcastAnchors ==
  ASSUME Anchoring, NEW n \in DOMAIN clone, BroadcastRule(n) PROVE AnchorInv'
<1>1. PICK new : new = suffix
  OBVIOUS
<1>2. new \notin DOMAIN clone
  BY <1>1, GraphIsFresh DEF Anchoring, LayoutInv, Fresh
<1> DEFINE step == Step("transpose", NCHW2NHWC, TRUE)
<1>3. /\ DOMAIN clone' = DOMAIN clone \cup {new}
      /\ origin_nodes' = Put(origin_nodes, new, AnchorPoint(n, step))
  BY <1>1 DEF BroadcastRule, Put
<1>4. LeadsTo(AnchorPoint(n, step), Values(clone)'[new], Values(model))
  BY NewAnchor, LayoutIsOrder DEF Anchoring
<1>5. /\ DOMAIN origin_nodes' = DOMAIN origin_nodes \cup {new}
      /\ origin_nodes'[new] = AnchorPoint(n, step)
      /\ \A m \in DOMAIN origin_nodes : m \in DOMAIN clone => origin_nodes'[m] = origin_nodes[m]
  BY <1>2, <1>3 DEF Put
<1> QED BY <1>2, <1>3, <1>4, <1>5, AnchorsKept DEF Anchoring

LEMMA BroadcastConstAnchors ==
  ASSUME Anchoring, NEW n \in DOMAIN clone, BroadcastConstRule(n) PROVE AnchorInv'
<1>1. PICK i \in {1, 2} :
        LET t == Arg(n, i)
            c == Arg(n, 3 - i)
        IN  /\ IsOp(c, "const")
            /\ clone' = Put(Put(Put(clone,
                 suffix, Node("const", << >>, << >>, ShapeBefore(c, Order(t)))),
                 suffix + 1, Node("add", Operands(i, Arg(t, 1), suffix), << >>,
                                  ShapeBefore(n, Order(t)))),
                 n, TransposeOfNew(n, suffix + 1, Order(t)))
            /\ origin_nodes' = Put(Put(origin_nodes,
                 suffix, AnchorPoint(c, Step("const", << >>, FALSE))),
                 suffix + 1, TransposedBack(n, Order(t)))
  BY DEF BroadcastConstRule
<1>2. PICK c, order, const, new :
        c = Arg(n, 3 - i) /\ order = Order(Arg(n, i)) /\ const = suffix /\ new = suffix + 1
  OBVIOUS
<1>3. const \notin DOMAIN clone /\ new \notin DOMAIN clone /\ const # new
  BY <1>2, GraphIsFresh DEF Anchoring, LayoutInv, Fresh
<1> DEFINE lost == Step("const", << >>, FALSE)
           back == Step("transpose", undo_order(order), FALSE)
           now == Values(clone)
           next == Values(clone)'
<1>4. /\ DOMAIN clone' = DOMAIN clone \cup {const, new}
      /\ clone'[n] = Node("transpose", <<new>>, order, clone[n].shape)
      /\ origin_nodes' = Put(Put(origin_nodes, const, AnchorPoint(c, lost)),
                             new, AnchorPoint(n, back))
      /\ c \in DOMAIN clone
  BY <1>1, <1>2 DEF Put, TransposeOfNew, TransposedBack, IsOp
<1>5. /\ DOMAIN origin_nodes' = DOMAIN origin_nodes \cup {const, new}
      /\ origin_nodes'[const] = AnchorPoint(c, lost) /\ origin_nodes'[new] = AnchorPoint(n, back)
      /\ \A m \in DOMAIN origin_nodes : m \in DOMAIN clone => origin_nodes'[m] = origin_nodes[m]
  BY <1>3, <1>4 DEF Put
<1>6. PICK e, s : Meaning(clone', e, next, s)
  BY DEF Anchoring, Meant
<1>7. order \in Orders /\ IsTensor(next[new]) /\ next[n] = Transposed(next[new], order)
  BY <1>4, <1>6, TransposeValue
<1>8. next[n] = now[n]
  BY <1>4, StepValues DEF Anchoring
<1> HIDE DEF now, next
<1>9. next[new] = Transposed(now[n], undo_order(order)) /\ undo_order(order) \in Orders
  <2>1. Transposed(Transposed(next[new], order), undo_order(order)) = next[new]
    BY <1>7, TransposedAndBack
  <2>2. undo_order(order) \in Orders
    BY <1>7, OrderUndone
  <2> QED BY <1>7, <1>8, <2>1, <2>2
<1>10. LeadsTo(origin_nodes'[const], next[const], Values(model))
  BY <1>4, <1>5, NewAnchor DEF Anchoring
<1>11. LeadsTo(origin_nodes'[new], next[new], Values(model))
  <2>1. Applied(back, now[n]) = next[new]
    BY <1>9 DEF Applied, Step
  <2> QED BY <1>5, <1>9, <2>1, NewAnchor DEF Anchoring, now
<1> QED BY <1>3, <1>4, <1>5, <1>10, <1>11, AnchorsKept DEF Anchoring, next

LEMMA AddTransposeAnchors ==
  ASSUME Anchoring, NEW n \in DOMAIN clone, AddTranspose(n) PROVE AnchorInv'
<1>1. PICK x, y, new, back, conv :
        /\ x = Arg(n, 1) /\ y = Arg(n, 2)
        /\ new = suffix /\ back = suffix + 1 /\ conv = suffix + 2
  OBVIOUS
<1>2. /\ new \notin DOMAIN clone /\ back \notin DOMAIN clone /\ conv \notin DOMAIN clone
      /\ new # back /\ new # conv /\ back # conv
  BY <1>1, GraphIsFresh DEF Anchoring, LayoutInv, Fresh
<1> DEFINE nhwc == NCHW2NHWC
           step == Step("transpose", nhwc, FALSE)
           now == Values(clone)
           next == Values(clone)'
<1>3. x \in DOMAIN clone /\ y \in DOMAIN clone
  <2>1. IsOp(n, "conv_nchw")
    BY DEF AddTranspose, Anchoring, LayoutInv, GraphInv, TodoKinds, IsOp
  <2>2. PICK d, v, r : Meaning(clone, d, v, r)
    BY DEF Anchoring, Meant
  <2>3. \A j \in {1, 2} : Arg(n, j) \in DOMAIN clone
    BY <2>1, <2>2, BinaryComputed
  <2> QED BY <1>1, <2>3
<1>4. /\ DOMAIN clone' = DOMAIN clone \cup {new, back, conv}
      /\ clone'[new] = Node("transpose", <<x>>, nhwc, Permuted(clone[x].shape, nhwc))
      /\ clone'[back] = Node("transpose", <<y>>, nhwc, Permuted(clone[y].shape, nhwc))
      /\ clone'[n] = Node("transpose", <<conv>>, undo_order(nhwc), clone[n].shape)
  BY <1>1, <1>2 DEF AddTranspose, TransposeOfNew, Put
<1>5. /\ DOMAIN origin_nodes' = DOMAIN origin_nodes \cup {new, back, conv}
      /\ origin_nodes'[new] = AnchorPoint(x, step) /\ origin_nodes'[back] = AnchorPoint(y, step)
      /\ origin_nodes'[conv] = AnchorPoint(n, step)
      /\ \A m \in DOMAIN origin_nodes : m \in DOMAIN clone => origin_nodes'[m] = origin_nodes[m]
  BY <1>1, <1>2 DEF AddTranspose, Put
<1>6. PICK e, s : Meaning(clone', e, next, s)
  BY DEF Anchoring, Meant
<1>7. /\ next[new] = Transposed(next[x], nhwc) /\ next[back] = Transposed(next[y], nhwc)
      /\ IsTensor(next[conv]) /\ next[n] = Transposed(next[conv], undo_order(nhwc))
  <2>1. next[new] = Transposed(next[x], nhwc)
    BY <1>4, <1>6, TransposeValue
  <2>2. next[back] = Transposed(next[y], nhwc)
    BY <1>4, <1>6, TransposeValue
  <2>3. IsTensor(next[conv]) /\ next[n] = Transposed(next[conv], undo_order(nhwc))
    BY <1>4, <1>6, TransposeValue
  <2> QED BY <2>1, <2>2, <2>3
<1>8. next[x] = now[x] /\ next[y] = now[y] /\ next[n] = now[n]
  BY <1>3, <1>4, StepValues DEF Anchoring
<1> HIDE DEF now, next
<1>9. /\ next[new] = Applied(step, now[x]) /\ next[back] = Applied(step, now[y])
      /\ next[conv] = Applied(step, now[n])
  <2>1. \A a : Applied(step, a) = Transposed(a, nhwc)
    BY DEF Applied, Step
  <2> HIDE DEF step
  <2>2. Transposed(Transposed(next[conv], undo_order(nhwc)), nhwc) = next[conv]
    BY <1>7, LayoutIsOrder, TransposedAndBack
  <2> QED BY <1>7, <1>8, <2>1, <2>2
<1>10. LeadsTo(origin_nodes'[new], next[new], Values(model))
  BY <1>3, <1>5, <1>9, NewAnchor, LayoutIsOrder DEF Anchoring, now
<1>11. LeadsTo(origin_nodes'[back], next[back], Values(model))
  BY <1>3, <1>5, <1>9, NewAnchor, LayoutIsOrder DEF Anchoring, now
<1>12. LeadsTo(origin_nodes'[conv], next[conv], Values(model))
  BY <1>5, <1>9, NewAnchor, LayoutIsOrder DEF Anchoring, now
<1> QED BY <1>2, <1>4, <1>5, <1>10, <1>11, <1>12, AnchorsKept DEF Anchoring, next

LEMMA ConstAddFixAnchors ==
  ASSUME Anchoring, NEW n \in DOMAIN clone, ConstAddFix(n) PROVE AnchorInv'
<1>1. PICK new : new = suffix
  OBVIOUS
<1>2. Fresh /\ new \notin DOMAIN clone
  BY <1>1, GraphIsFresh DEF Anchoring, LayoutInv, Fresh
<1> DEFINE step == Step("fix", << >>, FALSE)
           now == Values(clone)
           next == Values(clone)'
<1>3. /\ DOMAIN clone' = DOMAIN clone \cup {new}
      /\ origin_nodes' = Put(origin_nodes, new, AnchorPoint(n, step))
  BY <1>1 DEF ConstAddFix, Put
<1>4. PICK d, r : Held(d) /\ Meaning(clone, d, now, r) /\ FixesFixed(now)
  BY DEF Anchoring, Meant
<1>5. IsOp(n, "const") /\ n \in fix_info
  BY DEF ConstAddFix, Anchoring, LayoutInv, GraphInv, TodoKinds, IsOp, MeaningInv
<1>6. ConstsInPool /\ suffix \notin DOMAIN const_data_info
  <2>1. suffix \in Nat /\ suffix \notin Names(suffix)
    BY DEF Anchoring, LayoutInv, GraphInv, NamesAreOld, Names
  <2> QED BY <2>1 DEF Anchoring, LayoutInv, GraphInv, NamesAreOld
<1>7. PICK e, u, s : Follows(e, u, s, now) /\ u[suffix] = now[n]
  BY <1>2, <1>4, <1>5, <1>6, ConstAddFixMeaning DEF Anchoring
<1>8. u = next
  BY <1>7 DEF Follows, Anchoring, Meant
<1>9. IsTensor(now[n]) /\ IsFixed(now[n])
  BY <1>4, <1>5, Computed DEF FixesFixed
<1>10. LeadsTo(AnchorPoint(n, step), next[new], Values(model))
  <2>1. next[new] = now[n]
    BY <1>1, <1>7, <1>8
  <2> HIDE DEF now, next
  <2>2. Applied(step, now[n]) = Fixed(now[n])
    BY DEF Applied, Step
  <2>3. Applied(step, now[n]) = next[new]
    BY <1>9, <2>1, <2>2, FixedTensor
  <2> QED BY <2>3, NewAnchor DEF Anchoring, now
<1>11. /\ DOMAIN origin_nodes' = DOMAIN origin_nodes \cup {new}
       /\ origin_nodes'[new] = AnchorPoint(n, step)
       /\ \A m \in DOMAIN origin_nodes : m \in DOMAIN clone => origin_nodes'[m] = origin_nodes[m]
  BY <1>2, <1>3 DEF Put
<1> QED BY <1>2, <1>3, <1>10, <1>11, AnchorsKept DEF Anchoring

LEMMA AnchorStep ==
  ASSUME LayoutInv, PoolInv, MeaningInv, Meant, Meant', AnchorInv, [DpuNext]_dpuVars
  PROVE  AnchorInv'
<1>1. CASE Start
  <2>1. phase' # "start" /\ DOMAIN origin_nodes' = {} /\ DOMAIN clone' = DOMAIN model
        /\ model' = model
    BY <1>1 DEF Start, frame, AnchorInv
  <2> QED BY <2>1 DEF AnchorInv
<1>2. CASE ~Start /\ UNCHANGED origin_nodes /\ DOMAIN clone' \subseteq DOMAIN clone
           /\ (phase' # "start" \/ UNCHANGED <<phase, clone>>)
  BY <1>2, AnchorsKept
<1>3. CASE UNCHANGED dpuVars
  <2>1. UNCHANGED <<clone, origin_nodes, phase>>
    BY <1>3 DEF dpuVars, rewritingVars
  <2>2. ~Start
    BY <2>1 DEF Start
  <2> QED BY <1>2, <2>1, <2>2
<1>4. CASE NotSupported
  BY <1>2, <1>4 DEF NotSupported, Start, rewritingVars
<1>5. CASE EndFold \/ EndLayout \/ EndFuse \/ EndAddFix
  <2>1. PICK from, to : EndPass(from, to) /\ from # "start" /\ to # "start"
    BY <1>5 DEF EndFold, EndLayout, EndFuse, EndAddFix
  <2>2. DOMAIN clone' \subseteq DOMAIN clone
    BY <2>1, GcKeepsNodes DEF EndPass
  <2> QED BY <1>2, <2>1, <2>2 DEF EndPass, Start
<1>6. CASE Finish \/ Throw
  <2>1. UNCHANGED origin_nodes /\ DOMAIN clone' = {} /\ phase' = "left"
    BY <1>6 DEF Finish, Throw, Leave
  <2> QED BY <1>2, <2>1 DEF Start
<1>7. ASSUME NEW n \in DOMAIN clone, Fold(n) PROVE AnchorInv'
  <2>1. UNCHANGED <<origin_nodes, phase>> /\ phase = "fold" /\ DOMAIN clone' = DOMAIN clone
    BY <1>7 DEF Fold, Put
  <2> QED BY <1>2, <2>1 DEF Start
<1>8. ASSUME NEW n \in DOMAIN clone, AddTranspose(n) PROVE AnchorInv'
  <2>1. ~Start /\ phase' # "start"
    BY <1>8 DEF AddTranspose, Start
  <2> QED BY <1>8, <2>1, AddTransposeAnchors DEF Anchoring
<1>9. ASSUME NEW n \in DOMAIN clone, FuseTranspose(n) PROVE AnchorInv'
  <2>1. ~Start /\ phase' # "start" /\ RewriteNode(n)
    BY <1>9 DEF FuseTranspose, Start
  <2>2. CASE TransposeTransposeRule(n) \/ TransposeConstRule(n)
    <3>1. UNCHANGED origin_nodes /\ DOMAIN clone' = DOMAIN clone
      BY <2>2 DEF TransposeTransposeRule, TransposeConstRule, Put
    <3> QED BY <1>2, <2>1, <3>1
  <2>3. Anchoring
    BY <2>1 DEF Anchoring
  <2> QED BY <2>1, <2>2, <2>3, SisoAnchors, BroadcastAnchors, BroadcastConstAnchors
      DEF RewriteNode
<1>10. ASSUME NEW n \in DOMAIN clone, ConstAddFix(n) PROVE AnchorInv'
  <2>1. ~Start /\ phase' # "start"
    BY <1>10 DEF ConstAddFix, Start
  <2> QED BY <1>10, <2>1, ConstAddFixAnchors DEF Anchoring
<1>11. ASSUME NEW n \in DOMAIN clone, Export(n) PROVE AnchorInv'
  <2>1. UNCHANGED <<clone, origin_nodes, phase>> /\ phase = "export"
    BY <1>11 DEF Export, rewritingVars
  <2> QED BY <1>2, <2>1 DEF Start
<1> QED BY <1>1, <1>3, <1>4, <1>5, <1>6, <1>7, <1>8, <1>9, <1>10, <1>11 DEF DpuNext, Work

(* However transposes were added, merged, moved past operators and taken   *)
(* out again, and constants rounded: the anchor point of every new arg of  *)
(* the clone is a chain of transformations by which its value is obtained  *)
(* from that of an arg of the model, if each link is exact.                *)
THEOREM AnchorsLead == DpuSpec => []AnchorsLeadBack
<1>1. DpuInit => AnchorInv
  BY DEF DpuInit, AnchorInv
<1>2. LayoutInv /\ PoolInv /\ MeaningInv /\ Meant /\ Meant' /\ AnchorInv /\ [DpuNext]_dpuVars
        => AnchorInv'
  BY AnchorStep
<1>3. LayoutInv /\ AnchorInv => AnchorsLeadBack
  <2> SUFFICES ASSUME LayoutInv, AnchorInv,
                      NEW n \in Live(clone), n \in DOMAIN origin_nodes, Exact(origin_nodes[n].steps)
               PROVE  Values(clone)[n] = FoldRight(Applied, origin_nodes[n].steps,
                                                   Values(model)[origin_nodes[n].origin])
    BY DEF AnchorsLeadBack
  <2>1. n \in DOMAIN clone
    BY GraphIsFresh, SearchStaysInGraph DEF LayoutInv, Live
  <2> QED BY <2>1 DEF AnchorInv, LeadsTo, LedBack
<1> QED BY <1>1, <1>2, <1>3, ValuesMeant, MeaningHolds, PTL DEF DpuSpec
=============================================================================
