----------------------------- MODULE ConstPool ------------------------------
(***************************************************************************)
(* The constants of a pass context. A constant has a cell of const_data,   *)
(* which its name leads to through const_data_info; an alias shares the    *)
(* cell. A lazy constant has a closure that fills the cell the first time  *)
(* its data is asked for, and that reads another constant by name; the     *)
(* alias shares the closure too. Neither names nor cells are ever removed. *)
(***************************************************************************)
EXTENDS Tensors, Dags, FiniteSets

VARIABLES
  const_data,       \* the cells, one for each constant created
  const_data_info,  \* name -> cell
  const_lazy,       \* name -> closure
  closures          \* [source, order, pending]: transpose the data of source

poolVars == <<const_data, const_data_info, const_lazy, closures>>

(* filled: something was written to the bytes of the cell.                 *)
Cell(v) == [data |-> v, filled |-> TRUE]
EmptyCell == [data |-> << >>, filled |-> FALSE]

Put(f, x, v) == [y \in DOMAIN f \cup {x} |-> IF y = x THEN v ELSE f[y]]

(* insert of a protobuf map: the first entry of a name stays.              *)
Insert(f, x, v) == IF x \in DOMAIN f THEN f ELSE Put(f, x, v)

PoolInit ==
  /\ const_data = << >> /\ const_data_info = << >>
  /\ const_lazy = << >> /\ closures = << >>

create_const(n, v) ==
  /\ const_data' = Append(const_data, Cell(v))
  /\ const_data_info' = Insert(const_data_info, n, Len(const_data) + 1)
  /\ UNCHANGED <<const_lazy, closures>>

Closure(source, order) == [source |-> source, order |-> order, pending |-> TRUE]

LazyConstAtTheEnd(n, source, order) ==
  /\ const_data' = Append(const_data, EmptyCell)
  /\ const_data_info' = Insert(const_data_info, n, Len(const_data))
  /\ closures' = Append(closures, Closure(source, order))
  /\ const_lazy' = Put(const_lazy, n, Len(closures) + 1)
create_lazy_const(n, source, order) ==
  /\ const_data' = Append(const_data, EmptyCell)
  /\ const_data_info' = Insert(const_data_info, n, Len(const_data) + 1)
  /\ closures' = Append(closures, Closure(source, order))
  /\ const_lazy' = Put(const_lazy, n, Len(closures) + 1)

AliasOfCellOnly(alias, n) ==
  /\ const_data_info' = Insert(const_data_info, alias, const_data_info[n])
  /\ UNCHANGED <<const_data, const_lazy, closures>>
create_const_alias(alias, n) ==
  /\ const_data_info' = Insert(const_data_info, alias, const_data_info[n])
  /\ const_lazy' = IF n \in DOMAIN const_lazy
                   THEN Put(const_lazy, alias, const_lazy[n]) ELSE const_lazy
  /\ UNCHANGED <<const_data, closures>>

-----------------------------------------------------------------------------
Pending(n) == n \in DOMAIN const_lazy /\ closures[const_lazy[n]].pending
Source(n) == closures[const_lazy[n]].source

(* What get_const_data_ptr returns, closures of closures included.         *)
Fetched(n) ==
  LET data[m \in DOMAIN const_data_info] ==
        IF Pending(m) THEN Transposed(data[Source(m)], closures[const_lazy[m]].order)
        ELSE const_data[const_data_info[m]].data
  IN  data[n]

(* The lazy constants that asking for n evaluates.                         *)
Forced(n) ==
  LET names == DOMAIN const_data_info
      reads == {<<m, Source(m)>> : m \in {m \in names : Pending(m)}}
  IN  {m \in names : Pending(m) /\ m \in Searched({n}, reads, names)}

get_const_data(n) ==
  LET forced == Forced(n)
  IN  /\ const_data' = [i \in DOMAIN const_data |->
           IF \E m \in forced : const_data_info[m] = i
           THEN Cell(Fetched(CHOOSE m \in forced : const_data_info[m] = i))
           ELSE const_data[i]]
      /\ closures' = [c \in DOMAIN closures |->
           IF \E m \in forced : const_lazy[m] = c
           THEN [closures[c] EXCEPT !.pending = FALSE] ELSE closures[c]]
      /\ UNCHANGED <<const_data_info, const_lazy>>

-----------------------------------------------------------------------------
(* Asking for the data of a constant ends and finds data: what its closure *)
(* reads was created before it, down to a cell that is filled.             *)
Fetchable(n) ==
  /\ n \in DOMAIN const_data_info
  /\ IF Pending(n)
     THEN /\ Source(n) \in DOMAIN const_data_info
          /\ const_data_info[Source(n)] < const_data_info[n]
     ELSE const_data[const_data_info[n]].filled

(* Data of a constant, once there, is never written again, neither by a    *)
(* constant created later nor by the closure of another one.               *)
CellsStay ==
  [][\A i \in DOMAIN const_data :
       const_data[i].filled => i \in DOMAIN const_data' /\ const_data'[i] = const_data[i]]_poolVars
=============================================================================
