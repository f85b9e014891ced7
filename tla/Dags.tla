-------------------------------- MODULE Dags --------------------------------
(***************************************************************************)
(* Directed graphs as a set of nodes and a set of edges <<from, to>>.      *)
(* Reachability and acyclicity are stated with sets of nodes instead of    *)
(* paths: TLC evaluates them on small graphs, and proofs about them need   *)
(* no induction.                                                           *)
(***************************************************************************)

IsClosed(C, E) == \A e \in E : e[1] \in C => e[2] \in C

(* What a depth first search from S along E visits: the least closed set    *)
(* around S.                                                               *)
Reached(S, E, N) ==
  LET closed == {C \in SUBSET N : S \subseteq C /\ IsClosed(C, E)}
  IN  {n \in N : \A C \in closed : n \in C}

(* Every set of nodes has one that no other of them points to.             *)
Acyclic(N, E) ==
  \A S \in SUBSET N : S # {} => \E n \in S : \A m \in S : <<m, n>> \notin E

(* The same step by step, for graphs with more nodes than subsets can be    *)
(* enumerated.                                                             *)
Searched(S, E, N) ==
  LET search[C \in SUBSET N] ==
        LET more == C \cup {e[2] : e \in {e \in E : e[1] \in C}}
        IN  IF more = C THEN C ELSE search[more]
  IN  search[S]

Reversed(E) == {<<e[2], e[1]>> : e \in E}
=============================================================================
