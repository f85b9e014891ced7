----------------------------- MODULE RunnerPool -----------------------------
(***************************************************************************)
(* What a custom op with several runners promises: a computation takes one *)
(* of the runners nobody uses and gives it back.  A computation that fails *)
(* may keep its runner for good; nothing else takes one from the pool.     *)
(***************************************************************************)
CONSTANTS Threads, Runners, None

VARIABLES
  pool,  \* runners nobody uses
  uses   \* the runner each thread computes with

Init == pool = Runners /\ uses = [t \in Threads |-> None]

Take(t, r) ==
  /\ uses[t] = None /\ r \in pool
  /\ pool' = pool \ {r}
  /\ uses' = [uses EXCEPT ![t] = r]

Leave(t) == uses[t] # None /\ uses' = [uses EXCEPT ![t] = None]
GiveBack(t) == Leave(t) /\ pool' = pool \union {uses[t]}
Lose(t) == Leave(t) /\ UNCHANGED pool

Next == \E t \in Threads : (\E r \in Runners : Take(t, r)) \/ GiveBack(t) \/ Lose(t)

Spec == Init /\ [][Next]_<<pool, uses>>

\* No two threads compute with the same runner, and none with one that is
\* still in the pool.
Exclusive ==
  /\ pool \subseteq Runners /\ uses \in [Threads -> Runners \union {None}]
  /\ \A t \in Threads : uses[t] # None =>
       uses[t] \notin pool /\ \A u \in Threads \ {t} : uses[u] # uses[t]
=============================================================================
