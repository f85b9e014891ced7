------------------------------ MODULE OnceCache ------------------------------
(***************************************************************************)
(* What the context cache promises the disk sessions of one process: a     *)
(* register that is written once.  The first session to compile a model    *)
(* decides how many meta_defs the model has; a session is answered with    *)
(* exactly those, or, when its compilation ends in an exception, with no   *)
(* execution provider at all.  The register can be lost: when a session    *)
(* that embeds its cache saves it beside another session, or the process   *)
(* is killed during a save.  Nothing is promised from then on.             *)
(***************************************************************************)
EXTENDS Naturals

CONSTANTS Threads, MaxDefs, None, Lost

VARIABLES
  val,   \* meta_defs the cache holds, None before the first compilation
  res    \* what the last session of each thread was answered

Init == val = None /\ res = [t \in Threads |-> 0]

\* A new session of a thread has no answer yet, and the answers a process had
\* are gone when it dies.
Reset(S) ==
  /\ res' = [t \in Threads |-> IF t \in S THEN 0 ELSE res[t]]
  /\ UNCHANGED val

\* The first compilation ends, completely or in an exception on the way.
Decide == val = None /\ val' \in 0..MaxDefs /\ UNCHANGED res

\* A session is answered with what was decided.
Answer(t) ==
  /\ val \notin {None, Lost}
  /\ res' = [res EXCEPT ![t] = val]
  /\ UNCHANGED val

\* The register is lost, but never before it was written.
Lose == val # None /\ val' = Lost /\ res' \in [Threads -> 0..MaxDefs]

Next ==
  \/ Decide
  \/ Lose
  \/ \E S \in SUBSET Threads : Reset(S)
  \/ \E t \in Threads : Answer(t)

Spec == Init /\ [][Next]_<<val, res>>
=============================================================================
