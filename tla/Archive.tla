------------------------------ MODULE Archive ------------------------------
(***************************************************************************)
(* What the archive of an EPContext node promises the session that loads   *)
(* it: the files come back in the order they were stored.  From an intact  *)
(* archive they all come back; a damaged one gives a prefix of them, and   *)
(* the loading session may or may not be told.  Only the file in hand when *)
(* the damage is noticed can be incomplete, or one larger than Limit.  The *)
(* promise ends at the first file that is not Plain: what comes back from  *)
(* there on is anything.                                                   *)
(***************************************************************************)
EXTENDS Naturals, Sequences

CONSTANTS
  Limit,    \* bytes of a file the archive can hold
  Plain(_)  \* is this entry one the promise covers

VARIABLES
  entries,  \* the files stored: their names and sizes
  intact,   \* nothing of the archive is missing
  got,      \* the files restored so far: their names, and are they complete
  outcome   \* of the loading session: "reading", "done" or "threw"

\* Whatever files there are, none has been restored.
Init == intact = TRUE /\ got = <<>> /\ outcome = "reading"

\* The archive loses its end before it is read.
Damage == got = <<>> /\ intact' = FALSE /\ UNCHANGED <<entries, got, outcome>>

\* The next file to restore, and the archive is still being read.
Following == entries[Len(got) + 1]
Reading == outcome = "reading" /\ UNCHANGED <<entries, intact>>

Restore ==
  /\ Reading /\ Len(got) < Len(entries)
  /\ got' = Append(got, [name |-> Following.name,
                         whole |-> Following.size <= Limit])
  /\ UNCHANGED outcome

Stop ==
  /\ Reading /\ outcome' = "done"
  /\ intact => Len(got) = Len(entries)
  /\ UNCHANGED got

Fail ==
  /\ Reading /\ outcome' = "threw"
  /\ ~intact /\ Len(got) < Len(entries)
  /\ got' = Append(got, [name |-> Following.name, whole |-> FALSE])

\* One more file, or none; what has come back stays.
Derail ==
  /\ Reading /\ \E i \in 1..Len(got) + 1 : i <= Len(entries) /\ ~Plain(entries[i])
  /\ Len(got') \in {Len(got), Len(got) + 1}
  /\ SubSeq(got', 1, Len(got)) = got

Next == Damage \/ Restore \/ Stop \/ Fail \/ Derail

Spec == Init /\ [][Next]_<<entries, intact, got, outcome>>
=============================================================================
