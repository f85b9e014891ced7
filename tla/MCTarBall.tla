----------------------------- MODULE MCTarBall -----------------------------
(* Instances of TarBall for TLC: blocks of 2 bytes, names of up to 2       *)
(* characters in the header, and an int that counts 2 blocks.              *)
EXTENDS TarBall, FiniteSets

CONSTANTS a, b, long

MCNames == {a, b, long}
MCNameSize == [n \in MCNames |-> IF n = long THEN 3 ELSE 1]

\* Sequences of up to three files with different names, in the order of names.
Sizes == 0..5
Entries(n) == [name : {n}, size : Sizes]
OneOf(n) == {<<e>> : e \in Entries(n)}
TwoOf(m, n) == {<<e, f>> : e \in Entries(m), f \in Entries(n)}
MCSources ==
  UNION {{<<>>}, OneOf(a), OneOf(long), TwoOf(a, b), TwoOf(a, long), TwoOf(long, a),
         {<<e, f, g>> : e \in Entries(a), f \in Entries(long), g \in Entries(b)}}

\* Three files with long names, one of them empty.
MCLongSources == {<<[name |-> long, size |-> s]>> : s \in 0..2}
=============================================================================
