----------------------------- MODULE MCLevel1DD -----------------------------
(* Small instances of Level1DD.                                            *)
EXTENDS Level1DD

\* Once the nodes are labelled, nothing reads the order and the loop variables
\* of the partitioner again: states that differ in them only are one.
MCView ==
  IF phase \in {"labelled", "fuse", "check_failed"}
  THEN <<edges, property, phase, labels, clusters, fuseVars, clone, clusters_to_fuse>>
  ELSE ddVars
=============================================================================
