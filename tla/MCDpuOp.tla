------------------------------ MODULE MCDpuOp ------------------------------
(* Instances of DpuOp for TLC. *)
EXTENDS DpuOp, TLC

CONSTANTS t1, t2, t3

MCOptions == [lazy : BOOLEAN, shared : BOOLEAN]
=============================================================================
