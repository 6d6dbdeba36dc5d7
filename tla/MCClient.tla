------------------------------ MODULE MCClient ------------------------------
(***************************************************************************)
(* Small instances of Client: the runs are interchangeable.                *)
(***************************************************************************)
EXTENDS Client, TLC

RunSymmetry == Permutations(Runs)
=============================================================================
