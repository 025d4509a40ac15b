---------------------------- MODULE MCMinerManager ----------------------------
(***************************************************************************)
(* MinerManager for TLC.  Jobs are interchangeable: permuting them is sound *)
(* for the runs that check safety only.                                     *)
(***************************************************************************)
EXTENDS MinerManager, TLC

Symmetry == Permutations(Jobs)
===============================================================================
