-------------------------- MODULE MCMinerDiversity --------------------------
(***************************************************************************)
(* Model checking of MinerDiversity.                                       *)
(***************************************************************************)
EXTENDS MinerDiversity, TLC

Symmetry == Permutations(Miners)
=============================================================================
