------------------------ MODULE MCPermissionRecovery ------------------------
(***************************************************************************)
(* Model checking of PermissionRecovery: three heights on two branches,    *)
(* blocks of different lengths, any number of crashes.                     *)
(***************************************************************************)
EXTENDS PermissionRecovery, TLC

Symmetry == Permutations(Branches)
=============================================================================
