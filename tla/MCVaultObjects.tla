--------------------------- MODULE MCVaultObjects ---------------------------
(***************************************************************************)
(* Instances of VaultObjects for TLC.                                      *)
(***************************************************************************)
EXTENDS VaultObjects, TLC

Symmetry == Permutations(Workers)
=============================================================================
