--------------------------- MODULE MCConnections ---------------------------
(***************************************************************************)
(* An instance of Connections for TLC: a vault of two memories beside      *)
(* another's single one.                                                   *)
(***************************************************************************)
EXTENDS Connections, TLC

TwoVaults == [i \in Items |-> IF i = 4 THEN "bob" ELSE "ann"]
Symmetry  == Permutations(Callers)
=============================================================================
