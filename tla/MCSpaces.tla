------------------------------ MODULE MCSpaces ------------------------------
(* An owner and two guests, one of them with a memory. *)
EXTENDS Spaces, TLC

CONSTANTS owner, guest1, guest2, theirs

MCOwnerOf == theirs :> guest1
Symmetric == Permutations(Requests)
=============================================================================
