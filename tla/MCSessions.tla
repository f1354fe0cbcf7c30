----------------------------- MODULE MCSessions -----------------------------
(* Two people share a browser with two tabs. *)
EXTENDS Sessions, TLC

Symmetric == Permutations(Requests) \cup Permutations(Users)
=============================================================================
