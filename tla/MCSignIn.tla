------------------------------ MODULE MCSignIn ------------------------------
(* One address at three providers: google vouches for it, facebook does when *)
(* it releases it at all, and the third does not.                            *)
EXTENDS SignIn, TLC

CONSTANTS google, facebook, other, address

MCEmail == [i \in {google, facebook, other} |-> address]
MCVouched == {google, facebook}
MCShy == {facebook}
Symmetric == Permutations(UserAgents)
=============================================================================
