----------------------------- MODULE MCTelegram -----------------------------
(* Two people with a chat each, one of them linked. *)
EXTENDS Telegram, TLC

CONSTANTS ann, bob, t1, t2, k1, k2, o1

OneLinked == {<<t1, k1>>}
OneCard == {<<t1, o1>>}
AnnHolds == k1 :> ann
Symmetric == {p @@ q : p \in Permutations(Workers), q \in Permutations(Updates)}
=============================================================================
