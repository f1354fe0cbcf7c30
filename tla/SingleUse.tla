----------------------------- MODULE SingleUse -----------------------------
(***************************************************************************)
(* What a single-use credential promises: it is issued, then spent, and    *)
(* only then acted on, once.  services/chat_engine/proposals.py states it  *)
(* of the tokens behind a card's buttons.                                  *)
(***************************************************************************)
EXTENDS Naturals

CONSTANT Credentials

VARIABLES
    at,     \* how far each credential has come
    deeds   \* the writes made on its authority

vars == <<at, deeds>>

Init ==
    /\ at \in [Credentials -> {"none", "live"}]
    /\ deeds = [c \in Credentials |-> 0]

Issue(c) == at[c] = "none" /\ at' = [at EXCEPT ![c] = "live"] /\ UNCHANGED deeds

\* It was presented, or it expired.
Spend(c) == at[c] = "live" /\ at' = [at EXCEPT ![c] = "gone"] /\ UNCHANGED deeds

Act(c) ==
    /\ at[c] = "gone" /\ deeds[c] = 0
    /\ deeds' = [deeds EXCEPT ![c] = 1]
    /\ UNCHANGED at

Next == \E c \in Credentials : Issue(c) \/ Spend(c) \/ Act(c)

Spec == Init /\ [][Next]_vars
=============================================================================
