------------------------------- MODULE MCChat -------------------------------
(* A question about two memories, and what a model may write of them. *)
EXTENDS Chat, TLC

CONSTANTS one, two

Says == {Plain, [as |-> "id", of |-> one], [as |-> "link", of |-> one],
         [as |-> "page", of |-> two]}
=============================================================================
