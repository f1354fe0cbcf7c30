----------------------------- MODULE MCReaders -----------------------------
(* An instance of Readers for TLC. *)
EXTENDS Readers
=============================================================================
