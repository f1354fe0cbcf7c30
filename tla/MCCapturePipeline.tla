-------------------------- MODULE MCCapturePipeline --------------------------
(***************************************************************************)
(* Instances of CapturePipeline for TLC: which optional events each run    *)
(* allows, and how often.                                                  *)
(***************************************************************************)
EXTENDS CapturePipeline, TLC

Allow(crash, timeout, outage, webhook, lookup, reprocess, trash) ==
  [f \in Faults |->
     CASE f = "crash"     -> crash
       [] f = "timeout"   -> timeout
       [] f = "outage"    -> outage
       [] f = "webhook"   -> webhook
       [] f = "lookup"    -> lookup
       [] f = "reprocess" -> reprocess
       [] f = "trash"     -> trash]

\* Columns: crash, timeout, outage, webhook, lookup, reprocess, trash.
InlineAllowance  == Allow(1, 0, 0, 0, 0, 1, 2)
InlineLiveness   == Allow(1, 1, 2, 0, 0, 0, 1)
DeferredLiveness == Allow(0, 1, 0, 1, 1, 0, 1)

Symmetry == Permutations(Workers) \cup Permutations(Runs)
=============================================================================
