----------------------------- MODULE MCClearAll -----------------------------
(* ClearAll on small instances: one or two clears and two runs of collector. *)
EXTENDS ClearAll
=============================================================================
