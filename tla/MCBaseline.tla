----------------------------- MODULE MCBaseline -----------------------------
(* Three records of three chunks: old, new, and one that comes after.       *)
EXTENDS Baseline
=============================================================================
