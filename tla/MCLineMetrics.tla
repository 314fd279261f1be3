--------------------------- MODULE MCLineMetrics ---------------------------
(* Instances of LineMetrics for TLC: the bounds are in the .cfg files. *)
EXTENDS LineMetrics
=============================================================================
