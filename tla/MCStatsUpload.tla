--------------------------- MODULE MCStatsUpload ---------------------------
(* Instances of StatsUpload for TLC. *)
EXTENDS StatsUpload, TLC

CONSTANTS u1, u2, k1, k2

\* u2 reports from a checkout at the root of the file system: its repository
\* has no name and the service refuses the report.
TwoUploads == {u1, u2}
TwoKeys == (u1 :> k1) @@ (u2 :> k2)
TwoKinds == (u1 :> "report") @@ (u2 :> "incomplete")
TwoLines == (u1 :> 2) @@ (u2 :> 1)
=============================================================================
