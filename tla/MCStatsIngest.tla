--------------------------- MODULE MCStatsIngest ---------------------------
(* Instances of StatsIngest for TLC. *)
EXTENDS StatsIngest, TLC

CONSTANTS r1, r2, r3, r4, k1, k2, repo

\* r1 and r2 report the same commit, r3 another commit that added no lines,
\* r4 carries no header and a body the handler refuses.
MCRequests == {r1, r2, r3, r4}
MCKey == (r1 :> k1) @@ (r2 :> k1) @@ (r3 :> k2) @@ (r4 :> NoKey)
MCKind == (r1 :> "report") @@ (r2 :> "report") @@ (r3 :> "report")
            @@ (r4 :> "incomplete")
MCRepo == [r \in MCRequests |-> repo]
MCLines == (r1 :> 2) @@ (r2 :> 2) @@ (r3 :> 0) @@ (r4 :> 0)
=============================================================================
