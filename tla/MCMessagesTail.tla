--------------------------- MODULE MCMessagesTail ---------------------------
(* An instance of MessagesTail for TLC. *)
EXTENDS MessagesTail, TLC

CONSTANTS r1, r2, a1, a2, k1, k2, raw2

\* Two actions of two lines each.  The repository of the second is not the
\* workspace folder, so the raw key of its action is another one.
MCActions == {a1, a2}
MCCallAt == (a1 :> 1) @@ (a2 :> 2)
MCResultAt == (a1 :> 3) @@ (a2 :> 4)
MCRepoOf == (a1 :> r1) @@ (a2 :> r2)
MCRawKey == (a1 :> k1) @@ (a2 :> raw2)
MCRepoKey == (a1 :> k1) @@ (a2 :> k2)
=============================================================================
