-------------------------- MODULE MCExecutionLogs --------------------------
(* Instances of ExecutionLogs for TLC. *)
EXTENDS ExecutionLogs, TLC

CONSTANTS l1, l2, dir, r1, r2, a1, a2, b1, k1, k2, k3, raw2

MCLogs == {l1, l2}
MCDirOf == [l \in MCLogs |-> dir]

\* One log lists an action in each of two repositories; the second repository
\* is not the workspace folder, so the raw key of its action is another one.
\* The other log is of an old session.
MCActions == {a1, a2}
MCLogOf == (a1 :> l1) @@ (a2 :> l1)
MCRepoOf == (a1 :> r1) @@ (a2 :> r2)
MCRawKey == (a1 :> k1) @@ (a2 :> raw2)
MCRepoKey == (a1 :> k1) @@ (a2 :> k2)

\* Two logs, each with an action on a file of its own in the same repository.
TwoActions == {a1, b1}
TwoLogOf == (a1 :> l1) @@ (b1 :> l2)
TwoRepoOf == [a \in TwoActions |-> r1]
TwoKey == (a1 :> k1) @@ (b1 :> k3)
=============================================================================
