---------------------------- MODULE MCUserLogin ----------------------------
(* An instance of UserLogin for TLC. *)
EXTENDS UserLogin, TLC

Symmetry == Permutations(Windows)

\* A host or a hook is killed while the other window sleeps, and time passes
\* once in such a behaviour.
Sleeps(w) == pc'[w] = "idle" /\ last'[w] = 0
Sparingly ==
  faults' = 0 \/ (lapses' <= 1 /\ \E w \in Windows : \A v \in Windows \ {w} : Sleeps(v))
=============================================================================
