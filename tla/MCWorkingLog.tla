---------------------------- MODULE MCWorkingLog ----------------------------
(* Small instances of WorkingLog for TLC. *)
EXTENDS WorkingLog, TLC

Symmetry == Permutations(Commits) \cup Permutations(Edits)
=============================================================================
