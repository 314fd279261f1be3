--------------------------- MODULE MCCommitReport ---------------------------
EXTENDS CommitReport

Subject(kind, pattern) == [kind |-> kind, says |-> pattern]

\* What git writes for a move, with a message that says nothing to the hook ...
Quietly == {Subject("commit", "nothing"), Subject("amend", "amend"), Subject("other", "nothing")}
WithPicks == Quietly \cup {Subject("pick", "pick")}
\* ... commits whose message speaks of an amend or of a cherry-pick, one that
\* concludes a cherry-pick, and a revert.
Speaking ==
  {Subject("commit", "amend"), Subject("commit", "pick"), Subject("picked", "pick"),
   Subject("revert", "nothing")}
Messages == Quietly \cup Speaking

\* Only the hook listens to messages, and a failure excuses the report it is
\* met in: one of the moves may speak, where git runs hooks that have flock, an
\* extension that is awake, and no failure.
Spoken == {i \in DOMAIN reflog' : Subject(reflog'[i].kind, reflog'[i].says) \in Speaking}
Sparingly ==
  Spoken # {} => flock /\ faults' = 0 /\ lastHead # NoSha /\ \A i, j \in Spoken : i = j

\* Hooks alone report deletions: the run about them leaves the extension's
\* watcher asleep, and HEAD moves once less where no lock orders the hooks.
HooksOnlyInit == Init /\ effective /\ lastHead = 0
HooksOnlyStep == UNCHANGED extension /\ (flock \/ Len(reflog') < MaxMoves + 1)
=============================================================================
