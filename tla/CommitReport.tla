---------------------------- MODULE CommitReport ----------------------------
(***************************************************************************)
(* From `git commit` to the report of the commit.  Git starts the          *)
(* post-commit hook, a background shell that waits, runs `git-ai           *)
(* post-commit` and `git-ai stats` and posts the report with curl; the     *)
(* extension's CommitWatcher sees HEAD change, runs post-commit too, and   *)
(* uploads the report itself where git will not run the hook.  The         *)
(* execution-log watcher leaves its count of deleted lines in a file.      *)
(*                                                                         *)
(* A commit is the number of the move of HEAD that made it; commit 0 was   *)
(* there before.  A step of a hook is one command of the script.           *)
(***************************************************************************)
EXTENDS Integers, SequencesExt

CONSTANTS
  Subjects,  \* the subjects of the reflog: what git did, and which of the
             \* hook's patterns is found in it first
  MaxMoves,  \* bound on moves of HEAD
  MaxFaults, \* bound on failed commands and requests
  MaxCounts, \* bound on counts of deletions the execution-log watcher writes
  NoSha      \* no commit

ASSUME BoundsAssumption == MaxMoves \in Nat \ {0} /\ {MaxFaults, MaxCounts} \subseteq Nat /\ NoSha \notin Nat

\* What git did; "picked" is `git commit` in a cherry-pick that had stopped.
Kinds == {"commit", "amend", "pick", "picked", "revert", "other"}
Local == {"commit", "amend", "picked"}         \* subjects that start with "commit"
Patterns == {"pick", "amend", "nothing"}

\* A subject ends with the message of its commit: any may say "cherry-pick" or
\* "commit (amend)", but git's own words are always there.
ASSUME SubjectsAssumption ==
  /\ Subjects \subseteq [kind : Kinds, says : Patterns]
  /\ \A s \in Subjects : /\ s.kind = "amend" => s.says # "nothing"
                        /\ s.kind \in {"pick", "picked"} => s.says = "pick"

Moves == 1 .. MaxMoves
Shas == 0 .. MaxMoves
Entries == [kind : Kinds, says : Patterns, sha : Shas]  \* of the reflog

VARIABLES
  effective,  \* git runs the hook: isPostCommitHookEffective
  flock,      \* the machine of such a hook has flock
  reflog,     \* the moves of HEAD, the newest last
  netDel,     \* kiro_net_deletions: the HEAD its count is relative to
  note,       \* refs/notes/ai: the commit whose working log a note is built from
  lock,       \* the hook that holds post-commit.lock
  payload,    \* .payload.tmp, shared by all hooks
  pc,         \* of the hook of a move: its next command
  sha,        \* COMMIT_SHA
  old,        \* --amend-from
  from,       \* the note behind STATS
  del,        \* the count behind AI_DEL
  polled,     \* the HEAD a refresh of VS Code's git extension has read
  lastHead,   \* lastKnownHead; NoSha: skipFirst
  seen,       \* uploadedCommits
  task,       \* of a commit: the next step of the extension's async function
  killed,     \* git-ai processes hit by the pkill of a hook
  reports,    \* what the service has received
  crowded,    \* history: commits whose hook shared its time with another move
  overtaken,  \* history: commits HEAD left before the extension saw them
  slipped,    \* history: commits noted by the extension while a hook amends
  strays,     \* history: counts left behind by a hook that ended early or by a
              \* move without one, or written while a hook still ran
  failed,     \* history: commits with a failed command or request
  faults,     \* failures so far
  counts      \* counts of deletions so far

machine == <<effective, flock>>
files == <<netDel, note, payload>>
hooks == <<lock, pc, sha, old, from, del>>
extension == <<polled, lastHead, seen, task>>
history == <<crowded, overtaken, slipped, strays, failed, faults, counts>>
vars == <<effective, flock, reflog, netDel, note, payload, lock, pc, sha, old, from,
          del, polled, lastHead, seen, task, killed, reports, crowded, overtaken,
          slipped, strays, failed, faults, counts>>

Steps == {"none", "head", "lock", "reflog", "original", "post", "write", "stats",
          "clear", "curl", "cleanup", "done"}
Report == [body : Shas, from : Shas \cup {NoSha}, del : Shas \cup {NoSha}]
NoPayload == [body |-> NoSha]

HEAD == Last(reflog).sha
Made(c) == c < Len(reflog)
Kind(c) == reflog[c + 1].kind
Says(c) == reflog[c + 1].says
Before(c) == reflog[c].sha          \* HEAD when commit c was made
Busy == {h \in Moves : pc[h] \notin {"none", "done"}}

GitTyped ==
  /\ effective \in BOOLEAN /\ flock \in BOOLEAN
  /\ reflog \in Seq(Entries) /\ Len(reflog) \in 1 .. MaxMoves + 1
FilesTyped ==
  /\ netDel \in Shas \cup {NoSha}
  /\ note \in [Shas -> Shas \cup {NoSha}]
  /\ payload \in Report \cup {NoPayload}
HooksTyped ==
  /\ pc \in [Moves -> Steps]
  /\ sha \in [Moves -> Shas \cup {NoSha}] /\ old \in [Moves -> Shas \cup {NoSha}]
  /\ from \in [Moves -> Shas \cup {NoSha}] /\ del \in [Moves -> Shas \cup {NoSha}]
  /\ \A h \in Moves : pc[h] # "none" => h < Len(reflog)
  /\ \A h \in Moves : pc[h] \notin {"none", "head", "done"} => sha[h] \in Shas
LockIsExclusive ==
  /\ lock \in Moves \cup {NoSha}
  /\ flock => \A h \in Moves : lock = h <=> pc[h] \notin {"none", "head", "lock", "done"}
ExtensionTyped ==
  /\ polled \in Shas \cup {NoSha} /\ lastHead \in Shas \cup {NoSha} /\ seen \subseteq Shas
  /\ task \in [Shas -> {"none", "post", "write", "upload", "done"}]
HistoryTyped ==
  /\ killed \subseteq {"post", "stats", "task"} \X Shas
  /\ reports \subseteq [key : Shas, body : Shas, from : Shas \cup {NoSha}, del : Shas \cup {NoSha}]
  /\ crowded \subseteq Shas /\ overtaken \subseteq Shas /\ slipped \subseteq Shas
  /\ strays \subseteq Shas /\ failed \subseteq Shas
  /\ faults \in 0 .. MaxFaults /\ counts \in 0 .. MaxCounts

\* Every variable keeps its type, a hook runs only for a move that was made,
\* and under flock exactly the hook past the lock holds it.
TypeOK ==
  GitTyped /\ FilesTyped /\ HooksTyped /\ LockIsExclusive /\ ExtensionTyped /\ HistoryTyped

Init ==
  /\ effective \in BOOLEAN /\ flock \in BOOLEAN /\ (flock => effective)
  /\ reflog = <<[kind |-> "commit", says |-> "nothing", sha |-> 0]>>
  /\ netDel = NoSha /\ note = [c \in Shas |-> IF c = 0 THEN 0 ELSE NoSha]
  /\ lock = NoSha /\ payload = NoPayload
  /\ pc = [h \in Moves |-> "none"]
  /\ sha = [h \in Moves |-> NoSha] /\ old = sha /\ from = sha /\ del = sha
  /\ polled = NoSha /\ task = [c \in Shas |-> "none"]
  /\ \/ lastHead = 0 /\ seen = {0}
     \/ lastHead = NoSha /\ seen = {}
  /\ killed = {} /\ reports = {}
  /\ crowded = {} /\ overtaken = {} /\ slipped = {} /\ strays = {}
  /\ failed = {} /\ faults = 0 /\ counts = 0

----------------------------------------------------------------------------
\* Git and Kiro (outside the program).

\* Commits the extension may not get to see once HEAD moves on.
Unnoticed == {c \in Moves : Made(c) /\ c \notin seen}

\* HEAD moves: a commit, an amend, a cherry-pick, a revert, or a pull, merge,
\* checkout or reset, which start no post-commit hook.
Move(kind, says, to) ==
  LET n == Len(reflog) IN
  /\ n <= MaxMoves
  /\ IF kind = "other" THEN to \in 0 .. n /\ to # HEAD ELSE to = n
  /\ reflog' = Append(reflog, [kind |-> kind, says |-> says, sha |-> to])
  /\ pc' = IF effective /\ kind # "other" THEN [pc EXCEPT ![n] = "head"] ELSE pc
  /\ crowded' = crowded \cup Busy \cup (IF Busy # {} THEN {to} ELSE {})
  /\ overtaken' = overtaken \cup Unnoticed \cup (IF lastHead = NoSha THEN {n} ELSE {})
  /\ strays' = IF kind = "other" THEN strays \cup ({netDel} \ {NoSha}) ELSE strays
  /\ UNCHANGED <<lock, sha, old, from, del, slipped, failed, faults, counts, killed, reports>>
  /\ UNCHANGED <<machine, files, extension>>

\* The execution-log watcher replaces the count with the lines Kiro has
\* deleted since HEAD.
CountDeletions ==
  /\ netDel # HEAD /\ counts < MaxCounts /\ counts' = counts + 1
  /\ netDel' = HEAD
  /\ strays' = IF Busy # {} THEN strays \cup {HEAD} ELSE strays
  /\ UNCHANGED <<reflog, note, payload, killed, reports>>
  /\ UNCHANGED <<crowded, overtaken, slipped, failed, faults>>
  /\ UNCHANGED <<machine, hooks, extension>>

----------------------------------------------------------------------------
\* The hook.

Goto(h, step) == pc' = [pc EXCEPT ![h] = step]

End_KeepsLock(h) ==  \* the lock of a hook that ends early stays
  /\ Goto(h, "done")
  /\ lock' = IF pc[h] = "cleanup" /\ lock = h THEN NoSha ELSE lock
  /\ sha' = [sha EXCEPT ![h] = NoSha] /\ old' = [old EXCEPT ![h] = NoSha]
  /\ from' = [from EXCEPT ![h] = NoSha] /\ del' = [del EXCEPT ![h] = NoSha]
  /\ strays' = IF pc[h] # "cleanup" THEN strays \cup ({netDel} \ {NoSha}) ELSE strays

\* A hook that ends releases its lock; the count it has not removed stays.
End(h) ==
  /\ Goto(h, "done")
  /\ lock' = IF lock = h THEN NoSha ELSE lock
  /\ sha' = [sha EXCEPT ![h] = NoSha] /\ old' = [old EXCEPT ![h] = NoSha]
  /\ from' = [from EXCEPT ![h] = NoSha] /\ del' = [del EXCEPT ![h] = NoSha]
  /\ strays' = IF pc[h] # "cleanup" THEN strays \cup ({netDel} \ {NoSha}) ELSE strays

\* COMMIT_SHA is whatever HEAD is when the background shell gets to run.
ReadHead(h) ==
  /\ pc[h] = "head"
  /\ sha' = [sha EXCEPT ![h] = HEAD]
  /\ Goto(h, "lock")
  /\ UNCHANGED <<reflog, lock, old, from, del, killed, reports>>
  /\ UNCHANGED <<machine, files, extension, history>>

TakeLock_Ignored(h) ==  \* a held lock no reason to stop
  /\ pc[h] = "lock"
  /\ lock' = IF flock THEN h ELSE lock
  /\ Goto(h, "reflog")
  /\ UNCHANGED <<reflog, sha, old, from, del, killed, reports>>
  /\ UNCHANGED <<machine, files, extension, history>>

\* flock -n: a hook that finds the lock taken exits; without flock none waits.
TakeLock(h) ==
  /\ pc[h] = "lock"
  /\ \/ flock /\ lock # NoSha /\ End(h)
     \/ /\ flock => lock = NoSha
        /\ lock' = IF flock THEN h ELSE lock
        /\ Goto(h, "reflog") /\ UNCHANGED <<sha, old, from, del, strays>>
  /\ UNCHANGED <<reflog, killed, reports, crowded, overtaken, slipped, failed, faults, counts>>
  /\ UNCHANGED <<machine, files, extension>>

\* Two seconds later: what the subject of HEAD's last move says by now.  The
\* patterns match anywhere in it, the commit's own message included.
ReadReflog(h) ==
  /\ pc[h] = "reflog"
  /\ \/ Last(reflog).says = "pick" /\ End(h)
     \/ /\ Last(reflog).says # "pick"
        /\ Goto(h, IF Last(reflog).says = "amend" THEN "original" ELSE "post")
        /\ UNCHANGED <<lock, sha, old, from, del, strays>>
  /\ UNCHANGED <<reflog, killed, reports, crowded, overtaken, slipped, failed, faults, counts>>
  /\ UNCHANGED <<machine, files, extension>>

ReadOriginal_KeepsNote(h) ==  \* a note the amend has by now is left there
  /\ pc[h] = "original"
  /\ old' = [old EXCEPT ![h] = reflog[Len(reflog) - 1].sha]
  /\ Goto(h, "post")
  /\ UNCHANGED <<reflog, lock, sha, from, del, killed, reports>>
  /\ UNCHANGED <<machine, files, extension, history>>

\* HEAD@{1} is taken for the amended commit, and a note the amend may have is
\* removed: post-commit would skip a commit that has one.
ReadOriginal(h) ==
  LET original == reflog[Len(reflog) - 1].sha IN
  /\ pc[h] = "original"
  /\ \/ original = sha[h] /\ UNCHANGED <<old, note>>
     \/ /\ original # sha[h]
        /\ old' = [old EXCEPT ![h] = original]
        /\ note' = [note EXCEPT ![sha[h]] = NoSha]
  /\ Goto(h, "post")
  /\ UNCHANGED <<reflog, lock, sha, from, del, netDel, payload, killed, reports>>
  /\ UNCHANGED <<machine, extension, history>>

Fault(c) == faults < MaxFaults /\ faults' = faults + 1 /\ failed' = failed \cup {c}

\* git-ai post-commit looks whether the commit has a note ...
Unnoted(c) == note[c] = NoSha

PostCommit(h) ==
  /\ pc[h] = "post"
  /\ \/ /\ <<"post", h>> \notin killed
        /\ Goto(h, IF Unnoted(sha[h]) THEN "write" ELSE "stats")
        /\ UNCHANGED <<failed, faults>>
     \/ <<"post", h>> \in killed /\ Goto(h, "stats") /\ UNCHANGED <<failed, faults>>
     \/ Fault(sha[h]) /\ Goto(h, "stats")
  /\ UNCHANGED <<reflog, lock, sha, old, from, del, killed, reports>>
  /\ UNCHANGED <<crowded, overtaken, slipped, strays, counts>>
  /\ UNCHANGED <<machine, files, extension>>

\* ... and writes one, over whatever is there by then (notes add -f).  A
\* failure of post-commit, and a kill, are ignored (|| true).
WriteNote(h) ==
  LET base == IF old[h] = NoSha THEN sha[h] ELSE old[h] IN
  /\ pc[h] = "write"
  /\ Goto(h, "stats")
  /\ \/ <<"post", h>> \notin killed /\ note' = [note EXCEPT ![sha[h]] = base] /\ UNCHANGED <<failed, faults>>
     \/ <<"post", h>> \in killed /\ UNCHANGED <<note, failed, faults>>
     \/ Fault(sha[h]) /\ UNCHANGED note
  /\ UNCHANGED <<reflog, lock, sha, old, from, del, netDel, payload, killed, reports>>
  /\ UNCHANGED <<crowded, overtaken, slipped, strays, counts>>
  /\ UNCHANGED <<machine, extension>>

\* Without statistics (git-ai failed or was killed) the hook exits; with them
\* it goes on to read the count of deletions.
Stats(h) ==
  /\ pc[h] = "stats"
  /\ \/ /\ <<"stats", h>> \notin killed
        /\ from' = [from EXCEPT ![h] = note[sha[h]]]
        /\ del' = [del EXCEPT ![h] = netDel]
        /\ Goto(h, "clear") /\ UNCHANGED <<lock, sha, old, strays, failed, faults>>
     \/ <<"stats", h>> \in killed /\ End(h) /\ UNCHANGED <<failed, faults>>
     \/ Fault(sha[h]) /\ End(h)
  /\ UNCHANGED <<reflog, killed, reports, crowded, overtaken, slipped, counts>>
  /\ UNCHANGED <<machine, files, extension>>

WritePayload_KeepsCount(h) ==  \* the count of deletions not removed
  /\ pc[h] = "clear"
  /\ payload' = [body |-> sha[h], from |-> from[h], del |-> del[h]]
  /\ Goto(h, "curl")
  /\ UNCHANGED <<reflog, lock, sha, old, from, del, netDel, note, killed, reports>>
  /\ UNCHANGED <<machine, extension, history>>

\* The count is removed and the payload written to the shared file.
WritePayload(h) ==
  /\ pc[h] = "clear"
  /\ netDel' = NoSha
  /\ payload' = [body |-> sha[h], from |-> from[h], del |-> del[h]]
  /\ Goto(h, "curl")
  /\ UNCHANGED <<reflog, lock, sha, old, from, del, note, killed, reports>>
  /\ UNCHANGED <<machine, extension, history>>

\* One request, with whatever the payload file holds; its failure is ignored.
Curl(h) ==
  /\ pc[h] = "curl"
  /\ \/ /\ reports' = IF payload = NoPayload THEN reports
                      ELSE reports \cup {[key |-> sha[h], body |-> payload.body,
                                          from |-> payload.from, del |-> payload.del]}
        /\ UNCHANGED <<failed, faults>>
     \/ Fault(sha[h]) /\ UNCHANGED reports
  /\ Goto(h, "cleanup")
  /\ UNCHANGED <<reflog, lock, sha, old, from, del, killed>>
  /\ UNCHANGED <<crowded, overtaken, slipped, strays, counts>>
  /\ UNCHANGED <<machine, files, extension>>

\* The git-ai processes that run: of other hooks, and of the extension.
Running(h) ==
  {<<IF pc[k] = "stats" THEN "stats" ELSE "post", k>> :
     k \in {k \in Moves \ {h} : pc[k] \in {"post", "write", "stats"}}}
  \cup {<<"task", c>> : c \in {c \in Shas : task[c] \in {"post", "write"}}}

\* The payload file goes, and pkill -x git-ai hits any git-ai that runs.
Cleanup(h) ==
  /\ pc[h] = "cleanup"
  /\ payload' = NoPayload
  /\ \E hit \in SUBSET Running(h) :
       killed' = killed \cup hit
  /\ End(h)
  /\ UNCHANGED <<reflog, netDel, note, reports, crowded, overtaken, slipped, failed, faults, counts>>
  /\ UNCHANGED <<machine, extension>>

----------------------------------------------------------------------------
\* The extension.

\* VS Code's git extension runs git to learn HEAD (outside the program) ...
Poll ==
  /\ polled = NoSha /\ HEAD # lastHead
  /\ polled' = HEAD
  /\ UNCHANGED <<reflog, lastHead, seen, task, killed, reports>>
  /\ UNCHANGED <<machine, files, hooks, history>>

\* ... and raises onDidChange.  A new HEAD counts as handled before the reflog
\* says whether it is a local commit.
Observe(c) ==
  /\ polled = c /\ polled' = NoSha
  /\ lastHead' = c
  /\ seen' = IF c = lastHead THEN seen ELSE seen \cup {c}
  /\ task' = IF lastHead \in Shas \ {c} /\ c \notin seen /\ Last(reflog).kind \in Local
               THEN [task EXCEPT ![c] = "post"] ELSE task
  /\ UNCHANGED <<reflog, killed, reports>>
  /\ UNCHANGED <<machine, files, hooks, history>>

\* A hook that amends has yet to look for a note of c, or to read its own.
InHook(c) ==
  \E h \in Moves : pc[h] \in {"post", "stats"} /\ sha[h] = c /\ old[h] # NoSha

AfterPostCommit == IF effective THEN "done" ELSE "upload"

RunPostCommit_Empty(c) ==  \* left to `git-ai stats`, as the code once did
  /\ task[c] = "post"
  /\ task' = [task EXCEPT ![c] = AfterPostCommit]
  /\ UNCHANGED <<reflog, polled, lastHead, seen, killed, reports>>
  /\ UNCHANGED <<machine, files, hooks, history>>

\* runPostCommit: the same program, started for a commit that the hook may be
\* at too.  Any outcome, the 30 s limit included, leads on.
RunPostCommit(c) ==
  /\ task[c] = "post"
  /\ \/ /\ <<"task", c>> \notin killed
        /\ task' = [task EXCEPT ![c] = IF Unnoted(c) THEN "write" ELSE AfterPostCommit]
        /\ UNCHANGED <<failed, faults>>
     \/ /\ <<"task", c>> \in killed
        /\ task' = [task EXCEPT ![c] = AfterPostCommit] /\ UNCHANGED <<failed, faults>>
     \/ Fault(c) /\ task' = [task EXCEPT ![c] = AfterPostCommit]
  /\ UNCHANGED <<reflog, polled, lastHead, seen, killed, reports>>
  /\ UNCHANGED <<crowded, overtaken, slipped, strays, counts>>
  /\ UNCHANGED <<machine, files, hooks>>

WriteOwnNote(c) ==
  /\ task[c] = "write"
  /\ task' = [task EXCEPT ![c] = AfterPostCommit]
  /\ \/ /\ <<"task", c>> \notin killed
        /\ note' = [note EXCEPT ![c] = c]
        /\ slipped' = IF InHook(c) THEN slipped \cup {c} ELSE slipped
        /\ UNCHANGED <<failed, faults>>
     \/ <<"task", c>> \in killed /\ UNCHANGED <<note, slipped, failed, faults>>
     \/ Fault(c) /\ UNCHANGED <<note, slipped>>
  /\ UNCHANGED <<reflog, netDel, payload, polled, lastHead, seen, killed, reports>>
  /\ UNCHANGED <<crowded, overtaken, strays, counts>>
  /\ UNCHANGED <<machine, hooks>>

\* uploadCommitStats: its own payload, without Kiro's deletions.
UploadCommitStats(c) ==
  /\ task[c] = "upload"
  /\ task' = [task EXCEPT ![c] = "done"]
  /\ \/ /\ reports' = reports \cup {[key |-> c, body |-> c, from |-> note[c], del |-> NoSha]}
        /\ UNCHANGED <<failed, faults>>
     \/ Fault(c) /\ UNCHANGED reports
  /\ UNCHANGED <<reflog, polled, lastHead, seen, killed>>
  /\ UNCHANGED <<crowded, overtaken, slipped, strays, counts>>
  /\ UNCHANGED <<machine, files, hooks>>

HookStep(h) ==
  \/ ReadHead(h) \/ TakeLock(h) \/ ReadReflog(h) \/ ReadOriginal(h) \/ PostCommit(h)
  \/ WriteNote(h) \/ Stats(h) \/ WritePayload(h) \/ Curl(h) \/ Cleanup(h)
TaskStep(c) == RunPostCommit(c) \/ WriteOwnNote(c) \/ UploadCommitStats(c)

Next ==
  \/ \E s \in Subjects, to \in Shas : Move(s.kind, s.says, to)
  \/ CountDeletions
  \/ \E h \in Moves : HookStep(h)
  \/ Poll \/ \E c \in Shas : Observe(c) \/ TaskStep(c)

\* The system runs every hook, VS Code refreshes and delivers its events.
Fairness ==
  /\ \A h \in Moves : WF_vars(HookStep(h))
  /\ WF_vars(Poll) /\ \A c \in Shas : WF_vars(Observe(c)) /\ WF_vars(TaskStep(c))

Spec == Init /\ [][Next]_vars
FairSpec == Spec /\ Fairness

----------------------------------------------------------------------------
\* What the code promises.

\* A commit had the reporter to itself: HEAD did not move on, or come back to
\* it, while a hook ran, or before the extension saw it where that reports.
Quiet(c) == c \in Moves \ (IF effective THEN crowded ELSE overtaken)
LocalCommit(c) == Made(c) /\ Kind(c) \in Local
LeftOut(c) == Made(c) /\ Says(c) = "pick"   \* by the hook

\* Under the lock a report carries the numbers of the commit it is filed
\* under, although all hooks share one payload file.
ReportsAreOwn == flock => \A r \in reports : r.body = r.key

\* The report of a quiet commit is computed from the note the hook's reading of
\* its subject calls for: on the log of the commit before it if that says
\* "commit (amend)", on its own otherwise; and one that says "cherry-pick" is
\* left out.  Only the extension writing its note in the middle of an amending
\* hook changes that.
QuietReportIsExact ==
  \A r \in reports : Quiet(r.key) /\ r.key \notin failed \cup slipped =>
    /\ Made(r.key)
    /\ IF effective THEN Kind(r.key) # "other" /\ ~LeftOut(r.key) ELSE Kind(r.key) \in Local
    /\ r.from = IF effective /\ Says(r.key) = "amend" THEN Before(r.key) ELSE r.key

\* The deletions in a quiet commit's report were counted against the HEAD it
\* was made on, unless the file was left by another commit or written early.
DeletionsAreOwn ==
  \A r \in reports : Quiet(r.key) /\ r.del \notin strays \cup {NoSha} =>
    r.del = Before(r.key)

\* Under the lock deletions counted against one HEAD are in the reports of one
\* commit only, unless HEAD came back to it, the count was left behind by a hook
\* that ended early, or it was made while one ran.
VisitedOnce(c) ==
  \A i, j \in DOMAIN reflog : reflog[i].sha = c /\ reflog[j].sha = c => i = j
DeletionsCountedOnce ==
  flock => \A r, s \in reports :
    r.del = s.del /\ r.del \notin strays \cup {NoSha} /\ VisitedOnce(r.del) => r.body = s.body

\* A quiet commit is reported, by the hook or by the extension, unless one of
\* its own commands or requests fails or it says "cherry-pick" to the hook.
Reported(c) == \E r \in reports : r.key = c
QuietCommitIsReported ==
  \A c \in Moves : LocalCommit(c) ~>
    \/ Reported(c) \/ ~Quiet(c) \/ c \in failed
    \/ effective /\ LeftOut(c)

\* Hook and extension back each other up: a commit stays without a note only
\* if both missed it, or one missed it and the other was killed.  The hook
\* misses one that another hook or move disturbs or that says "cherry-pick".
Killed(c) == <<"task", c>> \in killed \/ (~flock /\ \E h \in Moves : <<"post", h>> \in killed)
HookMisses(c) == ~Quiet(c) \/ LeftOut(c)
EveryCommitNoted ==
  \A c \in Moves : LocalCommit(c) ~>
    \/ ~Unnoted(c) \/ c \in failed
    \/ HookMisses(c) /\ (c \in overtaken \/ Killed(c))
=============================================================================
