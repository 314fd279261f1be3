----------------------------- MODULE WorkingLog -----------------------------
(***************************************************************************)
(* The working logs of git-ai: how an AI edit travels from a `git-ai       *)
(* checkpoint` process, through .git/ai/working_logs/<base>/, into the     *)
(* authorship note that a `git-ai post-commit` process attaches to a       *)
(* commit.  Every command is a process of its own; they share the files    *)
(* under .git/ai and the notes ref, and hold no lock.                      *)
(*                                                                         *)
(* An edit is one file an agent wrote; a working log and a note are the    *)
(* sets of edits they credit to the agent.                                 *)
(***************************************************************************)
EXTENDS Naturals, FiniteSets

CONSTANTS
  Commits,     \* commits the developer may create
  Root,        \* the commit HEAD is at when the model starts
  None,        \* no commit
  Edits,       \* edits of the agent; also the `checkpoint` process of each
  Callers,     \* who runs `post-commit`: "hook", "extension"
  NoNote,      \* a commit without an authorship note
  Corrupt,     \* a checkpoints.jsonl with a line that does not parse
  Concurrent,  \* may processes and commits overlap?
  MaxFaults    \* bound on the processes that are killed

Bases == Commits \cup {Root}
Posts == Callers \X Commits
Target(p) == p[2]
Procs == Edits \cup Posts

ASSUME CommitsAssumption == Root \notin Commits /\ None \notin Bases
ASSUME ProcsAssumption == Edits \cap Posts = {}
ASSUME MarksAssumption == \A s \in SUBSET Edits : NoNote # s /\ Corrupt # s
ASSUME ModeAssumption == Concurrent \in BOOLEAN /\ MaxFaults \in Nat

VARIABLES
  head,         \* the commit HEAD points at
  parent, orig, \* the parent of a commit, and the commit it amends
  tree,         \* the edits a commit's tree contains
  disk,         \* the edits in the working directory
  dir,          \* does working_logs/<base> exist?
  checkpoints,  \* working_logs/<base>/checkpoints.jsonl
  initial,      \* working_logs/<base>/INITIAL
  notes,        \* refs/notes/ai
  noted,        \* history: commits that were ever given a note
  pc, base, buf,  \* of a process: its step, its log, its memory
  linked,       \* processes whose open file is still in its directory
  faults        \* processes killed so far

repo == <<head, parent, orig, tree, disk>>
files == <<dir, checkpoints, initial, notes, noted, linked>>
procs == <<pc, base, buf>>
vars == <<head, parent, orig, tree, disk, dir, checkpoints, initial, notes, noted,
          pc, base, buf, linked, faults>>

Steps == {"idle", "scan", "append", "open", "write", "note?", "pre",
          "mutate", "reopen", "rewrite", "build", "note", "initial",
          "delete", "done", "failed"}

\* Every variable keeps its type, and a running process has a log to work on.
TypeOK ==
  /\ head \in Bases
  /\ parent \in [Commits -> Bases \cup {None}]
  /\ orig \in [Commits -> Commits \cup {None}]
  /\ tree \in [Bases -> SUBSET Edits]
  /\ disk \in SUBSET Edits
  /\ dir \in [Bases -> BOOLEAN]
  /\ checkpoints \in [Bases -> (SUBSET Edits) \cup {Corrupt}]
  /\ initial \in [Bases -> SUBSET Edits]
  /\ notes \in [Commits -> (SUBSET Edits) \cup {NoNote}]
  /\ noted \in SUBSET Commits
  /\ pc \in [Procs -> Steps]
  /\ base \in [Procs -> Bases \cup {None}]
  /\ buf \in [Procs -> SUBSET Edits]
  /\ linked \in SUBSET Procs
  /\ faults \in 0 .. MaxFaults
  /\ \A p \in Procs : pc[p] # "idle" => base[p] \in Bases

Init ==
  /\ head = Root
  /\ parent = [c \in Commits |-> None]
  /\ orig = [c \in Commits |-> None]
  /\ tree = [b \in Bases |-> {}]
  /\ disk = {}
  /\ dir = [b \in Bases |-> FALSE]
  /\ checkpoints = [b \in Bases |-> {}]
  /\ initial = [b \in Bases |-> {}]
  /\ notes = [c \in Commits |-> NoNote]
  /\ noted = {}
  /\ pc = [p \in Procs |-> "idle"]
  /\ base = [p \in Procs |-> None]
  /\ buf = [p \in Procs |-> {}]
  /\ linked = {}
  /\ faults = 0

Exists(c) == parent[c] # None
Introduced(c) == tree[c] \ (IF parent[c] = None THEN {} ELSE tree[parent[c]])
Running == {p \in Procs : pc[p] \notin {"idle", "done", "failed"}}

\* The log a commit was made on: its parent's, or the one it amends.
Origin(c) == IF orig[c] = None THEN parent[c] ELSE orig[c]
Handled(c) == \E p \in Posts : Target(p) = c /\ pc[p] = "done" /\ base[p] = Origin(c)

\* Without overlap a process starts when no other runs, and the developer
\* commits what has been checkpointed once HEAD has been handled.
MayStart == Concurrent \/ Running = {}
MayCommit == Concurrent \/ /\ Running = {}
                           /\ \A e \in disk : pc[e] \in {"done", "failed"}
                           /\ head # Root => Handled(head)

----------------------------------------------------------------------------
\* The developer and the agent (outside the program).

Edit(e) ==
  /\ e \notin disk
  /\ disk' = disk \cup {e}
  /\ UNCHANGED <<head, parent, orig, tree, faults>>
  /\ UNCHANGED <<files, procs>>

Commit(c) ==
  /\ ~Exists(c) /\ MayCommit
  /\ \E staged \in SUBSET (disk \ tree[head]) :
       tree' = [tree EXCEPT ![c] = tree[head] \cup staged]
  /\ parent' = [parent EXCEPT ![c] = head]
  /\ head' = c
  /\ UNCHANGED <<orig, disk, faults>>
  /\ UNCHANGED <<files, procs>>

Amend(c) ==
  /\ ~Exists(c) /\ head # Root /\ MayCommit
  /\ \E staged \in SUBSET (disk \ tree[head]) :
       tree' = [tree EXCEPT ![c] = tree[head] \cup staged]
  /\ parent' = [parent EXCEPT ![c] = parent[head]]
  /\ orig' = [orig EXCEPT ![c] = head]
  /\ head' = c
  /\ UNCHANGED <<disk, faults>>
  /\ UNCHANGED <<files, procs>>

----------------------------------------------------------------------------
\* Files.  working_log_for_base_commit creates the directory; fs::write
\* truncates, then writes through the handle it opened.

Goto(p, step) == pc' = [pc EXCEPT ![p] = step]
MakeDir(b) == dir' = [dir EXCEPT ![b] = TRUE]

\* What a second writer leaves: its own lines, or its lines and the tail of
\* a longer text that another process put there after it truncated.
Written(old, new) == IF old = {} THEN {new} ELSE {new, Corrupt}

\* A post-commit run for an amended commit reads the log of the commit it
\* replaces, and goes from its human checkpoint straight to the attributions.
Amends(p) == base[p] = orig[Target(p)]
AfterHuman(p) == IF Amends(p) THEN "build" ELSE "mutate"

OpenLog(p, next, otherwise) ==
  LET b == base[p] IN
  /\ IF dir[b]
       THEN /\ checkpoints' = [checkpoints EXCEPT ![b] = {}]
            /\ linked' = linked \cup {p}
            /\ Goto(p, next)
       ELSE /\ Goto(p, otherwise)
            /\ UNCHANGED <<checkpoints, linked>>
  /\ UNCHANGED <<dir, initial, notes, noted, base, buf, faults>>
  /\ UNCHANGED repo

WriteLog(p, next) ==
  LET b == base[p] IN
  /\ IF p \in linked
       THEN \E text \in Written(checkpoints[b], buf[p]) :
              checkpoints' = [checkpoints EXCEPT ![b] = text]
       ELSE UNCHANGED checkpoints
  /\ linked' = linked \ {p}
  /\ Goto(p, next)
  /\ UNCHANGED <<dir, initial, notes, noted, base, buf, faults>>
  /\ UNCHANGED repo

----------------------------------------------------------------------------
\* git-ai checkpoint agent-v1, for the edit e.

StartCheckpoint(e) ==
  /\ pc[e] = "idle" /\ e \in disk /\ MayStart
  /\ base' = [base EXCEPT ![e] = head]
  /\ MakeDir(head)
  /\ Goto(e, "scan")
  /\ UNCHANGED <<checkpoints, initial, notes, noted, buf, linked, faults>>
  /\ UNCHANGED repo

\* read_all_checkpoints fails on a line that does not parse.  A file whose
\* content is that of HEAD or of the log yields no entry, and the command
\* succeeds.  Otherwise the blob is stored, which recreates the directory.
Scan(e) ==
  LET b == base[e] IN
  /\ pc[e] = "scan"
  /\ IF checkpoints[b] = Corrupt
       THEN Goto(e, "failed") /\ UNCHANGED <<dir, buf>>
       ELSE IF e \in checkpoints[b] \cup tree[b]
              THEN Goto(e, "done") /\ UNCHANGED <<dir, buf>>
              ELSE /\ Goto(e, "append")
                   /\ MakeDir(b)
                   /\ buf' = [buf EXCEPT ![e] = {e}]
  /\ UNCHANGED <<checkpoints, initial, notes, noted, base, linked, faults>>
  /\ UNCHANGED repo

\* append_checkpoint reads the whole log (nothing, if it cannot be parsed),
\* adds its own line and rewrites the file.
AppendRead(p) ==
  LET b == base[p] IN
  /\ pc[p] = "append"
  /\ buf' = [buf EXCEPT ![p] =
              @ \cup (IF checkpoints[b] = Corrupt THEN {} ELSE checkpoints[b])]
  /\ Goto(p, "open")
  /\ UNCHANGED <<base, faults>>
  /\ UNCHANGED <<files, repo>>

AppendOpen(p) ==
  /\ pc[p] = "open"
  /\ OpenLog(p, "write", IF p \in Edits THEN "failed" ELSE AfterHuman(p))

AppendWrite(p) ==
  /\ pc[p] = "write"
  /\ WriteLog(p, IF p \in Edits THEN "done" ELSE AfterHuman(p))

----------------------------------------------------------------------------
\* git-ai post-commit <commit> [--amend-from <original>].

\* The hook recognises an amend from the reflog; it first removes the note the
\* commit may already have, and its INITIAL.  The extension names no original.
StartPost(p) ==
  LET c == Target(p)
      amends == p[1] = "hook" /\ orig[c] # None IN
  /\ pc[p] = "idle" /\ Exists(c) /\ MayStart
  /\ base' = [base EXCEPT ![p] = IF amends THEN orig[c] ELSE parent[c]]
  /\ notes' = IF amends THEN [notes EXCEPT ![c] = NoNote] ELSE notes
  /\ initial' = IF amends THEN [initial EXCEPT ![c] = {}] ELSE initial
  /\ Goto(p, "note?")
  /\ UNCHANGED <<dir, checkpoints, noted, linked, buf, faults>>
  /\ UNCHANGED repo

SkipNoted_Always(p) ==  \* the check for an existing note dropped
  /\ pc[p] = "note?"
  /\ Goto(p, "pre") /\ MakeDir(base[p])
  /\ UNCHANGED <<checkpoints, initial, notes, noted, linked, base, buf, faults>>
  /\ UNCHANGED repo

SkipNoted_HumanOnly(p) ==  \* commits without agent edits skipped too
  /\ pc[p] = "note?"
  /\ IF notes[Target(p)] # NoNote \/ checkpoints[base[p]] = {}
       THEN Goto(p, "done") /\ UNCHANGED dir
       ELSE Goto(p, "pre") /\ MakeDir(base[p])
  /\ UNCHANGED <<checkpoints, initial, notes, noted, linked, base, buf, faults>>
  /\ UNCHANGED repo

\* A commit that has a note is skipped.
SkipNoted(p) ==
  /\ pc[p] = "note?"
  /\ IF notes[Target(p)] # NoNote
       THEN Goto(p, "done") /\ UNCHANGED dir
       ELSE Goto(p, "pre") /\ MakeDir(base[p])
  /\ UNCHANGED <<checkpoints, initial, notes, noted, linked, base, buf, faults>>
  /\ UNCHANGED repo

\* The human checkpoint that catches up with edits made since the last one:
\* INITIAL files become entries; other files are entries only if a human
\* touched them since.  Its errors are ignored.
HumanCheckpoint(p) ==
  LET b == base[p]
      seeds == IF checkpoints[b] = Corrupt THEN {} ELSE initial[b] \ checkpoints[b] IN
  /\ pc[p] = "pre"
  /\ \/ /\ checkpoints[b] # Corrupt /\ (checkpoints[b] # {} \/ seeds # {})
        /\ Goto(p, "append")
        /\ MakeDir(b)
        /\ buf' = [buf EXCEPT ![p] = seeds]
     \/ /\ checkpoints[b] = Corrupt \/ seeds = {}
        /\ Goto(p, AfterHuman(p))
        /\ UNCHANGED <<dir, buf>>
  /\ UNCHANGED <<checkpoints, initial, notes, noted, base, linked, faults>>
  /\ UNCHANGED repo

\* mutate_all_checkpoints: read, refresh the prompts, rewrite.
MutateRead(p) ==
  LET b == base[p] IN
  /\ pc[p] = "mutate"
  /\ MakeDir(b)
  /\ IF checkpoints[b] = Corrupt
       THEN Goto(p, "failed") /\ UNCHANGED buf
       ELSE Goto(p, "reopen") /\ buf' = [buf EXCEPT ![p] = checkpoints[b]]
  /\ UNCHANGED <<checkpoints, initial, notes, noted, base, linked, faults>>
  /\ UNCHANGED repo

MutateOpen(p) ==
  /\ pc[p] = "reopen"
  /\ OpenLog(p, "rewrite", "failed")

MutateWrite(p) ==
  /\ pc[p] = "rewrite"
  /\ WriteLog(p, "build")

Credited_WholeDiff(p) == {Introduced(Target(p))}  \* every added line is the agent's

\* What the log and INITIAL credit to the agent.  A plain commit looks only
\* at the files mutate_all_checkpoints saw, unless one of them is not in the
\* commit; an amend adds what the original's note credits.
Credited(p) ==
  LET b == base[p]
      log == IF checkpoints[b] = Corrupt THEN {} ELSE checkpoints[b]
      seen == buf[p] \cup initial[b]
      history == IF Amends(p) /\ notes[b] # NoNote THEN notes[b] ELSE {}
      all == log \cup initial[b] \cup history
  IN  IF Amends(p) THEN {all}
      ELSE IF seen \subseteq tree[Target(p)] THEN {all \cap seen}
      ELSE {all \cap seen, all}

BuildAttributions_Deletes(p) ==  \* the log removed before the note is written
  LET b == base[p] IN
  /\ pc[p] = "build"
  /\ dir' = [dir EXCEPT ![b] = FALSE]
  /\ checkpoints' = [checkpoints EXCEPT ![b] = {}]
  /\ Goto(p, "note")
  /\ \E credited \in Credited(p) : buf' = [buf EXCEPT ![p] = credited]
  /\ UNCHANGED <<initial, notes, noted, base, linked, faults>>
  /\ UNCHANGED repo

BuildAttributions(p) ==
  LET b == base[p] IN
  /\ pc[p] = "build"
  /\ MakeDir(b)
  /\ IF Amends(p) /\ checkpoints[b] = Corrupt
       THEN Goto(p, "failed") /\ UNCHANGED buf
       ELSE /\ Goto(p, "note")
            /\ \E credited \in Credited(p) : buf' = [buf EXCEPT ![p] = credited]
  /\ UNCHANGED <<checkpoints, initial, notes, noted, base, linked, faults>>
  /\ UNCHANGED repo

\* notes_add overwrites (git notes add -f).
AddNote(p) ==
  LET c == Target(p) IN
  /\ pc[p] = "note"
  /\ notes' = [notes EXCEPT ![c] = buf[p] \cap Introduced(c)]
  /\ noted' = noted \cup {c}
  /\ Goto(p, "initial")
  /\ UNCHANGED <<dir, checkpoints, initial, linked, base, buf, faults>>
  /\ UNCHANGED repo

WriteInitial_Dropped(p) ==  \* uncommitted edits forgotten
  /\ pc[p] = "initial"
  /\ Goto(p, "delete")
  /\ UNCHANGED <<dir, checkpoints, initial, notes, noted, linked, base, buf, faults>>
  /\ UNCHANGED repo

\* Edits that are not in the commit wait in the log of the new commit.
WriteInitial(p) ==
  LET c == Target(p)
      rest == buf[p] \ tree[c] IN
  /\ pc[p] = "initial"
  /\ IF rest = {}
       THEN UNCHANGED <<dir, initial>>
       ELSE MakeDir(c) /\ initial' = [initial EXCEPT ![c] = rest]
  /\ Goto(p, "delete")
  /\ UNCHANGED <<checkpoints, notes, noted, linked, base, buf, faults>>
  /\ UNCHANGED repo

DeleteLog(p) ==
  LET b == base[p] IN
  /\ pc[p] = "delete"
  /\ dir' = [dir EXCEPT ![b] = FALSE]
  /\ checkpoints' = [checkpoints EXCEPT ![b] = {}]
  /\ initial' = [initial EXCEPT ![b] = {}]
  /\ linked' = {q \in linked : base[q] # b}
  /\ Goto(p, "done")
  /\ UNCHANGED <<notes, noted, base, buf, faults>>
  /\ UNCHANGED repo

\* A process ends early: the extension's 30 s limit, the hook's pkill, a
\* crash, or an error while the statistics are computed after the note.
Kill(p) ==
  /\ p \in Running /\ faults < MaxFaults
  /\ faults' = faults + 1
  /\ Goto(p, "failed")
  /\ linked' = linked \ {p}
  /\ UNCHANGED <<dir, checkpoints, initial, notes, noted, base, buf>>
  /\ UNCHANGED repo

CheckpointStep(e) == Scan(e) \/ AppendRead(e) \/ AppendOpen(e) \/ AppendWrite(e)

PostStep(p) ==
  \/ SkipNoted(p) \/ HumanCheckpoint(p)
  \/ AppendRead(p) \/ AppendOpen(p) \/ AppendWrite(p)
  \/ MutateRead(p) \/ MutateOpen(p) \/ MutateWrite(p)
  \/ BuildAttributions(p) \/ AddNote(p) \/ WriteInitial(p) \/ DeleteLog(p)

Next ==
  \/ \E e \in Edits : Edit(e) \/ StartCheckpoint(e) \/ CheckpointStep(e)
  \/ \E c \in Commits : Commit(c) \/ Amend(c)
  \/ \E p \in Posts : StartPost(p) \/ PostStep(p)
  \/ \E p \in Procs : Kill(p)

\* The extension runs a checkpoint for each edit it sees, the hook runs
\* post-commit for each commit, and the system schedules every process.
Fairness ==
  /\ \A e \in Edits : WF_vars(StartCheckpoint(e)) /\ WF_vars(CheckpointStep(e))
  /\ \A p \in Posts : WF_vars(StartPost(p)) /\ WF_vars(PostStep(p))

----------------------------------------------------------------------------
\* What the code promises.

\* A note credits the agent only with edits of its commit that a checkpoint
\* of the agent reported: post_commit credits nothing it merely finds in the
\* diff (a human line is never counted as the agent's).
CreditIsReported ==
  \A c \in Commits : notes[c] # NoNote =>
    \A e \in notes[c] : e \in Introduced(c) /\ pc[e] \notin {"idle", "scan"}

\* A working log disappears only when a commit made on it has been given its
\* note: wherever a process is killed, the log it was reading is still there
\* or has been turned into a note (the delete comes last in post_commit).
LogOutlivesNote ==
  [][\A b \in Bases : dir[b] /\ ~dir'[b] =>
       \E c \in noted : b \in {parent[c], orig[c]}]_vars

\* When nothing runs, every edit whose checkpoint exited 0 is credited in the
\* note of each handled commit that introduces it, and waits in the log of
\* HEAD while it is uncommitted.
Acknowledged == {e \in Edits : pc[e] = "done"}
Waiting(b) == (IF checkpoints[b] = Corrupt THEN {} ELSE checkpoints[b]) \cup initial[b]
CommittedIsCredited ==
  \A c \in Commits : Handled(c) =>
    /\ notes[c] # NoNote
    /\ Introduced(c) \cap Acknowledged \subseteq notes[c]
UncommittedWaits ==
  head = Root \/ Handled(head) => (disk \ tree[head]) \cap Acknowledged \subseteq Waiting(head)
NothingLost == Running = {} => CommittedIsCredited /\ UncommittedWaits

\* A note that has been written is only ever extended, whoever else runs
\* post-commit for the commit (the hook's removal before an amend apart).
NoteKept ==
  [][\A c \in Commits : notes[c] # NoNote /\ notes'[c] # NoNote =>
       notes[c] \subseteq notes'[c]]_vars

\* Every commit gets its note.
EveryCommitNoted == \A c \in Commits : Exists(c) ~> notes[c] # NoNote

Spec == Init /\ [][Next]_vars
FairSpec == Spec /\ Fairness
=============================================================================
