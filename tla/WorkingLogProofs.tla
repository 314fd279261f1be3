-------------------------- MODULE WorkingLogProofs --------------------------
(* For every set of commits, edits and callers and any number of killed     *)
(* processes: what a note credits was reported by a checkpoint of the       *)
(* agent, and a working log never disappears before its note exists.  When  *)
(* the commands run one at a time and none is killed, no acknowledged edit  *)
(* is lost and no note is shortened.                                        *)
EXTENDS WorkingLog, TLAPS

Reported == {e \in Edits : pc[e] \notin {"idle", "scan"}}

\* Commits stand on commits, so what a commit introduces never changes.
History ==
  /\ head \in Commits => Exists(head)
  /\ \A c \in Commits : parent[c] \in Commits => Exists(parent[c])
  /\ \A c \in Commits : orig[c] # None => Exists(c)

\* A post-commit works on the log its commit was made on or amends; one that
\* cleans up has written its note.
Placed ==
  /\ \A p \in Posts : pc[p] # "idle" =>
       /\ Exists(Target(p))
       /\ base[p] \in {parent[Target(p)], orig[Target(p)]}
  /\ \A p \in Posts : pc[p] \in {"initial", "delete"} => Target(p) \in noted

\* Whatever is in a log, in a process's memory or in a note was reported.
LogsBacked ==
  \A b \in Bases : /\ initial[b] \subseteq Reported
                   /\ checkpoints[b] # Corrupt => checkpoints[b] \subseteq Reported
BufsBacked == \A p \in Procs : buf[p] \subseteq Reported
NotesBacked ==
  \A c \in Commits : notes[c] # NoNote =>
    Exists(c) /\ notes[c] \subseteq Introduced(c) \cap Reported

IInv == TypeOK /\ History /\ Placed /\ LogsBacked /\ BufsBacked /\ NotesBacked

LEMMA TargetType == \A p \in Posts : Target(p) \in Commits /\ p \in Procs
BY DEF Posts, Target, Procs

LEMMA InitInv == Init => IInv
BY CommitsAssumption, MarksAssumption, ModeAssumption, TargetType
DEF Init, IInv, TypeOK, History, Placed, LogsBacked, BufsBacked, NotesBacked,
    Bases, Exists, Steps

\* A step of the processes leaves the repository alone, whatever it is.
LEMMA StepKinds ==
  ASSUME Next
  PROVE \/ \E e \in Edits : Edit(e)
        \/ \E c \in Commits : Commit(c) \/ Amend(c)
        \/ \E e \in Edits : StartCheckpoint(e) \/ Scan(e)
        \/ \E p \in Procs : AppendRead(p) \/ AppendOpen(p) \/ AppendWrite(p) \/ Kill(p)
        \/ \E p \in Posts : \/ StartPost(p) \/ SkipNoted(p) \/ HumanCheckpoint(p)
                            \/ MutateRead(p) \/ MutateOpen(p) \/ MutateWrite(p)
                            \/ BuildAttributions(p) \/ AddNote(p)
                            \/ WriteInitial(p) \/ DeleteLog(p)
BY DEF Next, CheckpointStep, PostStep, Procs

LEMMA TypeStep == ASSUME IInv, [Next]_vars PROVE TypeOK'
<1> USE CommitsAssumption, ModeAssumption, TargetType
<1> USE DEF IInv, TypeOK, Placed, Goto, MakeDir, Steps, repo, files, procs
<1>0. CASE UNCHANGED vars
  BY <1>0 DEF vars
<1>1. ASSUME NEW e \in Edits, Edit(e) PROVE TypeOK'
  BY <1>1 DEF Edit
<1>2. ASSUME NEW c \in Commits, Commit(c) PROVE TypeOK'
  BY <1>2 DEF Commit, Bases
<1>3. ASSUME NEW c \in Commits, Amend(c) PROVE TypeOK'
  <2>1. head \in Commits
    BY <1>3 DEF Amend, Bases
  <2>2. tree' \in [Bases -> SUBSET Edits]
    BY <1>3, <2>1 DEF Amend, Bases
  <2> QED
    BY <1>3, <2>1, <2>2 DEF Amend, Bases
<1>4. ASSUME NEW e \in Edits, StartCheckpoint(e) PROVE TypeOK'
  BY <1>4 DEF StartCheckpoint, Procs
<1>5. ASSUME NEW e \in Edits, Scan(e) PROVE TypeOK'
  <2>1. e \in Procs /\ base[e] \in Bases
    BY <1>5 DEF Scan, Procs
  <2>2. pc' \in [Procs -> Steps] /\ dir' \in [Bases -> BOOLEAN]
    BY <1>5, <2>1 DEF Scan
  <2>3. buf' \in [Procs -> SUBSET Edits]
    BY <1>5, <2>1 DEF Scan
  <2> QED
    BY <1>5, <2>2, <2>3 DEF Scan
<1>6. ASSUME NEW p \in Procs, AppendRead(p) PROVE TypeOK'
  BY <1>6 DEF AppendRead
<1>7. ASSUME NEW p \in Procs, AppendOpen(p) PROVE TypeOK'
  BY <1>7 DEF AppendOpen, OpenLog, AfterHuman
<1>8. ASSUME NEW p \in Procs, AppendWrite(p) PROVE TypeOK'
  BY <1>8 DEF AppendWrite, WriteLog, Written, AfterHuman
<1>9. ASSUME NEW p \in Procs, Kill(p) PROVE TypeOK'
  BY <1>9 DEF Kill, Running
<1>10. ASSUME NEW p \in Posts, StartPost(p) PROVE TypeOK'
  BY <1>10 DEF StartPost, Exists, Bases
<1>11. ASSUME NEW p \in Posts, SkipNoted(p) PROVE TypeOK'
  BY <1>11 DEF SkipNoted
<1>12. ASSUME NEW p \in Posts, HumanCheckpoint(p) PROVE TypeOK'
  <2>1. /\ \E s \in Steps : Goto(p, s)
        /\ \E b : dir' = dir \/ dir' = [dir EXCEPT ![b] = TRUE]
        /\ buf' = buf \/ \E s \in SUBSET Edits : buf' = [buf EXCEPT ![p] = s]
    BY <1>12 DEF HumanCheckpoint, AfterHuman, MakeDir
  <2>2. pc' \in [Procs -> Steps]
    BY <2>1
  <2>3. dir' \in [Bases -> BOOLEAN]
    BY <2>1
  <2>4. buf' \in [Procs -> SUBSET Edits]
    BY <2>1
  <2> QED BY <1>12, <2>2, <2>3, <2>4 DEF HumanCheckpoint
<1>13. ASSUME NEW p \in Posts, MutateRead(p) PROVE TypeOK'
  BY <1>13 DEF MutateRead
<1>14. ASSUME NEW p \in Posts, MutateOpen(p) PROVE TypeOK'
  BY <1>14 DEF MutateOpen, OpenLog
<1>15. ASSUME NEW p \in Posts, MutateWrite(p) PROVE TypeOK'
  BY <1>15 DEF MutateWrite, WriteLog, Written
<1>16. ASSUME NEW p \in Posts, BuildAttributions(p) PROVE TypeOK'
  <2>1. p \in Procs /\ base[p] \in Bases
    BY <1>16 DEF BuildAttributions
  <2>2. \A credited \in Credited(p) : credited \in SUBSET Edits
    <3>1. Amends(p) => base[p] \in Commits
      BY <2>1 DEF Amends, Bases
    <3> QED
      BY <2>1, <3>1 DEF Credited
  <2>3. buf' \in [Procs -> SUBSET Edits]
    BY <1>16, <2>1, <2>2 DEF BuildAttributions
  <2> QED
    BY <1>16, <2>1, <2>3 DEF BuildAttributions
<1>17. ASSUME NEW p \in Posts, AddNote(p) PROVE TypeOK'
  BY <1>17 DEF AddNote
<1>18. ASSUME NEW p \in Posts, WriteInitial(p) PROVE TypeOK'
  <2>1. /\ Target(p) \in Bases
        /\ buf[p] \ tree[Target(p)] \in SUBSET Edits
    BY DEF Bases
  <2>2. dir' \in [Bases -> BOOLEAN] /\ initial' \in [Bases -> SUBSET Edits]
    BY <1>18, <2>1 DEF WriteInitial
  <2> QED
    BY <1>18, <2>2 DEF WriteInitial
<1>19. ASSUME NEW p \in Posts, DeleteLog(p) PROVE TypeOK'
  BY <1>19 DEF DeleteLog
<1> QED
  BY <1>0, <1>1, <1>2, <1>3, <1>4, <1>5, <1>6, <1>7, <1>8, <1>9, <1>10, <1>11,
     <1>12, <1>13, <1>14, <1>15, <1>16, <1>17, <1>18, <1>19, StepKinds

\* An existing commit never changes, nor does what it introduces.
LEMMA HistoryStep ==
  ASSUME IInv, [Next]_vars
  PROVE  /\ History'
         /\ \A c \in Commits : Exists(c) =>
              /\ parent'[c] = parent[c] /\ orig'[c] = orig[c]
              /\ Introduced(c)' = Introduced(c)
<1> USE CommitsAssumption DEF IInv, TypeOK, History, Exists, Introduced, Bases
<1>1. CASE UNCHANGED <<head, parent, orig, tree>>
  BY <1>1
<1>2. ASSUME NEW c \in Commits, Commit(c) \/ Amend(c),
             NEW k \in Commits, Exists(k)
      PROVE  /\ parent'[k] = parent[k] /\ orig'[k] = orig[k]
             /\ Introduced(k)' = Introduced(k)
  <2>1. k # c /\ parent[k] # c
    BY <1>2 DEF Commit, Amend
  <2>2. parent'[k] = parent[k] /\ orig'[k] = orig[k]
    BY <1>2, <2>1 DEF Commit, Amend
  <2>3. tree'[k] = tree[k] /\ tree'[parent[k]] = tree[parent[k]]
    BY <1>2, <2>1 DEF Commit, Amend
  <2> QED
    BY <2>2, <2>3
<1>3. ASSUME NEW c \in Commits, Commit(c) PROVE History'
  BY <1>3 DEF Commit
<1>4. ASSUME NEW c \in Commits, Amend(c) PROVE History'
  <2>1. head \in Commits /\ parent[head] # None /\ parent[head] # c
    BY <1>4 DEF Amend
  <2> QED
    BY <1>4, <2>1 DEF Amend
<1>5. \/ UNCHANGED <<head, parent, orig, tree>>
      \/ \E c \in Commits : Commit(c) \/ Amend(c)
  BY StepKinds
  DEF vars, repo, Edit, StartCheckpoint, Scan, AppendRead, AppendOpen, AppendWrite,
      OpenLog, WriteLog, Kill, StartPost, SkipNoted, HumanCheckpoint, MutateRead,
      MutateOpen, MutateWrite, BuildAttributions, AddNote, WriteInitial, DeleteLog
<1> QED
  BY <1>1, <1>2, <1>3, <1>4, <1>5

\* An edit that has been reported stays reported.
LEMMA ReportedStep == ASSUME IInv, [Next]_vars PROVE Reported \subseteq Reported'
<1> USE TargetType, ProcsAssumption DEF IInv, TypeOK, Reported, Goto, Procs, procs
<1>0. CASE UNCHANGED vars
  BY <1>0 DEF vars
<1>1. ASSUME NEW e \in Edits, Edit(e) PROVE Reported \subseteq Reported'
  BY <1>1 DEF Edit, files, procs
<1>2. ASSUME NEW c \in Commits, Commit(c) PROVE Reported \subseteq Reported'
  BY <1>2 DEF Commit, files, procs
<1>3. ASSUME NEW c \in Commits, Amend(c) PROVE Reported \subseteq Reported'
  BY <1>3 DEF Amend, files, procs
<1>4. ASSUME NEW e \in Edits, StartCheckpoint(e) PROVE Reported \subseteq Reported'
  BY <1>4 DEF StartCheckpoint
<1>5. ASSUME NEW e \in Edits, Scan(e) PROVE Reported \subseteq Reported'
  BY <1>5 DEF Scan
<1>6. ASSUME NEW p \in Procs, AppendRead(p) PROVE Reported \subseteq Reported'
  BY <1>6 DEF AppendRead
<1>7. ASSUME NEW p \in Procs, AppendOpen(p) PROVE Reported \subseteq Reported'
  BY <1>7 DEF AppendOpen, OpenLog, AfterHuman
<1>8. ASSUME NEW p \in Procs, AppendWrite(p) PROVE Reported \subseteq Reported'
  BY <1>8 DEF AppendWrite, WriteLog, AfterHuman
<1>9. ASSUME NEW p \in Procs, Kill(p) PROVE Reported \subseteq Reported'
  BY <1>9 DEF Kill, Running
<1>10. ASSUME NEW p \in Posts, StartPost(p) PROVE Reported \subseteq Reported'
  BY <1>10 DEF StartPost
<1>11. ASSUME NEW p \in Posts, SkipNoted(p) PROVE Reported \subseteq Reported'
  BY <1>11 DEF SkipNoted
<1>12. ASSUME NEW p \in Posts, HumanCheckpoint(p) PROVE Reported \subseteq Reported'
  BY <1>12 DEF HumanCheckpoint, AfterHuman
<1>13. ASSUME NEW p \in Posts, MutateRead(p) PROVE Reported \subseteq Reported'
  BY <1>13 DEF MutateRead
<1>14. ASSUME NEW p \in Posts, MutateOpen(p) PROVE Reported \subseteq Reported'
  BY <1>14 DEF MutateOpen, OpenLog
<1>15. ASSUME NEW p \in Posts, MutateWrite(p) PROVE Reported \subseteq Reported'
  BY <1>15 DEF MutateWrite, WriteLog
<1>16. ASSUME NEW p \in Posts, BuildAttributions(p) PROVE Reported \subseteq Reported'
  BY <1>16 DEF BuildAttributions
<1>17. ASSUME NEW p \in Posts, AddNote(p) PROVE Reported \subseteq Reported'
  BY <1>17 DEF AddNote
<1>18. ASSUME NEW p \in Posts, WriteInitial(p) PROVE Reported \subseteq Reported'
  BY <1>18 DEF WriteInitial
<1>19. ASSUME NEW p \in Posts, DeleteLog(p) PROVE Reported \subseteq Reported'
  BY <1>19 DEF DeleteLog
<1> QED
  BY <1>0, <1>1, <1>2, <1>3, <1>4, <1>5, <1>6, <1>7, <1>8, <1>9, <1>10, <1>11,
     <1>12, <1>13, <1>14, <1>15, <1>16, <1>17, <1>18, <1>19, StepKinds

LEMMA PlacedStep == ASSUME IInv, [Next]_vars PROVE Placed'
<1> USE TargetType, ProcsAssumption, CommitsAssumption, HistoryStep
    DEF IInv, TypeOK, Placed, Goto, Procs, Exists, files, repo
<1>0. CASE UNCHANGED vars
  BY <1>0 DEF vars
<1>1. ASSUME NEW e \in Edits, Edit(e) PROVE Placed'
  BY <1>1 DEF Edit, files, procs
<1>2. ASSUME NEW c \in Commits, Commit(c) PROVE Placed'
  BY <1>2 DEF Commit, files, procs
<1>3. ASSUME NEW c \in Commits, Amend(c) PROVE Placed'
  BY <1>3 DEF Amend, files, procs
<1>4. ASSUME NEW e \in Edits, StartCheckpoint(e) PROVE Placed'
  BY <1>4 DEF StartCheckpoint
<1>5. ASSUME NEW e \in Edits, Scan(e) PROVE Placed'
  BY <1>5 DEF Scan
<1>6. ASSUME NEW p \in Procs, AppendRead(p) PROVE Placed'
  BY <1>6 DEF AppendRead
<1>7. ASSUME NEW p \in Procs, AppendOpen(p) PROVE Placed'
  BY <1>7 DEF AppendOpen, OpenLog, AfterHuman
<1>8. ASSUME NEW p \in Procs, AppendWrite(p) PROVE Placed'
  BY <1>8 DEF AppendWrite, WriteLog, AfterHuman
<1>9. ASSUME NEW p \in Procs, Kill(p) PROVE Placed'
  BY <1>9 DEF Kill, Running
<1>10. ASSUME NEW p \in Posts, StartPost(p) PROVE Placed'
  BY <1>10 DEF StartPost, Bases
<1>11. ASSUME NEW p \in Posts, SkipNoted(p) PROVE Placed'
  BY <1>11 DEF SkipNoted
<1>12. ASSUME NEW p \in Posts, HumanCheckpoint(p) PROVE Placed'
  BY <1>12 DEF HumanCheckpoint, AfterHuman
<1>13. ASSUME NEW p \in Posts, MutateRead(p) PROVE Placed'
  BY <1>13 DEF MutateRead
<1>14. ASSUME NEW p \in Posts, MutateOpen(p) PROVE Placed'
  BY <1>14 DEF MutateOpen, OpenLog
<1>15. ASSUME NEW p \in Posts, MutateWrite(p) PROVE Placed'
  BY <1>15 DEF MutateWrite, WriteLog
<1>16. ASSUME NEW p \in Posts, BuildAttributions(p) PROVE Placed'
  BY <1>16 DEF BuildAttributions
<1>17. ASSUME NEW p \in Posts, AddNote(p) PROVE Placed'
  BY <1>17 DEF AddNote
<1>18. ASSUME NEW p \in Posts, WriteInitial(p) PROVE Placed'
  BY <1>18 DEF WriteInitial
<1>19. ASSUME NEW p \in Posts, DeleteLog(p) PROVE Placed'
  BY <1>19 DEF DeleteLog
<1> QED
  BY <1>0, <1>1, <1>2, <1>3, <1>4, <1>5, <1>6, <1>7, <1>8, <1>9, <1>10, <1>11,
     <1>12, <1>13, <1>14, <1>15, <1>16, <1>17, <1>18, <1>19, StepKinds

\* A log that is rewritten holds what the process had read and, for a
\* checkpoint, its own edit.
LEMMA BackedStep ==
  ASSUME IInv, [Next]_vars
  PROVE  (LogsBacked /\ BufsBacked /\ NotesBacked)'
<1> USE TargetType, CommitsAssumption, MarksAssumption, ReportedStep, HistoryStep
    DEF IInv, TypeOK, LogsBacked, BufsBacked, NotesBacked
<1>k. Reported \subseteq Reported' /\ TypeOK'
  BY TypeStep
<1>n. ASSUME UNCHANGED notes
      PROVE  NotesBacked'
  BY <1>k, <1>n DEF Exists
<1>l. ASSUME UNCHANGED <<checkpoints, initial>> PROVE LogsBacked'
  BY <1>k, <1>l
<1>b. ASSUME UNCHANGED buf PROVE BufsBacked'
  BY <1>k, <1>b
<1>0. CASE UNCHANGED <<checkpoints, initial, notes, buf>>
  BY <1>0, <1>n, <1>l, <1>b
<1>1. ASSUME NEW e \in Edits, Scan(e) PROVE (LogsBacked /\ BufsBacked /\ NotesBacked)'
  <2>1. e \in Reported'
    BY <1>1 DEF Scan, Reported, Goto, Procs
  <2>2. BufsBacked'
    BY <1>1, <1>k, <2>1 DEF Scan, Procs
  <2> QED
    BY <1>1, <1>n, <1>l, <2>2 DEF Scan
<1>2. ASSUME NEW p \in Procs, AppendRead(p) PROVE (LogsBacked /\ BufsBacked /\ NotesBacked)'
  <2>1. base[p] \in Bases
    BY <1>2 DEF AppendRead, Placed
  <2>2. BufsBacked'
    BY <1>2, <1>k, <2>1 DEF AppendRead
  <2> QED
    BY <1>2, <1>n, <1>l, <2>2 DEF AppendRead, files
<1>3. ASSUME NEW p \in Procs,
             \/ \E next, otherwise : OpenLog(p, next, otherwise)
             \/ \E next : pc[p] # "idle" /\ WriteLog(p, next)
      PROVE  (LogsBacked /\ BufsBacked /\ NotesBacked)'
  <2>1. UNCHANGED <<initial, notes, buf>>
    BY <1>3 DEF OpenLog, WriteLog
  <2>2. \A b \in Bases :
          checkpoints'[b] \in {checkpoints[b], {}, buf[p], Corrupt}
    BY <1>3 DEF OpenLog, WriteLog, Written
  <2>3. LogsBacked'
    BY <1>k, <2>1, <2>2
  <2> QED
    BY <1>n, <1>b, <2>1, <2>3
<1>4. ASSUME NEW p \in Posts, StartPost(p) PROVE (LogsBacked /\ BufsBacked /\ NotesBacked)'
  <2>1. UNCHANGED <<checkpoints, buf>>
    BY <1>4 DEF StartPost
  <2>2. \A b \in Bases : initial'[b] \in {initial[b], {}}
    BY <1>4 DEF StartPost
  <2>3. \A c \in Commits : notes'[c] \in {notes[c], NoNote}
    BY <1>4 DEF StartPost
  <2>4. LogsBacked'
    BY <1>k, <2>1, <2>2
  <2>5. NotesBacked'
    BY <1>k, <2>3 DEF Exists
  <2> QED
    BY <1>b, <2>1, <2>4, <2>5
<1>5. ASSUME NEW p \in Posts,
             HumanCheckpoint(p) \/ MutateRead(p) \/ BuildAttributions(p)
      PROVE  (LogsBacked /\ BufsBacked /\ NotesBacked)'
  <2>1. UNCHANGED <<checkpoints, initial, notes>>
    BY <1>5 DEF HumanCheckpoint, MutateRead, BuildAttributions
  <2>2. base[p] \in Bases
    BY <1>5 DEF HumanCheckpoint, MutateRead, BuildAttributions, Placed
  <2>3. ASSUME BuildAttributions(p), NEW credited \in Credited(p)
        PROVE  credited \subseteq Reported
    <3>1. Amends(p) => base[p] \in Commits
      BY <2>2 DEF Amends
    <3> QED
      BY <2>2, <2>3, <3>1 DEF Credited
  <2>4. \A q \in Procs : buf'[q] \subseteq Reported
    BY <1>5, <2>2, <2>3 DEF HumanCheckpoint, MutateRead, BuildAttributions
  <2> QED
    BY <1>k, <1>n, <1>l, <2>1, <2>4
<1>6. ASSUME NEW p \in Posts, AddNote(p) PROVE (LogsBacked /\ BufsBacked /\ NotesBacked)'
  <2>1. Exists(Target(p))
    BY <1>6 DEF AddNote, Placed
  <2>2. NotesBacked'
    BY <1>6, <1>k, <2>1 DEF AddNote, Exists
  <2> QED
    BY <1>6, <1>l, <1>b, <2>2 DEF AddNote
<1>7. ASSUME NEW p \in Posts, WriteInitial(p) PROVE (LogsBacked /\ BufsBacked /\ NotesBacked)'
  <2>1. \A b \in Bases : initial'[b] \in {initial[b], buf[p] \ tree[Target(p)]}
    BY <1>7 DEF WriteInitial
  <2>2. LogsBacked'
    BY <1>7, <1>k, <2>1 DEF WriteInitial
  <2> QED
    BY <1>7, <1>n, <1>b, <2>2 DEF WriteInitial
<1>8. ASSUME NEW p \in Posts, DeleteLog(p) PROVE (LogsBacked /\ BufsBacked /\ NotesBacked)'
  <2>1. LogsBacked'
    BY <1>8, <1>k DEF DeleteLog
  <2> QED
    BY <1>8, <1>n, <1>b, <2>1 DEF DeleteLog
<1>9. \/ UNCHANGED <<checkpoints, initial, notes, buf>>
      \/ \E e \in Edits : Scan(e)
      \/ \E p \in Procs : AppendRead(p) \/ AppendOpen(p) \/ AppendWrite(p)
      \/ \E p \in Posts : \/ StartPost(p) \/ HumanCheckpoint(p) \/ MutateRead(p)
                          \/ MutateOpen(p) \/ MutateWrite(p) \/ BuildAttributions(p)
                          \/ AddNote(p) \/ WriteInitial(p) \/ DeleteLog(p)
  BY StepKinds DEF vars, files, procs, Edit, Commit, Amend, StartCheckpoint, Kill, SkipNoted
<1> QED
  BY <1>0, <1>1, <1>2, <1>3, <1>4, <1>5, <1>6, <1>7, <1>8, <1>9
  DEF AppendOpen, AppendWrite, MutateOpen, MutateWrite

LEMMA StepInv == IInv /\ [Next]_vars => IInv'
BY TypeStep, HistoryStep, PlacedStep, BackedStep DEF IInv

LEMMA Invariance == Spec => []IInv
BY InitInv, StepInv, PTL DEF Spec

\* Every variable keeps its type: no process reads or writes a log, a note or
\* an INITIAL that does not exist, for any number of commits and edits.
THEOREM TypeCorrect == Spec => []TypeOK
BY Invariance, PTL DEF IInv

\* A note credits the agent only with edits of its commit that one of its
\* checkpoints reported, however checkpoints and post-commits interleave and
\* wherever they are killed.
THEOREM NotesAreReported == Spec => []CreditIsReported
<1>1. IInv => CreditIsReported
  BY DEF IInv, NotesBacked, Reported, CreditIsReported
<1> QED
  BY <1>1, Invariance, PTL

\* No step removes a working log before a commit made on it has its note, so
\* a post-commit that is killed can be run again on the same log.
THEOREM LogsOutliveNotes == Spec => LogOutlivesNote
<1>1. ASSUME IInv, [Next]_vars, NEW b \in Bases, dir[b] /\ ~dir'[b]
      PROVE  \E c \in noted : b \in {parent[c], orig[c]}
  <2>1. PICK p \in Posts : DeleteLog(p)
    BY <1>1, StepKinds
    DEF IInv, TypeOK, vars, files, procs, repo, MakeDir, Edit, Commit, Amend,
        StartCheckpoint, Scan, AppendRead, AppendOpen, AppendWrite, OpenLog,
        WriteLog, Kill, StartPost, SkipNoted, HumanCheckpoint, MutateRead,
        MutateOpen, MutateWrite, BuildAttributions, AddNote, WriteInitial
  <2>2. b = base[p]
    BY <1>1, <2>1 DEF DeleteLog, IInv, TypeOK
  <2> QED
    BY <1>1, <2>1, <2>2 DEF DeleteLog, IInv, Placed
<1>2. IInv /\ [Next]_vars =>
        [\A b \in Bases : dir[b] /\ ~dir'[b] =>
           \E c \in noted : b \in {parent[c], orig[c]}]_vars
  BY <1>1
<1> QED
  BY <1>2, Invariance, PTL DEF Spec, LogOutlivesNote

----------------------------------------------------------------------------
(* Without overlap and kills: one process runs at a time, it works on the   *)
(* log of HEAD or, until HEAD is handled, on the log HEAD was made on; no   *)
(* other log holds anything.                                                *)
Held(b) ==
  {e \in Edits : \E p \in Procs : base[p] = b /\ pc[p] \in {"write", "rewrite"} /\ e \in buf[p]}
Log(b) == checkpoints[b] \cup initial[b] \cup Held(b)
Pending == head # Root /\ ~Handled(head)
BaseOf(p) ==
  IF p[1] = "hook" /\ orig[Target(p)] # None THEN orig[Target(p)] ELSE parent[Target(p)]
Replaced(c) == IF orig[c] # None /\ notes[orig[c]] # NoNote THEN notes[orig[c]] ELSE {}

OneRuns == \A p, q \in Running : p = q
Clean ==
  /\ \A b \in Bases : checkpoints[b] # Corrupt
  /\ \A p \in Procs :
       /\ pc[p] # "failed"
       /\ pc[p] \in {"append", "open", "reopen"} => dir[base[p]]
       /\ pc[p] \in {"open", "reopen"} => checkpoints[base[p]] \subseteq buf[p]
       /\ pc[p] \in {"write", "rewrite"} => p \in linked /\ checkpoints[base[p]] = {}
  /\ \A p \in Posts : pc[p] = "build" /\ ~Amends(p) => buf[p] = checkpoints[base[p]]
  /\ \A e \in Edits : pc[e] \in {"append", "open", "write"} => e \in buf[e]
Shape ==
  /\ tree[Root] = {} /\ \A b \in Bases : tree[b] \subseteq disk
  /\ \A c \in Commits :
       /\ parent[c] # c
       /\ orig[c] # None => /\ Exists(orig[c]) /\ orig[c] # c
                            /\ parent[c] = parent[orig[c]] /\ parent[c] # orig[c]
       /\ Exists(c) /\ c # head => Handled(c)
       /\ ~Exists(c) => checkpoints[c] = {} /\ initial[c] = {} /\ notes[c] = NoNote
  /\ \A e \in Edits : pc[e] # "idle" => e \in disk
  /\ \A b \in Bases : \A e \in tree[b] : pc[e] = "done"
Turns ==
  /\ \A e \in Edits : e \in Running => base[e] = head
  /\ \A p \in Posts :
       /\ pc[p] # "idle" => base[p] = BaseOf(p)
       /\ p \in Running =>
            \/ Target(p) = head /\ Pending
            \/ pc[p] = "note?" /\ notes[Target(p)] # NoNote
       /\ p \in Running /\ pc[p] \notin {"initial", "delete"} =>
            notes[Target(p)] = NoNote \/ (pc[p] = "note?" /\ ~Amends(p))
       /\ p \in Running /\ base[p] # Origin(Target(p)) =>
            pc[p] \in {"note?", "pre", "mutate"} \/ buf[p] = {}
  /\ \A c \in Commits : notes[c] # NoNote =>
       orig[c] # None \/ Handled(c) \/ \E p \in Posts : Target(p) = c /\ pc[p] \in {"initial", "delete"}
Dead ==
  \A b \in Bases : b # head /\ ~(Pending /\ b = Origin(head)) => checkpoints[b] = {} /\ initial[b] = {}
Notes(p) == p \in Posts /\ Target(p) = head /\ base[p] = Origin(head)
Fresh == Pending /\ (\A p \in Posts : Notes(p) => pc[p] # "delete") => initial[head] = {}

\* Where the acknowledged edits are: in the log of a handled HEAD; else in the
\* log HEAD was made on and, past "build", with the process that notes it.
Settled == ~Pending => (disk \ tree[head]) \cap Acknowledged \subseteq Log(head)
Unbuilt == Pending /\ (\A p \in Posts : Notes(p) => pc[p] \notin {"note", "initial", "delete"}) =>
  /\ Introduced(head) \cap Acknowledged \subseteq Log(Origin(head)) \cup Replaced(head)
  /\ (disk \ tree[head]) \cap Acknowledged \subseteq Log(Origin(head)) \cup Log(head)
Noting == \A p \in Posts : Pending /\ Notes(p) =>
  /\ pc[p] = "note" => Introduced(head) \cap Acknowledged \subseteq buf[p]
  /\ pc[p] \in {"initial", "delete"} =>
       notes[head] # NoNote /\ Introduced(head) \cap Acknowledged \subseteq notes[head]
  /\ pc[p] \in {"note", "initial"} => (disk \ tree[head]) \cap Acknowledged \subseteq buf[p] \cup Log(head)
  /\ pc[p] = "delete" => (disk \ tree[head]) \cap Acknowledged \subseteq Log(head)

Serial == ~Concurrent /\ MaxFaults = 0
SInv == /\ OneRuns /\ Clean /\ Shape /\ Turns /\ Dead /\ Fresh
        /\ Settled /\ Unbuilt /\ Noting /\ CommittedIsCredited

LEMMA SInit == Init => SInv
<1> SUFFICES ASSUME Init PROVE SInv
  OBVIOUS
<1> USE CommitsAssumption, MarksAssumption, TargetType DEF Init, Bases
<1>1. \A p \in Procs : pc[p] = "idle" /\ base[p] = None
  OBVIOUS
<1>2. Running = {} /\ ~Pending /\ Acknowledged = {}
  BY <1>1 DEF Running, Pending, Acknowledged, Procs
<1>3. OneRuns /\ Clean
  BY <1>1, <1>2 DEF OneRuns, Clean, Procs
<1>4. Shape /\ Turns /\ Dead /\ Fresh
  BY <1>1, <1>2 DEF Shape, Turns, Dead, Fresh, Exists, Procs
<1>5. Settled /\ Unbuilt /\ Noting
  BY <1>2 DEF Settled, Unbuilt, Noting
<1>6. \A c \in Commits : ~Handled(c)
  BY <1>1 DEF Handled
<1> QED BY <1>3, <1>4, <1>5, <1>6 DEF SInv, CommittedIsCredited

\* What does not depend on the working directory, HEAD or the history.
LEMMA SameProcs ==
  ASSUME UNCHANGED <<checkpoints, initial, pc, base, buf>>
  PROVE  /\ Running' = Running /\ Acknowledged' = Acknowledged
         /\ \A b : Log(b)' = Log(b)
BY DEF Running, Acknowledged, Log, Held

LEMMA SEdit == ASSUME IInv, SInv, NEW e \in Edits, Edit(e) PROVE SInv'
<1>1. /\ UNCHANGED <<head, parent, orig, tree>> /\ disk' = disk \cup {e}
      /\ UNCHANGED <<dir, checkpoints, initial, notes, noted, linked, pc, base, buf>>
      /\ e \notin Acknowledged
  BY DEF Edit, files, procs, SInv, Shape, Acknowledged
<1>2. /\ Running' = Running /\ Acknowledged' = Acknowledged /\ (Pending' <=> Pending)
      /\ \A b : Log(b)' = Log(b)
      /\ \A c \in Commits : /\ Handled(c)' <=> Handled(c)
                            /\ Origin(c)' = Origin(c) /\ Introduced(c)' = Introduced(c)
                            /\ Replaced(c)' = Replaced(c)
      /\ Origin(head)' = Origin(head) /\ Introduced(head)' = Introduced(head)
      /\ Replaced(head)' = Replaced(head)
      /\ \A p \in Posts : (Notes(p)' <=> Notes(p)) /\ BaseOf(p)' = BaseOf(p)
  BY <1>1, SameProcs DEF Pending, Handled, Origin, Introduced, Replaced, Notes, BaseOf
<1>3. OneRuns' /\ Clean' /\ Dead' /\ Fresh' /\ CommittedIsCredited'
  BY <1>1, <1>2 DEF SInv, OneRuns, Clean, Amends, Dead, Fresh, CommittedIsCredited
<1>4. Shape' /\ Turns'
  BY <1>1, <1>2 DEF SInv, Shape, Turns, Exists, Amends
<1>5. (disk' \ tree[head]) \cap Acknowledged = (disk \ tree[head]) \cap Acknowledged
  BY <1>1
<1>6. Settled' /\ Unbuilt' /\ Noting'
  BY <1>1, <1>2, <1>5 DEF SInv, Settled, Unbuilt, Noting
<1> QED BY <1>3, <1>4, <1>6 DEF SInv

\* Only the hook handles an amended commit: the extension names no original.
LEMMA HookHandles ==
  ASSUME IInv, SInv, NEW p \in Posts, Handled(Target(p)), p[1] = "hook", orig[Target(p)] # None
  PROVE  pc[p] = "done"
<1>1. PICK q \in Posts : Target(q) = Target(p) /\ pc[q] = "done" /\ base[q] = orig[Target(p)]
  BY DEF Handled, Origin
<1>2. base[q] = BaseOf(q) /\ parent[Target(p)] # orig[Target(p)]
  BY <1>1, TargetType DEF SInv, Turns, Shape
<1>3. q[1] = "hook"
  BY <1>1, <1>2 DEF BaseOf
<1>4. p = <<p[1], p[2]>> /\ q = <<q[1], q[2]>>
  BY DEF Posts
<1> QED BY <1>1, <1>3, <1>4 DEF Target

LEMMA SNewHead ==
  ASSUME IInv, SInv, Serial, NEW c \in Commits, Commit(c) \/ Amend(c)
  PROVE  SInv'
<1> USE CommitsAssumption, TargetType DEF Bases
<1>1. /\ ~Exists(c) /\ head' = c /\ disk' = disk /\ Running = {}
      /\ \A e \in disk : pc[e] \in {"done", "failed"}
      /\ head # Root => Handled(head)
      /\ UNCHANGED <<dir, checkpoints, initial, notes, linked, pc, base, buf>>
      /\ head # c /\ head \in Bases
  BY DEF Commit, Amend, MayCommit, Serial, files, procs, IInv, TypeOK, History
<1>2. PICK staged \in SUBSET (disk \ tree[head]) : tree' = [tree EXCEPT ![c] = tree[head] \cup staged]
  BY DEF Commit, Amend
<1>3. /\ ~Pending /\ orig[c] = None /\ parent[c] = None
      /\ \A p \in Posts : Target(p) = c => pc[p] = "idle"
      /\ \A p \in Procs : pc[p] \in {"idle", "done"}
      /\ \A e \in disk : pc[e] = "done"
  BY <1>1 DEF Pending, Exists, IInv, History, Placed, SInv, Clean, Running, TypeOK, Procs
<1>4. /\ \A k \in Commits \ {c} : parent'[k] = parent[k] /\ orig'[k] = orig[k] /\ (Exists(k)' <=> Exists(k))
      /\ \/ parent'[c] = head /\ orig'[c] = None
         \/ head # Root /\ parent'[c] = parent[head] /\ orig'[c] = head
      /\ Exists(c)'
  <2>1. head # Root => parent[head] # None /\ head \in Commits
    BY DEF IInv, History, Exists, TypeOK
  <2> QED BY <1>3, <2>1 DEF Commit, Amend, Exists, IInv, TypeOK
<1>5. /\ Origin(c)' = head
      /\ \A k \in Commits \ {c} : Origin(k)' = Origin(k)
      /\ \A k \in Commits : Exists(k) => Introduced(k)' = Introduced(k)
      /\ ~Handled(c)' /\ Pending'
      /\ \A k \in Commits \ {c} : Handled(k)' <=> Handled(k)
  <2>1. /\ Origin(c)' = head /\ \A k \in Commits \ {c} : Origin(k)' = Origin(k)
    BY <1>1, <1>4 DEF Origin
  <2>2. \A k \in Commits : Exists(k) => Introduced(k)' = Introduced(k)
    BY HistoryStep DEF Next
  <2>3. ~Handled(c)'
    BY <1>1, <1>3 DEF Handled
  <2>4. \A k \in Commits \ {c} : Handled(k)' <=> Handled(k)
    BY <1>1, <2>1 DEF Handled
  <2> QED BY <1>1, <2>1, <2>2, <2>3, <2>4 DEF Pending
<1>6. /\ Running' = Running /\ Acknowledged' = Acknowledged
      /\ \A b : Log(b)' = Log(b)
      /\ \A k \in Commits : Exists(k) => k # c
  BY <1>1, SameProcs
<1>7. OneRuns' /\ Clean'
  BY <1>1, <1>3, <1>6 DEF SInv, OneRuns, Clean
<1>8. Shape'
  <2>1. tree'[Root] = {} /\ \A b \in Bases : tree'[b] \subseteq disk' /\ \A e \in tree'[b] : pc'[e] = "done"
    BY <1>1, <1>2, <1>3 DEF SInv, Shape, IInv, TypeOK
  <2>2. ASSUME NEW k \in Commits
        PROVE  /\ parent'[k] # k
               /\ orig'[k] # None => /\ parent'[orig'[k]] # None /\ orig'[k] # k
                                     /\ parent'[k] = parent'[orig'[k]] /\ parent'[k] # orig'[k]
    <3>1. CASE k = c
      BY <1>1, <1>3, <1>4, <3>1 DEF SInv, Shape, Exists, IInv, TypeOK, History
    <3>2. CASE k # c
      <4>1. orig[k] # None => orig[k] # c /\ orig[k] \in Commits
        BY <1>1 DEF SInv, Shape, IInv, TypeOK
      <4> QED BY <1>4, <3>2, <4>1 DEF SInv, Shape, Exists
    <3> QED BY <3>1, <3>2
  <2>3. ASSUME NEW k \in Commits
        PROVE  /\ Exists(k)' /\ k # head' => Handled(k)'
               /\ ~Exists(k)' => checkpoints'[k] = {} /\ initial'[k] = {} /\ notes'[k] = NoNote
    BY <1>1, <1>4, <1>5 DEF SInv, Shape
  <2>4. \A e \in Edits : pc'[e] # "idle" => e \in disk'
    BY <1>1 DEF SInv, Shape
  <2> QED BY <2>1, <2>2, <2>3, <2>4 DEF Shape, Exists
<1>9. Turns'
  <2>1. \A p \in Posts : pc[p] # "idle" => BaseOf(p)' = BaseOf(p)
    BY <1>3, <1>4 DEF BaseOf
  <2>2. \A k \in Commits : notes[k] # NoNote => k # c
    BY <1>1 DEF SInv, Shape
  <2> QED BY <1>1, <1>4, <1>5, <1>6, <2>1, <2>2 DEF SInv, Turns, Procs
<1>10. Dead' /\ Fresh'
  BY <1>1, <1>3, <1>5 DEF SInv, Dead, Fresh, Shape
<1>11. CommittedIsCredited'
  <2>1. ASSUME NEW k \in Commits, Handled(k)' PROVE Exists(k) /\ Handled(k)
    BY <1>5, <2>1 DEF Handled, IInv, Placed
  <2> QED BY <1>1, <1>5, <1>6, <2>1 DEF SInv, CommittedIsCredited
<1>12. Settled' /\ Noting'
  BY <1>1, <1>3, <1>5 DEF Settled, Noting
<1>13. Unbuilt'
  <2>1. (disk \ tree[head]) \cap Acknowledged \subseteq Log(head)
    BY <1>3 DEF SInv, Settled
  <2>2. tree'[c] = tree[head] \cup staged
    BY <1>2 DEF IInv, TypeOK
  <2>3. Introduced(c)' \cap Acknowledged \subseteq Log(head) \cup Replaced(c)'
    <3>1. CASE parent'[c] = head
      <4>1. Introduced(c)' = tree'[c] \ tree'[head] /\ tree'[head] = tree[head]
        BY <1>1, <1>2, <3>1 DEF Introduced, IInv, TypeOK
      <4> QED BY <2>1, <2>2, <4>1
    <3>2. CASE head # Root /\ parent'[c] = parent[head] /\ orig'[c] = head
      <4>1. /\ head \in Commits /\ parent[head] # c /\ parent[head] \in Bases
            /\ parent[head] # None /\ parent[c] = None
        BY <1>1, <1>3, <3>2 DEF IInv, TypeOK, History, Exists
      <4>2. Introduced(c)' = tree'[c] \ tree[parent[head]]
        BY <1>2, <3>2, <4>1 DEF Introduced, IInv, TypeOK
      <4>3. Introduced(head) = tree[head] \ tree[parent[head]]
        BY <4>1 DEF Introduced
      <4>4. Introduced(head) \cap Acknowledged \subseteq Replaced(c)'
        BY <1>1, <3>2, <4>1 DEF SInv, CommittedIsCredited, Replaced
      <4> QED BY <2>1, <2>2, <4>2, <4>3, <4>4
    <3> QED BY <1>4, <3>1, <3>2
  <2> QED BY <1>1, <1>5, <1>6, <2>1, <2>2, <2>3 DEF Unbuilt
<1> QED BY <1>7, <1>8, <1>9, <1>10, <1>11, <1>12, <1>13 DEF SInv

\* What depends on the repository and on who is done.
LEMMA SameDone ==
  ASSUME IInv, UNCHANGED <<head, parent, orig, tree, disk>>,
         \A p \in Posts : \/ base'[p] = base[p] /\ (pc'[p] = "done" <=> pc[p] = "done")
                          \/ pc[p] # "done" /\ pc'[p] # "done"
  PROVE  /\ \A c \in Commits : /\ Handled(c)' <=> Handled(c)
                               /\ Origin(c)' = Origin(c) /\ Introduced(c)' = Introduced(c)
         /\ Origin(head)' = Origin(head) /\ Introduced(head)' = Introduced(head)
         /\ Pending' <=> Pending
         /\ \A p \in Posts : BaseOf(p)' = BaseOf(p)
BY DEF Handled, Origin, Introduced, Pending, BaseOf

LEMMA SStartCheckpoint ==
  ASSUME IInv, SInv, Serial, NEW e \in Edits, StartCheckpoint(e)
  PROVE  SInv'
<1> USE TargetType, ProcsAssumption
<1>1. /\ Running = {} /\ e \in disk /\ pc[e] = "idle" /\ e \in Procs /\ head \in Bases
      /\ pc' = [pc EXCEPT ![e] = "scan"] /\ base' = [base EXCEPT ![e] = head]
      /\ dir' = [dir EXCEPT ![head] = TRUE]
      /\ UNCHANGED <<head, parent, orig, tree, disk, checkpoints, initial, notes, buf, linked>>
      /\ \A p \in Posts : p # e
  BY DEF StartCheckpoint, MayStart, Serial, Goto, MakeDir, repo, IInv, TypeOK, Procs
<1>2. /\ \A p \in Procs \ {e} : pc'[p] = pc[p] /\ base'[p] = base[p] /\ pc[p] \in {"idle", "done", "failed"}
      /\ pc'[e] = "scan" /\ base'[e] = head
  BY <1>1 DEF IInv, TypeOK, Running
<1>3. /\ Running' = {e} /\ Acknowledged' = Acknowledged
      /\ \A b : Held(b) = {} /\ Held(b)' = {}
  BY <1>1, <1>2 DEF Running, Acknowledged, Held, Procs
<1>4. \A b : Log(b)' = Log(b)
  BY <1>1, <1>3 DEF Log
<1>5. \A p \in Posts : pc'[p] = pc[p] /\ base'[p] = base[p]
  BY <1>1, <1>2
<1>6. /\ \A c \in Commits : /\ Handled(c)' <=> Handled(c)
                            /\ Origin(c)' = Origin(c) /\ Introduced(c)' = Introduced(c)
      /\ Origin(head)' = Origin(head) /\ Introduced(head)' = Introduced(head)
      /\ Pending' <=> Pending
      /\ \A p \in Posts : BaseOf(p)' = BaseOf(p)
  BY <1>1, <1>5, SameDone
<1>7. OneRuns' /\ Dead' /\ Fresh' /\ CommittedIsCredited'
  BY <1>1, <1>3, <1>5, <1>6 DEF SInv, OneRuns, Dead, Fresh, Notes, CommittedIsCredited
<1>8. Clean'
  BY <1>1, <1>2, <1>5 DEF SInv, Clean, Procs, Amends
<1>9. Shape'
  BY <1>1, <1>2, <1>6 DEF SInv, Shape, Exists, Procs
<1>10. Turns'
  BY <1>1, <1>2, <1>3, <1>5, <1>6 DEF SInv, Turns
<1>11. Settled' /\ Unbuilt' /\ Noting'
  BY <1>1, <1>3, <1>4, <1>5, <1>6 DEF SInv, Settled, Unbuilt, Noting, Notes, Replaced
<1> QED BY <1>7, <1>8, <1>9, <1>10, <1>11 DEF SInv

LEMMA SStartPost ==
  ASSUME IInv, SInv, Serial, NEW p \in Posts, StartPost(p)
  PROVE  SInv'
<1> USE TargetType, ProcsAssumption
<1> DEFINE amends == p[1] = "hook" /\ orig[Target(p)] # None
<1>1. /\ Running = {} /\ Exists(Target(p)) /\ pc[p] = "idle" /\ p \in Procs /\ p \notin Edits
      /\ pc' = [pc EXCEPT ![p] = "note?"] /\ base' = [base EXCEPT ![p] = BaseOf(p)]
      /\ notes' = IF amends THEN [notes EXCEPT ![Target(p)] = NoNote] ELSE notes
      /\ initial' = IF amends THEN [initial EXCEPT ![Target(p)] = {}] ELSE initial
      /\ UNCHANGED <<head, parent, orig, tree, disk, dir, checkpoints, buf, linked>>
  BY DEF StartPost, MayStart, Serial, Goto, BaseOf, repo, IInv, TypeOK, Procs
<1>2. /\ \A q \in Procs \ {p} : pc'[q] = pc[q] /\ base'[q] = base[q] /\ pc[q] \in {"idle", "done"}
      /\ pc'[p] = "note?" /\ base'[p] = BaseOf(p)
  BY <1>1 DEF IInv, TypeOK, Running, SInv, Clean
<1>3. /\ Running' = {p} /\ Acknowledged' = Acknowledged
      /\ \A b : Held(b) = {} /\ Held(b)' = {}
  BY <1>1, <1>2 DEF Running, Acknowledged, Held, Procs
<1>4. amends => Target(p) = head /\ Pending
  <2>1. amends => ~Handled(Target(p))
    BY <1>1, HookHandles
  <2> QED BY <1>1, <2>1, CommitsAssumption DEF Pending, SInv, Shape
<1>5. initial' = initial
  BY <1>1, <1>2, <1>4 DEF SInv, Fresh, IInv, TypeOK, Bases, Procs
<1>6. \A b : Log(b)' = Log(b)
  BY <1>1, <1>3, <1>5 DEF Log
<1>7. /\ \A c \in Commits : /\ Handled(c)' <=> Handled(c)
                            /\ Origin(c)' = Origin(c) /\ Introduced(c)' = Introduced(c)
      /\ Origin(head)' = Origin(head) /\ Introduced(head)' = Introduced(head)
      /\ Pending' <=> Pending
      /\ \A q \in Posts : BaseOf(q)' = BaseOf(q)
  <2>1. \A q \in Posts : \/ base'[q] = base[q] /\ (pc'[q] = "done" <=> pc[q] = "done")
                         \/ pc[q] # "done" /\ pc'[q] # "done"
    BY <1>1, <1>2
  <2> QED BY <1>1, <2>1, SameDone
<1>8. \A c \in Commits : notes'[c] = notes[c] \/ (c = head /\ Pending /\ notes'[c] = NoNote)
  BY <1>1, <1>4 DEF IInv, TypeOK
<1>9. OneRuns' /\ Dead' /\ Fresh' /\ Clean'
  BY <1>1, <1>2, <1>3, <1>5, <1>7 DEF SInv, OneRuns, Dead, Fresh, Clean, Procs
<1>10. Shape'
  BY <1>1, <1>2, <1>5, <1>7, <1>8 DEF SInv, Shape, Exists, Procs
<1>11. Turns'
  <2>1. \/ Target(p) = head /\ Pending
        \/ notes'[Target(p)] # NoNote
    BY <1>1, <1>4, CommitsAssumption DEF Pending, SInv, Shape, CommittedIsCredited
  <2>2. amends \/ (notes' = notes /\ BaseOf(p) = parent[Target(p)])
    BY <1>1 DEF BaseOf
  <2>3. notes'[Target(p)] = NoNote \/ ~Amends(p)'
    BY <1>1, <1>2, <2>2 DEF Exists, Amends, SInv, Shape, IInv, TypeOK
  <2> QED BY <1>1, <1>2, <1>3, <1>7, <1>8, <2>1, <2>3 DEF SInv, Turns, Procs, Amends
<1>12. CommittedIsCredited'
  BY <1>3, <1>7, <1>8 DEF SInv, CommittedIsCredited, Pending
<1>13. Replaced(head)' = Replaced(head)
  BY <1>1, <1>4 DEF Replaced, SInv, Shape, IInv, TypeOK
<1>14. Settled' /\ Unbuilt' /\ Noting'
  <2>1. \A q \in Posts : pc'[q] \notin {"note", "initial", "delete"} /\ pc[q] \notin {"note", "initial", "delete"}
    BY <1>1, <1>2
  <2> QED BY <1>1, <1>3, <1>6, <1>7, <1>13, <2>1 DEF SInv, Settled, Unbuilt, Noting
<1> QED BY <1>9, <1>10, <1>11, <1>12, <1>14 DEF SInv

(* A step of a process that goes on running.                                *)
Frame(p) ==
  /\ Running = {p} /\ Running' = {p} /\ Acknowledged' = Acknowledged
  /\ UNCHANGED <<head, parent, orig, tree, disk, base>>
  /\ \A q \in Procs \ {p} : pc[q] \in {"idle", "done"} /\ pc'[q] = pc[q] /\ buf'[q] = buf[q]
  /\ \A c \in Commits : /\ Handled(c)' <=> Handled(c)
                        /\ Origin(c)' = Origin(c) /\ Introduced(c)' = Introduced(c)
  /\ Origin(head)' = Origin(head) /\ Introduced(head)' = Introduced(head)
  /\ Pending' <=> Pending
  /\ \A q \in Posts : BaseOf(q)' = BaseOf(q) /\ (Notes(q)' <=> Notes(q))
                      /\ (Amends(q)' <=> Amends(q))
  /\ \A b : Held(b) = IF b = base[p] /\ pc[p] \in {"write", "rewrite"} THEN buf[p] ELSE {}
  /\ \A b : Held(b)' = IF b = base[p] /\ pc'[p] \in {"write", "rewrite"} THEN buf'[p] ELSE {}

LEMMA SFrame ==
  ASSUME IInv, SInv, NEW p \in Procs, p \in Running, NEW s,
         s \notin {"idle", "done", "failed"}, pc' = [pc EXCEPT ![p] = s],
         UNCHANGED <<head, parent, orig, tree, disk, base>>,
         \A q \in Procs \ {p} : buf'[q] = buf[q], buf'[p] \subseteq Edits
  PROVE  Frame(p) /\ pc'[p] = s
<1> USE TargetType
<1>1. /\ pc'[p] = s /\ pc[p] \notin {"idle", "done", "failed"}
      /\ \A q \in Procs \ {p} : pc[q] \in {"idle", "done"} /\ pc'[q] = pc[q]
  BY DEF IInv, TypeOK, SInv, OneRuns, Clean, Running
<1>2. Running = {p} /\ Running' = {p}
  BY <1>1 DEF Running
<1>3. Acknowledged' = Acknowledged
  BY <1>1 DEF Acknowledged, Procs
<1>4. \A q \in Posts : \/ base'[q] = base[q] /\ (pc'[q] = "done" <=> pc[q] = "done")
                       \/ pc[q] # "done" /\ pc'[q] # "done"
  BY <1>1
<1>5. /\ \A c \in Commits : /\ Handled(c)' <=> Handled(c)
                            /\ Origin(c)' = Origin(c) /\ Introduced(c)' = Introduced(c)
      /\ Origin(head)' = Origin(head) /\ Introduced(head)' = Introduced(head)
      /\ Pending' <=> Pending
      /\ \A q \in Posts : BaseOf(q)' = BaseOf(q)
  BY <1>4, SameDone
<1>6. \A q \in Posts : (Notes(q)' <=> Notes(q)) /\ (Amends(q)' <=> Amends(q))
  BY <1>5 DEF Notes, Amends
<1>7. \A b : Held(b) = IF b = base[p] /\ pc[p] \in {"write", "rewrite"} THEN buf[p] ELSE {}
  BY <1>1 DEF Held, IInv, TypeOK
<1>8. \A b : Held(b)' = IF b = base[p] /\ pc'[p] \in {"write", "rewrite"} THEN buf'[p] ELSE {}
  BY <1>1 DEF Held
<1> QED BY <1>1, <1>2, <1>3, <1>5, <1>6, <1>7, <1>8 DEF Frame

\* A step that only moves what a log holds between the file and the memory of
\* the process: before "build", and never on a log nothing is left in.
LEMMA SKeep ==
  ASSUME IInv, SInv, NEW p \in Procs, Frame(p), UNCHANGED <<initial, notes>>,
         \A b \in Bases \ {base[p]} : checkpoints'[b] = checkpoints[b],
         checkpoints' = checkpoints \/ p \in Edits
           \/ (Target(p) = head /\ Pending /\ base[p] = Origin(head)),
         \A b \in Bases : Log(b) \subseteq Log(b)',
         pc[p] \notin {"note", "initial", "delete"}, pc'[p] \notin {"idle", "note", "initial", "delete"}
  PROVE  OneRuns' /\ Shape' /\ Dead' /\ Fresh' /\ Settled' /\ Unbuilt' /\ Noting' /\ CommittedIsCredited'
<1> USE TargetType, ProcsAssumption, CommitsAssumption DEF Frame
<1>1. base[p] \in Bases /\ pc[p] \notin {"idle", "done", "failed"}
  BY DEF IInv, TypeOK, Running
<1>2. base[p] \in Commits => Exists(base[p])
  BY <1>1 DEF IInv, History, Placed, SInv, Shape, Turns, Procs, TypeOK, Exists
<1>3. p \in Edits => base[p] = head
  BY DEF SInv, Turns
<1>4. OneRuns' /\ CommittedIsCredited' /\ Fresh'
  BY DEF SInv, OneRuns, CommittedIsCredited, Fresh
<1>5. Shape'
  <2>1. \A c \in Commits : ~Exists(c) => checkpoints'[c] = checkpoints[c]
    BY <1>2 DEF Bases
  <2>2. \A e \in Edits : /\ pc'[e] # "idle" => pc[e] # "idle"
                         /\ pc[e] = "done" => pc'[e] = "done"
    BY <1>1 DEF Procs
  <2> QED BY <2>1, <2>2 DEF SInv, Shape, Exists, Bases, IInv, TypeOK
<1>6. Dead'
  BY <1>3 DEF SInv, Dead
<1>7. head \in Bases /\ Log(head) \subseteq Log(head)'
  BY DEF IInv, TypeOK
<1>8. Settled'
  BY <1>7 DEF SInv, Settled
<1>9. \A q \in Posts : pc[q] \notin {"note", "initial", "delete"} /\ pc'[q] \notin {"note", "initial", "delete"}
  OBVIOUS
<1>10. Noting'
  BY <1>9 DEF Noting
<1>11. Unbuilt'
  <2>1. Pending => Origin(head) \in Bases /\ Log(Origin(head)) \subseteq Log(Origin(head))'
    BY DEF Pending, Origin, IInv, TypeOK, History, Bases, Exists
  <2>2. Replaced(head)' = Replaced(head)
    BY DEF Replaced
  <2> QED BY <1>7, <1>9, <2>1, <2>2 DEF SInv, Unbuilt
<1> QED BY <1>4, <1>5, <1>6, <1>8, <1>10, <1>11

LEMMA SScan ==
  ASSUME IInv, SInv, NEW e \in Edits, Scan(e)
  PROVE  SInv'
<1> USE TargetType, ProcsAssumption, CommitsAssumption
<1>1. /\ e \in Procs /\ e \in Running /\ pc[e] = "scan" /\ base[e] = head /\ head \in Bases
      /\ checkpoints[head] # Corrupt /\ \A p \in Posts : p # e
      /\ UNCHANGED <<head, parent, orig, tree, disk, checkpoints, initial, notes, base, linked>>
  BY DEF Scan, Running, Procs, SInv, Turns, Clean, IInv, TypeOK, repo
<1>2. CASE e \notin checkpoints[head] \cup tree[head]
  <2>1. /\ pc' = [pc EXCEPT ![e] = "append"] /\ dir' = [dir EXCEPT ![head] = TRUE]
        /\ buf' = [buf EXCEPT ![e] = {e}]
    BY <1>1, <1>2 DEF Scan, Goto, MakeDir
  <2>2. buf'[e] = {e} /\ \A q \in Procs \ {e} : buf'[q] = buf[q]
    BY <1>1, <2>1 DEF IInv, TypeOK
  <2>3. Frame(e) /\ pc'[e] = "append"
    BY <1>1, <2>1, <2>2, SFrame
  <2>4. \A b \in Bases : Log(b) \subseteq Log(b)'
    BY <1>1, <2>3 DEF Log, Frame
  <2>5. OneRuns' /\ Shape' /\ Dead' /\ Fresh' /\ Settled' /\ Unbuilt' /\ Noting' /\ CommittedIsCredited'
    BY <1>1, <2>3, <2>4, SKeep
  <2>6. Clean'
    BY <1>1, <2>1, <2>2, <2>3 DEF SInv, Clean, Frame, Procs, IInv, TypeOK
  <2>7. Turns'
    BY <1>1, <2>3 DEF SInv, Turns, Frame, Procs
  <2> QED BY <2>5, <2>6, <2>7 DEF SInv
<1>3. CASE e \in checkpoints[head] \cup tree[head]
  <2>1. /\ pc' = [pc EXCEPT ![e] = "done"] /\ dir' = dir /\ buf' = buf
    BY <1>1, <1>3 DEF Scan, Goto
  <2>2. e \in checkpoints[head] /\ \A b \in Bases : e \notin tree[b]
    BY <1>1, <1>3 DEF SInv, Shape
  <2>3. /\ pc'[e] = "done" /\ \A q \in Procs \ {e} : pc'[q] = pc[q] /\ pc[q] \in {"idle", "done"}
        /\ Running = {e} /\ Running' = {} /\ Acknowledged' = Acknowledged \cup {e}
        /\ \A b : Held(b) = {} /\ Held(b)' = {}
    <3>1. pc'[e] = "done" /\ \A q \in Procs \ {e} : pc'[q] = pc[q] /\ pc[q] \in {"idle", "done"}
      BY <1>1, <2>1 DEF SInv, OneRuns, Clean, Running, IInv, TypeOK
    <3> QED BY <1>1, <2>1, <3>1 DEF Running, Held, Acknowledged, Procs
  <2>4. \A b : Log(b)' = Log(b)
    BY <1>1, <2>3 DEF Log
  <2>5. \A q \in Posts : \/ base'[q] = base[q] /\ (pc'[q] = "done" <=> pc[q] = "done")
                         \/ pc[q] # "done" /\ pc'[q] # "done"
    BY <1>1, <2>3
  <2>6. /\ \A c \in Commits : /\ Handled(c)' <=> Handled(c)
                              /\ Origin(c)' = Origin(c) /\ Introduced(c)' = Introduced(c)
        /\ Origin(head)' = Origin(head) /\ Introduced(head)' = Introduced(head)
        /\ Pending' <=> Pending
        /\ \A q \in Posts : BaseOf(q)' = BaseOf(q)
    BY <1>1, <2>5, SameDone
  <2>7. OneRuns' /\ Dead' /\ Fresh' /\ Clean' /\ Turns'
    BY <1>1, <2>1, <2>3, <2>6 DEF SInv, OneRuns, Dead, Fresh, Clean, Turns, Notes, Procs, Amends
  <2>8. Shape'
    BY <1>1, <2>3, <2>6 DEF SInv, Shape, Exists, Procs, IInv, TypeOK
  <2>9. \A c \in Bases : e \notin Introduced(c)
    BY <2>2 DEF Introduced
  <2>10. CommittedIsCredited'
    BY <1>1, <2>3, <2>6, <2>9 DEF SInv, CommittedIsCredited, Bases
  <2>11. e \in Log(head)
    BY <2>2 DEF Log
  <2>12. Settled'
    BY <1>1, <2>3, <2>4, <2>6, <2>11 DEF SInv, Settled
  <2>13. Unbuilt'
    BY <1>1, <2>3, <2>4, <2>6, <2>9, <2>11 DEF SInv, Unbuilt, Notes, Replaced
  <2>14. Noting'
    BY <1>1, <2>3 DEF Noting
  <2> QED BY <2>7, <2>8, <2>10, <2>12, <2>13, <2>14 DEF SInv
<1> QED BY <1>2, <1>3

\* A post-commit that is past its first look at the notes works for HEAD.
LEMMA SPost ==
  ASSUME IInv, SInv, NEW p \in Posts, p \in Running, pc[p] # "note?"
  PROVE  /\ Target(p) = head /\ Pending /\ head \in Commits /\ Exists(head)
         /\ base[p] = BaseOf(p) /\ base[p] \in Bases /\ base[p] # head
         /\ base[p] # Origin(head) =>
              checkpoints[base[p]] = {} /\ initial[base[p]] = {} /\ ~Amends(p) /\ orig[head] # None
<1> USE TargetType, CommitsAssumption
<1>1. Target(p) = head /\ Pending /\ base[p] = BaseOf(p) /\ base[p] \in Bases /\ pc[p] # "idle"
  BY DEF SInv, Turns, Running, IInv, TypeOK
<1>2. head \in Commits /\ Exists(head)
  BY <1>1 DEF IInv, History
<1>3. base[p] # head
  BY <1>1, <1>2 DEF BaseOf, SInv, Shape
<1>4. base[p] # Origin(head) => ~Amends(p) /\ orig[head] # None
  BY <1>1 DEF BaseOf, Origin, Amends
<1>5. base[p] # Origin(head) => checkpoints[base[p]] = {} /\ initial[base[p]] = {}
  BY <1>1, <1>3 DEF SInv, Dead
<1> QED BY <1>1, <1>2, <1>3, <1>4, <1>5

LEMMA SAppendRead ==
  ASSUME IInv, SInv, NEW p \in Procs, AppendRead(p)
  PROVE  SInv'
<1> USE TargetType, ProcsAssumption, CommitsAssumption
<1>1. /\ p \in Running /\ pc[p] = "append" /\ base[p] \in Bases /\ checkpoints[base[p]] # Corrupt
      /\ UNCHANGED <<head, parent, orig, tree, disk, dir, checkpoints, initial, notes, base, linked>>
      /\ pc' = [pc EXCEPT ![p] = "open"]
      /\ buf' = [buf EXCEPT ![p] = @ \cup checkpoints[base[p]]]
  BY DEF AppendRead, Running, SInv, Clean, IInv, TypeOK, repo, files, Goto
<1>2. /\ buf'[p] = buf[p] \cup checkpoints[base[p]] /\ buf'[p] \subseteq Edits
      /\ \A q \in Procs \ {p} : buf'[q] = buf[q]
  BY <1>1 DEF IInv, TypeOK
<1>3. Frame(p) /\ pc'[p] = "open"
  BY <1>1, <1>2, SFrame
<1>4. \A b \in Bases : Log(b) \subseteq Log(b)'
  BY <1>1, <1>3 DEF Log, Frame
<1>5. OneRuns' /\ Shape' /\ Dead' /\ Fresh' /\ Settled' /\ Unbuilt' /\ Noting' /\ CommittedIsCredited'
  BY <1>1, <1>3, <1>4, SKeep
<1>6. Clean'
  BY <1>1, <1>2, <1>3 DEF SInv, Clean, Frame, Procs
<1>7. Turns'
  <2>1. \A q \in Posts : q = p /\ base[p] # Origin(head) => checkpoints[base[p]] = {}
    BY <1>1, SPost
  <2> QED BY <1>1, <1>2, <1>3, <2>1, SPost DEF SInv, Turns, Frame, Procs
<1> QED BY <1>5, <1>6, <1>7 DEF SInv

\* Truncating the file: what it held is in the memory of the process.
LEMMA SOpen ==
  ASSUME IInv, SInv, NEW p \in Procs, NEW otherwise,
         \/ pc[p] = "open" /\ OpenLog(p, "write", otherwise)
         \/ p \in Posts /\ pc[p] = "reopen" /\ OpenLog(p, "rewrite", otherwise)
  PROVE  SInv'
<1> USE TargetType, ProcsAssumption, CommitsAssumption, MarksAssumption
<1>1. PICK s \in {"write", "rewrite"} :
        /\ p \in Running /\ pc[p] \in {"open", "reopen"} /\ base[p] \in Bases
        /\ UNCHANGED <<head, parent, orig, tree, disk, dir, initial, notes, base, buf>>
        /\ pc' = [pc EXCEPT ![p] = s] /\ (p \in Edits => s = "write")
        /\ checkpoints' = [checkpoints EXCEPT ![base[p]] = {}]
        /\ linked' = linked \cup {p}
  BY DEF OpenLog, Running, SInv, Clean, IInv, TypeOK, repo, Goto
<1>2. Frame(p) /\ pc'[p] = s
  <2>1. buf'[p] \subseteq Edits /\ \A q \in Procs \ {p} : buf'[q] = buf[q]
    BY <1>1 DEF IInv, TypeOK
  <2> QED BY <1>1, <2>1, SFrame
<1>3. /\ checkpoints'[base[p]] = {} /\ \A b \in Bases \ {base[p]} : checkpoints'[b] = checkpoints[b]
      /\ checkpoints[base[p]] \subseteq buf[p] /\ buf' = buf
  BY <1>1 DEF IInv, TypeOK, SInv, Clean
<1>4. \A b \in Bases : Log(b) \subseteq Log(b)'
  BY <1>1, <1>2, <1>3 DEF Log, Frame
<1>5. \/ checkpoints' = checkpoints \/ p \in Edits
      \/ Target(p) = head /\ Pending /\ base[p] = Origin(head)
  <2>1. p \in Posts /\ base[p] # Origin(head) => checkpoints[base[p]] = {}
    BY <1>1, SPost
  <2>2. checkpoints[base[p]] = {} => checkpoints' = checkpoints
    BY <1>1 DEF IInv, TypeOK
  <2> QED BY <1>1, <2>1, <2>2, SPost DEF Procs
<1>6. OneRuns' /\ Shape' /\ Dead' /\ Fresh' /\ Settled' /\ Unbuilt' /\ Noting' /\ CommittedIsCredited'
  BY <1>1, <1>2, <1>3, <1>4, <1>5, SKeep
<1>7. Clean'
  BY <1>1, <1>2, <1>3 DEF SInv, Clean, Frame, Procs
<1>8. Turns'
  BY <1>1, <1>2, SPost DEF SInv, Turns, Frame, Procs
<1> QED BY <1>6, <1>7, <1>8 DEF SInv

\* Writing it again: nobody else wrote in between.
LEMMA SWrite ==
  ASSUME IInv, SInv, NEW p \in Posts, pc[p] \in {"write", "rewrite"},
         NEW s \in {"mutate", "build"}, WriteLog(p, s),
         s = "build" => Amends(p) \/ pc[p] = "rewrite"
  PROVE  SInv'
<1> USE TargetType, ProcsAssumption, CommitsAssumption, MarksAssumption
<1>1. /\ p \in Procs /\ p \in Running /\ base[p] \in Bases /\ checkpoints[base[p]] = {}
      /\ UNCHANGED <<head, parent, orig, tree, disk, dir, initial, notes, base, buf>>
      /\ pc' = [pc EXCEPT ![p] = s]
      /\ checkpoints' = [checkpoints EXCEPT ![base[p]] = buf[p]]
      /\ linked' = linked \ {p}
  BY DEF WriteLog, Written, Running, SInv, Clean, IInv, TypeOK, repo, Goto
<1>2. Frame(p) /\ pc'[p] = s
  <2>1. buf'[p] \subseteq Edits /\ \A q \in Procs \ {p} : buf'[q] = buf[q]
    BY <1>1 DEF IInv, TypeOK
  <2> QED BY <1>1, <2>1, SFrame
<1>3. /\ checkpoints'[base[p]] = buf[p] /\ \A b \in Bases \ {base[p]} : checkpoints'[b] = checkpoints[b]
      /\ buf' = buf /\ buf[p] \in SUBSET Edits
  BY <1>1 DEF IInv, TypeOK
<1>4. \A b \in Bases : Log(b) \subseteq Log(b)'
  BY <1>1, <1>2, <1>3 DEF Log, Frame
<1>5. \/ checkpoints' = checkpoints \/ p \in Edits
      \/ Target(p) = head /\ Pending /\ base[p] = Origin(head)
  <2>1. base[p] # Origin(head) => buf[p] = {}
    BY <1>1, SPost DEF SInv, Turns
  <2>2. buf[p] = {} => checkpoints' = checkpoints
    BY <1>1 DEF IInv, TypeOK
  <2> QED BY <1>1, <2>1, <2>2, SPost
<1>6. OneRuns' /\ Shape' /\ Dead' /\ Fresh' /\ Settled' /\ Unbuilt' /\ Noting' /\ CommittedIsCredited'
  BY <1>1, <1>2, <1>3, <1>4, <1>5, SKeep
<1>7. Clean'
  <2>1. \A b \in Bases : checkpoints'[b] # Corrupt
    BY <1>3 DEF SInv, Clean
  <2>2. p \notin Edits
    OBVIOUS
  <2> QED BY <1>1, <1>2, <1>3, <2>1, <2>2 DEF SInv, Clean, Frame, Procs
<1>8. Turns'
  BY <1>1, <1>2, SPost DEF SInv, Turns, Frame, Procs
<1> QED BY <1>6, <1>7, <1>8 DEF SInv

\* The last step of a checkpoint: from now on its edit must not be lost.
LEMMA SEditWrite ==
  ASSUME IInv, SInv, NEW e \in Edits, AppendWrite(e)
  PROVE  SInv'
<1> USE TargetType, ProcsAssumption, CommitsAssumption, MarksAssumption
<1>1. /\ e \in Procs /\ e \in Running /\ pc[e] = "write" /\ base[e] = head /\ head \in Bases
      /\ checkpoints[head] = {} /\ e \in buf[e] /\ \A p \in Posts : p # e
      /\ UNCHANGED <<head, parent, orig, tree, disk, dir, initial, notes, base, buf>>
      /\ pc' = [pc EXCEPT ![e] = "done"]
      /\ checkpoints' = [checkpoints EXCEPT ![head] = buf[e]]
      /\ linked' = linked \ {e}
  BY DEF AppendWrite, WriteLog, Written, Running, SInv, Turns, Clean, IInv, TypeOK, repo, Goto, Procs
<1>2. /\ checkpoints'[head] = buf[e] /\ \A b \in Bases \ {head} : checkpoints'[b] = checkpoints[b]
      /\ buf[e] \in SUBSET Edits
  BY <1>1 DEF IInv, TypeOK
<1>3. /\ pc'[e] = "done" /\ \A q \in Procs \ {e} : pc'[q] = pc[q] /\ pc[q] \in {"idle", "done"}
      /\ Running = {e} /\ Running' = {} /\ Acknowledged' = Acknowledged \cup {e}
      /\ \A b : Held(b)' = {} /\ Held(b) = IF b = head THEN buf[e] ELSE {}
  <2>1. pc'[e] = "done" /\ \A q \in Procs \ {e} : pc'[q] = pc[q] /\ pc[q] \in {"idle", "done"}
    BY <1>1 DEF SInv, OneRuns, Clean, Running, IInv, TypeOK
  <2>2. Running = {e} /\ Running' = {} /\ Acknowledged' = Acknowledged \cup {e}
    BY <1>1, <2>1 DEF Running, Acknowledged, Procs
  <2>3. \A b : Held(b)' = {} /\ Held(b) = IF b = head THEN buf[e] ELSE {}
    BY <1>1, <1>2, <2>1 DEF Held
  <2> QED BY <2>1, <2>2, <2>3
<1>4. \A b \in Bases : Log(b)' = Log(b)
  BY <1>1, <1>2, <1>3 DEF Log
<1>5. \A q \in Posts : \/ base'[q] = base[q] /\ (pc'[q] = "done" <=> pc[q] = "done")
                       \/ pc[q] # "done" /\ pc'[q] # "done"
  BY <1>1, <1>3
<1>6. /\ \A c \in Commits : /\ Handled(c)' <=> Handled(c)
                            /\ Origin(c)' = Origin(c) /\ Introduced(c)' = Introduced(c)
      /\ Origin(head)' = Origin(head) /\ Introduced(head)' = Introduced(head)
      /\ Pending' <=> Pending
      /\ \A q \in Posts : BaseOf(q)' = BaseOf(q)
  BY <1>1, <1>5, SameDone
<1>7. OneRuns' /\ Dead' /\ Fresh' /\ Turns'
  BY <1>1, <1>2, <1>3, <1>6 DEF SInv, OneRuns, Dead, Fresh, Turns, Notes, Procs, Amends
<1>8. Clean'
  <2>1. \A b \in Bases : checkpoints'[b] # Corrupt
    BY <1>2 DEF SInv, Clean
  <2>2. \A q \in Posts : pc'[q] \in {"idle", "done"}
    BY <1>1, <1>3
  <2> QED BY <1>1, <1>3, <2>1, <2>2 DEF Clean, Procs
<1>9. Shape'
  <2>1. \A c \in Commits : ~Exists(c) => checkpoints'[c] = checkpoints[c]
    BY <1>2 DEF IInv, History, Bases
  <2> QED BY <1>1, <1>3, <1>6, <2>1 DEF SInv, Shape, Exists, Procs, IInv, TypeOK
<1>10. \A c \in Bases : e \notin Introduced(c)
  BY <1>1 DEF Introduced, SInv, Shape
<1>11. CommittedIsCredited'
  BY <1>1, <1>3, <1>6, <1>10 DEF SInv, CommittedIsCredited, Bases
<1>12. e \in Log(head)
  BY <1>1, <1>3 DEF Log
<1>13. Settled'
  BY <1>1, <1>3, <1>4, <1>6, <1>12 DEF SInv, Settled
<1>14. Unbuilt'
  <2>1. Pending => Origin(head) \in Bases
    BY DEF Pending, Origin, IInv, TypeOK, History, Bases, Exists
  <2> QED BY <1>1, <1>3, <1>4, <1>6, <1>10, <1>12, <2>1 DEF SInv, Unbuilt, Notes, Replaced
<1>15. Noting'
  BY <1>1, <1>3 DEF Noting
<1> QED BY <1>7, <1>8, <1>9, <1>11, <1>13, <1>14, <1>15 DEF SInv

LEMMA SAppend ==
  ASSUME IInv, SInv, NEW p \in Procs, AppendRead(p) \/ AppendOpen(p) \/ AppendWrite(p)
  PROVE  SInv'
<1>1. CASE AppendRead(p)
  BY <1>1, SAppendRead
<1>2. CASE AppendOpen(p)
  BY <1>2, SOpen DEF AppendOpen
<1>3. CASE AppendWrite(p)
  <2>1. CASE p \in Edits
    BY <1>3, <2>1, SEditWrite
  <2>2. CASE p \in Posts
    <3>1. pc[p] = "write" /\ WriteLog(p, AfterHuman(p))
      BY <1>3, <2>2, ProcsAssumption DEF AppendWrite
    <3> QED BY <2>2, <3>1, SWrite DEF AfterHuman
  <2> QED BY <2>1, <2>2 DEF Procs
<1> QED BY <1>1, <1>2, <1>3

LEMMA SSkipNoted ==
  ASSUME IInv, SInv, NEW p \in Posts, SkipNoted(p)
  PROVE  SInv'
<1> USE TargetType, ProcsAssumption, CommitsAssumption
<1>1. /\ p \in Procs /\ p \in Running /\ pc[p] = "note?" /\ base[p] \in Bases /\ p \notin Edits
      /\ UNCHANGED <<head, parent, orig, tree, disk, checkpoints, initial, notes, base, buf, linked>>
  BY DEF SkipNoted, Running, IInv, TypeOK, repo
<1>2. CASE notes[Target(p)] = NoNote
  <2>1. pc' = [pc EXCEPT ![p] = "pre"] /\ dir' = [dir EXCEPT ![base[p]] = TRUE]
    BY <1>1, <1>2 DEF SkipNoted, Goto, MakeDir
  <2>2. Frame(p) /\ pc'[p] = "pre"
    <3>1. buf'[p] \subseteq Edits /\ \A q \in Procs \ {p} : buf'[q] = buf[q]
      BY <1>1 DEF IInv, TypeOK
    <3> QED BY <1>1, <2>1, <3>1, SFrame
  <2>3. \A b \in Bases : Log(b) \subseteq Log(b)'
    BY <1>1, <2>2 DEF Log, Frame
  <2>4. OneRuns' /\ Shape' /\ Dead' /\ Fresh' /\ Settled' /\ Unbuilt' /\ Noting' /\ CommittedIsCredited'
    BY <1>1, <2>2, <2>3, SKeep
  <2>5. Clean' /\ Turns'
    BY <1>1, <1>2, <2>2 DEF SInv, Clean, Turns, Frame, Procs
  <2> QED BY <2>4, <2>5 DEF SInv
<1>3. CASE notes[Target(p)] # NoNote
  <2>1. pc' = [pc EXCEPT ![p] = "done"] /\ dir' = dir
    BY <1>1, <1>3 DEF SkipNoted, Goto
  <2>2. /\ pc'[p] = "done" /\ \A q \in Procs \ {p} : pc'[q] = pc[q] /\ pc[q] \in {"idle", "done"}
        /\ Running = {p} /\ Running' = {} /\ Acknowledged' = Acknowledged
        /\ \A b : Held(b) = {} /\ Held(b)' = {}
    <3>1. pc'[p] = "done" /\ \A q \in Procs \ {p} : pc'[q] = pc[q] /\ pc[q] \in {"idle", "done"}
      BY <1>1, <2>1 DEF SInv, OneRuns, Clean, Running, IInv, TypeOK
    <3> QED BY <1>1, <2>1, <3>1 DEF Running, Held, Acknowledged, Procs
  <2>3. \A b : Log(b)' = Log(b)
    BY <1>1, <2>2 DEF Log
  <2>4. /\ \A c \in Commits : Origin(c)' = Origin(c) /\ Introduced(c)' = Introduced(c) 
        /\ Origin(head)' = Origin(head) /\ Introduced(head)' = Introduced(head)
        /\ \A q \in Posts : BaseOf(q)' = BaseOf(q)
    BY <1>1 DEF Origin, Introduced, BaseOf
  <2>5. ~Amends(p) /\ base[p] = BaseOf(p)
    BY <1>1, <1>3 DEF SInv, Turns
  <2>6. base[p] = Origin(Target(p)) => Handled(Target(p))
    <3>1. base[p] = Origin(Target(p)) => orig[Target(p)] = None
      BY <1>1, <2>5 DEF Origin, Amends
    <3> QED BY <1>1, <1>3, <2>2, <3>1 DEF SInv, Turns
  <2>7. /\ \A c \in Commits : Handled(c)' <=> Handled(c)
        /\ Pending' <=> Pending
    <3>1. \A c \in Commits : Handled(c)' <=> Handled(c)
      BY <1>1, <2>2, <2>4, <2>6 DEF Handled
    <3> QED BY <1>1, <3>1 DEF Pending, IInv, TypeOK, Bases
  <2>8. OneRuns' /\ Dead' /\ Fresh' /\ Clean' /\ Turns'
    BY <1>1, <2>1, <2>2, <2>4, <2>7 DEF SInv, OneRuns, Dead, Fresh, Clean, Turns, Notes, Procs, Amends
  <2>9. Shape' /\ CommittedIsCredited'
    BY <1>1, <2>2, <2>4, <2>7 DEF SInv, Shape, CommittedIsCredited, Exists, Procs, IInv, TypeOK
  <2>10. Settled' /\ Unbuilt' /\ Noting'
    BY <1>1, <2>2, <2>3, <2>4, <2>7 DEF SInv, Settled, Unbuilt, Noting, Notes, Replaced
  <2> QED BY <2>8, <2>9, <2>10 DEF SInv
<1> QED BY <1>2, <1>3

LEMMA SHuman ==
  ASSUME IInv, SInv, NEW p \in Posts, HumanCheckpoint(p)
  PROVE  SInv'
<1> USE TargetType, ProcsAssumption, CommitsAssumption
<1> DEFINE seeds == initial[base[p]] \ checkpoints[base[p]]
<1>1. /\ p \in Procs /\ p \in Running /\ pc[p] = "pre" /\ base[p] \in Bases /\ p \notin Edits
      /\ checkpoints[base[p]] # Corrupt
      /\ UNCHANGED <<head, parent, orig, tree, disk, checkpoints, initial, notes, base, linked>>
  BY DEF HumanCheckpoint, Running, SInv, Clean, IInv, TypeOK, repo
<1>2. PICK s \in {"append", "mutate", "build"} :
        /\ pc' = [pc EXCEPT ![p] = s]
        /\ \/ /\ s = "append" /\ (checkpoints[base[p]] # {} \/ seeds # {})
              /\ dir' = [dir EXCEPT ![base[p]] = TRUE]
              /\ buf' = [buf EXCEPT ![p] = seeds]
           \/ /\ s # "append" /\ (s = "build" => Amends(p))
              /\ dir' = dir /\ buf' = buf
  BY <1>1 DEF HumanCheckpoint, Goto, MakeDir, AfterHuman
<1>3. buf'[p] \subseteq Edits /\ \A q \in Procs \ {p} : buf'[q] = buf[q]
  BY <1>1, <1>2 DEF IInv, TypeOK
<1>4. Frame(p) /\ pc'[p] = s
  BY <1>1, <1>2, <1>3, SFrame
<1>5. \A b \in Bases : Log(b) \subseteq Log(b)'
  BY <1>1, <1>4 DEF Log, Frame
<1>6. OneRuns' /\ Shape' /\ Dead' /\ Fresh' /\ Settled' /\ Unbuilt' /\ Noting' /\ CommittedIsCredited'
  BY <1>1, <1>4, <1>5, SKeep
<1>7. s = "append" => dir'[base[p]]
  BY <1>1, <1>2 DEF IInv, TypeOK
<1>8. Clean'
  BY <1>1, <1>2, <1>4, <1>7 DEF SInv, Clean, Frame, Procs
<1>9. Turns'
  <2>1. base[p] # Origin(Target(p)) => s = "mutate"
    BY <1>1, <1>2, SPost
  <2> QED BY <1>1, <1>4, <2>1, SPost DEF SInv, Turns, Frame, Procs
<1> QED BY <1>6, <1>8, <1>9 DEF SInv

LEMMA SMutateRead ==
  ASSUME IInv, SInv, NEW p \in Posts, MutateRead(p)
  PROVE  SInv'
<1> USE TargetType, ProcsAssumption, CommitsAssumption
<1>1. /\ p \in Procs /\ p \in Running /\ pc[p] = "mutate" /\ base[p] \in Bases /\ p \notin Edits
      /\ UNCHANGED <<head, parent, orig, tree, disk, checkpoints, initial, notes, base, linked>>
      /\ pc' = [pc EXCEPT ![p] = "reopen"]
      /\ dir' = [dir EXCEPT ![base[p]] = TRUE]
      /\ buf' = [buf EXCEPT ![p] = checkpoints[base[p]]]
  BY DEF MutateRead, Running, SInv, Clean, IInv, TypeOK, repo, Goto, MakeDir
<1>2. /\ buf'[p] = checkpoints[base[p]] /\ checkpoints[base[p]] \in SUBSET Edits
      /\ \A q \in Procs \ {p} : buf'[q] = buf[q]
      /\ dir'[base[p]]
  BY <1>1 DEF IInv, TypeOK, SInv, Clean
<1>3. Frame(p) /\ pc'[p] = "reopen"
  BY <1>1, <1>2, SFrame
<1>4. \A b \in Bases : Log(b) \subseteq Log(b)'
  BY <1>1, <1>3 DEF Log, Frame
<1>5. OneRuns' /\ Shape' /\ Dead' /\ Fresh' /\ Settled' /\ Unbuilt' /\ Noting' /\ CommittedIsCredited'
  BY <1>1, <1>3, <1>4, SKeep
<1>6. Clean'
  BY <1>1, <1>2, <1>3 DEF SInv, Clean, Frame, Procs
<1>7. Turns'
  <2>1. base[p] # Origin(Target(p)) => buf'[p] = {}
    BY <1>1, <1>2, SPost
  <2> QED BY <1>1, <1>3, <2>1, SPost DEF SInv, Turns, Frame, Procs
<1> QED BY <1>5, <1>6, <1>7 DEF SInv

\* What is credited: everything the log holds and, for an amend, what the note
\* of the replaced commit credits.
LEMMA SBuild ==
  ASSUME IInv, SInv, NEW p \in Posts, BuildAttributions(p)
  PROVE  SInv'
<1> USE TargetType, ProcsAssumption, CommitsAssumption
<1>1. /\ p \in Procs /\ p \in Running /\ pc[p] = "build" /\ base[p] \in Bases /\ p \notin Edits
      /\ checkpoints[base[p]] # Corrupt /\ (~Amends(p) => buf[p] = checkpoints[base[p]])
      /\ UNCHANGED <<head, parent, orig, tree, disk, checkpoints, initial, notes, base, linked>>
      /\ pc' = [pc EXCEPT ![p] = "note"]
      /\ dir' = [dir EXCEPT ![base[p]] = TRUE]
  BY DEF BuildAttributions, Running, SInv, Clean, IInv, TypeOK, repo, Goto, MakeDir
<1>2. PICK credited \in Credited(p) : buf' = [buf EXCEPT ![p] = credited]
  BY <1>1 DEF BuildAttributions
<1>3. Target(p) = head /\ Pending /\ head \in Commits /\ base[p] = BaseOf(p)
  BY <1>1, SPost
<1>4. credited = checkpoints[base[p]] \cup initial[base[p]]
                   \cup (IF Amends(p) THEN Replaced(head) ELSE {})
  <2>1. CASE Amends(p)
    <3>1. orig[head] = base[p] /\ base[p] # None
      BY <1>1, <1>3, <2>1 DEF Amends
    <3> QED BY <1>1, <1>2, <2>1, <3>1 DEF Credited, Replaced
  <2>2. CASE ~Amends(p)
    BY <1>1, <1>2, <2>2 DEF Credited
  <2> QED BY <2>1, <2>2
<1>5. credited \in SUBSET Edits
  BY <1>1, <1>3, <1>4 DEF IInv, TypeOK, Replaced
<1>6. buf'[p] = credited /\ \A q \in Procs \ {p} : buf'[q] = buf[q]
  BY <1>1, <1>2 DEF IInv, TypeOK
<1>7. Frame(p) /\ pc'[p] = "note"
  BY <1>1, <1>5, <1>6, SFrame
<1>8. \A b : Log(b)' = Log(b) /\ Held(b) = {}
  BY <1>1, <1>7 DEF Log, Frame
<1>9. Replaced(head)' = Replaced(head)
  BY <1>1, <1>7 DEF Replaced, Frame
<1>10. OneRuns' /\ Dead' /\ Fresh' /\ CommittedIsCredited'
  BY <1>1, <1>7 DEF SInv, OneRuns, Dead, Fresh, CommittedIsCredited, Frame
<1>11. Shape'
  BY <1>1, <1>7 DEF SInv, Shape, Frame, Exists, Procs, IInv, TypeOK
<1>12. Clean'
  BY <1>1, <1>7 DEF SInv, Clean, Frame, Procs
<1>13. Turns'
  <2>1. base[p] # Origin(Target(p)) => credited = {}
    BY <1>1, <1>3, <1>4, SPost
  <2> QED BY <1>1, <1>3, <1>6, <1>7, <2>1 DEF SInv, Turns, Frame, Procs
<1>14. Settled'
  BY <1>3, <1>7 DEF Settled, Frame
<1>15. Notes(p) => Log(Origin(head)) \cup Replaced(head) = credited
  <2>1. Notes(p) => base[p] = Origin(head) /\ (Amends(p) \/ Replaced(head) = {})
    BY <1>3 DEF Notes, Origin, Amends, Replaced
  <2> QED BY <1>4, <1>8, <2>1 DEF Log
<1>16. Unbuilt'
  BY <1>1, <1>7, <1>8, <1>9 DEF SInv, Unbuilt, Frame, Procs
<1>17. Noting'
  <2>1. \A q \in Posts : pc[q] \notin {"note", "initial", "delete"} /\ (q # p => pc'[q] \notin {"note", "initial", "delete"})
    BY <1>1, <1>7 DEF Frame
  <2> QED BY <1>3, <1>6, <1>7, <1>8, <1>15, <2>1 DEF SInv, Unbuilt, Noting, Frame
<1> QED BY <1>10, <1>11, <1>12, <1>13, <1>14, <1>16, <1>17 DEF SInv

LEMMA SAddNote ==
  ASSUME IInv, SInv, NEW p \in Posts, AddNote(p)
  PROVE  SInv'
<1> USE TargetType, ProcsAssumption, CommitsAssumption, MarksAssumption
<1>1. /\ p \in Procs /\ p \in Running /\ pc[p] = "note" /\ base[p] \in Bases /\ p \notin Edits
      /\ UNCHANGED <<head, parent, orig, tree, disk, dir, checkpoints, initial, base, buf, linked>>
      /\ pc' = [pc EXCEPT ![p] = "initial"]
      /\ notes' = [notes EXCEPT ![Target(p)] = buf[p] \cap Introduced(Target(p))]
  BY DEF AddNote, Running, IInv, TypeOK, repo, Goto
<1>2. Target(p) = head /\ Pending /\ head \in Commits /\ Exists(head) /\ ~Handled(head)
  BY <1>1, SPost DEF Pending
<1>3. Frame(p) /\ pc'[p] = "initial"
  <2>1. buf'[p] \subseteq Edits /\ \A q \in Procs \ {p} : buf'[q] = buf[q]
    BY <1>1 DEF IInv, TypeOK
  <2> QED BY <1>1, <2>1, SFrame
<1>4. /\ \A b : Log(b)' = Log(b)
      /\ notes'[head] = buf[p] \cap Introduced(head) /\ notes'[head] # NoNote
      /\ \A c \in Commits \ {head} : notes'[c] = notes[c]
  <2>1. buf[p] \cap Introduced(head) \in SUBSET Edits
    BY <1>1 DEF IInv, TypeOK
  <2> QED BY <1>1, <1>2, <1>3, <2>1 DEF Log, Frame, IInv, TypeOK
<1>5. Replaced(head)' = Replaced(head)
  BY <1>1, <1>2, <1>4 DEF Replaced, SInv, Shape, IInv, TypeOK
<1>6. OneRuns' /\ Dead' /\ Fresh' /\ Clean'
  BY <1>1, <1>3 DEF SInv, OneRuns, Dead, Fresh, Clean, Frame, Procs
<1>7. CommittedIsCredited'
  BY <1>1, <1>2, <1>3, <1>4 DEF SInv, CommittedIsCredited, Frame
<1>8. Shape'
  BY <1>1, <1>2, <1>3, <1>4 DEF SInv, Shape, Frame, Exists, Procs, IInv, TypeOK
<1>9. Turns'
  <2>1. \A q \in Posts \ {p} : q \notin Running /\ q \notin Running' /\ pc[q] \notin {"initial", "delete"}
    BY <1>3 DEF Frame, Running
  <2> QED BY <1>1, <1>2, <1>3, <1>4, <2>1 DEF SInv, Turns, Frame, Procs
<1>10. Settled'
  BY <1>2, <1>3 DEF Settled, Frame
<1>11. \A q \in Posts \ {p} : pc[q] \notin {"note", "initial", "delete"} /\ pc'[q] \notin {"note", "initial", "delete"}
  BY <1>3 DEF Frame
<1>12. Unbuilt'
  BY <1>1, <1>3, <1>4, <1>5, <1>11 DEF SInv, Unbuilt, Frame
<1>13. Noting'
  BY <1>1, <1>2, <1>3, <1>4, <1>11 DEF SInv, Noting, Frame
<1> QED BY <1>6, <1>7, <1>8, <1>9, <1>10, <1>12, <1>13 DEF SInv

\* What is not in the commit moves to the log of the new HEAD, whose INITIAL
\* is still empty: nobody else has handled the commit.
LEMMA SWriteInitial ==
  ASSUME IInv, SInv, NEW p \in Posts, WriteInitial(p)
  PROVE  SInv'
<1> USE TargetType, ProcsAssumption, CommitsAssumption, MarksAssumption
<1> DEFINE rest == buf[p] \ tree[head]
<1>1. Target(p) = head /\ Pending /\ head \in Commits /\ head \in Bases /\ Exists(head)
      /\ p \in Procs /\ p \in Running /\ pc[p] = "initial"
  <2>1. pc[p] = "initial" /\ p \in Procs /\ p \in Running
    BY DEF WriteInitial, Running
  <2> QED BY <2>1, SPost DEF Bases
<1>2. /\ base[p] \in Bases /\ p \notin Edits
      /\ UNCHANGED <<head, parent, orig, tree, disk, checkpoints, notes, base, buf, linked>>
      /\ pc' = [pc EXCEPT ![p] = "delete"]
      /\ initial' = IF rest = {} THEN initial ELSE [initial EXCEPT ![head] = rest]
      /\ \A b \in Bases : dir[b] => dir'[b]
  BY <1>1 DEF WriteInitial, MakeDir, IInv, TypeOK, repo, Goto
<1>3. Frame(p) /\ pc'[p] = "delete"
  <2>1. buf'[p] \subseteq Edits /\ \A q \in Procs \ {p} : buf'[q] = buf[q]
    BY <1>2 DEF IInv, TypeOK
  <2> QED BY <1>1, <1>2, <2>1, SFrame
<1>4. /\ initial[head] = {} /\ initial'[head] = rest
      /\ \A b \in Bases \ {head} : initial'[b] = initial[b]
  <2>1. initial[head] = {}
    BY <1>1, <1>3 DEF SInv, Fresh, Frame
  <2> QED BY <1>1, <1>2, <2>1 DEF IInv, TypeOK
<1>5. base[p] # Origin(head) => rest = {} /\ initial' = initial
  BY <1>1, <1>2 DEF SInv, Turns
<1>6. OneRuns' /\ Clean' /\ CommittedIsCredited'
  BY <1>1, <1>2, <1>3 DEF SInv, OneRuns, Clean, CommittedIsCredited, Frame, Procs, IInv, TypeOK
<1>7. Dead'
  BY <1>2, <1>3, <1>4 DEF SInv, Dead, Frame
<1>8. Fresh'
  BY <1>1, <1>3, <1>4, <1>5 DEF SInv, Fresh, Frame, Notes
<1>9. Shape'
  <2>1. \A c \in Commits : ~Exists(c) => initial'[c] = initial[c]
    BY <1>1, <1>4 DEF Bases
  <2> QED BY <1>2, <1>3, <2>1 DEF SInv, Shape, Frame, Exists, Procs, IInv, TypeOK
<1>10. Turns'
  BY <1>1, <1>2, <1>3 DEF SInv, Turns, Frame, Procs
<1>11. Settled'
  BY <1>1, <1>3 DEF Settled, Frame
<1>12. \A q \in Posts \ {p} : pc[q] \notin {"note", "initial", "delete"} /\ pc'[q] \notin {"note", "initial", "delete"}
  BY <1>3 DEF Frame
<1>13. \A b \in Bases : Log(b) \subseteq Log(b)' /\ Held(b) = {}
  BY <1>1, <1>2, <1>3, <1>4 DEF Log, Frame
<1>14. Unbuilt'
  <2>1. Origin(head) \in Bases
    BY <1>1 DEF Origin, IInv, TypeOK, History, Bases, Exists
  <2>2. Replaced(head)' = Replaced(head)
    BY <1>2 DEF Replaced
  <2> QED BY <1>1, <1>2, <1>3, <1>12, <1>13, <2>1, <2>2 DEF SInv, Unbuilt, Frame
<1>15. Noting'
  <2>1. Notes(p) => (disk \ tree[head]) \cap Acknowledged \subseteq rest \cup Log(head)
    BY <1>1 DEF SInv, Noting
  <2>2. rest \subseteq Log(head)'
    BY <1>2, <1>4 DEF Log
  <2> QED BY <1>1, <1>2, <1>3, <1>12, <1>13, <2>1, <2>2 DEF SInv, Noting, Frame
<1> QED BY <1>6, <1>7, <1>8, <1>9, <1>10, <1>11, <1>14, <1>15 DEF SInv

\* The end of a post-commit: HEAD is handled, and its old log holds nothing
\* that is not in the note or in the log of HEAD.
LEMMA SDelete ==
  ASSUME IInv, SInv, NEW p \in Posts, DeleteLog(p)
  PROVE  SInv'
<1> USE TargetType, ProcsAssumption, CommitsAssumption, MarksAssumption
<1>1. /\ p \in Procs /\ p \in Running /\ pc[p] = "delete" /\ base[p] \in Bases /\ p \notin Edits
      /\ UNCHANGED <<head, parent, orig, tree, disk, notes, base, buf>>
      /\ pc' = [pc EXCEPT ![p] = "done"]
      /\ checkpoints' = [checkpoints EXCEPT ![base[p]] = {}]
      /\ initial' = [initial EXCEPT ![base[p]] = {}]
  BY DEF DeleteLog, Running, IInv, TypeOK, repo, Goto
<1>2. /\ Target(p) = head /\ Pending /\ head \in Commits /\ head \in Bases /\ Exists(head)
      /\ ~Handled(head) /\ base[p] # head
      /\ base[p] # Origin(head) => checkpoints[base[p]] = {} /\ initial[base[p]] = {} /\ orig[head] # None
  BY <1>1, SPost DEF Pending, Bases
<1>3. /\ checkpoints'[base[p]] = {} /\ initial'[base[p]] = {}
      /\ \A b \in Bases \ {base[p]} : checkpoints'[b] = checkpoints[b] /\ initial'[b] = initial[b]
  BY <1>1 DEF IInv, TypeOK
<1>4. /\ pc'[p] = "done" /\ \A q \in Procs \ {p} : pc'[q] = pc[q] /\ pc[q] \in {"idle", "done"}
      /\ Running = {p} /\ Running' = {} /\ Acknowledged' = Acknowledged
      /\ \A b : Held(b) = {} /\ Held(b)' = {}
  <2>1. pc'[p] = "done" /\ \A q \in Procs \ {p} : pc'[q] = pc[q] /\ pc[q] \in {"idle", "done"}
    BY <1>1 DEF SInv, OneRuns, Clean, Running, IInv, TypeOK
  <2> QED BY <1>1, <2>1 DEF Running, Held, Acknowledged, Procs
<1>5. Log(head)' = Log(head)
  BY <1>1, <1>2, <1>3, <1>4 DEF Log
<1>6. /\ \A c \in Commits : Origin(c)' = Origin(c) /\ Introduced(c)' = Introduced(c)
      /\ Origin(head)' = Origin(head) /\ Introduced(head)' = Introduced(head)
      /\ \A q \in Posts : BaseOf(q)' = BaseOf(q) /\ (Notes(q)' <=> Notes(q)) /\ (Amends(q)' <=> Amends(q))
  BY <1>1 DEF Origin, Introduced, BaseOf, Notes, Amends
<1>7. /\ \A c \in Commits \ {head} : Handled(c)' <=> Handled(c)
      /\ Handled(head)' <=> base[p] = Origin(head)
      /\ Pending' <=> base[p] # Origin(head)
  <2>1. \A c \in Commits \ {head} : Handled(c)' <=> Handled(c)
    BY <1>1, <1>2, <1>4, <1>6 DEF Handled
  <2>2. Handled(head)' <=> base[p] = Origin(head)
    BY <1>1, <1>2, <1>4, <1>6 DEF Handled
  <2> QED BY <1>1, <1>2, <2>1, <2>2 DEF Pending
<1>8. OneRuns' /\ Clean'
  BY <1>1, <1>3, <1>4 DEF SInv, OneRuns, Clean, Procs
<1>9. Shape'
  <2>1. \A c \in Commits : ~Exists(c) => checkpoints'[c] = {} /\ initial'[c] = {} /\ notes'[c] = NoNote
    BY <1>1, <1>3 DEF SInv, Shape, Bases
  <2> QED BY <1>1, <1>4, <1>7, <2>1 DEF SInv, Shape, Exists, Procs, IInv, TypeOK
<1>10. Turns'
  BY <1>1, <1>2, <1>4, <1>6, <1>7 DEF SInv, Turns, Procs
<1>11. Dead'
  BY <1>1, <1>2, <1>3, <1>6, <1>7 DEF SInv, Dead
<1>12. CASE base[p] = Origin(head)
  <2>1. Notes(p)
    BY <1>2, <1>12 DEF Notes
  <2>2. CommittedIsCredited'
    BY <1>1, <1>2, <1>4, <1>6, <1>7, <2>1 DEF SInv, Noting, CommittedIsCredited
  <2>3. Settled'
    BY <1>1, <1>2, <1>4, <1>5, <2>1 DEF SInv, Noting, Settled
  <2>4. Fresh' /\ Unbuilt' /\ Noting'
    BY <1>7, <1>12 DEF Fresh, Unbuilt, Noting
  <2> QED BY <1>8, <1>9, <1>10, <1>11, <2>2, <2>3, <2>4 DEF SInv
<1>13. CASE base[p] # Origin(head)
  <2>1. checkpoints' = checkpoints /\ initial' = initial
    BY <1>1, <1>2, <1>13 DEF IInv, TypeOK
  <2>2. ~Notes(p) /\ (Pending' <=> Pending) /\ \A b : Log(b)' = Log(b)
    BY <1>2, <1>4, <1>7, <1>13, <2>1 DEF Notes, Log
  <2>3. CommittedIsCredited'
    BY <1>1, <1>2, <1>4, <1>6, <1>7, <1>13 DEF SInv, CommittedIsCredited
  <2>4. \A q \in Posts \ {p} : pc'[q] = pc[q] /\ pc[q] \in {"idle", "done"}
    BY <1>4
  <2>5. Settled' /\ Fresh' /\ Unbuilt' /\ Noting'
    BY <1>1, <1>2, <1>4, <1>6, <2>1, <2>2, <2>4
    DEF SInv, Settled, Fresh, Unbuilt, Noting, Replaced
  <2> QED BY <1>8, <1>9, <1>10, <1>11, <2>3, <2>5 DEF SInv
<1> QED BY <1>12, <1>13

LEMMA SStep == ASSUME IInv, SInv, Serial, [Next]_vars PROVE SInv'
<1>1. CASE UNCHANGED vars
  BY <1>1
  DEF vars, SInv, OneRuns, Clean, Shape, Turns, Dead, Fresh, Settled, Unbuilt, Noting,
      CommittedIsCredited, Running, Amends, Exists, Handled, Origin, Introduced, Pending,
      BaseOf, Replaced, Notes, Held, Log, Acknowledged
<1>2. ASSUME NEW p \in Procs PROVE ~Kill(p)
  BY DEF Kill, Serial, IInv, TypeOK
<1>3. CASE \E p \in Posts : MutateOpen(p) \/ MutateWrite(p)
  BY <1>3, SOpen, SWrite, TargetType DEF MutateOpen, MutateWrite
<1> QED
  BY <1>1, <1>2, <1>3, StepKinds, SEdit, SNewHead, SStartCheckpoint, SScan, SAppend,
     SStartPost, SSkipNoted, SHuman, SMutateRead, SBuild, SAddNote, SWriteInitial, SDelete

LEMMA SInvariance == ASSUME Serial PROVE Spec => []SInv
BY Invariance, SInit, SStep, PTL DEF Spec

\* As long as the commands run one at a time and none is killed, every edit
\* whose checkpoint exited 0 is in the note of the handled commit that
\* introduces it, or in the log of HEAD.
THEOREM NothingIsLost == ASSUME Serial PROVE Spec => []NothingLost
<1>1. IInv /\ SInv => NothingLost
  <2> SUFFICES ASSUME IInv, SInv, Running = {} PROVE NothingLost
    BY DEF NothingLost
  <2>1. \A b : Held(b) = {}
    BY DEF Held, Running
  <2>2. head \in Bases /\ Log(head) = Waiting(head)
    BY <2>1 DEF IInv, TypeOK, SInv, Clean, Log, Waiting
  <2> QED BY <2>2 DEF SInv, Settled, Pending, NothingLost, UncommittedWaits
<1> QED BY <1>1, SInvariance, Invariance, PTL

\* And a note, once written, is never shortened: the process that is about to
\* write one finds the commit without.
THEOREM NotesAreKept == ASSUME Serial PROVE Spec => NoteKept
<1>1. ASSUME IInv, SInv, [Next]_vars, NEW c \in Commits, notes[c] # NoNote, notes'[c] # NoNote
      PROVE  notes[c] \subseteq notes'[c]
  <2>1. CASE UNCHANGED notes
    BY <2>1
  <2>2. CASE \E p \in Posts : StartPost(p)
    BY <1>1, <2>2, TargetType DEF StartPost, IInv, TypeOK
  <2>3. CASE \E p \in Posts : AddNote(p)
    <3>1. PICK p \in Posts : AddNote(p)
      BY <2>3
    <3>2. p \in Running /\ notes[Target(p)] = NoNote
      BY <1>1, <3>1, TargetType DEF AddNote, Running, SInv, Turns
    <3> QED BY <1>1, <3>1, <3>2, TargetType DEF AddNote, IInv, TypeOK
  <2> QED
    BY <1>1, <2>1, <2>2, <2>3, StepKinds
    DEF vars, files, Edit, Commit, Amend, StartCheckpoint, Scan, AppendRead, AppendOpen,
        AppendWrite, OpenLog, WriteLog, Kill, SkipNoted, HumanCheckpoint, MutateRead,
        MutateOpen, MutateWrite, BuildAttributions, WriteInitial, DeleteLog
<1>2. IInv /\ SInv /\ [Next]_vars =>
        [\A c \in Commits : notes[c] # NoNote /\ notes'[c] # NoNote => notes[c] \subseteq notes'[c]]_vars
  BY <1>1
<1> QED BY <1>2, SInvariance, Invariance, PTL DEF Spec, NoteKept
=============================================================================
