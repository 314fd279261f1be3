---------------------------- MODULE MessagesTail ----------------------------
(***************************************************************************)
(* The other half of the extension's SessionLogWatcher: Kiro 1.0 appends   *)
(* the messages of a session to one messages.jsonl (format C), and the     *)
(* watcher reads what was added since the byte offset it keeps in memory.  *)
(* A write action takes two lines, the tool call and its result, and both  *)
(* must be in the piece that is read.                                      *)
(*                                                                         *)
(* One session of the workspace is modelled; its folder is in a hash       *)
(* folder that exists.  As in ExecutionLogs, a step is the stretch between *)
(* two awaits.                                                             *)
(***************************************************************************)
EXTENDS Naturals, FiniteSets

CONSTANTS
  Lines,            \* how many lines Kiro will write
  Actions,          \* the successful write actions, on files of a repository
  CallAt, ResultAt, \* the lines of an action
  Repos, RepoOf,    \* the repository an action edits
  Keys,             \* <path>:<emittedAt>
  RawKey,           \* of an action, with the path as the line spells it
  RepoKey,          \* of an action, with the path relative to the repository
  Workers,          \* tasks for expired debounce timers
  Opener,           \* the task that initOffset starts
  NoRepo,           \* no group of a task's actions
  MaxMarked,        \* MAX_CHECKPOINTED_ACTIONS
  MaxFaults         \* bound on failed checkpoints and restarts together

Tasks == Workers \cup {Opener}

ASSUME LinesAssumption ==
  /\ Lines \in Nat
  /\ CallAt \in [Actions -> 1 .. Lines] /\ ResultAt \in [Actions -> 1 .. Lines]
  /\ \A a \in Actions : CallAt[a] < ResultAt[a]
ASSUME TablesAssumption ==
  /\ RepoOf \in [Actions -> Repos] /\ NoRepo \notin Repos
  /\ RawKey \in [Actions -> Keys] /\ RepoKey \in [Actions -> Keys]
  /\ IsFiniteSet(Workers) /\ Opener \notin Workers
ASSUME BoundsAssumption == MaxMarked \in Nat /\ MaxFaults \in Nat

VARIABLES
  folder, file, \* the session's folder and its messages.jsonl exist
  size,         \* of the file, in halves of a line
  aged,         \* nothing was written to it for COLD_START_WINDOW_MS
  start,        \* how far startFormatCMonitoring is
  noticed,      \* the 500 ms timer of the session's folder runs
  open,         \* watchMessagesJsonl: not called, waiting for stat, watching
  offset,       \* formatCBytesRead
  pending,      \* formatCPending
  marked,       \* checkpointedActions
  pc,           \* of a task: its next step
  from, upto,   \* the piece of the file it reads
  todo,         \* the actions it has yet to send
  sent,         \* how often an action went through a checkpoint
  refused,      \* history: actions whose checkpoint failed
  passed,       \* history: actions an old file had when it was opened
  cut,          \* history: actions whose lines were read in two pieces
  forgot,       \* history: keys of sent actions that were evicted or lost
  overlapped,   \* history: actions two tasks had to send at once
  faults        \* failed checkpoints and restarts so far

disk == <<folder, file, size, aged>>
watch == <<start, noticed, open>>
tasks == <<pc, from, upto, todo>>
history == <<refused, passed, cut, forgot, overlapped, faults>>
vars == <<folder, file, size, aged, start, noticed, open, offset, pending, marked,
          pc, from, upto, todo, sent, refused, passed, cut, forgot, overlapped, faults>>

Whole(n) == n - (n % 2)   \* up to the last newline of the first n halves
OnLines == {n \in 0 .. 2 * Lines : n % 2 = 0}

Init ==
  /\ folder = FALSE /\ file = FALSE /\ size = 0 /\ aged = FALSE
  /\ start = "off" /\ noticed = FALSE /\ open = "no"
  /\ offset = 0 /\ pending = FALSE /\ marked = {}
  /\ pc = [t \in Tasks |-> "idle"]
  /\ from = [t \in Tasks |-> 0] /\ upto = [t \in Tasks |-> 0]
  /\ todo = [t \in Tasks |-> {}]
  /\ sent = [a \in Actions |-> 0]
  /\ refused = {} /\ passed = {} /\ cut = {} /\ forgot = {} /\ overlapped = {}
  /\ faults = 0

----------------------------------------------------------------------------
\* Kiro (outside the program).

\* The folder raises the one event the watcher of the hash folder gets.
MakeFolder ==
  /\ ~folder
  /\ folder' = TRUE
  /\ noticed' = (start = "up")
  /\ UNCHANGED <<file, size, aged, start, open, offset, pending, marked, sent>>
  /\ UNCHANGED <<tasks, history>>

MakeFile ==
  /\ folder /\ ~file
  /\ file' = TRUE
  /\ pending' = (open # "no")
  /\ UNCHANGED <<folder, size, aged, offset, marked, sent>>
  /\ UNCHANGED <<watch, tasks, history>>

Append_UnlessBusy ==  \* no timer while a task reads the file
  /\ file
  /\ size' \in size + 1 .. 2 * Lines
  /\ aged' = FALSE
  /\ pending' = (pending \/ (open # "no" /\ \A t \in Tasks : pc[t] # "read"))
  /\ UNCHANGED <<folder, file, offset, marked, sent>>
  /\ UNCHANGED <<watch, tasks, history>>

\* A write may end in the middle of a line.  The event restarts the timer.
Append ==
  /\ file
  /\ size' \in size + 1 .. 2 * Lines
  /\ aged' = FALSE
  /\ pending' = (pending \/ open # "no")
  /\ UNCHANGED <<folder, file, offset, marked, sent>>
  /\ UNCHANGED <<watch, tasks, history>>

\* Seven days pass before the extension is started (again); Kiro has finished
\* the line it was at.
Age ==
  /\ start = "off" /\ file /\ size = Whole(size)
  /\ aged' = TRUE
  /\ UNCHANGED <<folder, file, size, offset, pending, marked, sent>>
  /\ UNCHANGED <<watch, tasks, history>>

----------------------------------------------------------------------------
\* startFormatCMonitoring: list the sessions, then watch the hash folder.

\* Only a session whose messages.jsonl exists is listed.
Discover ==
  /\ start = "off"
  /\ start' = "listed"
  /\ open' = IF file THEN "stat" ELSE open
  /\ UNCHANGED <<noticed, offset, pending, marked, sent>>
  /\ UNCHANGED <<disk, tasks, history>>

WatchHashDir ==
  /\ start = "listed"
  /\ start' = "up"
  /\ UNCHANGED <<noticed, open, offset, pending, marked, sent>>
  /\ UNCHANGED <<disk, tasks, history>>

\* The timer runs once: a file that is not there yet is not looked for again.
LookIntoFolder ==
  /\ noticed
  /\ noticed' = FALSE
  /\ open' = IF file /\ open = "no" THEN "stat" ELSE open
  /\ UNCHANGED <<start, offset, pending, marked, sent>>
  /\ UNCHANGED <<disk, tasks, history>>

\* initOffset: an old file is passed over, another one read from its start.
InitOffset ==
  /\ open = "stat"
  /\ open' = "yes"
  /\ IF aged
       THEN /\ offset' = size
            /\ passed' = passed \cup {a \in Actions : 2 * CallAt[a] <= size}
            /\ UNCHANGED pc
       ELSE /\ offset' = 0
            /\ pc' = [pc EXCEPT ![Opener] = "stat"]
            /\ UNCHANGED passed
  /\ UNCHANGED <<start, noticed, pending, marked, from, upto, todo, sent>>
  /\ UNCHANGED <<refused, cut, forgot, overlapped, faults>>
  /\ UNCHANGED disk

----------------------------------------------------------------------------
\* debounceFormatC and processMessagesJsonlIncremental.

FireTimer(t) ==
  /\ t \in Workers /\ pending /\ pc[t] = "idle"
  /\ pending' = FALSE
  /\ pc' = [pc EXCEPT ![t] = "stat"]
  /\ UNCHANGED <<offset, marked, from, upto, todo, sent>>
  /\ UNCHANGED <<disk, watch, history>>

\* The offset is looked up when stat has answered.
Stat(t) ==
  /\ pc[t] = "stat"
  /\ IF size <= offset
       THEN pc' = [pc EXCEPT ![t] = "idle"] /\ UNCHANGED <<from, upto>>
       ELSE /\ pc' = [pc EXCEPT ![t] = "read"]
            /\ from' = [from EXCEPT ![t] = offset]
            /\ upto' = [upto EXCEPT ![t] = size]
  /\ UNCHANGED <<offset, pending, marked, todo, sent>>
  /\ UNCHANGED <<disk, watch, history>>

Within(i, lo, hi) == lo < 2 * i /\ 2 * i <= hi
Parsed(lo, hi) ==
  {a \in Actions : Within(CallAt[a], lo, hi) /\ Within(ResultAt[a], lo, hi)}
Torn(lo, hi) ==
  {a \in Actions : Within(CallAt[a], lo, hi) /\ ~Within(ResultAt[a], lo, hi)}

\* processFormatCActions, up to its first checkpoint.
Filter_All(t, new) ==  \* marks not consulted
  /\ todo' = [todo EXCEPT ![t] = new]
  /\ pc' = [pc EXCEPT ![t] = IF new = {} THEN "idle" ELSE "send"]
  /\ overlapped' = overlapped \cup (new \cap UNION {todo[u] : u \in Tasks \ {t}})

\* Actions already marked are left out.
Filter(t, acts) ==
  LET new == {a \in acts : RawKey[a] \notin marked} IN
  /\ todo' = [todo EXCEPT ![t] = new]
  /\ pc' = [pc EXCEPT ![t] = IF new = {} THEN "idle" ELSE "send"]
  /\ overlapped' = overlapped \cup (new \cap UNION {todo[u] : u \in Tasks \ {t}})

Reset(t) ==
  /\ from' = [from EXCEPT ![t] = 0]
  /\ upto' = [upto EXCEPT ![t] = 0]

Read_ToTheEnd(t) ==  \* on to the size, past the half line at the end
  /\ pc[t] = "read"
  /\ offset' = upto[t]
  /\ cut' = cut \cup Torn(from[t], Whole(upto[t]))
  /\ Filter(t, Parsed(from[t], Whole(upto[t])))
  /\ Reset(t)
  /\ UNCHANGED <<pending, marked, sent, refused, passed, forgot, faults>>
  /\ UNCHANGED <<disk, watch>>

\* The piece ends at its last newline.  The offset moves before the actions
\* are sent, and moves back if another task has read further.
Read(t) ==
  LET end == Whole(upto[t]) IN
  /\ pc[t] = "read"
  /\ IF end <= from[t]
       THEN /\ pc' = [pc EXCEPT ![t] = "idle"]
            /\ UNCHANGED <<offset, todo, cut, overlapped>>
       ELSE /\ offset' = end
            /\ cut' = cut \cup Torn(from[t], end)
            /\ Filter(t, Parsed(from[t], end))
  /\ Reset(t)
  /\ UNCHANGED <<pending, marked, sent, refused, passed, forgot, faults>>
  /\ UNCHANGED <<disk, watch>>

----------------------------------------------------------------------------
\* processFormatCActions, one checkpoint per repository.

Group(t, r) == {a \in todo[t] : RepoOf[a] = r}
KeysOf(S) == {RepoKey[a] : a \in S}

NextGroup(t, r) ==
  LET rest == todo[t] \ Group(t, r) IN
  /\ todo' = [todo EXCEPT ![t] = rest]
  /\ pc' = [pc EXCEPT ![t] = IF rest = {} THEN "idle" ELSE "send"]
  /\ UNCHANGED <<from, upto>>

\* The checkpoint exits 0: its actions are marked, and the oldest marks above
\* the cap go (which ones is left open).
Send(t, r) ==
  LET marks == marked \cup KeysOf(Group(t, r)) IN
  /\ pc[t] = "send" /\ Group(t, r) # {}
  /\ sent' = [a \in Actions |-> IF a \in Group(t, r) THEN sent[a] + 1 ELSE sent[a]]
  /\ \E old \in SUBSET marks :
       /\ IF Cardinality(marks) > MaxMarked
            THEN Cardinality(old) = Cardinality(marks) - MaxMarked
            ELSE old = {}
       /\ marked' = marks \ old
       /\ forgot' = forgot \cup old
  /\ NextGroup(t, r)
  /\ UNCHANGED <<offset, pending, refused, passed, cut, overlapped, faults>>
  /\ UNCHANGED <<disk, watch>>

\* It fails, or the repository has no git folder: its actions are lost, as the
\* offset is past them.
SendFails(t, r) ==
  /\ pc[t] = "send" /\ Group(t, r) # {} /\ faults < MaxFaults
  /\ faults' = faults + 1
  /\ refused' = refused \cup Group(t, r)
  /\ NextGroup(t, r)
  /\ UNCHANGED <<offset, pending, marked, sent, passed, cut, forgot, overlapped>>
  /\ UNCHANGED <<disk, watch>>

\* The extension host ends and starts again (dispose clears every map); of
\* each task one checkpoint may have been under way and finished all the same.
Restart ==
  /\ start # "off" /\ faults < MaxFaults
  /\ faults' = faults + 1
  /\ \E last \in [Tasks -> Repos \cup {NoRepo}] :
       LET done(t) == Group(t, last[t]) IN
       /\ sent' = [a \in Actions |-> sent[a] + Cardinality({t \in Tasks : a \in done(t)})]
       /\ forgot' = forgot \cup marked \cup UNION {KeysOf(done(t)) : t \in Tasks}
  /\ start' = "off" /\ noticed' = FALSE /\ open' = "no"
  /\ offset' = 0 /\ pending' = FALSE /\ marked' = {}
  /\ pc' = [t \in Tasks |-> "idle"]
  /\ from' = [t \in Tasks |-> 0] /\ upto' = [t \in Tasks |-> 0]
  /\ todo' = [t \in Tasks |-> {}]
  /\ UNCHANGED <<refused, passed, cut, overlapped>>
  /\ UNCHANGED disk

----------------------------------------------------------------------------
Starting == Discover \/ WatchHashDir \/ LookIntoFolder \/ InitOffset
Step(t) == Stat(t) \/ Read(t) \/ \E r \in Repos : Send(t, r) \/ SendFails(t, r)

Next ==
  \/ MakeFolder \/ MakeFile \/ Append \/ Age
  \/ Starting
  \/ \E t \in Tasks : FireTimer(t) \/ Step(t)
  \/ Restart

\* Timers expire and callbacks run; Kiro owes nothing.
Fairness ==
  /\ WF_vars(Starting)
  /\ WF_vars(\E t \in Workers : FireTimer(t))
  /\ \A t \in Tasks : WF_vars(Step(t))

Spec == Init /\ [][Next]_vars
FairSpec == Spec /\ Fairness

----------------------------------------------------------------------------
\* What the code promises.

\* Every variable keeps its type; the offset, and the place a task reads from,
\* is the end of a line ("advancing straight to stat.size would skip past that
\* partial line") and never past the end of the file.
TypeOK ==
  /\ folder \in BOOLEAN /\ file \in BOOLEAN /\ (file => folder)
  /\ size \in 0 .. 2 * Lines /\ aged \in BOOLEAN
  /\ start \in {"off", "listed", "up"} /\ noticed \in BOOLEAN
  /\ open \in {"no", "stat", "yes"} /\ (open # "no" => file)
  /\ offset \in OnLines /\ offset <= size
  /\ pending \in BOOLEAN /\ marked \subseteq Keys
  /\ pc \in [Tasks -> {"idle", "stat", "read", "send"}]
  /\ from \in [Tasks -> OnLines] /\ upto \in [Tasks -> 0 .. 2 * Lines]
  /\ todo \in [Tasks -> SUBSET Actions]
  /\ \A t \in Tasks :
       /\ from[t] <= upto[t] /\ upto[t] <= size
       /\ pc[t] = "send" <=> todo[t] # {}
  /\ sent \in [Actions -> Nat]
  /\ refused \subseteq Actions /\ passed \subseteq Actions /\ cut \subseteq Actions
  /\ forgot \subseteq Keys /\ overlapped \subseteq Actions
  /\ faults \in 0 .. MaxFaults

\* An action goes through one checkpoint only, although the offset can move
\* back, unless its mark was lost, its raw and marked keys differ, or two
\* tasks held it at once.
SentOnce ==
  \A a \in Actions : sent[a] > 1 =>
    RepoKey[a] \in forgot \/ RepoKey[a] # RawKey[a] \/ a \in overlapped

\* Every action whose two lines are on disk is sent, or its checkpoint failed,
\* or the file was old when it was opened, or its two lines were read in two
\* pieces, or its key is that of another action, or the session came in a
\* moment startFormatCMonitoring does not look (and no restart followed).  No
\* other interleaving of writes, timers, tasks and restarts loses one.
OnDisk(a) == 2 * ResultAt[a] <= size
Shadowed(a) == \E b \in Actions \ {a} : RepoKey[b] = RawKey[a]
Unnoticed == start = "up" /\ open = "no" /\ ~noticed
NothingElseIsLost ==
  \A a \in Actions :
    OnDisk(a) ~> \/ sent[a] > 0 \/ a \in refused \cup passed \cup cut
                 \/ Shadowed(a) \/ Unnoticed
=============================================================================
