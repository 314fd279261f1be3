--------------------------- MODULE ExecutionLogs ---------------------------
(***************************************************************************)
(* The extension's SessionLogWatcher: Kiro writes execution logs (formats  *)
(* A and B); the watcher notices them and sends the write actions they     *)
(* list to `git-ai checkpoint`, one human/AI pair per repository.          *)
(*                                                                         *)
(* The extension host runs one callback at a time.  A task is a chain of   *)
(* callbacks; it is interrupted where the code awaits, and the steps of a  *)
(* task below are the stretches between two awaits.                        *)
(***************************************************************************)
EXTENDS Naturals, FiniteSets, SequencesExt

CONSTANTS
  Logs, Dirs,    \* execution logs, and the 414d* directories they are in
  DirOf,         \* the directory of a log
  Old,           \* logs of sessions that ended before the model starts
  Actions,       \* the accepted write actions, on files of a repository
  LogOf, RepoOf, \* the log an action is listed in, the repository it edits
  Repos,
  Deleting,      \* actions that leave a file with fewer lines than HEAD has
  Keys,          \* <path>:<emittedAt>
  RawKey,        \* of an action, with the path as the log spells it
  RepoKey,       \* of an action, with the path relative to the repository
  Workers,       \* tasks for expired debounce timers
  Starter,       \* the task of start() and of its cold-start scan
  Finder,        \* the task that sets up a directory found later
  NoLog, NoRepo, \* the log and the repository of an idle task
  ColdLimit,     \* COLD_START_SCAN_LIMIT
  MaxMarked,     \* MAX_CHECKPOINTED_ACTIONS
  MaxFaults      \* bound on failed checkpoints and restarts together

Tasks == Workers \cup {Starter, Finder}
ActionsOf(l) == {a \in Actions : LogOf[a] = l}

ASSUME TablesAssumption ==
  /\ IsFiniteSet(Actions)
  /\ DirOf \in [Logs -> Dirs] /\ Old \subseteq Logs
  /\ LogOf \in [Actions -> Logs] /\ RepoOf \in [Actions -> Repos]
  /\ RawKey \in [Actions -> Keys] /\ RepoKey \in [Actions -> Keys]
  /\ Deleting \subseteq Actions
ASSUME TasksAssumption ==
  /\ IsFiniteSet(Workers)
  /\ Starter \notin Workers /\ Finder \notin Workers \cup {Starter}
  /\ NoLog \notin Logs /\ NoRepo \notin Repos
ASSUME BoundsAssumption ==
  {ColdLimit, MaxMarked, MaxFaults} \subseteq Nat

VARIABLES
  written, torn, \* actions on disk; logs in the middle of a write
  order,         \* the log files of a directory, the last written first
  made,          \* directories that exist
  listed,        \* logs whose session is in sessions.json of the workspace
  watched,       \* watchedExecLogDirs
  fresh,         \* directories whose 200 ms timer runs
  pending,       \* pendingChanges
  lastSize,      \* lastProcessedSize
  sessionIds,    \* the sessions known: logs that belong to one
  cooling,       \* less than 10 s since the last refresh of sessionIds
  marked,        \* checkpointedActions
  pc, log,       \* of a task: its next step, the log it processes
  parsed, todo,  \* the actions it has read, and those it has yet to send
  turn,          \* the repository it sends to
  queue,         \* the files it has yet to snapshot or to process
  coldDirs,      \* directories the cold-start scan has yet to list
  sent,          \* how often an action went through an AI checkpoint
  netDel,        \* .git/ai/kiro_net_deletions: the deletions it counts
  refused,       \* history: actions whose AI checkpoint failed
  dropped,       \* history: actions passed over (see NothingElseIsLost)
  forgot,        \* history: keys of sent actions that were evicted or lost
  overlapped,    \* history: logs dispatched by two tasks at once
  blind,         \* history: a start() found no session of the workspace
  faults         \* failed checkpoints and restarts so far

disk == <<written, torn, order, made, listed>>
memory == <<watched, fresh, pending, lastSize, sessionIds, cooling, marked>>
tasks == <<pc, log, parsed, todo, turn, queue, coldDirs>>
gitai == <<sent, netDel>>
history == <<refused, dropped, forgot, overlapped, blind, faults>>
vars == <<written, torn, order, made, listed, watched, fresh, pending, lastSize,
          sessionIds, cooling, marked, pc, log, parsed, todo, turn, queue,
          coldDirs, sent, netDel, refused, dropped, forgot, overlapped, blind, faults>>

Steps == {"off", "dirs", "snap", "cold", "idle", "stat", "read",
          "filter", "refresh", "human", "ai"}

\* A file changes its size with every write, and in the middle of one.
Size(l) == 2 * Cardinality(written \cap ActionsOf(l)) + (IF l \in torn THEN 1 ELSE 0)
Sizes == 0 .. 2 * Cardinality(Actions) + 1

\* Every variable keeps its type, a task has a log exactly while it
\* processes one, and actions to send exactly while it sends.
TypeOK ==
  /\ written \subseteq Actions /\ torn \subseteq Logs
  /\ order \in [Dirs -> Seq(Logs)] /\ made \subseteq Dirs /\ listed \subseteq Logs
  /\ watched \subseteq made /\ fresh \subseteq made
  /\ pending \subseteq Logs
  /\ lastSize \in [Logs -> Sizes]
  /\ sessionIds \subseteq listed /\ cooling \in BOOLEAN
  /\ marked \subseteq Keys
  /\ pc \in [Tasks -> Steps]
  /\ log \in [Tasks -> Logs \cup {NoLog}]
  /\ parsed \in [Tasks -> SUBSET Actions] /\ todo \in [Tasks -> SUBSET Actions]
  /\ turn \in [Tasks -> Repos \cup {NoRepo}]
  /\ queue \in [Tasks -> Seq(Logs)] /\ coldDirs \subseteq Dirs
  /\ sent \in [Actions -> Nat] /\ netDel \in [Repos -> SUBSET Deleting]
  /\ refused \subseteq Actions /\ dropped \subseteq Actions
  /\ forgot \subseteq Keys /\ overlapped \subseteq Logs /\ blind \in BOOLEAN
  /\ faults \in 0 .. MaxFaults
  /\ \A t \in Tasks :
       /\ log[t] \in Logs <=> pc[t] \in {"stat", "read", "filter", "refresh", "human", "ai"}
       /\ todo[t] # {} <=> pc[t] \in {"human", "ai"}
       /\ todo[t] \subseteq parsed[t]
       /\ \A a \in parsed[t] : LogOf[a] = log[t]

\* The memory of an extension host that has just started.
Blank == [t \in Tasks |-> IF t = Starter THEN "off" ELSE "idle"]

Init ==
  /\ written = {} /\ torn = {} /\ order = [d \in Dirs |-> <<>>] /\ made = {} /\ listed \in SUBSET Old
  /\ watched = {} /\ fresh = {} /\ pending = {} /\ lastSize = [l \in Logs |-> 0]
  /\ sessionIds = {} /\ cooling = FALSE /\ marked = {}
  /\ pc = Blank /\ log = [t \in Tasks |-> NoLog]
  /\ parsed = [t \in Tasks |-> {}] /\ todo = [t \in Tasks |-> {}]
  /\ turn = [t \in Tasks |-> NoRepo]
  /\ queue = [t \in Tasks |-> <<>>] /\ coldDirs = {}
  /\ sent = [a \in Actions |-> 0] /\ netDel = [r \in Repos |-> {}]
  /\ refused = {} /\ dropped = {} /\ forgot = {} /\ overlapped = {} /\ blind = FALSE
  /\ faults = 0

----------------------------------------------------------------------------
\* Kiro (outside the program).

Touch_UnlessBusy(l) ==  \* no timer while the log is being processed
  /\ order' = [order EXCEPT ![DirOf[l]] = Cons(l, RemoveFirst(@, l))]
  /\ pending' = IF DirOf[l] \in watched /\ \A t \in Tasks : log[t] # l
                  THEN pending \cup {l} ELSE pending

\* A write inside a watched directory raises an event, and handleFileChange
\* restarts the timer of the file.
Touch(l) ==
  /\ order' = [order EXCEPT ![DirOf[l]] = Cons(l, RemoveFirst(@, l))]
  /\ pending' = IF DirOf[l] \in watched THEN pending \cup {l} ELSE pending

BeginWrite(l) ==
  /\ l \notin Old /\ DirOf[l] \in made /\ l \notin torn /\ ~(ActionsOf(l) \subseteq written)
  /\ torn' = torn \cup {l}
  /\ Touch(l)
  /\ UNCHANGED <<written, made, listed, watched, fresh, lastSize, sessionIds,
                 cooling, marked>>
  /\ UNCHANGED <<tasks, gitai, history>>

EndWrite(l) ==
  /\ l \in torn
  /\ \E more \in SUBSET (ActionsOf(l) \ written) :
       more # {} /\ written' = written \cup more
  /\ torn' = torn \ {l}
  /\ Touch(l)
  /\ UNCHANGED <<made, listed, watched, fresh, lastSize, sessionIds, cooling, marked>>
  /\ UNCHANGED <<tasks, gitai, history>>

RegisterSession(l) ==
  /\ l \notin listed \cup Old
  /\ listed' = listed \cup {l}
  /\ UNCHANGED <<written, torn, order, made>>
  /\ UNCHANGED <<memory, tasks, gitai, history>>

\* The watcher of the parent directory starts a timer for the new directory.
MakeDir(d) ==
  /\ d \notin made
  /\ made' = made \cup {d}
  /\ fresh' = IF pc[Starter] # "off" THEN fresh \cup {d} ELSE fresh
  /\ UNCHANGED <<written, torn, order, listed, watched, pending, lastSize,
                 sessionIds, cooling, marked>>
  /\ UNCHANGED <<tasks, gitai, history>>

----------------------------------------------------------------------------
\* start(): read the sessions, watch each directory and snapshot its files,
\* then scan the most recent files of each.

Goto(t, step) == pc' = [pc EXCEPT ![t] = step]

ReadSessions ==
  /\ pc[Starter] = "off"
  /\ sessionIds' = listed
  /\ blind' = (blind \/ listed = {})
  /\ Goto(Starter, "dirs")
  /\ UNCHANGED <<watched, fresh, pending, lastSize, cooling, marked>>
  /\ UNCHANGED <<log, parsed, todo, turn, queue, coldDirs>>
  /\ UNCHANGED <<refused, dropped, forgot, overlapped, faults>>
  /\ UNCHANGED <<disk, gitai>>

\* watchExecLogDir, and the listing snapshotExistingFiles starts with.
WatchDir(t, d) ==
  /\ d \in made \ watched
  /\ \/ t = Starter /\ pc[t] = "dirs" /\ fresh' = fresh
     \/ t = Finder /\ pc[t] = "idle" /\ d \in fresh /\ fresh' = fresh \ {d}
  /\ watched' = watched \cup {d}
  /\ queue' = [queue EXCEPT ![t] = order[d]]
  /\ Goto(t, "snap")
  /\ UNCHANGED <<pending, lastSize, sessionIds, cooling, marked>>
  /\ UNCHANGED <<log, parsed, todo, turn, coldDirs>>
  /\ UNCHANGED <<disk, gitai, history>>

\* The timer of a directory start() has found meanwhile does nothing.
KnownDir(d) ==
  /\ d \in fresh \cap watched
  /\ fresh' = fresh \ {d}
  /\ UNCHANGED <<watched, pending, lastSize, sessionIds, cooling, marked>>
  /\ UNCHANGED <<disk, tasks, gitai, history>>

\* snapshotExistingFiles, one file.  What a file of a new directory lists so
\* far counts as seen.
Snapshot(t) ==
  LET files == queue[t]
      rest == IF files = <<>> THEN <<>> ELSE Tail(files) IN
  /\ pc[t] = "snap"
  /\ IF files = <<>>
       THEN UNCHANGED <<lastSize, dropped>>
       ELSE LET l == Head(files) IN
            /\ lastSize' = [lastSize EXCEPT ![l] = Size(l)]
            /\ dropped' = IF t = Finder THEN dropped \cup (written \cap ActionsOf(l))
                          ELSE dropped
  /\ queue' = [queue EXCEPT ![t] = rest]
  /\ IF rest = <<>>
       THEN Goto(t, IF t = Starter THEN "dirs" ELSE "idle")
       ELSE UNCHANGED pc
  /\ UNCHANGED <<watched, fresh, pending, sessionIds, cooling, marked>>
  /\ UNCHANGED <<log, parsed, todo, turn, coldDirs, refused, forgot, overlapped,
                 blind, faults>>
  /\ UNCHANGED <<disk, gitai>>

\* runColdStartScan, once every directory start() has listed is watched.
StartCold ==
  /\ pc[Starter] = "dirs" /\ made \subseteq watched \cup fresh
  /\ coldDirs' = watched
  /\ Goto(Starter, "cold")
  /\ UNCHANGED <<log, parsed, todo, turn, queue>>
  /\ UNCHANGED <<disk, memory, gitai, history>>

\* The ColdLimit most recent files of a directory; the others are passed over.
Slice(d) ==
  LET files == order[d] IN
  SubSeq(files, 1, IF Len(files) < ColdLimit THEN Len(files) ELSE ColdLimit)
Recent(d) == {Slice(d)[i] : i \in 1 .. Len(Slice(d))}

ListCold(d) ==
  /\ pc[Starter] = "cold" /\ d \in coldDirs
  /\ coldDirs' = coldDirs \ {d}
  /\ IF Slice(d) = <<>>
       THEN UNCHANGED <<pc, log, queue>>
       ELSE /\ Goto(Starter, "read")
            /\ log' = [log EXCEPT ![Starter] = Head(Slice(d))]
            /\ queue' = [queue EXCEPT ![Starter] = Tail(Slice(d))]
  /\ dropped' = dropped \cup
       {a \in written : DirOf[LogOf[a]] = d /\ LogOf[a] \notin Recent(d)}
  /\ UNCHANGED <<parsed, todo, turn, refused, forgot, overlapped, blind, faults>>
  /\ UNCHANGED <<disk, memory, gitai>>

----------------------------------------------------------------------------
\* handleFileChange and checkAndProcess.

FireTimer(t, l) ==
  /\ t \in Workers /\ pc[t] = "idle" /\ l \in pending
  /\ pending' = pending \ {l}
  /\ log' = [log EXCEPT ![t] = l]
  /\ Goto(t, "stat")
  /\ UNCHANGED <<watched, fresh, lastSize, sessionIds, cooling, marked>>
  /\ UNCHANGED <<parsed, todo, turn, queue, coldDirs>>
  /\ UNCHANGED <<disk, gitai, history>>

\* The task ends; the cold-start scan goes on to its next file.
Finish(t) ==
  /\ IF t = Starter /\ queue[t] # <<>>
       THEN /\ Goto(t, "read")
            /\ log' = [log EXCEPT ![t] = Head(queue[t])]
            /\ queue' = [queue EXCEPT ![t] = Tail(@)]
       ELSE /\ Goto(t, IF t = Starter THEN "cold" ELSE "idle")
            /\ log' = [log EXCEPT ![t] = NoLog]
            /\ UNCHANGED queue
  /\ parsed' = [parsed EXCEPT ![t] = {}]
  /\ todo' = [todo EXCEPT ![t] = {}]
  /\ turn' = [turn EXCEPT ![t] = NoRepo]

\* The size is remembered before the file is processed.
CheckSize(t) ==
  LET l == log[t] IN
  /\ pc[t] = "stat"
  /\ IF lastSize[l] = Size(l)
       THEN Finish(t) /\ UNCHANGED lastSize
       ELSE /\ Goto(t, "read")
            /\ lastSize' = [lastSize EXCEPT ![l] = Size(l)]
            /\ UNCHANGED <<log, parsed, todo, turn, queue>>
  /\ UNCHANGED <<watched, fresh, pending, sessionIds, cooling, marked, coldDirs>>
  /\ UNCHANGED <<disk, gitai, history>>

----------------------------------------------------------------------------
\* processExecutionLog.

\* A file in the middle of a write does not parse and names no session.
ReadLog(t) ==
  LET l == log[t] IN
  /\ pc[t] = "read"
  /\ IF l \in torn
       THEN Finish(t)
       ELSE /\ Goto(t, "filter")
            /\ parsed' = [parsed EXCEPT ![t] = written \cap ActionsOf(l)]
            /\ UNCHANGED <<log, todo, turn, queue>>
  /\ UNCHANGED coldDirs
  /\ UNCHANGED <<disk, memory, gitai, history>>

Dispatch_All(t) ==  \* marks not consulted
  /\ Goto(t, "human")
  /\ todo' = [todo EXCEPT ![t] = parsed[t]]
  /\ overlapped' = IF \E u \in Tasks \ {t} : log[u] = log[t] /\ pc[u] \in {"human", "ai"}
                     THEN overlapped \cup {log[t]} ELSE overlapped
  /\ UNCHANGED <<netDel, log, parsed, turn, queue, dropped>>

\* The net deletions of the whole log replace those of any log before it;
\* then the actions already marked are left out.
Dispatch(t) ==
  LET new == {a \in parsed[t] : RawKey[a] \notin marked}
      net(r) == {a \in parsed[t] \cap Deleting : RepoOf[a] = r} IN
  /\ netDel' = [r \in Repos |-> IF net(r) # {} THEN net(r) ELSE netDel[r]]
  /\ IF new = {}
       THEN Finish(t) /\ UNCHANGED overlapped
       ELSE /\ Goto(t, "human")
            /\ todo' = [todo EXCEPT ![t] = new]
            /\ overlapped' =
                 IF \E u \in Tasks \ {t} : log[u] = log[t] /\ pc[u] \in {"human", "ai"}
                   THEN overlapped \cup {log[t]} ELSE overlapped
            /\ UNCHANGED <<log, parsed, turn, queue>>
  /\ UNCHANGED dropped

Skip(t) ==
  /\ Finish(t)
  /\ dropped' = dropped \cup parsed[t]
  /\ UNCHANGED <<netDel, overlapped>>

\* A log of an unknown session has sessions.json read again, at most every
\* 10 s; while no session is known every log passes.
FilterSession(t) ==
  /\ pc[t] = "filter"
  /\ IF sessionIds = {} \/ log[t] \in sessionIds
       THEN Dispatch(t) /\ UNCHANGED cooling
       ELSE IF cooling
       THEN Skip(t) /\ UNCHANGED cooling
       ELSE /\ Goto(t, "refresh")
            /\ cooling' = TRUE
            /\ UNCHANGED <<log, parsed, todo, turn, queue, netDel, overlapped, dropped>>
  /\ UNCHANGED <<watched, fresh, pending, lastSize, sessionIds, marked, coldDirs,
                 sent, refused, forgot, blind, faults>>
  /\ UNCHANGED disk

RefreshSessions_NotChecked(t) ==  \* passes whatever the refresh finds
  /\ pc[t] = "refresh"
  /\ sessionIds' = IF Cardinality(listed) > Cardinality(sessionIds) THEN listed ELSE sessionIds
  /\ Dispatch(t)
  /\ UNCHANGED <<watched, fresh, pending, lastSize, cooling, marked, coldDirs,
                 sent, refused, forgot, blind, faults>>
  /\ UNCHANGED disk

RefreshSessions(t) ==
  LET ids == IF Cardinality(listed) > Cardinality(sessionIds) THEN listed ELSE sessionIds IN
  /\ pc[t] = "refresh"
  /\ sessionIds' = ids
  /\ IF log[t] \in ids THEN Dispatch(t) ELSE Skip(t)
  /\ UNCHANGED <<watched, fresh, pending, lastSize, cooling, marked, coldDirs,
                 sent, refused, forgot, blind, faults>>
  /\ UNCHANGED disk

\* 10 s pass.
CoolDown ==
  /\ cooling
  /\ cooling' = FALSE
  /\ UNCHANGED <<watched, fresh, pending, lastSize, sessionIds, marked>>
  /\ UNCHANGED <<disk, tasks, gitai, history>>

\* The human checkpoint of a repository; what it returns is only logged.
SendHuman(t) ==
  /\ pc[t] = "human"
  /\ \E a \in todo[t] : turn' = [turn EXCEPT ![t] = RepoOf[a]]
  /\ Goto(t, "ai")
  /\ UNCHANGED <<log, parsed, todo, queue, coldDirs>>
  /\ UNCHANGED <<disk, memory, gitai, history>>

Group(t) == {a \in todo[t] : RepoOf[a] = turn[t]}
KeysOf(S) == {RepoKey[a] : a \in S}

\* On to the next repository; after the last one the oldest marks above the
\* cap go (which ones is left open).
NextRepo(t, marks) ==
  LET rest == todo[t] \ Group(t) IN
  IF rest # {}
    THEN /\ todo' = [todo EXCEPT ![t] = rest]
         /\ Goto(t, "human")
         /\ marked' = marks /\ forgot' = forgot
         /\ turn' = [turn EXCEPT ![t] = NoRepo]
         /\ UNCHANGED <<log, parsed, queue>>
    ELSE /\ Finish(t)
         /\ \E old \in SUBSET marks :
              /\ IF Cardinality(marks) > MaxMarked
                   THEN Cardinality(old) = Cardinality(marks) - MaxMarked
                   ELSE old = {}
              /\ marked' = marks \ old
              /\ forgot' = forgot \cup old

\* The AI checkpoint exits 0: its actions are marked.
SendAi(t) ==
  /\ pc[t] = "ai"
  /\ sent' = [a \in Actions |-> IF a \in Group(t) THEN sent[a] + 1 ELSE sent[a]]
  /\ NextRepo(t, marked \cup KeysOf(Group(t)))
  /\ UNCHANGED <<watched, fresh, pending, lastSize, sessionIds, cooling, coldDirs,
                 netDel, refused, dropped, overlapped, blind, faults>>
  /\ UNCHANGED disk

AiFails_Marks(t) ==  \* marked whatever the checkpoint returned
  /\ pc[t] = "ai" /\ faults < MaxFaults
  /\ faults' = faults + 1
  /\ refused' = refused \cup Group(t)
  /\ NextRepo(t, marked \cup KeysOf(Group(t)))
  /\ UNCHANGED <<watched, fresh, pending, lastSize, sessionIds, cooling, coldDirs,
                 sent, netDel, dropped, overlapped, blind>>
  /\ UNCHANGED disk

\* It fails: the other repositories are served all the same.
AiFails(t) ==
  /\ pc[t] = "ai" /\ faults < MaxFaults
  /\ faults' = faults + 1
  /\ refused' = refused \cup Group(t)
  /\ NextRepo(t, marked)
  /\ UNCHANGED <<watched, fresh, pending, lastSize, sessionIds, cooling, coldDirs,
                 sent, netDel, dropped, overlapped, blind>>
  /\ UNCHANGED disk

\* The extension host ends and starts again (dispose clears every map); an AI
\* checkpoint under way may have finished all the same.
Restart ==
  /\ pc[Starter] # "off" /\ faults < MaxFaults
  /\ faults' = faults + 1
  /\ \E done \in SUBSET {t \in Tasks : pc[t] = "ai"} :
       /\ sent' = [a \in Actions |-> sent[a] + Cardinality({t \in done : a \in Group(t)})]
       /\ forgot' = forgot \cup marked \cup UNION {KeysOf(Group(t)) : t \in done}
  /\ watched' = {} /\ fresh' = {} /\ pending' = {} /\ lastSize' = [l \in Logs |-> 0]
  /\ sessionIds' = {} /\ cooling' = FALSE /\ marked' = {}
  /\ pc' = Blank /\ log' = [t \in Tasks |-> NoLog]
  /\ parsed' = [t \in Tasks |-> {}] /\ todo' = [t \in Tasks |-> {}]
  /\ turn' = [t \in Tasks |-> NoRepo]
  /\ queue' = [t \in Tasks |-> <<>>] /\ coldDirs' = {}
  /\ UNCHANGED <<netDel, refused, dropped, overlapped, blind>>
  /\ UNCHANGED disk

----------------------------------------------------------------------------
Starting == ReadSessions \/ (\E d \in Dirs : WatchDir(Starter, d))
              \/ StartCold \/ \E d \in Dirs : ListCold(d)
NewDir(d) == WatchDir(Finder, d) \/ KnownDir(d)
Step(t) ==
  \/ Snapshot(t) \/ CheckSize(t) \/ ReadLog(t)
  \/ FilterSession(t) \/ RefreshSessions(t) \/ SendHuman(t) \/ SendAi(t) \/ AiFails(t)

Next ==
  \/ \E l \in Logs : BeginWrite(l) \/ EndWrite(l) \/ RegisterSession(l)
  \/ \E d \in Dirs : MakeDir(d) \/ NewDir(d)
  \/ \E t \in Tasks : Step(t) \/ \E l \in Logs : FireTimer(t, l)
  \/ Starting \/ CoolDown \/ Restart

\* Kiro finishes a write it has begun; timers expire and callbacks run.
Fairness ==
  /\ \A l \in Logs : WF_vars(EndWrite(l)) /\ WF_vars(\E t \in Workers : FireTimer(t, l))
  /\ \A t \in Tasks : WF_vars(Step(t))
  /\ \A d \in Dirs : WF_vars(NewDir(d))
  /\ WF_vars(Starting)

Spec == Init /\ [][Next]_vars
FairSpec == Spec /\ Fairness

----------------------------------------------------------------------------
\* What the code promises.

\* An action is marked as checkpointed only when an AI checkpoint with its key
\* exited 0 (a failed one stays eligible for the next time its log grows).
MarkedWasSent == \A k \in marked : \E a \in Actions : RepoKey[a] = k /\ sent[a] > 0

\* An action goes through one AI checkpoint only, unless its mark was lost,
\* its raw and marked keys differ, or two tasks dispatched its log at once:
\* checkpointedActions "prevents duplicate checkpoints" no further than that.
SentOnce ==
  \A a \in Actions : sent[a] > 1 =>
    \/ RepoKey[a] \in forgot \/ RepoKey[a] # RawKey[a] \/ LogOf[a] \in overlapped

\* Actions of sessions the workspace does not list stay out, unless start()
\* found no session at all.
OnlyOwnSessions == \A a \in Actions : sent[a] > 0 => LogOf[a] \in listed \/ blind

\* Every action Kiro writes is sent, or its checkpoint failed, or it was passed
\* over: it was in a new directory before the watcher was (Snapshot), beyond
\* the cold-start limit (ListCold), of an unknown session (Skip), or its key is
\* that of another action.  No interleaving of writes, timers, tasks, start()
\* and restarts loses an action in any other way.
Shadowed(a) == \E b \in Actions \ {a} : RepoKey[b] = RawKey[a]
NothingElseIsLost ==
  \A a \in Actions :
    a \in written ~> sent[a] > 0 \/ a \in refused \cup dropped \/ Shadowed(a)

\* When nothing runs, the net deletions of a repository count those of every
\* action sent to it (there is no commit in this module).
Quiet == pending = {} /\ \A t \in Tasks : pc[t] \in {"idle", "cold"}
NetDeletionsAreTotal ==
  Quiet => \A a \in Deleting : sent[a] > 0 => a \in netDel[RepoOf[a]]
=============================================================================
