------------------------ MODULE ExecutionLogsProofs ------------------------
(***************************************************************************)
(* Proofs about ExecutionLogs for every set of logs, actions, repositories *)
(* and tasks, every limit and every number of faults.                      *)
(***************************************************************************)
EXTENDS ExecutionLogs, SequenceTheorems, FiniteSetTheorems,
        WellFoundedInduction, TLAPS

----------------------------------------------------------------------------
\* Sequences of logs.

\* A non-empty set of positions has a first one.
LEMMA FirstPosition ==
  ASSUME NEW I \in SUBSET Nat, I # {} PROVE Min(I) \in I
<1> DEFINE Less == {ss \in Nat \X Nat : ss[1] < ss[2]}
<1>1. IsWellFoundedOn(Less, Nat)
  BY NatLessThanWellFounded, Zenon DEF OpToRel
<1> HIDE DEF Less
<1>2. PICK x \in I : \A y \in I : <<y, x>> \notin Less
  BY <1>1, WFMin, Zenon
<1>3. ASSUME NEW y \in I, y < x PROVE FALSE
  <2>1. <<y, x>> \in Nat \X Nat /\ <<y, x>>[1] < <<y, x>>[2]
    BY <1>3
  <2>2. <<y, x>> \in Less
    BY <2>1, Zenon DEF Less
  <2> QED BY <1>2, <2>2
<1>4. \A y \in I : x =< y
  BY <1>3
<1> QED BY <1>4 DEF Min

\* Taking a log out of a list leaves a list of logs.
LEMMA RemoveFirstType ==
  ASSUME NEW s \in Seq(Logs), NEW l PROVE RemoveFirst(s, l) \in Seq(Logs)
<1> DEFINE I == {i \in 1 .. Len(s) : s[i] = l}
<1>1. /\ Len(s) \in Nat /\ \A i \in 1 .. Len(s) : s[i] \in Logs
      /\ I \in SUBSET Nat /\ I \subseteq 1 .. Len(s)
  OBVIOUS
<1>2. CASE I = {}
  BY <1>2 DEF RemoveFirst
<1>3. CASE I # {}
  <2> DEFINE m == Min(I)
  <2>1. RemoveFirst(s, l) = RemoveAt(s, m)
    BY <1>3 DEF RemoveFirst, SelectInSeq
  <2>2. m \in I
    <3> HIDE DEF I
    <3> QED BY <1>1, <1>3, FirstPosition
  <2>3. m \in 1 .. Len(s)
    BY <1>1, <2>2
  <2> HIDE DEF m
  <2>4. SubSeq(s, 1, m - 1) \in Seq(Logs) /\ SubSeq(s, m + 1, Len(s)) \in Seq(Logs)
    <3>1. /\ \A i \in 1 .. m - 1 : s[i] \in Logs
          /\ \A i \in m + 1 .. Len(s) : s[i] \in Logs
      BY <1>1, <2>3
    <3> QED BY <1>1, <2>3, <3>1, SubSeqProperties
  <2> QED BY <2>1, <2>4, ConcatProperties DEF RemoveAt
<1> QED BY <1>2, <1>3

----------------------------------------------------------------------------
\* The type invariant in four parts.

DiskType ==
  /\ written \subseteq Actions /\ torn \subseteq Logs
  /\ order \in [Dirs -> Seq(Logs)] /\ made \subseteq Dirs /\ listed \subseteq Logs
  /\ watched \subseteq made /\ fresh \subseteq made
  /\ pending \subseteq Logs

MemoryType ==
  /\ lastSize \in [Logs -> Sizes]
  /\ sessionIds \subseteq listed /\ cooling \in BOOLEAN
  /\ marked \subseteq Keys /\ coldDirs \subseteq Dirs

TaskFields ==
  /\ pc \in [Tasks -> Steps]
  /\ log \in [Tasks -> Logs \cup {NoLog}]
  /\ parsed \in [Tasks -> SUBSET Actions] /\ todo \in [Tasks -> SUBSET Actions]
  /\ turn \in [Tasks -> Repos \cup {NoRepo}]
  /\ queue \in [Tasks -> Seq(Logs)]

Busy == {"stat", "read", "filter", "refresh", "human", "ai"}
Sending == {"human", "ai"}

Coherent(t) ==
  /\ log[t] \in Logs <=> pc[t] \in Busy
  /\ todo[t] # {} <=> pc[t] \in Sending
  /\ todo[t] \subseteq parsed[t]
  /\ \A a \in parsed[t] : LogOf[a] = log[t]

TaskType == TaskFields /\ \A t \in Tasks : Coherent(t)

HistoryType ==
  /\ sent \in [Actions -> Nat] /\ netDel \in [Repos -> SUBSET Deleting]
  /\ refused \subseteq Actions /\ dropped \subseteq Actions
  /\ forgot \subseteq Keys /\ overlapped \subseteq Logs /\ blind \in BOOLEAN
  /\ faults \in 0 .. MaxFaults

LEMMA TypeParts == TypeOK <=> DiskType /\ MemoryType /\ TaskType /\ HistoryType
BY DEF TypeOK, DiskType, MemoryType, TaskType, TaskFields, Coherent, Busy, Sending, HistoryType

LEMMA ConstantTypes ==
  /\ DirOf \in [Logs -> Dirs] /\ LogOf \in [Actions -> Logs]
  /\ RepoOf \in [Actions -> Repos]
  /\ RawKey \in [Actions -> Keys] /\ RepoKey \in [Actions -> Keys]
  /\ Old \subseteq Logs /\ Deleting \subseteq Actions
  /\ Starter \in Tasks /\ Finder \in Tasks /\ Starter # Finder
  /\ NoLog \notin Logs /\ NoRepo \notin Repos
  /\ ColdLimit \in Nat /\ MaxMarked \in Nat /\ MaxFaults \in Nat
BY TablesAssumption, TasksAssumption, BoundsAssumption DEF Tasks

LEMMA SizeType ==
  ASSUME NEW l \in Logs PROVE Size(l) \in Sizes
<1>1. /\ IsFiniteSet(written \cap ActionsOf(l))
      /\ Cardinality(written \cap ActionsOf(l)) \in Nat
      /\ Cardinality(Actions) \in Nat
      /\ Cardinality(written \cap ActionsOf(l)) <= Cardinality(Actions)
  BY TablesAssumption, FS_Subset, FS_CardinalityType DEF ActionsOf
<1> QED BY <1>1 DEF Size, Sizes

LEMMA FiniteTasks == IsFiniteSet(Tasks)
<1>1. IsFiniteSet(Workers \cup {Starter})
  BY TasksAssumption, FS_AddElement
<1>2. Tasks = (Workers \cup {Starter}) \cup {Finder}
  BY DEF Tasks
<1> QED BY <1>1, <1>2, FS_AddElement

LEMMA NoSize == 0 \in Sizes
BY TablesAssumption, FS_CardinalityType DEF Sizes

\* What a step of the list or of a task leaves is typed.
LEMMA TouchType ==
  ASSUME order \in [Dirs -> Seq(Logs)], pending \subseteq Logs,
         NEW l \in Logs, Touch(l)
  PROVE  order' \in [Dirs -> Seq(Logs)] /\ pending' \subseteq Logs
<1>1. DirOf[l] \in Dirs
  BY ConstantTypes
<1>2. Cons(l, RemoveFirst(order[DirOf[l]], l)) \in Seq(Logs)
  <2>1. RemoveFirst(order[DirOf[l]], l) \in Seq(Logs)
    BY <1>1, RemoveFirstType
  <2> QED BY <2>1, ConcatProperties DEF Cons
<1> QED BY <1>1, <1>2 DEF Touch

LEMMA SliceType ==
  ASSUME NEW d \in Dirs, order \in [Dirs -> Seq(Logs)] PROVE Slice(d) \in Seq(Logs)
<1>1. /\ order[d] \in Seq(Logs) /\ Len(order[d]) \in Nat
      /\ \A i \in 1 .. Len(order[d]) : order[d][i] \in Logs
      /\ 1 \in Int /\ Len(order[d]) \in Int /\ ColdLimit \in Int
  BY ConstantTypes
<1>2. \A n \in Int : n =< Len(order[d]) => SubSeq(order[d], 1, n) \in Seq(Logs)
  BY <1>1, SubSeqProperties
<1> QED BY <1>1, <1>2 DEF Slice

LEMMA FinishType ==
  ASSUME TaskType, NEW t \in Tasks, Finish(t) PROVE TaskType'
<1>1. /\ queue[t] \in Seq(Logs)
      /\ queue[t] # <<>> => Head(queue[t]) \in Logs /\ Tail(queue[t]) \in Seq(Logs)
  BY DEF TaskType, TaskFields
<1>2. TaskFields'
  BY <1>1 DEF Finish, Goto, TaskType, TaskFields, Steps
<1>3. Coherent(t)'
  BY <1>1, <1>2, ConstantTypes DEF Finish, Goto, TaskType, TaskFields, Coherent, Busy, Sending
<1>4. ASSUME NEW u \in Tasks, u # t PROVE Coherent(u)'
  <2>1. /\ pc'[u] = pc[u] /\ log'[u] = log[u]
        /\ parsed'[u] = parsed[u] /\ todo'[u] = todo[u]
    BY <1>4 DEF Finish, Goto, TaskType, TaskFields
  <2> QED BY <2>1 DEF TaskType, Coherent
<1> QED BY <1>2, <1>3, <1>4 DEF TaskType

\* A task that goes on with its own log, whose actions it only reads or sends.
LEMMA GoOnType ==
  ASSUME TaskType, NEW t \in Tasks, pc[t] \in Busy, NEW step \in Busy, Goto(t, step),
         NEW S \in SUBSET Actions, NEW T \in SUBSET S, T # {} <=> step \in Sending,
         \A a \in S : LogOf[a] = log[t],
         parsed' = [parsed EXCEPT ![t] = S], todo' = [todo EXCEPT ![t] = T],
         NEW r \in Repos \cup {NoRepo}, turn' = [turn EXCEPT ![t] = r],
         UNCHANGED <<log, queue>>
  PROVE  TaskType'
<1>1. TaskFields'
  BY DEF TaskType, TaskFields, Goto, Busy, Steps
<1>2. Coherent(t)'
  BY DEF Goto, TaskType, TaskFields, Coherent, Busy
<1>3. ASSUME NEW u \in Tasks, u # t PROVE Coherent(u)'
  <2>1. /\ pc'[u] = pc[u] /\ log'[u] = log[u]
        /\ parsed'[u] = parsed[u] /\ todo'[u] = todo[u]
    BY <1>3 DEF Goto, TaskType, TaskFields
  <2> QED BY <2>1 DEF TaskType, Coherent
<1> QED BY <1>1, <1>2, <1>3 DEF TaskType

LEMMA DispatchType ==
  ASSUME TaskType, HistoryType, NEW t \in Tasks, pc[t] \in {"filter", "refresh"},
         Dispatch(t)
  PROVE  /\ TaskType'
         /\ netDel' \in [Repos -> SUBSET Deleting] /\ overlapped' \subseteq Logs
         /\ dropped' \subseteq Actions
<1>1. TaskType'
  <2> DEFINE new == {a \in parsed[t] : RawKey[a] \notin marked}
  <2>1. CASE new = {}
    BY <2>1, FinishType DEF Dispatch
  <2>2. CASE new # {}
    <3>1. /\ parsed[t] \in SUBSET Actions /\ new \in SUBSET parsed[t]
          /\ \A a \in parsed[t] : LogOf[a] = log[t]
          /\ turn[t] \in Repos \cup {NoRepo}
          /\ parsed = [parsed EXCEPT ![t] = parsed[t]]
          /\ turn = [turn EXCEPT ![t] = turn[t]]
      BY DEF TaskType, TaskFields, Coherent
    <3>2. /\ Goto(t, "human") /\ todo' = [todo EXCEPT ![t] = new]
          /\ UNCHANGED <<log, parsed, turn, queue>>
      BY <2>2 DEF Dispatch
    <3>3. "human" \in Busy \cap Sending /\ pc[t] \in Busy /\ new # {}
      BY <2>2 DEF Busy, Sending
    <3> HIDE DEF new
    <3> QED BY <3>1, <3>2, <3>3, GoOnType
  <2> QED BY <2>1, <2>2
<1>2. netDel' \in [Repos -> SUBSET Deleting]
  BY DEF Dispatch, HistoryType
<1>3. overlapped' \subseteq Logs /\ dropped' \subseteq Actions
  BY DEF Dispatch, TaskType, Coherent, Busy, Sending, HistoryType
<1> QED BY <1>1, <1>2, <1>3

LEMMA NextRepoType ==
  ASSUME TaskType, NEW t \in Tasks, pc[t] = "ai",
         NEW marks \in SUBSET Keys, forgot \subseteq Keys, NextRepo(t, marks)
  PROVE  TaskType' /\ marked' \subseteq Keys /\ forgot' \subseteq Keys
<1> DEFINE rest == todo[t] \ Group(t)
<1>1. CASE rest # {}
  <2>1. /\ parsed[t] \in SUBSET Actions /\ rest \in SUBSET parsed[t]
        /\ \A a \in parsed[t] : LogOf[a] = log[t]
        /\ parsed = [parsed EXCEPT ![t] = parsed[t]]
    BY DEF TaskType, TaskFields, Coherent
  <2>2. /\ Goto(t, "human") /\ todo' = [todo EXCEPT ![t] = rest]
        /\ turn' = [turn EXCEPT ![t] = NoRepo]
        /\ UNCHANGED <<log, parsed, queue>>
        /\ marked' = marks /\ forgot' = forgot
    BY <1>1 DEF NextRepo
  <2>3. "human" \in Busy \cap Sending /\ pc[t] \in Busy /\ rest # {}
    BY <1>1 DEF Busy, Sending
  <2> HIDE DEF rest
  <2> QED BY <2>1, <2>2, <2>3, GoOnType
<1>2. CASE rest = {}
  BY <1>2, FinishType DEF NextRepo
<1> QED BY <1>1, <1>2

LEMMA GroupType ==
  ASSUME TaskType, NEW t \in Tasks
  PROVE  Group(t) \subseteq todo[t] /\ Group(t) \subseteq Actions /\ KeysOf(Group(t)) \subseteq Keys
BY ConstantTypes DEF TaskType, TaskFields, Coherent, Group, KeysOf

LEMMA BlankType == Blank \in [Tasks -> {"off", "idle"}]
BY DEF Blank

----------------------------------------------------------------------------
\* Every step keeps the types.

LEMMA DiskStep ==
  ASSUME TypeOK, Next PROVE DiskType'
<1>0. DiskType /\ MemoryType /\ TaskType
  BY TypeParts
<1>1. ASSUME NEW l \in Logs, BeginWrite(l) \/ EndWrite(l) PROVE DiskType'
  <2>1. order' \in [Dirs -> Seq(Logs)] /\ pending' \subseteq Logs
    BY <1>0, <1>1, TouchType DEF DiskType, BeginWrite, EndWrite
  <2> QED BY <1>0, <1>1, <2>1 DEF DiskType, BeginWrite, EndWrite, ActionsOf
<1>2. ASSUME NEW l \in Logs, RegisterSession(l) PROVE DiskType'
  BY <1>0, <1>2 DEF DiskType, RegisterSession, memory
<1>3. ASSUME NEW d \in Dirs, MakeDir(d) \/ KnownDir(d) \/ \E t \in Tasks : WatchDir(t, d)
      PROVE  DiskType'
  BY <1>0, <1>3 DEF DiskType, MakeDir, KnownDir, WatchDir, disk
<1>4. ASSUME NEW t \in Tasks, NEW l \in Logs, FireTimer(t, l) PROVE DiskType'
  BY <1>0, <1>4 DEF DiskType, FireTimer, disk
<1>5. ASSUME NEW t \in Tasks, Step(t) PROVE DiskType'
  BY <1>0, <1>5 DEF DiskType, Step, Snapshot, CheckSize, ReadLog, FilterSession,
     RefreshSessions, SendHuman, SendAi, AiFails, disk, memory
<1>6. CASE ReadSessions \/ StartCold \/ (\E d \in Dirs : ListCold(d)) \/ CoolDown
  BY <1>0, <1>6 DEF DiskType, ReadSessions, StartCold, ListCold, CoolDown, disk, memory
<1>7. CASE Restart
  BY <1>0, <1>7 DEF DiskType, Restart, disk
<1> QED
  BY <1>1, <1>2, <1>3, <1>4, <1>5, <1>6, <1>7, ConstantTypes DEF Next, NewDir, Starting

LEMMA MemoryStep ==
  ASSUME TypeOK, Next PROVE MemoryType'
<1>0. DiskType /\ MemoryType /\ TaskType /\ HistoryType
  BY TypeParts
<1>1. ASSUME NEW l \in Logs, BeginWrite(l) \/ EndWrite(l) \/ RegisterSession(l)
      PROVE  MemoryType'
  BY <1>0, <1>1 DEF MemoryType, BeginWrite, EndWrite, RegisterSession, tasks, memory
<1>2. ASSUME NEW d \in Dirs, MakeDir(d) \/ KnownDir(d) \/ \E t \in Tasks : WatchDir(t, d)
      PROVE  MemoryType'
  BY <1>0, <1>2 DEF MemoryType, MakeDir, KnownDir, WatchDir, disk, tasks
<1>3. ASSUME NEW t \in Tasks, NEW l \in Logs, FireTimer(t, l) PROVE MemoryType'
  BY <1>0, <1>3 DEF MemoryType, FireTimer, disk
<1>4. ASSUME NEW t \in Tasks, Snapshot(t) PROVE MemoryType'
  <2>1. CASE queue[t] = <<>>
    BY <1>0, <1>4, <2>1 DEF MemoryType, Snapshot, disk
  <2>2. CASE queue[t] # <<>>
    <3>1. Head(queue[t]) \in Logs
      BY <1>0, <2>2 DEF TaskType, TaskFields
    <3>2. lastSize' = [lastSize EXCEPT ![Head(queue[t])] = Size(Head(queue[t]))]
      BY <1>4, <2>2 DEF Snapshot
    <3>3. Size(Head(queue[t])) \in Sizes
      BY <3>1, SizeType
    <3> QED BY <1>0, <1>4, <3>1, <3>2, <3>3 DEF MemoryType, Snapshot, disk
  <2> QED BY <2>1, <2>2
<1>5. ASSUME NEW t \in Tasks, CheckSize(t) PROVE MemoryType'
  <2>1. log[t] \in Logs
    BY <1>0, <1>5 DEF CheckSize, TaskType, Coherent, Busy, Sending
  <2>2. Size(log[t]) \in Sizes
    BY <2>1, SizeType
  <2> QED BY <1>0, <1>5, <2>1, <2>2 DEF MemoryType, CheckSize, disk
<1>6. ASSUME NEW t \in Tasks,
             ReadLog(t) \/ FilterSession(t) \/ RefreshSessions(t) \/ SendHuman(t)
      PROVE  MemoryType'
  BY <1>0, <1>6 DEF MemoryType, ReadLog, FilterSession, RefreshSessions, SendHuman,
     disk, memory
<1>7. ASSUME NEW t \in Tasks, SendAi(t) \/ AiFails(t) PROVE MemoryType'
  <2>1. pc[t] = "ai" /\ marked \in SUBSET Keys /\ forgot \subseteq Keys
        /\ marked \cup KeysOf(Group(t)) \in SUBSET Keys
    BY <1>0, <1>7, GroupType DEF SendAi, AiFails, MemoryType, HistoryType
  <2>2. NextRepo(t, marked \cup KeysOf(Group(t))) \/ NextRepo(t, marked)
    BY <1>7 DEF SendAi, AiFails
  <2>3. marked' \subseteq Keys
    BY <1>0, <2>1, <2>2, NextRepoType
  <2> QED BY <1>0, <1>7, <2>3 DEF MemoryType, SendAi, AiFails, disk
<1>8. CASE ReadSessions \/ StartCold \/ (\E d \in Dirs : ListCold(d)) \/ CoolDown
  BY <1>0, <1>8 DEF DiskType, MemoryType, ReadSessions, StartCold, ListCold, CoolDown,
     disk, memory, tasks
<1>9. CASE Restart
  BY <1>0, <1>9, NoSize DEF MemoryType, Restart, disk
<1> QED
  BY <1>1, <1>2, <1>3, <1>4, <1>5, <1>6, <1>7, <1>8, <1>9, ConstantTypes
     DEF Next, Step, NewDir, Starting

LEMMA TaskStep ==
  ASSUME TypeOK, Next PROVE TaskType'
<1>0. DiskType /\ MemoryType /\ TaskType /\ HistoryType
  BY TypeParts
<1>1. ASSUME UNCHANGED <<pc, log, parsed, todo, turn, queue>> PROVE TaskType'
  BY <1>0, <1>1 DEF TaskType, TaskFields, Coherent
<1>2. ASSUME NEW t \in Tasks, pc[t] \notin Busy, NEW step \in Steps \ Busy, Goto(t, step),
             NEW s \in Seq(Logs), queue' = [queue EXCEPT ![t] = s],
             UNCHANGED <<log, parsed, todo, turn>>
      PROVE  TaskType'
  <2>1. TaskFields'
    BY <1>0, <1>2 DEF TaskType, TaskFields, Goto
  <2>2. ASSUME NEW u \in Tasks PROVE Coherent(u)'
    <3>1. pc'[u] = pc[u] \/ {pc[u], pc'[u]} \cap (Busy \cup Sending) = {}
      BY <1>0, <1>2 DEF TaskType, TaskFields, Goto, Busy, Sending
    <3>2. log'[u] = log[u] /\ parsed'[u] = parsed[u] /\ todo'[u] = todo[u]
      BY <1>2
    <3> QED BY <1>0, <3>1, <3>2 DEF TaskType, Coherent
  <2> QED BY <2>1, <2>2 DEF TaskType
<1>3. ASSUME NEW t \in Tasks, pc[t] \notin Busy, NEW step \in (Steps \cap Busy) \ Sending, Goto(t, step),
             NEW l \in Logs, log' = [log EXCEPT ![t] = l],
             NEW s \in Seq(Logs), queue' = [queue EXCEPT ![t] = s],
             UNCHANGED <<parsed, todo, turn>>
      PROVE  TaskType'
  <2>1. parsed[t] = {} /\ todo[t] = {}
    BY <1>0, <1>3, ConstantTypes DEF TaskType, TaskFields, Coherent
  <2> QED BY <1>0, <1>3, <2>1 DEF TaskType, TaskFields, Coherent, Goto
<1>4. ASSUME NEW t \in Tasks PROVE queue = [queue EXCEPT ![t] = queue[t]] /\ queue[t] \in Seq(Logs)
  BY <1>0 DEF TaskType, TaskFields
<1>5. CASE ReadSessions
  <2>1. "dirs" \in Steps \ Busy /\ pc[Starter] \notin Busy
    BY <1>5 DEF ReadSessions, Steps, Busy
  <2> QED BY <1>2, <1>4, <1>5, <2>1, ConstantTypes DEF ReadSessions
<1>6. ASSUME NEW t \in Tasks, NEW d \in Dirs, WatchDir(t, d) PROVE TaskType'
  <2>1. "snap" \in Steps \ Busy /\ pc[t] \notin Busy
    BY <1>6 DEF WatchDir, Steps, Busy
  <2>2. order[d] \in Seq(Logs)
    BY <1>0 DEF DiskType
  <2> QED BY <1>2, <1>6, <2>1, <2>2 DEF WatchDir
<1>7. ASSUME NEW t \in Tasks, Snapshot(t) PROVE TaskType'
  <2> DEFINE rest == IF queue[t] = <<>> THEN <<>> ELSE Tail(queue[t])
  <2>1. rest \in Seq(Logs)
    BY <1>4
  <2>2. queue' = [queue EXCEPT ![t] = rest] /\ UNCHANGED <<log, parsed, todo, turn>>
        /\ pc[t] = "snap"
    BY <1>7 DEF Snapshot
  <2>3. pc' = pc \/ \E step \in {"dirs", "idle"} : Goto(t, step)
    BY <1>7 DEF Snapshot
  <2>4. PICK step \in {"dirs", "idle", "snap"} : Goto(t, step)
    <3>1. pc = [pc EXCEPT ![t] = "snap"]
      BY <1>0, <2>2 DEF TaskType, TaskFields
    <3> QED BY <2>3, <3>1 DEF Goto
  <2>5. step \in Steps \ Busy /\ pc[t] \notin Busy
    BY <2>2 DEF Steps, Busy
  <2> HIDE DEF rest
  <2> QED BY <1>2, <2>1, <2>2, <2>4, <2>5
<1>8. CASE StartCold
  <2>1. "cold" \in Steps \ Busy /\ pc[Starter] \notin Busy
    BY <1>8 DEF StartCold, Steps, Busy
  <2> QED BY <1>2, <1>4, <1>8, <2>1, ConstantTypes DEF StartCold
<1>9. ASSUME NEW d \in Dirs, ListCold(d) PROVE TaskType'
  <2>1. "read" \in (Steps \cap Busy) \ Sending /\ pc[Starter] \notin Busy
    BY <1>9 DEF ListCold, Steps, Busy, Sending
  <2>2. CASE Slice(d) = <<>>
    BY <1>1, <1>9, <2>2 DEF ListCold
  <2>3. CASE Slice(d) # <<>>
    <3>1. Slice(d) \in Seq(Logs)
      BY <1>0, SliceType DEF DiskType
    <3>2. Head(Slice(d)) \in Logs /\ Tail(Slice(d)) \in Seq(Logs)
      BY <2>3, <3>1
    <3> QED BY <1>3, <1>9, <2>1, <2>3, <3>2, ConstantTypes DEF ListCold
  <2> QED BY <2>2, <2>3
<1>10. ASSUME NEW t \in Tasks, NEW l \in Logs, FireTimer(t, l) PROVE TaskType'
  <2>1. "stat" \in (Steps \cap Busy) \ Sending /\ pc[t] \notin Busy
    BY <1>10 DEF FireTimer, Steps, Busy, Sending
  <2> QED BY <1>3, <1>4, <1>10, <2>1 DEF FireTimer
<1>11. ASSUME NEW t \in Tasks, pc[t] \in Busy, NEW step \in Busy, Goto(t, step),
              step \in Sending <=> pc[t] \in Sending, UNCHANGED <<log, parsed, todo, queue>>,
              NEW r \in Repos \cup {NoRepo}, turn' = [turn EXCEPT ![t] = r]
       PROVE  TaskType'
  <2> DEFINE S == parsed[t]  T == todo[t]
  <2>1. /\ S \in SUBSET Actions /\ T \in SUBSET S
        /\ \A a \in S : LogOf[a] = log[t]
        /\ T # {} <=> step \in Sending
        /\ parsed = [parsed EXCEPT ![t] = S] /\ todo = [todo EXCEPT ![t] = T]
    BY <1>0, <1>11 DEF TaskType, TaskFields, Coherent
  <2>2. /\ parsed' = [parsed EXCEPT ![t] = S] /\ todo' = [todo EXCEPT ![t] = T]
        /\ UNCHANGED <<log, queue>>
    BY <1>11, <2>1
  <2> HIDE DEF S, T
  <2> QED BY <1>0, <1>11, <2>1, <2>2, GoOnType
<1>12. ASSUME NEW t \in Tasks PROVE turn = [turn EXCEPT ![t] = turn[t]] /\ turn[t] \in Repos \cup {NoRepo}
  BY <1>0 DEF TaskType, TaskFields
<1>13. ASSUME NEW t \in Tasks, CheckSize(t) PROVE TaskType'
  <2>1. CASE Finish(t)
    BY <1>0, <2>1, FinishType
  <2>2. CASE Goto(t, "read") /\ UNCHANGED <<log, parsed, todo, turn, queue>>
    <3>1. "read" \in Busy \ Sending /\ pc[t] \in Busy \ Sending
      BY <1>13 DEF CheckSize, Busy, Sending
    <3> QED BY <1>11, <1>12, <2>2, <3>1
  <2> QED BY <1>13, <2>1, <2>2 DEF CheckSize
<1>14. ASSUME NEW t \in Tasks, ReadLog(t) PROVE TaskType'
  <2>1. CASE Finish(t)
    BY <1>0, <2>1, FinishType
  <2>2. CASE log[t] \notin torn
    <3> DEFINE S == written \cap ActionsOf(log[t])
    <3>1. "filter" \in Busy \ Sending /\ pc[t] \in Busy
      BY <1>14 DEF ReadLog, Busy, Sending
    <3>2. /\ Goto(t, "filter") /\ parsed' = [parsed EXCEPT ![t] = S]
          /\ UNCHANGED <<log, todo, turn, queue>>
      BY <1>14, <2>2 DEF ReadLog
    <3>3. S \in SUBSET Actions /\ \A a \in S : LogOf[a] = log[t]
      BY DEF ActionsOf
    <3>4. todo[t] = {} /\ todo = [todo EXCEPT ![t] = {}]
      BY <1>0, <1>14 DEF ReadLog, TaskType, TaskFields, Coherent, Sending
    <3>5. {} \in SUBSET S /\ ({} # {} <=> "filter" \in Sending)
      BY DEF Sending
    <3>6. /\ todo' = [todo EXCEPT ![t] = {}]
          /\ turn' = [turn EXCEPT ![t] = turn[t]] /\ turn[t] \in Repos \cup {NoRepo}
          /\ UNCHANGED <<log, queue>>
      BY <1>12, <3>2, <3>4
    <3> HIDE DEF S
    <3> QED BY <1>0, <3>1, <3>2, <3>3, <3>5, <3>6, GoOnType
  <2> QED BY <1>14, <2>1, <2>2 DEF ReadLog
<1>15. ASSUME NEW t \in Tasks, FilterSession(t) \/ RefreshSessions(t) PROVE TaskType'
  <2>1. pc[t] \in {"filter", "refresh"}
    BY <1>15 DEF FilterSession, RefreshSessions
  <2>2. CASE Dispatch(t)
    BY <1>0, <2>1, <2>2, DispatchType
  <2>3. CASE Finish(t)
    BY <1>0, <2>3, FinishType
  <2>4. CASE Goto(t, "refresh") /\ UNCHANGED <<log, parsed, todo, turn, queue>>
    <3>1. "refresh" \in Busy \ Sending /\ pc[t] \in Busy \ Sending
      BY <2>1 DEF Busy, Sending
    <3> QED BY <1>11, <1>12, <2>4, <3>1
  <2> QED BY <1>15, <2>2, <2>3, <2>4 DEF FilterSession, RefreshSessions, Skip
<1>16. ASSUME NEW t \in Tasks, SendHuman(t) PROVE TaskType'
  <2>1. "ai" \in Busy \cap Sending /\ pc[t] \in Busy \cap Sending
    BY <1>16 DEF SendHuman, Busy, Sending
  <2>2. PICK a \in todo[t] : turn' = [turn EXCEPT ![t] = RepoOf[a]]
    BY <1>16 DEF SendHuman
  <2>3. RepoOf[a] \in Repos \cup {NoRepo}
    BY <1>0, ConstantTypes DEF TaskType, TaskFields
  <2> QED BY <1>11, <1>16, <2>1, <2>2, <2>3 DEF SendHuman
<1>17. ASSUME NEW t \in Tasks, SendAi(t) \/ AiFails(t) PROVE TaskType'
  <2>1. /\ pc[t] = "ai" /\ forgot \subseteq Keys
        /\ marked \in SUBSET Keys /\ marked \cup KeysOf(Group(t)) \in SUBSET Keys
    BY <1>0, <1>17, GroupType DEF SendAi, AiFails, MemoryType, HistoryType
  <2>2. NextRepo(t, marked \cup KeysOf(Group(t))) \/ NextRepo(t, marked)
    BY <1>17 DEF SendAi, AiFails
  <2> QED BY <1>0, <2>1, <2>2, NextRepoType
<1>18. CASE Restart
  <2>1. /\ pc' \in [Tasks -> {"off", "idle"}] /\ log' = [t \in Tasks |-> NoLog]
        /\ parsed' = [t \in Tasks |-> {}] /\ todo' = [t \in Tasks |-> {}]
        /\ turn' = [t \in Tasks |-> NoRepo] /\ queue' = [t \in Tasks |-> <<>>]
    BY <1>18, BlankType DEF Restart
  <2> QED BY <2>1, ConstantTypes DEF TaskType, TaskFields, Coherent, Busy, Sending, Steps
<1>19. CASE \/ \E l \in Logs : BeginWrite(l) \/ EndWrite(l) \/ RegisterSession(l)
            \/ \E d \in Dirs : MakeDir(d) \/ KnownDir(d)
            \/ CoolDown
  BY <1>1, <1>19 DEF BeginWrite, EndWrite, RegisterSession, MakeDir, KnownDir, CoolDown, tasks
<1> QED
  BY <1>5, <1>6, <1>7, <1>8, <1>9, <1>10, <1>13, <1>14, <1>15, <1>16, <1>17, <1>18,
     <1>19, ConstantTypes DEF Next, Step, NewDir, Starting

LEMMA HistoryStep ==
  ASSUME TypeOK, Next PROVE HistoryType'
<1>0. DiskType /\ MemoryType /\ TaskType /\ HistoryType
  BY TypeParts
<1>1. ASSUME UNCHANGED <<gitai, history>> PROVE HistoryType'
  BY <1>0, <1>1 DEF HistoryType, gitai, history
<1>2. CASE ReadSessions
  BY <1>0, <1>2 DEF HistoryType, ReadSessions, gitai
<1>3. ASSUME NEW t \in Tasks, Snapshot(t) PROVE HistoryType'
  BY <1>0, <1>3 DEF DiskType, HistoryType, Snapshot, gitai
<1>4. ASSUME NEW d \in Dirs, ListCold(d) PROVE HistoryType'
  BY <1>0, <1>4 DEF DiskType, HistoryType, ListCold, gitai
<1>5. ASSUME NEW t \in Tasks, FilterSession(t) \/ RefreshSessions(t) PROVE HistoryType'
  <2>1. pc[t] \in {"filter", "refresh"}
    BY <1>5 DEF FilterSession, RefreshSessions
  <2>2. /\ netDel' \in [Repos -> SUBSET Deleting] /\ overlapped' \subseteq Logs
        /\ dropped' \subseteq Actions
    <3>1. CASE Dispatch(t)
      BY <1>0, <2>1, <3>1, DispatchType
    <3>2. CASE Skip(t)
      BY <1>0, <3>2 DEF Skip, HistoryType, TaskType, TaskFields
    <3>3. CASE UNCHANGED <<netDel, overlapped, dropped>>
      BY <1>0, <3>3 DEF HistoryType
    <3> QED BY <1>5, <3>1, <3>2, <3>3 DEF FilterSession, RefreshSessions
  <2> QED BY <1>0, <1>5, <2>2 DEF HistoryType, FilterSession, RefreshSessions
<1>6. ASSUME NEW t \in Tasks, SendAi(t) \/ AiFails(t) PROVE HistoryType'
  <2>1. /\ pc[t] = "ai" /\ forgot \subseteq Keys
        /\ marked \in SUBSET Keys /\ marked \cup KeysOf(Group(t)) \in SUBSET Keys
        /\ Group(t) \subseteq Actions
    BY <1>0, <1>6, GroupType DEF SendAi, AiFails, MemoryType, HistoryType
  <2>2. NextRepo(t, marked \cup KeysOf(Group(t))) \/ NextRepo(t, marked)
    BY <1>6 DEF SendAi, AiFails
  <2>3. forgot' \subseteq Keys
    BY <1>0, <2>1, <2>2, NextRepoType
  <2>4. sent' \in [Actions -> Nat]
    BY <1>0, <1>6 DEF HistoryType, SendAi, AiFails
  <2>5. faults' \in 0 .. MaxFaults
    BY <1>0, <1>6, ConstantTypes DEF HistoryType, SendAi, AiFails
  <2> QED BY <1>0, <1>6, <2>1, <2>3, <2>4, <2>5 DEF HistoryType, SendAi, AiFails
<1>7. CASE Restart
  <2>1. PICK done \in SUBSET {t \in Tasks : pc[t] = "ai"} :
          /\ sent' = [a \in Actions |-> sent[a] + Cardinality({t \in done : a \in Group(t)})]
          /\ forgot' = forgot \cup marked \cup UNION {KeysOf(Group(t)) : t \in done}
    BY <1>7 DEF Restart
  <2>2. IsFiniteSet(Tasks)
    BY FiniteTasks
  <2>3. \A a \in Actions : Cardinality({t \in done : a \in Group(t)}) \in Nat
    BY <2>2, FS_Subset, FS_CardinalityType
  <2>4. sent' \in [Actions -> Nat]
    BY <1>0, <2>1, <2>3 DEF HistoryType
  <2>5. forgot' \subseteq Keys
    BY <1>0, <2>1, GroupType DEF HistoryType, MemoryType
  <2>6. faults' \in 0 .. MaxFaults
    BY <1>0, <1>7, ConstantTypes DEF HistoryType, Restart
  <2> QED BY <1>0, <1>7, <2>4, <2>5, <2>6 DEF HistoryType, Restart
<1>8. CASE \/ \E l \in Logs : \/ BeginWrite(l) \/ EndWrite(l) \/ RegisterSession(l)
                              \/ \E t \in Tasks : FireTimer(t, l)
           \/ \E d \in Dirs : MakeDir(d) \/ KnownDir(d) \/ \E t \in Tasks : WatchDir(t, d)
           \/ \E t \in Tasks : CheckSize(t) \/ ReadLog(t) \/ SendHuman(t)
           \/ StartCold \/ CoolDown
  BY <1>1, <1>8 DEF BeginWrite, EndWrite, RegisterSession, FireTimer, MakeDir, KnownDir,
     WatchDir, CheckSize, ReadLog, SendHuman, StartCold, CoolDown
<1> QED
  BY <1>2, <1>3, <1>4, <1>5, <1>6, <1>7, <1>8, ConstantTypes DEF Next, Step, NewDir, Starting

LEMMA TypeInit == Init => TypeOK
<1> SUFFICES ASSUME Init PROVE TypeOK
  OBVIOUS
<1>1. DiskType
  BY ConstantTypes DEF Init, DiskType
<1>2. MemoryType
  BY NoSize DEF Init, MemoryType
<1>3. TaskType
  <2>1. /\ pc \in [Tasks -> {"off", "idle"}] /\ log = [t \in Tasks |-> NoLog]
        /\ parsed = [t \in Tasks |-> {}] /\ todo = [t \in Tasks |-> {}]
        /\ turn = [t \in Tasks |-> NoRepo] /\ queue = [t \in Tasks |-> <<>>]
    BY BlankType DEF Init
  <2> QED BY <2>1, ConstantTypes DEF TaskType, TaskFields, Coherent, Busy, Sending, Steps
<1>4. HistoryType
  <2>1. 0 \in 0 .. MaxFaults
    BY ConstantTypes
  <2>2. sent \in [Actions -> Nat] /\ netDel \in [Repos -> SUBSET Deleting]
    BY DEF Init
  <2> QED BY <2>1, <2>2 DEF Init, HistoryType
<1> QED BY <1>1, <1>2, <1>3, <1>4, TypeParts

LEMMA TypeStep == TypeOK /\ [Next]_vars => TypeOK'
<1>1. ASSUME TypeOK, UNCHANGED vars PROVE TypeOK'
  BY <1>1 DEF TypeOK, vars
<1>2. ASSUME TypeOK, Next PROVE TypeOK'
  BY <1>2, DiskStep, MemoryStep, TaskStep, HistoryStep, TypeParts
     DEF TypeOK, DiskType, MemoryType, TaskType, TaskFields, Coherent, Busy, Sending, HistoryType
<1> QED BY <1>1, <1>2

----------------------------------------------------------------------------
\* What a step of a task does to that task and to the others.

LEMMA FinishMoves ==
  ASSUME TypeOK, NEW t \in Tasks, Finish(t)
  PROVE  /\ pc'[t] \in {"read", "cold", "idle"}
         /\ \A u \in Tasks \ {t} : /\ pc'[u] = pc[u] /\ log'[u] = log[u]
                                   /\ todo'[u] = todo[u]
BY DEF TypeOK, Finish, Goto

LEMMA StepMoves ==
  ASSUME TypeOK, NEW t \in Tasks, Step(t)
  PROVE  /\ pc[t] \notin {"off", "idle"} /\ pc'[t] # "off"
         /\ \A u \in Tasks \ {t} : /\ pc'[u] = pc[u] /\ log'[u] = log[u]
                                   /\ todo'[u] = todo[u]
<1> DEFINE Rest == \A u \in Tasks \ {t} : /\ pc'[u] = pc[u] /\ log'[u] = log[u]
                                          /\ todo'[u] = todo[u]
<1>1. pc \in [Tasks -> Steps] /\ log \in [Tasks -> Logs \cup {NoLog}] /\ todo \in [Tasks -> SUBSET Actions]
  BY DEF TypeOK
<1>2. CASE Finish(t)
  <2>1. Rest /\ pc'[t] # "off"
    BY <1>2, FinishMoves
  <2> QED BY <2>1 DEF Step, Snapshot, CheckSize, ReadLog, FilterSession,
       RefreshSessions, SendHuman, SendAi, AiFails
<1>3. CASE Snapshot(t)
  BY <1>1, <1>3 DEF Snapshot, Goto
<1>4. CASE ~Finish(t) /\ (CheckSize(t) \/ ReadLog(t) \/ SendHuman(t))
  BY <1>1, <1>4 DEF CheckSize, ReadLog, SendHuman, Goto
<1>5. CASE ~Finish(t) /\ (FilterSession(t) \/ RefreshSessions(t))
  <2>1. /\ pc[t] \in {"filter", "refresh"}
        /\ Dispatch(t) \/ (log' = log /\ todo' = todo /\ Goto(t, "refresh"))
    <3>1. CASE FilterSession(t)
      BY <1>5, <3>1 DEF FilterSession, Skip
    <3>2. CASE RefreshSessions(t)
      BY <1>5, <3>2 DEF RefreshSessions, Skip
    <3> QED BY <1>5, <3>1, <3>2
  <2>2. \E step \in {"human", "refresh"} : Goto(t, step)
    BY <1>5, <2>1 DEF Dispatch
  <2>3. log' = log /\ \E S : todo' = [todo EXCEPT ![t] = S]
    <3>1. CASE Dispatch(t)
      BY <1>5, <3>1 DEF Dispatch
    <3>2. CASE log' = log /\ todo' = todo
      <4>1. todo = [todo EXCEPT ![t] = todo[t]]
        BY <1>1
      <4> QED BY <3>2, <4>1
    <3> QED BY <2>1, <3>1, <3>2
  <2> QED BY <1>1, <2>1, <2>2, <2>3 DEF Goto
<1>6. CASE ~Finish(t) /\ (SendAi(t) \/ AiFails(t))
  BY <1>1, <1>6 DEF SendAi, AiFails, NextRepo, Goto
<1> QED BY <1>2, <1>3, <1>4, <1>5, <1>6 DEF Step

\* A task that sends after a step has sent before it, or it dispatches its log.
LEMMA StepSends ==
  ASSUME TypeOK, NEW t \in Tasks, Step(t), pc'[t] \in Sending
  PROVE  /\ log'[t] = log[t]
         /\ \/ FilterSession(t) /\ Dispatch(t) /\ (sessionIds = {} \/ log[t] \in sessionIds)
            \/ RefreshSessions(t) /\ Dispatch(t) /\ log[t] \in sessionIds'
            \/ SendHuman(t) /\ pc[t] \in Sending /\ todo' = todo
            \/ (SendAi(t) \/ AiFails(t)) /\ pc[t] \in Sending /\ todo'[t] = todo[t] \ Group(t)
<1>1. ~Finish(t)
  BY FinishMoves DEF Sending
<1>2. pc \in [Tasks -> Steps] /\ log \in [Tasks -> Logs \cup {NoLog}] /\ todo \in [Tasks -> SUBSET Actions]
  BY DEF TypeOK
<1>3. CASE Snapshot(t)
  BY <1>2, <1>3 DEF Snapshot, Goto, Sending
<1>4. CASE CheckSize(t) \/ ReadLog(t)
  BY <1>1, <1>2, <1>4 DEF CheckSize, ReadLog, Goto, Sending
<1>5. CASE FilterSession(t)
  <2>1. Dispatch(t) /\ (sessionIds = {} \/ log[t] \in sessionIds)
    BY <1>1, <1>2, <1>5 DEF FilterSession, Skip, Goto, Sending
  <2> QED BY <1>1, <1>5, <2>1 DEF Dispatch
<1>6. CASE RefreshSessions(t)
  <2>1. Dispatch(t) /\ log[t] \in sessionIds'
    BY <1>1, <1>6 DEF RefreshSessions, Skip
  <2> QED BY <1>1, <1>6, <2>1 DEF Dispatch
<1>7. CASE SendHuman(t)
  BY <1>2, <1>7 DEF SendHuman, Sending
<1>8. CASE SendAi(t) \/ AiFails(t)
  BY <1>1, <1>2, <1>8 DEF SendAi, AiFails, NextRepo, Sending
<1> QED BY <1>3, <1>4, <1>5, <1>6, <1>7, <1>8 DEF Step

----------------------------------------------------------------------------
\* Sessions: nothing runs before start() has read them, and a task sends only
\* the log of a listed session, unless start() found none.

Off == pc[Starter] = "off" =>
         /\ watched = {} /\ fresh = {} /\ pending = {}
         /\ \A t \in Tasks \ {Starter} : pc[t] = "idle"
Known == pc[Starter] # "off" => sessionIds # {} \/ blind
Admitted == \A t \in Tasks : pc[t] \in Sending => log[t] \in listed \/ blind
SessionInv == Off /\ Known /\ Admitted /\ OnlyOwnSessions

LEMMA OffStep ==
  ASSUME TypeOK, SessionInv, Next PROVE Off'
<1>0. pc \in [Tasks -> Steps] /\ Starter \in Tasks /\ Finder \in Tasks /\ Finder # Starter
  BY ConstantTypes DEF TypeOK
<1>1. ASSUME NEW l \in Logs, BeginWrite(l) \/ EndWrite(l) \/ RegisterSession(l) PROVE Off'
  BY <1>1 DEF SessionInv, Off, BeginWrite, EndWrite, RegisterSession, Touch, memory, tasks
<1>2. ASSUME NEW d \in Dirs, MakeDir(d) \/ KnownDir(d) PROVE Off'
  BY <1>2 DEF SessionInv, Off, MakeDir, KnownDir, tasks
<1>3. ASSUME NEW d \in Dirs, WatchDir(Starter, d) \/ WatchDir(Finder, d) PROVE pc'[Starter] # "off"
  BY <1>0, <1>3 DEF SessionInv, Off, WatchDir, Goto
<1>4. ASSUME NEW t \in Tasks, NEW l \in Logs, FireTimer(t, l) PROVE pc'[Starter] # "off"
  BY <1>0, <1>4, TasksAssumption DEF SessionInv, Off, FireTimer, Goto
<1>5. ASSUME NEW t \in Tasks, Step(t) PROVE pc'[Starter] # "off"
  BY <1>0, <1>5, StepMoves DEF SessionInv, Off
<1>6. CASE ReadSessions \/ StartCold \/ \E d \in Dirs : ListCold(d)
  <2>1. pc'[Starter] # "off"
    BY <1>0, <1>6 DEF ReadSessions, StartCold, ListCold, Goto
  <2> QED BY <2>1 DEF Off
<1>7. CASE CoolDown
  BY <1>7 DEF SessionInv, Off, CoolDown, tasks
<1>8. CASE Restart
  BY <1>8 DEF Off, Restart, Blank
<1> QED BY <1>1, <1>2, <1>3, <1>4, <1>5, <1>6, <1>7, <1>8 DEF Off, Next, NewDir, Starting

LEMMA KnownStep ==
  ASSUME TypeOK, SessionInv, Next PROVE Known'
<1>0. /\ pc \in [Tasks -> Steps] /\ Starter \in Tasks /\ Finder \in Tasks /\ Finder # Starter
      /\ sessionIds \subseteq listed
  BY ConstantTypes DEF TypeOK
<1>1. ASSUME UNCHANGED <<sessionIds, blind>>, pc'[Starter] # "off" => pc[Starter] # "off"
      PROVE  Known'
  BY <1>1 DEF SessionInv, Known
<1>2. ASSUME NEW l \in Logs, BeginWrite(l) \/ EndWrite(l) \/ RegisterSession(l) PROVE Known'
  BY <1>1, <1>2 DEF BeginWrite, EndWrite, RegisterSession, memory, tasks, history
<1>3. ASSUME NEW d \in Dirs, MakeDir(d) \/ KnownDir(d) PROVE Known'
  BY <1>1, <1>3 DEF MakeDir, KnownDir, tasks, history
<1>4. ASSUME NEW d \in Dirs, WatchDir(Starter, d) \/ WatchDir(Finder, d) PROVE Known'
  BY <1>0, <1>1, <1>4 DEF WatchDir, Goto, history
<1>5. ASSUME NEW t \in Tasks, NEW l \in Logs, FireTimer(t, l) PROVE Known'
  BY <1>0, <1>1, <1>5, TasksAssumption DEF FireTimer, Goto, history
<1>6. ASSUME NEW t \in Tasks, Step(t) PROVE Known'
  <2>1. pc[Starter] # "off"
    BY <1>0, <1>6, StepMoves DEF SessionInv, Off
  <2>2. blind' = blind /\ (sessionIds' = sessionIds \/ sessionIds' # {})
    <3>1. CASE RefreshSessions(t)
      <4>1. CASE sessionIds # {}
        BY <1>0, <3>1, <4>1 DEF RefreshSessions
      <4>2. CASE sessionIds = {}
        BY <3>1, <4>2, FS_EmptySet DEF RefreshSessions
      <4> QED BY <4>1, <4>2
    <3>2. CASE ~RefreshSessions(t)
      BY <1>6, <3>2 DEF Step, Snapshot, CheckSize, ReadLog, FilterSession, SendHuman,
         SendAi, AiFails, memory, history
    <3> QED BY <3>1, <3>2
  <2> QED BY <2>1, <2>2 DEF SessionInv, Known
<1>7. CASE ReadSessions
  BY <1>7 DEF ReadSessions, Known
<1>8. CASE StartCold \/ (\E d \in Dirs : ListCold(d)) \/ CoolDown
  BY <1>1, <1>8 DEF StartCold, ListCold, CoolDown, memory, tasks, history
<1>9. CASE Restart
  BY <1>0, <1>9 DEF Known, Restart, Blank
<1> QED BY <1>2, <1>3, <1>4, <1>5, <1>6, <1>7, <1>8, <1>9 DEF Next, NewDir, Starting

LEMMA AdmittedStep ==
  ASSUME TypeOK, SessionInv, Next PROVE Admitted'
<1>0. /\ pc \in [Tasks -> Steps] /\ Starter \in Tasks /\ Finder \in Tasks
      /\ log \in [Tasks -> Logs \cup {NoLog}] /\ sessionIds \subseteq listed
  BY ConstantTypes DEF TypeOK
<1>1. ASSUME listed \subseteq listed', blind => blind',
             \A u \in Tasks : pc'[u] \in Sending => pc[u] \in Sending /\ log'[u] = log[u]
      PROVE  Admitted'
  BY <1>1 DEF SessionInv, Admitted
<1>2. ASSUME NEW t \in Tasks, Step(t) PROVE Admitted'
  <2>1. listed' = listed /\ blind' = blind
    BY <1>2 DEF Step, Snapshot, CheckSize, ReadLog, FilterSession, RefreshSessions,
       SendHuman, SendAi, AiFails, disk, history
  <2>2. ASSUME NEW u \in Tasks \ {t}, pc'[u] \in Sending PROVE log'[u] \in listed \/ blind
    BY <1>2, <2>2, StepMoves DEF SessionInv, Admitted
  <2>3. ASSUME pc'[t] \in Sending PROVE log'[t] \in listed \/ blind
    <3>1. pc[Starter] # "off"
      BY <1>0, <1>2, StepMoves DEF SessionInv, Off
    <3>2. log'[t] = log[t]
      BY <1>2, <2>3, StepSends
    <3>3. \/ sessionIds = {} \/ log[t] \in sessionIds \/ log[t] \in sessionIds'
          \/ pc[t] \in Sending
      BY <1>2, <2>3, StepSends
    <3>4. sessionIds' \subseteq listed
      BY <2>1, TypeStep DEF TypeOK
    <3> QED BY <1>0, <3>1, <3>2, <3>3, <3>4 DEF SessionInv, Known, Admitted
  <2> QED BY <2>1, <2>2, <2>3 DEF Admitted
<1>3. CASE \/ \E l \in Logs : BeginWrite(l) \/ EndWrite(l) \/ RegisterSession(l)
           \/ \E d \in Dirs : MakeDir(d) \/ KnownDir(d)
           \/ CoolDown
  BY <1>1, <1>3 DEF BeginWrite, EndWrite, RegisterSession, MakeDir, KnownDir, CoolDown,
     disk, tasks, history
<1>4. ASSUME NEW d \in Dirs, \/ WatchDir(Starter, d) \/ WatchDir(Finder, d) \/ ListCold(d)
                             \/ ReadSessions \/ StartCold
      PROVE  Admitted'
  BY <1>0, <1>1, <1>4 DEF WatchDir, ListCold, ReadSessions, StartCold, Goto, Sending,
     disk, history
<1>5. CASE ReadSessions \/ StartCold
  BY <1>0, <1>1, <1>5 DEF ReadSessions, StartCold, Goto, Sending, disk, history
<1>6. ASSUME NEW t \in Tasks, NEW l \in Logs, FireTimer(t, l) PROVE Admitted'
  BY <1>0, <1>1, <1>6 DEF FireTimer, Goto, Sending, disk, history
<1>7. CASE Restart
  BY <1>7, BlankType DEF Admitted, Restart, Sending
<1> QED BY <1>2, <1>3, <1>4, <1>5, <1>6, <1>7 DEF Next, NewDir, Starting

\* sent changes only in an AI checkpoint, for actions their tasks had to send.
LEMMA SentChange ==
  ASSUME Next, sent' # sent
  PROVE  (\E t \in Tasks : SendAi(t)) \/ Restart
BY DEF Next, NewDir, Starting, Step, BeginWrite, EndWrite, RegisterSession, MakeDir,
   KnownDir, WatchDir, ReadSessions, StartCold, ListCold, CoolDown, FireTimer, Snapshot,
   CheckSize, ReadLog, FilterSession, RefreshSessions, SendHuman, AiFails, gitai

LEMMA SentBySender ==
  ASSUME TypeOK, Next, NEW a \in Actions, sent'[a] # sent[a]
  PROVE  \E t \in Tasks : pc[t] = "ai" /\ a \in Group(t) /\ a \in todo[t] /\ LogOf[a] = log[t]
<1>1. \A t \in Tasks : \A b \in todo[t] : LogOf[b] = log[t]
  BY DEF TypeOK
<1>2. sent \in [Actions -> Nat]
  BY DEF TypeOK
<1>3. ASSUME NEW t \in Tasks, SendAi(t) PROVE pc[t] = "ai" /\ a \in Group(t)
  BY <1>2, <1>3 DEF SendAi
<1>4. CASE Restart
  <2>1. PICK done \in SUBSET {t \in Tasks : pc[t] = "ai"} :
          sent' = [b \in Actions |-> sent[b] + Cardinality({t \in done : b \in Group(t)})]
    BY <1>4 DEF Restart
  <2>2. {t \in done : a \in Group(t)} # {}
    <3>1. ASSUME {t \in done : a \in Group(t)} = {} PROVE FALSE
      <4>1. sent'[a] = sent[a] + 0
        BY <2>1, <3>1, FS_EmptySet
      <4> QED BY <1>2, <4>1
    <3> QED BY <3>1
  <2> QED BY <1>1, <2>2 DEF Group
<1> QED BY <1>1, <1>3, <1>4, SentChange DEF Group

LEMMA OwnStep ==
  ASSUME TypeOK, SessionInv, Next PROVE OnlyOwnSessions'
<1>1. listed \subseteq listed' /\ (blind => blind')
  <2>1. ASSUME NEW t \in Tasks, Step(t) \/ \E l \in Logs : FireTimer(t, l)
        PROVE  UNCHANGED <<listed, blind>>
    BY <2>1 DEF Step, FireTimer, Snapshot, CheckSize, ReadLog, FilterSession,
       RefreshSessions, SendHuman, SendAi, AiFails, disk, history
  <2>2. ASSUME NEW l \in Logs, BeginWrite(l) \/ EndWrite(l) \/ RegisterSession(l)
        PROVE  listed \subseteq listed' /\ blind' = blind
    BY <2>2 DEF BeginWrite, EndWrite, RegisterSession, history
  <2>3. ASSUME NEW d \in Dirs, MakeDir(d) \/ NewDir(d) PROVE UNCHANGED <<listed, blind>>
    BY <2>3 DEF MakeDir, NewDir, KnownDir, WatchDir, disk, history
  <2>4. CASE ReadSessions
    BY <2>4 DEF ReadSessions, disk
  <2>5. CASE StartCold \/ \E d \in Dirs : WatchDir(Starter, d) \/ ListCold(d)
    BY <2>5 DEF WatchDir, StartCold, ListCold, disk, history
  <2>6. CASE CoolDown \/ Restart
    BY <2>6 DEF CoolDown, Restart, disk, history
  <2> QED BY <2>1, <2>2, <2>3, <2>4, <2>5, <2>6 DEF Next, Starting
<1>2. ASSUME NEW a \in Actions, sent'[a] > 0 PROVE LogOf[a] \in listed \/ blind
  <2>1. CASE sent'[a] = sent[a]
    BY <1>2, <2>1 DEF SessionInv, OnlyOwnSessions
  <2>2. CASE sent'[a] # sent[a]
    BY <2>2, SentBySender DEF SessionInv, Admitted, Sending
  <2> QED BY <2>1, <2>2
<1> QED BY <1>1, <1>2 DEF OnlyOwnSessions

LEMMA SessionStep == TypeOK /\ SessionInv /\ [Next]_vars => SessionInv'
<1>1. ASSUME SessionInv, UNCHANGED vars PROVE SessionInv'
  BY <1>1 DEF SessionInv, Off, Known, Admitted, OnlyOwnSessions, vars
<1> QED BY <1>1, OffStep, KnownStep, AdmittedStep, OwnStep DEF SessionInv

LEMMA SessionInit == Init => SessionInv
BY BlankType, ConstantTypes DEF Init, SessionInv, Off, Known, Admitted, OnlyOwnSessions,
   Blank, Sending

----------------------------------------------------------------------------
\* Marks.

\* Only an AI checkpoint and a restart change the marks and the evicted keys.
LEMMA MarksChange ==
  ASSUME Next
  PROVE  \/ \E t \in Tasks : SendAi(t) \/ AiFails(t)
         \/ Restart
         \/ UNCHANGED <<sent, marked, forgot>>
<1>1. ASSUME NEW t \in Tasks, Step(t) \/ \E l \in Logs : FireTimer(t, l)
      PROVE  SendAi(t) \/ AiFails(t) \/ UNCHANGED <<sent, marked, forgot>>
  BY <1>1 DEF Step, FireTimer, Snapshot, CheckSize, ReadLog, FilterSession,
     RefreshSessions, SendHuman, memory, gitai, history
<1>2. ASSUME NEW l \in Logs, BeginWrite(l) \/ EndWrite(l) \/ RegisterSession(l)
      PROVE  UNCHANGED <<sent, marked, forgot>>
  BY <1>2 DEF BeginWrite, EndWrite, RegisterSession, memory, gitai, history
<1>3. ASSUME NEW d \in Dirs, \/ MakeDir(d) \/ KnownDir(d) \/ ListCold(d)
                             \/ WatchDir(Starter, d) \/ WatchDir(Finder, d)
      PROVE  UNCHANGED <<sent, marked, forgot>>
  BY <1>3 DEF MakeDir, KnownDir, WatchDir, ListCold, memory, gitai, history
<1>4. CASE ReadSessions \/ StartCold \/ CoolDown
  BY <1>4 DEF ReadSessions, StartCold, CoolDown, memory, gitai, history
<1> QED BY <1>1, <1>2, <1>3, <1>4 DEF Next, NewDir, Starting

\* An AI checkpoint adds the keys of its actions when it exits 0; a key goes
\* only when it is evicted or lost.
LEMMA MarksOfSend ==
  ASSUME TypeOK, NEW t \in Tasks, SendAi(t) \/ AiFails(t)
  PROVE  /\ pc[t] = "ai" /\ Group(t) \subseteq todo[t]
         /\ marked' \subseteq marked \cup (IF SendAi(t) THEN KeysOf(Group(t)) ELSE {})
         /\ marked \cup forgot \subseteq marked' \cup forgot'
         /\ forgot \subseteq forgot'
         /\ SendAi(t) => KeysOf(Group(t)) \subseteq marked' \cup forgot'
<1>1. CASE SendAi(t)
  <2> DEFINE marks == marked \cup KeysOf(Group(t))
  <2>1. NextRepo(t, marks)
    BY <1>1 DEF SendAi
  <2> HIDE DEF marks
  <2>2. marked' \subseteq marks /\ marks \cup forgot \subseteq marked' \cup forgot' /\ forgot \subseteq forgot'
    BY <2>1 DEF NextRepo
  <2> QED BY <1>1, <2>2 DEF marks, SendAi, Group
<1>2. CASE ~SendAi(t)
  <2>1. NextRepo(t, marked) /\ pc[t] = "ai"
    BY <1>2 DEF AiFails
  <2> QED BY <1>2, <2>1 DEF NextRepo, Group
<1> QED BY <1>1, <1>2

\* Nothing un-sends an action.
LEMMA SentGrows ==
  ASSUME TypeOK, Next, NEW a \in Actions
  PROVE  sent[a] \in Nat /\ sent'[a] \in Nat /\ sent[a] =< sent'[a]
<1>1. sent[a] \in Nat /\ sent'[a] \in Nat
  BY TypeStep DEF TypeOK
<1>2. ASSUME NEW t \in Tasks, SendAi(t) PROVE sent[a] =< sent'[a]
  BY <1>1, <1>2 DEF SendAi
<1>3. CASE Restart
  <2>1. PICK done \in SUBSET {t \in Tasks : pc[t] = "ai"} :
          sent' = [b \in Actions |-> sent[b] + Cardinality({t \in done : b \in Group(t)})]
    BY <1>3 DEF Restart
  <2>2. Cardinality({t \in done : a \in Group(t)}) \in Nat
    BY FiniteTasks, FS_Subset, FS_CardinalityType
  <2> QED BY <1>1, <2>1, <2>2
<1> QED BY <1>1, <1>2, <1>3, SentChange

LEMMA MarkStep == TypeOK /\ MarkedWasSent /\ [Next]_vars => MarkedWasSent'
<1>1. ASSUME MarkedWasSent, UNCHANGED vars PROVE MarkedWasSent'
  BY <1>1 DEF MarkedWasSent, vars
<1>2. ASSUME TypeOK, MarkedWasSent, Next, NEW k \in marked'
      PROVE  \E a \in Actions : RepoKey[a] = k /\ sent'[a] > 0
  <2>1. CASE k \in marked
    <3>1. PICK a \in Actions : RepoKey[a] = k /\ sent[a] > 0
      BY <1>2, <2>1 DEF MarkedWasSent
    <3> QED BY <1>2, <3>1, SentGrows
  <2>2. ASSUME NEW t \in Tasks, SendAi(t) \/ AiFails(t), k \notin marked
        PROVE  \E a \in Actions : RepoKey[a] = k /\ sent'[a] > 0
    <3>1. SendAi(t) /\ k \in KeysOf(Group(t))
      BY <1>2, <2>2, MarksOfSend
    <3>2. PICK a \in Group(t) : RepoKey[a] = k
      BY <3>1 DEF KeysOf
    <3>3. a \in Actions /\ sent[a] \in Nat
      BY <1>2, <3>2 DEF TypeOK, Group
    <3>4. sent'[a] = sent[a] + 1
      BY <3>1, <3>2, <3>3 DEF SendAi
    <3> QED BY <3>2, <3>3, <3>4
  <2>3. CASE Restart
    BY <1>2, <2>3 DEF Restart
  <2> QED BY <1>2, <2>1, <2>2, <2>3, MarksChange
<1> QED BY <1>1, <1>2 DEF MarkedWasSent

LEMMA MarkInit == Init => MarkedWasSent
BY DEF Init, MarkedWasSent

----------------------------------------------------------------------------
\* Once only: a task that has an action to send either is the first to, or one
\* of the three excuses of SentOnce holds.

Excused(a) == RepoKey[a] \in forgot \/ RepoKey[a] # RawKey[a] \/ LogOf[a] \in overlapped

SentIsMarked ==
  \A a \in Actions : sent[a] > 0 => RepoKey[a] \in marked \/ Excused(a)
FirstToSend ==
  \A t \in Tasks : \A a \in todo[t] : sent[a] = 0 \/ Excused(a)
TogetherOverlaps ==
  \A t, u \in Tasks : t # u /\ log[t] = log[u] /\ pc[t] \in Sending /\ pc[u] \in Sending
                        => log[t] \in overlapped
OnceInv == SentIsMarked /\ FirstToSend /\ TogetherOverlaps /\ SentOnce

\* An excuse does not go away.
LEMMA HistoryGrows ==
  ASSUME TypeOK, Next PROVE forgot \subseteq forgot' /\ overlapped \subseteq overlapped'
<1>1. forgot \subseteq forgot'
  <2>1. CASE Restart
    BY <2>1 DEF Restart
  <2> QED BY <2>1, MarksChange, MarksOfSend
<1>2. overlapped \subseteq overlapped'
  <2>1. ASSUME NEW t \in Tasks, Step(t) \/ \E l \in Logs : FireTimer(t, l)
        PROVE  overlapped \subseteq overlapped'
    <3>1. CASE FilterSession(t) \/ RefreshSessions(t)
      BY <3>1 DEF FilterSession, RefreshSessions, Dispatch, Skip
    <3> QED BY <2>1, <3>1 DEF Step, FireTimer, Snapshot, CheckSize, ReadLog,
         SendHuman, SendAi, AiFails, history
  <2>2. ASSUME NEW l \in Logs, BeginWrite(l) \/ EndWrite(l) \/ RegisterSession(l)
        PROVE  overlapped' = overlapped
    BY <2>2 DEF BeginWrite, EndWrite, RegisterSession, history
  <2>3. ASSUME NEW d \in Dirs, \/ MakeDir(d) \/ KnownDir(d) \/ ListCold(d)
                               \/ WatchDir(Starter, d) \/ WatchDir(Finder, d)
        PROVE  overlapped' = overlapped
    BY <2>3 DEF MakeDir, KnownDir, WatchDir, ListCold, history
  <2>4. CASE ReadSessions \/ StartCold \/ CoolDown \/ Restart
    BY <2>4 DEF ReadSessions, StartCold, CoolDown, Restart, history
  <2> QED BY <2>1, <2>2, <2>3, <2>4 DEF Next, NewDir, Starting
<1> QED BY <1>1, <1>2

\* The actions of two tasks that send the same one are of the same log.
LEMMA Shared ==
  ASSUME TypeOK, TogetherOverlaps, NEW t \in Tasks, NEW u \in Tasks, t # u,
         NEW a \in Actions, a \in todo[t], a \in todo[u]
  PROVE  LogOf[a] \in overlapped
<1>1. /\ LogOf[a] = log[t] /\ LogOf[a] = log[u]
      /\ pc[t] \in Sending /\ pc[u] \in Sending
  BY DEF TypeOK, Sending
<1> QED BY <1>1 DEF TogetherOverlaps

\* The tasks that send after a step, and their actions.
LEMMA SendersStep ==
  ASSUME TypeOK, Next, NEW t \in Tasks, pc'[t] \in Sending
  PROVE  /\ log'[t] = log[t]
         /\ \/ pc[t] \in Sending /\ todo'[t] \subseteq todo[t]
            \/ /\ Dispatch(t) /\ todo'[t] = {a \in parsed[t] : RawKey[a] \notin marked}
               /\ log[t] \in Logs /\ UNCHANGED sent
               /\ \A u \in Tasks \ {t} : pc'[u] = pc[u] /\ log'[u] = log[u]
<1>0. /\ pc \in [Tasks -> Steps] /\ todo \in [Tasks -> SUBSET Actions]
      /\ Starter \in Tasks /\ Finder \in Tasks
  BY ConstantTypes DEF TypeOK
<1>1. CASE Step(t)
  <2>1. CASE Dispatch(t) /\ (FilterSession(t) \/ RefreshSessions(t))
    <3>1. ~Finish(t) /\ log[t] \in Logs
      BY <2>1, FinishMoves DEF Sending, FilterSession, RefreshSessions, TypeOK
    <3>2. /\ todo' = [todo EXCEPT ![t] = {a \in parsed[t] : RawKey[a] \notin marked}]
          /\ log' = log
      BY <2>1, <3>1 DEF Dispatch
    <3>3. sent' = sent
      BY <2>1 DEF FilterSession, RefreshSessions
    <3>4. \A u \in Tasks \ {t} : pc'[u] = pc[u] /\ log'[u] = log[u]
      BY <1>1, StepMoves
    <3> QED BY <1>0, <2>1, <3>1, <3>2, <3>3, <3>4
  <2>2. CASE ~(Dispatch(t) /\ (FilterSession(t) \/ RefreshSessions(t)))
    BY <1>1, <2>2, StepSends
  <2> QED BY <2>1, <2>2
<1>2. ASSUME NEW u \in Tasks \ {t}, Step(u)
      PROVE  log'[t] = log[t] /\ pc[t] \in Sending /\ todo'[t] \subseteq todo[t]
  BY <1>2, StepMoves
<1>3. ASSUME NEW u \in Tasks, NEW l \in Logs, FireTimer(u, l)
      PROVE  log'[t] = log[t] /\ pc[t] \in Sending /\ todo'[t] \subseteq todo[t]
  BY <1>0, <1>3 DEF FireTimer, Goto, Sending, TypeOK
<1>4. CASE \/ \E l \in Logs : BeginWrite(l) \/ EndWrite(l) \/ RegisterSession(l)
           \/ \E d \in Dirs : MakeDir(d) \/ KnownDir(d)
           \/ CoolDown
  BY <1>4 DEF BeginWrite, EndWrite, RegisterSession, MakeDir, KnownDir, CoolDown, tasks
<1>5. ASSUME NEW d \in Dirs, WatchDir(Starter, d) \/ WatchDir(Finder, d) \/ ListCold(d)
      PROVE  log'[t] = log[t] /\ pc[t] \in Sending /\ todo'[t] \subseteq todo[t]
  BY <1>0, <1>5 DEF WatchDir, ListCold, Goto, Sending, TypeOK
<1>6. CASE ReadSessions \/ StartCold
  BY <1>0, <1>6 DEF ReadSessions, StartCold, Goto, Sending
<1>7. CASE Restart
  BY <1>7, BlankType DEF Restart, Sending
<1> QED BY <1>1, <1>2, <1>3, <1>4, <1>5, <1>6, <1>7 DEF Next, NewDir, Starting

LEMMA OnceStep == TypeOK /\ OnceInv /\ [Next]_vars => OnceInv'
<1>1. ASSUME OnceInv, UNCHANGED vars PROVE OnceInv'
  BY <1>1 DEF OnceInv, SentIsMarked, FirstToSend, TogetherOverlaps, SentOnce, Excused, vars
<1> SUFFICES ASSUME TypeOK, OnceInv, Next PROVE OnceInv'
  BY <1>1
<1>2. \A a \in Actions : Excused(a) => Excused(a)'
  BY HistoryGrows DEF Excused
<1>3. \A a \in Actions : sent[a] \in Nat /\ sent'[a] \in Nat /\ sent[a] =< sent'[a]
  BY SentGrows
<1>4. \A t \in Tasks : todo[t] \subseteq Actions /\ \A a \in todo[t] : LogOf[a] = log[t]
  BY DEF TypeOK
<1>5. TypeOK'
  BY TypeStep
<1>6. ASSUME NEW a \in Actions, sent'[a] > 0 PROVE RepoKey[a] \in marked' \/ Excused(a)'
  <2>1. CASE sent[a] > 0
    <3>1. RepoKey[a] \in marked \/ Excused(a)
      BY <2>1 DEF OnceInv, SentIsMarked
    <3>2. marked \cup forgot \subseteq marked' \cup forgot'
      <4>1. CASE Restart
        BY <4>1 DEF Restart
      <4> QED BY <4>1, MarksChange, MarksOfSend
    <3> QED BY <1>2, <3>1, <3>2 DEF Excused
  <2>2. CASE sent'[a] # sent[a]
    <3>1. ASSUME NEW t \in Tasks, SendAi(t) PROVE RepoKey[a] \in marked' \cup forgot'
      <4>1. a \in Group(t)
        BY <1>3, <2>2, <3>1 DEF SendAi
      <4>2. RepoKey[a] \in KeysOf(Group(t))
        BY <4>1 DEF KeysOf
      <4> QED BY <3>1, <4>2, MarksOfSend
    <3>2. CASE Restart
      <4>1. PICK done \in SUBSET {t \in Tasks : pc[t] = "ai"} :
              /\ sent' = [b \in Actions |-> sent[b] + Cardinality({t \in done : b \in Group(t)})]
              /\ forgot' = forgot \cup marked \cup UNION {KeysOf(Group(t)) : t \in done}
        BY <3>2 DEF Restart
      <4>2. PICK t \in done : a \in Group(t)
        <5>1. ASSUME {t \in done : a \in Group(t)} = {} PROVE FALSE
          <6>1. sent'[a] = sent[a] + 0
            BY <4>1, <5>1, FS_EmptySet
          <6> QED BY <1>3, <2>2, <6>1
        <5> QED BY <5>1
      <4>3. RepoKey[a] \in KeysOf(Group(t))
        BY <4>2 DEF KeysOf
      <4>4. RepoKey[a] \in UNION {KeysOf(Group(u)) : u \in done}
        BY <4>2, <4>3
      <4> QED BY <4>1, <4>4 DEF Excused
    <3> QED BY <2>2, <3>1, <3>2, SentChange DEF Excused
  <2> QED BY <1>3, <1>6, <2>1, <2>2
<1>7. ASSUME NEW t \in Tasks, NEW a \in todo'[t] PROVE sent'[a] = 0 \/ Excused(a)'
  <2>1. /\ a \in Actions /\ pc'[t] \in Sending
        /\ LogOf[a] = log'[t]
    BY <1>5, <1>7 DEF TypeOK, Sending
  <2>2. CASE pc[t] \in Sending /\ todo'[t] \subseteq todo[t]
    <3>1. a \in todo[t] /\ (sent[a] = 0 \/ Excused(a))
      BY <1>7, <2>2 DEF OnceInv, FirstToSend
    <3>2. ASSUME NEW u \in Tasks, u # t, a \in todo[u] PROVE Excused(a)'
      BY <1>2, <2>1, <3>1, <3>2, Shared DEF OnceInv, Excused
    <3>3. ASSUME SendAi(t) PROVE a \notin Group(t)
      <4>1. todo'[t] = todo[t] \ Group(t)
        BY <2>1, <3>3, StepSends DEF Step, SendAi, SendHuman, FilterSession, RefreshSessions
      <4> QED BY <1>7, <4>1
    <3>4. CASE sent'[a] # sent[a]
      <4>1. ASSUME NEW u \in Tasks, SendAi(u) PROVE Excused(a)'
        <5>1. a \in Group(u) /\ a \in todo[u]
          BY <1>3, <2>1, <3>4, <4>1 DEF SendAi, Group
        <5> QED BY <3>2, <3>3, <4>1, <5>1
      <4>2. ~Restart
        BY <2>1, BlankType DEF Restart, Sending
      <4> QED BY <3>4, <4>1, <4>2, SentChange
    <3>5. CASE sent'[a] = sent[a]
      BY <1>2, <2>1, <3>1, <3>5
    <3> QED BY <3>4, <3>5
  <2>3. CASE /\ todo'[t] = {b \in parsed[t] : RawKey[b] \notin marked}
             /\ UNCHANGED sent
    <3>1. RawKey[a] \notin marked
      BY <1>7, <2>3
    <3>2. sent[a] = 0 \/ RepoKey[a] \in marked \/ Excused(a)
      BY <1>3, <2>1 DEF OnceInv, SentIsMarked
    <3> QED BY <1>2, <2>1, <2>3, <3>1, <3>2 DEF Excused
  <2> QED BY <2>1, <2>2, <2>3, SendersStep
<1>8. ASSUME NEW t \in Tasks, NEW u \in Tasks, t # u, log'[t] = log'[u],
             pc'[t] \in Sending, pc'[u] \in Sending
      PROVE  log'[t] \in overlapped'
  <2>1. log'[t] = log[t] /\ log'[u] = log[u]
    BY <1>8, SendersStep
  <2>2. CASE pc[t] \in Sending /\ pc[u] \in Sending
    <3>1. log[t] \in overlapped
      BY <1>8, <2>1, <2>2 DEF OnceInv, TogetherOverlaps
    <3> QED BY <2>1, <3>1, HistoryGrows
  <2>3. ASSUME NEW x \in Tasks, NEW y \in Tasks,
                 (x = t /\ y = u) \/ (x = u /\ y = t), pc[x] \notin Sending
        PROVE  log'[t] \in overlapped'
    <3>1. /\ x # y /\ pc'[x] \in Sending /\ pc'[y] \in Sending /\ log[x] = log[y]
          /\ log[x] = log'[t]
      <4>1. CASE x = t /\ y = u
        BY <1>8, <2>1, <4>1, Zenon
      <4>2. CASE x = u /\ y = t
        BY <1>8, <2>1, <4>2, Zenon
      <4> QED BY <2>3, <4>1, <4>2
    <3>2. /\ Dispatch(x) /\ pc[y] \in Sending
      BY <2>3, <3>1, SendersStep
    <3>3. ~Finish(x)
      BY <3>1, FinishMoves DEF Sending
    <3>4. log[x] \in overlapped'
      BY <3>1, <3>2, <3>3 DEF Dispatch, Sending
    <3> QED BY <3>1, <3>4
  <2> QED BY <2>2, <2>3
<1>9. ASSUME NEW a \in Actions, sent'[a] > 1 PROVE Excused(a)'
  <2>1. CASE sent[a] > 1
    BY <1>2, <2>1 DEF OnceInv, SentOnce, Excused
  <2>2. CASE sent'[a] # sent[a] /\ sent[a] > 0
    <3>1. PICK t \in Tasks : a \in todo[t]
      BY <2>2, SentBySender
    <3> QED BY <1>2, <1>3, <2>2, <3>1 DEF OnceInv, FirstToSend
  <2>3. CASE sent[a] = 0
    <3>1. ASSUME NEW t \in Tasks, SendAi(t) PROVE FALSE
      BY <1>9, <2>3, <3>1 DEF SendAi
    <3>2. CASE Restart
      <4>1. PICK done \in SUBSET {t \in Tasks : pc[t] = "ai"} :
              sent' = [b \in Actions |-> sent[b] + Cardinality({t \in done : b \in Group(t)})]
        BY <3>2 DEF Restart
      <4> DEFINE T == {t \in done : a \in Group(t)}
      <4>2. Cardinality(T) > 1
        <5>1. sent'[a] = sent[a] + Cardinality(T)
          BY <4>1
        <5>2. Cardinality(T) \in Nat
          BY FiniteTasks, FS_Subset, FS_CardinalityType
        <5> HIDE DEF T
        <5> QED BY <1>9, <2>3, <5>1, <5>2
      <4>3. PICK t \in T, u \in T : t # u
        <5>1. ASSUME NEW t \in T, T = {t} PROVE FALSE
          BY <4>2, <5>1, FS_Singleton
        <5>2. T # {}
          BY <4>2, FS_EmptySet
        <5> QED BY <5>1, <5>2
      <4>4. LogOf[a] \in overlapped
        BY <4>3, Shared DEF Group, OnceInv
      <4> QED BY <1>2, <4>4 DEF Excused
    <3> QED BY <1>9, <2>3, <3>1, <3>2, SentChange
  <2> QED BY <1>3, <1>9, <2>1, <2>2, <2>3
<1> QED
  BY <1>6, <1>7, <1>8, <1>9
     DEF OnceInv, SentIsMarked, FirstToSend, TogetherOverlaps, SentOnce, Excused

LEMMA OnceInit == Init => OnceInv
BY BlankType DEF Init, OnceInv, SentIsMarked, FirstToSend, TogetherOverlaps, SentOnce,
   Excused, Sending

----------------------------------------------------------------------------
IInv == TypeOK /\ SessionInv /\ MarkedWasSent /\ OnceInv

\* The invariant holds initially and every step keeps it.
LEMMA Invariance == Spec => []IInv
<1>1. Init => IInv
  BY TypeInit, SessionInit, MarkInit, OnceInit DEF IInv
<1>2. IInv /\ [Next]_vars => IInv'
  BY TypeStep, SessionStep, MarkStep, OnceStep DEF IInv
<1> QED BY <1>1, <1>2, PTL DEF Spec

\* Every variable keeps its type, whatever the tasks, timers and restarts do.
THEOREM TypeCorrect == Spec => []TypeOK
BY Invariance, PTL DEF IInv

\* A key is marked only after an AI checkpoint of an action with it exited 0.
THEOREM MarksAreHonest == Spec => []MarkedWasSent
BY Invariance, PTL DEF IInv

\* Only actions of listed sessions are sent, unless a start() found none.
THEOREM OwnSessionsOnly == Spec => []OnlyOwnSessions
BY Invariance, PTL DEF IInv, SessionInv

\* A second AI checkpoint of an action means that its mark was evicted or lost,
\* that its two keys differ, or that two tasks sent its log at once.
THEOREM SentTwiceIsExcused == Spec => []SentOnce
BY Invariance, PTL DEF IInv, OnceInv
=============================================================================
