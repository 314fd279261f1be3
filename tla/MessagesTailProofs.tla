------------------------- MODULE MessagesTailProofs -------------------------
(***************************************************************************)
(* Proofs about MessagesTail: its types, among them that the offset is     *)
(* always at the end of a line, and that an action is sent twice only in   *)
(* the ways SentOnce names.                                                *)
(***************************************************************************)
EXTENDS MessagesTail, FiniteSetTheorems, TLAPS

\* An old file ends with a line, a session is opened once after a start, and
\* the task of initOffset waits for it.
IInv ==
  /\ TypeOK
  /\ aged => size \in OnLines
  /\ noticed => start = "up"
  /\ start = "off" => open = "no"
  /\ open # "yes" => pc[Opener] = "idle"

USE DEF Tasks

----------------------------------------------------------------------------
LEMMA WholeOnLines ==
  ASSUME NEW n \in 0 .. 2 * Lines
  PROVE  Whole(n) \in OnLines /\ Whole(n) <= n
<1>1. Lines \in Nat /\ n \in Nat
  BY LinesAssumption
<1>2. n % 2 \in 0 .. 1 /\ n % 2 <= n
  BY <1>1
<1>3. (n - (n % 2)) % 2 = 0
  BY <1>1
<1> QED BY <1>1, <1>2, <1>3 DEF Whole, OnLines

LEMMA InitTyped == Init => IInv
<1> SUFFICES ASSUME Init PROVE IInv
  OBVIOUS
<1>1. 0 \in OnLines
  BY LinesAssumption DEF OnLines
<1>2. Lines \in Nat /\ MaxFaults \in Nat
  BY LinesAssumption, BoundsAssumption
<1>3. /\ pc \in [Tasks -> {"idle", "stat", "read", "send"}]
      /\ from \in [Tasks -> OnLines] /\ upto \in [Tasks -> 0 .. 2 * Lines]
      /\ todo \in [Tasks -> SUBSET Actions] /\ sent \in [Actions -> Nat]
  BY <1>1, <1>2 DEF Init
<1>4. \A t \in Tasks : /\ from[t] <= upto[t] /\ upto[t] <= size
                       /\ pc[t] = "send" <=> todo[t] # {}
  BY <1>2 DEF Init
<1>5. offset \in OnLines /\ offset <= size /\ size \in 0 .. 2 * Lines
  BY <1>1, <1>2 DEF Init
<1>6. pc[Opener] = "idle" /\ faults \in 0 .. MaxFaults
  BY <1>2 DEF Init
<1>7. /\ open \in {"no", "stat", "yes"} /\ start \in {"off", "listed", "up"}
      /\ open = "no" /\ ~aged /\ folder = FALSE /\ file = FALSE
      /\ aged = FALSE /\ noticed = FALSE /\ pending = FALSE
      /\ marked = {} /\ refused = {} /\ passed = {} /\ cut = {}
      /\ forgot = {} /\ overlapped = {}
  BY DEF Init
<1> QED BY <1>3, <1>4, <1>5, <1>6, <1>7 DEF IInv, TypeOK

LEMMA NextTyped == IInv /\ [Next]_vars => IInv'
<1> SUFFICES ASSUME IInv, [Next]_vars PROVE IInv'
  OBVIOUS
<1>0. Lines \in Nat /\ \A n \in OnLines : n \in 0 .. 2 * Lines
  BY LinesAssumption DEF OnLines
<1> USE DEF IInv, TypeOK, disk, watch, tasks, history
<1>1. CASE MakeFolder \/ MakeFile \/ Age
  <2>1. CASE MakeFolder BY <2>1 DEF MakeFolder
  <2>2. CASE MakeFile BY <2>2 DEF MakeFile
  <2>3. CASE Age
    <3>1. size \in OnLines
      BY <2>3, WholeOnLines DEF Age
    <3> QED BY <2>3, <3>1 DEF Age
  <2> QED BY <1>1, <2>1, <2>2, <2>3
<1>2. CASE Append
  <2>1. size' \in 0 .. 2 * Lines /\ size <= size'
    BY <1>2, <1>0 DEF Append
  <2>2. offset' <= size' /\ \A t \in Tasks : upto'[t] <= size'
    BY <1>2, <1>0, <2>1 DEF Append
  <2> QED BY <1>2, <2>1, <2>2 DEF Append
<1>3. CASE Discover \/ WatchHashDir \/ LookIntoFolder
  <2>1. CASE Discover
    <3>1. CASE file BY <2>1, <3>1 DEF Discover
    <3>2. CASE ~file BY <2>1, <3>2 DEF Discover
    <3> QED BY <3>1, <3>2
  <2>2. CASE WatchHashDir BY <2>2 DEF WatchHashDir
  <2>3. CASE LookIntoFolder BY <2>3 DEF LookIntoFolder
  <2> QED BY <1>3, <2>1, <2>2, <2>3
<1>4. CASE InitOffset
  <2>1. CASE aged
    BY <2>1, <1>4, <1>0 DEF InitOffset
  <2>2. CASE ~aged
    <3>1. 0 \in OnLines /\ 0 <= size
      BY <1>0 DEF OnLines
    <3>2. pc' \in [Tasks -> {"idle", "stat", "read", "send"}] /\ todo[Opener] = {}
      BY <1>4, <2>2 DEF InitOffset
    <3>3. \A t \in Tasks : pc'[t] = "send" <=> todo'[t] # {}
      BY <1>4, <2>2, <3>2 DEF InitOffset
    <3> QED BY <1>4, <2>2, <3>1, <3>2, <3>3 DEF InitOffset
  <2> QED BY <2>1, <2>2
<1>5. ASSUME NEW t \in Tasks, FireTimer(t) PROVE IInv'
  BY <1>5, TablesAssumption DEF FireTimer
<1>6. ASSUME NEW t \in Tasks, Stat(t) PROVE IInv'
  <2>1. CASE size <= offset
    BY <1>6, <2>1 DEF Stat
  <2>2. CASE ~(size <= offset)
    <3>1. from' \in [Tasks -> OnLines] /\ upto' \in [Tasks -> 0 .. 2 * Lines]
      BY <1>6, <2>2 DEF Stat
    <3>2. \A u \in Tasks : from'[u] <= upto'[u] /\ upto'[u] <= size'
      BY <1>6, <2>2, <1>0 DEF Stat
    <3>3. pc' \in [Tasks -> {"idle", "stat", "read", "send"}]
          /\ \A u \in Tasks : pc'[u] = "send" <=> todo'[u] # {}
      BY <1>6, <2>2 DEF Stat
    <3> QED BY <1>6, <2>2, <3>1, <3>2, <3>3 DEF Stat
  <2> QED BY <2>1, <2>2
<1>7. ASSUME NEW t \in Tasks, Read(t) PROVE IInv'
  <2> DEFINE end == Whole(upto[t])
  <2>1. end \in OnLines /\ end <= upto[t]
    BY WholeOnLines
  <2>2. from' \in [Tasks -> OnLines] /\ upto' \in [Tasks -> 0 .. 2 * Lines]
        /\ \A u \in Tasks : from'[u] <= upto'[u] /\ upto'[u] <= size'
    <3>1. 0 \in OnLines
      BY <1>0 DEF OnLines
    <3> QED BY <1>7, <1>0, <3>1 DEF Read, Reset
  <2>3. open' = open /\ pc[t] = "read" /\ pc'[t] \in {"idle", "send"}
        /\ \A u \in Tasks \ {t} : pc'[u] = pc[u]
    BY <1>7 DEF Read, Filter
  <2>4. CASE end <= from[t]
    BY <1>7, <2>2, <2>4 DEF Read
  <2>5. CASE ~(end <= from[t])
    <3> HIDE DEF end
    <3> DEFINE acts == Parsed(from[t], end)
    <3>1. offset' = end /\ Filter(t, acts) /\ cut' = cut \cup Torn(from[t], end)
          /\ UNCHANGED <<pending, marked, sent, refused, passed, forgot, faults, disk, watch>>
      BY <1>7, <2>5 DEF Read, end
    <3>2. acts \subseteq Actions /\ cut' \subseteq Actions
      BY <3>1 DEF Parsed, Torn
    <3> HIDE DEF acts
    <3>3. /\ todo' \in [Tasks -> SUBSET Actions] /\ overlapped' \subseteq Actions
          /\ pc' \in [Tasks -> {"idle", "stat", "read", "send"}]
          /\ \A u \in Tasks : pc'[u] = "send" <=> todo'[u] # {}
      BY <3>1, <3>2 DEF Filter
    <3>4. end <= size
      BY <2>1, <1>0
    <3> QED BY <2>1, <2>2, <2>3, <3>1, <3>2, <3>3, <3>4
  <2> QED BY <2>4, <2>5
<1>8. ASSUME NEW t \in Tasks, NEW r \in Repos, Send(t, r) \/ SendFails(t, r) PROVE IInv'
  <2>1. Group(t, r) \subseteq Actions /\ KeysOf(Group(t, r)) \subseteq Keys
    BY TablesAssumption DEF Group, KeysOf
  <2>2. pc[t] = "send" /\ NextGroup(t, r)
        /\ UNCHANGED <<offset, pending, passed, cut, overlapped, disk, watch>>
    BY <1>8 DEF Send, SendFails
  <2>3. /\ todo' \in [Tasks -> SUBSET Actions]
        /\ pc' \in [Tasks -> {"idle", "stat", "read", "send"}]
        /\ \A u \in Tasks : pc'[u] = "send" <=> todo'[u] # {}
        /\ UNCHANGED <<from, upto>>
    BY <2>1, <2>2 DEF NextGroup
  <2>4. open # "yes" => pc'[Opener] = "idle"
    BY <2>2 DEF NextGroup
  <2>5. /\ marked' \subseteq Keys /\ forgot' \subseteq Keys /\ refused' \subseteq Actions
        /\ sent' \in [Actions -> Nat] /\ faults' \in 0 .. MaxFaults
    <3>1. CASE Send(t, r)
      BY <2>1, <3>1 DEF Send
    <3>2. CASE SendFails(t, r)
      BY <2>1, <3>2, BoundsAssumption DEF SendFails
    <3> QED BY <1>8, <3>1, <3>2
  <2> QED BY <2>2, <2>3, <2>4, <2>5
<1>9. CASE Restart
  <2>1. PICK last \in [Tasks -> Repos \cup {NoRepo}] :
          /\ sent' = [a \in Actions |-> sent[a] + Cardinality({t \in Tasks : a \in Group(t, last[t])})]
          /\ forgot' = forgot \cup marked \cup UNION {KeysOf(Group(t, last[t])) : t \in Tasks}
    BY <1>9 DEF Restart
  <2>2. forgot' \subseteq Keys
    BY <2>1, TablesAssumption DEF KeysOf, Group
  <2>3. \A a \in Actions : Cardinality({t \in Tasks : a \in Group(t, last[t])}) \in Nat
    <3>1. IsFiniteSet(Tasks)
      BY TablesAssumption, FS_AddElement
    <3> QED BY <3>1, FS_Subset, FS_CardinalityType
  <2>4. sent' \in [Actions -> Nat]
    BY <2>1, <2>3
  <2>5. 0 \in OnLines /\ 0 <= size /\ faults' \in 0 .. MaxFaults
    BY <1>0, <1>9, BoundsAssumption DEF OnLines, Restart
  <2>6. /\ pc' = [t \in Tasks |-> "idle"] /\ todo' = [t \in Tasks |-> {}]
        /\ from' = [t \in Tasks |-> 0] /\ upto' = [t \in Tasks |-> 0]
        /\ offset' = 0 /\ UNCHANGED <<refused, passed, cut, overlapped, disk>>
        /\ marked' = {} /\ start' = "off" /\ open' = "no"
        /\ noticed' = FALSE /\ pending' = FALSE
    BY <1>9 DEF Restart
  <2>7. \A t \in Tasks : /\ from'[t] <= upto'[t] /\ upto'[t] <= size'
                         /\ pc'[t] = "send" <=> todo'[t] # {}
    BY <2>5, <2>6
  <2>8. /\ pc' \in [Tasks -> {"idle", "stat", "read", "send"}] /\ pc'[Opener] = "idle"
        /\ from' \in [Tasks -> OnLines] /\ upto' \in [Tasks -> 0 .. 2 * Lines]
        /\ todo' \in [Tasks -> SUBSET Actions]
    BY <1>0, <2>5, <2>6
  <2> QED BY <2>2, <2>4, <2>5, <2>6, <2>7, <2>8
<1>10. CASE UNCHANGED vars
  BY <1>10 DEF vars
<1> QED BY <1>1, <1>2, <1>3, <1>4, <1>5, <1>6, <1>7, <1>8, <1>9, <1>10
        DEF Next, Starting, Step

\* For any number of lines, actions, tasks and faults every variable keeps its
\* type, and the reader of messages.jsonl stands at the end of a line.
THEOREM TypeCorrect == Spec => []TypeOK
<1>1. Spec => []IInv
  BY InitTyped, NextTyped, PTL DEF Spec
<1>2. IInv => TypeOK
  BY DEF IInv
<1> QED BY <1>1, <1>2, PTL

----------------------------------------------------------------------------
\* What a mark protects: an action whose two keys agree, whose mark was not
\* lost, and which no two tasks held at once.
Protected(a) == RepoKey[a] \notin forgot /\ RepoKey[a] = RawKey[a] /\ a \notin overlapped

\* A protected action is sent at most once; it is marked when it was sent,
\* and held by one task at most, and only while it was not sent.
Once(a) ==
  /\ sent[a] <= 1
  /\ sent[a] = 1 => RepoKey[a] \in marked
  /\ \A t \in Tasks : a \in todo[t] => sent[a] = 0
  /\ \A t, u \in Tasks : a \in todo[t] /\ a \in todo[u] => t = u
OInv == \A a \in Actions : Protected(a) => Once(a)

LEMMA InitOnce == Init => OInv
BY DEF Init, OInv, Protected, Once

LEMMA NextOnce == IInv /\ OInv /\ [Next]_vars => OInv'
<1> SUFFICES ASSUME IInv, OInv, [Next]_vars, NEW a \in Actions, Protected(a)'
             PROVE  Once(a)'
  BY DEF OInv
<1>0. /\ sent \in [Actions -> Nat] /\ todo \in [Tasks -> SUBSET Actions]
      /\ sent[a] \in Nat
  BY DEF IInv, TypeOK
<1>1. ASSUME UNCHANGED <<sent, todo, marked, forgot, overlapped>> PROVE Once(a)'
  BY <1>1 DEF OInv, Protected, Once
<1>2. CASE MakeFolder \/ MakeFile \/ Append \/ Age \/ Starting \/ UNCHANGED vars
  BY <1>1, <1>2 DEF MakeFolder, MakeFile, Append, Age, Starting, Discover, WatchHashDir,
                    LookIntoFolder, InitOffset, tasks, history, vars
<1>3. ASSUME NEW t \in Tasks, FireTimer(t) \/ Stat(t) PROVE Once(a)'
  BY <1>1, <1>3 DEF FireTimer, Stat, history
<1>4. ASSUME NEW t \in Tasks, Read(t) PROVE Once(a)'
  <2>1. CASE Whole(upto[t]) <= from[t]
    BY <1>1, <1>4, <2>1 DEF Read
  <2>2. CASE ~(Whole(upto[t]) <= from[t])
    <3> DEFINE acts == Parsed(from[t], Whole(upto[t]))
               new == {b \in acts : RawKey[b] \notin marked}
    <3>1. /\ todo' = [todo EXCEPT ![t] = new]
          /\ overlapped' = overlapped \cup (new \cap UNION {todo[u] : u \in Tasks \ {t}})
          /\ UNCHANGED <<sent, marked, forgot>>
      BY <1>4, <2>2 DEF Read, Filter
    <3> HIDE DEF acts
    <3>2. Protected(a) /\ Once(a)
      BY <3>1 DEF OInv, Protected
    <3>3. todo'[t] = new /\ \A u \in Tasks \ {t} : todo'[u] = todo[u]
      BY <3>1, <1>0
    <3>4. a \in new => \A u \in Tasks \ {t} : a \notin todo[u]
      BY <3>1 DEF Protected
    <3>5. a \in new => sent[a] = 0
      BY <3>2, <1>0 DEF Protected, Once
    <3> HIDE DEF new
    <3> QED BY <3>1, <3>2, <3>3, <3>4, <3>5 DEF Once
  <2> QED BY <2>1, <2>2
<1>5. ASSUME NEW t \in Tasks, NEW r \in Repos, Send(t, r) PROVE Once(a)'
  <2> DEFINE g == Group(t, r)
  <2>1. PICK old \in SUBSET (marked \cup KeysOf(g)) :
          /\ marked' = (marked \cup KeysOf(g)) \ old
          /\ forgot' = forgot \cup old
    BY <1>5 DEF Send
  <2>2. /\ sent' = [b \in Actions |-> IF b \in g THEN sent[b] + 1 ELSE sent[b]]
        /\ todo' = [todo EXCEPT ![t] = todo[t] \ g]
        /\ overlapped' = overlapped
    BY <1>5 DEF Send, NextGroup
  <2>3. Protected(a) /\ Once(a) /\ RepoKey[a] \notin old
    BY <2>1, <2>2 DEF OInv, Protected
  <2>4. g \subseteq todo[t]
    BY DEF Group
  <2>5. todo'[t] = todo[t] \ g /\ \A u \in Tasks \ {t} : todo'[u] = todo[u]
    BY <2>2, <1>0
  <2>6. CASE a \in g
    <3>1. sent'[a] = 1 /\ RepoKey[a] \in marked'
      BY <2>1, <2>2, <2>3, <2>4, <2>6, <1>0 DEF Once, KeysOf
    <3>2. \A u \in Tasks : a \notin todo'[u]
      BY <2>3, <2>4, <2>5, <2>6 DEF Once
    <3> QED BY <3>1, <3>2 DEF Once
  <2>7. CASE a \notin g
    <3>1. sent'[a] = sent[a] /\ (RepoKey[a] \in marked => RepoKey[a] \in marked')
      BY <2>1, <2>2, <2>3, <2>7
    <3>2. \A u \in Tasks : a \in todo'[u] => a \in todo[u]
      BY <2>5
    <3> QED BY <3>1, <3>2, <2>3 DEF Once
  <2> QED BY <2>6, <2>7
<1>6. ASSUME NEW t \in Tasks, NEW r \in Repos, SendFails(t, r) PROVE Once(a)'
  <2>1. /\ UNCHANGED <<sent, marked, forgot, overlapped>>
        /\ todo' = [todo EXCEPT ![t] = todo[t] \ Group(t, r)]
    BY <1>6 DEF SendFails, NextGroup
  <2>2. Protected(a) /\ Once(a)
    BY <2>1 DEF OInv, Protected
  <2>3. \A u \in Tasks : a \in todo'[u] => a \in todo[u]
    BY <2>1, <1>0
  <2> QED BY <2>1, <2>2, <2>3 DEF Once
<1>7. CASE Restart
  <2>1. PICK last \in [Tasks -> Repos \cup {NoRepo}] :
          /\ sent' = [b \in Actions |-> sent[b] + Cardinality({t \in Tasks : b \in Group(t, last[t])})]
          /\ forgot' = forgot \cup marked \cup UNION {KeysOf(Group(t, last[t])) : t \in Tasks}
    BY <1>7 DEF Restart
  <2>2. todo' = [t \in Tasks |-> {}] /\ overlapped' = overlapped
    BY <1>7 DEF Restart
  <2>3. Protected(a) /\ Once(a) /\ RepoKey[a] \notin marked
    BY <2>1, <2>2 DEF OInv, Protected
  <2>4. {t \in Tasks : a \in Group(t, last[t])} = {}
    BY <2>1 DEF Protected, KeysOf
  <2>5. sent'[a] = 0
    BY <2>1, <2>3, <2>4, <1>0, FS_EmptySet DEF Once
  <2> QED BY <2>2, <2>5 DEF Once
<1> QED BY <1>2, <1>3, <1>4, <1>5, <1>6, <1>7 DEF Next, Step

\* A second checkpoint of an action implies that its mark was lost, that its
\* two keys differ, or that two tasks held it at once, for any file, any number
\* of tasks and restarts and any cap on the marks.
THEOREM SentTwiceIsExcused == Spec => []SentOnce
<1>1. Init => IInv /\ OInv
  BY InitTyped, InitOnce
<1>2. (IInv /\ OInv) /\ [Next]_vars => (IInv /\ OInv)'
  BY NextTyped, NextOnce
<1>3. IInv /\ OInv => SentOnce
  BY DEF IInv, TypeOK, OInv, Protected, Once, SentOnce
<1> QED BY <1>1, <1>2, <1>3, PTL DEF Spec
=============================================================================
