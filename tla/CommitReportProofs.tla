------------------------- MODULE CommitReportProofs -------------------------
(***************************************************************************)
(* Proofs about CommitReport: its types, the exclusion of the lock, that   *)
(* under the lock every report is filed under its own commit, what the     *)
(* report of a quiet commit is computed from, where a count of deletions   *)
(* ends up, and what the numbers of a report add up to (LineMetrics).      *)
(***************************************************************************)
EXTENDS CommitReport, LineMetrics, FiniteSetTheorems, TLAPS

\* Under the lock the payload a hook is about to send is its own.
PayloadIsOwn ==
  flock => \A h \in Moves : pc[h] = "curl" => payload \in Report /\ payload.body = sha[h]

IInv == TypeOK /\ PayloadIsOwn /\ ReportsAreOwn

----------------------------------------------------------------------------
LEMMA ShasOfReflog ==
  ASSUME GitTyped
  PROVE  /\ HEAD \in Shas
         /\ \A i \in 1 .. Len(reflog) : reflog[i] \in Entries
<1>1. Len(reflog) \in 1 .. Len(reflog)
  BY BoundsAssumption DEF GitTyped
<1> DEFINE R == Entries
<1>2. \A i \in 1 .. Len(reflog) : reflog[i] \in R
  <2>1. reflog \in Seq(R)
    BY DEF GitTyped
  <2> HIDE DEF R
  <2> QED BY <2>1
<1> QED BY <1>1, <1>2 DEF HEAD, Last, Entries

\* The end of a hook leaves the other hooks, and the lock of another, alone.
LEMMA EndTyped ==
  ASSUME HooksTyped, LockIsExclusive, flock \in BOOLEAN, NEW h \in Moves, End(h),
         pc[h] \notin {"none", "done"}, UNCHANGED <<reflog, flock>>,
         ~flock \/ pc[h] # "lock" \/ lock # h
  PROVE  HooksTyped' /\ LockIsExclusive'
<1>1. pc' = [pc EXCEPT ![h] = "done"]
  BY DEF End, Goto
<1>2. HooksTyped'
  BY <1>1 DEF HooksTyped, End, Steps
<1>3. lock' \in Moves \cup {NoSha}
  BY DEF LockIsExclusive, End
<1>4. ASSUME flock, NEW k \in Moves
      PROVE  lock' = k <=> pc'[k] \notin {"none", "head", "lock", "done"}
  <2>1. CASE k = h
    BY <2>1, <1>1, BoundsAssumption DEF End, HooksTyped, Moves
  <2>2. CASE k # h
    <3>1. pc'[k] = pc[k]
      BY <2>2, <1>1 DEF HooksTyped
    <3>2. lock' = k <=> lock = k
      BY <2>2, BoundsAssumption DEF End, Moves
    <3> QED BY <3>1, <3>2, <1>4 DEF LockIsExclusive
  <2> QED BY <2>1, <2>2
<1> QED BY <1>2, <1>3, <1>4 DEF LockIsExclusive

LEMMA InitIInv == Init => IInv
<1> SUFFICES ASSUME Init PROVE IInv
  OBVIOUS
<1> USE BoundsAssumption DEF Init, Moves, Shas
<1>1. GitTyped BY DEF GitTyped, Entries, Kinds, Patterns
<1>2. FilesTyped BY DEF FilesTyped
<1>3. HooksTyped BY DEF HooksTyped, Steps
<1>4. LockIsExclusive BY DEF LockIsExclusive
<1>5. ExtensionTyped BY DEF ExtensionTyped
<1>6. HistoryTyped BY DEF HistoryTyped
<1>7. PayloadIsOwn /\ ReportsAreOwn BY DEF PayloadIsOwn, ReportsAreOwn
<1> QED BY <1>1, <1>2, <1>3, <1>4, <1>5, <1>6, <1>7 DEF IInv, TypeOK

LEMMA MoveInv ==
  ASSUME IInv, NEW kind \in Kinds, NEW says \in Patterns, NEW to \in Shas,
         Move(kind, says, to)
  PROVE  IInv'
<1> USE BoundsAssumption, ShasOfReflog DEF IInv, TypeOK, Moves, Shas, Move, Busy, Unnoticed, Made,
      machine, files, hooks, extension, history
<1>1. GitTyped' BY DEF GitTyped, Entries
<1>2. FilesTyped' BY DEF FilesTyped, HooksTyped
<1>3. HooksTyped' BY DEF HooksTyped, FilesTyped, GitTyped, Steps
<1>4. LockIsExclusive' BY DEF LockIsExclusive, HooksTyped, GitTyped
<1>5. ExtensionTyped' BY DEF ExtensionTyped
<1>6. HistoryTyped'
  <2>1. killed' \subseteq {"post", "stats", "task"} \X Shas
    BY DEF HistoryTyped, HooksTyped
  <2>2. reports' \subseteq [key : Shas, body : Shas, from : Shas \cup {NoSha}, del : Shas \cup {NoSha}]
    BY DEF HistoryTyped, HooksTyped, FilesTyped
  <2>3. /\ crowded' \subseteq Shas /\ overtaken' \subseteq Shas /\ slipped' \subseteq Shas
        /\ strays' \subseteq Shas /\ failed' \subseteq Shas
    <3>1. Busy \subseteq Shas /\ Unnoticed \subseteq Shas /\ Len(reflog) \in Shas
      BY DEF GitTyped
    <3>2. crowded \subseteq Shas /\ overtaken \subseteq Shas /\ slipped \subseteq Shas
          /\ strays \subseteq Shas /\ failed \subseteq Shas /\ netDel \in Shas \cup {NoSha}
      BY DEF HistoryTyped, FilesTyped
    <3> HIDE DEF Busy, Unnoticed, Shas
    <3> QED BY <3>1, <3>2
  <2>4. faults' \in 0 .. MaxFaults /\ counts' \in 0 .. MaxCounts
    BY DEF HistoryTyped
  <2> QED BY <2>1, <2>2, <2>3, <2>4 DEF HistoryTyped
<1>7. PayloadIsOwn' BY DEF PayloadIsOwn, LockIsExclusive, HooksTyped
<1>8. ReportsAreOwn' BY DEF ReportsAreOwn, PayloadIsOwn
<1> QED BY <1>1, <1>2, <1>3, <1>4, <1>5, <1>6, <1>7, <1>8

LEMMA CountDeletionsInv ==
  ASSUME IInv, CountDeletions
  PROVE  IInv'
<1> USE BoundsAssumption, ShasOfReflog DEF IInv, TypeOK, Moves, Shas, CountDeletions, Busy,
      machine, files, hooks, extension, history
<1>1. GitTyped' BY DEF GitTyped
<1>2. FilesTyped' BY DEF FilesTyped, HooksTyped
<1>3. HooksTyped' BY DEF HooksTyped, FilesTyped, GitTyped, Steps
<1>4. LockIsExclusive' BY DEF LockIsExclusive, HooksTyped, GitTyped
<1>5. ExtensionTyped' BY DEF ExtensionTyped
<1>6. HistoryTyped'
  <2>1. killed' \subseteq {"post", "stats", "task"} \X Shas
    BY DEF HistoryTyped, HooksTyped
  <2>2. reports' \subseteq [key : Shas, body : Shas, from : Shas \cup {NoSha}, del : Shas \cup {NoSha}]
    BY DEF HistoryTyped, HooksTyped, FilesTyped
  <2>3. /\ crowded' \subseteq Shas /\ overtaken' \subseteq Shas /\ slipped' \subseteq Shas
        /\ strays' \subseteq Shas /\ failed' \subseteq Shas
    BY DEF HistoryTyped, HooksTyped, FilesTyped, GitTyped
  <2>4. faults' \in 0 .. MaxFaults /\ counts' \in 0 .. MaxCounts
    BY DEF HistoryTyped
  <2> QED BY <2>1, <2>2, <2>3, <2>4 DEF HistoryTyped
<1>7. PayloadIsOwn' BY DEF PayloadIsOwn, LockIsExclusive, HooksTyped
<1>8. ReportsAreOwn' BY DEF ReportsAreOwn, PayloadIsOwn
<1> QED BY <1>1, <1>2, <1>3, <1>4, <1>5, <1>6, <1>7, <1>8

LEMMA ReadHeadInv ==
  ASSUME IInv, NEW h \in Moves, ReadHead(h)
  PROVE  IInv'
<1> USE BoundsAssumption, ShasOfReflog DEF IInv, TypeOK, Moves, Shas, ReadHead, Goto,
      machine, files, hooks, extension, history
<1>1. GitTyped' BY DEF GitTyped
<1>2. FilesTyped' BY DEF FilesTyped, HooksTyped
<1>3. HooksTyped' BY DEF HooksTyped, FilesTyped, GitTyped, Steps
<1>4. LockIsExclusive' BY DEF LockIsExclusive, HooksTyped, GitTyped
<1>5. ExtensionTyped' BY DEF ExtensionTyped
<1>6. HistoryTyped'
  <2>1. killed' \subseteq {"post", "stats", "task"} \X Shas
    BY DEF HistoryTyped, HooksTyped
  <2>2. reports' \subseteq [key : Shas, body : Shas, from : Shas \cup {NoSha}, del : Shas \cup {NoSha}]
    BY DEF HistoryTyped, HooksTyped, FilesTyped
  <2>3. /\ crowded' \subseteq Shas /\ overtaken' \subseteq Shas /\ slipped' \subseteq Shas
        /\ strays' \subseteq Shas /\ failed' \subseteq Shas
    BY DEF HistoryTyped, HooksTyped, FilesTyped, GitTyped
  <2>4. faults' \in 0 .. MaxFaults /\ counts' \in 0 .. MaxCounts
    BY DEF HistoryTyped
  <2> QED BY <2>1, <2>2, <2>3, <2>4 DEF HistoryTyped
<1>7. PayloadIsOwn' BY DEF PayloadIsOwn, LockIsExclusive, HooksTyped
<1>8. ReportsAreOwn' BY DEF ReportsAreOwn, PayloadIsOwn
<1> QED BY <1>1, <1>2, <1>3, <1>4, <1>5, <1>6, <1>7, <1>8

LEMMA TakeLockInv ==
  ASSUME IInv, NEW h \in Moves, TakeLock(h)
  PROVE  IInv'
<1> USE BoundsAssumption, ShasOfReflog DEF IInv, TypeOK, Moves, Shas, TakeLock, End, Goto,
      machine, files, hooks, extension, history
<1>1. GitTyped' BY DEF GitTyped
<1>2. FilesTyped' BY DEF FilesTyped, HooksTyped
<1>3. HooksTyped' /\ LockIsExclusive'
  <2>1. CASE End(h)
    <3> HIDE DEF End
    <3>1. pc[h] = "lock" /\ UNCHANGED <<reflog, flock>>
      OBVIOUS
    <3>2. ~flock \/ pc[h] # "lock" \/ lock # h
      BY <3>1 DEF LockIsExclusive
    <3> QED BY <3>1, <3>2, <2>1, EndTyped DEF GitTyped
  <2>2. CASE ~End(h)
    <3>1. HooksTyped' BY <2>2 DEF HooksTyped, FilesTyped, Steps
    <3>2. LockIsExclusive' BY <2>2 DEF LockIsExclusive, HooksTyped, GitTyped
    <3> QED BY <3>1, <3>2
  <2> QED BY <2>1, <2>2
<1>5. ExtensionTyped' BY DEF ExtensionTyped
<1>6. HistoryTyped'
  <2>1. killed' \subseteq {"post", "stats", "task"} \X Shas
    BY DEF HistoryTyped, HooksTyped
  <2>2. reports' \subseteq [key : Shas, body : Shas, from : Shas \cup {NoSha}, del : Shas \cup {NoSha}]
    BY DEF HistoryTyped, HooksTyped, FilesTyped
  <2>3. /\ crowded' \subseteq Shas /\ overtaken' \subseteq Shas /\ slipped' \subseteq Shas
        /\ strays' \subseteq Shas /\ failed' \subseteq Shas
    BY DEF HistoryTyped, HooksTyped, FilesTyped, GitTyped
  <2>4. faults' \in 0 .. MaxFaults /\ counts' \in 0 .. MaxCounts
    BY DEF HistoryTyped
  <2> QED BY <2>1, <2>2, <2>3, <2>4 DEF HistoryTyped
<1>7. PayloadIsOwn' BY DEF PayloadIsOwn, LockIsExclusive, HooksTyped
<1>8. ReportsAreOwn' BY DEF ReportsAreOwn, PayloadIsOwn
<1> QED BY <1>1, <1>2, <1>3, <1>5, <1>6, <1>7, <1>8

LEMMA ReadReflogInv ==
  ASSUME IInv, NEW h \in Moves, ReadReflog(h)
  PROVE  IInv'
<1> USE BoundsAssumption, ShasOfReflog DEF IInv, TypeOK, Moves, Shas, ReadReflog, End, Goto,
      machine, files, hooks, extension, history
<1>1. GitTyped' BY DEF GitTyped
<1>2. FilesTyped' BY DEF FilesTyped, HooksTyped
<1>3. HooksTyped' /\ LockIsExclusive'
  <2>1. CASE End(h)
    <3> HIDE DEF End
    <3>1. pc[h] = "reflog" /\ UNCHANGED <<reflog, flock>>
      OBVIOUS
    <3>2. ~flock \/ pc[h] # "lock" \/ lock # h
      BY <3>1 DEF LockIsExclusive
    <3> QED BY <3>1, <3>2, <2>1, EndTyped DEF GitTyped
  <2>2. CASE ~End(h)
    <3>1. HooksTyped' BY <2>2 DEF HooksTyped, FilesTyped, Steps
    <3>2. LockIsExclusive' BY <2>2 DEF LockIsExclusive, HooksTyped, GitTyped
    <3> QED BY <3>1, <3>2
  <2> QED BY <2>1, <2>2
<1>5. ExtensionTyped' BY DEF ExtensionTyped
<1>6. HistoryTyped'
  <2>1. killed' \subseteq {"post", "stats", "task"} \X Shas
    BY DEF HistoryTyped, HooksTyped
  <2>2. reports' \subseteq [key : Shas, body : Shas, from : Shas \cup {NoSha}, del : Shas \cup {NoSha}]
    BY DEF HistoryTyped, HooksTyped, FilesTyped
  <2>3. /\ crowded' \subseteq Shas /\ overtaken' \subseteq Shas /\ slipped' \subseteq Shas
        /\ strays' \subseteq Shas /\ failed' \subseteq Shas
    BY DEF HistoryTyped, HooksTyped, FilesTyped, GitTyped
  <2>4. faults' \in 0 .. MaxFaults /\ counts' \in 0 .. MaxCounts
    BY DEF HistoryTyped
  <2> QED BY <2>1, <2>2, <2>3, <2>4 DEF HistoryTyped
<1>7. PayloadIsOwn' BY DEF PayloadIsOwn, LockIsExclusive, HooksTyped
<1>8. ReportsAreOwn' BY DEF ReportsAreOwn, PayloadIsOwn
<1> QED BY <1>1, <1>2, <1>3, <1>5, <1>6, <1>7, <1>8

LEMMA ReadOriginalInv ==
  ASSUME IInv, NEW h \in Moves, ReadOriginal(h)
  PROVE  IInv'
<1> USE BoundsAssumption, ShasOfReflog DEF IInv, TypeOK, Moves, Shas, ReadOriginal, Goto,
      machine, files, hooks, extension, history
<1>1. GitTyped' BY DEF GitTyped
<1>2. FilesTyped' BY DEF FilesTyped, HooksTyped
<1>3. HooksTyped'
  <2>1. reflog[Len(reflog) - 1] \in Entries
    <3>1. Len(reflog) \in Nat /\ h < Len(reflog) /\ h \in Nat \ {0}
      BY DEF HooksTyped, GitTyped
    <3>2. Len(reflog) - 1 \in 1 .. Len(reflog)
      BY <3>1
    <3> QED BY <3>2, ShasOfReflog
  <2> QED BY <2>1 DEF HooksTyped, Steps, Entries
<1>4. LockIsExclusive' BY DEF LockIsExclusive, HooksTyped, GitTyped
<1>5. ExtensionTyped' BY DEF ExtensionTyped
<1>6. HistoryTyped'
  <2>1. killed' \subseteq {"post", "stats", "task"} \X Shas
    BY DEF HistoryTyped, HooksTyped
  <2>2. reports' \subseteq [key : Shas, body : Shas, from : Shas \cup {NoSha}, del : Shas \cup {NoSha}]
    BY DEF HistoryTyped, HooksTyped, FilesTyped
  <2>3. /\ crowded' \subseteq Shas /\ overtaken' \subseteq Shas /\ slipped' \subseteq Shas
        /\ strays' \subseteq Shas /\ failed' \subseteq Shas
    BY DEF HistoryTyped, HooksTyped, FilesTyped, GitTyped
  <2>4. faults' \in 0 .. MaxFaults /\ counts' \in 0 .. MaxCounts
    BY DEF HistoryTyped
  <2> QED BY <2>1, <2>2, <2>3, <2>4 DEF HistoryTyped
<1>7. PayloadIsOwn' BY DEF PayloadIsOwn, LockIsExclusive, HooksTyped
<1>8. ReportsAreOwn' BY DEF ReportsAreOwn, PayloadIsOwn
<1> QED BY <1>1, <1>2, <1>3, <1>4, <1>5, <1>6, <1>7, <1>8

LEMMA PostCommitInv ==
  ASSUME IInv, NEW h \in Moves, PostCommit(h)
  PROVE  IInv'
<1> USE BoundsAssumption, ShasOfReflog DEF IInv, TypeOK, Moves, Shas, PostCommit, Goto, Unnoted, Fault,
      machine, files, hooks, extension, history
<1>1. GitTyped' BY DEF GitTyped
<1>2. FilesTyped' BY DEF FilesTyped, HooksTyped
<1>3. HooksTyped' BY DEF HooksTyped, FilesTyped, GitTyped, Steps
<1>4. LockIsExclusive' BY DEF LockIsExclusive, HooksTyped, GitTyped
<1>5. ExtensionTyped' BY DEF ExtensionTyped
<1>6. HistoryTyped'
  <2>1. killed' \subseteq {"post", "stats", "task"} \X Shas
    BY DEF HistoryTyped, HooksTyped
  <2>2. reports' \subseteq [key : Shas, body : Shas, from : Shas \cup {NoSha}, del : Shas \cup {NoSha}]
    BY DEF HistoryTyped, HooksTyped, FilesTyped
  <2>3. /\ crowded' \subseteq Shas /\ overtaken' \subseteq Shas /\ slipped' \subseteq Shas
        /\ strays' \subseteq Shas /\ failed' \subseteq Shas
    BY DEF HistoryTyped, HooksTyped, FilesTyped, GitTyped
  <2>4. faults' \in 0 .. MaxFaults /\ counts' \in 0 .. MaxCounts
    BY DEF HistoryTyped
  <2> QED BY <2>1, <2>2, <2>3, <2>4 DEF HistoryTyped
<1>7. PayloadIsOwn' BY DEF PayloadIsOwn, LockIsExclusive, HooksTyped
<1>8. ReportsAreOwn' BY DEF ReportsAreOwn, PayloadIsOwn
<1> QED BY <1>1, <1>2, <1>3, <1>4, <1>5, <1>6, <1>7, <1>8

LEMMA WriteNoteInv ==
  ASSUME IInv, NEW h \in Moves, WriteNote(h)
  PROVE  IInv'
<1> USE BoundsAssumption, ShasOfReflog DEF IInv, TypeOK, Moves, Shas, WriteNote, Goto, Fault,
      machine, files, hooks, extension, history
<1>1. GitTyped' BY DEF GitTyped
<1>2. FilesTyped' BY DEF FilesTyped, HooksTyped
<1>3. HooksTyped' BY DEF HooksTyped, FilesTyped, GitTyped, Steps
<1>4. LockIsExclusive' BY DEF LockIsExclusive, HooksTyped, GitTyped
<1>5. ExtensionTyped' BY DEF ExtensionTyped
<1>6. HistoryTyped'
  <2>1. killed' \subseteq {"post", "stats", "task"} \X Shas
    BY DEF HistoryTyped, HooksTyped
  <2>2. reports' \subseteq [key : Shas, body : Shas, from : Shas \cup {NoSha}, del : Shas \cup {NoSha}]
    BY DEF HistoryTyped, HooksTyped, FilesTyped
  <2>3. /\ crowded' \subseteq Shas /\ overtaken' \subseteq Shas /\ slipped' \subseteq Shas
        /\ strays' \subseteq Shas /\ failed' \subseteq Shas
    BY DEF HistoryTyped, HooksTyped, FilesTyped, GitTyped
  <2>4. faults' \in 0 .. MaxFaults /\ counts' \in 0 .. MaxCounts
    BY DEF HistoryTyped
  <2> QED BY <2>1, <2>2, <2>3, <2>4 DEF HistoryTyped
<1>7. PayloadIsOwn' BY DEF PayloadIsOwn, LockIsExclusive, HooksTyped
<1>8. ReportsAreOwn' BY DEF ReportsAreOwn, PayloadIsOwn
<1> QED BY <1>1, <1>2, <1>3, <1>4, <1>5, <1>6, <1>7, <1>8

LEMMA StatsInv ==
  ASSUME IInv, NEW h \in Moves, Stats(h)
  PROVE  IInv'
<1> USE BoundsAssumption, ShasOfReflog DEF IInv, TypeOK, Moves, Shas, Stats, End, Goto, Fault,
      machine, files, hooks, extension, history
<1>1. GitTyped' BY DEF GitTyped
<1>2. FilesTyped' BY DEF FilesTyped, HooksTyped
<1>3. HooksTyped' /\ LockIsExclusive'
  <2>1. CASE End(h)
    <3> HIDE DEF End
    <3>1. pc[h] = "stats" /\ UNCHANGED <<reflog, flock>>
      OBVIOUS
    <3>2. ~flock \/ pc[h] # "lock" \/ lock # h
      BY <3>1 DEF LockIsExclusive
    <3> QED BY <3>1, <3>2, <2>1, EndTyped DEF GitTyped
  <2>2. CASE ~End(h)
    <3>0. note[sha[h]] \in Shas \cup {NoSha} /\ netDel \in Shas \cup {NoSha}
      BY DEF HooksTyped, FilesTyped
    <3>1. HooksTyped'
      <4>1. /\ from' = [from EXCEPT ![h] = note[sha[h]]] /\ del' = [del EXCEPT ![h] = netDel]
            /\ pc' = [pc EXCEPT ![h] = "clear"] /\ pc[h] = "stats" /\ UNCHANGED <<sha, old, reflog>>
        BY <2>2
      <4> HIDE DEF Shas, Stats
      <4> QED BY <4>1, <3>0 DEF HooksTyped, Steps
    <3>2. LockIsExclusive' BY <2>2 DEF LockIsExclusive, HooksTyped, GitTyped
    <3> QED BY <3>1, <3>2
  <2> QED BY <2>1, <2>2
<1>5. ExtensionTyped' BY DEF ExtensionTyped
<1>6. HistoryTyped'
  <2>1. killed' \subseteq {"post", "stats", "task"} \X Shas
    BY DEF HistoryTyped, HooksTyped
  <2>2. reports' \subseteq [key : Shas, body : Shas, from : Shas \cup {NoSha}, del : Shas \cup {NoSha}]
    BY DEF HistoryTyped, HooksTyped, FilesTyped
  <2>3. /\ crowded' \subseteq Shas /\ overtaken' \subseteq Shas /\ slipped' \subseteq Shas
        /\ strays' \subseteq Shas /\ failed' \subseteq Shas
    <3>1. UNCHANGED <<crowded, overtaken, slipped>>
      OBVIOUS
    <3>2. strays' \subseteq strays \cup ({netDel} \ {NoSha}) /\ failed' \subseteq failed \cup {sha[h]}
      OBVIOUS
    <3>3. sha[h] \in Shas /\ netDel \in Shas \cup {NoSha}
      BY DEF HooksTyped, FilesTyped
    <3> HIDE DEF Stats, Shas
    <3> QED BY <3>1, <3>2, <3>3 DEF HistoryTyped
  <2>4. faults' \in 0 .. MaxFaults /\ counts' \in 0 .. MaxCounts
    BY DEF HistoryTyped
  <2> QED BY <2>1, <2>2, <2>3, <2>4 DEF HistoryTyped
<1>7. PayloadIsOwn' BY DEF PayloadIsOwn, LockIsExclusive, HooksTyped
<1>8. ReportsAreOwn' BY DEF ReportsAreOwn, PayloadIsOwn
<1> QED BY <1>1, <1>2, <1>3, <1>5, <1>6, <1>7, <1>8

LEMMA WritePayloadInv ==
  ASSUME IInv, NEW h \in Moves, WritePayload(h)
  PROVE  IInv'
<1> USE BoundsAssumption, ShasOfReflog DEF IInv, TypeOK, Moves, Shas, WritePayload, Goto, Report, NoPayload,
      machine, files, hooks, extension, history
<1>1. GitTyped' BY DEF GitTyped
<1>2. FilesTyped' BY DEF FilesTyped, HooksTyped
<1>3. HooksTyped' BY DEF HooksTyped, FilesTyped, GitTyped, Steps
<1>4. LockIsExclusive' BY DEF LockIsExclusive, HooksTyped, GitTyped
<1>5. ExtensionTyped' BY DEF ExtensionTyped
<1>6. HistoryTyped'
  <2>1. killed' \subseteq {"post", "stats", "task"} \X Shas
    BY DEF HistoryTyped, HooksTyped
  <2>2. reports' \subseteq [key : Shas, body : Shas, from : Shas \cup {NoSha}, del : Shas \cup {NoSha}]
    BY DEF HistoryTyped, HooksTyped, FilesTyped
  <2>3. /\ crowded' \subseteq Shas /\ overtaken' \subseteq Shas /\ slipped' \subseteq Shas
        /\ strays' \subseteq Shas /\ failed' \subseteq Shas
    BY DEF HistoryTyped, HooksTyped, FilesTyped, GitTyped
  <2>4. faults' \in 0 .. MaxFaults /\ counts' \in 0 .. MaxCounts
    BY DEF HistoryTyped
  <2> QED BY <2>1, <2>2, <2>3, <2>4 DEF HistoryTyped
<1>7. PayloadIsOwn' BY DEF PayloadIsOwn, LockIsExclusive, HooksTyped
<1>8. ReportsAreOwn' BY DEF ReportsAreOwn, PayloadIsOwn
<1> QED BY <1>1, <1>2, <1>3, <1>4, <1>5, <1>6, <1>7, <1>8

LEMMA CurlInv ==
  ASSUME IInv, NEW h \in Moves, Curl(h)
  PROVE  IInv'
<1> USE BoundsAssumption, ShasOfReflog DEF IInv, TypeOK, Moves, Shas, Curl, Goto, Fault, Report, NoPayload,
      machine, files, hooks, extension, history
<1>1. GitTyped' BY DEF GitTyped
<1>2. FilesTyped' BY DEF FilesTyped, HooksTyped
<1>3. HooksTyped' BY DEF HooksTyped, FilesTyped, GitTyped, Steps
<1>4. LockIsExclusive' BY DEF LockIsExclusive, HooksTyped, GitTyped
<1>5. ExtensionTyped' BY DEF ExtensionTyped
<1>6. HistoryTyped'
  <2>1. killed' \subseteq {"post", "stats", "task"} \X Shas
    BY DEF HistoryTyped, HooksTyped
  <2>2. reports' \subseteq [key : Shas, body : Shas, from : Shas \cup {NoSha}, del : Shas \cup {NoSha}]
    <3>1. sha[h] \in Shas /\ (payload # NoPayload => payload \in Report)
      BY DEF HooksTyped, FilesTyped
    <3>2. \/ reports' = reports
          \/ payload # NoPayload
             /\ reports' = reports \cup {[key |-> sha[h], body |-> payload.body,
                                         from |-> payload.from, del |-> payload.del]}
      OBVIOUS
    <3> HIDE DEF Curl, Shas
    <3> QED BY <3>1, <3>2 DEF HistoryTyped
  <2>3. /\ crowded' \subseteq Shas /\ overtaken' \subseteq Shas /\ slipped' \subseteq Shas
        /\ strays' \subseteq Shas /\ failed' \subseteq Shas
    BY DEF HistoryTyped, HooksTyped, FilesTyped, GitTyped
  <2>4. faults' \in 0 .. MaxFaults /\ counts' \in 0 .. MaxCounts
    BY DEF HistoryTyped
  <2> QED BY <2>1, <2>2, <2>3, <2>4 DEF HistoryTyped
<1>7. PayloadIsOwn' BY DEF PayloadIsOwn, LockIsExclusive, HooksTyped
<1>8. ReportsAreOwn' BY DEF ReportsAreOwn, PayloadIsOwn
<1> QED BY <1>1, <1>2, <1>3, <1>4, <1>5, <1>6, <1>7, <1>8

LEMMA CleanupInv ==
  ASSUME IInv, NEW h \in Moves, Cleanup(h)
  PROVE  IInv'
<1> USE BoundsAssumption, ShasOfReflog DEF IInv, TypeOK, Moves, Shas, Cleanup, End, Goto,
      machine, files, hooks, extension, history
<1>1. GitTyped' BY DEF GitTyped
<1>2. FilesTyped' BY DEF FilesTyped, HooksTyped
<1>3. HooksTyped' BY DEF HooksTyped, FilesTyped, GitTyped, Steps
<1>4. LockIsExclusive' BY DEF LockIsExclusive, HooksTyped, GitTyped
<1>5. ExtensionTyped' BY DEF ExtensionTyped
<1>6. HistoryTyped'
  <2>1. killed' \subseteq {"post", "stats", "task"} \X Shas
    BY DEF HistoryTyped, HooksTyped, Running
  <2>2. reports' \subseteq [key : Shas, body : Shas, from : Shas \cup {NoSha}, del : Shas \cup {NoSha}]
    BY DEF HistoryTyped, HooksTyped, FilesTyped
  <2>3. /\ crowded' \subseteq Shas /\ overtaken' \subseteq Shas /\ slipped' \subseteq Shas
        /\ strays' \subseteq Shas /\ failed' \subseteq Shas
    BY DEF HistoryTyped, HooksTyped, FilesTyped, GitTyped
  <2>4. faults' \in 0 .. MaxFaults /\ counts' \in 0 .. MaxCounts
    BY DEF HistoryTyped
  <2> QED BY <2>1, <2>2, <2>3, <2>4 DEF HistoryTyped
<1>7. PayloadIsOwn' BY DEF PayloadIsOwn, LockIsExclusive, HooksTyped
<1>8. ReportsAreOwn' BY DEF ReportsAreOwn, PayloadIsOwn
<1> QED BY <1>1, <1>2, <1>3, <1>4, <1>5, <1>6, <1>7, <1>8

LEMMA PollInv ==
  ASSUME IInv, Poll
  PROVE  IInv'
<1> USE BoundsAssumption, ShasOfReflog DEF IInv, TypeOK, Moves, Shas, Poll,
      machine, files, hooks, extension, history
<1>1. GitTyped' BY DEF GitTyped
<1>2. FilesTyped' BY DEF FilesTyped, HooksTyped
<1>3. HooksTyped' BY DEF HooksTyped, FilesTyped, GitTyped, Steps
<1>4. LockIsExclusive' BY DEF LockIsExclusive, HooksTyped, GitTyped
<1>5. ExtensionTyped' BY DEF ExtensionTyped
<1>6. HistoryTyped'
  <2>1. killed' \subseteq {"post", "stats", "task"} \X Shas
    BY DEF HistoryTyped, HooksTyped
  <2>2. reports' \subseteq [key : Shas, body : Shas, from : Shas \cup {NoSha}, del : Shas \cup {NoSha}]
    BY DEF HistoryTyped, HooksTyped, FilesTyped
  <2>3. /\ crowded' \subseteq Shas /\ overtaken' \subseteq Shas /\ slipped' \subseteq Shas
        /\ strays' \subseteq Shas /\ failed' \subseteq Shas
    BY DEF HistoryTyped, HooksTyped, FilesTyped, GitTyped
  <2>4. faults' \in 0 .. MaxFaults /\ counts' \in 0 .. MaxCounts
    BY DEF HistoryTyped
  <2> QED BY <2>1, <2>2, <2>3, <2>4 DEF HistoryTyped
<1>7. PayloadIsOwn' BY DEF PayloadIsOwn, LockIsExclusive, HooksTyped
<1>8. ReportsAreOwn' BY DEF ReportsAreOwn, PayloadIsOwn
<1> QED BY <1>1, <1>2, <1>3, <1>4, <1>5, <1>6, <1>7, <1>8

LEMMA ObserveInv ==
  ASSUME IInv, NEW c \in Shas, Observe(c)
  PROVE  IInv'
<1> USE BoundsAssumption, ShasOfReflog DEF IInv, TypeOK, Moves, Shas, Observe,
      machine, files, hooks, extension, history
<1>1. GitTyped' BY DEF GitTyped
<1>2. FilesTyped' BY DEF FilesTyped, HooksTyped
<1>3. HooksTyped' BY DEF HooksTyped, FilesTyped, GitTyped, Steps
<1>4. LockIsExclusive' BY DEF LockIsExclusive, HooksTyped, GitTyped
<1>5. ExtensionTyped' BY DEF ExtensionTyped
<1>6. HistoryTyped'
  <2>1. killed' \subseteq {"post", "stats", "task"} \X Shas
    BY DEF HistoryTyped, HooksTyped
  <2>2. reports' \subseteq [key : Shas, body : Shas, from : Shas \cup {NoSha}, del : Shas \cup {NoSha}]
    BY DEF HistoryTyped, HooksTyped, FilesTyped
  <2>3. /\ crowded' \subseteq Shas /\ overtaken' \subseteq Shas /\ slipped' \subseteq Shas
        /\ strays' \subseteq Shas /\ failed' \subseteq Shas
    BY DEF HistoryTyped, HooksTyped, FilesTyped, GitTyped
  <2>4. faults' \in 0 .. MaxFaults /\ counts' \in 0 .. MaxCounts
    BY DEF HistoryTyped
  <2> QED BY <2>1, <2>2, <2>3, <2>4 DEF HistoryTyped
<1>7. PayloadIsOwn' BY DEF PayloadIsOwn, LockIsExclusive, HooksTyped
<1>8. ReportsAreOwn' BY DEF ReportsAreOwn, PayloadIsOwn
<1> QED BY <1>1, <1>2, <1>3, <1>4, <1>5, <1>6, <1>7, <1>8

LEMMA RunPostCommitInv ==
  ASSUME IInv, NEW c \in Shas, RunPostCommit(c)
  PROVE  IInv'
<1> USE BoundsAssumption, ShasOfReflog DEF IInv, TypeOK, Moves, Shas, RunPostCommit, AfterPostCommit, Unnoted, Fault,
      machine, files, hooks, extension, history
<1>1. GitTyped' BY DEF GitTyped
<1>2. FilesTyped' BY DEF FilesTyped, HooksTyped
<1>3. HooksTyped' BY DEF HooksTyped, FilesTyped, GitTyped, Steps
<1>4. LockIsExclusive' BY DEF LockIsExclusive, HooksTyped, GitTyped
<1>5. ExtensionTyped' BY DEF ExtensionTyped
<1>6. HistoryTyped'
  <2>1. killed' \subseteq {"post", "stats", "task"} \X Shas
    BY DEF HistoryTyped, HooksTyped
  <2>2. reports' \subseteq [key : Shas, body : Shas, from : Shas \cup {NoSha}, del : Shas \cup {NoSha}]
    BY DEF HistoryTyped, HooksTyped, FilesTyped
  <2>3. /\ crowded' \subseteq Shas /\ overtaken' \subseteq Shas /\ slipped' \subseteq Shas
        /\ strays' \subseteq Shas /\ failed' \subseteq Shas
    BY DEF HistoryTyped, HooksTyped, FilesTyped, GitTyped
  <2>4. faults' \in 0 .. MaxFaults /\ counts' \in 0 .. MaxCounts
    BY DEF HistoryTyped
  <2> QED BY <2>1, <2>2, <2>3, <2>4 DEF HistoryTyped
<1>7. PayloadIsOwn' BY DEF PayloadIsOwn, LockIsExclusive, HooksTyped
<1>8. ReportsAreOwn' BY DEF ReportsAreOwn, PayloadIsOwn
<1> QED BY <1>1, <1>2, <1>3, <1>4, <1>5, <1>6, <1>7, <1>8

LEMMA WriteOwnNoteInv ==
  ASSUME IInv, NEW c \in Shas, WriteOwnNote(c)
  PROVE  IInv'
<1> USE BoundsAssumption, ShasOfReflog DEF IInv, TypeOK, Moves, Shas, WriteOwnNote, AfterPostCommit, Fault,
      machine, files, hooks, extension, history
<1>1. GitTyped' BY DEF GitTyped
<1>2. FilesTyped' BY DEF FilesTyped, HooksTyped
<1>3. HooksTyped' BY DEF HooksTyped, FilesTyped, GitTyped, Steps
<1>4. LockIsExclusive' BY DEF LockIsExclusive, HooksTyped, GitTyped
<1>5. ExtensionTyped' BY DEF ExtensionTyped
<1>6. HistoryTyped'
  <2>1. killed' \subseteq {"post", "stats", "task"} \X Shas
    BY DEF HistoryTyped, HooksTyped
  <2>2. reports' \subseteq [key : Shas, body : Shas, from : Shas \cup {NoSha}, del : Shas \cup {NoSha}]
    BY DEF HistoryTyped, HooksTyped, FilesTyped
  <2>3. /\ crowded' \subseteq Shas /\ overtaken' \subseteq Shas /\ slipped' \subseteq Shas
        /\ strays' \subseteq Shas /\ failed' \subseteq Shas
    BY DEF HistoryTyped, HooksTyped, FilesTyped, GitTyped
  <2>4. faults' \in 0 .. MaxFaults /\ counts' \in 0 .. MaxCounts
    BY DEF HistoryTyped
  <2> QED BY <2>1, <2>2, <2>3, <2>4 DEF HistoryTyped
<1>7. PayloadIsOwn' BY DEF PayloadIsOwn, LockIsExclusive, HooksTyped
<1>8. ReportsAreOwn' BY DEF ReportsAreOwn, PayloadIsOwn
<1> QED BY <1>1, <1>2, <1>3, <1>4, <1>5, <1>6, <1>7, <1>8

LEMMA UploadCommitStatsInv ==
  ASSUME IInv, NEW c \in Shas, UploadCommitStats(c)
  PROVE  IInv'
<1> USE BoundsAssumption, ShasOfReflog DEF IInv, TypeOK, Moves, Shas, UploadCommitStats, Fault,
      machine, files, hooks, extension, history
<1>1. GitTyped' BY DEF GitTyped
<1>2. FilesTyped' BY DEF FilesTyped, HooksTyped
<1>3. HooksTyped' BY DEF HooksTyped, FilesTyped, GitTyped, Steps
<1>4. LockIsExclusive' BY DEF LockIsExclusive, HooksTyped, GitTyped
<1>5. ExtensionTyped' BY DEF ExtensionTyped
<1>6. HistoryTyped'
  <2>1. killed' \subseteq {"post", "stats", "task"} \X Shas
    BY DEF HistoryTyped, HooksTyped
  <2>2. reports' \subseteq [key : Shas, body : Shas, from : Shas \cup {NoSha}, del : Shas \cup {NoSha}]
    BY DEF HistoryTyped, HooksTyped, FilesTyped
  <2>3. /\ crowded' \subseteq Shas /\ overtaken' \subseteq Shas /\ slipped' \subseteq Shas
        /\ strays' \subseteq Shas /\ failed' \subseteq Shas
    BY DEF HistoryTyped, HooksTyped, FilesTyped, GitTyped
  <2>4. faults' \in 0 .. MaxFaults /\ counts' \in 0 .. MaxCounts
    BY DEF HistoryTyped
  <2> QED BY <2>1, <2>2, <2>3, <2>4 DEF HistoryTyped
<1>7. PayloadIsOwn' BY DEF PayloadIsOwn, LockIsExclusive, HooksTyped
<1>8. ReportsAreOwn' BY DEF ReportsAreOwn, PayloadIsOwn
<1> QED BY <1>1, <1>2, <1>3, <1>4, <1>5, <1>6, <1>7, <1>8

LEMMA NextInv == IInv /\ [Next]_vars => IInv'
<1> SUFFICES ASSUME IInv, [Next]_vars PROVE IInv'
  OBVIOUS
<1>1. ASSUME NEW s \in Subjects, NEW to \in Shas, Move(s.kind, s.says, to) PROVE IInv'
  BY <1>1, SubjectsAssumption, MoveInv
<1>2. ASSUME NEW h \in Moves, HookStep(h) PROVE IInv'
  BY <1>2, ReadHeadInv, TakeLockInv, ReadReflogInv, ReadOriginalInv, PostCommitInv,
     WriteNoteInv, StatsInv, WritePayloadInv, CurlInv, CleanupInv DEF HookStep
<1>3. ASSUME NEW c \in Shas, Observe(c) \/ TaskStep(c) PROVE IInv'
  BY <1>3, ObserveInv, RunPostCommitInv, WriteOwnNoteInv, UploadCommitStatsInv DEF TaskStep
<1>4. CASE UNCHANGED vars
  BY <1>4 DEF vars, IInv, TypeOK, GitTyped, FilesTyped, HooksTyped, LockIsExclusive,
     ExtensionTyped, HistoryTyped, PayloadIsOwn, ReportsAreOwn
<1> QED BY <1>1, <1>2, <1>3, <1>4, CountDeletionsInv, PollInv DEF Next

----------------------------------------------------------------------------
(***************************************************************************)
(* Quiet commits.  A hook whose commit is not crowded is alone and no move *)
(* of HEAD comes between its steps, so what it reads is about its commit;  *)
(* where the extension reports, the same holds of a commit not overtaken.  *)
(***************************************************************************)
Past == {NoSha} \cup 0 .. Len(reflog) - 1  \* the commits made so far
Early == {"head", "lock", "reflog", "original", "post", "write", "stats", "clear"}
AfterPost == {"stats", "clear", "curl", "cleanup"}
Base(c) == IF Says(c) = "amend" THEN Before(c) ELSE c

Numbered ==
  \A i \in 1 .. Len(reflog) :
    /\ reflog[i].sha \in 0 .. i - 1
    /\ reflog[i].kind # "other" => reflog[i].sha = i - 1
PastOnly ==
  /\ polled \in Past /\ lastHead \in Past
  /\ \A h \in Moves : sha[h] \in Past
  /\ \A c \in Shas \ Past : note[c] = NoSha /\ task[c] = "none"
  /\ \A r \in reports : r.key \in Past \ {NoSha}
HooksOfMoves ==
  \A h \in Moves :
    IF pc[h] = "none" THEN sha[h] = NoSha /\ old[h] = NoSha
                      ELSE effective /\ Kind(h) # "other"
Alone ==
  \A h \in Busy :
    /\ h \notin crowded => Busy = {h} /\ Len(reflog) = h + 1 /\ sha[h] \in {NoSha, h}
    /\ HEAD \in {h} \cup crowded
    /\ sha[h] \in {NoSha, h} \cup crowded
KilledInCrowds ==
  \A h \in Moves : <<"post", h>> \in killed \/ <<"stats", h>> \in killed => h \in crowded

\* What a hook that is alone has read.
QuietHook(h) ==
  /\ pc[h] \in {"original", "post", "write"} \cup AfterPost => Says(h) # "pick"
  /\ pc[h] = "original" => Says(h) = "amend"
  /\ old[h] = IF Says(h) = "amend" /\ pc[h] \in {"post", "write"} \cup AfterPost
                THEN Before(h) ELSE NoSha
  /\ pc[h] = "curl" => payload = [body |-> sha[h], from |-> from[h], del |-> del[h]]
\* The note of its commit: until post-commit, at most one of the extension's;
\* whatever is there when it writes its own, it overwrites.
QuietNote(h) ==
  /\ pc[h] \in {"head", "lock", "reflog", "original"} => note[h] \in {NoSha, h}
  /\ pc[h] = "post" => note[h] \in {NoSha, Base(h)}
  /\ pc[h] = "stats" => note[h] = Base(h)
  /\ pc[h] \in {"clear", "curl"} => from[h] = Base(h)
QuietHooks ==
  \A h \in Busy \ crowded :
    /\ QuietHook(h)
    /\ h \notin failed \cup slipped => QuietNote(h)

\* Where the extension reports there are no hooks.
QuietTasks ==
  /\ \A c \in Shas : task[c] = "upload" => ~effective
  /\ ~effective =>
     /\ killed = {}
     /\ \A c \in Shas : note[c] \in {NoSha, c}
     /\ \A c \in Moves \ overtaken :
          /\ Made(c) /\ c \notin seen => Len(reflog) = c + 1
          /\ task[c] # "none" => c \in seen /\ Made(c) /\ Kind(c) \in Local
          /\ task[c] = "upload" /\ c \notin failed => note[c] = c

QInv == /\ Numbered /\ PastOnly /\ HooksOfMoves /\ Alone /\ KilledInCrowds
        /\ QuietHooks /\ QuietTasks /\ QuietReportIsExact

\* A move of HEAD leaves the older entries of the reflog alone.
LEMMA ReflogGrows ==
  ASSUME IInv, NEW kind \in Kinds, NEW says \in Patterns, NEW to \in Shas,
         Move(kind, says, to)
  PROVE  /\ Len(reflog') = Len(reflog) + 1 /\ Len(reflog) \in 1 .. MaxMoves
         /\ \A i \in 1 .. Len(reflog) : reflog'[i] = reflog[i]
         /\ reflog'[Len(reflog')] = [kind |-> kind, says |-> says, sha |-> to]
         /\ HEAD' = to
         /\ \A c \in Moves : Made(c) => Kind(c)' = Kind(c) /\ Says(c)' = Says(c) /\ Before(c)' = Before(c) /\ Made(c)'
<1> DEFINE R == Entries
<1>1. reflog \in Seq(R) /\ Len(reflog) \in 1 .. MaxMoves
  BY BoundsAssumption DEF IInv, TypeOK, GitTyped, Move
<1>2. [kind |-> kind, says |-> says, sha |-> to] \in R /\ reflog' = Append(reflog, [kind |-> kind, says |-> says, sha |-> to])
  BY DEF Move, Entries
<1>3. /\ Len(reflog') = Len(reflog) + 1
      /\ \A i \in 1 .. Len(reflog) : reflog'[i] = reflog[i]
      /\ reflog'[Len(reflog')] = [kind |-> kind, says |-> says, sha |-> to]
  <2> HIDE DEF R
  <2> QED BY <1>1, <1>2
<1>4. HEAD' = to
  BY <1>3 DEF HEAD, Last
<1>5. ASSUME NEW c \in Moves, Made(c)
      PROVE  Kind(c)' = Kind(c) /\ Says(c)' = Says(c) /\ Before(c)' = Before(c) /\ Made(c)'
  BY <1>1, <1>3, <1>5, BoundsAssumption DEF Kind, Says, Before, Made, Moves
<1> QED BY <1>1, <1>3, <1>4, <1>5

\* A step of a hook changes nothing of git, the extension or another hook.
LEMMA HookFrame ==
  ASSUME IInv, NEW h \in Moves, HookStep(h)
  PROVE  /\ UNCHANGED <<effective, flock, reflog, polled, lastHead, seen, task>>
         /\ UNCHANGED <<crowded, overtaken, slipped>>
         /\ failed \subseteq failed' /\ strays \subseteq strays'
         /\ \A k \in Moves \ {h} : /\ pc'[k] = pc[k] /\ sha'[k] = sha[k] /\ old'[k] = old[k]
                                   /\ from'[k] = from[k] /\ del'[k] = del[k]
         /\ h \in Busy /\ pc'[h] # "none"
         /\ Busy' \in {Busy, Busy \ {h}}
<1> USE DEF HookStep, ReadHead, TakeLock, ReadReflog, ReadOriginal, PostCommit, Stats,
      WriteNote, WritePayload, Curl, Cleanup, End, Goto, Fault, machine, files, extension, history
<1>1. /\ UNCHANGED <<effective, flock, reflog, polled, lastHead, seen, task>>
      /\ UNCHANGED <<crowded, overtaken, slipped>>
  OBVIOUS
<1>2. failed \subseteq failed' /\ strays \subseteq strays'
  OBVIOUS
<1>3. /\ \E x \in Steps \ {"none"} : pc' = [pc EXCEPT ![h] = x]
      /\ pc[h] \notin {"none", "done"}
  BY DEF Steps
<1>4. \A k \in Moves \ {h} : /\ sha'[k] = sha[k] /\ old'[k] = old[k]
                             /\ from'[k] = from[k] /\ del'[k] = del[k]
  BY DEF IInv, TypeOK, HooksTyped
<1> HIDE DEF HookStep
<1> QED BY <1>1, <1>2, <1>3, <1>4 DEF IInv, TypeOK, HooksTyped, Busy

LEMMA HeadIsPast ==
  ASSUME IInv, Numbered
  PROVE  /\ HEAD \in 0 .. Len(reflog) - 1 /\ Len(reflog) \in 1 .. MaxMoves + 1
         /\ Last(reflog) = reflog[Len(reflog)] /\ HEAD = reflog[Len(reflog)].sha
<1> USE BoundsAssumption
<1>1. Len(reflog) \in 1 .. MaxMoves + 1
  BY DEF IInv, TypeOK, GitTyped
<1>2. Len(reflog) \in 1 .. Len(reflog)
  BY <1>1
<1> QED BY <1>1, <1>2 DEF Numbered, HEAD, Last

LEMMA QInit == Init => QInv
<1> SUFFICES ASSUME Init PROVE QInv
  OBVIOUS
<1> USE BoundsAssumption
<1>1. Len(reflog) = 1 /\ reflog[1] = [kind |-> "commit", says |-> "nothing", sha |-> 0]
  BY DEF Init
<1>2. Numbered /\ PastOnly
  BY <1>1 DEF Init, Numbered, PastOnly, Past, Shas, Moves
<1>3. Busy = {}
  BY DEF Init, Busy
<1>4. HooksOfMoves /\ Alone /\ KilledInCrowds /\ QuietHooks /\ QuietReportIsExact
  BY <1>3 DEF Init, HooksOfMoves, Alone, KilledInCrowds, QuietHooks, QuietReportIsExact
<1>5. QuietTasks
  BY <1>1 DEF Init, QuietTasks, Made, Moves, Shas
<1> QED BY <1>2, <1>4, <1>5 DEF QInv

LEMMA QMove ==
  ASSUME IInv, QInv, NEW kind \in Kinds, NEW says \in Patterns, NEW to \in Shas,
         Move(kind, says, to),
         NEW n \in Moves, n = Len(reflog)
  PROVE  QInv'
<1> USE BoundsAssumption DEF Shas, Moves
<1>0. /\ n \in Moves /\ to \in 0 .. n /\ (kind # "other" => to = n)
      /\ pc' = IF effective /\ kind # "other" THEN [pc EXCEPT ![n] = "head"] ELSE pc
      /\ crowded' = crowded \cup Busy \cup (IF Busy # {} THEN {to} ELSE {})
      /\ overtaken' = overtaken \cup Unnoticed \cup (IF lastHead = NoSha THEN {n} ELSE {})
      /\ UNCHANGED <<effective, flock, note, payload, polled, lastHead, seen, task>>
      /\ UNCHANGED <<sha, old, from, del, slipped, failed, killed, reports>>
      /\ pc[n] = "none" /\ pc \in [Moves -> Steps]
  BY ReflogGrows DEF Move, IInv, TypeOK, GitTyped, HooksTyped, machine, files, extension
<1>1. /\ Len(reflog') = n + 1 /\ \A i \in 1 .. n : reflog'[i] = reflog[i]
      /\ reflog'[n + 1] = [kind |-> kind, says |-> says, sha |-> to] /\ HEAD' = to
      /\ \A c \in Moves : c < n => Kind(c)' = Kind(c) /\ Says(c)' = Says(c) /\ Before(c)' = Before(c)
      /\ Kind(n)' = kind
  <2>1. /\ Len(reflog') = n + 1 /\ \A i \in 1 .. n : reflog'[i] = reflog[i]
        /\ reflog'[n + 1] = [kind |-> kind, says |-> says, sha |-> to] /\ HEAD' = to
        /\ \A c \in Moves : Made(c) => Kind(c)' = Kind(c) /\ Says(c)' = Says(c) /\ Before(c)' = Before(c)
    BY ReflogGrows
  <2>2. Kind(n)' = kind
    BY <2>1 DEF Kind, Moves
  <2>3. \A c \in Moves : c < n => Made(c)
    BY DEF Made
  <2> QED BY <2>1, <2>2, <2>3
<1>2. Numbered'
  <2>1. ASSUME NEW i \in 1 .. n + 1
        PROVE  /\ reflog'[i].sha \in 0 .. i - 1
               /\ reflog'[i].kind # "other" => reflog'[i].sha = i - 1
    <3>1. CASE i = n + 1
      BY <1>0, <1>1, <3>1
    <3>2. CASE i \in 1 .. n
      BY <1>1, <3>2 DEF QInv, Numbered
    <3> QED BY <1>0, <3>1, <3>2
  <2> QED BY <1>1, <2>1 DEF Numbered
<1>3. PastOnly'
  BY <1>0, <1>1 DEF QInv, PastOnly, Past
<1>4. \A h \in Moves : pc'[h] # "none" => h <= n /\ (h = n => kind # "other" /\ effective)
  BY <1>0 DEF IInv, TypeOK, HooksTyped
<1>5. HooksOfMoves'
  BY <1>0, <1>1, <1>4 DEF QInv, HooksOfMoves
<1>6. Busy' = Busy \/ (Busy' = Busy \cup {n} /\ kind # "other" /\ pc'[n] = "head")
  BY <1>0 DEF Busy
<1>7. Alone'
  <2>1. ASSUME NEW h \in Busy
        PROVE  h \in crowded' /\ to \in crowded' /\ sha'[h] \in {NoSha, h} \cup crowded'
    BY <1>0, <2>1 DEF QInv, Alone
  <2>2. ASSUME Busy' # Busy
        PROVE  (Busy = {} \/ n \in crowded') /\ to = n /\ sha'[n] = NoSha
    BY <1>0, <1>6, <2>2 DEF QInv, HooksOfMoves
  <2> QED BY <1>1, <1>6, <2>1, <2>2 DEF Alone
<1>8. KilledInCrowds'
  BY <1>0 DEF QInv, KilledInCrowds
<1>9. QuietHooks'
  <2>1. ASSUME NEW h \in Busy' \ crowded' PROVE h = n /\ pc'[h] = "head" /\ old'[h] = NoSha
    <3>1. h \notin Busy
      BY <1>0, <2>1
    <3> QED BY <1>0, <1>6, <2>1, <3>1 DEF QInv, HooksOfMoves
  <2> QED BY <1>0, <2>1 DEF QuietHooks, QuietHook, QuietNote, QInv, PastOnly, Past, AfterPost
<1>10. QuietTasks'
  BY <1>0, <1>1 DEF QInv, QuietTasks, Unnoticed, Made, PastOnly, Past
<1>11. QuietReportIsExact'
  <2>1. \A c \in Moves : Quiet(c)' => Quiet(c)
    BY <1>0 DEF Quiet
  <2> QED BY <1>0, <1>1, <2>1 DEF QInv, QuietReportIsExact, LeftOut, Made, PastOnly, Past, Quiet
<1> QED BY <1>2, <1>3, <1>5, <1>7, <1>8, <1>9, <1>10, <1>11 DEF QInv

\* Steps outside git and the hooks touch notes, tasks and reports only.
LEMMA QExtension ==
  ASSUME IInv, QInv, Poll \/ (\E c \in Shas : Observe(c) \/ TaskStep(c))
  PROVE  QInv'
<1> USE BoundsAssumption DEF Shas, Moves
<1>0. /\ UNCHANGED <<effective, flock, reflog, pc, sha, old, from, del, payload>>
      /\ UNCHANGED <<killed, crowded, overtaken>>
      /\ failed \subseteq failed' /\ slipped \subseteq slipped'
      /\ Busy' = Busy /\ HEAD' = HEAD
  BY DEF Poll, Observe, TaskStep, RunPostCommit, WriteOwnNote, UploadCommitStats, Fault,
     machine, files, hooks, extension, history, Busy, HEAD
<1>1. Numbered' /\ HooksOfMoves' /\ Alone' /\ KilledInCrowds'
  BY <1>0 DEF QInv, Numbered, HooksOfMoves, Alone, KilledInCrowds, Kind
<1>2. \A c \in Moves : Kind(c)' = Kind(c) /\ Says(c)' = Says(c) /\ Before(c)' = Before(c) /\ Made(c)' = Made(c)
  BY <1>0 DEF Kind, Says, Before, Made
<1>3. CASE Poll
  <2>1. polled' = HEAD /\ UNCHANGED <<lastHead, seen, task, note, reports, failed, slipped>>
    BY <1>3 DEF Poll, files, history
  <2>2. PastOnly'
    BY <1>0, <2>1, HeadIsPast DEF QInv, PastOnly, Past
  <2>3. QuietHooks' /\ QuietTasks' /\ QuietReportIsExact'
    BY <1>0, <1>2, <2>1 DEF QInv, QuietHooks, QuietHook, QuietNote, Base, Kind, Says, Before, Made,
       QuietTasks, QuietReportIsExact, Quiet, LeftOut
  <2> QED BY <1>1, <2>2, <2>3 DEF QInv
<1>4. ASSUME NEW c \in Shas, Observe(c) PROVE QInv'
  <2>1. /\ polled = c /\ polled' = NoSha /\ lastHead' = c /\ UNCHANGED <<note, reports, failed, slipped>>
        /\ seen' = IF c = lastHead THEN seen ELSE seen \cup {c}
        /\ task' = IF lastHead \in Shas \ {c} /\ c \notin seen /\ Last(reflog).kind \in Local
                     THEN [task EXCEPT ![c] = "post"] ELSE task
        /\ task \in [Shas -> {"none", "post", "write", "upload", "done"}]
    BY <1>4 DEF Observe, files, history, IInv, TypeOK, ExtensionTyped
  <2>2. PastOnly'
    BY <1>0, <2>1 DEF QInv, PastOnly, Past
  <2>3. QuietHooks' /\ QuietReportIsExact'
    BY <1>0, <1>2, <2>1 DEF QInv, QuietHooks, QuietHook, QuietNote, Base, Kind, Says, Before, Made,
       QuietReportIsExact, Quiet, LeftOut
  <2>4. QuietTasks'
    <3>1. ASSUME NEW d \in Moves, d = c, Made(d), d \notin seen, Len(reflog) = d + 1
          PROVE  Last(reflog) = reflog[d + 1]
      BY <3>1, HeadIsPast DEF QInv
    <3>2. c < Len(reflog)
      BY <2>1 DEF QInv, PastOnly, Past
    <3> QED BY <1>0, <1>2, <2>1, <3>1, <3>2 DEF QInv, QuietTasks, Made, Kind
  <2> QED BY <1>1, <2>2, <2>3, <2>4 DEF QInv
<1>5. ASSUME NEW c \in Shas, RunPostCommit(c) PROVE QInv'
  <2>1. /\ \/ task' = [task EXCEPT ![c] = "write"]
           \/ /\ task' = [task EXCEPT ![c] = AfterPostCommit]
              /\ c \in failed' \/ <<"task", c>> \in killed \/ note[c] # NoSha
        /\ task[c] = "post" /\ UNCHANGED <<polled, lastHead, seen, note, reports, slipped>>
        /\ task \in [Shas -> {"none", "post", "write", "upload", "done"}]
        /\ note \in [Shas -> Shas \cup {NoSha}]
    BY <1>5 DEF RunPostCommit, Unnoted, files, Fault, IInv, TypeOK, ExtensionTyped, FilesTyped
  <2>2. PastOnly'
    BY <1>0, <2>1 DEF QInv, PastOnly, Past
  <2>3. QuietReportIsExact' /\ QuietHooks'
    <3>1. QuietReportIsExact'
      BY <1>0, <1>2, <2>1 DEF QInv, QuietReportIsExact, Quiet, LeftOut
    <3>2. QuietHooks'
      BY <1>0, <1>2, <2>1 DEF QInv, QuietHooks, QuietHook, QuietNote, Base, Busy
    <3> QED BY <3>1, <3>2
  <2>4. QuietTasks'
    BY <1>0, <1>2, <2>1 DEF QInv, QuietTasks, AfterPostCommit
  <2> QED BY <1>1, <2>2, <2>3, <2>4 DEF QInv
<1>6. ASSUME NEW c \in Shas, WriteOwnNote(c) PROVE QInv'
  <2>1. /\ task' = [task EXCEPT ![c] = AfterPostCommit]
        /\ task[c] = "write" /\ UNCHANGED <<polled, lastHead, seen, reports>>
        /\ task \in [Shas -> {"none", "post", "write", "upload", "done"}]
        /\ note \in [Shas -> Shas \cup {NoSha}]
        /\ \/ note' = note /\ (c \in failed' \/ <<"task", c>> \in killed)
           \/ note' = [note EXCEPT ![c] = c] /\ (InHook(c) => c \in slipped')
    BY <1>6 DEF WriteOwnNote, Fault, IInv, TypeOK, ExtensionTyped, FilesTyped
  <2>2. PastOnly'
    BY <1>0, <2>1 DEF QInv, PastOnly, Past
  <2>3. QuietReportIsExact'
    BY <1>0, <1>2, <2>1 DEF QInv, QuietReportIsExact, Quiet, LeftOut
  <2>4. QuietTasks'
    BY <1>0, <1>2, <2>1 DEF QInv, QuietTasks, AfterPostCommit
  <2>5. ASSUME NEW h \in Busy \ crowded, h \notin failed' \cup slipped' PROVE QuietNote(h)'
    <3>0. h \in Moves
      BY <2>5 DEF Busy
    <3>1. QuietNote(h) /\ QuietHook(h) /\ sha[h] \in {NoSha, h} /\ Base(h)' = Base(h)
      BY <1>0, <1>2, <2>5 DEF QInv, QuietHooks, Alone, Busy, Base
    <3>2. CASE note'[h] = note[h]
      BY <1>0, <3>1, <3>2 DEF QuietNote
    <3>3. CASE note'[h] # note[h]
      <4>1. c = h /\ note'[h] = h /\ ~InHook(h)
        BY <2>1, <2>5, <3>0, <3>3
      <4>2. Before(h) # NoSha
        <5>1. h \in 1 .. Len(reflog)
          BY <2>5 DEF Busy, IInv, TypeOK, HooksTyped
        <5> QED BY <5>1 DEF QInv, Numbered, Before
      <4>3. pc[h] \in {"post", "stats"} => Base(h) = h
        <5>1. pc[h] \in {"post", "stats"} => sha[h] = h
          BY <3>0, <3>1 DEF IInv, TypeOK, HooksTyped
        <5>2. pc[h] \in {"post", "stats"} => old[h] = NoSha
          BY <3>0, <4>1, <5>1 DEF InHook
        <5> QED BY <3>1, <4>2, <5>2 DEF QuietHook, Base, AfterPost
      <4> QED BY <1>0, <3>1, <4>1, <4>2, <4>3 DEF QuietNote
    <3> QED BY <3>2, <3>3
  <2>6. QuietHooks'
    BY <1>0, <1>2, <2>5 DEF QInv, QuietHooks, QuietHook, Busy
  <2> QED BY <1>1, <2>2, <2>3, <2>4, <2>6 DEF QInv
<1>7. ASSUME NEW c \in Shas, UploadCommitStats(c) PROVE QInv'
  <2>1. /\ task' = [task EXCEPT ![c] = "done"] /\ task[c] = "upload"
        /\ UNCHANGED <<polled, lastHead, seen, note, slipped>>
        /\ \/ reports' = reports \cup {[key |-> c, body |-> c, from |-> note[c], del |-> NoSha]}
           \/ reports' = reports
        /\ task \in [Shas -> {"none", "post", "write", "upload", "done"}]
    BY <1>7 DEF UploadCommitStats, files, Fault, IInv, TypeOK, ExtensionTyped
  <2>2. PastOnly'
    BY <1>0, <2>1 DEF QInv, PastOnly, Past
  <2>3. QuietHooks' /\ QuietTasks'
    BY <1>0, <1>2, <2>1 DEF QInv, QuietHooks, QuietHook, QuietNote, Base, QuietTasks, Busy
  <2>4. ASSUME Quiet(c), c \notin failed
        PROVE  Made(c) /\ Kind(c) \in Local /\ note[c] = c /\ ~effective
    BY <2>1, <2>4 DEF QInv, QuietTasks, Quiet
  <2>5. QuietReportIsExact'
    BY <1>0, <1>2, <2>1, <2>4 DEF QInv, QuietReportIsExact, Quiet, LeftOut
  <2> QED BY <1>1, <2>2, <2>3, <2>5 DEF QInv
<1> QED BY <1>3, <1>4, <1>5, <1>6, <1>7 DEF TaskStep

\* What the steps of a hook do to notes and reports.
LEMMA HookEffect ==
  ASSUME IInv, QInv, NEW h \in Moves, HookStep(h)
  PROVE  /\ sha'[h] \in {sha[h], NoSha} \/ (pc[h] = "head" /\ sha'[h] = HEAD)
         /\ \A c \in Shas : note'[c] # note[c] => c = sha[h]
         /\ \A r \in reports' \ reports :
              /\ pc[h] = "curl" /\ payload # NoPayload
              /\ r = [key |-> sha[h], body |-> payload.body, from |-> payload.from, del |-> payload.del]
         /\ \A k \in Moves : <<"post", k>> \in killed' \ killed \/ <<"stats", k>> \in killed' \ killed =>
              k # h /\ k \in Busy
<1> USE DEF IInv, TypeOK, HooksTyped, FilesTyped, ReadHead, TakeLock, ReadReflog, ReadOriginal,
      PostCommit, Stats, WritePayload, Curl, Cleanup, End, Goto, Fault, WriteNote, Running, Busy,
      machine, files, extension, history
<1>1. CASE ReadHead(h) \/ TakeLock(h) \/ ReadReflog(h) \/ Stats(h) \/ WritePayload(h)
  BY <1>1
<1>2. CASE ReadOriginal(h) \/ PostCommit(h) \/ WriteNote(h)
  BY <1>2
<1>3. CASE Curl(h)
  BY <1>3
<1>4. CASE Cleanup(h)
  BY <1>4
<1> QED BY <1>1, <1>2, <1>3, <1>4 DEF HookStep

LEMMA QHook ==
  ASSUME IInv, QInv, NEW h \in Moves, HookStep(h)
  PROVE  QInv'
<1> USE BoundsAssumption DEF Shas, Moves
<1>0. /\ HEAD' = HEAD /\ effective /\ h \in Busy /\ Kind(h) # "other" /\ h < Len(reflog)
      /\ UNCHANGED <<effective, reflog, crowded, overtaken, slipped, task, polled, lastHead, seen>>
      /\ failed \subseteq failed'
      /\ \A c \in Moves : Kind(c)' = Kind(c) /\ Says(c)' = Says(c) /\ Before(c)' = Before(c) /\ Made(c)' = Made(c)
  BY HookFrame DEF QInv, HooksOfMoves, HEAD, Kind, Says, Before, Made, Busy, IInv, TypeOK, HooksTyped
<1>00. /\ Busy \subseteq Moves /\ Busy' \subseteq Busy /\ (Busy' = Busy \/ h \notin Busy')
       /\ \A k \in Moves \ {h} : sha'[k] = sha[k]
  BY HookFrame DEF Busy
<1>1. Numbered' /\ HooksOfMoves'
  BY <1>0, HookFrame DEF QInv, Numbered, HooksOfMoves
<1>2. PastOnly'
  <2>1. \A k \in Moves : sha'[k] \in Past
    <3>1. NoSha \in Past /\ HEAD \in Past /\ \A k \in Moves : sha[k] \in Past
      BY HeadIsPast DEF QInv, PastOnly, Past
    <3>2. sha'[h] \in Past
      BY <3>1, HookEffect
    <3> QED BY <1>00, <3>1, <3>2
  <2>2. \A c \in Shas \ Past : note'[c] = NoSha
    BY HookEffect DEF QInv, PastOnly
  <2>3. \A r \in reports' : r.key \in Past \ {NoSha}
    <3>1. pc[h] = "curl" => sha[h] \in Past \ {NoSha}
      BY DEF QInv, PastOnly, IInv, TypeOK, HooksTyped
    <3> QED BY <3>1, HookEffect DEF QInv, PastOnly
  <2>4. Past' = Past
    BY <1>0 DEF Past
  <2> QED BY <1>0, <2>1, <2>2, <2>3, <2>4 DEF QInv, PastOnly
<1>3. Alone'
  <2>1. h \notin crowded => HEAD = h
    BY <1>0, HeadIsPast DEF QInv, Alone, Numbered, Kind
  <2>2. /\ sha'[h] \in {NoSha, h} \cup crowded
        /\ h \notin crowded => sha'[h] \in {NoSha, h}
    BY <1>0, <2>1, HookEffect DEF QInv, Alone
  <2>3. ASSUME NEW k \in Busy'
        PROVE  /\ HEAD \in {k} \cup crowded /\ sha'[k] \in {NoSha, k} \cup crowded
               /\ k \notin crowded => k = h /\ Busy' = {k} /\ Len(reflog) = k + 1
    BY <1>0, <1>00, <2>2, <2>3 DEF QInv, Alone
  <2> QED BY <1>0, <2>2, <2>3 DEF Alone
<1>4. KilledInCrowds'
  BY <1>0, HookEffect DEF QInv, KilledInCrowds, Alone
<1>5. QuietTasks'
  BY <1>0 DEF QInv, QuietTasks
<1>6. QuietReportIsExact'
  <2>1. ASSUME NEW r \in reports' \ reports, Quiet(r.key), r.key \notin failed \cup slipped
        PROVE  /\ Made(r.key) /\ Kind(r.key) # "other" /\ ~LeftOut(r.key)
               /\ r.from = IF Says(r.key) = "amend" THEN Before(r.key) ELSE r.key
    <3>1. r.key = sha[h] /\ r.from = payload.from /\ pc[h] = "curl"
      BY <2>1, HookEffect
    <3>2. sha[h] = h /\ h \notin crowded
      BY <1>0, <2>1, <3>1 DEF Quiet, QInv, Alone, IInv, TypeOK, HooksTyped
    <3>3. QuietHook(h) /\ QuietNote(h)
      BY <1>0, <2>1, <3>1, <3>2 DEF QInv, QuietHooks
    <3> QED BY <1>0, <3>1, <3>2, <3>3 DEF QuietHook, QuietNote, Base, AfterPost, LeftOut, Made
  <2> QED BY <1>0, <2>1 DEF QInv, QuietReportIsExact, Quiet, LeftOut
<1>7. ASSUME h \in Busy' \ crowded
      PROVE  /\ QuietHook(h)'
             /\ h \notin failed' \cup slipped => QuietNote(h)'
  <2>0. /\ QuietHook(h) /\ (h \notin failed \cup slipped => QuietNote(h))
        /\ sha[h] \in {NoSha, h} /\ Last(reflog).says = Says(h) /\ h + 1 = Len(reflog)
        /\ HEAD = h /\ reflog[Len(reflog) - 1].sha = Before(h) /\ Before(h) \in 0 .. h - 1
        /\ <<"post", h>> \notin killed
        /\ Base(h)' = Base(h) /\ Says(h)' = Says(h) /\ Before(h)' = Before(h)
    <3>1. h \notin crowded /\ Busy = {h} /\ h + 1 = Len(reflog) /\ sha[h] \in {NoSha, h}
      BY <1>0, <1>7 DEF QInv, Alone
    <3>2. reflog[h + 1].kind = Kind(h) /\ reflog[h + 1].says = Says(h) /\ reflog[h].sha = Before(h)
      BY DEF Kind, Says, Before
    <3>3. reflog[h + 1].sha = h /\ reflog[h].sha \in 0 .. h - 1
      BY <1>0, <3>1, <3>2 DEF QInv, Numbered
    <3>4. Last(reflog) = reflog[h + 1] /\ HEAD = h
      BY <3>1, <3>3, HeadIsPast DEF QInv
    <3>5. QuietHook(h) /\ (h \notin failed \cup slipped => QuietNote(h)) /\ <<"post", h>> \notin killed
      BY <1>0, <3>1 DEF QInv, QuietHooks, KilledInCrowds
    <3>6. Base(h)' = Base(h) /\ Says(h)' = Says(h) /\ Before(h)' = Before(h)
      BY <1>0 DEF Base
    <3>7. Len(reflog) - 1 = h
      BY <3>1
    <3> QED BY <3>1, <3>2, <3>3, <3>4, <3>5, <3>6, <3>7
  <2>00. /\ pc \in [Moves -> Steps] /\ note \in [Shas -> Shas \cup {NoSha}]
         /\ sha \in [Moves -> Shas \cup {NoSha}] /\ old \in [Moves -> Shas \cup {NoSha}]
         /\ from \in [Moves -> Shas \cup {NoSha}] /\ del \in [Moves -> Shas \cup {NoSha}]
         /\ pc[h] \notin {"none", "head", "done"} => sha[h] = h
         /\ h \in Moves /\ h \in Shas /\ NoSha \notin Shas /\ Before(h) \in Shas \ {h}
         /\ pc'[h] # "done"
    BY <1>7, <2>0 DEF IInv, TypeOK, HooksTyped, FilesTyped, Busy
  <2> HIDE DEF Shas, Moves
  <2> USE DEF Goto, files, history, QuietHook, QuietNote, AfterPost
  <2>01. Says(h) \in Patterns
    BY <2>0, ShasOfReflog DEF Says, Entries, IInv, TypeOK, Moves
  <2>1. CASE ReadHead(h) \/ TakeLock(h)
    BY <1>0, <2>0, <2>00, <2>1 DEF ReadHead, TakeLock, End
  <2>2. CASE ReadReflog(h)
    BY <1>0, <2>0, <2>00, <2>01, <2>2 DEF ReadReflog, End, Patterns, Base
  <2>3. CASE ReadOriginal(h)
    BY <1>0, <2>0, <2>00, <2>3 DEF ReadOriginal
  <2>4. CASE PostCommit(h)
    BY <1>0, <2>0, <2>00, <2>4 DEF PostCommit, Unnoted, Fault
  <2>5. CASE WriteNote(h)
    BY <1>0, <2>0, <2>00, <2>5 DEF WriteNote, Fault, Base
  <2>6. CASE Stats(h)
    BY <1>0, <2>0, <2>00, <2>6 DEF Stats, Fault, End
  <2>7. CASE WritePayload(h) \/ Curl(h) \/ Cleanup(h)
    BY <1>0, <2>0, <2>00, <2>7 DEF WritePayload, Curl, Cleanup, End, Fault
  <2> QED BY <2>1, <2>2, <2>3, <2>4, <2>5, <2>6, <2>7 DEF HookStep
<1>8. QuietHooks'
  <2>1. \A k \in Busy' \ crowded : k = h
    BY <1>0, <1>00 DEF QInv, Alone
  <2> QED BY <1>0, <1>7, <2>1 DEF QuietHooks
<1> QED BY <1>1, <1>2, <1>3, <1>4, <1>5, <1>6, <1>8 DEF QInv

LEMMA QStep == IInv /\ QInv /\ [Next]_vars => QInv'
<1> SUFFICES ASSUME IInv, QInv, [Next]_vars PROVE QInv'
  OBVIOUS
<1>1. ASSUME NEW s \in Subjects, NEW to \in Shas, Move(s.kind, s.says, to) PROVE QInv'
  BY <1>1, SubjectsAssumption, QMove, ReflogGrows DEF Moves
<1>2. CASE CountDeletions \/ UNCHANGED vars
  <2>1. /\ UNCHANGED <<effective, flock, reflog, note, payload, pc, sha, old, from, del>>
        /\ UNCHANGED <<polled, lastHead, seen, task, killed, reports>>
        /\ UNCHANGED <<crowded, overtaken, slipped, failed>>
    BY <1>2 DEF CountDeletions, vars, machine, hooks, extension
  <2> QED BY <2>1 DEF QInv, Numbered, PastOnly, Past, HooksOfMoves, Alone, Busy, HEAD, KilledInCrowds,
        QuietHooks, QuietHook, QuietNote, Base, Kind, Says, Before, Made, QuietTasks,
        QuietReportIsExact, Quiet, LeftOut
<1>3. ASSUME NEW h \in Moves, HookStep(h) PROVE QInv'
  BY <1>3, QHook
<1> QED BY <1>1, <1>2, <1>3, QExtension DEF Next

----------------------------------------------------------------------------
(***************************************************************************)
(* Deletions.  A count that no hook will read or remove refers to the HEAD *)
(* of now, or is a stray.                                                  *)
(***************************************************************************)
Unclaimed(b) == {NoSha, b} \cup strays
CountIsClaimed ==
  effective => netDel \in Unclaimed(HEAD) \/ \E h \in Moves : pc[h] \in Early
QuietCount ==
  \A h \in Busy \ crowded :
    /\ netDel \in IF pc[h] \in Early THEN Unclaimed(Before(h)) ELSE {NoSha} \cup strays
    /\ pc[h] \in {"clear", "curl"} => del[h] \in Unclaimed(Before(h))
OnlyHooksCount == ~effective => \A r \in reports : r.del = NoSha

DInv == CountIsClaimed /\ QuietCount /\ OnlyHooksCount /\ DeletionsAreOwn

LEMMA DInit == Init => DInv
  BY DEF Init, DInv, CountIsClaimed, Unclaimed, QuietCount, Busy, OnlyHooksCount, DeletionsAreOwn

LEMMA DMove ==
  ASSUME IInv, QInv, DInv, NEW kind \in Kinds, NEW says \in Patterns, NEW to \in Shas,
         Move(kind, says, to),
         NEW n \in Moves, n = Len(reflog)
  PROVE  DInv'
<1> USE BoundsAssumption DEF Shas, Moves
<1>0. /\ kind # "other" => to = n
      /\ pc' = IF effective /\ kind # "other" THEN [pc EXCEPT ![n] = "head"] ELSE pc
      /\ crowded' = crowded \cup Busy \cup (IF Busy # {} THEN {to} ELSE {})
      /\ overtaken \subseteq overtaken'
      /\ strays' = IF kind = "other" THEN strays \cup ({netDel} \ {NoSha}) ELSE strays
      /\ UNCHANGED <<effective, netDel, del, reports>>
      /\ pc[n] = "none" /\ pc \in [Moves -> Steps]
  BY DEF Move, IInv, TypeOK, GitTyped, HooksTyped, machine, files
<1>1. /\ reflog'[n] = reflog[n]
      /\ \A c \in Moves : c < n => Before(c)' = Before(c)
  <2>1. /\ \A i \in 1 .. Len(reflog) : reflog'[i] = reflog[i]
        /\ \A c \in Moves : Made(c) => Before(c)' = Before(c)
    BY ReflogGrows
  <2>2. n \in 1 .. Len(reflog) /\ \A c \in Moves : c < n => Made(c)
    BY DEF Made
  <2> QED BY <2>1, <2>2
<1>2. Before(n)' = HEAD
  BY <1>1, HeadIsPast DEF QInv, Before
<1>3. CountIsClaimed'
  BY <1>0 DEF DInv, CountIsClaimed, Unclaimed, Early
<1>4. QuietCount'
  <2>1. ASSUME NEW h \in Busy', h \notin crowded' PROVE h = n /\ pc'[h] = "head" /\ Busy = {}
    BY <1>0, <2>1 DEF Busy
  <2>2. Busy = {} => \A h \in Moves : pc[h] \notin Early
    BY DEF Busy, Early
  <2>3. effective /\ Busy = {} => netDel \in Unclaimed(HEAD)
    BY <2>2 DEF DInv, CountIsClaimed
  <2>4. Busy' # {} => effective
    BY <1>0 DEF QInv, HooksOfMoves, Busy
  <2> QED BY <1>0, <1>2, <2>1, <2>3, <2>4 DEF QuietCount, Unclaimed, Early
<1>5. OnlyHooksCount'
  BY <1>0 DEF DInv, OnlyHooksCount
<1>6. DeletionsAreOwn'
  <2>1. \A c \in Moves : Quiet(c)' => Quiet(c)
    BY <1>0 DEF Quiet
  <2>2. \A r \in reports : r.key < n
    BY DEF QInv, PastOnly, Past
  <2> QED BY <1>0, <1>1, <2>1, <2>2 DEF DInv, DeletionsAreOwn, Quiet
<1> QED BY <1>3, <1>4, <1>5, <1>6 DEF DInv

\* A step of a hook that runs leaves the count, or removes it or a claim on it.
LEMMA CountEffect ==
  ASSUME IInv, NEW h \in Moves, HookStep(h)
  PROVE  /\ netDel' = netDel \/ (pc[h] = "clear" /\ netDel' = NoSha)
         /\ pc[h] \in Early => pc'[h] \in Early \/ netDel' \in {NoSha} \cup strays'
         /\ pc'[h] \in Early => pc[h] \in Early
         /\ pc'[h] = "clear" => del'[h] = netDel
         /\ pc'[h] = "curl" => pc[h] = "clear" /\ del'[h] = del[h] /\ netDel' = NoSha
         /\ strays \subseteq strays'
<1> USE DEF IInv, TypeOK, HooksTyped, HookStep, ReadHead, TakeLock, ReadReflog, ReadOriginal,
      PostCommit, WriteNote, Stats, WritePayload, Curl, Cleanup, End, Goto, Fault,
      files, history, Early
<1>1. /\ netDel' = netDel \/ (pc[h] = "clear" /\ netDel' = NoSha)
      /\ strays \subseteq strays'
  OBVIOUS
<1>2. pc[h] \in Early => pc'[h] \in Early \/ netDel' \in {NoSha} \cup strays'
  OBVIOUS
<1>3. pc'[h] \in Early => pc[h] \in Early
  OBVIOUS
<1>4. pc'[h] = "clear" => del'[h] = netDel
  OBVIOUS
<1>5. pc'[h] = "curl" => pc[h] = "clear" /\ del'[h] = del[h] /\ netDel' = NoSha
  OBVIOUS
<1> QED BY <1>1, <1>2, <1>3, <1>4, <1>5

LEMMA DHook ==
  ASSUME IInv, QInv, DInv, NEW h \in Moves, HookStep(h)
  PROVE  DInv'
<1>0. /\ HEAD' = HEAD /\ effective /\ h \in Busy /\ Busy' \subseteq Busy
      /\ UNCHANGED <<effective, crowded, overtaken>>
      /\ \A c \in Moves : Before(c)' = Before(c)
      /\ \A k \in Moves \ {h} : pc'[k] = pc[k]
      /\ strays \subseteq strays' /\ strays \cup {NoSha} \subseteq strays' \cup {NoSha}
  BY HookFrame DEF QInv, HooksOfMoves, HEAD, Before, Busy
<1>1. CountIsClaimed'
  <2>1. ASSUME netDel' \notin {NoSha} \cup strays', netDel # HEAD
        PROVE  \E k \in Moves : pc'[k] \in Early
    <3>1. netDel' = netDel /\ netDel \notin Unclaimed(HEAD)
      BY <1>0, <2>1, CountEffect DEF Unclaimed
    <3>2. PICK k \in Moves : pc[k] \in Early
      BY <1>0, <3>1 DEF DInv, CountIsClaimed
    <3> QED BY <1>0, <2>1, <3>2, CountEffect
  <2>2. netDel' \in {NoSha, netDel}
    BY CountEffect
  <2> QED BY <1>0, <2>1, <2>2 DEF CountIsClaimed, Unclaimed
<1>2. QuietCount'
  <2>1. ASSUME NEW k \in Busy', k \notin crowded PROVE k = h /\ h \in Moves
    BY <1>0, <2>1 DEF QInv, Alone
  <2>2. ASSUME h \in Busy', h \notin crowded
        PROVE  /\ netDel' \in IF pc'[h] \in Early THEN Unclaimed(Before(h))' ELSE {NoSha} \cup strays'
               /\ pc'[h] \in {"clear", "curl"} => del'[h] \in Unclaimed(Before(h))'
    <3>1. /\ netDel \in IF pc[h] \in Early THEN Unclaimed(Before(h)) ELSE {NoSha} \cup strays
          /\ pc[h] \in {"clear", "curl"} => del[h] \in Unclaimed(Before(h))
          /\ "clear" \in Early /\ Unclaimed(Before(h)) \subseteq Unclaimed(Before(h))'
      BY <1>0, <2>2 DEF DInv, QuietCount, Unclaimed, Early
    <3>2. NoSha \in Unclaimed(Before(h))'
      BY DEF Unclaimed
    <3>3. netDel' \in IF pc'[h] \in Early THEN Unclaimed(Before(h))' ELSE {NoSha} \cup strays'
      BY <1>0, <3>1, <3>2, CountEffect
    <3>4. pc'[h] \in {"clear", "curl"} => del'[h] \in Unclaimed(Before(h))'
      BY <3>1, CountEffect
    <3> QED BY <3>3, <3>4
  <2> QED BY <1>0, <2>1, <2>2 DEF QuietCount
<1>3. OnlyHooksCount'
  BY <1>0 DEF OnlyHooksCount
<1>4. DeletionsAreOwn'
  <2>1. ASSUME NEW r \in reports' \ reports, Quiet(r.key), r.del \notin strays \cup {NoSha}
        PROVE  r.del = Before(r.key)
    <3>1. r.key = sha[h] /\ r.del = payload.del /\ pc[h] = "curl"
      BY <2>1, HookEffect
    <3>2. sha[h] = h /\ h \notin crowded
      BY <1>0, <2>1, <3>1, BoundsAssumption DEF Quiet, QInv, Alone, IInv, TypeOK, HooksTyped, Shas, Moves
    <3>3. payload.del = del[h] /\ del[h] \in Unclaimed(Before(h))
      BY <1>0, <3>1, <3>2 DEF QInv, QuietHooks, QuietHook, DInv, QuietCount
    <3> QED BY <2>1, <3>1, <3>2, <3>3 DEF Unclaimed
  <2> QED BY <1>0, <2>1 DEF DInv, DeletionsAreOwn, Quiet
<1> QED BY <1>1, <1>2, <1>3, <1>4 DEF DInv

LEMMA DStep == IInv /\ QInv /\ DInv /\ [Next]_vars => DInv'
<1> SUFFICES ASSUME IInv, QInv, DInv, [Next]_vars PROVE DInv'
  OBVIOUS
<1>1. ASSUME NEW s \in Subjects, NEW to \in Shas, Move(s.kind, s.says, to) PROVE DInv'
  BY <1>1, SubjectsAssumption, DMove, ReflogGrows DEF Moves
<1>2. ASSUME NEW h \in Moves, HookStep(h) PROVE DInv'
  BY <1>2, DHook
<1>3. CASE CountDeletions
  <2>1. /\ UNCHANGED <<effective, flock, reflog, pc, del, reports, crowded, overtaken>>
        /\ netDel' = HEAD /\ strays' = IF Busy # {} THEN strays \cup {HEAD} ELSE strays
    BY <1>3 DEF CountDeletions, machine, hooks
  <2> QED BY <2>1 DEF DInv, CountIsClaimed, QuietCount, Unclaimed, OnlyHooksCount, DeletionsAreOwn,
        Quiet, Busy, HEAD, Before
<1>4. CASE Poll \/ (\E c \in Shas : Observe(c) \/ TaskStep(c)) \/ UNCHANGED vars
  <2>1. /\ UNCHANGED <<effective, flock, reflog, pc, del, netDel, strays, crowded, overtaken>>
        /\ \A r \in reports' \ reports : r.del = NoSha
    <3>1. CASE Poll \/ UNCHANGED vars
      BY <3>1 DEF Poll, machine, files, hooks, history, vars
    <3>2. ASSUME NEW c \in Shas, Observe(c) \/ RunPostCommit(c) \/ WriteOwnNote(c) \/ UploadCommitStats(c)
          PROVE  /\ UNCHANGED <<effective, flock, reflog, pc, del, netDel, strays, crowded, overtaken>>
                 /\ \A r \in reports' \ reports : r.del = NoSha
      BY <3>2 DEF Observe, RunPostCommit, WriteOwnNote, UploadCommitStats, machine, files, hooks, history
    <3> QED BY <1>4, <3>1, <3>2 DEF TaskStep
  <2> QED BY <2>1 DEF DInv, CountIsClaimed, QuietCount, Unclaimed, OnlyHooksCount, DeletionsAreOwn,
        Quiet, Busy, HEAD, Before
<1> QED BY <1>1, <1>2, <1>3, <1>4 DEF Next

----------------------------------------------------------------------------
(***************************************************************************)
(* Under the lock a count travels: it is in the file, with the one hook    *)
(* that has read it, or in its reports.  HEAD has left what it refers to.  *)
(***************************************************************************)
Holds(h, x) == pc[h] \in {"clear", "curl"} /\ del[h] = x
Carried(x) == (\E r \in reports : r.del = x) \/ (\E h \in Moves : Holds(h, x))
Visited(x) == \E i \in 1 .. Len(reflog) : reflog[i].sha = x
CountTravels(x) ==
  /\ Carried(x) \/ (netDel = x /\ Busy # {}) => HEAD # x
  /\ \A h \in Moves : pc[h] = "curl" /\ del[h] = x => netDel # x
  /\ \A r \in reports : r.del = x =>
       /\ netDel # x /\ \A h \in Moves : ~Holds(h, x)
       /\ \A s \in reports : s.del = x => s.body = r.body
Once(x) ==
  /\ Carried(x) \/ netDel = x => Visited(x)
  /\ VisitedOnce(x) => CountTravels(x)
PayloadCount == \A h \in Moves : pc[h] = "curl" => payload # NoPayload /\ payload.del = del[h]

OInv == flock => PayloadCount /\ \A x \in Shas \ strays : Once(x)

LEMMA OInit == Init => OInv
<1> SUFFICES ASSUME Init PROVE OInv
  OBVIOUS
<1>1. /\ netDel = NoSha /\ reports = {} /\ \A h \in Moves : pc[h] = "none"
      /\ NoSha \notin Shas
  BY BoundsAssumption DEF Init, Shas
<1> QED BY <1>1 DEF OInv, PayloadCount, Once, CountTravels, Carried, Holds

LEMMA OMove ==
  ASSUME IInv, OInv, flock, NEW kind \in Kinds, NEW says \in Patterns, NEW to \in Shas,
         Move(kind, says, to)
  PROVE  OInv'
<1>1. /\ UNCHANGED <<flock, netDel, payload, del, reports>> /\ strays \subseteq strays'
      /\ \A h \in Moves : pc'[h] = pc[h] \/ (pc'[h] = "head" /\ pc[h] = "none")
  BY DEF Move, IInv, TypeOK, HooksTyped, GitTyped, Moves, machine, files
<1>2. /\ Len(reflog') = Len(reflog) + 1 /\ Len(reflog) \in Nat /\ HEAD' = to
      /\ \A i \in 1 .. Len(reflog) : reflog'[i] = reflog[i]
      /\ reflog'[Len(reflog')].sha = to
  <2>1. /\ Len(reflog') = Len(reflog) + 1 /\ Len(reflog) \in 1 .. MaxMoves /\ HEAD' = to
        /\ \A i \in 1 .. Len(reflog) : reflog'[i] = reflog[i]
        /\ reflog'[Len(reflog')] = [kind |-> kind, says |-> says, sha |-> to]
    BY ReflogGrows
  <2> QED BY <2>1, BoundsAssumption
<1>3. ASSUME NEW x \in Shas \ strays' PROVE Once(x)'
  <2>1. Once(x)
    BY <1>1, <1>3 DEF OInv
  <2>2. /\ \A h \in Moves : Holds(h, x)' <=> Holds(h, x)
        /\ \A h \in Moves : pc'[h] = "curl" => pc[h] = "curl"
    BY <1>1 DEF Holds
  <2>3. Carried(x)' <=> Carried(x)
    BY <1>1, <2>2 DEF Carried
  <2>4. Visited(x) => Visited(x)'
    BY <1>2 DEF Visited
  <2>5. VisitedOnce(x)' => VisitedOnce(x) /\ (Visited(x) => to # x)
    <3>1. DOMAIN reflog = 1 .. Len(reflog) /\ DOMAIN reflog' = 1 .. Len(reflog')
      BY DEF IInv, TypeOK, GitTyped, Move
    <3> QED BY <1>2, <3>1 DEF VisitedOnce, Visited
  <2> QED BY <1>1, <1>2, <2>1, <2>2, <2>3, <2>4, <2>5 DEF Once, CountTravels
<1> QED BY <1>1, <1>3 DEF OInv, PayloadCount

LEMMA OHook ==
  ASSUME IInv, QInv, OInv, flock, NEW h \in Moves, HookStep(h)
  PROVE  OInv'
<1>0. /\ HEAD' = HEAD /\ h \in Busy /\ Busy' \subseteq Busy /\ strays \subseteq strays'
      /\ UNCHANGED <<flock, reflog>>
      /\ \A k \in Moves \ {h} : pc'[k] = pc[k] /\ del'[k] = del[k]
  BY HookFrame DEF HEAD
<1>1. /\ netDel' \in {netDel, NoSha} /\ (pc'[h] = "curl" => pc[h] = "clear" /\ netDel' = NoSha)
      /\ pc'[h] = "clear" => del'[h] = netDel
      /\ pc'[h] = "curl" => del'[h] = del[h]
  BY CountEffect
<1>2. \A k \in Moves \ {h} : pc[k] \in {"clear", "curl"} => pc[h] \in {"head", "lock"}
  BY <1>0, BoundsAssumption DEF IInv, TypeOK, LockIsExclusive, Busy, Moves
<1>3. /\ pc[h] = "curl" => pc'[h] \notin {"clear", "curl"}
      /\ pc[h] \in {"head", "lock"} => pc'[h] \notin {"clear", "curl"} /\ payload' = payload
      /\ pc'[h] = "curl" => payload' # NoPayload /\ payload'.del = del'[h]
  <2> USE DEF IInv, TypeOK, HooksTyped, HookStep, ReadHead, TakeLock, ReadReflog, ReadOriginal,
        PostCommit, WriteNote, Stats, WritePayload, Curl, Cleanup, End, Goto, files
  <2>1. pc[h] = "curl" => pc'[h] \notin {"clear", "curl"}
    OBVIOUS
  <2>2. pc[h] \in {"head", "lock"} => pc'[h] \notin {"clear", "curl"} /\ payload' = payload
    OBVIOUS
  <2>3. pc'[h] = "curl" =>
          payload' = [body |-> sha[h], from |-> from[h], del |-> del[h]] /\ del'[h] = del[h] /\ sha[h] \in Shas
    OBVIOUS
  <2>4. \A b \in Shas : \A f, d : [body |-> b, from |-> f, del |-> d] # NoPayload
    BY BoundsAssumption DEF NoPayload, Shas
  <2> HIDE DEF HookStep
  <2> QED BY <2>1, <2>2, <2>3, <2>4
<1>4. PayloadCount'
  <2>1. ASSUME NEW k \in Moves, k # h, pc'[k] = "curl"
        PROVE  payload' # NoPayload /\ payload'.del = del'[k]
    BY <1>0, <1>2, <1>3, <2>1 DEF OInv, PayloadCount
  <2> QED BY <1>3, <2>1 DEF PayloadCount
<1>5. ASSUME NEW x \in Shas \ strays' PROVE Once(x)'
  <2>1. Once(x) /\ x # NoSha
    BY <1>0, <1>5, BoundsAssumption DEF OInv, Shas
  <2>2. /\ \A k \in Moves : Holds(k, x)' => Holds(k, x) \/ (k = h /\ netDel = x)
        /\ pc[h] = "curl" => ~Holds(h, x)'
    BY <1>0, <1>1, <1>3 DEF Holds
  <2>3. ASSUME NEW r \in reports' \ reports, r.del = x
        PROVE  pc[h] = "curl" /\ Holds(h, x) /\ \A s \in reports' \ reports : s.body = r.body
    BY <2>3, HookEffect DEF OInv, PayloadCount, Holds
  <2>4. Carried(x)' => Carried(x) \/ (netDel = x /\ Busy # {})
    BY <1>0, <2>2, <2>3 DEF Carried
  <2>5. (Visited(x)' <=> Visited(x)) /\ (VisitedOnce(x)' <=> VisitedOnce(x))
    BY <1>0 DEF Visited, VisitedOnce
  <2>6. ASSUME CountTravels(x) PROVE CountTravels(x)'
    <3>1. Carried(x)' \/ (netDel' = x /\ Busy' # {}) => HEAD' # x
      BY <1>0, <1>1, <2>1, <2>4, <2>6 DEF CountTravels
    <3>2. \A k \in Moves : pc'[k] = "curl" /\ del'[k] = x => netDel' # x
      BY <1>0, <1>1, <2>1, <2>6 DEF CountTravels
    <3>3. ASSUME NEW r \in reports, r.del = x
          PROVE  /\ netDel' # x /\ \A k \in Moves : ~Holds(k, x)'
                 /\ \A s \in reports' : s.del = x => s.body = r.body
      BY <1>1, <2>1, <2>2, <2>3, <2>6, <3>3 DEF CountTravels
    <3>4. ASSUME NEW r \in reports' \ reports, r.del = x
          PROVE  /\ netDel' # x /\ \A k \in Moves : ~Holds(k, x)'
                 /\ \A s \in reports' : s.del = x => s.body = r.body
      <4>1. netDel # x /\ \A s \in reports : s.del # x
        BY <2>3, <2>6, <3>4 DEF CountTravels, Holds
      <4>2. \A k \in Moves \ {h} : ~Holds(k, x)
        BY <1>2, <2>3, <3>4 DEF Holds
      <4> QED BY <1>1, <2>1, <2>2, <2>3, <3>4, <4>1, <4>2
    <3> QED BY <3>1, <3>2, <3>3, <3>4 DEF CountTravels
  <2> QED BY <1>1, <2>1, <2>4, <2>5, <2>6 DEF Once
<1> QED BY <1>0, <1>4, <1>5 DEF OInv

LEMMA OStep == IInv /\ QInv /\ OInv /\ [Next]_vars => OInv'
<1> SUFFICES ASSUME IInv, QInv, OInv, [Next]_vars, flock' PROVE OInv'
  BY DEF OInv
<1>1. ASSUME NEW s \in Subjects, NEW to \in Shas, Move(s.kind, s.says, to) PROVE OInv'
  BY <1>1, SubjectsAssumption, OMove DEF Move, machine
<1>2. ASSUME NEW h \in Moves, HookStep(h) PROVE OInv'
  BY <1>2, OHook, HookFrame
<1>3. CASE CountDeletions
  <2>1. /\ UNCHANGED <<flock, reflog, pc, del, payload, reports>> /\ HEAD' = HEAD
        /\ netDel' = HEAD /\ strays' = IF Busy # {} THEN strays \cup {HEAD} ELSE strays
    BY <1>3 DEF CountDeletions, machine, hooks, HEAD
  <2>2. Visited(HEAD)
    BY HeadIsPast DEF QInv, Visited
  <2>3. ASSUME NEW x \in Shas \ strays' PROVE Once(x)'
    <3>1. Once(x) /\ (Carried(x)' <=> Carried(x)) /\ (Visited(x)' <=> Visited(x)) /\ Busy' = Busy
          /\ (VisitedOnce(x)' <=> VisitedOnce(x)) /\ \A h \in Moves : Holds(h, x)' <=> Holds(h, x)
      BY <2>1, <2>3 DEF OInv, Carried, Visited, VisitedOnce, Holds, Busy
    <3>2. CASE x # HEAD
      BY <2>1, <3>1, <3>2 DEF Once, CountTravels
    <3>3. CASE x = HEAD
      <4>1. Busy = {} /\ \A h \in Moves : pc[h] # "curl" /\ ~Holds(h, x)
        BY <2>1, <2>3, <3>3 DEF Busy, Holds
      <4> QED BY <2>1, <2>2, <3>1, <3>3, <4>1 DEF Once, CountTravels, Carried
    <3> QED BY <3>2, <3>3
  <2> QED BY <2>1, <2>3 DEF OInv, PayloadCount
<1>4. CASE Poll \/ (\E c \in Shas : Observe(c) \/ TaskStep(c)) \/ UNCHANGED vars
  <2>1. /\ UNCHANGED <<flock, reflog, pc, del, netDel, strays, payload>>
        /\ reports \subseteq reports' /\ \A r \in reports' \ reports : r.del = NoSha
    <3>1. CASE Poll \/ UNCHANGED vars
      BY <3>1 DEF Poll, machine, files, hooks, history, vars
    <3>2. ASSUME NEW c \in Shas, Observe(c) \/ RunPostCommit(c) \/ WriteOwnNote(c) \/ UploadCommitStats(c)
          PROVE  /\ UNCHANGED <<flock, reflog, pc, del, netDel, strays, payload>>
                 /\ reports \subseteq reports' /\ \A r \in reports' \ reports : r.del = NoSha
      <4>1. CASE Observe(c)
        BY <4>1 DEF Observe, machine, files, hooks, history
      <4>2. CASE RunPostCommit(c) \/ WriteOwnNote(c)
        BY <4>2 DEF RunPostCommit, WriteOwnNote, machine, files, hooks
      <4>3. CASE UploadCommitStats(c)
        <5>1. reports \subseteq reports' /\ \A r \in reports' \ reports : r.del = NoSha
          BY <4>3 DEF UploadCommitStats
        <5>2. UNCHANGED <<flock, reflog, pc, del, netDel, strays, payload>>
          BY <4>3 DEF UploadCommitStats, machine, files, hooks
        <5> QED BY <5>1, <5>2
      <4> QED BY <3>2, <4>1, <4>2, <4>3
    <3> QED BY <1>4, <3>1, <3>2 DEF TaskStep
  <2>2. NoSha \notin Shas
    BY BoundsAssumption DEF Shas
  <2>3. ASSUME NEW x \in Shas \ strays PROVE Once(x)'
    <3>1. Once(x) /\ (Visited(x)' <=> Visited(x)) /\ Busy' = Busy /\ HEAD' = HEAD
          /\ (VisitedOnce(x)' <=> VisitedOnce(x)) /\ \A h \in Moves : Holds(h, x)' <=> Holds(h, x)
      BY <2>1, <2>3 DEF OInv, Visited, VisitedOnce, Holds, Busy, HEAD
    <3>2. \A r \in reports' : r.del = x => r \in reports
      BY <2>1, <2>2, <2>3
    <3>3. Carried(x)' <=> Carried(x)
      BY <2>1, <3>1, <3>2 DEF Carried
    <3> QED BY <2>1, <3>1, <3>2, <3>3 DEF Once, CountTravels
  <2> QED BY <2>1, <2>3 DEF OInv, PayloadCount
<1> QED BY <1>1, <1>2, <1>3, <1>4 DEF Next

----------------------------------------------------------------------------
\* Whatever moves HEAD makes, however the hooks, the extension and failures
\* interleave, every variable keeps its type and one hook at a time is past
\* the lock (buildHookSectionUnix, flock -n).
THEOREM TypeCorrect == Spec => []TypeOK
<1>1. IInv => TypeOK
  BY DEF IInv
<1> QED BY <1>1, InitIInv, NextInv, PTL DEF Spec

\* On a machine with flock a report never carries the numbers of another
\* commit, although all hooks write and send the same .payload.tmp.
THEOREM OwnReports == Spec => []ReportsAreOwn
<1>1. IInv => ReportsAreOwn
  BY DEF IInv
<1> QED BY <1>1, InitIInv, NextInv, PTL DEF Spec

\* The report of a quiet commit is computed from the note that the hook's
\* patterns ask for (gitUtils.ts, *"cherry-pick"*, *"commit (amend)"*), whatever
\* the messages of the commits say, whatever else moves HEAD, kills git-ai,
\* fails or is counted around it, and although hook and extension look for a
\* note long before they write one.
THEOREM QuietReportsAreExact == Spec => []QuietReportIsExact
<1>1. QInv => QuietReportIsExact
  BY DEF QInv
<1> QED BY <1>1, InitIInv, NextInv, QInit, QStep, PTL DEF Spec

\* A quiet commit's report takes a count made against the HEAD it was made on,
\* or a stray, although the file has no owner and nothing orders its writers.
THEOREM OwnDeletions == Spec => []DeletionsAreOwn
<1>1. DInv => DeletionsAreOwn
  BY DEF DInv
<1> QED BY <1>1, InitIInv, NextInv, QInit, QStep, DInit, DStep, PTL DEF Spec

\* Under the lock a count is reported with one commit only: a hook removes it
\* before it reports it, and HEAD has moved on.
THEOREM CountedOnce == Spec => []DeletionsCountedOnce
<1>1. IInv /\ OInv => DeletionsCountedOnce
  <2> SUFFICES ASSUME IInv, OInv, flock, NEW r \in reports, NEW s \in reports,
                      r.del = s.del, r.del \notin strays \cup {NoSha}, VisitedOnce(r.del)
               PROVE  r.body = s.body
    BY DEF DeletionsCountedOnce
  <2>1. r.del \in Shas \ strays
    BY DEF IInv, TypeOK, HistoryTyped
  <2> QED BY <2>1 DEF OInv, Once, CountTravels
<1> QED BY <1>1, InitIInv, NextInv, QInit, QStep, OInit, OStep, PTL DEF Spec

----------------------------------------------------------------------------
\* The numbers of a report: LineMetrics, for every commit and any number of
\* commits.

LEMMA StatsAreNatural ==
    ASSUME NEW added \in Nat, NEW deleted \in Nat, NEW accepted \in Nat,
           NEW overridden \in Nat
    PROVE  StatsFromLog(added, deleted, accepted, overridden) \in CommitStats
<1> QED BY DEF StatsFromLog, CommitStats, Minus, Least, Greatest

\* A set of line numbers has a size; adding the two overlaps keeps a number.
LEMMA AcceptedIsNatural ==
    ASSUME NEW touched \in SUBSET FileLines, NEW first \in SUBSET FileLines,
           NEW second \in SUBSET FileLines, NEW isMerge \in BOOLEAN
    PROVE  /\ Cardinality(touched) \in Nat
           /\ Accepted(touched, first, second, isMerge) \in Nat
<1>1. IsFiniteSet(FileLines)
  BY MetricsBounds, FS_Interval DEF MetricsBounds, FileLines
<1>2. IsFiniteSet(touched) /\ IsFiniteSet(first) /\ IsFiniteSet(second)
  BY <1>1, FS_Subset
<1>3. IsFiniteSet(first \intersect touched) /\ IsFiniteSet(second \intersect touched)
  BY <1>2, FS_Subset
<1>4. /\ Cardinality(touched) \in Nat
      /\ Cardinality(first \intersect touched) \in Nat
      /\ Cardinality(second \intersect touched) \in Nat
  BY <1>2, <1>3, FS_CardinalityType
<1> QED BY <1>4 DEF Accepted

\* What stats.rs guarantees of the numbers it prints.
Consistent(s) ==
    /\ s \in CommitStats
    /\ s.ai = s.mixed + s.accepted
    /\ s.human = Minus(s.added, s.accepted)
    /\ s.mixed <= s.human

LEMMA StatsAreConsistent ==
    ASSUME NEW added \in Nat, NEW deleted \in Nat, NEW accepted \in Nat,
           NEW overridden \in Nat
    PROVE  Consistent(StatsFromLog(added, deleted, accepted, overridden))
<1> QED BY DEF Consistent, StatsFromLog, CommitStats, Minus, Least, Greatest

LEMMA AiDeletionsBounded ==
    ASSUME NEW s \in CommitStats, NEW noted \in Nat, NEW hunks \in Nat, NEW net \in Nat
    PROVE  AiDeletions(s, noted, hunks, net) \in 0..s.deleted
<1> QED BY DEF AiDeletions, CommitStats, Least, Greatest

\* The hook's arithmetic splits the added and the deleted lines in two parts,
\* whatever the note and kiro_net_deletions say.
LEMMA HookSplits ==
    ASSUME NEW s, Consistent(s), NEW aiDel \in 0..s.deleted
    PROVE  LET h == HookReport(s, aiDel)
           IN  /\ h \in Reports
               /\ h.path = "hook"
               /\ h.added > 0 => h.ai + h.human = h.added
               /\ h.added = 0 => h.human = 0
               /\ h.accepted = h.ai
               /\ h.mixed <= h.human
               /\ h.aiDel + h.humanDel = h.deleted
<1> DEFINE h == HookReport(s, aiDel)
<1>1. /\ s.ai \in Nat /\ s.human \in Nat /\ s.mixed \in Nat
      /\ s.accepted \in Nat /\ s.added \in Nat /\ s.deleted \in Nat
  BY DEF Consistent, CommitStats
<1>2. /\ h.ai = Capped(s.accepted, s) /\ h.accepted = Capped(s.accepted, s)
      /\ h.human = s.human /\ h.mixed = s.mixed /\ h.added = s.added
      /\ h.deleted = s.deleted /\ h.aiDel = aiDel
      /\ h.humanDel = s.deleted - aiDel
  BY <1>1 DEF HookReport, Capped, Consistent, Greatest, Least, Minus
<1>3. h \in Reports /\ h.path = "hook"
  BY <1>1 DEF HookReport, Capped, Greatest, Least, Reports, Reporters
<1> QED
  BY <1>1, <1>2, <1>3 DEF Capped, Consistent, Greatest, Least, Minus

\* What the extension sends, and the sums of what it has sent, stay shares.
Proportioned(t) ==
    /\ 0 <= Denominator(t)
    /\ 0 <= TwiceNumerator(t)
    /\ TwiceNumerator(t) <= 2 * Denominator(t)

RatioInv ==
    /\ report # None /\ report.path = "extension" => Proportioned(report)
    /\ Proportioned(totals["extension"])

MetricsInv ==
    /\ MetricsTypeOK
    /\ stats # None => Consistent(stats)
    /\ HookSplitsTheDiff
    /\ RatioInv

LEMMA NoneIsNoRecord == None \notin CommitStats /\ None \notin Reports
<1>1. DOMAIN None = {"path"}
  BY DEF None
<1>2. \A s \in CommitStats : "ai" \in DOMAIN s
  BY DEF CommitStats
<1>3. \A s \in Reports : "ai" \in DOMAIN s
  BY DEF Reports
<1> QED BY <1>1, <1>2, <1>3

LEMMA MetricsInitInv == MetricsInit => MetricsInv
<1> QED
  BY DEF MetricsInit, MetricsInv, MetricsTypeOK, HookSplitsTheDiff, RatioInv, Proportioned, Denominator,
     TwiceNumerator, Reporters

LEMMA MetricsStepInv == MetricsInv /\ [MetricsNext]_metrics => MetricsInv'
<1> SUFFICES ASSUME MetricsInv, [MetricsNext]_metrics PROVE MetricsInv'
  OBVIOUS
<1> USE MetricsBounds, NoneIsNoRecord DEF MetricsBounds, MetricsInv, MetricsTypeOK
<1>1. CASE Measure
  <2>1. PICK touched \in SUBSET FileLines, added \in SUBSET FileLines,
             first \in SUBSET FileLines, second \in SUBSET FileLines,
             isMerge \in BOOLEAN, deleted \in Counts, overridden \in Counts :
          stats' = StatsFromLog(Cardinality(added), deleted,
                                Accepted(touched, first, second, isMerge), overridden)
    BY <1>1 DEF Measure
  <2>2. deleted \in Nat /\ overridden \in Nat
    BY DEF Counts
  <2>3. Consistent(stats')
    BY <2>1, <2>2, AcceptedIsNatural, StatsAreConsistent
  <2>4. stats' \in CommitStats
    BY <2>3 DEF Consistent
  <2>5. UNCHANGED <<report, totals, stored>>
    BY <1>1 DEF Measure
  <2> QED
    BY <2>3, <2>4, <2>5 DEF HookSplitsTheDiff, RatioInv, Proportioned,
     Denominator, TwiceNumerator
<1>2. CASE ReportByHook
  <2>1. PICK noted \in Counts, hunks \in Counts, net \in Counts :
          report' = HookReport(stats, AiDeletions(stats, noted, hunks, net))
    BY <1>2 DEF ReportByHook
  <2>2. Consistent(stats) /\ stats \in CommitStats
    BY <1>2 DEF ReportByHook
  <2>3. AiDeletions(stats, noted, hunks, net) \in 0..stats.deleted
    <3>1. noted \in Nat /\ hunks \in Nat /\ net \in Nat
      BY DEF Counts
    <3> QED BY <2>2, <3>1, AiDeletionsBounded
  <2>4. /\ report' \in Reports /\ report'.path = "hook"
        /\ report'.added > 0 => report'.ai + report'.human = report'.added
        /\ report'.added = 0 => report'.human = 0
        /\ report'.accepted = report'.ai
        /\ report'.mixed <= report'.human
        /\ report'.aiDel + report'.humanDel = report'.deleted
    BY <2>1, <2>2, <2>3, HookSplits
  <2>5. stats' = None /\ UNCHANGED <<totals, stored>> /\ "hook" \in Paths
    BY <1>2 DEF ReportByHook
  <2> QED
    BY <2>4, <2>5 DEF HookSplitsTheDiff, RatioInv
<1>3. CASE ReportByExtension
  <2>1. stats \in CommitStats /\ Consistent(stats)
    BY <1>3 DEF ReportByExtension
  <2>2. report' = ExtensionReport(stats) /\ stats' = None /\ UNCHANGED <<totals, stored>>
    BY <1>3 DEF ReportByExtension
  <2>3. report' \in Reports /\ report'.path = "extension"
    BY <2>1, <2>2 DEF ExtensionReport, CommitStats, Reports, Reporters
  <2>4. /\ report'.ai = stats.mixed + stats.accepted
        /\ report'.human = stats.human /\ report'.mixed = stats.mixed
    BY <2>1, <2>2 DEF ExtensionReport, Consistent
  <2>5. stats.mixed \in Nat /\ stats.accepted \in Nat /\ stats.human \in Nat
        /\ stats.mixed <= stats.human
    BY <2>1 DEF CommitStats, Consistent
  <2> QED
    BY <2>2, <2>3, <2>4, <2>5 DEF HookSplitsTheDiff, RatioInv, Proportioned,
     Denominator, TwiceNumerator
<1>4. CASE Store
  <2>1. report \in Reports
    BY <1>4 DEF Store
  <2>2. report.ai \in Nat /\ report.human \in Nat /\ report.mixed \in Nat
    BY <2>1 DEF Reports
  <2>3. totals' = [totals EXCEPT ![report.path] =
                     [ai    |-> totals[report.path].ai + report.ai,
                      human |-> totals[report.path].human + report.human,
                      mixed |-> totals[report.path].mixed + report.mixed]]
    BY <1>4 DEF Store
  <2>4. report' = None /\ stats' = stats /\ stored' \in Nat /\ report # None
    BY <1>4 DEF Store
  <2>5. \A p \in Reporters : /\ totals[p].ai \in Nat /\ totals[p].human \in Nat
                             /\ totals[p].mixed \in Nat
    OBVIOUS
  <2>6. report.path \in Reporters /\ "extension" \in Reporters
    BY <2>1 DEF Reports, Reporters
  <2>7. totals' \in [Reporters -> [ai : Nat, human : Nat, mixed : Nat]]
    BY <2>2, <2>3, <2>5, <2>6
  <2>8. Proportioned(totals'["extension"])
    <3>1. CASE report.path = "extension"
      <4>1. /\ totals'["extension"].ai = totals["extension"].ai + report.ai
            /\ totals'["extension"].human = totals["extension"].human + report.human
            /\ totals'["extension"].mixed = totals["extension"].mixed + report.mixed
        BY <2>3, <2>6, <3>1
      <4> QED
        BY <2>2, <2>4, <2>5, <2>6, <3>1, <4>1
        DEF RatioInv, Proportioned,
     Denominator, TwiceNumerator
    <3>2. CASE report.path # "extension"
      BY <2>3, <2>6, <3>2 DEF RatioInv
    <3> QED BY <3>1, <3>2
  <2> QED BY <2>4, <2>7, <2>8 DEF HookSplitsTheDiff, RatioInv
<1>5. CASE UNCHANGED metrics
  BY <1>5 DEF metrics, HookSplitsTheDiff, RatioInv, Proportioned,
     Denominator, TwiceNumerator
<1> QED BY <1>1, <1>2, <1>3, <1>4, <1>5 DEF MetricsNext

\* The inductive invariant holds whatever is measured, reported and stored.
LEMMA MetricsInvariance == MetricsSpec => []MetricsInv
<1> QED BY MetricsInitInv, MetricsStepInv, PTL DEF MetricsSpec

\* The counters of every stage are natural numbers.
THEOREM MetricsTypeCorrect == MetricsSpec => []MetricsTypeOK
<1>1. MetricsInv => MetricsTypeOK
  BY DEF MetricsInv
<1> QED BY <1>1, MetricsInvariance, PTL

\* Every report of the hook splits the deleted lines of its commit in two, and
\* the added lines too where there are any; lines a rename only moved may be
\* claimed as the agent's on top, without a human share.
THEOREM HookPartitions == MetricsSpec => []HookSplitsTheDiff
<1>1. MetricsInv => HookSplitsTheDiff
  BY DEF MetricsInv
<1> QED BY <1>1, MetricsInvariance, PTL

\* The ratio of a repository whose commits are reported by the extension is a
\* share, over any number of commits: the service's formula fits what git-ai
\* prints.
THEOREM ExtensionShare == MetricsSpec => []ExtensionRatioIsAShare
<1>1. MetricsInv => ExtensionRatioIsAShare
  <2>1. "extension" \in Reporters
    BY DEF Reporters
  <2> QED
    BY <2>1 DEF MetricsInv, MetricsTypeOK, RatioInv, Proportioned, ExtensionRatioIsAShare, IsShare,
       Denominator, TwiceNumerator
<1> QED BY <1>1, MetricsInvariance, PTL
=============================================================================
