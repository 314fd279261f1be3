------------------------- MODULE StatsIngestProofs -------------------------
(***************************************************************************)
(* Proofs about StatsIngest for every set of requests, every pool size and *)
(* every number of failures.                                               *)
(***************************************************************************)
EXTENDS StatsIngest, TLAPS

\* The handler records a key only after the await of saveStats returned.
MarkFollowsCommit ==
    \A r \in Requests : pc[r] = "mark" => r \in rows /\ Key[r] \in Keys

\* A lookup is made for a key, never for a missing header.
LookupHasKey == \A r \in Requests : pc[r] = "lookup" => Key[r] \in Keys

\* What an open transaction has summed: its own row and committed rows.
OpenSumsAreSound ==
    \A r \in Requests : pc[r] \in {"snapshot", "commit"} =>
        /\ r \in totals[r]
        /\ totals[r] \subseteq rows \union {r}
        /\ \A q \in totals[r] : Repo[q] = Repo[r]

\* Of two open transactions both are known to overlap.
OverlapsAreKnown ==
    \A q, r \in InTx : q # r => q \in overlapped

\* A transaction that is to commit without a snapshot has summed no lines.
StampsOK ==
    \A r \in Requests :
        /\ pc[r] \in {"new", "lookup", "body", "connect", "insert", "sum", "snapshot"} =>
             stamp[r] = 0
        /\ pc[r] = "commit" /\ stamp[r] = 0 => WithLines(totals[r]) = {}

\* A transaction that overlaps no other has summed all there is, and its
\* snapshot will be the latest.
SerialSumsAreTotal ==
    \A r \in Requests \ overlapped :
        /\ pc[r] \in {"snapshot", "commit"} => totals[r] = Counted(r)
        /\ pc[r] = "commit" /\ stamp[r] # 0 => \A h \in history : h.at < stamp[r]

StoredHasSnapshot == \A r \in rows : Lines[r] > 0 => \E h \in history : h.req = r

\* A snapshot misses only what has a later one.
MissedIsLater ==
    \A h \in history, q \in rows :
        h.req \notin overlapped /\ q \notin overlapped /\ Repo[q] = Repo[h.req] /\ Lines[q] > 0
            => q \in h.counted \/ \E g \in history : g.req = q /\ h.at < g.at

IInv == /\ TypeOK /\ MarkFollowsCommit /\ LookupHasKey /\ OpenSumsAreSound
        /\ KeyImpliesStored /\ OkImpliesStored /\ SnapshotsCountStored
        /\ OverlapsAreKnown /\ StampsOK /\ SerialSumsAreTotal
        /\ StoredHasSnapshot /\ MissedIsLater

USE DEF TxStates, Waiting, Handling, Statuses, Snapshots, Goto, Reply, Fault,
        UnchangedTables, UnchangedTx

\* Types survive every step of a handler and every crash.
LEMMA TypeStep ==
    ASSUME TypeOK, MarkFollowsCommit, [Next]_vars PROVE TypeOK'
<1> USE ConstantsAssumption DEF TypeOK, ConstantsAssumption
<1>1. ASSUME NEW r \in Requests, Arrive(r) PROVE TypeOK'
  BY <1>1 DEF Arrive
<1>2. ASSUME NEW r \in Requests, LookupHit(r) PROVE TypeOK'
  BY <1>2 DEF LookupHit
<1>3. ASSUME NEW r \in Requests, LookupMiss(r) PROVE TypeOK'
  BY <1>3 DEF LookupMiss
<1>4. ASSUME NEW r \in Requests, ReadReport(r) PROVE TypeOK'
  BY <1>4 DEF ReadReport
<1>5. ASSUME NEW r \in Requests, RefuseBody(r) PROVE TypeOK'
  BY <1>5 DEF RefuseBody, RefusalOf
<1>6. ASSUME NEW r \in Requests, Begin(r) PROVE TypeOK'
  BY <1>6 DEF Begin, InTx
<1>7. ASSUME NEW r \in Requests, InsertRows(r) PROVE TypeOK'
  BY <1>7 DEF InsertRows
<1>8. ASSUME NEW r \in Requests, SumTotals(r) PROVE TypeOK'
  <2>1. Counted(r) \in SUBSET Requests
    BY DEF Counted
  <2> QED BY <1>8, <2>1 DEF SumTotals
<1>9. ASSUME NEW r \in Requests, InsertSnapshot(r) PROVE TypeOK'
  <2>1. clock' = clock + 1 /\ stamp' = [stamp EXCEPT ![r] = clock + 1]
    BY <1>9 DEF InsertSnapshot
  <2>2. stamp' \in [Requests -> 0..clock'] /\ clock' \in Nat
    BY <2>1
  <2>3. \A h \in history' : h.at \in 1..clock'
    BY <1>9, <2>1 DEF InsertSnapshot
  <2> QED BY <1>9, <2>2, <2>3 DEF InsertSnapshot
<1>10. ASSUME NEW r \in Requests, MakeDurable(r)
       PROVE /\ rows' \subseteq Requests
             /\ history' \subseteq Snapshots
             /\ \A h \in history' : h.at \in 1..clock
  <2>1. CASE stamp[r] = 0
    BY <1>10, <2>1 DEF MakeDurable
  <2>2. CASE stamp[r] # 0
    <3>1. stamp[r] \in 1..clock
      BY <2>2
    <3> QED BY <1>10, <2>2, <3>1 DEF MakeDurable
  <2> QED BY <2>1, <2>2
<1>11. ASSUME NEW r \in Requests, Commit(r) PROVE TypeOK'
  <2>1. pc' \in [Requests -> Handling \union {"new", "answered", "lost"}]
        /\ answer' \in [Requests -> Statuses]
    BY <1>11 DEF Commit
  <2> QED BY <1>10, <1>11, <2>1 DEF Commit
<1>12. ASSUME NEW r \in Requests, MarkKey(r) PROVE TypeOK'
  <2>1. Key[r] \in Keys
    BY <1>12 DEF MarkKey, MarkFollowsCommit
  <2> QED BY <1>12, <2>1 DEF MarkKey
<1>13. ASSUME NEW r \in Requests, Failure(r) PROVE TypeOK'
  <2>1. CASE LookupFails(r)
    BY <2>1 DEF LookupFails
  <2>2. CASE TxFails(r)
    BY <2>2 DEF TxFails
  <2>3. CASE CommitUnknown(r)
    BY <1>10, <2>3 DEF CommitUnknown
  <2>4. CASE PoolTimeout(r)
    BY <2>4 DEF PoolTimeout
  <2>5. CASE QueryFails(r)
    BY <2>5 DEF QueryFails
  <2> QED BY <1>13, <2>1, <2>2, <2>3, <2>4, <2>5 DEF Failure
<1>14. CASE Crash
  BY <1>14 DEF Crash
<1>15. CASE UNCHANGED vars
  BY <1>15 DEF vars
<1> QED
  BY <1>1, <1>2, <1>3, <1>4, <1>5, <1>6, <1>7, <1>8, <1>9, <1>11, <1>12,
     <1>13, <1>14, <1>15 DEF Next, Step, Progress

\* Only a commit changes rows and history, and both only grow.
LEMMA TablesGrow ==
    ASSUME [Next]_vars PROVE rows \subseteq rows' /\ history \subseteq history'
<1>1. ASSUME NEW r \in Requests, MakeDurable(r)
      PROVE rows \subseteq rows' /\ history \subseteq history'
  BY <1>1 DEF MakeDurable
<1> QED
  BY <1>1 DEF Next, Step, Progress, Failure, Arrive, LookupHit, LookupMiss,
     LookupFails, ReadReport, RefuseBody, Begin, InsertRows, SumTotals,
     InsertSnapshot, Commit, MarkKey, TxFails, CommitUnknown, PoolTimeout,
     QueryFails, Crash, vars

\* A handler reaches "mark" only by committing, "lookup" only with a key.
LEMMA ControlStep ==
    ASSUME IInv, [Next]_vars
    PROVE  MarkFollowsCommit' /\ LookupHasKey'
<1> USE ConstantsAssumption DEF ConstantsAssumption, IInv, TypeOK,
        MarkFollowsCommit, LookupHasKey
<1>1. ASSUME NEW r \in Requests, Commit(r)
      PROVE  MarkFollowsCommit' /\ LookupHasKey'
  BY <1>1 DEF Commit, MakeDurable
<1>2. ASSUME NEW r \in Requests, CommitUnknown(r)
      PROVE  MarkFollowsCommit' /\ LookupHasKey'
  BY <1>2 DEF CommitUnknown, MakeDurable
<1>3. CASE UNCHANGED vars
  BY <1>3 DEF vars
<1>4. CASE Crash
  BY <1>4 DEF Crash
<1>5. ASSUME NEW r \in Requests, Arrive(r) \/ Progress(r), ~Commit(r)
      PROVE  MarkFollowsCommit' /\ LookupHasKey'
  BY <1>5 DEF Progress, Arrive, LookupHit, LookupMiss, ReadReport, RefuseBody,
     Begin, InsertRows, SumTotals, InsertSnapshot, MarkKey
<1>6. ASSUME NEW r \in Requests, Failure(r), ~CommitUnknown(r)
      PROVE  MarkFollowsCommit' /\ LookupHasKey'
  BY <1>6 DEF Failure, LookupFails, TxFails, PoolTimeout, QueryFails
<1> QED
  BY <1>1, <1>2, <1>3, <1>4, <1>5, <1>6 DEF Next, Step

\* A transaction's sum stays sound while others commit around it.
LEMMA SumsStep ==
    ASSUME IInv, [Next]_vars PROVE OpenSumsAreSound'
<1> USE ConstantsAssumption DEF ConstantsAssumption, IInv, TypeOK, OpenSumsAreSound
<1>1. rows \subseteq rows'
  BY TablesGrow
<1>2. ASSUME NEW r \in Requests, SumTotals(r) PROVE OpenSumsAreSound'
  BY <1>1, <1>2 DEF SumTotals, Counted
<1>3. ASSUME NEW r \in Requests, Arrive(r) \/ Progress(r), ~SumTotals(r)
      PROVE  OpenSumsAreSound'
  <2>1. /\ totals' = totals
        /\ \A q \in Requests : pc'[q] \in {"snapshot", "commit"}
                             => pc[q] \in {"snapshot", "commit"}
    BY <1>3 DEF Progress, Arrive, LookupHit, LookupMiss, ReadReport,
       RefuseBody, Begin, InsertRows, InsertSnapshot, Commit, MarkKey
  <2> QED BY <1>1, <2>1
<1>4. ASSUME NEW r \in Requests, Failure(r) PROVE OpenSumsAreSound'
  <2>1. /\ totals' = totals
        /\ \A q \in Requests : pc'[q] \in {"snapshot", "commit"}
                             => pc[q] \in {"snapshot", "commit"}
    BY <1>4 DEF Failure, LookupFails, TxFails, CommitUnknown, PoolTimeout, QueryFails
  <2> QED BY <1>1, <2>1
<1>5. CASE Crash
  BY <1>1, <1>5 DEF Crash
<1>6. CASE UNCHANGED vars
  BY <1>6 DEF vars
<1> QED
  BY <1>2, <1>3, <1>4, <1>5, <1>6 DEF Next, Step

\* A key is added only at "mark", when the row is committed.
LEMMA KeyStep ==
    ASSUME IInv, [Next]_vars PROVE KeyImpliesStored'
<1> USE DEF IInv, TypeOK, KeyImpliesStored, MarkFollowsCommit
<1>1. rows \subseteq rows'
  BY TablesGrow
<1>2. ASSUME NEW r \in Requests, MarkKey(r) PROVE KeyImpliesStored'
  BY <1>1, <1>2 DEF MarkKey
<1>3. CASE \A r \in Requests : ~MarkKey(r)
  <2>1. keys' = keys
    BY <1>3 DEF Next, Step, Progress, Failure, Arrive, LookupHit, LookupMiss,
       LookupFails, ReadReport, RefuseBody, Begin, InsertRows, SumTotals,
       InsertSnapshot, Commit, TxFails, CommitUnknown, PoolTimeout,
       QueryFails, Crash, vars
  <2> QED BY <1>1, <2>1
<1> QED BY <1>2, <1>3

\* 200 is sent after a commit or on a recorded key, and nowhere else.
LEMMA OkStep ==
    ASSUME IInv, [Next]_vars PROVE OkImpliesStored'
<1> USE ConstantsAssumption DEF ConstantsAssumption, IInv, TypeOK, OkImpliesStored
<1>1. rows \subseteq rows'
  BY TablesGrow
<1>2. ASSUME NEW r \in Requests, LookupHit(r) PROVE OkImpliesStored'
  <2>1. PICK q \in rows : Key[q] = Key[r]
    BY <1>2 DEF LookupHit, KeyImpliesStored
  <2>2. Key[r] # NoKey
    BY <1>2 DEF LookupHit
  <2> QED BY <1>1, <1>2, <2>1, <2>2 DEF LookupHit
<1>3. ASSUME NEW r \in Requests, Commit(r) PROVE OkImpliesStored'
  BY <1>1, <1>3 DEF Commit, MakeDurable
<1>4. ASSUME NEW r \in Requests, MarkKey(r) PROVE OkImpliesStored'
  BY <1>1, <1>4 DEF MarkKey, MarkFollowsCommit
<1>5. CASE \A r \in Requests : ~LookupHit(r) /\ ~Commit(r) /\ ~MarkKey(r)
  <2>1. \A q \in Requests : answer'[q] = 200 => answer[q] = 200
    BY <1>5 DEF Next, Step, Progress, Failure, Arrive, LookupMiss, LookupFails,
       ReadReport, RefuseBody, RefusalOf, Begin, InsertRows, SumTotals,
       InsertSnapshot, TxFails, CommitUnknown, PoolTimeout, QueryFails, Crash, vars
  <2> QED BY <1>1, <2>1
<1> QED BY <1>2, <1>3, <1>4, <1>5

\* A snapshot becomes visible together with the row that it was taken for.
LEMMA SnapshotStep ==
    ASSUME IInv, [Next]_vars PROVE SnapshotsCountStored'
<1> USE DEF IInv, TypeOK, SnapshotsCountStored, OpenSumsAreSound
<1>1. rows \subseteq rows'
  BY TablesGrow
<1>2. ASSUME NEW r \in Requests, pc[r] = "commit", MakeDurable(r)
      PROVE  SnapshotsCountStored'
  <2>1. history' \subseteq history \union
                   {[req |-> r, counted |-> totals[r], at |-> stamp[r]]}
    BY <1>2 DEF MakeDurable
  <2>2. totals[r] \subseteq rows' /\ r \in rows'
    BY <1>2 DEF MakeDurable
  <2> QED BY <1>1, <1>2, <2>1, <2>2
<1>3. CASE \A r \in Requests : ~Commit(r) /\ ~CommitUnknown(r)
  <2>1. history' = history
    BY <1>3 DEF Next, Step, Progress, Failure, Arrive, LookupHit, LookupMiss,
       LookupFails, ReadReport, RefuseBody, Begin, InsertRows, SumTotals,
       InsertSnapshot, MarkKey, TxFails, PoolTimeout, QueryFails, Crash, vars
  <2> QED BY <1>1, <2>1
<1> QED BY <1>2, <1>3 DEF Commit, CommitUnknown

\* Of two transactions the one that begins later sees the other open.
LEMMA OverlapStep ==
    ASSUME IInv, [Next]_vars PROVE OverlapsAreKnown' /\ overlapped \subseteq overlapped'
<1> USE DEF IInv, TypeOK, OverlapsAreKnown, InTx
<1>1. ASSUME NEW r \in Requests, Begin(r)
      PROVE  OverlapsAreKnown' /\ overlapped \subseteq overlapped'
  BY <1>1 DEF Begin
<1>2. ASSUME overlapped' = overlapped,
             \A q \in Requests : pc'[q] \in TxStates => pc[q] \in TxStates
      PROVE  OverlapsAreKnown' /\ overlapped \subseteq overlapped'
  BY <1>2
<1>3. ASSUME NEW r \in Requests, Arrive(r) \/ Progress(r), ~Begin(r)
      PROVE  /\ overlapped' = overlapped
             /\ \A q \in Requests : pc'[q] \in TxStates => pc[q] \in TxStates
  BY <1>3 DEF Progress, Arrive, LookupHit, LookupMiss, ReadReport, RefuseBody,
     InsertRows, SumTotals, InsertSnapshot, Commit, MarkKey
<1>4. ASSUME NEW r \in Requests, Failure(r)
      PROVE  /\ overlapped' = overlapped
             /\ \A q \in Requests : pc'[q] \in TxStates => pc[q] \in TxStates
  BY <1>4 DEF Failure, LookupFails, TxFails, CommitUnknown, PoolTimeout, QueryFails
<1>5. CASE Crash \/ UNCHANGED vars
  BY <1>2, <1>5 DEF Crash, vars
<1> QED
  BY <1>1, <1>2, <1>3, <1>4, <1>5 DEF Next, Step

\* Steps that neither sum, stamp nor commit.
Quiet == /\ UNCHANGED <<totals, stamp, rows, history>>
         /\ \A r \in Requests :
              /\ pc'[r] = "commit" => pc[r] = "commit"
              /\ pc'[r] = "snapshot" => pc[r] = "snapshot"
              /\ pc'[r] \in {"new", "lookup", "body", "connect", "insert", "sum"} =>
                   pc[r] \in {"new", "lookup", "body", "connect", "insert", "sum"}

LEMMA Steps ==
    ASSUME IInv, [Next]_vars
    PROVE  \/ Quiet
           \/ \E r \in Requests : \/ SumTotals(r) \/ InsertSnapshot(r)
                                  \/ /\ pc[r] = "commit" /\ MakeDurable(r)
                                     /\ pc'[r] \in {"answered", "mark"}
                                     /\ \A q \in Requests \ {r} : pc'[q] = pc[q]
                                     /\ UNCHANGED <<totals, stamp>>
<1> USE DEF IInv, TypeOK
<1>1. ASSUME NEW r \in Requests, Commit(r) \/ CommitUnknown(r)
      PROVE  /\ pc[r] = "commit" /\ MakeDurable(r)
             /\ pc'[r] \in {"answered", "mark"}
             /\ \A q \in Requests \ {r} : pc'[q] = pc[q]
             /\ UNCHANGED <<totals, stamp>>
  BY <1>1 DEF Commit, CommitUnknown
<1>2. ASSUME NEW r \in Requests, Arrive(r) \/ Progress(r),
             ~SumTotals(r), ~InsertSnapshot(r), ~Commit(r)
      PROVE  Quiet
  BY <1>2 DEF Progress, Arrive, LookupHit, LookupMiss, ReadReport, RefuseBody, Begin,
     InsertRows, MarkKey, Quiet
<1>3. ASSUME NEW r \in Requests, Failure(r), ~CommitUnknown(r) PROVE Quiet
  BY <1>3 DEF Failure, LookupFails, TxFails, PoolTimeout, QueryFails, Quiet
<1>4. CASE Crash \/ UNCHANGED vars
  BY <1>4 DEF Crash, vars, Quiet
<1> QED
  BY <1>1, <1>2, <1>3, <1>4 DEF Next, Step

LEMMA StampStep ==
    ASSUME IInv, [Next]_vars PROVE StampsOK'
<1> USE DEF IInv, TypeOK, StampsOK
<1>1. CASE Quiet
  BY <1>1 DEF Quiet, WithLines
<1>2. ASSUME NEW r \in Requests, SumTotals(r) PROVE StampsOK'
  BY <1>2 DEF SumTotals, WithLines
<1>3. ASSUME NEW r \in Requests, InsertSnapshot(r) PROVE StampsOK'
  BY <1>3 DEF InsertSnapshot, WithLines
<1>4. ASSUME NEW r \in Requests, pc'[r] \in {"answered", "mark"},
             \A q \in Requests \ {r} : pc'[q] = pc[q], UNCHANGED <<totals, stamp>>
      PROVE  StampsOK'
  BY <1>4 DEF WithLines
<1> QED BY <1>1, <1>2, <1>3, <1>4, Steps

\* While a transaction is alone nobody adds to what it has summed.
LEMMA SerialSumStep ==
    ASSUME IInv, [Next]_vars PROVE SerialSumsAreTotal'
<1> USE OverlapStep DEF IInv, TypeOK, SerialSumsAreTotal, Counted
<1>1. CASE Quiet
  BY <1>1 DEF Quiet
<1>2. ASSUME NEW r \in Requests, SumTotals(r) PROVE SerialSumsAreTotal'
  <2>1. stamp[r] = 0
    BY <1>2 DEF SumTotals, StampsOK
  <2> QED BY <1>2, <2>1 DEF SumTotals
<1>3. ASSUME NEW r \in Requests, InsertSnapshot(r) PROVE SerialSumsAreTotal'
  <2>1. \A h \in history : h.at < clock + 1
    OBVIOUS
  <2>2. /\ pc'[r] = "commit" /\ pc[r] = "snapshot" /\ stamp'[r] = clock + 1
        /\ \A q \in Requests \ {r} : pc'[q] = pc[q] /\ stamp'[q] = stamp[q]
        /\ UNCHANGED <<totals, rows, history, overlapped>>
    BY <1>3 DEF InsertSnapshot
  <2> QED BY <2>1, <2>2
<1>4. ASSUME NEW r \in Requests, pc[r] = "commit", pc'[r] \in {"answered", "mark"},
             \A q \in Requests \ {r} : pc'[q] = pc[q], UNCHANGED <<totals, stamp>>
      PROVE  SerialSumsAreTotal'
  <2>1. \A q \in Requests : pc'[q] \in {"snapshot", "commit"} => q \in overlapped'
    BY <1>4 DEF OverlapsAreKnown, InTx
  <2> QED BY <2>1
<1> QED BY <1>1, <1>2, <1>3, <1>4, Steps

LEMMA HistoryStep ==
    ASSUME IInv, [Next]_vars PROVE StoredHasSnapshot' /\ MissedIsLater'
<1> USE OverlapStep, ConstantsAssumption DEF IInv, TypeOK, ConstantsAssumption
<1>1. rows \subseteq rows' /\ history \subseteq history'
  BY TablesGrow
<1>2. ASSUME UNCHANGED <<rows, history>> PROVE StoredHasSnapshot' /\ MissedIsLater'
  BY <1>2 DEF StoredHasSnapshot, MissedIsLater
<1>3. ASSUME NEW r \in Requests, pc[r] = "commit", MakeDurable(r)
      PROVE  StoredHasSnapshot' /\ MissedIsLater'
  <2> DEFINE new == [req |-> r, counted |-> totals[r], at |-> stamp[r]]
  <2>1. rows' = rows \union {r} /\ history' \subseteq history \union {new}
        /\ (stamp[r] # 0 => new \in history') /\ (stamp[r] = 0 => history' = history)
    BY <1>3 DEF MakeDurable
  <2>2. r \in totals[r] /\ (Lines[r] > 0 => stamp[r] # 0)
    BY <1>3 DEF OpenSumsAreSound, StampsOK, WithLines
  <2>3. new.req = r /\ new.counted = totals[r] /\ new.at = stamp[r]
    OBVIOUS
  <2> HIDE DEF new
  <2>4. StoredHasSnapshot'
    BY <1>1, <2>1, <2>2, <2>3 DEF StoredHasSnapshot
  <2>5. ASSUME NEW h \in history', NEW q \in rows', h.req \notin overlapped',
               q \notin overlapped', Repo[q] = Repo[h.req], Lines[q] > 0
        PROVE  q \in h.counted \/ \E g \in history' : g.req = q /\ h.at < g.at
    <3>1. CASE h \in history /\ q \in rows
      BY <1>1, <2>5, <3>1 DEF MissedIsLater
    <3>2. CASE h \in history /\ q = r
      <4>1. h.at < stamp[r]
        BY <1>3, <2>2, <2>5, <3>2 DEF SerialSumsAreTotal
      <4> QED BY <2>1, <2>2, <2>3, <2>5, <3>2, <4>1
    <3>3. CASE h = new
      <4>1. h.counted = Counted(r)
        BY <1>3, <2>3, <2>5, <3>3 DEF SerialSumsAreTotal
      <4> QED BY <2>1, <2>3, <2>5, <3>3, <4>1 DEF Counted
    <3> QED BY <2>1, <2>5, <3>1, <3>2, <3>3
  <2> QED BY <2>4, <2>5 DEF MissedIsLater
<1>4. CASE Quiet
  BY <1>2, <1>4 DEF Quiet
<1>5. ASSUME NEW r \in Requests, SumTotals(r) \/ InsertSnapshot(r)
      PROVE  UNCHANGED <<rows, history>>
  BY <1>5 DEF SumTotals, InsertSnapshot
<1> QED BY <1>2, <1>3, <1>4, <1>5, Steps

\* What the invariant says of the latest snapshot of a repository.
LEMMA LatestMissesNothing ==
    ASSUME IInv PROVE SaveIsAtomic /\ SerialSnapshotIsTotal
<1> USE DEF IInv, TypeOK
<1>1. SaveIsAtomic
  BY DEF SaveIsAtomic, StoredHasSnapshot
<1>2. ASSUME NEW p \in Repos, StoredIn(p) \cap overlapped = {}, NEW h \in SnapshotsOf(p),
             \A g \in SnapshotsOf(p) : g.at <= h.at
      PROVE  WithLines(h.counted) = WithLines(StoredIn(p))
  <2>1. /\ h \in history /\ Repo[h.req] = p /\ h.req \in StoredIn(p)
        /\ h.counted \subseteq StoredIn(p)
    BY <1>2 DEF SnapshotsOf, StoredIn, SnapshotsCountStored
  <2>2. ASSUME NEW q \in StoredIn(p), Lines[q] > 0, q \notin h.counted PROVE FALSE
    <3>1. PICK g \in history : g.req = q /\ h.at < g.at
      BY <1>2, <2>1, <2>2 DEF MissedIsLater, StoredIn
    <3>2. g \in SnapshotsOf(p) /\ g.at \in Nat /\ h.at \in Nat
      BY <2>1, <2>2, <3>1 DEF SnapshotsOf, StoredIn
    <3> QED BY <1>2, <3>1, <3>2
  <2> QED BY <2>1, <2>2 DEF WithLines
<1> QED BY <1>1, <1>2 DEF SerialSnapshotIsTotal, LatestIsTotal

LEMMA InitInv == Init => IInv
<1> QED
  BY ConstantsAssumption DEF ConstantsAssumption, Init, IInv, TypeOK,
     MarkFollowsCommit, LookupHasKey, OpenSumsAreSound, KeyImpliesStored,
     OkImpliesStored, SnapshotsCountStored, OverlapsAreKnown, InTx, StampsOK,
     SerialSumsAreTotal, StoredHasSnapshot, MissedIsLater

LEMMA StepInv == IInv /\ [Next]_vars => IInv'
<1> SUFFICES ASSUME IInv, [Next]_vars PROVE IInv'
  OBVIOUS
<1>1. TypeOK'
  BY TypeStep DEF IInv
<1>2. MarkFollowsCommit' /\ LookupHasKey'
  BY ControlStep
<1>3. OpenSumsAreSound' /\ KeyImpliesStored' /\ OkImpliesStored' /\ SnapshotsCountStored'
  BY SumsStep, KeyStep, OkStep, SnapshotStep
<1>4. OverlapsAreKnown' /\ StampsOK' /\ SerialSumsAreTotal' /\ StoredHasSnapshot' /\ MissedIsLater'
  BY OverlapStep, StampStep, SerialSumStep, HistoryStep
<1> QED BY <1>1, <1>2, <1>3, <1>4 DEF IInv

\* The inductive invariant holds in every state of every behaviour.
LEMMA Invariance == Spec => []IInv
<1> QED BY InitInv, StepInv, PTL DEF Spec

\* Every variable keeps its type for any number of requests and failures, and
\* no snapshot is dated ahead of the clock.
THEOREM TypeCorrect == Spec => []TypeOK
<1>1. IInv => TypeOK
  BY DEF IInv
<1> QED BY <1>1, Invariance, PTL

\* A key is never recorded ahead of the report it stands for.
THEOREM KeysAreBacked == Spec => []KeyImpliesStored
<1>1. IInv => KeyImpliesStored
  BY DEF IInv
<1> QED BY <1>1, Invariance, PTL

\* A request answered 200 is stored, by itself or under its key.
THEOREM AcknowledgedIsStored == Spec => []OkImpliesStored
<1>1. IInv => OkImpliesStored
  BY DEF IInv
<1> QED BY <1>1, Invariance, PTL

\* saveStats is atomic: a stored report with lines has its snapshot, and no
\* snapshot counts a row that is not, or not any more, in the table.
THEOREM SavesAreAtomic == Spec => []SaveIsAtomic
<1>1. IInv => SaveIsAtomic
  BY LatestMissesNothing
<1> QED BY <1>1, Invariance, PTL

\* Where no two saves of saveStats overlapped, the latest ai_ratio_history
\* record of a repository misses no commit.
THEOREM SerialSnapshotsAreTotal == Spec => []SerialSnapshotIsTotal
<1>1. IInv => SerialSnapshotIsTotal
  BY LatestMissesNothing
<1> QED BY <1>1, Invariance, PTL
=============================================================================
