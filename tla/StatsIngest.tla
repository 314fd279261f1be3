---------------------------- MODULE StatsIngest ----------------------------
(***************************************************************************)
(* The stats endpoint of the dashboard service: the POST /api/v1/stats     *)
(* handler of kiro-dashboard/src/ingest.js and the functions of store.js   *)
(* it awaits.  Node runs one handler at a time but every await lets any    *)
(* other handler run, so each action below is the code between two awaits. *)
(* PostgreSQL runs the transactions at READ COMMITTED.                     *)
(***************************************************************************)
EXTENDS Naturals, FiniteSets

CONSTANTS
    Requests,   \* the HTTP requests that may reach the service
    Keys,       \* values of X-Idempotency-Key
    NoKey,      \* the header is absent
    Key,        \* Key[r]: the header of request r
    Kind,       \* Kind[r]: what the body of request r is
    Repos,      \* repo_name values
    Repo,       \* Repo[r]: the repository the report is about
    Lines,      \* Lines[r]: ai + human - mixed additions of the report
    PoolMax,    \* DB_POOL_MAX: size of the node-postgres pool
    MaxFaults   \* bound: database errors and service crashes in a behaviour

BodyKinds == {"report", "unparsable", "incomplete", "oversized"}

ASSUME ConstantsAssumption ==
    /\ NoKey \notin Keys
    /\ Key \in [Requests -> Keys \union {NoKey}]
    /\ Kind \in [Requests -> BodyKinds]
    /\ Repo \in [Requests -> Repos]
    /\ Lines \in [Requests -> Nat]
    /\ PoolMax \in Nat \ {0}
    /\ MaxFaults \in Nat

VARIABLES
    pc,        \* pc[r]: the await at which the handler of r stands
    answer,    \* answer[r]: HTTP status sent to r, 0 while there is none
    rows,      \* requests whose commits row is committed
    totals,    \* totals[r]: rows r's open transaction has summed
    stamp,     \* stamp[r]: recorded_at of the snapshot of r's open transaction
    history,   \* committed ai_ratio_history records
    keys,      \* committed idempotency_keys
    overlapped,\* history: requests whose transaction overlapped another one
    clock,     \* the service's wall clock, advanced by every snapshot
    faults     \* database errors and crashes so far

vars == <<pc, answer, rows, totals, stamp, history, keys, overlapped, clock, faults>>

TxStates == {"insert", "sum", "snapshot", "commit"}
Waiting  == {"lookup", "connect", "mark"}
Handling == TxStates \union Waiting \union {"body"}
Statuses == {0, 200, 400, 413, 500}

Snapshots == [req : Requests, counted : SUBSET Requests, at : Nat]

InTx == {r \in Requests : pc[r] \in TxStates}
PoolFree == Cardinality(InTx) < PoolMax

Goto(r, from, to) == pc[r] = from /\ pc' = [pc EXCEPT ![r] = to]
Reply(r, status) ==
    /\ pc' = [pc EXCEPT ![r] = "answered"]
    /\ answer' = [answer EXCEPT ![r] = status]
Fault == faults < MaxFaults /\ faults' = faults + 1

UnchangedTables == UNCHANGED <<rows, history, keys>>
UnchangedTx     == UNCHANGED <<totals, stamp, clock, overlapped>>

Init ==
    /\ pc = [r \in Requests |-> "new"]
    /\ answer = [r \in Requests |-> 0]
    /\ rows = {} /\ history = {} /\ keys = {} /\ overlapped = {}
    /\ totals = [r \in Requests |-> {}]
    /\ stamp = [r \in Requests |-> 0]
    /\ clock = 0 /\ faults = 0

(***************************************************************************)
(* Before the transaction: the header, the duplicate check, the body.      *)
(***************************************************************************)

\* A request without the header skips the duplicate check.
Arrive(r) ==
    /\ Goto(r, "new", IF Key[r] = NoKey THEN "body" ELSE "lookup")
    /\ UNCHANGED <<answer, faults>> /\ UnchangedTables /\ UnchangedTx

\* Fault: the duplicate branch returns without calling sendJson.
LookupHit_NoReply(r) ==
    /\ pc[r] = "lookup" /\ PoolFree /\ Key[r] \in keys
    /\ UNCHANGED vars

LookupHit(r) ==
    /\ pc[r] = "lookup" /\ PoolFree /\ Key[r] \in keys
    /\ Reply(r, 200)
    /\ UNCHANGED faults /\ UnchangedTables /\ UnchangedTx

LookupMiss(r) ==
    /\ PoolFree /\ Key[r] \notin keys
    /\ Goto(r, "lookup", "body")
    /\ UNCHANGED <<answer, faults>> /\ UnchangedTables /\ UnchangedTx

\* hasIdempotencyKey answers false when its query fails: the check fails open.
LookupFails(r) ==
    /\ Goto(r, "lookup", "body")
    /\ \/ Fault
       \/ ~PoolFree /\ UNCHANGED faults      \* connectionTimeoutMillis ran out
    /\ UNCHANGED answer /\ UnchangedTables /\ UnchangedTx

ReadReport(r) ==
    /\ Kind[r] = "report"
    /\ Goto(r, "body", "connect")
    /\ UNCHANGED <<answer, faults>> /\ UnchangedTables /\ UnchangedTx

RefusalOf(kind) == IF kind = "incomplete" THEN 400
                   ELSE IF kind = "oversized" THEN 413
                   ELSE 500                            \* JSON.parse threw

RefuseBody(r) ==
    /\ pc[r] = "body" /\ Kind[r] # "report"
    /\ Reply(r, RefusalOf(Kind[r]))
    /\ UNCHANGED faults /\ UnchangedTables /\ UnchangedTx

(***************************************************************************)
(* saveStats: one pooled client, BEGIN .. COMMIT.                          *)
(***************************************************************************)

\* Fault: the idempotency key is recorded before the report is saved.
Begin_KeyFirst(r) ==
    /\ PoolFree
    /\ Goto(r, "connect", "insert")
    /\ keys' = keys \union ({Key[r]} \ {NoKey})
    /\ UNCHANGED <<answer, faults, rows, history>> /\ UnchangedTx

Begin(r) ==
    /\ PoolFree
    /\ Goto(r, "connect", "insert")
    /\ overlapped' = IF InTx = {} THEN overlapped
                     ELSE overlapped \union InTx \union {r}
    /\ UNCHANGED <<answer, faults, totals, stamp, clock>> /\ UnchangedTables

\* commits and tool_model_stats rows, invisible to others until COMMIT
InsertRows(r) ==
    /\ Goto(r, "insert", "sum")
    /\ UNCHANGED <<answer, faults>> /\ UnchangedTables /\ UnchangedTx

Counted(r) == {q \in rows \union {r} : Repo[q] = Repo[r]}
WithLines(S) == {q \in S : Lines[q] > 0}

\* Fault: the sum runs on another pooled client, outside the transaction.
SumTotals_OtherClient(r) ==
    /\ Goto(r, "sum", "snapshot")
    /\ totals' = [totals EXCEPT ![r] = Counted(r) \ {r}]
    /\ UNCHANGED <<answer, faults, stamp, clock, overlapped>> /\ UnchangedTables

\* READ COMMITTED: the sum sees the committed rows and the transaction's own;
\* if it is 0, there is no snapshot
SumTotals(r) ==
    /\ Goto(r, "sum", IF WithLines(Counted(r)) = {} THEN "commit" ELSE "snapshot")
    /\ totals' = [totals EXCEPT ![r] = Counted(r)]
    /\ UNCHANGED <<answer, faults, stamp, clock, overlapped>> /\ UnchangedTables

\* Fault: the snapshot is inserted outside the transaction.
InsertSnapshot_Autocommit(r) ==
    /\ Goto(r, "snapshot", "commit")
    /\ clock' = clock + 1
    /\ stamp' = [stamp EXCEPT ![r] = clock + 1]
    /\ history' = history \union
                   {[req |-> r, counted |-> totals[r], at |-> clock + 1]}
    /\ UNCHANGED <<answer, faults, totals, rows, keys, overlapped>>

InsertSnapshot(r) ==
    /\ Goto(r, "snapshot", "commit")
    /\ clock' = clock + 1
    /\ stamp' = [stamp EXCEPT ![r] = clock + 1]
    /\ UNCHANGED <<answer, faults, totals, overlapped>> /\ UnchangedTables

\* what COMMIT makes visible: the row and, unless the total was 0, a snapshot
MakeDurable(r) ==
    /\ rows' = rows \union {r}
    /\ history' = history \union
         IF stamp[r] = 0 THEN {}
         ELSE {[req |-> r, counted |-> totals[r], at |-> stamp[r]]}

Commit(r) ==
    /\ pc[r] = "commit"
    /\ MakeDurable(r)
    /\ IF Key[r] = NoKey
       THEN Reply(r, 200)
       ELSE pc' = [pc EXCEPT ![r] = "mark"] /\ UNCHANGED answer
    /\ UNCHANGED <<keys, faults>> /\ UnchangedTx

\* Fault: the catch block of saveStats does not rethrow.
TxFails_Swallowed(r) ==
    /\ pc[r] \in TxStates /\ Fault
    /\ Reply(r, 200)
    /\ UnchangedTables /\ UnchangedTx

\* a statement of the transaction fails: ROLLBACK, rethrow, 500
TxFails(r) ==
    /\ pc[r] \in TxStates /\ Fault
    /\ Reply(r, 500)
    /\ UnchangedTables /\ UnchangedTx

\* the connection is lost during COMMIT after the server made it durable
CommitUnknown(r) ==
    /\ pc[r] = "commit" /\ Fault
    /\ MakeDurable(r)
    /\ Reply(r, 500)
    /\ UNCHANGED keys /\ UnchangedTx

(***************************************************************************)
(* setIdempotencyKey: a statement of its own after the transaction.        *)
(***************************************************************************)

\* Fault: the key is not recorded.
MarkKey_Forgets(r) ==
    /\ pc[r] = "mark" /\ PoolFree
    /\ Reply(r, 200)
    /\ UNCHANGED <<rows, history, keys, faults>> /\ UnchangedTx

MarkKey(r) ==
    /\ pc[r] = "mark" /\ PoolFree
    /\ keys' = keys \union {Key[r]}
    /\ Reply(r, 200)
    /\ UNCHANGED <<rows, history, faults>> /\ UnchangedTx

\* no connection within connectionTimeoutMillis, or the query fails: 500
PoolTimeout(r) ==
    /\ pc[r] \in {"connect", "mark"} /\ ~PoolFree
    /\ Reply(r, 500)
    /\ UNCHANGED faults /\ UnchangedTables /\ UnchangedTx

QueryFails(r) ==
    /\ pc[r] \in {"connect", "mark"} /\ Fault
    /\ Reply(r, 500)
    /\ UnchangedTables /\ UnchangedTx

\* The process dies: open transactions are rolled back, sockets are closed.
\* systemd restarts it (Restart=always), so new requests are served again.
Crash ==
    /\ Fault
    /\ \E r \in Requests : pc[r] \in Handling
    /\ pc' = [r \in Requests |-> IF pc[r] \in Handling THEN "lost" ELSE pc[r]]
    /\ UNCHANGED answer /\ UnchangedTables /\ UnchangedTx

Progress(r) ==
    \/ LookupHit(r) \/ LookupMiss(r) \/ ReadReport(r) \/ RefuseBody(r)
    \/ Begin(r) \/ InsertRows(r) \/ SumTotals(r) \/ InsertSnapshot(r)
    \/ Commit(r) \/ MarkKey(r)

Failure(r) == LookupFails(r) \/ TxFails(r) \/ CommitUnknown(r)
                \/ PoolTimeout(r) \/ QueryFails(r)

Step(r) == Progress(r) \/ Failure(r)

Next == (\E r \in Requests : Arrive(r) \/ Step(r)) \/ Crash

\* Every await settles, and node-postgres queues waiters first in first out.
Fairness == \A r \in Requests : WF_vars(Step(r))

Spec == Init /\ [][Next]_vars /\ Fairness

(***************************************************************************)
(* Properties.                                                             *)
(***************************************************************************)

\* Every variable keeps its type; recorded_at of a committed snapshot is one
\* the service's clock has reached.
TypeOK ==
    /\ pc \in [Requests -> Handling \union {"new", "answered", "lost"}]
    /\ answer \in [Requests -> Statuses]
    /\ rows \subseteq Requests
    /\ totals \in [Requests -> SUBSET Requests]
    /\ clock \in Nat
    /\ stamp \in [Requests -> 0..clock]
    /\ history \subseteq Snapshots
    /\ \A h \in history : h.at \in 1..clock
    /\ keys \subseteq Keys
    /\ overlapped \subseteq Requests
    /\ faults \in 0..MaxFaults

\* A recorded idempotency key always stands for a report that is stored, so
\* that a request the duplicate check turns away is never the only copy
\* (saveStats is awaited before setIdempotencyKey in the handler).
KeyImpliesStored ==
    \A k \in keys : \E r \in rows : Key[r] = k

\* A client that reads 200 may forget its report: the report itself, or one
\* with the same key, is in the commits table.
OkImpliesStored ==
    \A r \in Requests : answer[r] = 200 =>
        r \in rows \/ (Key[r] # NoKey /\ \E q \in rows : Key[q] = Key[r])

\* A snapshot exists only for a stored report and counts only stored reports
\* of its repository, its own included: no snapshot survives a rollback and
\* none counts a row that is rolled back later.
SnapshotsCountStored ==
    \A h \in history :
        /\ {h.req} \union h.counted \subseteq rows
        /\ h.req \in h.counted
        /\ \A q \in h.counted : Repo[q] = Repo[h.req]

\* saveStats is atomic under failures: besides, a stored report that has
\* lines is never without its snapshot.
SaveIsAtomic ==
    /\ SnapshotsCountStored
    /\ \A r \in rows : Lines[r] > 0 => \E h \in history : h.req = r

StoredIn(p) == {r \in rows : Repo[r] = p}
SnapshotsOf(p) == {h \in history : Repo[h.req] = p}
LatestIsTotal(p) ==
    \A h \in SnapshotsOf(p) :
        (\A g \in SnapshotsOf(p) : g.at <= h.at)
            => WithLines(h.counted) = WithLines(StoredIn(p))

\* After saveStats the most recent snapshot of a repository sums all its
\* commits that have lines (Property 1 of the history-chart design), as long
\* as none of its reports was saved while another one was being saved.
SerialSnapshotIsTotal ==
    \A p \in Repos : StoredIn(p) \cap overlapped = {} => LatestIsTotal(p)

\* Two handlers never wait on each other for pool connections: every request
\* that arrives is answered, or its connection dies with the process.
EveryRequestEnds ==
    \A r \in Requests : pc[r] \in Handling ~> pc[r] \in {"answered", "lost"}
=============================================================================
