---------------------------- MODULE StatsUpload ----------------------------
(***************************************************************************)
(* One commit's report on its way to the dashboard: the retry loop of      *)
(* kiro-plugin/src/statsUploader.ts (postWithRetry, doPost and the record  *)
(* uploadCommitStats appends) composed with the stats endpoint.  The POSTs *)
(* of all retries carry the same key, which also is the key the git hook's *)
(* curl would send for the same commit on the same machine.                *)
(***************************************************************************)
EXTENDS Naturals, FiniteSets

CONSTANTS
    Uploads,     \* calls of uploadCommitStats
    Keys,        \* idempotency keys: one per commit and machine
    KeyOf,       \* KeyOf[u]: the key of upload u
    KindOf,      \* KindOf[u]: what the service finds in its body
    LinesOf,     \* LinesOf[u]: the lines its report counts
    NoKey, TheRepo,
    MAX_RETRIES, \* statsUploader.ts: 3
    MayTimeOut,  \* may the 10 s timeout strike while the service works?
    PoolMax, MaxFaults

ASSUME UploadConstants ==
    /\ KeyOf \in [Uploads -> Keys]
    /\ KindOf \in [Uploads -> {"report", "incomplete"}]
    /\ LinesOf \in [Uploads -> Nat]
    /\ MAX_RETRIES \in Nat
    /\ MayTimeOut \in BOOLEAN
    /\ NoKey \notin Keys
    /\ PoolMax \in Nat \ {0}
    /\ MaxFaults \in Nat

VARIABLES
    pc, answer, rows, totals, stamp, history, keys, overlapped, clock, faults, \* service
    client,    \* client[u]: where postWithRetry stands
    attempt,   \* attempt[u]: its loop variable
    acked,     \* uploads that have read a 2xx status
    logged,    \* uploads with a [stats] line in last_upload_payload.json
    unguarded  \* history: uploads whose retries the key has not kept out

Requests == Uploads \X (0..MAX_RETRIES)

Server == INSTANCE StatsIngest WITH
    Key   <- [r \in Requests |-> KeyOf[r[1]]],
    Kind  <- [r \in Requests |-> KindOf[r[1]]],
    Repos <- {TheRepo},
    Repo  <- [r \in Requests |-> TheRepo],
    Lines <- [r \in Requests |-> LinesOf[r[1]]]

serverVars == <<pc, answer, rows, totals, stamp, history, keys, overlapped, clock, faults>>
clientVars == <<client, attempt, acked, logged>>
vars == <<serverVars, clientVars, unguarded>>

Current(u) == <<u, attempt[u]>>
Active == {"ready", "waiting"}
Ended == {"returned", "threw", "gone"}

Init ==
    /\ Server!Init
    /\ client = [u \in Uploads |-> "ready"]
    /\ attempt = [u \in Uploads |-> 0]
    /\ acked = {} /\ logged = {} /\ unguarded = {}

\* The request reaches the service.
Send(u) ==
    /\ client[u] = "ready"
    /\ client' = [client EXCEPT ![u] = "waiting"]
    /\ Server!Arrive(Current(u))
    /\ UNCHANGED <<attempt, acked, logged>>

\* The next turn of the loop, after its back-off, if one is left.
Again(u, exhausted) ==
    IF attempt[u] < MAX_RETRIES
    THEN /\ client' = [client EXCEPT ![u] = "ready"]
         /\ attempt' = [attempt EXCEPT ![u] = @ + 1]
    ELSE /\ client' = [client EXCEPT ![u] = exhausted]
         /\ UNCHANGED attempt

\* postWithRetry returns and uploadCommitStats appends the [stats] line.
ReturnNormally(u) ==
    /\ client' = [client EXCEPT ![u] = "returned"]
    /\ logged' = logged \union {u}
    /\ UNCHANGED attempt

Answer(u) == answer[Current(u)]

\* Fault: every status below 500 counts as success.
ReadOk_Below500(u) ==
    /\ client[u] = "waiting" /\ Answer(u) \in 1..499
    /\ ReturnNormally(u)
    /\ acked' = acked \union {u}
    /\ UNCHANGED serverVars

ReadOk(u) ==
    /\ client[u] = "waiting" /\ Answer(u) = 200
    /\ ReturnNormally(u)
    /\ acked' = acked \union {u}
    /\ UNCHANGED serverVars

ReadRefusal(u) ==
    /\ client[u] = "waiting" /\ Answer(u) \in 400..499
    /\ ReturnNormally(u)
    /\ UNCHANGED <<acked, serverVars>>

\* 5xx: retry; after the last turn the loop falls through to a normal return.
ReadServerError(u) ==
    /\ client[u] = "waiting" /\ Answer(u) >= 500
    /\ Again(u, "returned")
    /\ logged' = IF attempt[u] = MAX_RETRIES THEN logged \union {u} ELSE logged
    /\ UNCHANGED <<acked, serverVars>>

\* A network error; on the last turn it is rethrown and nothing is logged.
NetworkError(u) ==
    /\ Again(u, "threw")
    /\ UNCHANGED <<acked, logged, serverVars>>

CannotConnect(u) == client[u] = "ready" /\ NetworkError(u)

\* Fault: the request's "error" event is not listened to.
ResponseLost_NoErrorEvent(u) ==
    /\ client[u] = "waiting"
    /\ pc[Current(u)] = "answered"
    /\ NetworkError(u)

\* The response, or the connection of a dead service, never arrives.
ResponseLost(u) ==
    /\ client[u] = "waiting"
    /\ pc[Current(u)] \in {"answered", "lost"}
    /\ NetworkError(u)

\* REQUEST_TIMEOUT_MS passes while the service still works on the request.
TimesOut(u) ==
    /\ MayTimeOut
    /\ client[u] = "waiting"
    /\ pc[Current(u)] \in Server!Handling
    /\ NetworkError(u)

\* The IDE is closed: the extension host forgets the upload.
Forgotten(u) ==
    /\ client[u] \in Active
    /\ client' = [client EXCEPT ![u] = "gone"]
    /\ UNCHANGED <<attempt, acked, logged, serverVars>>

\* The ways in which the key is without effect: the client gives up a request
\* the service still works on, the lookup of a recorded key fails for want of a
\* connection or by a fault, or the handler of a stored report fails or dies
\* before its key is recorded.
Unguards(r) ==
    \/ /\ pc[r] \in Server!Handling /\ r = Current(r[1])
       /\ client[r[1]] = "waiting" /\ client'[r[1]] # "waiting"
    \/ /\ pc[r] = "lookup" /\ pc'[r] = "body" /\ KeyOf[r[1]] \in keys
       /\ faults' > faults \/ ~Server!PoolFree
    \/ /\ r \in rows' /\ pc[r] \in Server!Handling /\ KeyOf[r[1]] \notin keys'
       /\ pc'[r] = "lost" \/ answer'[r] = 500
Track == unguarded' = unguarded \union {u \in Uploads : \E r \in Requests : r[1] = u /\ Unguards(r)}

ClientStep(u) ==
    /\ \/ Send(u)
       \/ ReadOk(u) \/ ReadRefusal(u) \/ ReadServerError(u)
       \/ CannotConnect(u) \/ ResponseLost(u) \/ TimesOut(u)
    /\ Track

ServerStep ==
    /\ (\E r \in Requests : Server!Step(r)) \/ Server!Crash
    /\ UNCHANGED clientVars
    /\ Track

Next == ServerStep \/ \E u \in Uploads : ClientStep(u) \/ (Forgotten(u) /\ Track)

\* The retry loop runs on timers and the request itself has a timeout.
Fairness ==
    /\ \A u \in Uploads : WF_vars(ClientStep(u))
    /\ \A r \in Requests : WF_vars(Server!Step(r) /\ UNCHANGED clientVars /\ Track)

Spec == Init /\ [][Next]_vars /\ Fairness

(***************************************************************************)
(* Properties.                                                             *)
(***************************************************************************)
TypeOK ==
    /\ client \in [Uploads -> Active \union Ended]
    /\ attempt \in [Uploads -> 0..MAX_RETRIES]
    /\ acked \subseteq Uploads
    /\ logged \subseteq Uploads
    /\ unguarded \subseteq Uploads

\* The upload path implements the at-least-once ledger: a commit's report is
\* acknowledged to an uploader only when some attempt has stored it, whatever
\* is retried, lost or restarted in between.
Ledger == INSTANCE ReportLedger WITH
    Reports <- Keys,
    stored  <- {KeyOf[r[1]] : r \in rows},
    acked   <- {KeyOf[u] : u \in acked}
ImplementsLedger == Ledger!LedgerSpec

\* No upload hangs: the retry loop of every upload comes to an end.
UploadEnds == \A u \in Uploads : <>(client[u] \in Ended)

\* Retries carry the same X-Idempotency-Key and the service dedupes on it: an
\* upload is stored twice only if its key was put out of force in one of the
\* three ways of Unguards.
StoredTwiceIsExcused ==
    \A r, q \in rows : r # q /\ r[1] = q[1] => r[1] \in unguarded
=============================================================================
