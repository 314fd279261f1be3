------------------------- MODULE StatsUploadProofs -------------------------
(***************************************************************************)
(* The upload path implements the ledger, for any number of uploads, any   *)
(* number of retries and any number of failures.                           *)
(***************************************************************************)
EXTENDS StatsUpload, TLAPS

SP == INSTANCE StatsIngestProofs WITH
    Key   <- [r \in Requests |-> KeyOf[r[1]]],
    Kind  <- [r \in Requests |-> KindOf[r[1]]],
    Repos <- {TheRepo},
    Repo  <- [r \in Requests |-> TheRepo],
    Lines <- [r \in Requests |-> LinesOf[r[1]]]

LEMMA ServerConstants == SP!ConstantsAssumption
<1>1. \A r \in Requests : r[1] \in Uploads
  BY DEF Requests
<1> QED
  BY <1>1, UploadConstants DEF UploadConstants, SP!ConstantsAssumption, SP!BodyKinds

LEMMA ServerStepInv == SP!IInv /\ [SP!Next]_(SP!vars) => SP!IInv'
<1> QED BY SP!StepInv, ServerConstants

LEMMA ServerInitInv == Server!Init => SP!IInv
<1>1. Server!Init => SP!Init
  BY DEF Server!Init, SP!Init
<1> QED BY <1>1, SP!InitInv, ServerConstants

(***************************************************************************)
(* The composed steps are the service's steps.                             *)
(***************************************************************************)

LEMMA SameCardinality == \A S : Server!Cardinality(S) = SP!Cardinality(S)
<1> QED BY Zenon DEF Server!Cardinality, SP!Cardinality

LEMMA SameArrive == \A r \in Requests : Server!Arrive(r) => SP!Arrive(r)
<1> QED BY DEF Server!Arrive, SP!Arrive, Server!Goto, SP!Goto,
     Server!UnchangedTables, SP!UnchangedTables, Server!UnchangedTx, SP!UnchangedTx

LEMMA SameStep == \A r \in Requests : Server!Step(r) => SP!Step(r)
<1> SUFFICES ASSUME NEW r \in Requests, Server!Step(r) PROVE SP!Step(r)
  OBVIOUS
<1> USE SameCardinality DEF
     Server!PoolFree, SP!PoolFree, Server!InTx, SP!InTx, Server!TxStates,
     SP!TxStates, Server!Fault, SP!Fault, Server!Reply, SP!Reply, Server!Goto,
     SP!Goto, Server!UnchangedTables, SP!UnchangedTables, Server!UnchangedTx,
     SP!UnchangedTx, Server!MakeDurable, SP!MakeDurable
<1>1. Server!Progress(r) => SP!Progress(r)
  BY DEF Server!Progress, SP!Progress, Server!LookupHit, SP!LookupHit,
     Server!LookupMiss, SP!LookupMiss, Server!ReadReport, SP!ReadReport,
     Server!RefuseBody, SP!RefuseBody, Server!RefusalOf, SP!RefusalOf,
     Server!Begin, SP!Begin, Server!InsertRows, SP!InsertRows,
     Server!SumTotals, SP!SumTotals, Server!Counted, SP!Counted,
     Server!WithLines, SP!WithLines,
     Server!InsertSnapshot, SP!InsertSnapshot, Server!Commit, SP!Commit,
     Server!MarkKey, SP!MarkKey
<1>2. Server!Failure(r) => SP!Failure(r)
  BY DEF Server!Failure, SP!Failure, Server!LookupFails, SP!LookupFails,
     Server!TxFails, SP!TxFails, Server!CommitUnknown, SP!CommitUnknown,
     Server!PoolTimeout, SP!PoolTimeout, Server!QueryFails, SP!QueryFails
<1> QED BY <1>1, <1>2 DEF Server!Step, SP!Step

LEMMA SameCrash == Server!Crash => SP!Crash
<1> QED BY DEF Server!Crash, SP!Crash, Server!Fault, SP!Fault, Server!Handling,
     SP!Handling, Server!TxStates, SP!TxStates, Server!Waiting, SP!Waiting,
     Server!UnchangedTables, SP!UnchangedTables, Server!UnchangedTx, SP!UnchangedTx

LEMMA CurrentIsRequest ==
    ASSUME TypeOK, NEW u \in Uploads PROVE Current(u) \in Requests
<1> QED BY DEF TypeOK, Current, Requests

LEMMA ServerSees ==
    ASSUME TypeOK, [Next]_vars PROVE [SP!Next]_(SP!vars)
<1>1. ASSUME NEW u \in Uploads, Send(u) PROVE SP!Next
  BY <1>1, CurrentIsRequest, SameArrive DEF Send, SP!Next
<1>2. CASE ServerStep
  BY <1>2, SameStep, SameCrash DEF ServerStep, SP!Next
<1>3. CASE UNCHANGED serverVars
  BY <1>3 DEF serverVars, SP!vars
<1> QED
  BY <1>1, <1>2, <1>3 DEF Next, ClientStep, ReadOk, ReadRefusal,
     ReadServerError, CannotConnect, ResponseLost, TimesOut, NetworkError,
     Forgotten, vars

(***************************************************************************)
(* The inductive invariant: the client's types and the service's invariant.*)
(***************************************************************************)
UInv == TypeOK /\ SP!IInv

LEMMA TypeStep ==
    ASSUME TypeOK, [Next]_vars PROVE TypeOK'
<1> USE UploadConstants DEF UploadConstants, TypeOK, Active, Ended
<1>1. ASSUME NEW u \in Uploads, ClientStep(u) \/ (Forgotten(u) /\ Track) PROVE TypeOK'
  BY <1>1 DEF ClientStep, Send, ReadOk, ReadRefusal, ReadServerError,
     CannotConnect, ResponseLost, TimesOut, NetworkError, Forgotten, Again,
     ReturnNormally, Track
<1>2. CASE ServerStep \/ UNCHANGED vars
  BY <1>2 DEF ServerStep, Track, clientVars, vars
<1> QED BY <1>1, <1>2 DEF Next

LEMMA InitInv == Init => UInv
<1>1. Init => TypeOK
  BY UploadConstants DEF UploadConstants, Init, TypeOK, Active
<1> QED BY <1>1, ServerInitInv DEF Init, UInv

LEMMA StepInv == UInv /\ [Next]_vars => UInv'
<1> QED BY TypeStep, ServerSees, ServerStepInv DEF UInv

\* The invariant of the endpoint carries over to the composition.
LEMMA Invariance == Spec => []UInv
<1> QED BY InitInv, StepInv, PTL DEF Spec

(***************************************************************************)
(* Refinement.                                                             *)
(***************************************************************************)
KeysOf(R) == {KeyOf[r[1]] : r \in R}

LEMMA RowsGrowByOne ==
    ASSUME [SP!Next]_(SP!vars)
    PROVE  rows' = rows \/ \E r \in Requests : rows' = rows \union {r}
<1> QED
  BY DEF SP!Next, SP!Step, SP!Progress, SP!Failure, SP!Arrive, SP!LookupHit,
     SP!LookupMiss, SP!LookupFails, SP!ReadReport, SP!RefuseBody, SP!Begin,
     SP!InsertRows, SP!SumTotals, SP!InsertSnapshot, SP!Commit, SP!MarkKey,
     SP!TxFails, SP!CommitUnknown, SP!PoolTimeout, SP!QueryFails, SP!Crash,
     SP!MakeDurable, SP!UnchangedTables, SP!vars

\* A 2xx that an upload reads is backed by a row with its key.
LEMMA OkIsBacked ==
    ASSUME UInv, NEW u \in Uploads, Answer(u) = 200
    PROVE  KeyOf[u] \in KeysOf(rows)
<1>1. Current(u) \in Requests
  BY CurrentIsRequest DEF UInv
<1>2. \A r \in Requests : r[1] \in Uploads
  BY DEF Requests
<1>3. /\ SP!OkImpliesStored
      /\ rows \subseteq Requests
  BY DEF UInv, SP!IInv, SP!TypeOK
<1>4. \E r \in rows : KeyOf[r[1]] = KeyOf[Current(u)[1]]
  <2>1. \/ Current(u) \in rows
        \/ \E q \in rows : [r \in Requests |-> KeyOf[r[1]]][q]
                         = [r \in Requests |-> KeyOf[r[1]]][Current(u)]
    BY <1>1, <1>3 DEF Answer, SP!OkImpliesStored
  <2>2. \A q \in Requests : [r \in Requests |-> KeyOf[r[1]]][q] = KeyOf[q[1]]
    OBVIOUS
  <2> QED BY <1>1, <1>3, <2>1, <2>2
<1> QED BY <1>4 DEF KeysOf, Current

LEMMA InitRefines == Init => Ledger!LedgerInit
<1> QED BY DEF Init, Server!Init, Ledger!LedgerInit

LEMMA StepRefines ==
    ASSUME UInv, [Next]_vars PROVE [Ledger!LedgerNext]_(Ledger!ledgerVars)
<1> USE UploadConstants DEF UploadConstants, Ledger!ledgerVars
<1>1. ASSUME NEW u \in Uploads, ReadOk(u)
      PROVE  Ledger!LedgerNext
  <2>1. KeyOf[u] \in {KeyOf[r[1]] : r \in rows}
    BY <1>1, OkIsBacked DEF ReadOk, KeysOf
  <2>2. rows' = rows /\ acked' = acked \union {u}
    BY <1>1 DEF ReadOk, serverVars
  <2>3. Ledger!Acknowledge(KeyOf[u])
    BY <2>1, <2>2 DEF Ledger!Acknowledge
  <2> QED BY <2>3 DEF Ledger!LedgerNext
<1>2. CASE acked' = acked
  <2>1. CASE rows' = rows
    BY <1>2, <2>1
  <2>2. ASSUME NEW r \in Requests, rows' = rows \union {r}
        PROVE  Ledger!LedgerNext
    <3>1. KeyOf[r[1]] \in Keys
      BY DEF Requests
    <3>2. Ledger!Store(KeyOf[r[1]])
      BY <1>2, <2>2 DEF Ledger!Store
    <3> QED BY <3>1, <3>2 DEF Ledger!LedgerNext
  <2> QED BY <2>1, <2>2, ServerSees, RowsGrowByOne DEF UInv
<1>3. acked' = acked \/ \E u \in Uploads : ReadOk(u)
  BY DEF Next, ServerStep, ClientStep, Send, ReadRefusal, ReadServerError,
     CannotConnect, ResponseLost, TimesOut, NetworkError, Forgotten, vars,
     clientVars
<1> QED BY <1>1, <1>2, <1>3

\* The client's loop variable stays in range through every retry.
THEOREM TypeCorrect == Spec => []TypeOK
<1>1. UInv => TypeOK
  BY DEF UInv
<1> QED BY <1>1, Invariance, PTL

\* Whatever is lost, retried or restarted, uploads read 2xx only for reports
\* that are in the table, and the table never loses a report.
THEOREM UploadImplementsLedger == Spec => ImplementsLedger
<1>1. Init => Ledger!LedgerInit
  BY InitRefines
<1>2. UInv /\ [Next]_vars => [Ledger!LedgerNext]_(Ledger!ledgerVars)
  BY StepRefines
<1> QED BY <1>1, <1>2, Invariance, PTL DEF Spec, ImplementsLedger, Ledger!LedgerSpec

(***************************************************************************)
(* When a report is stored twice.                                          *)
(***************************************************************************)

\* States in which a handler is past the duplicate check and not yet done.
Saving == {"body", "connect", "insert", "sum", "snapshot", "commit"}

\* The client is ahead of the service: attempts to come have not arrived, and
\* a status is the last thing a handler sends.
AttemptsInOrder ==
    /\ \A u \in Uploads : \A n \in 0..MAX_RETRIES :
          n > attempt[u] \/ (n = attempt[u] /\ client[u] = "ready") => pc[<<u, n>>] = "new"
    /\ \A r \in Requests : answer[r] # 0 => pc[r] = "answered"

\* While the key of an upload is in force the service handles its current
\* attempt only; a stored attempt has its key recorded or is about to; an
\* attempt past the check is the first to be stored, and no second one is.
InForce(u) ==
    /\ \A r \in Requests : r[1] = u /\ pc[r] \in Server!Handling => r = Current(u)
    /\ \A r \in rows : r[1] = u => pc[r] = "mark" \/ KeyOf[u] \in keys
    /\ \A r \in Requests, q \in rows : r[1] = u /\ pc[r] \in Saving => q[1] # u
    /\ \A r, q \in rows : r[1] = u /\ q[1] = u => r = q

GInv == AttemptsInOrder /\ \A u \in Uploads \ unguarded : InForce(u)

\* What a step of the service does to the handler it belongs to, as far as the
\* key is concerned.
Effect(r) ==
    \/ pc[r] = "lookup" /\ pc'[r] = "answered" /\ UNCHANGED <<rows, keys>>
    \/ /\ pc[r] = "lookup" /\ pc'[r] = "body" /\ UNCHANGED <<rows, keys, answer>>
       /\ KeyOf[r[1]] \notin keys \/ faults' > faults \/ ~Server!PoolFree
    \/ pc[r] \in Saving /\ pc'[r] \in Saving /\ UNCHANGED <<rows, keys, answer>>
    \/ pc[r] \in Saving /\ pc'[r] = "answered" /\ UNCHANGED <<rows, keys>>
    \/ /\ pc[r] \in Saving /\ rows' = rows \union {r} /\ keys' = keys
       /\ \/ pc'[r] = "mark" /\ answer' = answer
          \/ pc'[r] = "answered" /\ answer'[r] = 500
    \/ /\ pc[r] = "mark" /\ pc'[r] = "answered" /\ rows' = rows
       /\ \/ keys' = keys \union {KeyOf[r[1]]}
          \/ keys' = keys /\ answer'[r] = 500

LEMMA StepEffect ==
    ASSUME SP!TypeOK, NEW r \in Requests, Server!Step(r)
    PROVE  /\ Effect(r)
           /\ \A q \in Requests \ {r} : pc'[q] = pc[q] /\ answer'[q] = answer[q]
<1> USE UploadConstants DEF UploadConstants, SP!TypeOK, Saving, Effect,
        Server!Goto, Server!Reply, Server!Fault, Server!TxStates,
        Server!UnchangedTables, Server!MakeDurable
<1>0. /\ r[1] \in Uploads /\ KeyOf[r[1]] # NoKey /\ faults \in Nat
      /\ [q \in Requests |-> KeyOf[q[1]]][r] = KeyOf[r[1]]
  BY DEF Requests
<1>1. CASE Server!LookupHit(r) \/ Server!LookupMiss(r) \/ Server!LookupFails(r)
  BY <1>0, <1>1 DEF Server!LookupHit, Server!LookupMiss, Server!LookupFails
<1>2. CASE Server!ReadReport(r) \/ Server!RefuseBody(r) \/ Server!Begin(r)
  BY <1>2 DEF Server!ReadReport, Server!RefuseBody, Server!Begin
<1>3. CASE Server!InsertRows(r) \/ Server!SumTotals(r) \/ Server!InsertSnapshot(r)
  BY <1>3 DEF Server!InsertRows, Server!SumTotals, Server!InsertSnapshot
<1>4. CASE Server!Commit(r) \/ Server!CommitUnknown(r)
  BY <1>0, <1>4 DEF Server!Commit, Server!CommitUnknown
<1>5. CASE Server!TxFails(r)
  BY <1>5 DEF Server!TxFails
<1>6. CASE Server!MarkKey(r) \/ Server!PoolTimeout(r) \/ Server!QueryFails(r)
  BY <1>0, <1>6 DEF Server!MarkKey, Server!PoolTimeout, Server!QueryFails
<1> QED BY <1>1, <1>2, <1>3, <1>4, <1>5, <1>6
        DEF Server!Step, Server!Progress, Server!Failure

LEMMA GuardInit == Init => GInv
<1> QED BY UploadConstants DEF UploadConstants, Init, Server!Init, GInv,
        AttemptsInOrder, InForce, Saving, Requests, Server!Handling,
        Server!TxStates, Server!Waiting

\* A client gives up an attempt, begins the next one or ends.
LEMMA GuardClient ==
    ASSUME TypeOK, GInv, UNCHANGED serverVars, Track, NEW u \in Uploads,
           \A v \in Uploads \ {u} : client'[v] = client[v] /\ attempt'[v] = attempt[v],
           \/ attempt'[u] = attempt[u] /\ client'[u] # "ready"
           \/ attempt'[u] = attempt[u] + 1 /\ client[u] = "ready"
           \/ attempt'[u] = attempt[u] + 1 /\ client[u] = "waiting" /\ client'[u] # "waiting"
    PROVE  GInv'
<1>0. /\ attempt[u] \in Nat /\ attempt[u] \in 0..MAX_RETRIES /\ MAX_RETRIES \in Nat
      /\ \A r \in Requests : r[1] \in Uploads
      /\ pc' = pc /\ rows' = rows /\ keys' = keys /\ answer' = answer
  BY UploadConstants DEF UploadConstants, TypeOK, Requests, serverVars
<1>1. AttemptsInOrder'
  BY <1>0 DEF GInv, AttemptsInOrder, TypeOK
<1>2. ASSUME NEW v \in Uploads, v \notin unguarded' PROVE InForce(v)'
  <2>1. InForce(v) /\ \A r \in Requests : r[1] = v => ~Unguards(r)
    BY <1>2 DEF GInv, Track
  <2>2. ASSUME NEW r \in Requests, r[1] = v, pc[r] \in Server!Handling
        PROVE  r = Current(v)'
    <3>1. r = Current(v)
      BY <2>1, <2>2 DEF InForce
    <3>2. CASE v # u
      BY <3>1, <3>2 DEF Current
    <3>3. CASE v = u /\ attempt'[u] # attempt[u]
      <4>1. client[u] = "ready" => pc[r] = "new"
        BY <1>0, <3>1, <3>3 DEF GInv, AttemptsInOrder, Current
      <4>2. client[u] = "waiting" /\ client'[u] # "waiting"
        BY <3>3, <4>1, <2>2 DEF Server!Handling, Server!TxStates, Server!Waiting
      <4> QED BY <2>1, <2>2, <3>1, <3>3, <4>2 DEF Unguards
    <3>4. CASE v = u /\ attempt'[u] = attempt[u]
      BY <3>1, <3>4 DEF Current
    <3> QED BY <3>2, <3>3, <3>4
  <2> QED BY <1>0, <2>1, <2>2 DEF InForce, Server!Handling, Server!TxStates, Server!Waiting
<1> QED BY <1>1, <1>2 DEF GInv

LEMMA GuardSend ==
    ASSUME SP!TypeOK, TypeOK, GInv, Track, NEW u \in Uploads, Send(u)
    PROVE  GInv'
<1> DEFINE c == Current(u)
<1>0. /\ c \in Requests /\ c[1] = u /\ KeyOf[u] # NoKey
      /\ [q \in Requests |-> KeyOf[q[1]]][c] = KeyOf[u]
      /\ attempt[u] \in 0..MAX_RETRIES /\ c = <<u, attempt[u]>>
  BY CurrentIsRequest, UploadConstants DEF UploadConstants, Current, TypeOK
<1>1. /\ pc[c] = "new" /\ pc' = [pc EXCEPT ![c] = "lookup"] /\ attempt' = attempt
      /\ client' = [client EXCEPT ![u] = "waiting"]
      /\ UNCHANGED <<rows, keys, answer>>
  BY <1>0 DEF Send, Server!Arrive, Server!Goto, Server!UnchangedTables
<1>2. AttemptsInOrder'
  <2>1. ASSUME NEW v \in Uploads, NEW n \in 0..MAX_RETRIES,
               n > attempt'[v] \/ (n = attempt'[v] /\ client'[v] = "ready")
        PROVE  pc'[<<v, n>>] = "new"
    <3>1. <<v, n>> # c
      BY <1>0, <1>1, <2>1 DEF TypeOK
    <3>2. pc[<<v, n>>] = "new"
      BY <1>1, <2>1 DEF GInv, AttemptsInOrder, TypeOK
    <3> QED BY <1>1, <3>1, <3>2 DEF Requests, SP!TypeOK
  <2>2. \A r \in Requests : answer'[r] # 0 => pc'[r] = "answered"
    BY <1>0, <1>1 DEF GInv, AttemptsInOrder, SP!TypeOK
  <2> QED BY <2>1, <2>2 DEF AttemptsInOrder
<1>3. ASSUME NEW v \in Uploads, v \notin unguarded' PROVE InForce(v)'
  <2>1. InForce(v)
    BY <1>3 DEF GInv, Track
  <2>2. \A r \in Requests : r[1] = v /\ pc'[r] \in Server!Handling => r = Current(v)'
    BY <1>0, <1>1, <2>1 DEF InForce, Current, SP!TypeOK
  <2>3. \A r \in Requests : pc'[r] # pc[r] => pc[r] # "mark" /\ pc'[r] \notin Saving
    BY <1>0, <1>1 DEF Saving, SP!TypeOK
  <2>4. rows \subseteq Requests
    BY DEF SP!TypeOK
  <2> QED BY <1>1, <2>1, <2>2, <2>3, <2>4 DEF InForce
<1> QED BY <1>2, <1>3 DEF GInv

LEMMA GuardServer ==
    ASSUME SP!TypeOK, TypeOK, GInv, Track, UNCHANGED clientVars,
           NEW s \in Requests, Server!Step(s)
    PROVE  GInv'
<1> USE DEF Server!Handling, Server!TxStates, Server!Waiting
<1>0. /\ Effect(s) /\ \A q \in Requests \ {s} : pc'[q] = pc[q] /\ answer'[q] = answer[q]
      /\ pc[s] \in Server!Handling /\ attempt' = attempt /\ client' = client
      /\ \A q \in Requests : q[1] \in Uploads
      /\ rows \subseteq Requests
  BY StepEffect DEF Effect, Saving, clientVars, SP!TypeOK, Requests
<1>1. AttemptsInOrder'
  <2>1. answer[s] = 0
    BY <1>0 DEF GInv, AttemptsInOrder
  <2>2. answer'[s] # 0 => pc'[s] = "answered"
    BY <1>0, <2>1 DEF Effect
  <2>3. \A u \in Uploads : \A n \in 0..MAX_RETRIES : <<u, n>> \in Requests
    BY DEF Requests
  <2> QED BY <1>0, <2>2, <2>3 DEF GInv, AttemptsInOrder
<1>2. ASSUME NEW u \in Uploads, u \notin unguarded' PROVE InForce(u)'
  <2>1. InForce(u) /\ \A r \in Requests : r[1] = u => ~Unguards(r)
    BY <1>2 DEF GInv, Track
  <2>2. CASE s[1] # u
    <3>1. \A r \in rows' : r[1] = u => r \in rows
      BY <1>0, <2>2 DEF Effect
    <3>2. keys \subseteq keys' /\ Current(u)' = Current(u)
      BY <1>0 DEF Effect, Current
    <3>3. \A r \in Requests : r[1] = u => pc'[r] = pc[r]
      BY <1>0, <2>2
    <3>4. \A q \in rows' : q[1] = u => q \in Requests
      BY <1>0, <3>1
    <3> QED BY <2>1, <3>1, <3>2, <3>3, <3>4 DEF InForce
  <2>3. CASE s[1] = u
    <3>1. /\ s = Current(u) /\ Current(u)' = Current(u) /\ keys \subseteq keys'
          /\ \A r \in Requests \ {s} : r[1] = u => pc[r] \notin Server!Handling
      BY <1>0, <2>1, <2>3 DEF InForce, Effect, Current
    <3>2. \A r \in Requests : r[1] = u /\ pc'[r] \in Server!Handling => r = Current(u)'
      BY <1>0, <3>1
    <3>3. \A r \in rows : r[1] = u => (r = s /\ pc[s] = "mark") \/ KeyOf[u] \in keys
      BY <1>0, <2>1, <3>1 DEF InForce
    <3>4. pc'[s] \in Saving \/ rows' # rows => \A q \in rows : q[1] # u
      <4>1. CASE pc[s] \in Saving
        BY <2>1, <2>3, <4>1 DEF InForce
      <4>2. CASE pc[s] = "lookup" /\ pc'[s] = "body"
        <5>1. KeyOf[u] \notin keys
          BY <1>0, <2>1, <2>3, <4>2 DEF Effect, Saving, Unguards
        <5> QED BY <3>3, <4>2, <5>1
      <4> QED BY <1>0, <4>1, <4>2 DEF Effect, Saving
    <3>5. \A r \in rows' : r[1] = u => pc'[r] = "mark" \/ KeyOf[u] \in keys'
      <4>1. s \in rows' /\ answer'[s] = 500 => KeyOf[u] \in keys'
        BY <1>0, <2>1, <2>3 DEF Unguards
      <4>2. s \in rows' => pc'[s] = "mark" \/ KeyOf[u] \in keys'
        BY <1>0, <2>3, <3>1, <3>3, <3>4, <4>1 DEF Effect, Saving
      <4>3. \A r \in rows' \ {s} : r \in rows
        BY <1>0 DEF Effect
      <4> QED BY <3>1, <3>3, <4>2, <4>3
    <3>6. \A r \in Requests, q \in rows' : r[1] = u /\ pc'[r] \in Saving => q[1] # u
      <4>1. \A r \in Requests \ {s} : r[1] = u => pc'[r] \notin Saving
        BY <1>0, <3>1 DEF Saving
      <4>2. pc'[s] \in Saving => rows' = rows
        BY <1>0 DEF Effect, Saving
      <4> QED BY <3>4, <4>1, <4>2
    <3>7. \A r, q \in rows' : r[1] = u /\ q[1] = u => r = q
      <4>1. rows' = rows \/ rows' = rows \union {s}
        BY <1>0 DEF Effect
      <4> QED BY <2>1, <3>4, <4>1 DEF InForce
    <3> QED BY <3>2, <3>5, <3>6, <3>7 DEF InForce
  <2> QED BY <2>2, <2>3
<1> QED BY <1>1, <1>2 DEF GInv

LEMMA GuardCrash ==
    ASSUME SP!TypeOK, TypeOK, GInv, Track, UNCHANGED clientVars, Server!Crash
    PROVE  GInv'
<1> USE DEF Server!Handling, Server!TxStates, Server!Waiting
<1>0. /\ \A r \in Requests : pc'[r] = IF pc[r] \in Server!Handling THEN "lost" ELSE pc[r]
      /\ UNCHANGED <<rows, keys, answer>> /\ attempt' = attempt /\ client' = client
      /\ rows \subseteq Requests
      /\ \A u \in Uploads : \A n \in 0..MAX_RETRIES : <<u, n>> \in Requests
  BY DEF Server!Crash, Server!UnchangedTables, clientVars, SP!TypeOK, Requests
<1>1. AttemptsInOrder'
  BY <1>0 DEF GInv, AttemptsInOrder
<1>2. ASSUME NEW u \in Uploads, u \notin unguarded' PROVE InForce(u)'
  <2>1. InForce(u) /\ \A r \in Requests : r[1] = u => ~Unguards(r)
    BY <1>2 DEF GInv, Track
  <2>2. \A r \in Requests : pc'[r] \notin Server!Handling
    BY <1>0
  <2>3. \A r \in rows' : r[1] = u => KeyOf[u] \in keys'
    BY <1>0, <2>1 DEF InForce, Unguards
  <2>4. \A r, q \in rows' : r[1] = u /\ q[1] = u => r = q
    BY <1>0, <2>1 DEF InForce
  <2> QED BY <2>2, <2>3, <2>4 DEF InForce, Saving
<1> QED BY <1>1, <1>2 DEF GInv

LEMMA GuardStep ==
    ASSUME SP!TypeOK, TypeOK, GInv, [Next]_vars PROVE GInv'
<1>1. CASE ServerStep
  BY <1>1, GuardServer, GuardCrash DEF ServerStep
<1>2. ASSUME NEW u \in Uploads, ClientStep(u) \/ (Forgotten(u) /\ Track), ~Send(u)
      PROVE  GInv'
  <2>1. /\ UNCHANGED serverVars /\ Track
        /\ client' = [client EXCEPT ![u] = client'[u]]
        /\ attempt' = [attempt EXCEPT ![u] = attempt'[u]]
        /\ \/ attempt'[u] = attempt[u] /\ client'[u] # "ready"
           \/ attempt'[u] = attempt[u] + 1 /\ client[u] = "ready"
           \/ attempt'[u] = attempt[u] + 1 /\ client[u] = "waiting" /\ client'[u] # "waiting"
    BY <1>2 DEF ClientStep, ReadOk, ReadRefusal, ReadServerError, CannotConnect,
       ResponseLost, TimesOut, NetworkError, Forgotten, Again, ReturnNormally, TypeOK
  <2>2. \A v \in Uploads \ {u} : client'[v] = client[v] /\ attempt'[v] = attempt[v]
    BY <2>1 DEF TypeOK
  <2> QED BY <2>1, <2>2, GuardClient
<1>3. ASSUME NEW u \in Uploads, Send(u), Track PROVE GInv'
  BY <1>3, GuardSend
<1>4. CASE UNCHANGED vars
  <2>1. /\ pc' = pc /\ answer' = answer /\ rows' = rows /\ keys' = keys
        /\ client' = client /\ attempt' = attempt /\ unguarded' = unguarded
    BY <1>4 DEF vars, serverVars, clientVars
  <2> QED BY <2>1 DEF GInv, AttemptsInOrder, InForce, Current
<1> QED BY <1>1, <1>2, <1>3, <1>4 DEF Next, ClientStep, Forgotten

\* A report is stored twice only if its client gave up an attempt the service
\* still worked on, a lookup of its key failed, or a handler failed or died
\* between the row and the key, for any uploads, retries and failures.
THEOREM TwiceIsExcused == Spec => []StoredTwiceIsExcused
<1>1. Init => UInv /\ GInv
  BY InitInv, GuardInit
<1>2. (UInv /\ GInv) /\ [Next]_vars => (UInv /\ GInv)'
  BY StepInv, GuardStep DEF UInv, SP!IInv
<1>3. UInv /\ GInv => StoredTwiceIsExcused
  <2>1. ASSUME UInv PROVE \A r \in rows : r[1] \in Uploads
    BY <2>1 DEF UInv, SP!IInv, SP!TypeOK, Requests
  <2> QED BY <2>1 DEF GInv, InForce, StoredTwiceIsExcused
<1> QED BY <1>1, <1>2, <1>3, PTL DEF Spec
=============================================================================
