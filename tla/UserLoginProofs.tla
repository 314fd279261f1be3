-------------------------- MODULE UserLoginProofs --------------------------
(***************************************************************************)
(* Proofs about UserLogin: what the shared log loses, which login the hook *)
(* files a commit under, and when a host reports its user too early.       *)
(***************************************************************************)
EXTENDS UserLogin, TLAPS

\* Among any entries one is the newest and one the oldest.
HasNewest == \A S \in SUBSET Logged : S # {} => \E m \in S : \A n \in S : n <= m
HasOldest == \A S \in SUBSET Logged : S # {} => \E m \in S : \A n \in S : m <= n

\* The last login line of a host is one.
LastIsLogin == \A w \in Windows : last[w] # 0 => kind[last[w]] = "sync"

TInv == TypeOK /\ HasNewest /\ HasOldest

USE DEF Writers, Ids, Logged, Ages, HostSteps, HookSteps, Kinds

----------------------------------------------------------------------------
LEMMA NewestIsLogin ==
  ASSUME TInv, NEW S \in SUBSET Logged, Logins(S) # {}
  PROVE  /\ Newest(S) \in Logins(S) /\ Newest(S) \in 1 .. lines
         /\ \A n \in Logins(S) : n <= Newest(S)
<1>0. lines \in Nat
  BY BoundsAssumption DEF TInv, TypeOK
<1>1. Logins(S) \in SUBSET Logged /\ lines \in Nat
  BY <1>0 DEF Logins
<1>2. PICK m \in Logins(S) : \A n \in Logins(S) : n <= m
  BY <1>1 DEF TInv, HasNewest
<1>3. \A n \in Logins(S) : m >= n
  BY <1>1, <1>2
<1>4. Max(Logins(S)) \in Logins(S) /\ \A n \in Logins(S) : Max(Logins(S)) >= n
  BY <1>3 DEF Max
<1> QED BY <1>1, <1>4 DEF Newest

LEMMA NewestTyped ==
  ASSUME TInv, NEW S \in SUBSET Logged
  PROVE  Newest(S) \in 0 .. lines
<1>1. CASE Logins(S) = {}
  BY <1>1 DEF Newest, TInv, TypeOK
<1>2. CASE Logins(S) # {}
  BY <1>2, NewestIsLogin DEF TInv, TypeOK
<1> QED BY <1>1, <1>2

LEMMA Facts ==
  ASSUME TInv
  PROVE  /\ TypeOK /\ HasNewest /\ HasOldest
         /\ MaxLines \in Nat /\ MaxLapses \in Nat /\ MaxFaults \in Nat
         /\ lines \in Nat /\ lines <= MaxLines /\ 0 \in 0 .. lines /\ 0 \in 0 .. MaxLines
         /\ Logged \subseteq Ids /\ 0 .. lines \subseteq 0 .. MaxLines
         /\ log \in SUBSET Logged /\ Logged \in SUBSET Logged
<1>1. TypeOK /\ HasNewest /\ HasOldest
  BY DEF TInv
<1>2. MaxLines \in Nat /\ MaxLapses \in Nat /\ MaxFaults \in Nat
  BY BoundsAssumption
<1>3. lines \in 0 .. MaxLines /\ log \in SUBSET Logged
  BY <1>1 DEF TypeOK
<1> QED BY <1>1, <1>2, <1>3

\* What the look-up shows with a login is of the log, and so is what it takes.
LEMMA ShownTyped ==
  ASSUME TInv, NEW n \in Logins(log), n \in Ids
  PROVE  /\ Shown(n) # {} /\ Min(Shown(n)) \in Shown(n)
         /\ User(Min(Shown(n))) \in 0 .. lines
<1>1. lines \in Nat /\ log \subseteq Logged /\ \A m \in Logged : User(m) \in 0 .. lines
  <2>1. ASSUME NEW m \in Logged PROVE User(m) \in 0 .. lines
    <3>1. m \in Ids /\ m \in 0 .. lines
      BY <2>1, Facts
    <3>2. user[m] \in 0 .. lines
      BY <3>1, Facts DEF TypeOK
    <3> QED BY <3>1, <3>2 DEF User
  <2> QED BY <2>1, Facts
<1>2. n \in log /\ User(n) # 0
  BY <1>1 DEF Logins, User
<1>3. n \in OnLine(start[n])
  BY <1>2 DEF OnLine
<1>4. Shown(n) # {} /\ Shown(n) \in SUBSET Logged
  BY <1>1, <1>3 DEF Shown, OnLine
<1>5. PICK m \in Shown(n) : \A k \in Shown(n) : m <= k
  BY <1>4 DEF TInv, HasOldest
<1>6. Min(Shown(n)) \in Shown(n)
  BY <1>5 DEF Min
<1> QED BY <1>1, <1>4, <1>6

LEMMA InitTyped == Init => TInv
<1> SUFFICES ASSUME Init PROVE TInv
  OBVIOUS
<1>1. MaxLines \in Nat /\ MaxLapses \in Nat /\ MaxFaults \in Nat
  BY BoundsAssumption
<1>2. TypeOK
  <2>1. pc \in [Writers -> HostSteps \cup HookSteps] /\ pc[Hook] \in HookSteps
        /\ \A w \in Windows : pc[w] \in HostSteps
    BY NamesAssumption DEF Init
  <2>2. /\ lines \in 0 .. MaxLines /\ lapses \in 0 .. MaxLapses /\ faults \in 0 .. MaxFaults
        /\ found \in 0 .. lines /\ due \in 0 .. lines /\ last \in [Windows -> 0 .. lines]
        /\ open \in 0 .. MaxLines
    BY <1>1 DEF Init
  <2>3. /\ copy \in [Writers -> SUBSET Logged] /\ log \subseteq Logged /\ lost \subseteq Logged
        /\ kind \in [Ids -> Kinds] /\ age \in [Ids -> Ages]
        /\ start \in [Ids -> Ids] /\ user \in [Ids -> 0 .. lines]
    BY DEF Init
  <2>4. /\ writing \in BOOLEAN /\ torn \subseteq Windows /\ ready \subseteq Windows
        /\ first \in [Windows -> BOOLEAN]
    BY DEF Init
  <2> QED BY <2>1, <2>2, <2>3, <2>4 DEF TypeOK
<1>3. HasNewest /\ HasOldest
  <2>1. lines = 0
    BY DEF Init
  <2>2. Logged = {}
    BY <2>1
  <2> QED BY <2>2 DEF HasNewest, HasOldest
<1> QED BY <1>2, <1>3 DEF TInv

\* An appended entry is the newest of any set that it is in.
LEMMA AppendTyped ==
  ASSUME TInv, NEW k \in {"sync", "stats", "head", "body"}, Append(k)
  PROVE  /\ lines' = lines + 1 /\ lines' \in 0 .. MaxLines /\ lines + 1 \in Ids
         /\ log' \subseteq Logged' /\ kind' \in [Ids -> Kinds]
         /\ age' \in [Ids -> Ages] /\ HasNewest' /\ HasOldest'
         /\ start' \in [Ids -> Ids] /\ user' \in [Ids -> 0 .. lines'] /\ open' \in 0 .. MaxLines
         /\ Logged \subseteq Logged' /\ 0 .. lines \subseteq 0 .. lines'
         /\ \A n \in Logged : start'[n] = start[n] /\ kind'[n] = kind[n]
<1>0. TypeOK /\ MaxLines \in Nat
  BY BoundsAssumption DEF TInv
<1>1. lines \in Nat /\ lines' = lines + 1 /\ lines' \in 0 .. MaxLines /\ lines + 1 \in Ids
  BY <1>0 DEF TypeOK, Append
<1>2. Logged \subseteq Logged' /\ 0 .. lines \subseteq 0 .. lines' /\ lines + 1 \in Logged'
  BY <1>1
<1>3. log' \subseteq Logged' /\ kind' \in [Ids -> Kinds]
  BY <1>0, <1>1, <1>2 DEF TypeOK, Append
<1>4. age' \in [Ids -> Ages]
  BY <1>0 DEF TypeOK, Append
<1>5. start' \in [Ids -> Ids] /\ start'[lines + 1] \in {open, start[lines + 1]}
  <2>1. CASE open = 0
    BY <1>0, <2>1 DEF TypeOK, Append
  <2>2. CASE open # 0
    <3>1. open \in Ids
      BY <1>0, <1>1, <2>2 DEF TypeOK
    <3> QED BY <1>0, <1>1, <2>2, <3>1 DEF TypeOK, Append
  <2> QED BY <2>1, <2>2
<1>6. user' \in [Ids -> 0 .. lines']
  <2>1. found \in 0 .. lines' /\ user \in [Ids -> 0 .. lines']
    BY <1>0, <1>2 DEF TypeOK
  <2> QED BY <2>1 DEF Append
<1>7. open' \in 0 .. MaxLines
  <2>1. 0 \in 0 .. MaxLines /\ start'[lines + 1] \in 0 .. MaxLines
    BY <1>0, <1>1, <1>5
  <2>2. open' = 0 \/ open' = start'[lines + 1]
    BY DEF Append
  <2> QED BY <2>1, <2>2
<1>8. HasNewest' /\ HasOldest'
  <2> SUFFICES ASSUME NEW S \in SUBSET Logged', S # {}
               PROVE  (\E m \in S : \A n \in S : n <= m) /\ (\E m \in S : \A n \in S : m <= n)
    BY DEF HasNewest, HasOldest
  <2> DEFINE R == S \ {lines + 1}
  <2>1. R \in SUBSET Logged
    BY <1>1
  <2>2. CASE R = {}
    <3>1. S = {lines + 1}
      BY <2>2
    <3>2. lines + 1 <= lines + 1
      BY <1>1
    <3> QED BY <3>1, <3>2, Zenon
  <2>3. CASE R # {}
    <3>1. PICK m \in R : \A n \in R : m <= n
      BY <2>1, <2>3 DEF TInv, HasOldest
    <3>2. PICK x \in R : \A n \in R : n <= x
      BY <2>1, <2>3 DEF TInv, HasNewest
    <3>3. m \in 1 .. lines /\ x \in 1 .. lines
      BY <2>1
    <3>4. \A n \in S : m <= n
      BY <1>1, <3>1, <3>3
    <3>5. CASE lines + 1 \in S
      BY <1>1, <3>4, <3>5
    <3>6. CASE lines + 1 \notin S
      BY <3>2, <3>4, <3>6
    <3> QED BY <3>5, <3>6
  <2> QED BY <2>2, <2>3
<1>9. \A n \in Logged : start'[n] = start[n] /\ kind'[n] = kind[n]
  <2>1. Logged \subseteq Ids /\ lines + 1 \notin Logged
    BY <1>1, Facts
  <2> QED BY <1>0, <2>1 DEF TypeOK, Append
<1> QED BY <1>1, <1>2, <1>3, <1>4, <1>5, <1>6, <1>7, <1>8, <1>9

LEMMA NextTyped == TInv /\ [Next]_vars => TInv'
<1> SUFFICES ASSUME TInv, [Next]_vars PROVE TInv'
  OBVIOUS
<1>0. /\ TypeOK /\ HasNewest /\ HasOldest /\ lines \in Nat
      /\ log \in SUBSET Logged /\ Logged \in SUBSET Logged
      /\ MaxLapses \in Nat /\ MaxFaults \in Nat /\ 0 \in 0 .. MaxLines
  BY Facts
<1>a. ASSUME lines' = lines, TypeOK' PROVE TInv'
  BY <1>a, <1>0 DEF TInv, HasNewest, HasOldest
<1> USE DEF qclient, file, text, Goto
<1>1. CASE BeginCommand \/ EndCommand
  <2>1. TypeOK'
    BY <1>1, <1>0 DEF BeginCommand, EndCommand, TypeOK
  <2> QED BY <1>1, <2>1, <1>a DEF BeginCommand, EndCommand
<1>2. CASE Lapse
  <2>1. age' \in [Ids -> Ages] /\ lapses' \in 0 .. MaxLapses
    BY <1>2, <1>0 DEF Lapse, TypeOK
  <2>2. TypeOK'
    BY <1>2, <1>0, <2>1 DEF Lapse, TypeOK
  <2> QED BY <1>2, <2>2, <1>a DEF Lapse
<1>3. ASSUME NEW w \in Windows, Poll(w) PROVE TInv'
  <2>1. pc' \in [Writers -> HostSteps \cup HookSteps] /\ pc'[Hook] \in HookSteps
        /\ \A v \in Windows : pc'[v] \in HostSteps
    <3>1. pc' = pc \/ pc' = [pc EXCEPT ![w] = "append"]
      BY <1>3 DEF Poll
    <3> QED BY <1>0, <3>1, NamesAssumption DEF TypeOK
  <2>2. TypeOK'
    BY <1>3, <1>0, <2>1 DEF Poll, TypeOK
  <2> QED BY <1>3, <2>2, <1>a DEF Poll
<1>4. ASSUME NEW w \in Windows, AppendLogin(w) PROVE TInv'
  <2>1. Append("sync")
    BY <1>4 DEF AppendLogin
  <2>2. pc' \in [Writers -> HostSteps \cup HookSteps] /\ pc'[Hook] \in HookSteps
        /\ \A v \in Windows : pc'[v] \in HostSteps
    BY <1>4, <1>0, NamesAssumption DEF AppendLogin, TypeOK
  <2>3. last' \in [Windows -> 0 .. lines'] /\ found' \in 0 .. lines' /\ due' \in 0 .. lines'
        /\ copy' \in [Writers -> SUBSET Logged'] /\ lost' \subseteq Logged'
    BY <1>4, <1>0, <2>1, AppendTyped DEF AppendLogin, TypeOK
  <2>4. TypeOK'
    BY <1>4, <1>0, <2>1, <2>2, <2>3, AppendTyped DEF AppendLogin, TypeOK
  <2> QED BY <2>1, <2>4, AppendTyped DEF TInv
<1>5. ASSUME NEW w \in Windows, ReadLog(w) \/ Truncate(w) \/ Fill(w) \/ Post(w) PROVE TInv'
  <2>1. pc' \in [Writers -> HostSteps \cup HookSteps] /\ pc'[Hook] \in HookSteps
        /\ \A v \in Windows : pc'[v] \in HostSteps
    BY <1>5, <1>0, NamesAssumption DEF ReadLog, Truncate, Fill, Post, TypeOK
  <2>2. /\ copy' \in [Writers -> SUBSET Logged'] /\ lost' \subseteq Logged'
        /\ log' \subseteq Logged' /\ open' \in 0 .. MaxLines
    <3>1. /\ copy \in [Writers -> SUBSET Logged] /\ w \in Writers /\ lost \subseteq Logged
          /\ open \in 0 .. MaxLines /\ Kept(copy[w]) \subseteq copy[w]
      BY <1>0 DEF Kept, TypeOK
    <3>2. /\ lines' = lines
          /\ copy' = copy \/ copy' = [copy EXCEPT ![w] = log] \/ copy' = [copy EXCEPT ![w] = {}]
          /\ lost' = lost \/ lost' = lost \cup (log \ copy[w])
          /\ log' \in {log, {}, Kept(copy[w])} /\ open' \in {open, 0}
      BY <1>5 DEF ReadLog, Truncate, Fill, Post
    <3>3. copy' \in [Writers -> SUBSET Logged]
      BY <1>0, <3>1, <3>2
    <3>4. lost' \subseteq Logged /\ log' \subseteq Logged /\ open' \in 0 .. MaxLines
      <4>1. copy[w] \subseteq Logged
        BY <3>1
      <4> QED BY <1>0, <3>1, <3>2, <4>1
    <3> QED BY <3>2, <3>3, <3>4
  <2>3. TypeOK'
    BY <1>5, <1>0, <2>1, <2>2 DEF ReadLog, Truncate, Fill, Post, TypeOK
  <2> QED BY <1>5, <2>3, <1>a DEF ReadLog, Truncate, Fill, Post
<1>6. ASSUME NEW w \in Windows, LogUpload(w) PROVE TInv'
  <2>1. Append("stats")
    BY <1>6 DEF LogUpload
  <2>2. last' \in [Windows -> 0 .. lines'] /\ found' \in 0 .. lines' /\ due' \in 0 .. lines'
        /\ copy' \in [Writers -> SUBSET Logged'] /\ lost' \subseteq Logged'
    BY <1>6, <1>0, <2>1, AppendTyped DEF LogUpload, TypeOK
  <2>3. TypeOK'
    BY <1>6, <1>0, <2>1, <2>2, AppendTyped DEF LogUpload, TypeOK
  <2> QED BY <2>1, <2>3, AppendTyped DEF TInv
<1>7. CASE StartHook \/ CopyLog \/ EndHook
  <2>1. pc' \in [Writers -> HostSteps \cup HookSteps] /\ pc'[Hook] \in HookSteps
        /\ \A v \in Windows : pc'[v] \in HostSteps
    BY <1>7, <1>0, NamesAssumption DEF StartHook, CopyLog, EndHook, TypeOK
  <2>2. copy' \in [Writers -> SUBSET Logged'] /\ found' \in 0 .. lines' /\ due' \in 0 .. lines'
    <3>1. 0 \in 0 .. lines /\ lines' = lines
      BY <1>7, <1>0 DEF StartHook, CopyLog, EndHook
    <3>2. copy' \in [Writers -> SUBSET Logged]
      BY <1>7, <1>0 DEF StartHook, CopyLog, EndHook, TypeOK
    <3>3. (found' = found \/ found' = 0) /\ (due' = due \/ due' = 0)
      BY <1>7 DEF StartHook, CopyLog, EndHook
    <3> QED BY <1>0, <3>1, <3>2, <3>3 DEF TypeOK
  <2>3. TypeOK'
    BY <1>7, <1>0, <2>1, <2>2 DEF StartHook, CopyLog, EndHook, TypeOK
  <2> QED BY <1>7, <2>3, <1>a DEF StartHook, CopyLog, EndHook
<1>8. CASE LookUp
  <2>1. pc' \in [Writers -> HostSteps \cup HookSteps] /\ pc'[Hook] \in HookSteps
        /\ \A v \in Windows : pc'[v] \in HostSteps
    BY <1>8, <1>0, NamesAssumption DEF LookUp, TypeOK
  <2>2. Newest(Logged) \in 0 .. lines /\ 0 \in 0 .. lines
    BY <1>0, NewestTyped
  <2>3. Due \in 0 .. lines
    BY <2>2 DEF Due
  <2>5. found' \in 0 .. lines
    <3>1. CASE Logins(log) = {}
      BY <1>8, <2>2, <3>1 DEF LookUp
    <3>2. CASE Logins(log) # {}
      <4>1. Newest(log) \in Logins(log) /\ Newest(log) \in Ids
        BY <1>0, <3>2, NewestIsLogin, Facts
      <4> QED BY <1>8, <3>2, <4>1, ShownTyped DEF LookUp
    <3> QED BY <3>1, <3>2
  <2>4. TypeOK'
    BY <1>8, <1>0, <2>1, <2>3, <2>5 DEF LookUp, TypeOK
  <2> QED BY <1>8, <2>4, <1>a DEF LookUp
<1>9. CASE AppendReport
  <2>1. pc' \in [Writers -> HostSteps \cup HookSteps] /\ pc'[Hook] \in HookSteps
        /\ \A v \in Windows : pc'[v] \in HostSteps
    BY <1>9, <1>0, NamesAssumption DEF AppendReport, TypeOK
  <2>2. ASSUME NEW k \in {"head", "body"}, Append(k) PROVE TInv'
    <3>1. last' \in [Windows -> 0 .. lines'] /\ found' \in 0 .. lines' /\ due' \in 0 .. lines'
          /\ copy' \in [Writers -> SUBSET Logged'] /\ lost' \subseteq Logged'
      BY <1>9, <1>0, <2>2, AppendTyped DEF AppendReport, TypeOK
    <3>2. TypeOK'
      BY <1>9, <1>0, <2>1, <2>2, <3>1, AppendTyped DEF AppendReport, TypeOK
    <3> QED BY <2>2, <3>2, AppendTyped DEF TInv
  <2>3. CASE open' = 0 /\ UNCHANGED <<log, text>>
    <3>1. TypeOK'
      BY <1>9, <1>0, <2>1, <2>3 DEF AppendReport, TypeOK
    <3> QED BY <2>3, <3>1, <1>a
  <2> QED BY <1>9, <2>2, <2>3 DEF AppendReport
<1>10. CASE Move
  <2>1. pc' \in [Writers -> HostSteps \cup HookSteps] /\ pc'[Hook] \in HookSteps
        /\ \A v \in Windows : pc'[v] \in HostSteps
    BY <1>10, <1>0, NamesAssumption DEF Move, TypeOK
  <2>2. copy' \in [Writers -> SUBSET Logged'] /\ log' \subseteq Logged' /\ open' \in 0 .. MaxLines
    BY <1>10, <1>0 DEF Move, Kept, TypeOK
  <2>3. lost' \subseteq Logged'
    <3>1. UNION {copy[w] : w \in {v \in Windows : pc[v] = "fill"}} \subseteq Logged
      BY <1>0 DEF TypeOK
    <3> QED BY <1>10, <1>0, <3>1 DEF Move, TypeOK
  <2>4. TypeOK'
    BY <1>10, <1>0, <2>1, <2>2, <2>3 DEF Move, TypeOK
  <2> QED BY <1>10, <2>4, <1>a DEF Move
<1>11. ASSUME NEW w \in Windows, Restart(w) PROVE TInv'
  <2>1. pc' \in [Writers -> HostSteps \cup HookSteps] /\ pc'[Hook] \in HookSteps
        /\ \A v \in Windows : pc'[v] \in HostSteps
    BY <1>11, <1>0, NamesAssumption DEF Restart, TypeOK
  <2>2. copy' \in [Writers -> SUBSET Logged'] /\ faults' \in 0 .. MaxFaults
    BY <1>11, <1>0 DEF Restart, TypeOK
  <2>4. copy[w] \subseteq Logged /\ lost \subseteq Logged /\ lines' = lines
        /\ lost' = IF pc[w] = "fill" THEN lost \cup copy[w] ELSE lost
    BY <1>11, <1>0 DEF Restart, TypeOK
  <2>5. lost' \subseteq Logged'
    BY <2>4
  <2>3. TypeOK'
    BY <1>11, <1>0, <2>1, <2>2, <2>5 DEF Restart, TypeOK
  <2> QED BY <1>11, <2>3, <1>a DEF Restart
<1>12. CASE KillHook
  <2>1. pc' \in [Writers -> HostSteps \cup HookSteps] /\ pc'[Hook] \in HookSteps
        /\ \A v \in Windows : pc'[v] \in HostSteps
    BY <1>12, <1>0, NamesAssumption DEF KillHook, TypeOK
  <2>2. TypeOK'
    BY <1>12, <1>0, <2>1 DEF KillHook, TypeOK
  <2> QED BY <1>12, <2>2, <1>a DEF KillHook
<1>13. CASE UNCHANGED vars
  <2>1. TypeOK'
    BY <1>13, <1>0 DEF vars, TypeOK
  <2> QED BY <1>13, <2>1, <1>a DEF vars
<1> QED BY <1>1, <1>2, <1>3, <1>4, <1>5, <1>6, <1>7, <1>8, <1>9, <1>10, <1>11, <1>12, <1>13
        DEF Next, Host

\* For any number of windows, lines, lapses and faults every variable keeps its
\* type: the log and the copies of it only hold lines that were appended.
THEOREM TypeCorrect == Spec => []TypeOK
<1>1. Spec => []TInv
  BY InitTyped, NextTyped, PTL DEF Spec
<1> QED BY <1>1, PTL DEF TInv

----------------------------------------------------------------------------
LEMMA InitComplete == Init => LogIsComplete
BY DEF Init, LogIsComplete

\* An entry is where it should be.
Safe(n) == \/ n \in log \cup lost
           \/ \E w \in Windows : pc[w] = "fill" /\ n \in copy[w]
           \/ age[start[n]] = "old"

LEMMA NextComplete == TInv /\ LogIsComplete /\ [Next]_vars => LogIsComplete'
<1> SUFFICES ASSUME TInv, LogIsComplete, [Next]_vars, NEW n \in Logged', age'[n] # "old"
             PROVE  Safe(n)'
  BY DEF LogIsComplete, Safe
<1>0. TypeOK /\ Logged \subseteq Ids
  BY Facts
<1> USE DEF Goto
<1>a. ASSUME UNCHANGED text PROVE Safe(n)
  BY <1>a DEF LogIsComplete, Safe, text
<1>1. ASSUME UNCHANGED <<text, log, lost, pc, copy>> PROVE Safe(n)'
  BY <1>1, <1>a DEF Safe, text
<1>2. CASE BeginCommand \/ EndCommand \/ UNCHANGED vars
  BY <1>1, <1>2 DEF BeginCommand, EndCommand, vars, file, text
<1>3. CASE Lapse
  <2>1. lines' = lines /\ n \in Logged /\ n \in Ids /\ start[n] \in Ids
    BY <1>3, <1>0 DEF Lapse, TypeOK
  <2>2. /\ age[n] # "old" /\ (age[start[n]] = "old" => age'[start[n]] = "old")
        /\ UNCHANGED <<start, log, lost, pc, copy>>
    <3>1. CASE age' = [m \in Ids |-> IF m \in Logged /\ age[m] = "recent" THEN "kept" ELSE age[m]]
      BY <1>3, <2>1, <3>1 DEF Lapse
    <3>2. CASE age' = [m \in Ids |-> IF m \in Logged THEN "old" ELSE age[m]]
      BY <2>1, <3>2
    <3> QED BY <1>3, <3>1, <3>2 DEF Lapse
  <2> QED BY <2>1, <2>2 DEF LogIsComplete, Safe
<1>4. ASSUME NEW k \in {"sync", "stats", "head", "body"}, Append(k), UNCHANGED <<lost, copy>>,
             \A w \in Windows : pc[w] = "fill" => pc'[w] = "fill"
      PROVE  Safe(n)'
  <2>1. n \in Logged \/ n = lines + 1
    BY <1>4, AppendTyped, Facts
  <2>2. log' = log \cup {lines + 1} /\ age' = age
    BY <1>4 DEF Append
  <2>3. CASE n \in Logged
    <3>1. start'[n] = start[n] /\ Safe(n)
      BY <1>4, <2>2, <2>3, AppendTyped DEF LogIsComplete, Safe
    <3> QED BY <1>4, <2>2, <3>1 DEF Safe
  <2>4. CASE n = lines + 1
    BY <2>2, <2>4 DEF Safe
  <2> QED BY <2>1, <2>3, <2>4
<1>5. ASSUME NEW w \in Windows, Poll(w) \/ ReadLog(w) \/ Post(w) PROVE Safe(n)'
  <2>1. /\ UNCHANGED <<text, log, lost>>
        /\ pc' = pc \/ (pc[w] # "fill" /\ \E s \in HostSteps : pc' = [pc EXCEPT ![w] = s])
        /\ copy' = copy \/ (pc[w] # "fill" /\ copy' = [copy EXCEPT ![w] = log])
    BY <1>5 DEF Poll, ReadLog, Post, file
  <2>2. \A v \in Windows : pc[v] = "fill" => pc'[v] = "fill" /\ copy'[v] = copy[v]
    BY <1>0, <2>1 DEF TypeOK
  <2> QED BY <2>1, <2>2, <1>a DEF Safe, text
<1>6. ASSUME NEW w \in Windows, AppendLogin(w) \/ LogUpload(w) PROVE Safe(n)'
  <2>1. /\ UNCHANGED <<lost, copy>> /\ \E k \in {"sync", "stats"} : Append(k)
        /\ pc' = pc \/ (pc[w] = "append" /\ pc' = [pc EXCEPT ![w] = "read"])
    BY <1>6 DEF AppendLogin, LogUpload
  <2>2. \A v \in Windows : pc[v] = "fill" => pc'[v] = "fill"
    BY <1>0, <2>1 DEF TypeOK
  <2> QED BY <1>4, <2>1, <2>2
<1>7. ASSUME NEW w \in Windows, Truncate(w) PROVE Safe(n)'
  <2>1. /\ UNCHANGED <<text, copy>> /\ lost' = lost \cup (log \ copy[w])
        /\ pc' = [pc EXCEPT ![w] = "fill"]
    BY <1>7 DEF Truncate
  <2>2. pc'[w] = "fill" /\ \A v \in Windows : pc[v] = "fill" => pc'[v] = "fill"
    BY <1>0, <2>1 DEF TypeOK
  <2> QED BY <2>1, <2>2, <1>a DEF Safe, text
<1>b. ASSUME NEW S, n \in S, UNCHANGED text
      PROVE  n \in Kept(S) \/ (age[start[n]] = "old")'
  BY <1>b DEF Kept, text
<1>8. ASSUME NEW w \in Windows, Fill(w) PROVE Safe(n)'
  <2>1. /\ UNCHANGED text /\ lost' = lost \cup (log \ copy[w]) /\ log' = Kept(copy[w])
        /\ pc' = [pc EXCEPT ![w] = "post"] /\ copy' = [copy EXCEPT ![w] = {}]
    BY <1>8 DEF Fill
  <2>2. \A v \in Windows \ {w} : pc'[v] = pc[v] /\ copy'[v] = copy[v]
    BY <1>0, <2>1 DEF TypeOK
  <2> QED BY <2>1, <2>2, <1>a, <1>b DEF Safe, text
<1>9. CASE StartHook \/ LookUp \/ CopyLog \/ EndHook \/ KillHook
  <2>1. /\ UNCHANGED <<text, log, lost>>
        /\ \E s \in HookSteps : pc' = [pc EXCEPT ![Hook] = s]
        /\ copy' = copy \/ \E S \in {log, {}} : copy' = [copy EXCEPT ![Hook] = S]
    BY <1>9 DEF StartHook, LookUp, CopyLog, EndHook, KillHook, file
  <2>2. \A v \in Windows : pc'[v] = pc[v] /\ copy'[v] = copy[v]
    BY <1>0, <2>1, NamesAssumption DEF TypeOK
  <2> QED BY <2>1, <2>2, <1>a DEF Safe, text
<1>10. CASE AppendReport
  <2>1. /\ UNCHANGED <<lost, copy>> /\ \E s \in HookSteps : pc' = [pc EXCEPT ![Hook] = s]
        /\ UNCHANGED <<log, text>> \/ \E k \in {"head", "body"} : Append(k)
    BY <1>10 DEF AppendReport
  <2>2. \A v \in Windows : pc'[v] = pc[v]
    BY <1>0, <2>1, NamesAssumption DEF TypeOK
  <2>3. CASE UNCHANGED <<log, text>>
    BY <2>1, <2>2, <2>3, <1>a DEF Safe, text
  <2> QED BY <1>4, <2>1, <2>2, <2>3
<1>11. CASE Move
  <2> DEFINE filling == {w \in Windows : pc[w] = "fill"}
  <2>1. /\ UNCHANGED text /\ log' = Kept(copy[Hook])
        /\ lost' = lost \cup ((log \cup UNION {copy[w] : w \in filling}) \ copy[Hook])
    BY <1>11 DEF Move
  <2>2. CASE n \in copy[Hook]
    BY <2>1, <2>2, <1>b DEF Safe
  <2>3. CASE n \notin copy[Hook]
    BY <2>1, <2>3, <1>a DEF Safe, text
  <2> QED BY <2>2, <2>3
<1>12. ASSUME NEW w \in Windows, Restart(w) PROVE Safe(n)'
  <2>1. /\ UNCHANGED <<text, log>>
        /\ lost' = IF pc[w] = "fill" THEN lost \cup copy[w] ELSE lost
        /\ pc' = [pc EXCEPT ![w] = "idle"] /\ copy' = [copy EXCEPT ![w] = {}]
    BY <1>12 DEF Restart, file
  <2>2. \A v \in Windows \ {w} : pc'[v] = pc[v] /\ copy'[v] = copy[v]
    BY <1>0, <2>1 DEF TypeOK
  <2> QED BY <2>1, <2>2, <1>a DEF Safe, text
<1> QED BY <1>2, <1>3, <1>5, <1>6, <1>7, <1>8, <1>9, <1>10, <1>11, <1>12 DEF Next, Host

\* No order of appends, rewrites, renames and kills loses a line of less than
\* 15 days except between the reading and the rewriting of another process or
\* on a line that a killed hook began before, for any number of windows and lines.
THEOREM OnlyRewritesLose == Spec => []LogIsComplete
<1>1. Init => TInv /\ LogIsComplete
  BY InitTyped, InitComplete
<1>2. (TInv /\ LogIsComplete) /\ [Next]_vars => (TInv /\ LogIsComplete)'
  BY NextTyped, NextComplete
<1> QED BY <1>1, <1>2, PTL DEF Spec

----------------------------------------------------------------------------
LEMMA NextFound ==
  TInv /\ LogIsComplete /\ NewestLoginIsUsed /\ [Next]_vars => NewestLoginIsUsed'
<1> SUFFICES ASSUME TInv, LogIsComplete, NewestLoginIsUsed, [Next]_vars, due' # 0
             PROVE  found' = due'
  BY DEF NewestLoginIsUsed
<1>1. CASE LookUp
  <2> DEFINE n == Newest(Logged)
  <2>1. /\ due' = n /\ n # 0 /\ n \notin lost /\ ~Emptied
        /\ age[n] # "old" /\ age[start[n]] # "old"
        /\ Shown(n) \subseteq {n}
    BY <1>1 DEF LookUp, Due
  <2>2. Logged \in SUBSET Logged /\ Logins(Logged) # {}
    BY <2>1, Facts DEF Newest
  <2>3. n \in Logins(Logged) /\ n \in Logged /\ \A m \in Logins(Logged) : m <= n
    BY <2>2, NewestIsLogin DEF Logins
  <2> HIDE DEF n
  <2>5. n \in log
    BY <2>1, <2>3 DEF LogIsComplete, Emptied
  <2>6. n \in Logins(log) /\ log \in SUBSET Logged
    BY <2>3, <2>5, Facts DEF Logins
  <2>7. Newest(log) \in Logins(log) /\ n <= Newest(log)
    BY <2>6, NewestIsLogin
  <2>8. Newest(log) \in Logins(Logged) /\ n \in Int /\ Newest(log) \in Int
    <3>1. Logins(log) \subseteq Logins(Logged)
      BY <2>6 DEF Logins
    <3>2. \A m \in Logins(Logged) : m \in Int
      BY Facts DEF Logins
    <3> QED BY <2>3, <2>7, <3>1, <3>2
  <2>9. Newest(log) = n
    BY <2>3, <2>7, <2>8
  <2>10. Min(Shown(n)) = n /\ User(n) = n
    <3>1. Min(Shown(n)) \in Shown(n)
      BY <2>3, <2>6, Facts, ShownTyped
    <3> QED BY <2>1, <2>6, <3>1 DEF User, Logins
  <2>11. found' = User(Min(Shown(n)))
    BY <1>1, <2>6, <2>9 DEF LookUp
  <2> QED BY <2>1, <2>10, <2>11
<1>2. CASE EndHook \/ KillHook
  BY <1>2 DEF EndHook, KillHook
<1>3. CASE ~(LookUp \/ EndHook \/ KillHook)
  <2>1. UNCHANGED <<found, due>>
    BY <1>3 DEF Next, Host, vars, BeginCommand, EndCommand, Lapse, Poll, AppendLogin, ReadLog,
                Truncate, Fill, Post, LogUpload, Restart, StartHook, AppendReport, CopyLog, Move
  <2> QED BY <2>1 DEF NewestLoginIsUsed
<1> QED BY <1>1, <1>2, <1>3

\* The hook files a commit under an older login than the newest one only when
\* that entry is lost, more than 15 days old or being rewritten, or shares its
\* line with the payload of an earlier hook.
THEOREM HookUsesTheNewestLogin == Spec => []NewestLoginIsUsed
<1>1. Init => TInv /\ LogIsComplete /\ NewestLoginIsUsed
  BY InitTyped, InitComplete DEF Init, NewestLoginIsUsed
<1>2. (TInv /\ LogIsComplete /\ NewestLoginIsUsed) /\ [Next]_vars
        => (TInv /\ LogIsComplete /\ NewestLoginIsUsed)'
  BY NextTyped, NextComplete, NextFound
<1> QED BY <1>1, <1>2, PTL DEF Spec

----------------------------------------------------------------------------
LEMMA NextLast == TInv /\ LastIsLogin /\ [Next]_vars => LastIsLogin'
<1> SUFFICES ASSUME TInv, LastIsLogin, [Next]_vars, NEW w \in Windows, last'[w] # 0
             PROVE  kind'[last'[w]] = "sync"
  BY DEF LastIsLogin
<1>0. TypeOK /\ lines \in Nat
  BY Facts
<1> USE DEF qclient, file, text
<1>1. ASSUME NEW k \in {"sync", "stats", "head", "body"}, Append(k), last'[w] = last[w]
      PROVE  kind'[last'[w]] = "sync"
  <2>1. kind[last[w]] = "sync" /\ last[w] \in 0 .. lines
    BY <1>0, <1>1 DEF LastIsLogin, TypeOK
  <2> QED BY <1>1, <2>1, AppendTyped
<1>2. ASSUME NEW v \in Windows, AppendLogin(v) PROVE kind'[last'[w]] = "sync"
  <2>1. CASE v = w
    <3>1. last' = [last EXCEPT ![v] = lines + 1] /\ Append("sync")
      BY <1>2 DEF AppendLogin
    <3>2. last'[w] = lines + 1 /\ lines + 1 \in Ids
      BY <1>0, <2>1, <3>1, AppendTyped DEF TypeOK
    <3> QED BY <1>0, <3>1, <3>2 DEF Append, TypeOK
  <2>2. CASE v # w
    BY <1>0, <1>1, <1>2, <2>2 DEF AppendLogin, TypeOK
  <2> QED BY <2>1, <2>2
<1>3. ASSUME NEW v \in Windows, LogUpload(v) PROVE kind'[last'[w]] = "sync"
  BY <1>1, <1>3 DEF LogUpload
<1>4. CASE AppendReport
  <2>1. CASE UNCHANGED <<last, kind>>
    BY <2>1 DEF LastIsLogin
  <2>2. last' = last /\ (kind' = kind \/ \E k \in {"head", "body"} : Append(k))
    BY <1>4 DEF AppendReport
  <2> QED BY <1>1, <2>1, <2>2
<1>5. CASE ~AppendReport /\ \A v \in Windows : ~AppendLogin(v) /\ ~LogUpload(v)
  <2>1. UNCHANGED <<last, kind>>
    BY <1>5 DEF Next, Host, vars, BeginCommand, EndCommand, Lapse, Poll, ReadLog, Truncate, Fill,
                Post, Restart, StartHook, LookUp, CopyLog, Move, EndHook, KillHook
  <2> QED BY <2>1 DEF LastIsLogin
<1> QED BY <1>2, <1>3, <1>4, <1>5

\* Within 4 hours a host reports its user again only if its login was lost or is
\* on a line a killed hook began, or the log is being rewritten, for any number
\* of windows.
THEOREM RepeatIsExcused == Spec => GapIsKept
<1>1. Init => TInv /\ LogIsComplete /\ LastIsLogin
  BY InitTyped, InitComplete DEF Init, LastIsLogin
<1>2. (TInv /\ LogIsComplete /\ LastIsLogin) /\ [Next]_vars
        => (TInv /\ LogIsComplete /\ LastIsLogin)'
  BY NextTyped, NextComplete, NextLast
<1>3. ASSUME TInv, LogIsComplete, LastIsLogin, [Next]_vars, NEW w \in Windows,
             pc[w] = "idle", pc'[w] = "append", last[w] # 0
      PROVE  \/ first[w] \/ age[last[w]] # "recent" \/ Emptied
             \/ last[w] \in lost \/ age[start[last[w]]] = "old"
  <2>0. TypeOK /\ w # Hook
    BY <1>3, NamesAssumption DEF TInv
  <2>1. CASE Poll(w)
    <3>1. MaySync(w)
      BY <1>3, <2>0, <2>1 DEF Poll, Goto, TypeOK
    <3>2. last[w] \in Logged /\ kind[last[w]] = "sync"
      <4>1. last[w] \in 0 .. lines /\ lines \in Nat
        BY <1>3, <2>0, Facts DEF TypeOK
      <4> QED BY <1>3, <4>1 DEF LastIsLogin
    <3>3. CASE last[w] \in log
      BY <3>1, <3>2, <3>3 DEF MaySync, Logins
    <3>4. CASE last[w] \notin log /\ age[last[w]] # "old"
      BY <3>2, <3>4, <1>3 DEF LogIsComplete, Emptied
    <3> QED BY <3>3, <3>4
  <2>2. CASE ~Poll(w)
    <3>1. pc'[w] # "append"
      <4>1. ASSUME NEW v \in Windows, Host(v) PROVE pc'[w] # "append"
        <5>1. CASE Poll(v)
          BY <1>3, <2>0, <2>2, <5>1 DEF Poll, Goto, TypeOK
        <5>2. CASE LogUpload(v)
          BY <1>3, <2>0, <5>2 DEF LogUpload
        <5>3. ASSUME NEW s \in {"read", "truncate", "fill", "post", "idle"}, Goto(v, s)
              PROVE  pc'[w] # "append"
          BY <1>3, <2>0, <5>3 DEF Goto, TypeOK
        <5> QED BY <4>1, <5>1, <5>2, <5>3
                DEF Host, AppendLogin, ReadLog, Truncate, Fill, Post, Restart
      <4>2. CASE ~\E v \in Windows : Host(v)
        <5>1. CASE Move
          BY <1>3, <2>0, <5>1 DEF Move, TypeOK
        <5>2. ASSUME NEW s, Goto(Hook, s) PROVE pc'[w] # "append"
          BY <1>3, <2>0, <5>2 DEF Goto, TypeOK
        <5>3. CASE pc' = pc
          BY <1>3, <5>3
        <5> QED BY <1>3, <4>2, <5>1, <5>2, <5>3 DEF Next, vars, BeginCommand, EndCommand, Lapse,
                  StartHook, LookUp, AppendReport, CopyLog, EndHook, KillHook
      <4> QED BY <4>1, <4>2
    <3> QED BY <3>1, <1>3
  <2> QED BY <2>1, <2>2
<1>4. TInv /\ LogIsComplete /\ LastIsLogin /\ [Next]_vars
        => [\A w \in Windows :
              pc[w] = "idle" /\ pc'[w] = "append" /\ last[w] # 0 =>
                \/ first[w] \/ age[last[w]] # "recent" \/ Emptied
                \/ last[w] \in lost \/ age[start[last[w]]] = "old"]_vars
  BY <1>3
<1> QED BY <1>1, <1>2, <1>4, PTL DEF Spec, GapIsKept
=============================================================================
