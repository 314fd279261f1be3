----------------------------- MODULE UserLogin -----------------------------
(***************************************************************************)
(* The login reports of the extension (userSync) and the log they share    *)
(* with the post-commit hook, .git/ai/last_upload_payload.json.            *)
(*                                                                         *)
(* Each window of Kiro runs an extension host that tails the q-client.log  *)
(* of every window; a GetUsageLimitsCommand in it makes the host report    *)
(* its user, at the first such command and then every 4 hours, which it    *)
(* measures by the newest [userSync] line of the shared log.  The hook     *)
(* takes the user id of its report from that line.  Hosts and hook append  *)
(* to the log and rewrite it without the lines of more than 15 days, with  *)
(* no lock between them.                                                   *)
(*                                                                         *)
(* A host appends a line by one call, the hook by three: the head, the     *)
(* payload and the newline.  What the calls append (an entry: a line of a  *)
(* host, a head or a payload) is numbered in order, and a version of the   *)
(* log is the set of its entries; those that stand on one line of the file *)
(* share their start.  Time is what the code tells apart: an entry is      *)
(* "recent" for 4 hours, then "kept", and "old" after 15 days.             *)
(***************************************************************************)
EXTENDS Integers, FiniteSets, FiniteSetsExt

CONSTANTS
  Windows,    \* extension hosts that have the repository in their workspace
  Hook,       \* the post-commit hook, at most one of which runs (flock)
  MaxLines,   \* bound on the entries appended
  MaxLapses,  \* bound on how often time passes
  MaxFaults   \* bound on hosts and hooks that are killed

Writers == Windows \cup {Hook}

ASSUME NamesAssumption == Hook \notin Windows
ASSUME BoundsAssumption ==
  MaxLines \in Nat /\ MaxLapses \in Nat /\ MaxFaults \in Nat

VARIABLES
  writing,  \* Kiro is writing a GetUsageLimitsCommand to q-client.log
  torn,     \* hosts whose offset is in the middle of that line
  ready,    \* hosts that have a whole such line to read
  first,    \* isFirst
  pc,       \* the next step of a host (it is inflight but at "idle") or hook
  copy,     \* the entries a host or hook has read and will write back
  log,      \* the entries of last_upload_payload.json
  lines,    \* how many entries were appended so far
  kind,     \* of an entry: a login, the report of a host, or a part of the hook's
  age,      \* of an entry
  start,    \* of an entry: the first one of its line
  user,     \* of a payload of the hook: the login whose user id it carries, or 0
  open,     \* the start of the last line if no newline ends it, or 0
  found,    \* the login the hook took its user id from, 0 for none
  last,     \* history: the last login line of a host
  lost,     \* history: entries a rewrite had not read, or a kill left out
  due,      \* history: the login the hook should find, 0 for any
  lapses, faults

qclient == <<writing, torn, ready>>
text == <<lines, kind, age, start, user>>
file == <<log, text, open>>
vars == <<writing, torn, ready, first, pc, copy, log, lines, kind, age, start, user, open,
          found, last, lost, due, lapses, faults>>

Ages == {"recent", "kept", "old"}
HostSteps == {"idle", "append", "read", "truncate", "fill", "post"}
HookSteps == {"off", "lookup", "append", "payload", "newline", "read", "move", "post"}
Kinds == {"none", "sync", "stats", "head", "body"}
Ids == 1 .. MaxLines
Logged == 1 .. lines

\* The newest login among some lines.
Logins(S) == {n \in S : kind[n] = "sync"}
Newest(S) == IF Logins(S) = {} THEN 0 ELSE Max(Logins(S))
\* A host has emptied the log and not filled it again.
Emptied == \E w \in Windows : pc[w] = "fill"

Init ==
  /\ writing = FALSE /\ torn = {} /\ ready = {}
  /\ first = [w \in Windows |-> TRUE]
  /\ pc = [p \in Writers |-> IF p = Hook THEN "off" ELSE "idle"]
  /\ copy = [p \in Writers |-> {}]
  /\ log = {} /\ lines = 0
  /\ kind = [n \in Ids |-> "none"]
  /\ age = [n \in Ids |-> "recent"]
  /\ start = [n \in Ids |-> n] /\ user = [n \in Ids |-> 0] /\ open = 0
  /\ found = 0 /\ due = 0
  /\ last = [w \in Windows |-> 0] /\ lost = {}
  /\ lapses = 0 /\ faults = 0

Goto(p, step) == pc' = [pc EXCEPT ![p] = step]

\* An entry at the end of the file, on the last line if that is open; a file that
\* a host has just emptied takes it at its start, where that host writes next.
Append(k) ==
  /\ lines < MaxLines
  /\ lines' = lines + 1
  /\ log' = log \cup {lines + 1}
  /\ kind' = [kind EXCEPT ![lines + 1] = k]
  /\ start' = IF open = 0 THEN start ELSE [start EXCEPT ![lines + 1] = open]
  /\ open' = IF k \in {"sync", "stats"} THEN 0 ELSE start'[lines + 1]
  /\ user' = IF k = "body" THEN [user EXCEPT ![lines + 1] = found] ELSE user
  /\ UNCHANGED age

----------------------------------------------------------------------------
\* Kiro (outside the program).

BeginCommand ==
  /\ ~writing
  /\ writing' = TRUE
  /\ UNCHANGED <<torn, ready, first, pc, copy, found, last, lost, due, lapses, faults>>
  /\ UNCHANGED file

\* A host whose offset is inside the line will not see the whole marker.
EndCommand ==
  /\ writing
  /\ ready' = ready \cup (Windows \ torn)
  /\ writing' = FALSE /\ torn' = {}
  /\ UNCHANGED <<first, pc, copy, found, last, lost, due, lapses, faults>>
  /\ UNCHANGED file

\* 4 hours or 15 days; no task takes that long.
Lapse ==
  /\ lapses < MaxLapses
  /\ pc[Hook] = "off" /\ \A w \in Windows : pc[w] = "idle"
  /\ lapses' = lapses + 1
  /\ \/ age' = [n \in Ids |-> IF n \in Logged /\ age[n] = "recent" THEN "kept" ELSE age[n]]
     \/ age' = [n \in Ids |-> IF n \in Logged THEN "old" ELSE age[n]]
  /\ UNCHANGED <<first, pc, copy, log, lines, kind, start, user, open>>
  /\ UNCHANGED <<found, last, lost, due, faults>>
  /\ UNCHANGED qclient

----------------------------------------------------------------------------
\* QClientLogWatcher and maybeDoUserSync.

MaySync_ByTheOldest(w) ==  \* the gap is measured from the first match
  first[w] \/ Logins(log) = {} \/ age[Min(Logins(log))] # "recent"

\* The first command after a start, or no login line of the last 4 hours.
MaySync(w) == first[w] \/ \A n \in Logins(log) : age[n] # "recent"

\* readNewLines: the offset goes to the end of the file, in the middle of a
\* line or not.  While a login is under way the command is passed over.
Poll(w) ==
  /\ pc[w] \in {"idle", "post"}
  /\ w \in ready \/ (writing /\ w \notin torn)
  /\ ready' = ready \ {w}
  /\ torn' = IF writing THEN torn \cup {w} ELSE torn
  /\ IF w \in ready /\ pc[w] = "idle" /\ MaySync(w) THEN Goto(w, "append") ELSE UNCHANGED pc
  /\ UNCHANGED <<writing, first, copy, found, last, lost, due, lapses, faults>>
  /\ UNCHANGED file

----------------------------------------------------------------------------
\* writeDebugLog and cleanOldLines: no await in between, but the other
\* processes run on.

AppendLogin(w) ==
  /\ pc[w] = "append"
  /\ Append("sync")
  /\ last' = [last EXCEPT ![w] = lines + 1]
  /\ Goto(w, "read")
  /\ UNCHANGED <<first, copy, found, lost, due, lapses, faults>>
  /\ UNCHANGED qclient

ReadLog(w) ==
  /\ pc[w] = "read"
  /\ copy' = [copy EXCEPT ![w] = log]
  /\ Goto(w, "truncate")
  /\ UNCHANGED <<first, found, last, lost, due, lapses, faults>>
  /\ UNCHANGED <<qclient, file>>

Truncate(w) ==
  /\ pc[w] = "truncate"
  /\ log' = {} /\ open' = 0
  /\ lost' = lost \cup (log \ copy[w])
  /\ Goto(w, "fill")
  /\ UNCHANGED <<first, copy, found, last, due, lapses, faults>>
  /\ UNCHANGED <<qclient, text>>

Kept_Today(S) ==  \* a cutoff of hours for days
  {n \in S : kind[start[n]] = "body" \/ age[start[n]] = "recent"}

\* A line goes by its first time; one that begins with a payload has none, and stays.
Kept(S) == {n \in S : kind[start[n]] = "body" \/ age[start[n]] # "old"}

Fill(w) ==
  /\ pc[w] = "fill"
  /\ log' = Kept(copy[w]) /\ open' = 0
  /\ lost' = lost \cup (log \ copy[w])
  /\ copy' = [copy EXCEPT ![w] = {}]
  /\ Goto(w, "post")
  /\ UNCHANGED <<first, found, last, due, lapses, faults>>
  /\ UNCHANGED <<qclient, text>>

\* The answer, an error or the 10 s timeout: all of them end the login.
Post(w) ==
  /\ pc[w] = "post"
  /\ first' = [first EXCEPT ![w] = FALSE]
  /\ Goto(w, "idle")
  /\ UNCHANGED <<copy, found, last, lost, due, lapses, faults>>
  /\ UNCHANGED <<qclient, file>>

\* appendStatsDebugLog, in the mode where the extension reports commits.
LogUpload(w) ==
  /\ pc[w] \in {"idle", "post"}
  /\ Append("stats")
  /\ UNCHANGED <<first, pc, copy, found, last, lost, due, lapses, faults>>
  /\ UNCHANGED qclient

----------------------------------------------------------------------------
\* The post-commit hook, from where it looks up the user.

StartHook ==
  /\ pc[Hook] = "off"
  /\ Goto(Hook, "lookup")
  /\ UNCHANGED <<first, copy, found, last, lost, due, lapses, faults>>
  /\ UNCHANGED <<qclient, file>>

\* The login whose user id an entry carries.
User(n) == IF kind[n] = "sync" THEN n ELSE user[n]
OnLine(s) == {n \in log : start[n] = s /\ User(n) # 0}

\* The user ids on the line that is searched for login n.  tac joins an open
\* last line to the one before it, and shows it first.
Shown(n) ==
  IF OnLine(open) # {} /\ \A m \in log : start[m] = open \/ start[m] <= start[n]
    THEN OnLine(open) ELSE OnLine(start[n])

\* What it should find, if that is not lost, old or being rewritten, and no
\* other user id is shown with it.
Due ==
  LET n == Newest(Logged) IN
  IF n = 0 \/ n \in lost \/ Emptied THEN 0
  ELSE IF "old" \in {age[n], age[start[n]]} \/ ~(Shown(n) \subseteq {n}) THEN 0 ELSE n

LookUp_Oldest ==  \* grep -m1 from the start of the file
  /\ pc[Hook] = "lookup"
  /\ found' = IF Logins(log) = {} THEN 0 ELSE User(Min(OnLine(start[Min(Logins(log))])))
  /\ due' = Due
  /\ Goto(Hook, "append")
  /\ UNCHANGED <<first, copy, last, lost, lapses, faults>>
  /\ UNCHANGED <<qclient, file>>

\* The first user id of the last line that has a login.
LookUp ==
  /\ pc[Hook] = "lookup"
  /\ found' = IF Logins(log) = {} THEN 0 ELSE User(Min(Shown(Newest(log))))
  /\ due' = Due
  /\ Goto(Hook, "append")
  /\ UNCHANGED <<first, copy, last, lost, lapses, faults>>
  /\ UNCHANGED <<qclient, file>>

AppendReport ==
  /\ \/ pc[Hook] = "append" /\ Append("head") /\ Goto(Hook, "payload")
     \/ pc[Hook] = "payload" /\ Append("body") /\ Goto(Hook, "newline")
     \/ pc[Hook] = "newline" /\ open' = 0 /\ Goto(Hook, "read") /\ UNCHANGED <<log, text>>
  /\ UNCHANGED <<first, copy, found, last, lost, due, lapses, faults>>
  /\ UNCHANGED qclient

\* awk copies the log to a temporary file.
CopyLog ==
  /\ pc[Hook] = "read"
  /\ copy' = [copy EXCEPT ![Hook] = log]
  /\ Goto(Hook, "move")
  /\ UNCHANGED <<first, found, last, lost, due, lapses, faults>>
  /\ UNCHANGED <<qclient, file>>

\* mv: the file has another inode, and what a host in the middle of its
\* rewrite still writes goes to the old one.
Move ==
  LET filling == {w \in Windows : pc[w] = "fill"} IN
  /\ pc[Hook] = "move"
  /\ log' = Kept(copy[Hook]) /\ open' = 0
  /\ lost' = lost \cup ((log \cup UNION {copy[w] : w \in filling}) \ copy[Hook])
  /\ pc' = [p \in Writers |-> IF p \in filling \cup {Hook} THEN "post" ELSE pc[p]]
  /\ copy' = [p \in Writers |-> IF p \in filling \cup {Hook} THEN {} ELSE copy[p]]
  /\ UNCHANGED <<first, found, last, due, lapses, faults>>
  /\ UNCHANGED <<qclient, text>>

EndHook ==
  /\ pc[Hook] = "post"
  /\ found' = 0 /\ due' = 0
  /\ Goto(Hook, "off")
  /\ UNCHANGED <<first, copy, last, lost, lapses, faults>>
  /\ UNCHANGED <<qclient, file>>

----------------------------------------------------------------------------
\* A host ends and starts again: it tails q-client.log from its end.
Restart(w) ==
  /\ faults < MaxFaults
  /\ faults' = faults + 1
  /\ first' = [first EXCEPT ![w] = TRUE]
  /\ torn' = IF writing THEN torn \cup {w} ELSE torn
  /\ ready' = ready \ {w}
  /\ lost' = IF pc[w] = "fill" THEN lost \cup copy[w] ELSE lost
  /\ Goto(w, "idle")
  /\ copy' = [copy EXCEPT ![w] = {}]
  /\ UNCHANGED <<writing, found, last, due, lapses>>
  /\ UNCHANGED file

KillHook ==
  /\ pc[Hook] # "off" /\ faults < MaxFaults
  /\ faults' = faults + 1
  /\ found' = 0 /\ due' = 0
  /\ copy' = [copy EXCEPT ![Hook] = {}]
  /\ Goto(Hook, "off")
  /\ UNCHANGED <<first, last, lost, lapses>>
  /\ UNCHANGED <<qclient, file>>

----------------------------------------------------------------------------
Host(w) ==
  \/ Poll(w) \/ AppendLogin(w) \/ ReadLog(w) \/ Truncate(w) \/ Fill(w) \/ Post(w)
  \/ LogUpload(w) \/ Restart(w)

Next ==
  \/ BeginCommand \/ EndCommand \/ Lapse
  \/ \E w \in Windows : Host(w)
  \/ StartHook \/ LookUp \/ AppendReport \/ CopyLog \/ Move \/ EndHook \/ KillHook

Spec == Init /\ [][Next]_vars

----------------------------------------------------------------------------
\* What the code promises.

\* Every variable keeps its type.
TypeOK ==
  /\ writing \in BOOLEAN /\ torn \subseteq Windows /\ ready \subseteq Windows
  /\ first \in [Windows -> BOOLEAN]
  /\ pc \in [Writers -> HostSteps \cup HookSteps]
  /\ pc[Hook] \in HookSteps /\ \A w \in Windows : pc[w] \in HostSteps
  /\ copy \in [Writers -> SUBSET Logged]
  /\ lines \in 0 .. MaxLines /\ log \subseteq Logged
  /\ kind \in [Ids -> Kinds] /\ age \in [Ids -> Ages]
  /\ start \in [Ids -> Ids] /\ user \in [Ids -> 0 .. lines] /\ open \in 0 .. MaxLines
  /\ found \in 0 .. lines /\ due \in 0 .. lines
  /\ last \in [Windows -> 0 .. lines] /\ lost \subseteq Logged
  /\ lapses \in 0 .. MaxLapses /\ faults \in 0 .. MaxFaults

\* An entry of less than 15 days is in the log, or in the memory of a host that
\* is about to write it back, or was appended between the reading and the
\* rewriting of another process (or by a host that was killed in between), or
\* stands on a line that a killed hook began more than 15 days before.
\* No order of appends, rewrites and renames loses one otherwise.
LogIsComplete ==
  \A n \in Logged : age[n] # "old" =>
    \/ n \in log \cup lost
    \/ \E w \in Windows : pc[w] = "fill" /\ n \in copy[w]
    \/ age[start[n]] = "old"

\* A host that has reported the user reports again within 4 hours only if its
\* line was lost that way or another process is rewriting the log.
GapIsKept ==
  [][\A w \in Windows :
       pc[w] = "idle" /\ pc'[w] = "append" /\ last[w] # 0 =>
         \/ first[w] \/ age[last[w]] # "recent" \/ Emptied
         \/ last[w] \in lost \/ age[start[last[w]]] = "old"]_vars

\* The hook reports a commit under the user of the newest login that was
\* appended when it looked, unless that entry is lost, old or being rewritten,
\* or shares its line with the payload of an earlier report.
NewestLoginIsUsed == due # 0 => found = due
=============================================================================
