----------------------------- MODULE Directory -----------------------------
(***************************************************************************)
(* The service's user table, kiro_user, and its writers: the logins that   *)
(* the extensions post (POST /api/v1/userSync), the hourly import of       *)
(* credits from S3, and the copy of the IAM Identity Center directory that *)
(* the import and the page of users both make.  The table has a unique     *)
(* index on LOWER(user_name).                                              *)
(*                                                                         *)
(* Node runs one callback at a time; a step below is one statement, or the *)
(* code between two awaits.  Statements commit by themselves except those  *)
(* of the directory copy, which are one transaction at READ COMMITTED.     *)
(***************************************************************************)
EXTENDS Naturals, FiniteSets, SequencesExt

CONSTANTS
  Persons,        \* people, and the nobody behind the name "Unknown"
  Names, Who,     \* user names, and the person each is a spelling of
  Unknown,        \* the name reported when the client knows none
  Directory,      \* the persons Identity Center lists, in its order
  Canonical,      \* their names there
  Logins,         \* logins posted by extensions, each from its own host
  LoginName,      \* the name a login carries
  Reports,        \* reports of commits that carry a user_id to be looked up
  IdOf,           \* of a request: the person whose user_id it carries, or NoPerson
  Files,          \* the CSV files, in the order they are listed: newest date first
  FolderOf,       \* of a file: the date and the path of the prefix it is listed under
  Window, LastDay, \* days that are listed, and bound on days
  Records,        \* the credit records: of a person, on a day, in a file
  PersonOf, DayOf, Days, RecordsOf,
  ByEmail,        \* records that carry the name instead of the user id
  Importer, Viewer, \* creditSync, and GET /api/users
  NoPerson, NoName, NoRow, NoRecord, NoFile,
  MaxFaults       \* bound on failed calls and restarts together

Copiers == {Importer, Viewer}
Writers == Logins \cup {Importer}   \* callers of userSync
Requests == Logins \cup Reports
Processes == Requests \cup Copiers
Enrolled == ToSet(Directory)
FileSet == ToSet(Files)

Row == [id : Persons \cup {NoPerson}, credits : [Days -> Records \cup {NoRecord}],
        plugin : BOOLEAN]

\* Identity Center lists a user once.
ASSUME TablesAssumption ==
  /\ Who \in [Names -> Persons] /\ Unknown \in Names
  /\ Directory \in Seq(Persons) /\ IsInjective(Directory) /\ Canonical \in [Persons -> Names]
  /\ \A p \in Persons : Who[Canonical[p]] = p
  /\ LoginName \in [Logins -> Names] /\ IdOf \in [Requests -> Persons \cup {NoPerson}]
  /\ \A q \in Reports : IdOf[q] # NoPerson
  /\ Files \in Seq(FileSet) /\ RecordsOf \in [FileSet -> Seq(Records)]
  /\ PersonOf \in [Records -> Persons] /\ DayOf \in [Records -> Days] /\ ByEmail \subseteq Records
ASSUME NamesAssumption ==
  /\ Importer \notin Requests /\ Viewer \notin Requests \cup {Importer}
  /\ Logins \cap (Reports \cup Records) = {}
  /\ NoPerson \notin Persons /\ NoName \notin Names /\ NoRecord \notin Records
  /\ NoFile \notin FileSet /\ NoRow \notin Row
ASSUME FoldersAssumption ==
  /\ DOMAIN FolderOf = FileSet /\ \A f \in FileSet : FolderOf[f].date \in Nat
  /\ \A i, j \in DOMAIN Files : i < j => FolderOf[Files[j]].date <= FolderOf[Files[i]].date
ASSUME BoundsAssumption == {MaxFaults, Window, LastDay} \subseteq Nat

Steps == {"new", "listing", "find", "insert", "raced", "update", "host",
          "ok", "error", "idle", "list", "copy", "add", "commit", "files", "record"}

VARIABLES
  rows,       \* kiro_user: of a name, its row
  hosts,      \* plugins: of a login's host, the user name
  cache,      \* idcUsersByUserId: nothing or expired, complete, or empty
  pc,         \* of a process: its next step
  name,       \* of a writer: the name it writes under
  snap,       \* of a writer: the row it has read, until it writes
  copied,     \* of a copier: persons of the directory it has handled
  changed,    \* of a copier: rows its transaction has updated
  added,      \* of a copier: rows its transaction has inserted
  idcOk,      \* of the import: userIdMap is complete
  file, left, \* of the import: the file at hand, and its records to come
  unresolved, \* of the import: a record of the file has no name
  passed,     \* of the import: files this round has taken or does not list
  processed,  \* processedKeys
  today,
  imported,   \* history: records userSync has returned for
  replaced,   \* history: records another record of the same day came after
  overlapped, \* history: records written between read and write of a login
  outrun,     \* history: logins and records whose INSERT met a row
  clashed,    \* history: those among them that met another spelling
  misled,     \* history: requests of enrolled users that were not resolved although no
              \* listing had failed since the cache last expired
  listFailed, \* history: a listing has failed since then
  synced,     \* history: persons a committed copy has found or written
  faults

tables == <<rows, hosts>>
writers == <<name, snap>>
copies == <<copied, changed, added>>
import == <<idcOk, file, left, unresolved, passed, processed, today>>
history == <<imported, replaced, overlapped, outrun, clashed, misled, listFailed, synced>>
vars == <<rows, hosts, cache, pc, name, snap, copied, changed, added, idcOk, file, left,
          unresolved, passed, processed, today, imported, replaced, overlapped, outrun, clashed,
          misled, listFailed, synced, faults>>

NewRow == [id |-> NoPerson, credits |-> [d \in Days |-> NoRecord], plugin |-> FALSE]
RowsOf(p) == {n \in Names : Who[n] = p /\ rows[n] # NoRow}
TheRow(p) == CHOOSE n \in RowsOf(p) : TRUE

\* Every variable keeps its type, and a user has one row however it is spelt.
TypeOK ==
  /\ rows \in [Names -> Row \cup {NoRow}] /\ hosts \in [Logins -> Names \cup {NoName}]
  /\ \A m, n \in Names : rows[m] # NoRow /\ rows[n] # NoRow /\ Who[m] = Who[n] => m = n
  /\ cache \in {"none", "full", "empty"}
  /\ pc \in [Processes -> Steps]
  /\ name \in [Writers -> Names \cup {NoName}] /\ snap \in [Writers -> Row \cup {NoRow}]
  /\ copied \in [Copiers -> 0 .. Len(Directory)]
  /\ changed \in [Copiers -> SUBSET Persons] /\ added \in [Copiers -> SUBSET Persons]
  /\ idcOk \in BOOLEAN /\ unresolved \in BOOLEAN /\ file \in FileSet \cup {NoFile}
  /\ left \in Seq(Records) /\ passed \subseteq FileSet /\ processed \subseteq FileSet
  /\ today \in 0 .. LastDay
  /\ imported \subseteq Records /\ replaced \subseteq Records /\ overlapped \subseteq Records
  /\ outrun \subseteq Logins \cup Records /\ clashed \subseteq outrun
  /\ misled \subseteq Requests /\ listFailed \in BOOLEAN /\ synced \subseteq Persons
  /\ faults \in 0 .. MaxFaults

Init ==
  /\ rows = [n \in Names |-> NoRow] /\ hosts = [l \in Logins |-> NoName]
  /\ cache = "none"
  /\ pc = [p \in Processes |-> IF p \in Requests THEN "new" ELSE "idle"]
  /\ name = [w \in Writers |-> NoName] /\ snap = [w \in Writers |-> NoRow]
  /\ copied = [c \in Copiers |-> 0]
  /\ changed = [c \in Copiers |-> {}] /\ added = [c \in Copiers |-> {}]
  /\ idcOk = FALSE /\ file = NoFile /\ left = <<>> /\ unresolved = FALSE
  /\ passed = {} /\ processed = {} /\ today = 0
  /\ imported = {} /\ replaced = {} /\ overlapped = {} /\ outrun = {} /\ clashed = {}
  /\ misled = {} /\ listFailed = FALSE /\ synced = {}
  /\ faults = 0

Goto(p, step) == pc' = [pc EXCEPT ![p] = step]
Fault == faults < MaxFaults /\ faults' = faults + 1

----------------------------------------------------------------------------
\* Who is it?  POST /api/v1/userSync and the directory cache.

\* The outcome of a lookup in a complete or an empty map: the name a login
\* goes on with, and the idc_user_name of a report.
LookUp(q, map) ==
  IF q \in Reports THEN Goto(q, "ok") /\ UNCHANGED name
  ELSE /\ Goto(q, "find")
       /\ name' = [name EXCEPT ![q] = IF map = "full" /\ IdOf[q] \in Enrolled
                                       THEN Canonical[IdOf[q]] ELSE Unknown]

\* A login that has a name keeps it, as does one without an id.  A map that has
\* not expired is used as it is.
Unresolved(q) == q \in Logins => LoginName[q] = Unknown /\ IdOf[q] # NoPerson
Arrive(q) ==
  /\ pc[q] = "new"
  /\ \/ /\ Unresolved(q) /\ cache = "none"
        /\ Goto(q, "listing") /\ UNCHANGED <<name, misled>>
     \/ /\ Unresolved(q) /\ cache # "none"
        /\ LookUp(q, cache)
        /\ misled' = IF cache = "empty" /\ IdOf[q] \in Enrolled /\ ~listFailed
                       THEN misled \cup {q} ELSE misled
     \/ /\ ~Unresolved(q)
        /\ Goto(q, "find") /\ name' = [name EXCEPT ![q] = LoginName[q]] /\ UNCHANGED misled
  /\ UNCHANGED <<cache, snap, imported, replaced, overlapped, outrun, clashed, listFailed, synced>>
  /\ UNCHANGED <<tables, copies, import, faults>>

\* A failed listing leaves an empty map, whatever another request has put there.
ListUsers(q) ==
  /\ pc[q] = "listing"
  /\ \/ cache' = "full" /\ UNCHANGED <<listFailed, faults>>
     \/ Fault /\ cache' = "empty" /\ listFailed' = TRUE
  /\ LookUp(q, cache')
  /\ UNCHANGED <<snap, imported, replaced, overlapped, outrun, clashed, misled, synced>>
  /\ UNCHANGED <<tables, copies, import>>

Expire_Never ==  \* idcCacheAt not compared
  /\ cache # "none"
  /\ listFailed' = FALSE
  /\ UNCHANGED <<cache, faults, pc, imported, replaced, overlapped, outrun, clashed, misled, synced>>
  /\ UNCHANGED <<tables, writers, copies, import>>

\* Ten minutes pass.
Expire ==
  /\ cache # "none"
  /\ cache' = "none" /\ listFailed' = FALSE
  /\ UNCHANGED <<faults, pc, imported, replaced, overlapped, outrun, clashed, misled, synced>>
  /\ UNCHANGED <<tables, writers, copies, import>>

----------------------------------------------------------------------------
\* store.userSync, called with a login or with a record.

Subject(w) == Who[name[w]]
Record == left[1]
Item(w) == IF w = Importer THEN Record ELSE w
Locked(p) == \E c \in Copiers : p \in changed[c]
Inserting(p) == \E c \in Copiers : p \in added[c]

\* getUserCaseInsensitive.
Find(w) ==
  LET found == RowsOf(Subject(w)) IN
  /\ pc[w] = "find"
  /\ IF found = {}
       THEN Goto(w, "insert") /\ UNCHANGED writers
       ELSE /\ Goto(w, "update")
            /\ snap' = [snap EXCEPT ![w] = rows[TheRow(Subject(w))]]
            /\ name' = [name EXCEPT ![w] = TheRow(Subject(w))]
  /\ UNCHANGED cache
  /\ UNCHANGED <<tables, copies, import, history, faults>>

\* Back from userSync: a login goes on to its host, the import to its next
\* record, which may replace one of the same day.
Others(r) == {q \in Records : q # r /\ PersonOf[q] = PersonOf[r] /\ DayOf[q] = DayOf[r]}
Returned(w) ==
  /\ snap' = [snap EXCEPT ![w] = NoRow]
  /\ IF w = Importer
       THEN /\ Goto(w, "record")
            /\ name' = [name EXCEPT ![w] = NoName]
            /\ left' = Tail(left)
            /\ imported' = imported \cup {Record}
            /\ replaced' = (replaced \ {Record}) \cup Others(Record)
       ELSE Goto(w, "host") /\ UNCHANGED <<name, left, imported, replaced>>

Credited(w, credits) == IF w = Importer THEN [credits EXCEPT ![DayOf[Record]] = Record] ELSE credits

Insert_CaseSensitive(w) ==  \* the index is on user_name
  /\ pc[w] = "insert" /\ ~Inserting(Subject(w))
  /\ rows' = IF rows[name[w]] # NoRow THEN rows
             ELSE [rows EXCEPT ![name[w]] =
                     [id |-> IF w = Importer THEN NoPerson ELSE IdOf[w],
                      credits |-> Credited(w, NewRow.credits), plugin |-> w # Importer]]
  /\ Returned(w)
  /\ UNCHANGED <<hosts, cache, idcOk, file, unresolved, passed, processed, today,
                 overlapped, outrun, clashed, misled, listFailed, synced>>
  /\ UNCHANGED <<copies, faults>>

\* INSERT ... ON CONFLICT (user_name) DO NOTHING waits for an insert that has
\* not been committed; meeting the same name it does nothing, meeting another
\* spelling of it it fails with 23505.
Insert(w) ==
  LET there == RowsOf(Subject(w)) IN
  /\ pc[w] = "insert" /\ ~Inserting(Subject(w))
  /\ \/ /\ there = {}
        /\ rows' = [rows EXCEPT ![name[w]] =
                      [id |-> IF w = Importer THEN NoPerson ELSE IdOf[w],
                       credits |-> Credited(w, NewRow.credits), plugin |-> w # Importer]]
        /\ Returned(w) /\ UNCHANGED <<outrun, clashed>>
     \/ /\ name[w] \in there
        /\ outrun' = outrun \cup {Item(w)}
        /\ Returned(w) /\ UNCHANGED <<rows, clashed>>
     \/ /\ there # {} /\ name[w] \notin there
        /\ outrun' = outrun \cup {Item(w)} /\ clashed' = clashed \cup {Item(w)}
        /\ Goto(w, "raced") /\ UNCHANGED <<rows, writers, left, imported, replaced>>
  /\ UNCHANGED <<hosts, cache, idcOk, file, unresolved, passed, processed, today,
                 overlapped, misled, listFailed, synced>>
  /\ UNCHANGED <<copies, faults>>

FilledId_Overwrites(w, id) ==  \* user_id = $6
  IF w # Importer THEN IdOf[w] ELSE id

FilledId(w, id) == IF id = NoPerson /\ w # Importer THEN IdOf[w] ELSE id

\* The catch of 23505 looks the row up and writes it as a login would.
Raced(w) ==
  LET n == TheRow(Subject(w)) IN
  /\ pc[w] = "raced" /\ ~Locked(Subject(w))
  /\ rows' = [rows EXCEPT ![n].plugin = TRUE, ![n].id = FilledId(w, @)]
  /\ Returned(w)
  /\ UNCHANGED <<hosts, cache, idcOk, file, unresolved, passed, processed, today,
                 overlapped, outrun, clashed, misled, listFailed, synced>>
  /\ UNCHANGED <<copies, faults>>

Update_Resets(w) ==  \* only the days that came with the call are written
  /\ pc[w] = "update" /\ ~Locked(Subject(w))
  /\ rows' = [rows EXCEPT ![name[w]].credits = Credited(w, NewRow.credits),
                          ![name[w]].plugin = @ \/ w # Importer,
                          ![name[w]].id = FilledId(w, @)]
  /\ Returned(w)
  /\ UNCHANGED <<hosts, cache, idcOk, file, unresolved, passed, processed, today,
                 overlapped, outrun, clashed, misled, listFailed, synced>>
  /\ UNCHANGED <<copies, faults>>

Update_KeepsMark(w) ==  \* plugin_added is set on insertion only
  /\ pc[w] = "update" /\ ~Locked(Subject(w))
  /\ rows' = [rows EXCEPT ![name[w]].credits = Credited(w, snap[w].credits),
                          ![name[w]].id = FilledId(w, @)]
  /\ Returned(w)
  /\ UNCHANGED <<hosts, cache, idcOk, file, unresolved, passed, processed, today,
                 overlapped, outrun, clashed, misled, listFailed, synced>>
  /\ UNCHANGED <<copies, faults>>

\* The credits written are those of the row as it was read.  A login has none
\* of its own, and writes them back; it fills an empty user_id only.
Update(w) ==
  /\ pc[w] = "update" /\ ~Locked(Subject(w))
  /\ rows' = [rows EXCEPT ![name[w]].credits = Credited(w, snap[w].credits),
                          ![name[w]].plugin = @ \/ w # Importer,
                          ![name[w]].id = FilledId(w, @)]
  /\ overlapped' = IF w = Importer /\ \E l \in Logins : pc[l] = "update" /\ name[l] = name[w]
                     THEN overlapped \cup {Record} ELSE overlapped
  /\ Returned(w)
  /\ UNCHANGED <<hosts, cache, idcOk, file, unresolved, passed, processed, today,
                 outrun, clashed, misled, listFailed, synced>>
  /\ UNCHANGED <<copies, faults>>

UpsertPlugin_AsSent(l) ==  \* under the name that was sent
  /\ pc[l] = "host"
  /\ hosts' = [hosts EXCEPT ![l] = LoginName[l]]
  /\ Goto(l, "ok")
  /\ UNCHANGED <<rows, cache>>
  /\ UNCHANGED <<writers, copies, import, history, faults>>

\* upsertPlugin, and the answer 200.
UpsertPlugin(l) ==
  /\ pc[l] = "host"
  /\ hosts' = [hosts EXCEPT ![l] = name[l]]
  /\ Goto(l, "ok")
  /\ UNCHANGED <<rows, cache>>
  /\ UNCHANGED <<writers, copies, import, history, faults>>

LoginFails(l) ==
  /\ pc[l] \in {"find", "insert", "raced", "update", "host"}
  /\ Fault
  /\ Goto(l, "error")
  /\ snap' = [snap EXCEPT ![l] = NoRow]
  /\ UNCHANGED <<cache, name>>
  /\ UNCHANGED <<tables, copies, import, history>>

----------------------------------------------------------------------------
\* syncIdCUsersToLocal: one transaction, one savepoint per user.

Begin(c) ==
  /\ pc[c] = IF c = Importer THEN "list" ELSE "idle"
  /\ Goto(c, IF Directory = <<>> THEN "commit" ELSE "copy")
  /\ UNCHANGED cache
  /\ UNCHANGED <<tables, writers, copies, import, history, faults>>

Next1(c) == Directory[copied[c] + 1]
Step1(c) ==
  /\ copied' = [copied EXCEPT ![c] = @ + 1]
  /\ Goto(c, IF copied[c] + 1 = Len(Directory) THEN "commit" ELSE "copy")

CopyUser_ExactName(c) ==  \* WHERE user_name = $1
  LET p == Next1(c) IN
  /\ pc[c] = "copy"
  /\ IF rows[Canonical[p]] = NoRow
       THEN Goto(c, "add") /\ UNCHANGED <<copied, changed>>
       ELSE /\ Step1(c) /\ ~Locked(p)
            /\ changed' = IF rows[Canonical[p]].id = p THEN changed
                          ELSE [changed EXCEPT ![c] = @ \cup {p}]
  /\ UNCHANGED <<cache, added>>
  /\ UNCHANGED <<tables, writers, import, history, faults>>

\* UPDATE locks the row if it changes it, and waits for another lock.
CopyUser(c) ==
  LET p == Next1(c) IN
  /\ pc[c] = "copy"
  /\ IF RowsOf(p) = {}
       THEN Goto(c, "add") /\ UNCHANGED <<copied, changed>>
       ELSE /\ Step1(c) /\ ~Locked(p)
            /\ changed' = IF rows[TheRow(p)].id = p THEN changed
                          ELSE [changed EXCEPT ![c] = @ \cup {p}]
  /\ UNCHANGED <<cache, added>>
  /\ UNCHANGED <<tables, writers, import, history, faults>>

\* A user who was not there is inserted; if one is there by now the statement
\* does nothing or its savepoint undoes it.
AddUser(c) ==
  LET p == Next1(c) IN
  /\ pc[c] = "add" /\ ~Inserting(p)
  /\ Step1(c)
  /\ added' = IF RowsOf(p) = {} THEN [added EXCEPT ![c] = @ \cup {p}] ELSE added
  /\ UNCHANGED <<cache, changed>>
  /\ UNCHANGED <<tables, writers, import, history, faults>>

\* A failed statement of one user is undone by its savepoint; the others go on.
SkipUser(c) ==
  /\ pc[c] \in {"copy", "add"} /\ Fault
  /\ Step1(c)
  /\ UNCHANGED <<cache, changed, added>>
  /\ UNCHANGED <<tables, writers, import, history>>

\* The import goes on with the prefixes of the last days as of now.
Listed(f) == FolderOf[f].date <= today /\ today < FolderOf[f].date + Window
EndCopy(c) ==
  /\ Goto(c, IF c = Importer THEN "files" ELSE "idle")
  /\ passed' = IF c = Importer THEN {f \in FileSet : ~Listed(f)} ELSE passed
  /\ copied' = [copied EXCEPT ![c] = 0]
  /\ changed' = [changed EXCEPT ![c] = {}] /\ added' = [added EXCEPT ![c] = {}]

CopyCommits(c) ==
  LET new == {Canonical[p] : p \in added[c]}
      old == {n \in Names : rows[n] # NoRow /\ Who[n] \in changed[c]} IN
  /\ pc[c] = "commit"
  /\ rows' = [n \in Names |-> IF n \in new THEN [NewRow EXCEPT !.id = Who[n]]
                              ELSE IF n \in old THEN [rows[n] EXCEPT !.id = Who[n]] ELSE rows[n]]
  /\ synced' = synced \cup changed[c] \cup added[c]
                      \cup {p \in Enrolled : \E n \in RowsOf(p) : rows[n].id = p}
  /\ EndCopy(c)
  /\ idcOk' = (idcOk \/ c = Importer)
  /\ UNCHANGED <<hosts, cache, file, left, unresolved, processed, today,
                 imported, replaced, overlapped, outrun, clashed, misled, listFailed>>
  /\ UNCHANGED <<writers, faults>>

\* Listing the directory, or the transaction, fails and is rolled back.
CopyFails(c) ==
  /\ pc[c] \in {"list", "copy", "add", "commit"} /\ Fault
  /\ EndCopy(c)
  /\ UNCHANGED <<cache, idcOk, file, left, unresolved, processed, today>>
  /\ UNCHANGED <<tables, writers, history>>

----------------------------------------------------------------------------
\* syncCreditsFromS3.

StartImport ==
  /\ pc[Importer] = "idle"
  /\ Goto(Importer, "list")
  /\ UNCHANGED cache
  /\ UNCHANGED <<tables, writers, copies, import, history, faults>>

\* A prefix that cannot be listed has no files in this round.
ListingFails ==
  /\ pc[Importer] = "files" /\ Fault
  /\ \E f \in FileSet :
       LET folder == {g \in FileSet : FolderOf[g] = FolderOf[f]} IN
       folder \cap passed = {} /\ passed' = passed \cup folder
  /\ UNCHANGED <<cache, pc, idcOk, file, left, unresolved, processed, today>>
  /\ UNCHANGED <<tables, writers, copies, history>>

\* The next file that is not processed is downloaded; when there is none the
\* round is over, and forgets what it knew.
NextFile ==
  LET todo == {i \in DOMAIN Files : Files[i] \notin processed \cup passed} IN
  /\ pc[Importer] = "files"
  /\ \/ /\ todo = {}
        /\ Goto(Importer, "idle")
        /\ passed' = {} /\ idcOk' = FALSE /\ UNCHANGED <<file, left, unresolved>>
     \/ \E i \in todo :
        /\ \A j \in todo : i <= j
        /\ Goto(Importer, "record")
        /\ file' = Files[i] /\ passed' = passed \cup {Files[i]}
        /\ left' = RecordsOf[Files[i]] /\ UNCHANGED <<idcOk, unresolved>>
  /\ UNCHANGED <<cache, processed, today>>
  /\ UNCHANGED <<tables, writers, copies, history, faults>>

NextRecord ==
  /\ pc[Importer] = "record" /\ left # <<>>
  /\ IF Record \in ByEmail \/ (idcOk /\ PersonOf[Record] \in Enrolled)
       THEN /\ name' = [name EXCEPT ![Importer] = Canonical[PersonOf[Record]]]
            /\ Goto(Importer, "find") /\ UNCHANGED <<left, unresolved>>
       ELSE unresolved' = TRUE /\ left' = Tail(left) /\ UNCHANGED <<pc, name>>
  /\ UNCHANGED <<cache, snap, idcOk, file, passed, processed, today>>
  /\ UNCHANGED <<tables, copies, history, faults>>

EndFile_Always ==  \* a file counts as processed whatever it contained
  /\ pc[Importer] = "record" /\ left = <<>>
  /\ Goto(Importer, "files")
  /\ processed' = processed \cup {file}
  /\ file' = NoFile /\ unresolved' = FALSE
  /\ UNCHANGED <<cache, idcOk, left, passed, today>>
  /\ UNCHANGED <<tables, writers, copies, history, faults>>

\* A file is done with unless the directory was missing for one of its records.
EndFile ==
  /\ pc[Importer] = "record" /\ left = <<>>
  /\ Goto(Importer, "files")
  /\ processed' = IF idcOk \/ ~unresolved THEN processed \cup {file} ELSE processed
  /\ file' = NoFile /\ unresolved' = FALSE
  /\ UNCHANGED <<cache, idcOk, left, passed, today>>
  /\ UNCHANGED <<tables, writers, copies, history, faults>>

\* An error skips the rest of the file.
FileFails ==
  /\ pc[Importer] \in {"record", "find", "insert", "raced", "update"} /\ Fault
  /\ Goto(Importer, "files")
  /\ file' = NoFile /\ left' = <<>> /\ unresolved' = FALSE
  /\ name' = [name EXCEPT ![Importer] = NoName] /\ snap' = [snap EXCEPT ![Importer] = NoRow]
  /\ UNCHANGED <<cache, idcOk, passed, processed, today>>
  /\ UNCHANGED <<tables, copies, history>>

\* The service restarts: what it kept in memory is gone, its transactions are
\* rolled back and its requests unanswered.
Restart ==
  /\ Fault
  /\ pc' = [p \in Processes |-> IF p \in Copiers THEN "idle"
                                ELSE IF pc[p] \in {"new", "ok"} THEN pc[p] ELSE "error"]
  /\ cache' = "none" /\ listFailed' = FALSE
  /\ name' = [name EXCEPT ![Importer] = NoName] /\ snap' = [w \in Writers |-> NoRow]
  /\ copied' = [c \in Copiers |-> 0]
  /\ changed' = [c \in Copiers |-> {}] /\ added' = [c \in Copiers |-> {}]
  /\ idcOk' = FALSE /\ file' = NoFile /\ left' = <<>> /\ unresolved' = FALSE
  /\ passed' = {} /\ processed' = {}
  /\ UNCHANGED <<today, imported, replaced, overlapped, outrun, clashed, misled, synced>>
  /\ UNCHANGED tables

\* The oldest day leaves the window, and another one enters it.
DayPasses ==
  /\ today < LastDay /\ today' = today + 1
  /\ UNCHANGED <<cache, pc, idcOk, file, left, unresolved, passed, processed>>
  /\ UNCHANGED <<tables, writers, copies, history, faults>>

LookUpStep(q) == Arrive(q) \/ ListUsers(q)
LoginStep(l) == Find(l) \/ Insert(l) \/ Raced(l) \/ Update(l) \/ UpsertPlugin(l)
ImportStep ==
  \/ Begin(Importer) \/ CopyUser(Importer) \/ AddUser(Importer) \/ CopyCommits(Importer)
  \/ StartImport \/ NextFile \/ NextRecord \/ EndFile
  \/ Find(Importer) \/ Insert(Importer) \/ Raced(Importer) \/ Update(Importer)
ViewStep == CopyUser(Viewer) \/ AddUser(Viewer) \/ CopyCommits(Viewer)

Next ==
  \/ \E q \in Requests : LookUpStep(q)
  \/ \E l \in Logins : LoginStep(l) \/ LoginFails(l)
  \/ ImportStep \/ ListingFails \/ FileFails
  \/ Begin(Viewer) \/ ViewStep
  \/ \E c \in Copiers : SkipUser(c) \/ CopyFails(c)
  \/ Expire \/ DayPasses \/ Restart

\* The service runs its handlers and the hourly import, and ends what it has
\* begun; nobody need open the page of users.
Fairness ==
  /\ \A q \in Requests : WF_vars(LookUpStep(q))
  /\ \A l \in Logins : WF_vars(LoginStep(l))
  /\ WF_vars(ImportStep) /\ WF_vars(ViewStep)

Spec == Init /\ [][Next]_vars
FairSpec == Spec /\ Fairness

----------------------------------------------------------------------------
\* What the code promises.

\* The credits of a record that was imported are in the row of its user,
\* unless a later record of the same day took their place, a login of the
\* user wrote back what it had read before, or the row appeared meanwhile.
CreditIsKept ==
  \A r \in imported \ (replaced \cup overlapped \cup outrun) :
    \E n \in RowsOf(PersonOf[r]) : rows[n].credits[DayOf[r]] = r

\* A file is processed only when each record a name can be found for has been
\* imported, however often the directory, the database or the service failed.
ProcessedIsImported ==
  \A f \in processed : \A r \in ToSet(RecordsOf[f]) :
    r \in ByEmail \/ PersonOf[r] \in Enrolled => r \in imported

\* Users are marked as having the plugin exactly if they do: a login answered
\* 200 has marked its user, unless the row appeared between its SELECT and its
\* INSERT, and nobody else is marked but by an import that ran into another
\* spelling of a new user.
AcceptedIsMarked ==
  \A l \in Logins : pc[l] = "ok" =>
    \/ l \in outrun \ clashed
    \/ \E n \in RowsOf(Subject(l)) : rows[n].plugin
MarkedHasLoggedIn ==
  \A n \in Names : rows[n] # NoRow /\ rows[n].plugin =>
    \/ \E l \in Logins : name[l] # NoName /\ Who[name[l]] = Who[n]
    \/ \E r \in clashed \cap Records : PersonOf[r] = Who[n]
MarksAreExact == AcceptedIsMarked /\ MarkedHasLoggedIn

\* A host is listed under a name the user table has, so that the page counts it.
HostsAreCounted ==
  \A l \in Logins \ clashed : hosts[l] # NoName => rows[hosts[l]] # NoRow

\* Once a copy of the directory has reached a user, no login changes its id.
DirectoryIdWins ==
  \A p \in synced : \E n \in RowsOf(p) : rows[n].id = p

\* The user of a report or a login the directory lists is found, unless a
\* listing has failed since the cache last expired.
FailureIsForgotten == misled = {}

\* Every file is processed in the end unless it is not listed any longer (or not
\* yet), and every enrolled user keeps a row with its id, whatever failed before.
EverythingArrives ==
  /\ \A f \in FileSet : <>[](f \in processed \/ ~Listed(f))
  /\ \A p \in Enrolled : <>[](\E n \in RowsOf(p) : rows[n].id = p)
=============================================================================
