-------------------------- MODULE DirectoryProofs --------------------------
(***************************************************************************)
(* Proofs about Directory for any people, spellings, logins, files and     *)
(* failures: the user table has one row per user, no credit is lost but in *)
(* the three races CreditIsKept names, files are done with only when their *)
(* records are in, marks and hosts are exact, and no login changes the id  *)
(* that the directory gave a user.                                         *)
(***************************************************************************)
EXTENDS Directory, TLAPS

Writing == {"find", "insert", "raced", "update"}
Copying == {"copy", "add", "commit"}

\* The steps of each kind of process.
ControlOK ==
  /\ \A l \in Logins : pc[l] \in Writing \cup {"new", "listing", "host", "ok", "error"}
  /\ \A q \in Reports : pc[q] \in {"new", "listing", "ok", "error"}
  /\ pc[Viewer] \in Copying \cup {"idle"}
  /\ pc[Importer] \in Copying \cup Writing \cup {"idle", "list", "files", "record"}

\* A transaction of the directory copy counts its users, has inserted only
\* those who still have no row, and updated only rows that stay.
CopyInv ==
  \A c \in Copiers :
    /\ pc[c] \in {"copy", "add"} => copied[c] < Len(Directory)
    /\ pc[c] \notin Copying => copied[c] = 0
    /\ \A p \in added[c] : RowsOf(p) = {}
    /\ \A p \in changed[c] : RowsOf(p) # {}

\* Two transactions never insert the same user: the second waits.
InsertsAreDisjoint == added[Importer] \cap added[Viewer] = {}

\* What a writer knows of its user at each step.
WriterOK(w) ==
  /\ pc[w] \in Writing => name[w] \in Names
  /\ pc[w] = "update" => rows[name[w]] # NoRow /\ snap[w] # NoRow
  /\ pc[w] = "raced" => RowsOf(Subject(w)) # {} /\ Item(w) \in clashed
LoginOK(l) ==
  /\ pc[l] \in {"host", "ok"} => name[l] \in Names
  /\ pc[l] \in {"new", "listing"} => name[l] = NoName
  /\ pc[l] \in {"new", "listing", "find", "insert"} => l \notin outrun
ImporterOK ==
  pc[Importer] \in Writing => left # <<>> /\ Who[name[Importer]] = PersonOf[Record]
WriterInv == (\A w \in Writers : WriterOK(w)) /\ (\A l \in Logins : LoginOK(l)) /\ ImporterOK

\* Records whose credit must be in the row of their user.
Kept == imported \ (replaced \cup overlapped \cup outrun)

\* A writer about to write back what it read writes back all of them.
SnapInv ==
  \A w \in Writers : pc[w] = "update" =>
    \A r \in Kept : PersonOf[r] = Who[name[w]] => snap[w].credits[DayOf[r]] = r

Resolvable(r) == r \in ByEmail \/ PersonOf[r] \in Enrolled

\* The records of the file at hand that have been read are imported, unless
\* one was skipped for want of the directory.
FileInv ==
  pc[Importer] \in Writing \cup {"record"} =>
    /\ file \in FileSet
    /\ \A r \in ToSet(RecordsOf[file]) : Resolvable(r) =>
         r \in imported \cup ToSet(left) \/ (unresolved /\ ~idcOk)

\* A login whose userSync returned has marked its user, and written a row.
HostInv ==
  \A l \in Logins : pc[l] \in {"host", "ok"} =>
    /\ l \in outrun \ clashed \/ \E n \in RowsOf(Subject(l)) : rows[n].plugin
    /\ pc[l] = "host" /\ l \notin clashed => rows[name[l]] # NoRow

CacheInv == cache = "empty" => listFailed

IInv == /\ TypeOK /\ ControlOK /\ CopyInv /\ InsertsAreDisjoint /\ WriterInv /\ SnapInv
        /\ FileInv /\ HostInv /\ CacheInv
        /\ CreditIsKept /\ ProcessedIsImported /\ MarkedHasLoggedIn /\ HostsAreCounted
        /\ DirectoryIdWins /\ FailureIsForgotten

----------------------------------------------------------------------------
WriterStep(w) == Find(w) \/ Insert(w) \/ Raced(w) \/ Update(w)
CopyStep(c) ==
  Begin(c) \/ CopyUser(c) \/ AddUser(c) \/ SkipUser(c) \/ CopyCommits(c) \/ CopyFails(c)
HostStep(l) == UpsertPlugin(l) \/ LoginFails(l)
FileStep == StartImport \/ ListingFails \/ NextFile \/ NextRecord \/ EndFile \/ FileFails
ServiceStep == Expire \/ DayPasses \/ Restart \/ UNCHANGED vars

\* Who can take a step.
LEMMA StepKinds ==
  ASSUME [Next]_vars
  PROVE  \/ \E q \in Requests : Arrive(q) \/ ListUsers(q)
         \/ \E w \in Writers : WriterStep(w)
         \/ \E l \in Logins : HostStep(l)
         \/ \E c \in Copiers : CopyStep(c)
         \/ FileStep \/ ServiceStep
<1> QED
  BY DEF Next, LookUpStep, LoginStep, ImportStep, ViewStep, WriterStep, CopyStep, HostStep,
     FileStep, ServiceStep, Writers, Copiers

LEMMA Distinct ==
  /\ Importer # Viewer /\ Importer \notin Logins /\ Importer \notin Reports
  /\ Viewer \notin Logins /\ Viewer \notin Reports /\ Logins \cap Reports = {}
  /\ Importer \notin Requests /\ Viewer \notin Requests
  /\ Requests \subseteq Processes /\ Copiers \subseteq Processes /\ Writers \subseteq Processes
  /\ Logins \subseteq Requests /\ Reports \subseteq Requests
  /\ Importer \in Copiers /\ Viewer \in Copiers /\ Importer \in Writers /\ Logins \subseteq Writers
<1> QED BY NamesAssumption DEF NamesAssumption, Requests, Copiers, Writers, Processes

\* A user with a row has one row.
LEMMA OneRow ==
  ASSUME TypeOK, NEW p, RowsOf(p) # {}
  PROVE  /\ TheRow(p) \in RowsOf(p) /\ TheRow(p) \in Names /\ Who[TheRow(p)] = p
         /\ rows[TheRow(p)] # NoRow /\ rows[TheRow(p)] \in Row
         /\ \A n \in RowsOf(p) : n = TheRow(p)
<1>1. TheRow(p) \in RowsOf(p)
  BY DEF TheRow
<1> QED BY <1>1 DEF RowsOf, TypeOK

\* The records of a file come one by one.
LEMMA Records1 ==
  ASSUME left \in Seq(Records), left # <<>>
  PROVE  /\ Record \in Records /\ Tail(left) \in Seq(Records)
         /\ ToSet(left) \subseteq {Record} \cup ToSet(Tail(left))
<1>1. Len(left) \in Nat /\ Len(left) >= 1 /\ DOMAIN left = 1 .. Len(left)
  OBVIOUS
<1>2. Record \in Records /\ Tail(left) \in Seq(Records)
  BY <1>1 DEF Record
<1>3. ASSUME NEW i \in 1 .. Len(left), i # 1
      PROVE  left[i] \in ToSet(Tail(left))
  <2>1. i - 1 \in 1 .. Len(Tail(left)) /\ Tail(left)[i - 1] = left[i]
    BY <1>1, <1>3
  <2>2. DOMAIN Tail(left) = 1 .. Len(Tail(left))
    BY <1>2
  <2> QED BY <2>1, <2>2 DEF ToSet
<1> QED BY <1>1, <1>2, <1>3 DEF ToSet, Record

LEMMA Next1Typed ==
  ASSUME NEW c, copied[c] \in Nat, copied[c] < Len(Directory)
  PROVE  Next1(c) \in Enrolled /\ Next1(c) \in Persons /\ copied[c] + 1 \in 0 .. Len(Directory)
<1>1. copied[c] + 1 \in 1 .. Len(Directory)
  BY TablesAssumption DEF TablesAssumption
<1> QED BY <1>1, TablesAssumption DEF TablesAssumption, Next1, Enrolled, ToSet

LEMMA EnrolledPersons == Enrolled \subseteq Persons
<1> QED BY TablesAssumption DEF TablesAssumption, Enrolled, ToSet

LEMMA NewRowTyped == NewRow \in Row /\ NewRow # NoRow /\ ~NewRow.plugin /\ NewRow.id = NoPerson
<1>1. NewRow \in Row
  BY DEF NewRow, Row
<1> QED BY <1>1, NamesAssumption DEF NamesAssumption, NewRow

----------------------------------------------------------------------------
\* What each step does to the user table.

Credits == [Days -> Records \cup {NoRecord}]

\* Row n is written; the others stay.
Written(n, id, credits, plugin) ==
  /\ rows' \in [Names -> Row \cup {NoRow}]
  /\ rows'[n] \in Row
  /\ rows'[n].id = id /\ rows'[n].credits = credits /\ rows'[n].plugin = plugin
  /\ \A m \in Names \ {n} : rows'[m] = rows[m]

LEMMA CreditedTyped ==
  ASSUME TypeOK, NEW w, w = Importer => left # <<>>, NEW credits \in Credits
  PROVE  Credited(w, credits) \in Credits
<1>1. CASE w = Importer
  <2>1. Record \in Records /\ DayOf[Record] \in Days
    BY <1>1, Records1, TablesAssumption DEF TypeOK, TablesAssumption
  <2> QED BY <1>1, <2>1 DEF Credited, Credits
<1> QED BY <1>1 DEF Credited

LEMMA FilledTyped ==
  ASSUME NEW w \in Writers, NEW id \in Persons \cup {NoPerson}
  PROVE  FilledId(w, id) \in Persons \cup {NoPerson} /\ (id # NoPerson => FilledId(w, id) = id)
<1> QED BY TablesAssumption, Distinct DEF TablesAssumption, FilledId, Writers

LEMMA Functional ==
  ASSUME NEW S, NEW T, NEW f, f = [m \in S |-> f[m]], NEW n \in S, f[n] \in T,
         \A m \in S \ {n} : f[m] \in T
  PROVE  f \in [S -> T]
<1>1. \A m \in S : f[m] \in T
  OBVIOUS
<1>2. [m \in S |-> f[m]] \in [S -> T]
  BY <1>1
<1> QED BY <1>2

LEMMA InsertRow ==
  ASSUME TypeOK, WriterInv, NEW w \in Writers, Insert(w)
  PROVE  \/ /\ RowsOf(Subject(w)) = {} /\ ~Inserting(Subject(w)) /\ Returned(w)
            /\ Written(name[w], IF w = Importer THEN NoPerson ELSE IdOf[w],
                       Credited(w, NewRow.credits), w # Importer)
            /\ UNCHANGED <<outrun, clashed>>
         \/ /\ name[w] \in RowsOf(Subject(w)) /\ Returned(w)
            /\ outrun' = outrun \cup {Item(w)} /\ UNCHANGED <<rows, clashed>>
         \/ /\ RowsOf(Subject(w)) # {} /\ pc' = [pc EXCEPT ![w] = "raced"]
            /\ outrun' = outrun \cup {Item(w)} /\ clashed' = clashed \cup {Item(w)}
            /\ UNCHANGED <<rows, writers, left, imported, replaced>>
<1>1. name[w] \in Names /\ (w = Importer => left # <<>>)
  BY DEF Insert, WriterInv, WriterOK, ImporterOK, Writing
<1>2. NewRow.credits \in Credits
  BY NewRowTyped DEF Row, Credits
<1> DEFINE id == IF w = Importer THEN NoPerson ELSE IdOf[w]
           R == [id |-> id, credits |-> Credited(w, NewRow.credits), plugin |-> w # Importer]
<1>3. R \in Row
  <2>1. id \in Persons \cup {NoPerson}
    BY TablesAssumption, Distinct DEF TablesAssumption, Writers
  <2> QED BY <2>1, <1>1, <1>2, CreditedTyped DEF Row, Credits
<1>4. ASSUME rows' = [rows EXCEPT ![name[w]] = R]
      PROVE  Written(name[w], id, Credited(w, NewRow.credits), w # Importer)
  <2> HIDE DEF R
  <2>1. rows'[name[w]] = R
    BY <1>1, <1>4 DEF TypeOK
  <2>2. R.id = id /\ R.credits = Credited(w, NewRow.credits) /\ R.plugin = (w # Importer)
    BY DEF R
  <2> QED BY <1>1, <1>3, <1>4, <2>1, <2>2 DEF TypeOK, Written
<1> QED BY <1>4 DEF Insert, Goto

LEMMA RacedRow ==
  ASSUME TypeOK, WriterInv, NEW w \in Writers, Raced(w)
  PROVE  LET n == TheRow(Subject(w)) IN
         /\ n \in Names /\ rows[n] \in Row /\ Who[n] = Subject(w)
         /\ Written(n, FilledId(w, rows[n].id), rows[n].credits, TRUE)
<1> DEFINE n == TheRow(Subject(w))
<1>1. n \in Names /\ rows[n] \in Row /\ Who[n] = Subject(w)
  BY OneRow DEF Raced, WriterInv, WriterOK, ImporterOK
<1>2. FilledId(w, rows[n].id) \in Persons \cup {NoPerson}
  BY <1>1, FilledTyped DEF Row
<1>3. rows' = [rows EXCEPT ![n].plugin = TRUE, ![n].id = FilledId(w, @)]
  BY DEF Raced
<1> HIDE DEF n
<1>4. /\ rows' = [m \in Names |-> rows'[m]]
      /\ rows'[n] = [rows[n] EXCEPT !.plugin = TRUE, !.id = FilledId(w, @)]
      /\ \A m \in Names \ {n} : rows'[m] = rows[m]
  BY <1>1, <1>3 DEF TypeOK
<1>6. rows'[n] = [id |-> FilledId(w, rows[n].id), credits |-> rows[n].credits, plugin |-> TRUE]
  BY <1>1, <1>4 DEF Row
<1>7. rows'[n] \in Row
  BY <1>1, <1>2, <1>6 DEF Row
<1>8. rows' \in [Names -> Row \cup {NoRow}]
  <2>1. \A m \in Names \ {n} : rows'[m] \in Row \cup {NoRow}
    BY <1>4 DEF TypeOK
  <2> QED BY <1>1, <1>4, <1>7, <2>1, Functional
<1>5. Written(n, FilledId(w, rows[n].id), rows[n].credits, TRUE)
  BY <1>4, <1>6, <1>7, <1>8 DEF Written
<1> QED BY <1>1, <1>5 DEF n

LEMMA UpdateRow ==
  ASSUME TypeOK, WriterInv, NEW w \in Writers, Update(w)
  PROVE  /\ name[w] \in Names /\ rows[name[w]] \in Row /\ snap[w] \in Row
         /\ Written(name[w], FilledId(w, rows[name[w]].id), Credited(w, snap[w].credits),
                    rows[name[w]].plugin \/ w # Importer)
<1> DEFINE n == name[w]
           id == FilledId(w, rows[n].id)
           cr == Credited(w, snap[w].credits)
           pl == rows[n].plugin \/ w # Importer
<1>1. n \in Names /\ rows[n] \in Row /\ snap[w] \in Row /\ (w = Importer => left # <<>>)
  BY DEF Update, WriterInv, WriterOK, ImporterOK, Writing, TypeOK
<1>2. id \in Persons \cup {NoPerson} /\ cr \in Credits /\ pl \in BOOLEAN
  BY <1>1, FilledTyped, CreditedTyped DEF Row, Credits
<1>3. rows' = [rows EXCEPT ![n].credits = cr, ![n].plugin = @ \/ w # Importer,
                           ![n].id = FilledId(w, @)]
  BY DEF Update
<1>4. /\ rows' = [m \in Names |-> rows'[m]]
      /\ rows'[n] = [rows[n] EXCEPT !.credits = cr, !.plugin = @ \/ w # Importer,
                                    !.id = FilledId(w, @)]
      /\ \A m \in Names \ {n} : rows'[m] = rows[m]
  <2> HIDE DEF n, cr
  <2> QED BY <1>1, <1>3 DEF TypeOK
<1>6. rows'[n] = [id |-> id, credits |-> cr, plugin |-> pl]
  <2> HIDE DEF n, cr
  <2> QED BY <1>1, <1>4 DEF Row
<1>7. rows'[n] \in Row
  <2> HIDE DEF n, cr, id, pl
  <2> QED BY <1>1, <1>2, <1>6 DEF Row, Credits
<1>8. rows' \in [Names -> Row \cup {NoRow}]
  <2> HIDE DEF n, cr, id, pl
  <2>1. \A m \in Names \ {n} : rows'[m] \in Row \cup {NoRow}
    BY <1>4 DEF TypeOK
  <2> QED BY <1>1, <1>4, <1>7, <2>1, Functional
<1>5. Written(n, id, cr, pl)
  <2> HIDE DEF n, cr, id, pl
  <2>1. rows'[n].id = id /\ rows'[n].credits = cr /\ rows'[n].plugin = pl
    BY <1>6
  <2> QED BY <1>4, <1>7, <1>8, <2>1 DEF Written
<1> QED BY <1>1, <1>5

LEMMA CommitRows ==
  ASSUME TypeOK, CopyInv, NEW c \in Copiers, CopyCommits(c)
  PROVE  /\ rows' \in [Names -> Row \cup {NoRow}]
         /\ \A n \in Names : rows[n] # NoRow =>
              /\ rows'[n] \in Row
              /\ rows'[n].credits = rows[n].credits /\ rows'[n].plugin = rows[n].plugin
              /\ rows'[n].id = rows[n].id \/ rows'[n].id = Who[n]
              /\ Who[n] \in changed[c] => rows'[n].id = Who[n]
         /\ \A n \in Names : rows[n] = NoRow /\ rows'[n] # NoRow =>
              n = Canonical[Who[n]] /\ Who[n] \in added[c] /\ ~rows'[n].plugin
         /\ \A p \in added[c] :
              LET n == Canonical[p] IN
              n \in Names /\ Who[n] = p /\ rows'[n] # NoRow /\ rows'[n].id = p
<1> DEFINE new == {Canonical[p] : p \in added[c]}
           old == {n \in Names : rows[n] # NoRow /\ Who[n] \in changed[c]}
           After(n) == IF n \in new THEN [NewRow EXCEPT !.id = Who[n]]
                       ELSE IF n \in old THEN [rows[n] EXCEPT !.id = Who[n]] ELSE rows[n]
<1>1. \A n \in Names : Who[n] \in Persons
  BY TablesAssumption DEF TablesAssumption
<1>2. \A p \in added[c] : /\ Canonical[p] \in Names /\ Who[Canonical[p]] = p
                          /\ rows[Canonical[p]] = NoRow
  BY TablesAssumption DEF TypeOK, TablesAssumption, CopyInv, RowsOf
<1>3. rows' = [n \in Names |-> After(n)]
  BY DEF CopyCommits
<1>4. ASSUME NEW n \in Names, n \in new
      PROVE  /\ rows[n] = NoRow /\ After(n) \in Row /\ After(n).id = Who[n] /\ ~After(n).plugin
             /\ n = Canonical[Who[n]] /\ Who[n] \in added[c]
  <2>1. rows[n] = NoRow /\ n = Canonical[Who[n]] /\ Who[n] \in added[c]
    BY <1>2, <1>4
  <2>2. /\ [NewRow EXCEPT !.id = Who[n]] \in Row /\ [NewRow EXCEPT !.id = Who[n]].id = Who[n]
        /\ ~[NewRow EXCEPT !.id = Who[n]].plugin
    BY <1>1, NewRowTyped DEF Row
  <2> QED BY <1>4, <2>1, <2>2
<1>5. ASSUME NEW n \in Names, rows[n] # NoRow
      PROVE  /\ After(n) \in Row /\ After(n).credits = rows[n].credits
             /\ After(n).plugin = rows[n].plugin
             /\ After(n).id = rows[n].id \/ After(n).id = Who[n]
             /\ Who[n] \in changed[c] => After(n).id = Who[n]
  <2>1. n \notin new /\ rows[n] \in Row
    BY <1>2, <1>5 DEF TypeOK
  <2>2. CASE Who[n] \in changed[c]
    <3>1. After(n) = [rows[n] EXCEPT !.id = Who[n]]
      BY <1>5, <2>1, <2>2
    <3> QED BY <1>1, <2>1, <2>2, <3>1 DEF Row
  <2>3. CASE Who[n] \notin changed[c]
    <3>1. After(n) = rows[n]
      BY <2>1, <2>3
    <3> QED BY <2>1, <2>3, <3>1
  <2> QED BY <2>2, <2>3
<1>6. \A n \in Names : rows[n] = NoRow /\ n \notin new => After(n) = NoRow
  OBVIOUS
<1> HIDE DEF After
<1>7. \A n \in Names : rows'[n] = After(n)
  BY <1>3
<1>8. rows' \in [Names -> Row \cup {NoRow}]
  BY <1>3, <1>4, <1>5, <1>6
<1>9. \A p \in added[c] : Canonical[p] \in new
  OBVIOUS
<1> QED BY <1>2, <1>4, <1>5, <1>6, <1>7, <1>8, <1>9, NamesAssumption DEF NamesAssumption

\* No row goes; none loses its mark or the id the directory has for its user.
RowsKept ==
  \A n \in Names : rows[n] # NoRow =>
    /\ rows'[n] # NoRow
    /\ rows[n].plugin => rows'[n].plugin
    /\ rows[n].id = Who[n] => rows'[n].id = Who[n]

\* The table: its types, one row per user.
TableOK ==
  /\ rows \in [Names -> Row \cup {NoRow}]
  /\ \A m, n \in Names : rows[m] # NoRow /\ rows[n] # NoRow /\ Who[m] = Who[n] => m = n

LEMMA TableStep ==
  ASSUME IInv, [Next]_vars PROVE TableOK' /\ RowsKept
<1> USE DEF IInv
<1>0. TableOK
  BY DEF TypeOK, TableOK
<1>1. ASSUME UNCHANGED rows PROVE TableOK' /\ RowsKept
  BY <1>0, <1>1 DEF TableOK, RowsKept
<1>2. ASSUME NEW n \in Names, NEW i, NEW cr, NEW pl, Written(n, i, cr, pl),
             \/ RowsOf(Who[n]) = {}
             \/ /\ rows[n] # NoRow /\ (rows[n].plugin => pl)
                /\ rows[n].id = Who[n] => i = Who[n]
      PROVE  TableOK' /\ RowsKept
  BY <1>0, <1>2, NamesAssumption DEF TableOK, RowsKept, Written, RowsOf, NamesAssumption
<1>3. ASSUME NEW w \in Writers, Insert(w) PROVE TableOK' /\ RowsKept
  <2>1. name[w] \in Names
    BY <1>3 DEF Insert, WriterInv, WriterOK, ImporterOK, Writing
  <2> QED BY <1>1, <1>2, <1>3, <2>1, InsertRow DEF Subject
<1>4. ASSUME NEW n \in Names, rows[n] \in Row, NEW w \in Writers, rows[n].id = Who[n]
      PROVE  FilledId(w, rows[n].id) = Who[n]
  BY <1>4, FilledTyped, NamesAssumption, TablesAssumption
  DEF Row, NamesAssumption, TablesAssumption
<1>5. ASSUME NEW w \in Writers, Raced(w) PROVE TableOK' /\ RowsKept
  <2> DEFINE n == TheRow(Subject(w))
  <2>1. /\ n \in Names /\ rows[n] \in Row
        /\ Written(n, FilledId(w, rows[n].id), rows[n].credits, TRUE)
    BY <1>5, RacedRow
  <2>2. rows[n] # NoRow /\ (rows[n].id = Who[n] => FilledId(w, rows[n].id) = Who[n])
    BY <1>4, <2>1, NamesAssumption DEF NamesAssumption
  <2> HIDE DEF n
  <2> QED BY <1>2, <2>1, <2>2
<1>6. ASSUME NEW w \in Writers, Update(w) PROVE TableOK' /\ RowsKept
  <2> DEFINE n == name[w]
  <2>1. /\ n \in Names /\ rows[n] \in Row
        /\ Written(n, FilledId(w, rows[n].id), Credited(w, snap[w].credits),
                   rows[n].plugin \/ w # Importer)
    BY <1>6, UpdateRow
  <2>2. rows[n] # NoRow /\ (rows[n].id = Who[n] => FilledId(w, rows[n].id) = Who[n])
    BY <1>4, <2>1, NamesAssumption DEF NamesAssumption
  <2> HIDE DEF n
  <2> QED BY <1>2, <2>1, <2>2
<1>7. ASSUME NEW c \in Copiers, CopyCommits(c) PROVE TableOK' /\ RowsKept
  <2>1. RowsKept
    BY <1>7, CommitRows, NamesAssumption DEF RowsKept, NamesAssumption
  <2>2. \A n \in Names, p \in added[c] : rows[n] # NoRow => Who[n] # p
    BY DEF CopyInv, RowsOf
  <2>3. \A m, n \in Names : rows'[m] # NoRow /\ rows'[n] # NoRow /\ Who[m] = Who[n] => m = n
    BY <1>0, <1>7, <2>2, CommitRows DEF TableOK
  <2> QED BY <1>7, <2>1, <2>3, CommitRows DEF TableOK
<1>8. CASE \/ \E q \in Requests : Arrive(q) \/ ListUsers(q)
           \/ \E w \in Writers : Find(w)
           \/ \E l \in Logins : HostStep(l)
           \/ \E c \in Copiers : CopyStep(c) /\ ~CopyCommits(c)
           \/ FileStep \/ ServiceStep
  BY <1>1, <1>8 DEF Arrive, ListUsers, Find, HostStep, UpsertPlugin, LoginFails, CopyStep,
     Begin, CopyUser, AddUser, SkipUser, CopyFails, FileStep, StartImport, ListingFails, NextFile, NextRecord,
     EndFile, FileFails, ServiceStep, Expire, DayPasses, Restart, tables, vars
<1> QED BY <1>3, <1>5, <1>6, <1>7, <1>8, StepKinds DEF WriterStep

LEMMA RowsGrow ==
  ASSUME TableOK, TableOK', RowsKept, NEW p
  PROVE  RowsOf(p) \subseteq RowsOf(p)'
<1> QED BY DEF RowsOf, RowsKept

----------------------------------------------------------------------------
\* The types of everything but the table, in parts.
PcTyped == pc \in [Processes -> Steps]
ServiceTyped == /\ hosts \in [Logins -> Names \cup {NoName}]
                /\ cache \in {"none", "full", "empty"} /\ listFailed \in BOOLEAN
                /\ misled \subseteq Requests /\ faults \in 0 .. MaxFaults
WritersTyped ==
  name \in [Writers -> Names \cup {NoName}] /\ snap \in [Writers -> Row \cup {NoRow}]
CopiesTyped == /\ copied \in [Copiers -> 0 .. Len(Directory)]
               /\ changed \in [Copiers -> SUBSET Persons] /\ added \in [Copiers -> SUBSET Persons]
               /\ synced \subseteq Persons
ImportTyped == /\ idcOk \in BOOLEAN /\ unresolved \in BOOLEAN /\ file \in FileSet \cup {NoFile}
               /\ left \in Seq(Records) /\ passed \subseteq FileSet /\ processed \subseteq FileSet
               /\ today \in 0 .. LastDay
RecordsTyped ==
  /\ imported \subseteq Records /\ replaced \subseteq Records /\ overlapped \subseteq Records
  /\ outrun \subseteq Logins \cup Records /\ clashed \subseteq outrun
RestTyped == PcTyped /\ ServiceTyped /\ WritersTyped /\ CopiesTyped /\ ImportTyped /\ RecordsTyped

LEMMA RestOfTypes == TypeOK <=> TableOK /\ RestTyped
<1> QED BY DEF TypeOK, TableOK, RestTyped, PcTyped, ServiceTyped, WritersTyped, CopiesTyped,
           ImportTyped, RecordsTyped

LEMMA FaultTyped == ASSUME ServiceTyped, Fault PROVE faults' \in 0 .. MaxFaults
<1> QED BY BoundsAssumption DEF ServiceTyped, Fault, BoundsAssumption

\* Steps that leave a group of variables alone leave its types alone.
LEMMA TypesStay ==
  ASSUME RestTyped
  PROVE  /\ UNCHANGED pc => PcTyped'
         /\ UNCHANGED <<hosts, cache, listFailed, misled, faults>> => ServiceTyped'
         /\ UNCHANGED writers => WritersTyped'
         /\ UNCHANGED <<copied, changed, added, synced>> => CopiesTyped'
         /\ UNCHANGED import => ImportTyped'
         /\ UNCHANGED <<imported, replaced, overlapped, outrun, clashed>> => RecordsTyped'
         /\ \A p \in Processes, s \in Steps : Goto(p, s) => PcTyped'
<1> QED BY DEF RestTyped, PcTyped, ServiceTyped, WritersTyped, CopiesTyped, ImportTyped,
           RecordsTyped, writers, import, Goto

LEMMA ReturnedTyped ==
  ASSUME TypeOK, WriterInv, NEW w \in Writers, pc[w] \in Writing, Returned(w)
  PROVE  /\ pc' \in [Processes -> Steps] /\ snap' \in [Writers -> Row \cup {NoRow}]
         /\ name' \in [Writers -> Names \cup {NoName}]
         /\ left' \in Seq(Records) /\ imported' \subseteq Records /\ replaced' \subseteq Records
<1>1. CASE w = Importer
  <2>1. Record \in Records /\ Tail(left) \in Seq(Records)
    BY <1>1, Records1 DEF TypeOK, WriterInv, WriterOK, ImporterOK
  <2> QED BY <1>1, <2>1, Distinct DEF Returned, TypeOK, Goto, Steps, Others
<1>2. CASE w # Importer
  BY <1>2, Distinct DEF Returned, TypeOK, Goto, Steps
<1> QED BY <1>1, <1>2

LEMMA ItemTyped ==
  ASSUME TypeOK, WriterInv, NEW w \in Writers, pc[w] \in Writing
  PROVE  /\ Item(w) \in Logins \cup Records
         /\ w = Importer => Item(w) = Record /\ Record \in Records
         /\ w # Importer => Item(w) = w /\ w \in Logins
<1> QED BY Records1, Distinct DEF TypeOK, WriterInv, WriterOK, ImporterOK, Item, Writers

LEMMA LookUpTypes ==
  ASSUME IInv, RestTyped, NEW q \in Requests, Arrive(q) \/ ListUsers(q) PROVE RestTyped'
<1> USE Distinct, TypesStay DEF RestTyped
<1>1. PcTyped' /\ WritersTyped'
  <2>1. ASSUME NEW m, LookUp(q, m), UNCHANGED snap PROVE PcTyped' /\ WritersTyped'
    <3>1. CASE q \in Reports
      BY <2>1, <3>1 DEF LookUp, Steps, writers
    <3>2. CASE q \notin Reports
      <4>1. q \in Logins /\ IdOf[q] \in Persons \cup {NoPerson}
        BY <3>2, TablesAssumption DEF Requests, TablesAssumption
      <4>2. \A p \in Enrolled : Canonical[p] \in Names
        BY EnrolledPersons, TablesAssumption DEF TablesAssumption
      <4>3. Unknown \in Names
        BY TablesAssumption DEF TablesAssumption
      <4> QED BY <2>1, <3>2, <4>1, <4>2, <4>3 DEF LookUp, Steps, WritersTyped
    <3> QED BY <3>1, <3>2
  <2>2. q \in Logins => LoginName[q] \in Names
    BY TablesAssumption DEF TablesAssumption
  <2>3. ~Unresolved(q) => q \in Logins
    BY DEF Unresolved
  <2>4. CASE ListUsers(q)
    BY <2>1, <2>4 DEF ListUsers
  <2>5. CASE Arrive(q)
    <3>1. \/ Goto(q, "listing") /\ UNCHANGED <<name, snap>>
          \/ LookUp(q, cache) /\ UNCHANGED snap
          \/ /\ Goto(q, "find") /\ q \in Logins /\ UNCHANGED snap
             /\ name' = [name EXCEPT ![q] = LoginName[q]]
      BY <2>3, <2>5 DEF Arrive
    <3>2. CASE Goto(q, "listing") /\ UNCHANGED <<name, snap>>
      BY <3>2 DEF Steps, writers
    <3>3. CASE Goto(q, "find") /\ q \in Logins /\ UNCHANGED snap
               /\ name' = [name EXCEPT ![q] = LoginName[q]]
      BY <2>2, <3>3 DEF Steps, WritersTyped
    <3> QED BY <2>1, <3>1, <3>2, <3>3
  <2> QED BY <2>4, <2>5
<1>2. ServiceTyped'
  BY FaultTyped DEF Arrive, ListUsers, ServiceTyped, tables
<1>3. CopiesTyped' /\ ImportTyped' /\ RecordsTyped'
  BY DEF Arrive, ListUsers, copies
<1> QED BY <1>1, <1>2, <1>3

LEMMA WriterTypes ==
  ASSUME IInv, RestTyped, NEW w \in Writers, WriterStep(w) PROVE RestTyped'
<1> USE Distinct, TypesStay DEF RestTyped, IInv
<1>1. CASE Find(w)
  <2>1. WritersTyped'
    BY <1>1, OneRow DEF Find, WritersTyped, writers
  <2> QED BY <1>1, <2>1 DEF Find, Steps, tables, copies, history
<1>2. CASE Insert(w)
  <2>1. Item(w) \in Logins \cup Records
    BY <1>2, ItemTyped DEF Insert, Writing
  <2>2. RecordsTyped' /\ PcTyped' /\ WritersTyped' /\ left' \in Seq(Records)
    <3>1. CASE Returned(w)
      BY <1>2, <2>1, <3>1, ReturnedTyped
      DEF Insert, Writing, PcTyped, WritersTyped, RecordsTyped
    <3>2. CASE ~Returned(w)
      BY <1>2, <2>1, <3>2
      DEF Insert, Steps, PcTyped, WritersTyped, RecordsTyped, ImportTyped, Goto, writers
    <3> QED BY <3>1, <3>2
  <2> QED BY <1>2, <2>2 DEF Insert, copies, ImportTyped
<1>3. CASE Raced(w)
  BY <1>3, ReturnedTyped DEF Raced, Writing, PcTyped, WritersTyped, RecordsTyped, ImportTyped,
     copies
<1>4. CASE Update(w)
  <2>1. w = Importer => Record \in Records
    BY <1>4, ItemTyped DEF Update, Writing
  <2>2. overlapped' \subseteq Records
    BY <1>4, <2>1 DEF Update, RecordsTyped
  <2> QED
    BY <1>4, <2>2, ReturnedTyped DEF Update, Writing, PcTyped, WritersTyped, RecordsTyped,
       ImportTyped, copies
<1> QED BY <1>1, <1>2, <1>3, <1>4 DEF WriterStep

LEMMA HostTypes ==
  ASSUME IInv, RestTyped, NEW l \in Logins, HostStep(l) PROVE RestTyped'
<1> USE Distinct, TypesStay DEF RestTyped, IInv
<1>1. CASE UpsertPlugin(l)
  <2>1. ServiceTyped'
    BY <1>1 DEF UpsertPlugin, ServiceTyped, WritersTyped, history, writers
  <2> QED BY <1>1, <2>1 DEF UpsertPlugin, Steps, copies, history
<1>2. CASE LoginFails(l)
  <2>1. ServiceTyped' /\ WritersTyped'
    BY <1>2, FaultTyped DEF LoginFails, ServiceTyped, WritersTyped, tables, history
  <2> QED BY <1>2, <2>1 DEF LoginFails, Steps, copies, history
<1> QED BY <1>1, <1>2 DEF HostStep

LEMMA CopyTypes ==
  ASSUME IInv, RestTyped, NEW c \in Copiers, CopyStep(c) PROVE RestTyped'
<1> USE Distinct, TypesStay DEF RestTyped, IInv
<1>1. CASE Begin(c)
  BY <1>1 DEF Begin, Steps, tables, copies, history
<1>2. CASE CopyUser(c) \/ AddUser(c) \/ SkipUser(c)
  <2>1. Next1(c) \in Persons /\ copied[c] + 1 \in 0 .. Len(Directory)
    BY <1>2, Next1Typed DEF CopyInv, CopiesTyped, CopyUser, AddUser, SkipUser
  <2>2. PcTyped'
    BY <1>2 DEF CopyUser, AddUser, SkipUser, Step1, Steps
  <2>3. copied' = copied \/ copied' = [copied EXCEPT ![c] = @ + 1]
    BY <1>2 DEF CopyUser, AddUser, SkipUser, Step1
  <2>4. changed' = changed \/ changed' = [changed EXCEPT ![c] = @ \cup {Next1(c)}]
    BY <1>2 DEF CopyUser, AddUser, SkipUser
  <2>5. added' = added \/ added' = [added EXCEPT ![c] = @ \cup {Next1(c)}]
    BY <1>2 DEF CopyUser, AddUser, SkipUser
  <2>6. CopiesTyped'
    <3>1. copied' \in [Copiers -> 0 .. Len(Directory)]
      BY <2>1, <2>3 DEF CopiesTyped
    <3>2. changed' \in [Copiers -> SUBSET Persons] /\ added' \in [Copiers -> SUBSET Persons]
      BY <2>1, <2>4, <2>5 DEF CopiesTyped
    <3>3. synced' = synced
      BY <1>2 DEF CopyUser, AddUser, SkipUser, history
    <3> QED BY <3>1, <3>2, <3>3 DEF CopiesTyped
  <2>7. ServiceTyped'
    BY <1>2, FaultTyped DEF CopyUser, AddUser, SkipUser, ServiceTyped, tables, history
  <2> QED BY <1>2, <2>2, <2>6, <2>7 DEF CopyUser, AddUser, SkipUser, history
<1>3. ASSUME EndCopy(c) PROVE PcTyped' /\ copied' \in [Copiers -> 0 .. Len(Directory)]
                              /\ changed' \in [Copiers -> SUBSET Persons]
                              /\ added' \in [Copiers -> SUBSET Persons]
                              /\ passed' \subseteq FileSet
  BY <1>3, TablesAssumption DEF EndCopy, Steps, CopiesTyped, ImportTyped, TablesAssumption
<1>4. CASE CopyCommits(c)
  <2>1. CopiesTyped' /\ ImportTyped'
    BY <1>3, <1>4, EnrolledPersons DEF CopyCommits, CopiesTyped, ImportTyped
  <2> QED BY <1>3, <1>4, <2>1 DEF CopyCommits
<1>5. CASE CopyFails(c)
  <2>1. CopiesTyped' /\ ServiceTyped' /\ ImportTyped'
    BY <1>3, <1>5, FaultTyped DEF CopyFails, CopiesTyped, ServiceTyped, ImportTyped, tables, history
  <2> QED BY <1>3, <1>5, <2>1 DEF CopyFails, history
<1> QED BY <1>1, <1>2, <1>4, <1>5 DEF CopyStep

LEMMA FileTypes ==
  ASSUME IInv, RestTyped, FileStep PROVE RestTyped'
<1> USE Distinct, TypesStay DEF RestTyped, IInv
<1>1. CASE StartImport
  BY <1>1 DEF StartImport, Steps, tables, copies, history
<1>2. CASE NextFile
  <2>1. \A i \in DOMAIN Files : Files[i] \in FileSet /\ RecordsOf[Files[i]] \in Seq(Records)
    BY TablesAssumption DEF TablesAssumption, FileSet, ToSet
  <2>2. PcTyped' /\ ImportTyped'
    BY <1>2, <2>1 DEF NextFile, Steps, ImportTyped
  <2> QED BY <1>2, <2>2 DEF NextFile, tables, copies, history
<1>3. CASE NextRecord
  <2>1. Record \in Records /\ Tail(left) \in Seq(Records)
    BY <1>3, Records1 DEF NextRecord, ImportTyped
  <2>2. Canonical[PersonOf[Record]] \in Names
    BY <2>1, TablesAssumption DEF TablesAssumption
  <2>3. ImportTyped' /\ WritersTyped' /\ PcTyped'
    BY <1>3, <2>1, <2>2 DEF NextRecord, Steps, ImportTyped, WritersTyped
  <2> QED BY <1>3, <2>3 DEF NextRecord, tables, copies, history
<1>4. CASE EndFile
  <2>1. file \in FileSet
    BY <1>4 DEF EndFile, FileInv
  <2>2. ImportTyped' /\ PcTyped'
    BY <1>4, <2>1 DEF EndFile, Steps, ImportTyped
  <2> QED BY <1>4, <2>2 DEF EndFile, tables, copies, history
<1>5. CASE FileFails
  <2>0. <<>> \in Seq(Records)
    OBVIOUS
  <2>2. ImportTyped' /\ PcTyped'
    BY <1>5, <2>0 DEF FileFails, Steps, ImportTyped
  <2>3. WritersTyped'
    BY <1>5 DEF FileFails, WritersTyped
  <2>4. ServiceTyped'
    BY <1>5, FaultTyped DEF FileFails, ServiceTyped, tables, history
  <2>1. ImportTyped' /\ PcTyped' /\ WritersTyped' /\ ServiceTyped'
    BY <2>2, <2>3, <2>4
  <2> QED BY <1>5, <2>1 DEF FileFails, copies, history
<1>6. CASE ListingFails
  <2>1. ImportTyped'
    BY <1>6 DEF ListingFails, ImportTyped
  <2>2. ServiceTyped'
    BY <1>6, FaultTyped DEF ListingFails, ServiceTyped, tables, history
  <2> QED BY <1>6, <2>1, <2>2 DEF ListingFails, copies, history
<1> QED BY <1>1, <1>2, <1>3, <1>4, <1>5, <1>6 DEF FileStep

LEMMA ServiceTypes ==
  ASSUME IInv, RestTyped, ServiceStep PROVE RestTyped'
<1> USE Distinct, TypesStay DEF RestTyped, IInv
<1>1. CASE Expire
  BY <1>1 DEF Expire, ServiceTyped, tables, copies
<1>2. CASE Restart
  <2>1. PcTyped'
    BY <1>2 DEF Restart, PcTyped, Steps
  <2>0. <<>> \in Seq(Records)
    OBVIOUS
  <2>4. ServiceTyped'
    BY <1>2, FaultTyped DEF Restart, ServiceTyped, tables
  <2>5. WritersTyped'
    BY <1>2 DEF Restart, WritersTyped
  <2>6. ImportTyped'
    BY <1>2, <2>0 DEF Restart, ImportTyped
  <2>2. ServiceTyped' /\ WritersTyped' /\ ImportTyped'
    BY <2>4, <2>5, <2>6
  <2>3. CopiesTyped'
    BY <1>2, TablesAssumption DEF Restart, CopiesTyped, TablesAssumption
  <2> QED BY <1>2, <2>1, <2>2, <2>3 DEF Restart
<1>3. CASE UNCHANGED vars
  BY <1>3 DEF vars, writers, import
<1>4. CASE DayPasses
  <2>1. ImportTyped'
    BY <1>4, BoundsAssumption DEF DayPasses, ImportTyped
  <2> QED BY <1>4, <2>1 DEF DayPasses, tables, copies, history
<1> QED BY <1>1, <1>2, <1>3, <1>4 DEF ServiceStep

LEMMA TypeStep ==
  ASSUME IInv, [Next]_vars PROVE TypeOK'
<1>1. RestTyped
  BY RestOfTypes DEF IInv
<1>2. RestTyped'
  BY <1>1, LookUpTypes, WriterTypes, HostTypes, CopyTypes, FileTypes, ServiceTypes, StepKinds
<1>3. TypeOK' <=> TableOK' /\ RestTyped'
  BY DEF TypeOK, TableOK, RestTyped, PcTyped, ServiceTyped, WritersTyped, CopiesTyped,
     ImportTyped, RecordsTyped
<1> QED BY <1>2, <1>3, TableStep

----------------------------------------------------------------------------
\* Where each process goes.
LEMMA ControlStep ==
  ASSUME IInv, [Next]_vars PROVE ControlOK'
<1> USE Distinct DEF IInv
<1>0. pc \in [Processes -> Steps]
  BY DEF TypeOK
<1>1. ASSUME NEW q \in Requests, Arrive(q) \/ ListUsers(q) PROVE ControlOK'
  <2>1. q \in Logins \/ q \in Reports
    BY DEF Requests
  <2>2. \/ pc' = [pc EXCEPT ![q] = "listing"]
        \/ q \in Reports /\ pc' = [pc EXCEPT ![q] = "ok"]
        \/ q \in Logins /\ pc' = [pc EXCEPT ![q] = "find"]
    BY <1>1, <2>1 DEF Arrive, ListUsers, LookUp, Goto, Unresolved
  <2> QED BY <1>0, <2>1, <2>2 DEF ControlOK, Writing, Copying
<1>2. ASSUME NEW w \in Writers, WriterStep(w) PROVE ControlOK'
  <2>1. \/ pc' = [pc EXCEPT ![w] = "insert"] \/ pc' = [pc EXCEPT ![w] = "update"]
        \/ pc' = [pc EXCEPT ![w] = "raced"]
        \/ w = Importer /\ pc' = [pc EXCEPT ![w] = "record"]
        \/ w # Importer /\ pc' = [pc EXCEPT ![w] = "host"]
    BY <1>2 DEF WriterStep, Find, Insert, Raced, Update, Returned, Goto
  <2> QED BY <1>0, <2>1 DEF ControlOK, Writing, Copying, Writers
<1>3. ASSUME NEW l \in Logins, HostStep(l) PROVE ControlOK'
  BY <1>0, <1>3 DEF HostStep, UpsertPlugin, LoginFails, Goto, ControlOK, Writing, Copying
<1>4. ASSUME NEW c \in Copiers, CopyStep(c) PROVE ControlOK'
  <2>1. \/ \E s \in Copying : pc' = [pc EXCEPT ![c] = s]
        \/ pc' = [pc EXCEPT ![c] = IF c = Importer THEN "files" ELSE "idle"]
    BY <1>4 DEF CopyStep, Begin, CopyUser, AddUser, SkipUser, CopyCommits, CopyFails, EndCopy, Step1,
       Goto, Copying
  <2> QED BY <1>0, <2>1 DEF ControlOK, Writing, Copying, Copiers
<1>5. CASE FileStep
  BY <1>0, <1>5 DEF FileStep, StartImport, ListingFails, NextFile, NextRecord, EndFile, FileFails, Goto,
     ControlOK, Writing, Copying
<1>6. CASE ServiceStep
  <2>1. UNCHANGED pc \/ \A p \in Processes : pc'[p] = IF p \in Copiers THEN "idle"
                          ELSE IF pc[p] \in {"new", "ok"} THEN pc[p] ELSE "error"
    BY <1>6 DEF ServiceStep, Expire, DayPasses, Restart, vars
  <2>2. \A q \in Requests : q \notin Copiers
    BY DEF Copiers
  <2> QED BY <2>1, <2>2 DEF ControlOK, Writing
<1> QED BY <1>1, <1>2, <1>3, <1>4, <1>5, <1>6, StepKinds

\* A new row comes from an INSERT that waited for the directory copies, or
\* from the commit of a copy.
LEMMA NewRows ==
  ASSUME IInv, [Next]_vars, NEW n \in Names, rows[n] = NoRow, rows'[n] # NoRow
  PROVE  \/ /\ ~Inserting(Who[n]) /\ RowsOf(Who[n]) = {}
            /\ \E w \in Writers : Insert(w) /\ n = name[w]
         \/ \E c \in Copiers : CopyCommits(c) /\ Who[n] \in added[c]
<1> USE DEF IInv
<1>1. ASSUME NEW w \in Writers, Insert(w)
      PROVE  /\ ~Inserting(Who[n]) /\ RowsOf(Who[n]) = {}
             /\ \E v \in Writers : Insert(v) /\ n = name[v]
  <2>1. /\ RowsOf(Subject(w)) = {} /\ ~Inserting(Subject(w))
        /\ \A m \in Names \ {name[w]} : rows'[m] = rows[m]
    BY <1>1, InsertRow DEF Written
  <2>2. n = name[w]
    BY <2>1
  <2> QED BY <1>1, <2>1, <2>2 DEF Subject
<1>2. ASSUME NEW w \in Writers, Raced(w) PROVE FALSE
  <2>1. TheRow(Subject(w)) \in Names /\ rows[TheRow(Subject(w))] \in Row
        /\ \A m \in Names \ {TheRow(Subject(w))} : rows'[m] = rows[m]
    BY <1>2, RacedRow DEF Written
  <2> QED BY <2>1, NamesAssumption DEF NamesAssumption
<1>3. ASSUME NEW w \in Writers, Update(w) PROVE FALSE
  <2>1. rows[name[w]] \in Row /\ \A m \in Names \ {name[w]} : rows'[m] = rows[m]
    BY <1>3, UpdateRow DEF Written
  <2> QED BY <2>1, NamesAssumption DEF NamesAssumption
<1>4. ASSUME NEW c \in Copiers, CopyCommits(c) PROVE Who[n] \in added[c]
  BY <1>4, CommitRows
<1>5. CASE UNCHANGED rows
  BY <1>5
<1>6. CASE \/ \E q \in Requests : Arrive(q) \/ ListUsers(q)
           \/ \E w \in Writers : Find(w)
           \/ \E l \in Logins : HostStep(l)
           \/ \E c \in Copiers : CopyStep(c) /\ ~CopyCommits(c)
           \/ FileStep \/ ServiceStep
  BY <1>5, <1>6 DEF Arrive, ListUsers, Find, HostStep, UpsertPlugin, LoginFails, CopyStep,
     Begin, CopyUser, AddUser, SkipUser, CopyFails, FileStep, StartImport, ListingFails, NextFile, NextRecord,
     EndFile, FileFails, ServiceStep, Expire, DayPasses, Restart, tables, vars
<1> QED BY <1>1, <1>2, <1>3, <1>4, <1>6, StepKinds DEF WriterStep

\* What the steps do to the copies.
CopiesStand ==
  /\ UNCHANGED copies
  /\ \A c \in Copiers : /\ pc'[c] \in Copying <=> pc[c] \in Copying
                        /\ pc'[c] \in {"copy", "add"} <=> pc[c] \in {"copy", "add"}

LEMMA CopiesStep ==
  ASSUME IInv, [Next]_vars
  PROVE  \/ CopiesStand
         \/ \E c \in Copiers : CopyStep(c)
         \/ Restart
<1> USE Distinct DEF IInv
<1>0. pc \in [Processes -> Steps]
  BY DEF TypeOK
<1>1. ASSUME UNCHANGED copies, NEW p \in Processes, NEW s,
             pc[p] \notin Copying /\ s \notin Copying, pc' = [pc EXCEPT ![p] = s]
      PROVE  CopiesStand
  BY <1>0, <1>1 DEF Copying, CopiesStand
<1>2. ASSUME NEW q \in Requests, Arrive(q) \/ ListUsers(q)
      PROVE  UNCHANGED copies /\ \E s : pc[q] \notin Copying /\ s \notin Copying
                                        /\ pc' = [pc EXCEPT ![q] = s]
  <2>1. pc[q] \notin Copying /\ UNCHANGED copies
    BY <1>2 DEF Arrive, ListUsers, Copying
  <2>2. pc' = [pc EXCEPT ![q] = "listing"] \/ pc' = [pc EXCEPT ![q] = "ok"]
        \/ pc' = [pc EXCEPT ![q] = "find"]
    BY <1>2 DEF Arrive, ListUsers, LookUp, Goto
  <2>3. "listing" \notin Copying /\ "ok" \notin Copying /\ "find" \notin Copying
    BY DEF Copying
  <2> QED BY <2>1, <2>2, <2>3
<1>3. ASSUME NEW w \in Writers, WriterStep(w)
      PROVE  UNCHANGED copies /\ \E s : pc[w] \notin Copying /\ s \notin Copying
                                        /\ pc' = [pc EXCEPT ![w] = s]
  <2>1. pc[w] \notin Copying /\ UNCHANGED copies
    BY <1>3 DEF WriterStep, Find, Insert, Raced, Update, Copying
  <2>2. \E s \in {"insert", "update", "raced", "record", "host"} : pc' = [pc EXCEPT ![w] = s]
    BY <1>3 DEF WriterStep, Find, Insert, Raced, Update, Returned, Goto
  <2> QED BY <2>1, <2>2 DEF Copying
<1>4. ASSUME NEW l \in Logins, HostStep(l)
      PROVE  UNCHANGED copies /\ \E s : pc[l] \notin Copying /\ s \notin Copying
                                        /\ pc' = [pc EXCEPT ![l] = s]
  <2>1. pc[l] \notin Copying /\ UNCHANGED copies
    BY <1>4 DEF HostStep, UpsertPlugin, LoginFails, Copying
  <2>2. \E s \in {"ok", "error"} : pc' = [pc EXCEPT ![l] = s]
    BY <1>4 DEF HostStep, UpsertPlugin, LoginFails, Goto
  <2> QED BY <2>1, <2>2 DEF Copying
<1>5. CASE FileStep
  <2>1. UNCHANGED copies /\ pc[Importer] \notin Copying
    BY <1>5 DEF FileStep, StartImport, ListingFails, NextFile, NextRecord, EndFile, FileFails, Copying
  <2>2. UNCHANGED pc \/ \E s \in {"list", "idle", "record", "find", "files"} :
                          pc' = [pc EXCEPT ![Importer] = s]
    BY <1>5 DEF FileStep, StartImport, ListingFails, NextFile, NextRecord, EndFile, FileFails, Goto
  <2> QED BY <1>1, <2>1, <2>2 DEF Copying, CopiesStand
<1>6. CASE Expire \/ DayPasses \/ UNCHANGED vars
  BY <1>6 DEF Expire, DayPasses, vars, copies, CopiesStand
<1> QED BY <1>1, <1>2, <1>3, <1>4, <1>5, <1>6, StepKinds DEF ServiceStep

LEMMA CopyInvStep ==
  ASSUME IInv, [Next]_vars PROVE CopyInv' /\ InsertsAreDisjoint'
<1> USE Distinct, TableStep DEF IInv
<1>0. \A p : RowsOf(p) \subseteq RowsOf(p)'
  BY RowsGrow, RestOfTypes
<1>1. CASE CopiesStand
  <2>1. ASSUME NEW c \in Copiers, NEW p \in added[c], NEW n \in RowsOf(p)' PROVE FALSE
    <3>1. n \in Names /\ rows'[n] # NoRow /\ Who[n] = p /\ RowsOf(p) = {}
      BY <2>1 DEF RowsOf, CopyInv
    <3>2. rows[n] = NoRow
      BY <3>1 DEF RowsOf
    <3>3. Inserting(p)
      BY <2>1 DEF Inserting
    <3>4. PICK d \in Copiers : CopyCommits(d) /\ p \in added[d]
      BY <3>1, <3>2, <3>3, NewRows
    <3>5. pc[d] \in Copying /\ pc'[d] \in {"files", "idle"}
      BY <3>4 DEF CopyCommits, EndCopy, Goto, Copying, TypeOK
    <3> QED BY <1>1, <3>4, <3>5 DEF CopiesStand, Copying
  <2> QED BY <1>0, <1>1, <2>1 DEF CopyInv, InsertsAreDisjoint, copies, CopiesStand
<1>2. ASSUME NEW c \in Copiers, Begin(c) \/ CopyUser(c) \/ AddUser(c) \/ SkipUser(c)
      PROVE  CopyInv' /\ InsertsAreDisjoint'
  <2>1. UNCHANGED rows
    BY <1>2 DEF Begin, CopyUser, AddUser, SkipUser, tables
  <2>2. \A p : RowsOf(p)' = RowsOf(p)
    BY <2>1 DEF RowsOf
  <2>3. CASE Begin(c)
    <3>1. Len(Directory) \in Nat /\ (Directory # <<>> => Len(Directory) > 0)
      BY TablesAssumption DEF TablesAssumption
    <3>2. UNCHANGED copies /\ copied[c] = 0
      BY <2>3 DEF Begin, CopyInv, Copying
    <3>3. pc' = [pc EXCEPT ![c] = IF Directory = <<>> THEN "commit" ELSE "copy"]
      BY <2>3 DEF Begin, Goto
    <3> QED BY <2>2, <3>1, <3>2, <3>3 DEF CopyInv, InsertsAreDisjoint, copies, Copying, TypeOK
  <2>4. CASE CopyUser(c) \/ AddUser(c) \/ SkipUser(c)
    <3>1. /\ copied[c] + 1 \in 0 .. Len(Directory) /\ Len(Directory) \in Nat
          /\ copied[c] \in Nat
      BY <2>4, Next1Typed, TablesAssumption
      DEF CopyInv, TypeOK, CopyUser, AddUser, SkipUser, TablesAssumption
    <3>2. \A d \in Copiers : /\ pc'[d] \in {"copy", "add"} => copied'[d] < Len(Directory)
                             /\ pc'[d] \notin Copying => copied'[d] = 0
      <4>1. Step1(c) \/ (Goto(c, "add") /\ copied' = copied)
        BY <2>4 DEF CopyUser, AddUser, SkipUser
      <4>2. pc[c] \in {"copy", "add"}
        BY <2>4 DEF CopyUser, AddUser, SkipUser
      <4>3. CASE Step1(c)
        BY <3>1, <4>2, <4>3 DEF Step1, Goto, CopyInv, Copying, TypeOK
      <4>4. CASE Goto(c, "add") /\ copied' = copied
        BY <4>2, <4>4 DEF Goto, CopyInv, Copying, TypeOK
      <4> QED BY <4>1, <4>3, <4>4
    <3>3. CASE CopyUser(c)
      <4>1. added' = added /\ (changed' = changed \/
              (changed' = [changed EXCEPT ![c] = @ \cup {Next1(c)}] /\ RowsOf(Next1(c)) # {}))
        BY <3>3 DEF CopyUser
      <4>2. \A d \in Copiers : \A p \in changed'[d] :
              p \in changed[d] \/ (p = Next1(c) /\ RowsOf(p) # {})
        BY <4>1 DEF TypeOK
      <4> QED BY <2>2, <3>2, <4>1, <4>2 DEF CopyInv, InsertsAreDisjoint
    <3>4. CASE AddUser(c)
      <4>1. changed' = changed /\ (added' = added \/
              (added' = [added EXCEPT ![c] = @ \cup {Next1(c)}] /\ RowsOf(Next1(c)) = {}))
        BY <3>4 DEF AddUser
      <4>2. \A d \in Copiers : Next1(c) \notin added[d]
        BY <3>4 DEF AddUser, Inserting
      <4>3. \A d \in Copiers : \A p \in added'[d] :
              p \in added[d] \/ (d = c /\ p = Next1(c) /\ RowsOf(p) = {})
        BY <4>1 DEF TypeOK
      <4>4. CopyInv'
        BY <2>2, <3>2, <4>1, <4>3 DEF CopyInv
      <4>5. InsertsAreDisjoint'
        BY <4>2, <4>3 DEF InsertsAreDisjoint, Copiers
      <4> QED BY <4>4, <4>5
    <3>5. CASE SkipUser(c)
      BY <2>2, <3>2, <3>5 DEF SkipUser, CopyInv, InsertsAreDisjoint
    <3> QED BY <2>4, <3>3, <3>4, <3>5
  <2> QED BY <1>2, <2>3, <2>4
<1>3. ASSUME NEW c \in Copiers, EndCopy(c),
             \A d \in Copiers \ {c} : \A p \in added[d] : RowsOf(p)' = {}
      PROVE  CopyInv' /\ InsertsAreDisjoint'
  <2>1. /\ pc' = [pc EXCEPT ![c] = IF c = Importer THEN "files" ELSE "idle"]
        /\ copied' = [copied EXCEPT ![c] = 0]
        /\ changed' = [changed EXCEPT ![c] = {}] /\ added' = [added EXCEPT ![c] = {}]
    BY <1>3 DEF EndCopy, Goto
  <2>2. /\ copied'[c] = 0 /\ changed'[c] = {} /\ added'[c] = {}
        /\ pc'[c] \notin {"copy", "add"}
        /\ \A d \in Copiers \ {c} : pc'[d] = pc[d] /\ copied'[d] = copied[d]
                                    /\ changed'[d] = changed[d] /\ added'[d] = added[d]
    BY <2>1 DEF TypeOK
  <2> QED BY <1>0, <1>3, <2>2 DEF CopyInv, InsertsAreDisjoint, Copiers
<1>4. ASSUME NEW c \in Copiers, CopyCommits(c)
      PROVE  CopyInv' /\ InsertsAreDisjoint'
  <2>1. ASSUME NEW d \in Copiers \ {c}, NEW p \in added[d], NEW n \in RowsOf(p)' PROVE FALSE
    <3>1. n \in Names /\ rows'[n] # NoRow /\ Who[n] = p /\ rows[n] = NoRow
      BY <2>1 DEF RowsOf, CopyInv
    <3>2. p \in added[c]
      BY <1>4, <3>1, CommitRows
    <3> QED BY <2>1, <3>2 DEF InsertsAreDisjoint, Copiers
  <2> QED BY <1>3, <1>4, <2>1 DEF CopyCommits
<1>5. ASSUME NEW c \in Copiers, CopyFails(c)
      PROVE  CopyInv' /\ InsertsAreDisjoint'
  <2>1. \A p : RowsOf(p)' = RowsOf(p)
    BY <1>5 DEF CopyFails, tables, RowsOf
  <2> QED BY <1>3, <1>5, <2>1 DEF CopyFails, CopyInv
<1>6. CASE Restart
  <2>1. \A c \in Copiers : pc'[c] = "idle" /\ copied'[c] = 0 /\ changed'[c] = {} /\ added'[c] = {}
    BY <1>6 DEF Restart
  <2> QED BY <2>1 DEF CopyInv, InsertsAreDisjoint
<1> QED BY <1>1, <1>2, <1>4, <1>5, <1>6, CopiesStep DEF CopyStep

----------------------------------------------------------------------------
\* The cache, and the ids of the directory.
LEMMA CacheStep ==
  ASSUME IInv, [Next]_vars PROVE CacheInv' /\ FailureIsForgotten'
<1> USE DEF IInv, CacheInv, FailureIsForgotten
<1>1. ASSUME NEW q \in Requests, Arrive(q) \/ ListUsers(q) PROVE CacheInv' /\ FailureIsForgotten'
  BY <1>1 DEF Arrive, ListUsers
<1>2. CASE UNCHANGED <<cache, listFailed, misled>>
  BY <1>2
<1>3. CASE Expire \/ Restart
  BY <1>3 DEF Expire, DayPasses, Restart
<1>4. CASE \/ \E w \in Writers : WriterStep(w)
           \/ \E l \in Logins : HostStep(l)
           \/ \E c \in Copiers : CopyStep(c)
           \/ FileStep \/ DayPasses \/ UNCHANGED vars
  BY <1>2, <1>4 DEF WriterStep, Find, Insert, Raced, Update, HostStep, UpsertPlugin, LoginFails,
     CopyStep, Begin, CopyUser, AddUser, SkipUser, CopyCommits, CopyFails, FileStep, StartImport, ListingFails,
     NextFile, NextRecord, EndFile, FileFails, DayPasses, history, vars
<1> QED BY <1>1, <1>3, <1>4, StepKinds DEF ServiceStep

LEMMA IdStep ==
  ASSUME IInv, [Next]_vars PROVE DirectoryIdWins'
<1> USE DEF IInv
<1>1. ASSUME NEW p \in synced PROVE \E n \in RowsOf(p)' : rows'[n].id = p
  <2>1. PICK n \in RowsOf(p) : rows[n].id = p
    BY <1>1 DEF DirectoryIdWins
  <2> QED BY <2>1, TableStep DEF RowsKept, RowsOf
<1>2. ASSUME NEW c \in Copiers, CopyCommits(c), NEW p \in synced'
      PROVE  \E n \in RowsOf(p)' : rows'[n].id = p
  <2>1. CASE p \in synced
    BY <1>1, <2>1
  <2>2. CASE p \in changed[c]
    <3>1. PICK n \in RowsOf(p) : TRUE
      BY <2>2 DEF CopyInv
    <3>2. n \in Names /\ rows[n] # NoRow /\ Who[n] = p
      BY DEF RowsOf
    <3>3. rows'[n] # NoRow /\ rows'[n].id = p
      BY <1>2, <2>2, <3>2, CommitRows, NamesAssumption DEF NamesAssumption
    <3> QED BY <3>2, <3>3 DEF RowsOf
  <2>3. CASE p \in added[c]
    BY <1>2, <2>3, CommitRows DEF RowsOf
  <2>4. CASE \E n \in RowsOf(p) : rows[n].id = p
    <3>1. PICK n \in RowsOf(p) : rows[n].id = p
      BY <2>4
    <3> QED BY <3>1, TableStep DEF RowsKept, RowsOf
  <2> QED BY <1>2, <2>1, <2>2, <2>3, <2>4 DEF CopyCommits
<1>3. CASE UNCHANGED synced
  BY <1>1, <1>3 DEF DirectoryIdWins
<1>4. CASE ~\E c \in Copiers : CopyCommits(c)
  <2>1. UNCHANGED synced
    BY <1>4, StepKinds DEF Arrive, ListUsers, WriterStep, Find, Insert, Raced, Update, HostStep,
     UpsertPlugin, LoginFails, CopyStep, Begin, CopyUser, AddUser, SkipUser, CopyFails, FileStep,
     StartImport, ListingFails, NextFile, NextRecord, EndFile, FileFails, ServiceStep, Expire, DayPasses, Restart,
     history, vars
  <2> QED BY <1>3, <2>1
<1> QED BY <1>2, <1>4 DEF DirectoryIdWins

----------------------------------------------------------------------------
\* What writers know, and what becomes of the others while one takes a step.
LEMMA HistoryGrows ==
  ASSUME [Next]_vars
  PROVE  /\ imported \subseteq imported' /\ outrun \subseteq outrun'
         /\ clashed \subseteq clashed' /\ overlapped \subseteq overlapped'
<1> QED
  BY StepKinds DEF Arrive, ListUsers, WriterStep, Find, Insert, Raced, Update, Returned,
     HostStep, UpsertPlugin, LoginFails, CopyStep, Begin, CopyUser, AddUser, SkipUser, CopyCommits,
     CopyFails, FileStep, StartImport, ListingFails, NextFile, NextRecord, EndFile, FileFails, ServiceStep,
     Expire, DayPasses, Restart, writers, history, vars

Idle(w) == /\ pc'[w] = pc[w] /\ name'[w] = name[w] /\ snap'[w] = snap[w]
           /\ w = Importer => left' = left

LEMMA IdleOK ==
  ASSUME IInv, [Next]_vars, NEW w \in Writers, Idle(w) PROVE WriterOK(w)'
<1> USE Distinct DEF IInv
<1>1. WriterOK(w)
  BY DEF WriterInv
<1>2. pc[w] = "raced" => RowsOf(Subject(w)) \subseteq RowsOf(Subject(w))'
  <2>1. Subject(w)' = Subject(w)
    BY DEF Subject, Idle
  <2>2. \A p : RowsOf(p) \subseteq RowsOf(p)'
    BY TableStep, RowsGrow, RestOfTypes
  <2>3. RowsOf(Subject(w))' = {n \in Names : Who[n] = Subject(w)' /\ rows'[n] # NoRow}
    BY DEF RowsOf
  <2> QED BY <2>1, <2>2, <2>3 DEF RowsOf
<1>3. Item(w)' = Item(w)
  BY DEF Item, Record, Idle
<1>4. pc[w] = "update" => rows'[name[w]] # NoRow
  BY <1>1, TableStep DEF WriterOK, Writing, RowsKept
<1> QED BY <1>1, <1>2, <1>3, <1>4, HistoryGrows DEF WriterOK, Idle

LEMMA WriterInvStep ==
  ASSUME IInv, [Next]_vars PROVE WriterInv'
<1> USE Distinct DEF IInv
<1>0. pc \in [Processes -> Steps] /\ name \in [Writers -> Names \cup {NoName}]
      /\ snap \in [Writers -> Row \cup {NoRow}]
  BY DEF TypeOK
<1>1. ASSUME \A w \in Writers : Idle(w), UNCHANGED outrun PROVE WriterInv'
  <2>1. \A w \in Writers : WriterOK(w)'
    BY <1>1, IdleOK
  <2>2. \A l \in Logins : LoginOK(l)'
    BY <1>1 DEF WriterInv, LoginOK, Idle, Writers
  <2>3. ImporterOK'
    BY <1>1 DEF WriterInv, ImporterOK, Record, Idle
  <2> QED BY <2>1, <2>2, <2>3 DEF WriterInv
<1>2. ASSUME NEW v \in Writers, \A w \in Writers \ {v} : Idle(w),
             outrun' \subseteq outrun \cup {Item(v)}, pc[v] \in Writing \/ UNCHANGED outrun,
             WriterOK(v)', v \in Logins => LoginOK(v)', v = Importer => ImporterOK'
      PROVE  WriterInv'
  <2>1. \A w \in Writers : WriterOK(w)'
    BY <1>2, IdleOK
  <2>2. ASSUME NEW l \in Logins PROVE LoginOK(l)'
    <3>1. CASE l = v
      BY <1>2, <3>1
    <3>2. CASE l # v
      <4>1. l \in outrun' => l \in outrun
        BY <1>2, <3>2, ItemTyped, NamesAssumption DEF NamesAssumption
      <4> QED BY <1>2, <3>2, <4>1 DEF WriterInv, LoginOK, Idle
    <3> QED BY <3>1, <3>2
  <2>3. ImporterOK'
    <3>1. CASE v = Importer
      BY <1>2, <3>1
    <3>2. CASE v # Importer
      BY <1>2, <3>2 DEF WriterInv, ImporterOK, Record, Idle
    <3> QED BY <3>1, <3>2
  <2> QED BY <2>1, <2>2, <2>3 DEF WriterInv
<1>3. ASSUME NEW q \in Requests, Arrive(q) \/ ListUsers(q) PROVE WriterInv'
  <2>1. CASE q \in Reports
    <3>1. \A w \in Writers : Idle(w)
      BY <1>0, <1>3, <2>1 DEF Arrive, ListUsers, LookUp, Goto, Unresolved, Idle, import, Writers
    <3> QED BY <1>1, <1>3, <3>1 DEF Arrive, ListUsers
  <2>2. CASE q \in Logins
    <3>1. /\ UNCHANGED <<outrun, snap, left>>
          /\ \/ pc' = [pc EXCEPT ![q] = "listing"] /\ name' = name /\ pc[q] = "new"
             \/ /\ pc' = [pc EXCEPT ![q] = "find"]
                /\ \E m \in Names : name' = [name EXCEPT ![q] = m]
      <4>1. LoginName[q] \in Names /\ Unknown \in Names
            /\ (IdOf[q] \in Enrolled => Canonical[IdOf[q]] \in Names)
        BY <2>2, TablesAssumption, EnrolledPersons DEF TablesAssumption
      <4>2. CASE ListUsers(q)
        BY <2>2, <4>1, <4>2 DEF ListUsers, LookUp, Goto, import
      <4>3. CASE Arrive(q)
        BY <2>2, <4>1, <4>3 DEF Arrive, LookUp, Goto, import
      <4> QED BY <1>3, <4>2, <4>3
    <3>2. pc[q] \in {"new", "listing"} /\ q \notin outrun
      BY <1>3, <2>2 DEF Arrive, ListUsers, WriterInv, LoginOK
    <3>3. \A w \in Writers \ {q} : Idle(w)
      BY <1>0, <2>2, <3>1 DEF Idle
    <3>4. WriterOK(q)' /\ LoginOK(q)'
      BY <1>0, <2>2, <3>1, <3>2 DEF WriterOK, LoginOK, WriterInv, Writing
    <3> QED BY <1>2, <2>2, <3>1, <3>3, <3>4
  <2> QED BY <2>1, <2>2 DEF Requests
<1>4. ASSUME NEW w \in Writers, Find(w) PROVE WriterInv'
  <2>1. /\ UNCHANGED <<rows, outrun, left>> /\ pc[w] = "find"
        /\ \/ pc' = [pc EXCEPT ![w] = "insert"] /\ UNCHANGED writers
           \/ /\ RowsOf(Subject(w)) # {}
              /\ pc' = [pc EXCEPT ![w] = "update"]
              /\ snap' = [snap EXCEPT ![w] = rows[TheRow(Subject(w))]]
              /\ name' = [name EXCEPT ![w] = TheRow(Subject(w))]
    BY <1>4 DEF Find, Goto, tables, import, history
  <2>2. \A v \in Writers \ {w} : Idle(v)
    BY <1>0, <2>1 DEF Idle, writers
  <2>3. WriterOK(w)' /\ (w \in Logins => LoginOK(w)') /\ (w = Importer => ImporterOK')
    BY <1>0, <2>1, OneRow DEF WriterInv, WriterOK, LoginOK, ImporterOK, Writing, writers, Subject,
       Record
  <2> QED BY <1>2, <2>1, <2>2, <2>3
<1>5. ASSUME NEW w \in Writers, Returned(w), pc[w] \in Writing,
             outrun' \subseteq outrun \cup {Item(w)},
             w # Importer => UNCHANGED left
      PROVE  WriterInv'
  <2>1. /\ name' = name \/ (w = Importer /\ name' = [name EXCEPT ![w] = NoName])
        /\ pc' = [pc EXCEPT ![w] = IF w = Importer THEN "record" ELSE "host"]
        /\ snap' = [snap EXCEPT ![w] = NoRow]
        /\ w # Importer => name' = name
    BY <1>5 DEF Returned, Goto
  <2>2. \A v \in Writers \ {w} : Idle(v)
    BY <1>0, <1>5, <2>1 DEF Idle
  <2>3. pc'[w] = IF w = Importer THEN "record" ELSE "host"
    BY <1>0, <2>1
  <2>4. w \in Logins => name'[w] \in Names
    BY <1>5, <2>1 DEF WriterInv, WriterOK
  <2>5. WriterOK(w)' /\ (w \in Logins => LoginOK(w)') /\ (w = Importer => ImporterOK')
    BY <2>3, <2>4 DEF WriterOK, LoginOK, ImporterOK, Writing
  <2> QED BY <1>2, <1>5, <2>2, <2>5
<1>6. ASSUME NEW w \in Writers, Insert(w), ~Returned(w) PROVE WriterInv'
  <2>1. /\ RowsOf(Subject(w)) # {} /\ pc' = [pc EXCEPT ![w] = "raced"]
        /\ outrun' = outrun \cup {Item(w)} /\ clashed' = clashed \cup {Item(w)}
        /\ UNCHANGED <<rows, writers, left>> /\ pc[w] = "insert"
    BY <1>6, InsertRow DEF Insert
  <2>2. \A v \in Writers \ {w} : Idle(v)
    BY <1>0, <2>1 DEF Idle, writers
  <2>3. WriterOK(w)' /\ (w \in Logins => LoginOK(w)') /\ (w = Importer => ImporterOK')
    <3>1. Subject(w)' = Subject(w) /\ Item(w)' = Item(w) /\ pc'[w] = "raced"
          /\ RowsOf(Subject(w))' = RowsOf(Subject(w)) /\ name'[w] = name[w]
      BY <1>0, <2>1 DEF Subject, Item, Record, RowsOf, writers
    <3> QED BY <2>1, <3>1 DEF WriterInv, WriterOK, LoginOK, ImporterOK, Writing, Record
  <2> QED BY <1>2, <2>1, <2>2, <2>3 DEF Writing
<1>7. ASSUME NEW w \in Writers, WriterStep(w) PROVE WriterInv'
  <2>1. CASE Find(w)
    BY <1>4, <2>1
  <2>2. CASE Insert(w)
    BY <1>5, <1>6, <2>2 DEF Insert, Writing, Returned
  <2>3. CASE Raced(w)
    BY <1>5, <2>3 DEF Raced, Writing, Returned
  <2>4. CASE Update(w)
    BY <1>5, <2>4 DEF Update, Writing, Returned
  <2> QED BY <1>7, <2>1, <2>2, <2>3, <2>4 DEF WriterStep
<1>8. ASSUME NEW l \in Logins, HostStep(l) PROVE WriterInv'
  <2>1. /\ UNCHANGED <<outrun, name, left>>
        /\ \/ pc' = [pc EXCEPT ![l] = "ok"] /\ snap' = snap /\ pc[l] = "host"
           \/ pc' = [pc EXCEPT ![l] = "error"] /\ snap' = [snap EXCEPT ![l] = NoRow]
    BY <1>8 DEF HostStep, UpsertPlugin, LoginFails, Goto, writers, import, history
  <2>2. \A v \in Writers \ {l} : Idle(v)
    BY <1>0, <2>1 DEF Idle
  <2>3. WriterOK(l)' /\ LoginOK(l)'
    BY <1>0, <2>1 DEF WriterInv, WriterOK, LoginOK, Writing
  <2> QED BY <1>2, <2>1, <2>2, <2>3
<1>9. ASSUME NEW c \in Copiers, CopyStep(c) PROVE WriterInv'
  <2>1. UNCHANGED <<outrun, name, snap, left>>
    BY <1>9 DEF CopyStep, Begin, CopyUser, AddUser, SkipUser, CopyCommits, CopyFails, writers, import,
       history
  <2>2. \E s \in Copying \cup {"files", "idle"} : pc' = [pc EXCEPT ![c] = s]
    BY <1>9 DEF CopyStep, Begin, CopyUser, AddUser, SkipUser, CopyCommits, CopyFails, EndCopy, Step1, Goto,
       Copying
  <2>3. \A v \in Logins : Idle(v)
    BY <1>0, <2>1, <2>2 DEF Idle, Copiers
  <2>4. CASE c = Importer
    <3>1. pc'[c] \notin Writing
      BY <1>0, <2>2 DEF Writing, Copying
    <3>2. WriterOK(c)' /\ ImporterOK'
      BY <2>4, <3>1 DEF WriterOK, ImporterOK, Writing
    <3> QED BY <1>2, <2>1, <2>3, <2>4, <3>2 DEF Writers
  <2>5. CASE c # Importer
    BY <1>0, <1>1, <2>1, <2>2, <2>3, <2>5 DEF Idle, Writers
  <2> QED BY <2>4, <2>5
<1>10. CASE FileStep
  <2>1. UNCHANGED <<outrun, snap>> \/ (FileFails /\ UNCHANGED outrun)
    BY <1>10 DEF FileStep, StartImport, ListingFails, NextFile, NextRecord, EndFile, writers, FileFails, history
  <2>2. \A v \in Logins : Idle(v)
    BY <1>0, <1>10 DEF FileStep, StartImport, ListingFails, NextFile, NextRecord, EndFile, writers, FileFails,
       Idle, Goto
  <2>3. CASE pc'[Importer] \notin Writing
    <3>1. WriterOK(Importer)' /\ ImporterOK'
      BY <2>3 DEF WriterOK, ImporterOK, Writing
    <3> QED BY <1>2, <2>1, <2>2, <3>1 DEF Writers
  <2>4. CASE pc'[Importer] \in Writing
    <3>1. NextRecord /\ pc' = [pc EXCEPT ![Importer] = "find"] /\ left # <<>> /\ left' = left
          /\ name' = [name EXCEPT ![Importer] = Canonical[PersonOf[Record]]]
      BY <1>0, <1>10, <2>4 DEF FileStep, StartImport, ListingFails, NextFile, NextRecord, EndFile, FileFails,
         Goto, Writing
    <3>2. Record \in Records
      BY <3>1, Records1 DEF TypeOK
    <3>3. /\ Canonical[PersonOf[Record]] \in Names
          /\ Who[Canonical[PersonOf[Record]]] = PersonOf[Record]
      BY <3>2, TablesAssumption DEF TablesAssumption
    <3>4. WriterOK(Importer)' /\ ImporterOK'
      BY <1>0, <3>1, <3>3 DEF WriterOK, ImporterOK, Writing, Record
    <3> QED BY <1>2, <2>1, <2>2, <3>4 DEF Writers
  <2> QED BY <2>3, <2>4
<1>11. CASE ServiceStep
  <2>1. CASE Expire \/ DayPasses \/ UNCHANGED vars
    BY <1>1, <2>1 DEF Expire, DayPasses, vars, Idle, writers, import, history
  <2>2. CASE Restart
    <3>1. \A w \in Writers : pc'[w] \notin Writing
      BY <2>2 DEF Restart, Writing
    <3>2. \A l \in Logins : /\ pc'[l] \in {"new", "ok", "error"}
                            /\ pc'[l] # "error" => pc'[l] = pc[l]
                            /\ name'[l] = name[l]
      BY <1>0, <2>2 DEF Restart, Copiers
    <3>3. outrun' = outrun
      BY <2>2 DEF Restart
    <3>4. \A l \in Logins : LoginOK(l)'
      BY <3>2, <3>3 DEF WriterInv, LoginOK
    <3>5. ImporterOK' /\ \A w \in Writers : WriterOK(w)'
      BY <3>1 DEF ImporterOK, WriterOK, Writing
    <3> QED BY <3>4, <3>5 DEF WriterInv
  <2> QED BY <1>11, <2>1, <2>2 DEF ServiceStep
<1> QED BY <1>3, <1>7, <1>8, <1>9, <1>10, <1>11, StepKinds

----------------------------------------------------------------------------
\* Credits: in the rows, and in the hands of those about to write.
SnapOf(w) ==
  pc[w] = "update" =>
    \A r \in Kept : PersonOf[r] = Who[name[w]] => snap[w].credits[DayOf[r]] = r

LEMMA CreditsStay ==
  ASSUME IInv, Kept' \subseteq Kept,
         \A n \in Names : rows[n] # NoRow =>
           rows'[n] # NoRow /\ rows'[n].credits = rows[n].credits
  PROVE  CreditIsKept'
<1>1. ASSUME NEW r \in Kept'
      PROVE  \E n \in RowsOf(PersonOf[r])' : rows'[n].credits[DayOf[r]] = r
  <2>1. PICK n \in RowsOf(PersonOf[r]) : rows[n].credits[DayOf[r]] = r
    BY <1>1 DEF IInv, CreditIsKept, Kept
  <2> QED BY <2>1 DEF RowsOf
<1> QED BY <1>1 DEF CreditIsKept, Kept

LEMMA SnapStays ==
  ASSUME IInv, NEW w \in Writers, Idle(w),
         \A r \in Kept' : PersonOf[r] = Who[name[w]] /\ pc[w] = "update" => r \in Kept
  PROVE  SnapOf(w)'
<1> QED BY DEF IInv, SnapInv, SnapOf, Idle

LEMMA CreditFind ==
  ASSUME IInv, NEW w \in Writers, Find(w) PROVE SnapInv' /\ CreditIsKept'
<1> USE Distinct DEF IInv
<1>1. UNCHANGED rows /\ Kept' = Kept
  BY DEF Find, tables, history, Kept
<1>2. CreditIsKept'
  BY <1>1, CreditsStay
<1>3. \A v \in Writers \ {w} : Idle(v)
  BY DEF Find, TypeOK, Goto, Idle, writers, import
<1>4. SnapOf(w)'
  <2>1. CASE RowsOf(Subject(w)) = {}
    <3>1. pc'[w] = "insert"
      BY <2>1 DEF Find, Goto, TypeOK
    <3> QED BY <3>1 DEF SnapOf
  <2>2. CASE RowsOf(Subject(w)) # {}
    <3> DEFINE n == TheRow(Subject(w))
    <3>1. n \in RowsOf(Subject(w)) /\ Who[n] = Subject(w) /\ \A m \in RowsOf(Subject(w)) : m = n
      BY <2>2, OneRow
    <3>2. name'[w] = n /\ snap'[w] = rows[n]
      BY <2>2 DEF Find, TypeOK
    <3>3. ASSUME NEW r \in Kept, PersonOf[r] = Subject(w) PROVE rows[n].credits[DayOf[r]] = r
      BY <3>1, <3>3 DEF CreditIsKept, Kept
    <3> HIDE DEF n
    <3> QED BY <1>1, <3>1, <3>2, <3>3 DEF SnapOf
  <2> QED BY <2>1, <2>2
<1>5. \A v \in Writers \ {w} : SnapOf(v)'
  BY <1>1, <1>3, SnapStays
<1> QED BY <1>2, <1>4, <1>5 DEF SnapInv, SnapOf

\* What a return makes of the records whose credit is to be kept.
LEMMA KeptOnReturn ==
  ASSUME IInv, NEW w \in Writers, pc[w] \in Writing, Returned(w),
         outrun \subseteq outrun', overlapped \subseteq overlapped'
  PROVE  /\ w # Importer => Kept' \subseteq Kept
         /\ w = Importer => /\ Kept' \subseteq Kept \cup {Record}
                            /\ Kept' \cap Others(Record) = {}
         /\ pc'[w] # "update"
         /\ \A v \in Writers \ {w} : Idle(v)
<1> USE Distinct DEF IInv
<1>1. pc'[w] # "update" /\ \A v \in Writers \ {w} : pc'[v] = pc[v] /\ name'[v] = name[v]
                                                    /\ snap'[v] = snap[v]
  BY DEF Returned, Goto, TypeOK
<1>2. w # Importer => left' = left /\ imported' = imported /\ replaced' = replaced
  BY DEF Returned
<1>3. w = Importer => imported' = imported \cup {Record}
                      /\ replaced' = (replaced \ {Record}) \cup Others(Record)
  BY DEF Returned
<1> QED BY <1>1, <1>2, <1>3 DEF Idle, Kept

LEMMA CreditInsert ==
  ASSUME IInv, NEW w \in Writers, Insert(w) PROVE SnapInv' /\ CreditIsKept'
<1> USE Distinct DEF IInv
<1>1. pc[w] = "insert" /\ pc[w] \in Writing /\ overlapped' = overlapped
      /\ outrun \subseteq outrun'
  BY DEF Insert, Writing
<1>2. name[w] \in Names /\ (w = Importer => Record \in Records /\ Item(w) = Record
                             /\ PersonOf[Record] = Subject(w))
  BY <1>1, ItemTyped DEF WriterInv, WriterOK, ImporterOK, Subject
<1>3. CASE /\ RowsOf(Subject(w)) = {} /\ Returned(w)
           /\ Written(name[w], IF w = Importer THEN NoPerson ELSE IdOf[w],
                      Credited(w, NewRow.credits), w # Importer)
  <2> DEFINE n == name[w]
  <2>1. rows'[n] \in Row /\ rows'[n].credits = Credited(w, NewRow.credits)
        /\ \A m \in Names \ {n} : rows'[m] = rows[m]
    BY <1>3 DEF Written
  <2>2. ASSUME NEW r \in Kept
        PROVE  \E m \in RowsOf(PersonOf[r])' : rows'[m].credits[DayOf[r]] = r
    <3>1. PICK m \in RowsOf(PersonOf[r]) : rows[m].credits[DayOf[r]] = r
      BY <2>2 DEF CreditIsKept, Kept
    <3>2. m \in Names /\ rows[m] # NoRow /\ Who[m] = PersonOf[r] /\ m # n
      BY <1>2, <1>3, <3>1 DEF RowsOf, Subject
    <3> QED BY <2>1, <3>1, <3>2 DEF RowsOf
  <2>3. ASSUME w = Importer, NEW r, r = Record
        PROVE  \E m \in RowsOf(PersonOf[r])' : rows'[m].credits[DayOf[r]] = r
    <3>1. DayOf[Record] \in Days /\ DOMAIN NewRow.credits = Days
      BY <1>2, <2>3, TablesAssumption DEF TablesAssumption, NewRow
    <3>2. rows'[n].credits[DayOf[r]] = r
      BY <2>1, <2>3, <3>1 DEF Credited
    <3>3. n \in RowsOf(PersonOf[r])'
      BY <1>2, <2>1, <2>3, NamesAssumption DEF NamesAssumption, RowsOf, Subject
    <3> QED BY <3>2, <3>3
  <2>4. CreditIsKept'
    BY <1>1, <1>3, <2>2, <2>3, KeptOnReturn DEF CreditIsKept, Kept
  <2>5. ASSUME NEW v \in Writers \ {w} PROVE SnapOf(v)'
    <3>1. pc[v] = "update" => rows[name[v]] # NoRow /\ name[v] \in Names
      BY DEF WriterInv, WriterOK, Writing
    <3>2. pc[v] = "update" => Who[name[v]] # Subject(w)
      BY <1>3, <3>1 DEF RowsOf
    <3>3. \A r \in Kept' : PersonOf[r] = Who[name[v]] /\ pc[v] = "update" => r \in Kept
      BY <1>1, <1>2, <1>3, <3>2, KeptOnReturn
    <3> QED BY <1>1, <1>3, <3>3, KeptOnReturn, SnapStays
  <2>6. SnapOf(w)'
    BY <1>1, <1>3, KeptOnReturn DEF SnapOf
  <2> QED BY <2>4, <2>5, <2>6 DEF SnapInv, SnapOf
<1>4. CASE outrun' = outrun \cup {Item(w)} /\ Returned(w) /\ UNCHANGED rows
  <2>1. Kept' \subseteq Kept
    BY <1>1, <1>2, <1>4, KeptOnReturn DEF Kept
  <2>2. CreditIsKept'
    BY <1>4, <2>1, CreditsStay
  <2>3. \A v \in Writers \ {w} : SnapOf(v)'
    BY <1>1, <1>4, <2>1, KeptOnReturn, SnapStays
  <2>4. SnapOf(w)'
    BY <1>1, <1>4, KeptOnReturn DEF SnapOf
  <2> QED BY <2>2, <2>3, <2>4 DEF SnapInv, SnapOf
<1>5. CASE /\ pc' = [pc EXCEPT ![w] = "raced"] /\ outrun' = outrun \cup {Item(w)}
           /\ UNCHANGED <<rows, writers, left, imported, replaced>>
  <2>1. Kept' \subseteq Kept
    BY <1>1, <1>5 DEF Kept
  <2>2. CreditIsKept'
    BY <1>5, <2>1, CreditsStay
  <2>3. pc'[w] = "raced" /\ \A v \in Writers \ {w} : Idle(v)
    BY <1>5 DEF TypeOK, Idle, writers
  <2>4. \A v \in Writers \ {w} : SnapOf(v)'
    BY <2>1, <2>3, SnapStays
  <2> QED BY <2>2, <2>3, <2>4 DEF SnapInv, SnapOf
<1> QED BY <1>3, <1>4, <1>5, InsertRow

LEMMA CreditRaced ==
  ASSUME IInv, NEW w \in Writers, Raced(w) PROVE SnapInv' /\ CreditIsKept'
<1> USE Distinct DEF IInv
<1>1. pc[w] = "raced" /\ pc[w] \in Writing /\ Returned(w) /\ UNCHANGED <<overlapped, outrun>>
  BY DEF Raced, Writing
<1>2. w = Importer => Record \in outrun
  BY <1>1, ItemTyped DEF WriterInv, WriterOK, TypeOK
<1>3. Kept' \subseteq Kept
  BY <1>1, <1>2, KeptOnReturn DEF Kept
<1>4. \A n \in Names : rows[n] # NoRow => rows'[n] # NoRow /\ rows'[n].credits = rows[n].credits
  BY RacedRow, NamesAssumption DEF Written, NamesAssumption
<1>5. CreditIsKept'
  BY <1>3, <1>4, CreditsStay
<1>6. \A v \in Writers \ {w} : SnapOf(v)'
  BY <1>1, <1>3, KeptOnReturn, SnapStays
<1>7. SnapOf(w)'
  BY <1>1, KeptOnReturn DEF SnapOf
<1> QED BY <1>5, <1>6, <1>7 DEF SnapInv, SnapOf

LEMMA CreditUpdate ==
  ASSUME IInv, NEW w \in Writers, Update(w) PROVE SnapInv' /\ CreditIsKept'
<1> USE Distinct DEF IInv
<1> DEFINE n == name[w]
<1>1. /\ pc[w] = "update" /\ pc[w] \in Writing /\ Returned(w) /\ outrun' = outrun
      /\ overlapped \subseteq overlapped'
      /\ w = Importer /\ (\E l \in Logins : pc[l] = "update" /\ name[l] = name[w]) =>
           Record \in overlapped'
  BY DEF Update, Writing
<1>2. /\ n \in Names /\ rows[n] \in Row /\ snap[w] \in Row
      /\ rows'[n] \in Row /\ rows'[n].credits = Credited(w, snap[w].credits)
      /\ \A m \in Names \ {n} : rows'[m] = rows[m]
  BY UpdateRow DEF Written
<1>3. w = Importer => Record \in Records /\ PersonOf[Record] = Who[n]
  BY <1>1, ItemTyped DEF WriterInv, ImporterOK
<1>4. snap[w].credits \in Credits
  BY <1>2 DEF Row, Credits
<1>5. ASSUME NEW r \in Kept, r \in Records, w = Importer => r \notin Others(Record)
      PROVE  \E m \in RowsOf(PersonOf[r])' : rows'[m].credits[DayOf[r]] = r
  <2>1. PICK m \in RowsOf(PersonOf[r]) : rows[m].credits[DayOf[r]] = r
    BY <1>5 DEF CreditIsKept, Kept
  <2>2. m \in Names /\ rows[m] # NoRow /\ Who[m] = PersonOf[r]
    BY DEF RowsOf
  <2>3. CASE m # n
    BY <1>2, <2>1, <2>2, <2>3 DEF RowsOf
  <2>4. CASE m = n
    <3>1. snap[w].credits[DayOf[r]] = r
      BY <1>1, <1>5, <2>2, <2>4 DEF SnapInv
    <3>2. Credited(w, snap[w].credits)[DayOf[r]] = r
      <4>1. CASE w = Importer
        <5>1. r = Record \/ DayOf[r] # DayOf[Record]
          BY <1>3, <1>5, <2>2, <2>4, <4>1 DEF Others
        <5>2. DayOf[r] \in Days /\ DayOf[Record] \in Days
          BY <1>3, <1>5, <4>1, TablesAssumption DEF TablesAssumption
        <5>3. Credited(w, snap[w].credits) = [snap[w].credits EXCEPT ![DayOf[Record]] = Record]
          BY <4>1 DEF Credited
        <5> QED BY <1>4, <3>1, <5>1, <5>2, <5>3 DEF Credits
      <4>2. CASE w # Importer
        BY <3>1, <4>2 DEF Credited
      <4> QED BY <4>1, <4>2
    <3>3. n \in RowsOf(PersonOf[r])'
      BY <1>2, <2>2, <2>4, NamesAssumption DEF RowsOf, NamesAssumption
    <3> QED BY <1>2, <3>2, <3>3
  <2> QED BY <2>3, <2>4
<1>6. ASSUME w = Importer, NEW r, r = Record
      PROVE  \E m \in RowsOf(PersonOf[r])' : rows'[m].credits[DayOf[r]] = r
  <2>1. DayOf[r] \in Days /\ Credited(w, snap[w].credits) = [snap[w].credits EXCEPT ![DayOf[r]] = r]
    BY <1>3, <1>6, TablesAssumption DEF TablesAssumption, Credited
  <2>2. rows'[n].credits[DayOf[r]] = r
    BY <1>2, <1>4, <2>1 DEF Credits
  <2>3. n \in RowsOf(PersonOf[r])'
    BY <1>2, <1>3, <1>6, NamesAssumption DEF RowsOf, NamesAssumption
  <2> QED BY <2>2, <2>3
<1>7. CreditIsKept'
  <2>1. ASSUME NEW r \in Kept'
        PROVE  \E m \in RowsOf(PersonOf[r])' : rows'[m].credits[DayOf[r]] = r
    <3>1. CASE r \in Kept
      <4>1. r \in Records /\ (w = Importer => r \notin Others(Record))
        BY <1>1, <2>1, <3>1, KeptOnReturn DEF Kept, TypeOK
      <4> QED BY <1>5, <3>1, <4>1
    <3>2. CASE r \notin Kept
      BY <1>1, <1>6, <2>1, <3>2, KeptOnReturn
    <3> QED BY <3>1, <3>2
  <2> QED BY <2>1 DEF CreditIsKept, Kept
<1>8. ASSUME NEW v \in Writers \ {w} PROVE SnapOf(v)'
  <2>1. ASSUME NEW r \in Kept', PersonOf[r] = Who[name[v]], pc[v] = "update" PROVE r \in Kept
    <3>1. CASE w # Importer \/ r # Record
      BY <1>1, <2>1, <3>1, KeptOnReturn
    <3>2. CASE w = Importer /\ r = Record
      <4>1. v \in Logins /\ name[v] \in Names /\ rows[name[v]] # NoRow /\ rows[n] # NoRow
        BY <1>2, <2>1, <3>2, NamesAssumption
        DEF NamesAssumption, Writers, WriterInv, WriterOK, Writing
      <4>2. name[v] = n
        BY <1>2, <1>3, <2>1, <3>2, <4>1 DEF TypeOK
      <4>3. r \in overlapped'
        BY <1>1, <2>1, <3>2, <4>1, <4>2
      <4> QED BY <2>1, <4>3 DEF Kept
    <3> QED BY <3>1, <3>2
  <2> QED BY <1>1, <2>1, KeptOnReturn, SnapStays
<1>9. SnapOf(w)'
  BY <1>1, KeptOnReturn DEF SnapOf
<1> QED BY <1>7, <1>8, <1>9 DEF SnapInv, SnapOf

LEMMA CreditStep ==
  ASSUME IInv, [Next]_vars PROVE SnapInv' /\ CreditIsKept'
<1> USE Distinct DEF IInv
<1>1. ASSUME UNCHANGED <<imported, replaced, overlapped, outrun>>,
             \A n \in Names : rows[n] # NoRow =>
               rows'[n] # NoRow /\ rows'[n].credits = rows[n].credits,
             \A w \in Writers : Idle(w) \/ pc'[w] # "update"
      PROVE  SnapInv' /\ CreditIsKept'
  <2>1. Kept' = Kept
    BY <1>1 DEF Kept
  <2>2. CreditIsKept'
    BY <1>1, <2>1, CreditsStay
  <2>3. \A w \in Writers : SnapOf(w)'
    <3>1. ASSUME NEW w \in Writers PROVE SnapOf(w)'
      <4>1. CASE Idle(w)
        BY <2>1, <4>1, SnapStays
      <4>2. CASE pc'[w] # "update"
        BY <4>2 DEF SnapOf
      <4> QED BY <1>1, <4>1, <4>2
    <3> QED BY <3>1
  <2> QED BY <2>2, <2>3 DEF SnapInv, SnapOf
<1>2. pc \in [Processes -> Steps] /\ name \in [Writers -> Names \cup {NoName}]
      /\ snap \in [Writers -> Row \cup {NoRow}]
  BY DEF TypeOK
<1>3. ASSUME NEW q \in Requests, Arrive(q) \/ ListUsers(q) PROVE SnapInv' /\ CreditIsKept'
  <2>1. UNCHANGED <<rows, imported, replaced, overlapped, outrun, snap, left>>
    BY <1>3 DEF Arrive, ListUsers, tables, import
  <2>2. pc' = [pc EXCEPT ![q] = "listing"] \/ pc' = [pc EXCEPT ![q] = "ok"]
        \/ pc' = [pc EXCEPT ![q] = "find"]
    BY <1>3 DEF Arrive, ListUsers, LookUp, Goto
  <2>3. name' = name \/ \E m : name' = [name EXCEPT ![q] = m]
    BY <1>3 DEF Arrive, ListUsers, LookUp
  <2>4. \A w \in Writers : Idle(w) \/ pc'[w] # "update"
    BY <1>2, <2>1, <2>2, <2>3 DEF Idle
  <2> QED BY <1>1, <2>1, <2>4
<1>4. ASSUME NEW l \in Logins, HostStep(l) PROVE SnapInv' /\ CreditIsKept'
  <2>1. UNCHANGED <<rows, imported, replaced, overlapped, outrun, name, left>>
    BY <1>4 DEF HostStep, UpsertPlugin, LoginFails, tables, import, history, writers
  <2>2. \A w \in Writers : Idle(w) \/ pc'[w] # "update"
    BY <1>2, <1>4, <2>1 DEF HostStep, UpsertPlugin, LoginFails, Goto, Idle, writers
  <2> QED BY <1>1, <2>1, <2>2
<1>5. ASSUME NEW c \in Copiers, CopyStep(c) PROVE SnapInv' /\ CreditIsKept'
  <2>1. UNCHANGED <<imported, replaced, overlapped, outrun, name, snap, left>>
    BY <1>5 DEF CopyStep, Begin, CopyUser, AddUser, SkipUser, CopyCommits, CopyFails, writers, import,
       history
  <2>2. \E s \in Copying \cup {"files", "idle"} : pc' = [pc EXCEPT ![c] = s]
    BY <1>5 DEF CopyStep, Begin, CopyUser, AddUser, SkipUser, CopyCommits, CopyFails, EndCopy, Step1, Goto,
       Copying
  <2>3. \A w \in Writers : Idle(w) \/ pc'[w] # "update"
    BY <1>2, <2>1, <2>2 DEF Idle, Copying
  <2>4. \A n \in Names : rows[n] # NoRow =>
               rows'[n] # NoRow /\ rows'[n].credits = rows[n].credits
    BY <1>5, CommitRows, NamesAssumption DEF CopyStep, Begin, CopyUser, AddUser, SkipUser, CopyFails, tables,
       NamesAssumption
  <2> QED BY <1>1, <2>1, <2>3, <2>4
<1>6. CASE FileStep
  <2>1. UNCHANGED <<rows, imported, replaced, overlapped, outrun>>
    BY <1>6 DEF FileStep, StartImport, ListingFails, NextFile, NextRecord, EndFile, FileFails, tables, history
  <2>2. \A w \in Writers : Idle(w) \/ pc'[w] # "update"
    <3>1. \A l \in Logins : Idle(l)
      BY <1>2, <1>6 DEF FileStep, StartImport, ListingFails, NextFile, NextRecord, EndFile, writers, FileFails,
         Idle, Goto
    <3>2. pc'[Importer] # "update"
      BY <1>2, <1>6 DEF FileStep, StartImport, ListingFails, NextFile, NextRecord, EndFile, FileFails, Goto
    <3> QED BY <3>1, <3>2 DEF Writers
  <2> QED BY <1>1, <2>1, <2>2
<1>7. CASE ServiceStep
  <2>1. UNCHANGED <<rows, imported, replaced, overlapped, outrun>>
    BY <1>7 DEF ServiceStep, Expire, DayPasses, Restart, tables, history, vars
  <2>2. \A w \in Writers : Idle(w) \/ pc'[w] # "update"
    <3>1. CASE Restart
      BY <1>2, <3>1 DEF Restart
    <3>2. CASE Expire \/ DayPasses \/ UNCHANGED vars
      BY <3>2 DEF Expire, DayPasses, vars, Idle, writers, import
    <3> QED BY <1>7, <3>1, <3>2 DEF ServiceStep
  <2> QED BY <1>1, <2>1, <2>2
<1> QED BY <1>3, <1>4, <1>5, <1>6, <1>7, CreditFind, CreditInsert, CreditRaced, CreditUpdate,
           StepKinds DEF WriterStep

----------------------------------------------------------------------------
\* Files: the one at hand, and those that are done with.
AtRecords == pc[Importer] \in Writing \cup {"record"}

LEMMA FileStays ==
  ASSUME IInv, [Next]_vars, AtRecords' => AtRecords, UNCHANGED <<file, left, unresolved>>,
         AtRecords' => idcOk' = idcOk
  PROVE  FileInv'
<1> QED BY HistoryGrows DEF IInv, FileInv, AtRecords

LEMMA FileElsewhere ==
  ASSUME NEW s \in {"list", "idle", "files"}, pc'[Importer] = s
  PROVE  FileInv'
<1> QED BY DEF FileInv, Writing

LEMMA FileReturns ==
  ASSUME IInv, [Next]_vars, NEW w \in Writers, pc[w] \in Writing, Returned(w),
         UNCHANGED <<file, unresolved, idcOk>>
  PROVE  FileInv'
<1> USE Distinct DEF IInv
<1>1. CASE w = Importer
  <2>1. file' = file /\ file \in FileSet
    BY <1>1 DEF FileInv
  <2>2. ToSet(left) \subseteq {Record} \cup ToSet(Tail(left)) /\ left' = Tail(left)
        /\ imported' = imported \cup {Record}
    BY <1>1, Records1 DEF TypeOK, WriterInv, ImporterOK, Returned
  <2> DEFINE R == Record
  <2>3. ASSUME NEW r \in ToSet(RecordsOf[file]), Resolvable(r)
        PROVE  r \in imported' \cup ToSet(left') \/ (unresolved' /\ ~idcOk')
    <3>1. r \in imported \cup ToSet(left) \/ (unresolved /\ ~idcOk)
      BY <1>1, <2>3 DEF FileInv
    <3>2. imported' = imported \cup {R} /\ ToSet(left) \subseteq {R} \cup ToSet(left')
      BY <2>2
    <3> QED BY <3>1, <3>2
  <2> QED BY <2>1, <2>3 DEF FileInv, Resolvable
<1>2. CASE w # Importer
  <2>1. pc'[Importer] = pc[Importer] /\ left' = left
    BY <1>2 DEF Returned, Goto, TypeOK
  <2> QED BY <2>1, FileStays DEF AtRecords
<1> QED BY <1>1, <1>2

LEMMA FileStepInv ==
  ASSUME IInv, [Next]_vars PROVE FileInv' /\ ProcessedIsImported'
<1> USE Distinct DEF IInv
<1>0. pc \in [Processes -> Steps]
  BY DEF TypeOK
<1>1. ASSUME processed' \subseteq processed PROVE ProcessedIsImported'
  BY <1>1, HistoryGrows DEF ProcessedIsImported
<1>2. ASSUME NEW q \in Requests, Arrive(q) \/ ListUsers(q) PROVE FileInv'
  <2>1. UNCHANGED import
    BY <1>2 DEF Arrive, ListUsers
  <2>2. pc'[Importer] = pc[Importer]
    BY <1>0, <1>2 DEF Arrive, ListUsers, LookUp, Goto
  <2> QED BY <2>1, <2>2, FileStays DEF import, AtRecords
<1>3. ASSUME NEW w \in Writers, WriterStep(w) PROVE FileInv'
  <2>1. pc[w] \in Writing /\ UNCHANGED <<file, unresolved, idcOk>>
    BY <1>3 DEF WriterStep, Find, Insert, Raced, Update, Writing, import
  <2>2. CASE Returned(w)
    BY <2>1, <2>2, FileReturns
  <2>3. CASE ~Returned(w)
    <3>1. left' = left /\ \E s : pc' = [pc EXCEPT ![w] = s]
      BY <1>3, <2>3 DEF WriterStep, Find, Insert, Raced, Update, Goto, import
    <3>2. AtRecords' => AtRecords
      BY <1>0, <2>1, <3>1 DEF AtRecords
    <3> QED BY <2>1, <3>1, <3>2, FileStays
  <2> QED BY <2>2, <2>3
<1>4. ASSUME NEW l \in Logins, HostStep(l) PROVE FileInv'
  <2>1. UNCHANGED import /\ pc'[Importer] = pc[Importer]
    BY <1>0, <1>4 DEF HostStep, UpsertPlugin, LoginFails, Goto
  <2> QED BY <2>1, FileStays DEF import, AtRecords
<1>5. ASSUME NEW c \in Copiers, CopyStep(c) PROVE FileInv'
  <2>1. UNCHANGED <<file, left, unresolved>> /\ (c # Importer => idcOk' = idcOk)
    BY <1>5 DEF CopyStep, Begin, CopyUser, AddUser, SkipUser, CopyCommits, CopyFails, import, TypeOK
  <2>2. \E s \in Copying \cup {"files", "idle"} : pc' = [pc EXCEPT ![c] = s]
    BY <1>5 DEF CopyStep, Begin, CopyUser, AddUser, SkipUser, CopyCommits, CopyFails, EndCopy, Step1, Goto,
       Copying
  <2>3. AtRecords' => AtRecords /\ c # Importer
    BY <1>0, <2>2 DEF AtRecords, Writing, Copying
  <2> QED BY <2>1, <2>3, FileStays
<1>6. ASSUME StartImport PROVE FileInv'
  BY <1>0, <1>6, FileElsewhere DEF StartImport, Goto
<1>70. ASSUME ListingFails PROVE FileInv'
  BY <1>70, FileStays DEF ListingFails, AtRecords
<1>7. ASSUME NextFile PROVE FileInv'
  <2>1. CASE pc' = [pc EXCEPT ![Importer] = "idle"]
    BY <1>0, <2>1, FileElsewhere
  <2>2. CASE pc' # [pc EXCEPT ![Importer] = "idle"]
    <3>1. PICK i \in DOMAIN Files : file' = Files[i] /\ left' = RecordsOf[Files[i]]
      BY <1>7, <2>2 DEF NextFile, Goto
    <3>2. file' \in FileSet /\ left' = RecordsOf[file']
      BY <3>1, TablesAssumption DEF TablesAssumption, FileSet, ToSet
    <3>3. \A r \in ToSet(RecordsOf[file']) : r \in imported' \cup ToSet(left')
      BY <3>2
    <3> QED BY <3>2, <3>3 DEF FileInv
  <2> QED BY <2>1, <2>2
<1>8. ASSUME NextRecord PROVE FileInv'
  <2>1. CASE UNCHANGED <<left, unresolved>>
    <3>1. UNCHANGED <<file, idcOk>> /\ AtRecords
      BY <1>8 DEF NextRecord, AtRecords
    <3> QED BY <2>1, <3>1, FileStays DEF AtRecords
  <2>2. CASE ~UNCHANGED <<left, unresolved>>
    <3> DEFINE R == Record
    <3>1. /\ unresolved' = TRUE /\ left' = Tail(left) /\ left # <<>>
          /\ ~(R \in ByEmail \/ (idcOk /\ PersonOf[R] \in Enrolled))
          /\ UNCHANGED <<file, idcOk, imported>> /\ AtRecords
      BY <1>8, <2>2 DEF NextRecord, AtRecords, history
    <3>2. ToSet(left) \subseteq {R} \cup ToSet(left')
      BY <3>1, Records1 DEF TypeOK
    <3>3. file \in FileSet
      BY <3>1 DEF FileInv, AtRecords
    <3> HIDE DEF R
    <3>4. ASSUME NEW r \in ToSet(RecordsOf[file]), Resolvable(r), idcOk
          PROVE  r \in imported \cup ToSet(left')
      <4>1. r # R
        BY <3>1, <3>4 DEF Resolvable
      <4>2. r \in imported \cup ToSet(left)
        BY <3>1, <3>4 DEF FileInv, AtRecords
      <4> QED BY <3>2, <4>1, <4>2
    <3>5. \A r \in ToSet(RecordsOf[file]) : Resolvable(r) =>
            r \in imported' \cup ToSet(left') \/ (unresolved' /\ ~idcOk')
      BY <3>1, <3>4 DEF TypeOK
    <3>6. file' = file
      BY <3>1
    <3> QED BY <3>3, <3>5, <3>6 DEF FileInv, Resolvable
  <2> QED BY <2>1, <2>2
<1>9. CASE EndFile
  <2>1. FileInv'
    BY <1>0, <1>9 DEF EndFile, Goto, FileInv, Writing
  <2>2. ASSUME NEW f \in processed', NEW r \in ToSet(RecordsOf[f]), Resolvable(r)
        PROVE  r \in imported'
    <3>1. CASE f \in processed
      BY <2>2, <3>1, HistoryGrows DEF ProcessedIsImported, Resolvable
    <3>2. CASE f = file /\ (idcOk \/ ~unresolved)
      <4>1. pc[Importer] = "record" /\ left = <<>>
        BY <1>9 DEF EndFile
      <4>2. ToSet(left) = {}
        BY <4>1 DEF ToSet
      <4> QED BY <2>2, <3>2, <4>1, <4>2, HistoryGrows DEF FileInv
    <3> QED BY <1>9, <2>2, <3>1, <3>2 DEF EndFile
  <2> QED BY <2>1, <2>2 DEF ProcessedIsImported, Resolvable
<1>10. ASSUME FileFails PROVE FileInv'
  BY <1>0, <1>10, FileElsewhere DEF FileFails, Goto
<1>11. ASSUME ServiceStep PROVE FileInv'
  <2>1. CASE Restart
    BY <1>0, <2>1, FileElsewhere DEF Restart
  <2>2. CASE Expire \/ DayPasses \/ UNCHANGED vars
    <3>1. UNCHANGED <<pc, file, left, unresolved, idcOk>>
      BY <2>2 DEF Expire, DayPasses, vars, import
    <3> QED BY <3>1, FileStays DEF AtRecords
  <2> QED BY <1>11, <2>1, <2>2 DEF ServiceStep
<1>12. ~EndFile => processed' \subseteq processed
  BY StepKinds DEF Arrive, ListUsers, WriterStep, Find, Insert, Raced, Update, Returned,
     HostStep, UpsertPlugin, LoginFails, CopyStep, Begin, CopyUser, AddUser, SkipUser, CopyCommits,
     CopyFails, FileStep, StartImport, ListingFails, NextFile, NextRecord, FileFails, ServiceStep,
     Expire, DayPasses, Restart, import, vars
<1>13. FileInv'
  BY <1>2, <1>3, <1>4, <1>5, <1>6, <1>7, <1>70, <1>8, <1>9, <1>10, <1>11, StepKinds DEF FileStep
<1>14. ProcessedIsImported'
  BY <1>1, <1>9, <1>12
<1> QED BY <1>13, <1>14


----------------------------------------------------------------------------
\* Marks and hosts.
LEMMA LoginSteps ==
  ASSUME IInv, [Next]_vars, NEW l \in Logins
  PROVE  \/ pc'[l] = pc[l] /\ name'[l] = name[l]
         \/ Arrive(l) \/ ListUsers(l)
         \/ WriterStep(l)
         \/ UpsertPlugin(l)
         \/ pc'[l] = "error" /\ name'[l] = name[l]
<1> USE Distinct DEF IInv
<1>0. pc \in [Processes -> Steps] /\ name \in [Writers -> Names \cup {NoName}]
  BY DEF TypeOK
<1>1. ASSUME NEW q \in Requests, q # l, Arrive(q) \/ ListUsers(q)
      PROVE  pc'[l] = pc[l] /\ name'[l] = name[l]
  BY <1>0, <1>1 DEF Arrive, ListUsers, LookUp, Goto
<1>2. ASSUME NEW w \in Writers, w # l, WriterStep(w)
      PROVE  pc'[l] = pc[l] /\ name'[l] = name[l]
  BY <1>0, <1>2 DEF WriterStep, Find, Insert, Raced, Update, Returned, Goto, writers
<1>3. ASSUME NEW k \in Logins, HostStep(k)
      PROVE  \/ k # l /\ pc'[l] = pc[l] /\ name'[l] = name[l]
             \/ k = l /\ UpsertPlugin(l)
             \/ k = l /\ pc'[l] = "error" /\ name'[l] = name[l]
  BY <1>0, <1>3 DEF HostStep, UpsertPlugin, LoginFails, Goto, writers
<1>4. ASSUME NEW c \in Copiers, CopyStep(c) PROVE pc'[l] = pc[l] /\ name'[l] = name[l]
  <2>1. name' = name
    BY <1>4 DEF CopyStep, Begin, CopyUser, AddUser, SkipUser, CopyCommits, CopyFails, writers
  <2>2. \E s : pc' = [pc EXCEPT ![c] = s]
    BY <1>4 DEF CopyStep, Begin, CopyUser, AddUser, SkipUser, CopyCommits, CopyFails, EndCopy, Step1, Goto
  <2> QED BY <1>0, <2>1, <2>2 DEF Copiers
<1>5. ASSUME FileStep PROVE pc'[l] = pc[l] /\ name'[l] = name[l]
  BY <1>0, <1>5 DEF FileStep, StartImport, ListingFails, NextFile, NextRecord, EndFile, FileFails, Goto, writers
<1>6. ASSUME ServiceStep
      PROVE  name'[l] = name[l] /\ (pc'[l] = pc[l] \/ pc'[l] = "error")
  <2>1. CASE Restart
    <3>1. l \notin Copiers
      BY DEF Copiers
    <3> QED BY <1>0, <2>1, <3>1 DEF Restart
  <2>2. CASE Expire \/ DayPasses \/ UNCHANGED vars
    BY <2>2 DEF Expire, DayPasses, writers, vars
  <2> QED BY <1>6, <2>1, <2>2 DEF ServiceStep
<1> QED BY <1>1, <1>2, <1>3, <1>4, <1>5, <1>6, StepKinds

\* A login that has a name goes on under a spelling of the same user.
LEMMA NamesStay ==
  ASSUME IInv, [Next]_vars, NEW l \in Logins, name[l] # NoName
  PROVE  name'[l] # NoName /\ Who[name'[l]] = Who[name[l]]
<1> USE Distinct DEF IInv
<1>1. ~(Arrive(l) \/ ListUsers(l))
  BY DEF Arrive, ListUsers, WriterInv, LoginOK
<1>2. CASE Find(l)
  <2>1. CASE RowsOf(Subject(l)) = {}
    BY <1>2, <2>1 DEF Find, writers
  <2>2. CASE RowsOf(Subject(l)) # {}
    <3>1. name'[l] = TheRow(Subject(l))
      BY <1>2, <2>2 DEF Find, TypeOK
    <3> QED BY <2>2, <3>1, OneRow, NamesAssumption DEF NamesAssumption, Subject
  <2> QED BY <2>1, <2>2
<1>3. CASE Insert(l) \/ Raced(l) \/ Update(l)
  BY <1>3 DEF Insert, Raced, Update, Returned, writers
<1>4. CASE UpsertPlugin(l)
  BY <1>4 DEF UpsertPlugin, writers
<1> QED BY <1>1, <1>2, <1>3, <1>4, LoginSteps DEF WriterStep

\* Who clashes does so at its INSERT.
LEMMA ClashedStays ==
  ASSUME IInv, [Next]_vars, NEW l \in Logins, pc[l] # "insert", l \in clashed'
  PROVE  l \in clashed
<1> USE Distinct DEF IInv
<1>1. ASSUME NEW w \in Writers, Insert(w) PROVE l \in clashed
  <2>1. clashed' = clashed \/ clashed' = clashed \cup {Item(w)}
    BY <1>1 DEF Insert
  <2>2. Item(w) # l
    BY <1>1, ItemTyped, NamesAssumption DEF NamesAssumption, Insert, Writing
  <2> QED BY <2>1, <2>2
<1>2. CASE UNCHANGED clashed
  BY <1>2
<1> QED
  BY <1>1, <1>2, StepKinds DEF Arrive, ListUsers, WriterStep, Find, Raced, Update,
     HostStep, UpsertPlugin, LoginFails, CopyStep, Begin, CopyUser, AddUser, SkipUser, CopyCommits,
     CopyFails, FileStep, StartImport, ListingFails, NextFile, NextRecord, EndFile, FileFails, ServiceStep,
     Expire, DayPasses, Restart, history, vars

HostOK(l) == pc[l] \in {"host", "ok"} =>
  /\ l \in outrun \ clashed \/ \E n \in RowsOf(Subject(l)) : rows[n].plugin
  /\ pc[l] = "host" /\ l \notin clashed => rows[name[l]] # NoRow

\* userSync has returned to a login: its row is marked, or the row was there
\* under the very name when it came to insert it.
LEMMA HostReturned ==
  ASSUME IInv, [Next]_vars, NEW l \in Logins, Insert(l) \/ Raced(l) \/ Update(l)
  PROVE  HostOK(l)'
<1> USE Distinct DEF IInv
<1>0. /\ pc \in [Processes -> Steps] /\ pc[l] \in Writing /\ name[l] \in Names
      /\ name' = name
  BY DEF TypeOK, Insert, Raced, Update, Returned, Writing, WriterInv, WriterOK, writers
<1>1. Item(l) = l
  BY DEF Item
<1>2. ASSUME NEW n \in Names, Who[n] = Subject(l), rows'[n] \in Row, rows'[n].plugin
      PROVE  \E m \in RowsOf(Subject(l))' : rows'[m].plugin
  BY <1>0, <1>2, NamesAssumption DEF NamesAssumption, RowsOf, Subject
<1>3. CASE Insert(l)
  <2>1. CASE Written(name[l], IdOf[l], Credited(l, NewRow.credits), TRUE)
    <3>1. rows'[name[l]] \in Row /\ rows'[name[l]].plugin
      BY <2>1 DEF Written
    <3> QED BY <1>0, <1>2, <3>1, NamesAssumption DEF NamesAssumption, HostOK, Subject
  <2>2. CASE /\ name[l] \in RowsOf(Subject(l))
             /\ outrun' = outrun \cup {l} /\ UNCHANGED <<rows, clashed>>
    <3>1. l \in outrun' \ clashed'
      BY <1>3, <2>2 DEF Insert, WriterInv, LoginOK, TypeOK
    <3>2. rows'[name'[l]] # NoRow
      BY <1>0, <2>2 DEF RowsOf
    <3> QED BY <3>1, <3>2 DEF HostOK
  <2>3. CASE pc' = [pc EXCEPT ![l] = "raced"]
    BY <1>0, <2>3 DEF HostOK
  <2> QED BY <1>1, <1>3, <2>1, <2>2, <2>3, InsertRow
<1>4. CASE Raced(l)
  <2> DEFINE n == TheRow(Subject(l))
  <2>1. n \in Names /\ Who[n] = Subject(l) /\ rows'[n] \in Row /\ rows'[n].plugin
    BY <1>4, RacedRow DEF Written
  <2>2. l \in clashed'
    BY <1>1, <1>4, HistoryGrows DEF Raced, WriterInv, WriterOK
  <2> HIDE DEF n
  <2> QED BY <1>2, <2>1, <2>2 DEF HostOK
<1>5. CASE Update(l)
  <2>1. rows'[name[l]] \in Row /\ rows'[name[l]].plugin
    BY <1>5, UpdateRow DEF Written
  <2> QED BY <1>0, <1>2, <2>1, NamesAssumption DEF NamesAssumption, HostOK, Subject
<1> QED BY <1>3, <1>4, <1>5

LEMMA HostStays ==
  ASSUME IInv, [Next]_vars, NEW l \in Logins, pc[l] \in {"host", "ok"}, name'[l] = name[l],
         pc'[l] = "host" => pc[l] = "host"
  PROVE  HostOK(l)'
<1> USE Distinct DEF IInv
<1>1. name[l] \in Names /\ (l \in clashed' <=> l \in clashed) /\ outrun \subseteq outrun'
  BY ClashedStays, HistoryGrows DEF WriterInv, LoginOK
<1>2. ASSUME NEW n \in RowsOf(Subject(l)), rows[n].plugin
      PROVE  \E m \in RowsOf(Subject(l))' : rows'[m].plugin
  BY <1>2, TableStep DEF RowsKept, RowsOf, Subject
<1>3. rows[name[l]] # NoRow => rows'[name[l]] # NoRow
  BY <1>1, TableStep DEF RowsKept
<1> QED BY <1>1, <1>2, <1>3 DEF HostInv, HostOK

LEMMA HostStepInv ==
  ASSUME IInv, [Next]_vars PROVE HostInv' /\ HostsAreCounted'
<1> USE Distinct DEF IInv
<1>0. pc \in [Processes -> Steps] /\ name \in [Writers -> Names \cup {NoName}]
  BY DEF TypeOK
<1>1. ASSUME NEW l \in Logins PROVE HostOK(l)'
  <2>1. CASE pc'[l] = pc[l] /\ name'[l] = name[l]
    <3>1. CASE pc[l] \in {"host", "ok"}
      BY <2>1, <3>1, HostStays
    <3>2. CASE pc[l] \notin {"host", "ok"}
      BY <2>1, <3>2 DEF HostOK
    <3> QED BY <3>1, <3>2
  <2>2. CASE Arrive(l) \/ ListUsers(l)
    BY <1>0, <2>2 DEF Arrive, ListUsers, LookUp, Goto, HostOK
  <2>3. CASE Find(l)
    BY <1>0, <2>3 DEF Find, Goto, HostOK
  <2>4. CASE Insert(l) \/ Raced(l) \/ Update(l)
    BY <2>4, HostReturned
  <2>5. CASE UpsertPlugin(l)
    <3>1. pc[l] = "host" /\ pc'[l] = "ok" /\ name' = name
      BY <1>0, <2>5 DEF UpsertPlugin, Goto, writers
    <3> QED BY <3>1, HostStays
  <2>6. CASE pc'[l] = "error"
    BY <2>6 DEF HostOK
  <2> QED BY <2>1, <2>2, <2>3, <2>4, <2>5, <2>6, LoginSteps DEF WriterStep
<1>2. ASSUME NEW l \in Logins, l \notin clashed', hosts'[l] # NoName
      PROVE  rows'[hosts'[l]] # NoRow
  <2>1. l \notin clashed
    BY <1>2, HistoryGrows
  <2>2. CASE hosts'[l] = hosts[l]
    <3>1. rows[hosts[l]] # NoRow /\ hosts[l] \in Names
      BY <1>2, <2>1, <2>2 DEF HostsAreCounted, TypeOK
    <3> QED BY <2>2, <3>1, TableStep DEF RowsKept
  <2>3. CASE hosts'[l] # hosts[l]
    <3>1. hosts' = hosts \/ \E k \in Logins : UpsertPlugin(k)
      BY StepKinds DEF Arrive, ListUsers, WriterStep, Find, Insert, Raced, Update, HostStep,
         LoginFails, CopyStep, Begin, CopyUser, AddUser, SkipUser, CopyCommits, CopyFails, FileStep,
         StartImport, ListingFails, NextFile, NextRecord, EndFile, FileFails, ServiceStep, Expire, DayPasses, Restart,
         tables, vars
    <3>2. pc[l] = "host" /\ hosts'[l] = name[l]
      BY <2>3, <3>1 DEF UpsertPlugin, TypeOK
    <3>3. name[l] \in Names /\ rows[name[l]] # NoRow
      BY <2>1, <3>2 DEF HostInv, WriterInv, LoginOK
    <3> QED BY <3>2, <3>3, TableStep DEF RowsKept
  <2> QED BY <2>2, <2>3
<1> QED BY <1>1, <1>2 DEF HostInv, HostOK, HostsAreCounted

\* A mark is set by a write of userSync, for its user.
LEMMA NewMarks ==
  ASSUME IInv, [Next]_vars, NEW n \in Names, rows'[n] # NoRow, rows'[n].plugin,
         ~(rows[n] # NoRow /\ rows[n].plugin)
  PROVE  \E w \in Writers : /\ Who[n] = Subject(w)
                            /\ \/ w \in Logins /\ name[w] \in Names
                               \/ w = Importer /\ pc[w] = "raced"
<1> USE Distinct DEF IInv
<1>0. rows[n] # NoRow => rows[n] \in Row
  BY DEF TypeOK
<1>1. ASSUME NEW w \in Writers, Insert(w) \/ Raced(w) \/ Update(w)
      PROVE  name[w] \in Names
  BY <1>1 DEF Insert, Raced, Update, WriterInv, WriterOK, Writing
<1>2. ASSUME NEW w \in Writers, Insert(w) PROVE w # Importer /\ Who[n] = Subject(w)
  <2>1. rows' # rows
    OBVIOUS
  <2>2. Written(name[w], IF w = Importer THEN NoPerson ELSE IdOf[w],
                Credited(w, NewRow.credits), w # Importer)
    BY <1>2, <2>1, InsertRow
  <2>3. rows'[name[w]].plugin = (w # Importer) /\ \A m \in Names \ {name[w]} : rows'[m] = rows[m]
    BY <2>2 DEF Written
  <2> QED BY <2>3 DEF Subject
<1>3. ASSUME NEW w \in Writers, Raced(w) PROVE Who[n] = Subject(w) /\ pc[w] = "raced"
  <2>1. /\ Who[TheRow(Subject(w))] = Subject(w)
        /\ \A m \in Names \ {TheRow(Subject(w))} : rows'[m] = rows[m]
    BY <1>3, RacedRow DEF Written
  <2> QED BY <1>3, <2>1 DEF Raced
<1>4. ASSUME NEW w \in Writers, Update(w) PROVE w # Importer /\ Who[n] = Subject(w)
  <2>1. /\ name[w] \in Names /\ rows[name[w]] \in Row
        /\ rows'[name[w]].plugin = (rows[name[w]].plugin \/ w # Importer)
        /\ \A m \in Names \ {name[w]} : rows'[m] = rows[m]
    BY <1>4, UpdateRow DEF Written
  <2>2. n = name[w]
    BY <2>1
  <2>3. rows[n] # NoRow
    BY <2>1, <2>2, NamesAssumption DEF NamesAssumption
  <2> QED BY <2>1, <2>2, <2>3 DEF Subject
<1>5. ASSUME NEW c \in Copiers, CopyCommits(c) PROVE FALSE
  BY <1>5, CommitRows
<1>6. ASSUME UNCHANGED rows PROVE FALSE
  BY <1>6
<1>7. CASE \/ \E q \in Requests : Arrive(q) \/ ListUsers(q)
           \/ \E w \in Writers : Find(w)
           \/ \E l \in Logins : HostStep(l)
           \/ \E c \in Copiers : CopyStep(c) /\ ~CopyCommits(c)
           \/ FileStep \/ ServiceStep
  BY <1>6, <1>7 DEF Arrive, ListUsers, Find, HostStep, UpsertPlugin, LoginFails, CopyStep,
     Begin, CopyUser, AddUser, SkipUser, CopyFails, FileStep, StartImport, ListingFails, NextFile, NextRecord,
     EndFile, FileFails, ServiceStep, Expire, DayPasses, Restart, tables, vars
<1> QED BY <1>1, <1>2, <1>3, <1>4, <1>5, <1>7, StepKinds DEF WriterStep, Writers

LEMMA MarkStep ==
  ASSUME IInv, [Next]_vars PROVE MarkedHasLoggedIn'
<1> USE Distinct DEF IInv
<1> SUFFICES ASSUME NEW n \in Names, rows'[n] # NoRow, rows'[n].plugin
             PROVE  \/ \E l \in Logins : name'[l] # NoName /\ Who[name'[l]] = Who[n]
                    \/ \E r \in clashed' \cap Records : PersonOf[r] = Who[n]
  BY DEF MarkedHasLoggedIn
<1>1. ASSUME NEW l \in Logins, name[l] # NoName, Who[name[l]] = Who[n]
      PROVE  name'[l] # NoName /\ Who[name'[l]] = Who[n]
  BY <1>1, NamesStay
<1>2. CASE rows[n] # NoRow /\ rows[n].plugin
  BY <1>1, <1>2, HistoryGrows DEF MarkedHasLoggedIn
<1>3. CASE ~(rows[n] # NoRow /\ rows[n].plugin)
  <2>1. PICK w \in Writers : /\ Who[n] = Subject(w)
                             /\ \/ w \in Logins /\ name[w] \in Names
                                \/ w = Importer /\ pc[w] = "raced"
    BY <1>3, NewMarks
  <2>2. CASE w \in Logins /\ name[w] \in Names
    BY <1>1, <2>1, <2>2, NamesAssumption DEF NamesAssumption, Subject
  <2>3. CASE w = Importer /\ pc[w] = "raced"
    <3>1. Record \in clashed \cap Records /\ PersonOf[Record] = Who[n]
      BY <2>1, <2>3, ItemTyped DEF WriterInv, WriterOK, ImporterOK, Writing, Subject
    <3> QED BY <3>1, HistoryGrows
  <2> QED BY <2>1, <2>2, <2>3
<1> QED BY <1>2, <1>3

----------------------------------------------------------------------------
\* The invariant, and what it says of the service.
LEMMA InitInv ==
  ASSUME Init PROVE IInv
<1> USE Distinct DEF Init
<1>1. TypeOK
  <2>1. /\ <<>> \in Seq(Records)
        /\ 0 \in 0 .. Len(Directory) /\ 0 \in 0 .. MaxFaults /\ 0 \in 0 .. LastDay
    BY TablesAssumption, BoundsAssumption DEF TablesAssumption, BoundsAssumption
  <2>2. PcTyped /\ ServiceTyped /\ WritersTyped
    BY <2>1 DEF PcTyped, ServiceTyped, WritersTyped, Steps
  <2>3. CopiesTyped /\ ImportTyped /\ RecordsTyped
    BY <2>1 DEF CopiesTyped, ImportTyped, RecordsTyped
  <2>4. TableOK
    BY DEF TableOK
  <2> QED BY <2>2, <2>3, <2>4, RestOfTypes DEF RestTyped
<1>2. ControlOK
  BY DEF ControlOK, Copiers
<1>3. \A q \in Requests : pc[q] = "new"
  OBVIOUS
<1>4. pc[Importer] = "idle" /\ pc[Viewer] = "idle" /\ \A p \in Processes : pc[p] \in {"new", "idle"}
  OBVIOUS
<1>5. CopyInv /\ InsertsAreDisjoint
  BY <1>4 DEF CopyInv, InsertsAreDisjoint, Copiers
<1>6. WriterInv /\ SnapInv
  BY <1>3, <1>4 DEF WriterInv, WriterOK, LoginOK, ImporterOK, Writing, SnapInv
<1>7. FileInv /\ HostInv /\ CacheInv
  BY <1>3, <1>4 DEF FileInv, HostInv, CacheInv, Writing
<1>8. /\ CreditIsKept /\ ProcessedIsImported /\ MarkedHasLoggedIn /\ HostsAreCounted
      /\ DirectoryIdWins /\ FailureIsForgotten
  BY DEF CreditIsKept, ProcessedIsImported, MarkedHasLoggedIn, HostsAreCounted, DirectoryIdWins,
     FailureIsForgotten
<1> QED BY <1>1, <1>2, <1>5, <1>6, <1>7, <1>8 DEF IInv

LEMMA Invariance == Spec => []IInv
<1>1. Init => IInv
  BY InitInv
<1>2. IInv /\ [Next]_vars => IInv'
  <2> SUFFICES ASSUME IInv, [Next]_vars PROVE IInv'
    OBVIOUS
  <2>1. TypeOK' /\ ControlOK' /\ CopyInv' /\ InsertsAreDisjoint' /\ WriterInv'
    BY TypeStep, ControlStep, CopyInvStep, WriterInvStep
  <2>2. SnapInv' /\ CreditIsKept' /\ FileInv' /\ ProcessedIsImported'
    BY CreditStep, FileStepInv
  <2>3. /\ HostInv' /\ HostsAreCounted' /\ MarkedHasLoggedIn' /\ CacheInv' /\ FailureIsForgotten'
        /\ DirectoryIdWins'
    BY HostStepInv, MarkStep, CacheStep, IdStep
  <2> QED BY <2>1, <2>2, <2>3 DEF IInv
<1> QED BY <1>1, <1>2, PTL DEF Spec

\* Every variable keeps its type, and whatever spellings of a user the writers
\* of kiro_user meet, it holds one row of each.
THEOREM OneRowPerUser == Spec => []TypeOK
<1>1. IInv => TypeOK
  BY DEF IInv
<1> QED BY <1>1, Invariance, PTL

\* userSync never loses the credits of an imported record but to a later record
\* of the day, a login's overlapping write or a row that appeared before its INSERT.
THEOREM CreditsAreKept == Spec => []CreditIsKept
<1>1. IInv => CreditIsKept
  BY DEF IInv
<1> QED BY <1>1, Invariance, PTL

\* syncCreditsFromS3 adds a file to processedKeys only when each record it can
\* find a name for has been through userSync.
THEOREM FilesAreImported == Spec => []ProcessedIsImported
<1>1. IInv => ProcessedIsImported
  BY DEF IInv
<1> QED BY <1>1, Invariance, PTL

\* plugin_added is set for whoever was answered 200, and for nobody else, but
\* for rows that appear between the SELECT and the INSERT of userSync.
THEOREM OnlyUsersAreMarked == Spec => []MarksAreExact
<1>1. IInv => MarksAreExact
  BY DEF IInv, HostInv, MarksAreExact, AcceptedIsMarked
<1> QED BY <1>1, Invariance, PTL

\* upsertPlugin writes a host under a name that kiro_user has, unless the login
\* met another spelling of it.
THEOREM HostsHaveUsers == Spec => []HostsAreCounted
<1>1. IInv => HostsAreCounted
  BY DEF IInv
<1> QED BY <1>1, Invariance, PTL

\* No login and no import changes the user_id a directory copy has written.
THEOREM IdsOfDirectoryStay == Spec => []DirectoryIdWins
<1>1. IInv => DirectoryIdWins
  BY DEF IInv
<1> QED BY <1>1, Invariance, PTL

\* No statement of store.js removes a row of kiro_user, clears plugin_added, or
\* changes the user_id that is the one of the row's user.
THEOREM RowsAreKept == Spec => [][RowsKept]_vars
<1>1. IInv /\ [Next]_vars => [RowsKept]_vars
  BY TableStep
<1> QED BY <1>1, Invariance, PTL DEF Spec

\* A failed listing leaves users unresolved only until the cache expires.
THEOREM FailuresAreForgotten == Spec => []FailureIsForgotten
<1>1. IInv => FailureIsForgotten
  BY DEF IInv
<1> QED BY <1>1, Invariance, PTL

=============================================================================
