# Kiro coding metrics collector: TLA+ models and proofs

The collector measures how much of each git commit was written by an AI agent.
This directory models the parts of it in which processes, callbacks, retries
and failures meet, checks them with TLC and proves the central properties with
TLAPS. The reference is the source: `src/kiro-plugin` (the IDE extension and
the git hook it installs), `src/git-ai-src` (the `git-ai` binary) and
`src/kiro-dashboard` (the service). `src/code` holds older copies of the same
programs and is not used.

## 1. The system

```
 Kiro ──writes──> execution logs ──> SessionLogWatcher ──spawn──> git-ai checkpoint
                                          │                            │
                                          v                            v
                              .git/ai/kiro_net_deletions     .git/ai/working_logs/<base>/
                                          │                            │
 git commit ──> post-commit hook ─────────┤                            v
      │              │   └──────── git-ai post-commit ──> refs/notes/ai
      v              │                    ^                            │
 CommitWatcher ──────┼────────────────────┘                            v
      │              │                                         git-ai stats --json
      v              v                                                 │
 statsUploader    curl  <──────────────────────────────────────────────┘
      └──────┬───────┘
             v
   POST /api/v1/stats ──> commits, tool_model_stats, ai_ratio_history
```

### Inventory

| Part | State it keeps | Operations | Interaction | What is hard | What makes it correct | Module |
|---|---|---|---|---|---|---|
| stats endpoint (`ingest.js:157-214`, `store.js:326-407, 653-673`) | `commits`, `idempotency_keys`, `ai_ratio_history`; connection pool | duplicate check, `saveStats` (one transaction), record the key | HTTP from hook and extension; PostgreSQL | every `await` lets another request run; READ COMMITTED; lost connections; restarts | nothing acknowledged that is not stored; atomic save; every request answered | `StatsIngest` |
| stats uploader (`statsUploader.ts`) | the loop of one upload | POST, retry with back-off, log | HTTP to the endpoint | client timeout against a late answer, lost responses | at least one stored copy per acknowledged report; the loop ends | `StatsUpload` |
| working log and notes (`repo_storage.rs`, `post_commit.rs`, `virtual_attribution.rs`, `git_ai_handlers.rs`, `checkpoint.rs`, `refs.rs`) | `.git/ai/working_logs/<base>/{checkpoints.jsonl,INITIAL}`, `refs/notes/ai` | `checkpoint`, `post-commit`, `post-commit --amend-from` | separate processes that share files without a lock | read-rewrite races, truncate-then-write, kills between steps, two callers per commit | no false credit; a log goes only after its note; no lost edit | `WorkingLog` |
| execution-log watcher, formats A and B (`sessionLogWatcher.ts`) | watched directories, last sizes, timers, known sessions, marked actions | discover, snapshot, cold-start scan, debounce, process | file events from Kiro; spawns `git-ai checkpoint` | callbacks interleave at awaits; partial writes; failed checkpoints; restarts | every action sent, once, to its repository, and only for sessions of the workspace | `ExecutionLogs` |
| messages reader, format C (`sessionLogWatcher.ts:1100-1557`) | byte offset per file, timers, the same marks | find a session, read new lines, send their actions | as above | the offset is taken and stored around awaits; half lines; sessions that appear at a bad moment | every complete line once; the offset stays at a line end | `MessagesTail` |
| commit numbers (`stats.rs`, hook arithmetic, `store.js`) | counters of one report | compute, subtract and cap, sum up | JSON between three programs | lines counted twice; two reporters with different conventions | AI + human = diff; the ratio is a share | `LineMetrics` |
| post-commit hook (`gitUtils.ts:526-798`) | lock file, `kiro_net_deletions`, `last_upload_payload.json`, `.payload.tmp` | lock, wait 2 s, amend detection, post-commit, stats, log, curl | runs in the background of every commit | overlapping hooks; HEAD moves during the wait; one unchecked curl; `pkill` | every local commit reported, with its own numbers | `CommitReport`, `UserLogin` |
| commit watcher (`commitWatcher.ts`) | `lastKnownHead`, `uploadedCommits` | observe HEAD, `runPostCommit`, upload where the hook does not run | git extension events | coalesced events; reflog read later | as above | `CommitReport` |
| user directory (`store.js:752-976`, `creditSync.js`, `ingest.js:20-155`) | `kiro_user`, `plugins`; 10-minute directory cache; processed files | userSync, copy of the directory, credit import | HTTP, IAM Identity Center, S3, a timer | read-merge-write without a transaction; case variants; cached failure | no lost credit; one row per person; every file imported | `Directory` |
| user login report (`userSync.ts`, `qClientWatcher.ts`) | `isFirst`, in-flight flag, tail offset; lines of the shared log | 4 h gate, log, POST | file events; the log is shared with the hook and other windows | half lines; three kinds of writers that rewrite one file | the newest login is found; one report per 4 h | `UserLogin` |

The remaining parts are in section 6 and, with their reasons, in
`PROJECT.json`; its `hazards` list every spot that is hard to test.

## 2. The modules

| Module | Models | Constants | Theorems |
|---|---|---|---|
| `StatsIngest` | the POST /api/v1/stats handler and the store functions it awaits | requests, their keys, bodies, repositories, lines; pool size; faults | `StatsIngestProofs` |
| `ReportLedger` | abstract: a report is stored, then acknowledged, and never lost | reports | |
| `StatsUpload` | the retry loop, composed with `StatsIngest` by INSTANCE; implements `ReportLedger` | uploads, keys, bodies, MAX_RETRIES | `StatsUploadProofs` |
| `WorkingLog` | `checkpoint` and `post-commit` processes on the shared files | commits, edits, callers, kills | `WorkingLogProofs` |
| `LineMetrics` | the counters of a commit through git-ai, hook, extension, service | reporters, bounds | `CommitReportProofs` |
| `ExecutionLogs` | SessionLogWatcher for formats A and B | logs, directories, actions and their keys, repositories, limits, faults | `ExecutionLogsProofs` |
| `MessagesTail` | SessionLogWatcher for format C | lines, actions and their keys, repositories, tasks, limits, faults | `MessagesTailProofs` |
| `CommitReport` | the hook script as a process, the extension's commit watcher, a moving HEAD | reflog subjects, moves, failures, counts of deletions | `CommitReportProofs` |
| `UserLogin` | the login reports and the log they share with the hook | windows, log entries, lapses of time, kills | `UserLoginProofs` |
| `Directory` | `kiro_user`, its three writers and the directory cache | people, names, logins, reports, credit files and their folders, the window of days, faults | `DirectoryProofs` |
| `MC*` | TLC instances of the module of that name | | |

How they fit together: `ExecutionLogs` and `MessagesTail` end at a checkpoint
that exits 0, with which `WorkingLog` begins. `CommitReport` takes a note as
"built from the log of this commit" and leaves what is in it to `WorkingLog`
and the numbers to `LineMetrics`; its single curl and the extension's upload
are the two clients of `StatsIngest`, the second one in detail in
`StatsUpload`. `UserLogin` is the rest of the hook and the sender of the posts
`Directory` receives. `StatsUpload` instantiates `StatsIngest`; the other
interfaces are these events.

### StatsIngest
An action is the code between two awaits of a handler: `pc[r]` is the await at
which request `r` stands. `Arrive` to `RefuseBody` are the header, the
duplicate check and the body (`ingest.js:157-196`); `Begin`, `InsertRows`,
`SumTotals`, `InsertSnapshot`, `Commit` are `saveStats` and
`recordAiRatioSnapshotTx`; `MarkKey` is `setIdempotencyKey`. `rows`, `history`
and `keys` are the committed tables; `totals` and `stamp` what an open
transaction has read: a sum is the set of rows it is taken over, and two sums
agree when they count the same rows with lines. The transaction runs at READ
COMMITTED, so `SumTotals` sees the committed rows and its own. `commits` has no unique key, hence a row
per request. Failures: a query fails (`TxFails`, `QueryFails`, `LookupFails`,
which answers "not seen"), COMMIT is durable but its answer is lost
(`CommitUnknown`), no connection within the limit (`PoolTimeout`), the process
dies (`Crash`; systemd restarts it, `kiro-metrics-existing-vpc.yaml:203`).
`CREATE TABLE` at start, the identity lookup and the tool rows are left out.

### StatsUpload and ReportLedger
Request `<<u, n>>` of `StatsIngest` is the n-th attempt of upload `u`; all
attempts carry the same key. `ReadOk`, `ReadRefusal`, `ReadServerError`,
`NetworkError` are the branches of `postWithRetry`; `TimesOut` strikes while
the service still works, which leaves the request running in the service.
`Forgotten` is the IDE closing. The refinement maps `stored` to the keys with a
row and `acked` to the keys for which an upload has read 2xx.

### WorkingLog
An edit is one file the agent wrote; a log or a note is the set of edits it
credits. A checkpoint is a process per edit, a post-commit a process per caller
and commit, with a step per file access: read, truncate, write, note, INITIAL,
delete. `linked` tells whether the file a process has open is still in its
directory (another process may have removed the directory). Two writers that
both truncated may leave `Corrupt` text, and readers of it fail or skip as the
code does. `Commit` and `Amend` are the developer's; the hook recognises an
amend and names the original, the extension does not. `Kill` is the extension's
30 s limit, the `pkill` at the end of every hook, or a crash. With
`Concurrent = FALSE` no two processes overlap. The update of the notes ref is
atomic (git's own lock). Amend detection reads `orig`, i.e. HEAD has not moved
on while the hook waits; the moving HEAD is in `CommitReport`.

### LineMetrics
One behaviour measures a commit (`stats_from_authorship_log`), reports it by
the hook's shell arithmetic or by the extension, and adds it to the sums of
`recordAiRatioSnapshotTx`. `Minus` is `u32::saturating_sub`. Two attestation
entries may claim the same line, which `Accepted` counts twice as the code
does. `Measure` chooses the lines a note may claim (`touched`, from a diff
without rename detection) and among them those the diff counts (`added`, from
`--numstat --find-renames`): a file that is only renamed has lines of the first
kind and none of the second.

### ExecutionLogs
The extension host runs one callback at a time; a task is a chain of callbacks
that others interrupt at its awaits. `Starter` runs `start()` and the cold-start
scan, `Finder` sets up a directory found later, each of `Workers` an expired
debounce timer. `Dispatch` overwrites the net deletions and filters by raw key;
`SendHuman` and `SendAi`/`AiFails` are the pair of checkpoints of one
repository; `NextRepo` marks and evicts. `Restart` forgets everything and may
leave a checkpoint that finishes nevertheless.
Abstractions: an action is an accepted write on an existing, non-ignored file
of a known repository; a log belongs to one session; a file grows with every
write and does not parse in the middle of one; the order of repositories and
which mark is evicted are left open, so the code's order is one of them. The
7-day window of the cold start and the search for new workspace-hash
directories are not modelled; there is no commit in this module, so
`kiro_net_deletions` is never consumed (`CommitReport` consumes it).

### MessagesTail
The size of `messages.jsonl` counts halves of a line, so that a write may end
inside one. An action is two lines, the tool call and its result. `Discover`,
`WatchHashDir`, `LookIntoFolder` and `InitOffset` are the ways a session is
found (listed at start, or seen 500 ms after the event of its folder) and
opened (an old file is passed over). A task is a chain `Stat`, `Read`, then one
`Send` or `SendFails` per repository: `Opener` is the one `initOffset` starts,
`Workers` are expired debounce timers. `Read` stores the offset, after two
awaits, with what it read itself, so the offset can move back. `Restart`
forgets all maps, and a checkpoint that was running may have finished.
Abstractions: one session, in a hash folder that exists; an action's result is
a success; which mark is evicted is left open.

### CommitReport
A commit is the number of the move of HEAD that made it; `reflog` is the
history of HEAD with the kind of each move and with what the hook's patterns
find in its subject: `says` is "pick" or "amend" wherever in the subject,
message included, "cherry-pick" or "commit (amend)" stands, so a plain commit may
say either (`Subjects` is the set of combinations a run or a proof allows;
git's own wording binds only the amends and picks themselves). A hook is a process with one step
per command of the script (`ReadHead` ... `Cleanup`), so another move of HEAD, a
second hook, the extension and the execution-log watcher fall between any two
commands. `effective` (git runs the hook) and `flock` (the machine has it) are
chosen at the start and kept. `note[c]` is the commit whose working log the
note of `c` is built from, `del` the HEAD a count of deletions refers to: the
properties ask whether a report mixes those of different commits. `Observe` is
the `onDidChange` callback with its duplicate set, `RunPostCommit` and
`UploadCommitStats` the asynchronous function it starts. In both callers the
look for an existing note (`PostCommit`, `RunPostCommit`) and `notes add -f`
(`WriteNote`, `WriteOwnNote`) are two steps: both callers may pass the look, and
the later one replaces the note; what it still finds in the log the earlier one
has cleaned up is the matter of `WorkingLog`. Failures: post-commit,
stats, curl and upload fail; `Cleanup` kills any git-ai process.
Left out: the many moves of an interactive rebase, the other hooks of a
repository, and what the statistics contain.

### UserLogin
A version of `last_upload_payload.json` is the set of its entries, numbered in
the order they were appended. A host appends a line by one call; the hook by
three, the head, the payload and the newline, between which other entries may
come to stand on the same line: `start` is the first entry of an entry's line,
`open` the line no newline has ended yet. A line is kept or dropped by the
first time on it, which is that of its first entry unless a payload, which has
none, begins the line. Hosts append and rewrite (`AppendLogin`,
`ReadLog`, `Truncate`, `Fill`: no await in between, but other processes run);
the hook looks up the user id, appends and rewrites through `mv` (`LookUp`,
`AppendReport`, `CopyLog`, `Move`). `Shown` is the pipeline of the look-up: the
last line with a login, and of the user ids on it the first, be it the login's
or that of a payload (`user`) before it; `tac` puts an unfinished last line in
front of the line before it. After `mv` a host that has emptied the old
file fills an inode nobody reads. `BeginCommand` and `EndCommand` are Kiro
writing the marker of `q-client.log`; a poll in between moves the offset into
the line and misses it (`torn`). Time is three ages of an entry: recent (4 h),
kept, old (15 days). An entry appended between the truncation and the write of
`writeFileSync` is overwritten by `Fill`. At most one hook runs at a time: that
is what flock gives; without it two hooks would also share `.payload.tmp`
(`CommitReport`) and the temporary file of `awk`. Left out: the bytes that
`writeFileSync` leaves of a longer text appended while the file was empty, and
several repositories in one window.

### Directory
Names are spellings of persons; the unique index is on the person
(`LOWER(user_name)`). A step is one statement, or the code between two awaits.
`Find`, `Insert`, `Raced`, `Update` are `store.userSync`, called by a login
(then `UpsertPlugin`) or by the credit import (`NextFile`, `NextRecord`,
`EndFile`). `Begin`, `CopyUser`, `AddUser`, `CopyCommits` are
`syncIdCUsersToLocal` as one transaction with row locks (`Locked`) and waiting
inserts (`Inserting`); `SkipUser` is a statement for one user that fails and is
rolled back to its savepoint. The import lists the folders of the last `Window`
days as of the moment the copy ends (`EndCopy`, `Listed`; 30 in the code);
`DayPasses` moves that window at any time, and `ListingFails` is a folder whose
listing fails, which has no files in this round. `Arrive`, `ListUsers`, `Expire` are the 10-minute cache
behind the identity lookup of reports and logins. Failures: a listing, a
statement or a transaction fails, the service restarts.

## 3. The runs

| Run | Bounds | What it shows |
|---|---|---|
| `ingest` | 4 requests (two for one commit, one without lines, one refused), 2 connections, 2 faults | no key without a row, no 200 without a row, an atomic save, a complete sum when saves do not overlap, an answer for every request |
| `upload` | 2 uploads, 1 retry each, 1 connection, 2 faults | `ImplementsLedger`; a key is stored twice only if it was put out of force in a way `StoredTwiceIsExcused` names; every upload ends |
| `working_log` | 2 commits, 2 edits, the hook, 1 kill, every interleaving | `CreditIsReported`, `LogOutlivesNote` |
| `working_log_serial` | 2 commits, 2 edits, hook and extension, no overlap | `NothingLost`, `NoteKept`, `EveryCommitNoted` |
| `metrics` | 3 lines, counters to 3, 2 commits | `MetricsTypeOK` (no counter below 0), `HookSplitsTheDiff`, `ExtensionRatioIsAShare` |
| `exec_logs` | 1 log with actions in 2 repositories, 1 old session log, 1 mark, 1 fault | `MarkedWasSent`, `SentOnce`, `OnlyOwnSessions`, `NothingElseIsLost` |
| `exec_logs_net_deletions` (violation) | 2 logs, 1 repository | `NetDeletionsAreTotal`: the last log's count remains |
| `messages_tail` | 4 lines with 2 interleaved actions in 2 repositories, 1 timer task beside the opening one, 1 mark, 2 faults | `TypeOK` (the offset is at a line end), `SentOnce`, `NothingElseIsLost` |
| `commit_report` | 2 moves of HEAD, hook effective or not, with and without flock; 1 failure, or one move whose message speaks to the hook | `ReportsAreOwn`, `QuietReportIsExact`, `QuietCommitIsReported`, `EveryCommitNoted` |
| `commit_deletions` | 3 moves of HEAD under the lock, 2 without, 2 counts of deletions, 1 failure, the watcher asleep | `DeletionsAreOwn`, `DeletionsCountedOnce` |
| `directory` | 2 enrolled users, one with 2 spellings, 2 logins, 1 report, 2 files of 2 days with 4 records, a window of 2 days over 3 days, 2 faults | `TypeOK`, credits, marks, hosts, ids, the cache; `EverythingArrives` |
| `user_login` | 2 windows and the hook, 4 entries, 2 lapses, 1 kill | `LogIsComplete`, `NewestLoginIsUsed`, `GapIsKept` |

Several properties name the exceptions the code has, and say that there are no
others: a duplicate, a loss or a mixed report happens only after an event the
history variables record. Such a property does not catch the hazard it
excuses; it shows that nothing else goes wrong. This is so of the snapshot of
two overlapping saves (`SerialSnapshotIsTotal`), the cached empty directory
(`FailureIsForgotten`), the overlapping writes of a user row (`CreditIsKept`,
`MarksAreExact`, `HostsAreCounted`), two writers of a working log and two
post-commits (`NothingLost`, `NoteKept`, checked without overlap), the lock, the
failed curl and the passed-over HEAD (`QuietCommitIsReported`), a count of
deletions written while a hook runs (`DeletionsAreOwn`, `DeletionsCountedOnce`),
and lines lost to a rewrite (the three properties of `UserLogin`); the notes of
`hazards` in `PROJECT.json` say which event each one excuses. Actions with the key of another action
(`Shadowed`) are not among those of the instances.

Why the bounds are enough. The races of the endpoint need two requests for one
key and a third for the sum; a second fault allows a failure during the retry
that a first failure caused. One connection makes a request wait while another
one holds it. Two edits and two commits give two writers of one log, a commit
whose parent's log is being deleted, and a chain in which INITIAL carries an
edit on; `working_log` uses one caller to stay small, both callers are in the
serial run and in the proof. In `exec_logs` and `messages_tail` two actions in
two repositories give an action whose raw and repository-relative keys differ,
a partial failure, growth of a file that is being processed, and an eviction
(MaxMarked is 1); the opening task and one timer task are two readers of one
offset. The old session's log is never written again, so the cold-start limit
of 1 does not bind in that run. Two moves of HEAD give a hook that starts in
another one's wait, an amend or a cherry-pick of a commit whose hook still
runs, and two commits in one event of the git extension. What a message says
matters to the hook alone, and a failed command excuses the report it belongs
to; so `Sparingly` lets one of the two moves speak, where git runs a hook with
flock, the extension is awake and nothing fails. The deletions need a
third move and a second count: a hook can hold a count made two moves ago while
the watcher writes the next one. To afford them `commit_deletions` leaves out
what does not touch deletions (`HooksOnlyInit`, `HooksOnlyStep`): the
extension's watcher sleeps, and without the lock HEAD moves twice. In `directory` a login
and the import meet under two spellings of a user that the directory copy
inserts at the same moment, and a restart or a failed call falls between any
two of these steps; the second file brings a second day of that user and the
first day again, which replaces. The second enrolled user shows that a clash
with the first does not keep the others out. At first only the older file is
listed, then both, and on the last day only the newer one; two faults are a
failed listing of a folder and a failure of the round that would have made up
for it. `Apart` keeps apart what has nothing to do with each other: the last day
and the second fault belong to behaviours without the second login, the report
and the page of users; that page is closed while the second login is served;
and the report, which only reads the directory, comes without the first login,
which does not read it. In `user_login` four entries are two logins and a
report of the hook, or two logins and two reports of a host; two windows and
the hook rewrite the log at once. A login between two pieces of the hook's line,
and a later look-up that meets the payload before it, fit in. After a kill only
one window is awake (`Sparingly`); two windows and any number of kills are left
to the proofs.

Type invariants are an INVARIANT of a run where a fault of the code can break
them in an interesting way (`metrics`, `messages_tail`, `directory`); those of
the other modules are proved for every value of the constants instead
(section 4).

`CHECK_DEADLOCK FALSE` is set everywhere: requests, commits, actions and lines
are finite, and the system may stop once all are served. Symmetry is used in
`WorkingLog.cfg` and `UserLogin.cfg`, which check no liveness; commits and
edits, and windows, are interchangeable (`Sparingly` names none). Where an MC
module bounds the steps of a run that checks liveness, the bound never stops a
step fairness asks for: `Sparingly` of `MCCommitReport` concerns moves of HEAD
and failures, and `ApartFairness` asks only for steps `Apart` allows.

### Fairness
* `StatsIngest`: every handler's awaits settle. node-postgres queues waiters
  first in first out and gives up after `connectionTimeoutMillis`, so a waiter
  gets a connection or fails.
* `StatsUpload`: the back-off runs on timers and the request has its own
  timeout, so a client step happens.
* `WorkingLog` (`FairSpec`): the system schedules every process; the hook runs
  for every commit and the extension sends a checkpoint for every edit.
* `ExecutionLogs`: timers expire, callbacks run, Kiro completes a write it has
  begun. Nothing is assumed of restarts, of new sessions or of the 10 s
  cooldown.
* `MessagesTail`: timers expire and callbacks run. Nothing is assumed of Kiro.
* `CommitReport`: the system runs every hook; the git extension refreshes and
  delivers its events; the extension's promises go on. Nobody need commit.
* `Directory`: handlers go on, the hourly import is started again and again
  (`setInterval`) and goes on. Nobody need open the page of users, and
  nothing is assumed of the cache's expiry.
* `UserLogin` states no fairness: its log promises nothing in time.

## 4. Proofs

All theorems hold for every value of the constants under the named assumptions
of the module. Each follows from one inductive invariant by
`Init => IInv`, `IInv /\ [Next]_vars => IInv'`.

* `StatsIngestProofs`: `TypeCorrect`, `KeysAreBacked`, `AcknowledgedIsStored`,
  `SavesAreAtomic`, `SerialSnapshotsAreTotal`. The first three need
  `MarkFollowsCommit` (a handler stands at setIdempotencyKey only with its row
  committed) and `LookupHasKey`; atomicity needs `OpenSumsAreSound` (an open
  transaction has summed its own row and committed rows only) and `StampsOK`
  (one that commits without a snapshot has summed no lines). For the sums,
  `OverlapsAreKnown` makes a transaction that is not on record as overlapping
  the only open one, so what it has summed stays all there is and its snapshot
  is the newest (`SerialSumsAreTotal`); `MissedIsLater` is what that leaves in
  the table: a snapshot misses a report only if that report has a later one.
* `StatsUploadProofs`: `TypeCorrect`, `UploadImplementsLedger` and
  `TwiceIsExcused`. The endpoint's step lemmas are reused through INSTANCE;
  what remains for the ledger is that a client reads 2xx only from an answered
  request and that rows only grow. `TwiceIsExcused` needs `GInv`: attempts are
  made in order, and as long as an upload's key is in force only its current
  attempt is handled, a stored attempt has its key recorded or stands at
  setIdempotencyKey, and an attempt past the duplicate check finds no row.
* `CommitReportProofs`, its last part about `LineMetrics`: `MetricsTypeCorrect`,
  `HookPartitions`, `ExtensionShare`, for files and counters of any size, and
  for notes that claim lines a rename only moved. `Consistent` states what
  `stats.rs` guarantees (mixed <= human, accepted + mixed = ai, human is what
  accepted leaves of added); the caps of the hook then leave a partition of what
  a commit adds, and the extension's sums keep 2*ai - mixed between 0 and
  twice the denominator.
* `WorkingLogProofs`: `TypeCorrect`, `NotesAreReported`, `LogsOutliveNotes`,
  for any commits, edits, callers and kills, overlap included. `History`
  (commits stand on existing commits, so what a commit introduces is fixed),
  `Placed` (a post-commit works on the log of its commit's parent or original,
  and cleans up only after its note) and the three `Backed` conjuncts
  (whatever is in a log, in memory or in a note was reported by a checkpoint).
  `NothingIsLost` and `NotesAreKept` assume `Serial`: no overlap, no kill. Their
  invariant `SInv` follows an acknowledged edit: it is in the log of a handled
  HEAD (`Settled`), else in the log HEAD was made on or in the note it replaces
  (`Unbuilt`), else with the process that notes it, then in the note or in
  INITIAL (`Noting`). A log counts with what a process has truncated away and
  still holds in memory (`Held`). `Dead` says that no other log holds anything,
  so that a post-commit of the extension for an amended commit, which reads the
  log of the wrong base, finds it empty and does no harm; `Turns` says who may
  be running, `Fresh` that INITIAL of HEAD is empty until it is written.
* `ExecutionLogsProofs`: `TypeCorrect`, `MarksAreHonest`, `OwnSessionsOnly`,
  `SentTwiceIsExcused`, for any logs, actions, repositories, tasks, limits and
  faults. Sessions need `Off` (before start() has run there is no timer and no
  task) and `Known` (after it a session is known or start() found none), since
  a log passes the filter while no session is known. `SentOnce` needs
  `SentIsMarked` (what was sent is marked, or excused), `FirstToSend` (what a
  task still has to send was not sent, or is excused: the mark was read at
  `Dispatch`, several awaits before the checkpoint) and `TogetherOverlaps` (two
  tasks that send one log are on record). Finiteness of the actions and workers
  is assumed, for the cardinalities.
* `MessagesTailProofs`: `TypeCorrect`, which contains that the offset and every
  place a task reads from are line ends inside the file, and
  `SentTwiceIsExcused`. The first needs that an old file ends with a line (an
  offset set to its size) and that the opening task does not start before the
  file is opened. The second says of each protected action (mark not lost, keys
  equal, never held by two tasks) that it is sent at most once, is marked once
  sent, and is held by at most one task and only before that; the offset moving
  back is then harmless.
* `CommitReportProofs`: `TypeCorrect`, with `LockIsExclusive` (under flock the
  hooks past the lock are exactly its holder), and `OwnReports`: between a
  hook's payload and its curl nobody else writes the payload file.
  `QuietReportsAreExact` rests on `QInv`: a hook that nobody crowded runs alone
  and at HEAD (`Alone`), has read its own commit and the right original
  (`QuietHooks`), and finds no note but one of its own commit, though the extension may write
  one between its look and its own writing; where the extension reports, no hook
  runs at all (`QuietTasks`). Nothing is assumed of what a commit message says:
  the note is built on what the subject calls for. `OwnDeletions`
  (`DInv`) adds what a count refers to: a stray apart, the HEAD of now if no
  hook is about to read it, else the HEAD that the commit of that hook was made
  on. `CountedOnce` (`OInv`) says that under the lock a count that is no stray,
  of a HEAD visited once, is in one place only: the file, one hook, or the
  reports of one commit.
* `UserLoginProofs`: `TypeCorrect`, `OnlyRewritesLose`, `HookUsesTheNewestLogin`,
  `RepeatIsExcused`, for any number of windows, lines, lapses and kills.
  `LogIsComplete` is inductive with the types; the other two follow from it and
  from `LastIsLogin`. That a set of lines has a newest one (`HasNewest`) is
  itself an invariant: every appended line is newer than all before it. The
  look-up returns the newest login when that alone is `Shown` with it; a line's
  own entries are kept or dropped together because they share their start.
* `DirectoryProofs`: `OneRowPerUser`, `CreditsAreKept`, `FilesAreImported`,
  `OnlyUsersAreMarked`, `HostsHaveUsers`, `IdsOfDirectoryStay`,
  `FailuresAreForgotten` and the action property `RowsAreKept`, for any people,
  spellings, logins, reports, files and faults. `CopyInv` and `InsertsAreDisjoint` say of the open directory copies
  that they insert only users who still have no row and never the same user, so
  that their commits keep one row per user. `WriterInv` follows a call of
  userSync: at its UPDATE the row is there, at the catch of 23505 another
  spelling is, and the import writes under a name of its record's user.
  `SnapInv` is what makes the read-merge-write of credits safe: whoever is
  about to write a row back holds every credit that must be in it, except those
  `CreditIsKept` excuses. `FileInv` says that the records of the file at hand
  are imported, still to come, or skipped for want of the directory; `HostInv`
  that a login whose userSync has returned has marked its user and written a
  row. `TableStep` (no row goes, no mark and no id of the directory is lost) is
  the lemma the others share. That Identity Center lists a user once is assumed
  (`TablesAssumption`).

Only model-checked: every liveness property (`EveryRequestEnds`, `UploadEnds`,
`EveryCommitNoted`, `QuietCommitIsReported`, `NothingElseIsLost`,
`EverythingArrives`), which is beyond the prover.

## 5. What the runs found

A comment the code does not keep, with a run of its own (quoted in
`PROJECT.json`): net deletions that count the last log only.

What the excused cases of the passing properties are, in terms of the program:
* *Endpoint.* A retry sent while the first attempt is still being saved, or
  after the key of a stored report could not be recorded, stores the report a
  second time. Two saves that overlap leave a newest `ai_ratio_history` record
  that misses one of them.
* *Diff.* A file that is only renamed and whose lines the note credits to the
  agent is reported with AI lines although the diff adds none: the two diffs of
  `stats.rs` treat renames differently (541, 559), and the hook's caps are off
  for `GIT_ADD = 0` (`gitUtils.ts:693`). `docs/manual-test-plan.md:152` wants the
  three counters within the diff; `HookSplitsTheDiff` says that they add up to
  it where it adds anything.
* *Ratio.* The hook has already subtracted mixed lines when the service
  subtracts them again; a ratio of commits reported by the hook can leave
  [0, 1]. `ExtensionRatioIsAShare` is about the extension's reports.
* *Working log.* Two processes that read and rewrite one `checkpoints.jsonl`
  drop each other's checkpoint; two post-commits that both find no note write
  it twice, and the later one has less to build it from. When the extension's
  post-commit writes while an amending hook runs, the note loses what the
  original had (`slipped`).
* *Hook.* A hook that meets the lock exits and nothing reports its commit; a
  failed curl is not repeated; a hook that waits while HEAD moves takes the
  amend and cherry-pick decisions of the newer move. A plain commit whose
  message mentions "cherry-pick" is never reported, and one whose message
  mentions "commit (amend)" is handled with `--amend-from HEAD@{1}` and gets a
  note built on the log of its predecessor (`gitUtils.ts:570, 580`; the comments
  at 568 and 575 mean git's own words): `LeftOut` and `Says` in the properties.
  A cherry-pick that is concluded by `git commit` is left out by the hook and
  noted by the extension, for which it is local. Without flock two hooks
  share `.payload.tmp`, and the `pkill` of one ends the git-ai of the other.
  The `pkill` of the first commit's hook can end the extension's post-commit
  for a second commit whose own hook left at the lock. An amend in the mode in
  which the extension reports is reported without the attribution of the
  original.
* *messages.jsonl.* A tool call and its result that are read in two pieces lose
  the action for good; so does a failed checkpoint, since the offset is past
  it. A session folder whose file appears later than 500 ms after it, or that
  appears between the listing at start and the watcher, is not watched until
  the next start.
* *User table.* A login that has read its user's row and writes it back after a
  credit was imported restores the older credits. A login or a record whose
  user appears between its SELECT and its INSERT under the same spelling is
  swallowed by ON CONFLICT DO NOTHING; under another spelling a login's host is
  filed under the name as sent, and an import drops its credits and marks the
  user as having the plugin.
* *Credit files.* A file whose folder is 30 days old before a round has listed
  it without a failure is never imported; a listing that fails says nothing.
* *Login log.* A line appended between another process's reading and rewriting
  is lost; then the hook reports under an older login, or a host repeats its
  login within 4 hours. A host killed between emptying and filling the log
  loses all of it. An entry on a line that a killed hook began more than 15 days
  before goes with that line. A login appended between the hook's three writes
  stands behind the report's payload, whose user id, that of an earlier login,
  is the one the next look-up takes (`grep -o | head -1`, `gitUtils.ts:732`).

Noted while reading, not modelled as a property:
* `statsUploader.ts:161-170` retries the query when a note is missing; without
  a note git-ai counts every line as human, so the condition at 197-200 never
  holds and nothing is retried.
* `statsUploader.ts:295-312`: a 4xx and a last 5xx end in a normal return, so
  `last_upload_payload.json`, "the single place to confirm an upload happened"
  (236-237), names uploads the service refused.
* `docs/stats-upload-api.md:87` says that `ai_additions` includes mixed lines;
  the hook subtracts them (`gitUtils.ts:689`).
* `sessionLogWatcher.ts:286-289` announces an initial scan of a new directory;
  the code takes a snapshot, which marks its logs as seen. `NothingElseIsLost`
  names this exception.
* `README.md:215` of the extension says existing logs are not processed; the
  cold-start scan processes up to ten of each directory.
* `sessionLogWatcher.ts:54-59` promises that checkpoints are not duplicated;
  `SentOnce` states how far that goes.
* Actions of format B carry no `emittedAt`, so a second edit of the same file
  has the key of the first and is never sent (`Shadowed`).
* `commitWatcher.ts:202-203` means to report the login at every commit;
  `reportUserLogin` returns at once when its watcher runs (`userSync.ts:42`).
* A login line is logged before the POST, so a POST that fails is not repeated
  for 4 hours; every window sees the `q-client.log` of every other one.

## 6. Not modelled

* *The git-ai daemon* is switched off by the extension
  (`GIT_AI_ASYNC_MODE=false`, `checkpoint.ts:133-138`).
* *Rebase, cherry-pick, squash and reset rewriting* (`rebase_authorship.rs`)
  is reached through git hooks this product does not install; only
  `--amend-from` is, and it is in `WorkingLog`.
* *Line attribution* (diffs, move detection) works on the text of a file; the
  models attribute whole edits. Its functions keep no state between calls.
* *The rest of git-ai* (command line, presets, installers, telemetry, metrics
  store, upgrade) is argument handling, installation for other agents, and
  anonymous statistics of the upstream tool. It is by far the largest part of
  the repository; `src/code` repeats all of it in an older version.
* *Dashboard queries, authentication, migration* are read-only routes and
  one-off scripts; the `sessions` table has one writer that upserts by id.
* *Within the modelled parts*: the rows of `tool_model_stats`, `display_name`,
  the trimming of credits to 30 days, an import still running when the next
  hour begins, credit rows of one user and day for two client types; the query
  for the numbers before an upload; prompts, blobs and stashes of the working
  log; the watchers of the top-level session directories; the discovery and
  truncation of `q-client.log` files; hooks of other tools the repository's
  hook chains to.
