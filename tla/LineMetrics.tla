---------------------------- MODULE LineMetrics ----------------------------
(***************************************************************************)
(* The numbers of one commit on their way from the authorship note to the  *)
(* dashboard: git-ai computes CommitStats (stats.rs), the post-commit hook *)
(* adjusts them in shell arithmetic while the extension sends them as they *)
(* are, and the service sums the reports of a repository into a ratio.     *)
(***************************************************************************)
EXTENDS Integers, FiniteSets

CONSTANTS
    Paths,          \* how commits are reported: "hook", "extension"
    MaxLine,        \* bound: line numbers of the committed file
    MaxCount,       \* bound: counters taken from the note and the diff
    MaxCommits      \* bound: reports stored in the repository

ASSUME MetricsBounds ==
    /\ Paths \subseteq {"hook", "extension"}
    /\ MaxLine \in Nat /\ MaxCount \in Nat /\ MaxCommits \in Nat

VARIABLES
    stats,      \* output of `git-ai stats --json`, or None
    report,     \* commit_stats of the POST under way, or None
    totals,     \* the sums over the repository's commits rows, by reporter
    stored      \* number of commits rows

metrics == <<stats, report, totals, stored>>

None == [path |-> "none"]
Reporters == {"hook", "extension"}
Least(a, b) == IF a <= b THEN a ELSE b
Greatest(a, b) == IF a <= b THEN b ELSE a
Minus_Wrapping(a, b) == a - b          \* Fault: plain subtraction
Minus(a, b) == Greatest(a - b, 0)      \* u32::saturating_sub

CommitStats == [ai : Nat, human : Nat, mixed : Nat, accepted : Nat,
          added : Nat, deleted : Nat]

(***************************************************************************)
(* stats.rs                                                                *)
(***************************************************************************)

\* Two attestation entries of the note: a line both claim counts twice.
Accepted(touched, first, second, isMerge) ==
    IF isMerge THEN 0
    ELSE Cardinality(first \intersect touched) + Cardinality(second \intersect touched)

\* Fault: mixed_additions is not capped to the lines the commit added.
StatsFromLog_UncappedMixed(added, deleted, accepted, overridden) ==
    [ai |-> overridden + accepted, human |-> Minus(added, accepted),
     mixed |-> overridden, accepted |-> accepted,
     added |-> added, deleted |-> deleted]

StatsFromLog(added, deleted, accepted, overridden) ==
    LET mixed == Least(overridden, Minus(added, accepted))
    IN  [ai       |-> mixed + accepted,
         human    |-> Minus(added, accepted),
         mixed    |-> mixed,
         accepted |-> accepted,
         added    |-> added,
         deleted  |-> deleted]

(***************************************************************************)
(* The hook's arithmetic.                                                  *)
(***************************************************************************)

\* kiro_net_deletions, if positive, replaces what the diff says of AI
AiDeletions(s, note, hunks, net) ==
    Least(IF net > 0 THEN net ELSE Greatest(note, hunks), s.deleted)

Capped(n, s) == IF s.added > 0 THEN Least(n, s.added) ELSE n

\* Fault: ai_additions is not capped to git_diff_added_lines.
HookReport_NoCap(s, aiDel) ==
    [path |-> "hook", ai |-> Greatest(s.ai - s.mixed, 0),
     human |-> Capped(s.human, s), mixed |-> s.mixed,
     accepted |-> Capped(s.accepted, s), added |-> s.added,
     deleted |-> s.deleted, aiDel |-> aiDel,
     humanDel |-> Greatest(s.deleted - aiDel, 0)]

HookReport(s, aiDel) ==
    [path     |-> "hook",
     ai       |-> Capped(Greatest(s.ai - s.mixed, 0), s),
     human    |-> Capped(s.human, s),
     mixed    |-> s.mixed,
     accepted |-> Capped(s.accepted, s),
     added    |-> s.added,
     deleted  |-> s.deleted,
     aiDel    |-> aiDel,
     humanDel |-> Greatest(s.deleted - aiDel, 0)]

\* The extension sends CommitStats unchanged; the service reads the missing
\* deletion fields as 0.
ExtensionReport(s) ==
    [path |-> "extension", ai |-> s.ai, human |-> s.human,
     mixed |-> s.mixed, accepted |-> s.accepted, added |-> s.added,
     deleted |-> s.deleted, aiDel |-> 0, humanDel |-> 0]

(***************************************************************************)
(* The behaviour: measure a commit, report it, store it.                   *)
(***************************************************************************)
MetricsInit ==
    /\ stats = None
    /\ report = None
    /\ totals = [p \in Reporters |-> [ai |-> 0, human |-> 0, mixed |-> 0]]
    /\ stored = 0

FileLines == 1..MaxLine
Counts == 0..MaxCount

\* The size of the diff is taken with rename detection (--find-renames), the
\* lines a note may claim from a diff without it (--no-renames): all lines of
\* a renamed file are touched, only its changed ones are added.
Measure ==
    /\ stats = None /\ report = None /\ stored < MaxCommits
    /\ \E touched, added, first, second \in SUBSET FileLines,
          isMerge \in BOOLEAN, deleted, overridden \in Counts :
          /\ added \subseteq touched
          /\ stats' = StatsFromLog(Cardinality(added), deleted,
                                   Accepted(touched, first, second, isMerge), overridden)
    /\ UNCHANGED <<report, totals, stored>>

ReportByHook ==
    /\ "hook" \in Paths
    /\ stats # None
    /\ \E note, hunks, net \in Counts :
          report' = HookReport(stats, AiDeletions(stats, note, hunks, net))
    /\ stats' = None
    /\ UNCHANGED <<totals, stored>>

ReportByExtension ==
    /\ "extension" \in Paths
    /\ stats # None
    /\ report' = ExtensionReport(stats)
    /\ stats' = None
    /\ UNCHANGED <<totals, stored>>

Store ==
    /\ report # None
    /\ totals' = [totals EXCEPT ![report.path] =
                    [ai    |-> @.ai + report.ai,
                     human |-> @.human + report.human,
                     mixed |-> @.mixed + report.mixed]]
    /\ stored' = stored + 1
    /\ report' = None
    /\ UNCHANGED stats

MetricsNext == Measure \/ ReportByHook \/ ReportByExtension \/ Store

MetricsSpec == MetricsInit /\ [][MetricsNext]_metrics

(***************************************************************************)
(* Properties.                                                             *)
(***************************************************************************)

Reports == [path : Reporters, ai : Nat, human : Nat, mixed : Nat,
            accepted : Nat, added : Nat, deleted : Nat, aiDel : Nat,
            humanDel : Nat]

\* No counter of any stage is ever negative (they are u32 in the binary, and
\* the hook's json_get_num reads digits only).
MetricsTypeOK ==
    /\ stats = None \/ stats \in CommitStats
    /\ report = None \/ report \in Reports
    /\ totals \in [Reporters -> [ai : Nat, human : Nat, mixed : Nat]]
    /\ stored \in Nat

\* The hook's subtractions and caps split what the diff counts: every added
\* line is either pure AI or human, even when the note claims a line twice or
\* lines a rename only moved, and every deleted line is an AI or a human
\* deletion.  A commit that adds nothing has no human lines, whatever of its
\* moved lines the note claims.
HookSplitsTheDiff ==
    report # None /\ report.path = "hook" =>
        /\ report.added > 0 => report.ai + report.human = report.added
        /\ report.added = 0 => report.human = 0
        /\ report.accepted = report.ai
        /\ report.mixed <= report.human
        /\ report.aiDel + report.humanDel = report.deleted

\* The numerator and the denominator of recordAiRatioSnapshotTx, times two.
Denominator(t) == t.ai + t.human - t.mixed
TwiceNumerator(t) == 2 * t.ai - t.mixed

IsShare(t) ==
    Denominator(t) # 0 =>
        /\ Denominator(t) > 0
        /\ 0 <= TwiceNumerator(t)
        /\ TwiceNumerator(t) <= 2 * Denominator(t)

\* The ratio the history chart records for a repository all of whose commits
\* the extension reports lies between 0 and 1: the service's formula fits the
\* numbers git-ai prints.
ExtensionRatioIsAShare == IsShare(totals["extension"])
=============================================================================
