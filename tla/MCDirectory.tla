---------------------------- MODULE MCDirectory ----------------------------
\* Two enrolled users, of whom the first has two spellings, a login under the
\* second spelling, one without a name, a report, and two files on two days:
\* the first user's first day and a record of nobody the directory knows, then
\* two records by name of the first user, the second day and the first again.
EXTENDS Directory

CONSTANTS ann, bob, nobody, annName, ANNName, bobName, l1, l2, c1, f1, f2, r1, r2, r3, r4, d1, d2

MCPersons == {ann, bob, nobody}
MCNames == {annName, ANNName, bobName, Unknown}
MCWho == (annName :> ann) @@ (ANNName :> ann) @@ (bobName :> bob) @@ (Unknown :> nobody)
MCDirectory == <<ann, bob>>
MCCanonical == (ann :> annName) @@ (bob :> bobName) @@ (nobody :> Unknown)
MCLoginName == (l1 :> ANNName) @@ (l2 :> Unknown)
MCIdOf == (l1 :> NoPerson) @@ (l2 :> ann) @@ (c1 :> ann)
MCFiles == <<f1, f2>>
MCFolderOf == (f1 :> [date |-> 1, path |-> "by_user_analytic"]) @@ (f2 :> [date |-> 0, path |-> "user_report"])
MCRecordsOf == (f1 :> <<r1, r2>>) @@ (f2 :> <<r3, r4>>)
MCPersonOf == (r1 :> ann) @@ (r2 :> nobody) @@ (r3 :> ann) @@ (r4 :> ann)
MCDayOf == (r1 :> d1) @@ (r2 :> d1) @@ (r3 :> d2) @@ (r4 :> d1)

\* Days go by beyond the first, and a second call fails, only where the second
\* login and the report never come and nobody opens the page of users; that page
\* is closed while the second login is served; and the report, which reads the
\* directory only, comes where the first login, which does not, never does.
Untouched(q) == pc'[q] = "new"
Apart ==
  /\ today' > 1 \/ faults' > 1 => Untouched(l2) /\ Untouched(c1) /\ pc'[Viewer] = "idle"
  /\ Untouched(l1) \/ Untouched(c1)
  /\ Untouched(l2) \/ pc'[Viewer] = "idle"

\* What is kept apart need not happen.
ApartFairness ==
  /\ \A q \in Requests : WF_vars(LookUpStep(q) /\ Apart)
  /\ \A l \in Logins : WF_vars(LoginStep(l) /\ Apart)
  /\ WF_vars(ImportStep /\ Apart) /\ WF_vars(ViewStep /\ Apart)
ApartSpec == Init /\ [][Next /\ Apart]_vars /\ ApartFairness
=============================================================================
