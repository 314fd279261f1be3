---------------------------- MODULE ReportLedger ----------------------------
(***************************************************************************)
(* What the upload path promises to somebody who commits: a report is      *)
(* acknowledged only once it is in the ledger, and what is in the ledger   *)
(* stays there.  It promises at least one copy, not exactly one.           *)
(***************************************************************************)
CONSTANT Reports

VARIABLES stored, acked

ledgerVars == <<stored, acked>>

LedgerInit == stored = {} /\ acked = {}

Store(k) ==
    /\ stored' = stored \union {k}
    /\ UNCHANGED acked

Acknowledge(k) ==
    /\ k \in stored
    /\ acked' = acked \union {k}
    /\ UNCHANGED stored

LedgerNext == \E k \in Reports : Store(k) \/ Acknowledge(k)

LedgerSpec == LedgerInit /\ [][LedgerNext]_ledgerVars
=============================================================================
