----------------------------- MODULE MC_Metrics -----------------------------
(* Small instances of Metrics for TLC. *)
EXTENDS Metrics, TLC

CONSTANTS c1, c2, c3, internet, gateway

Lost(t) == [target |-> internet, ts |-> t, lost |-> TRUE]
Ok(t)   == [target |-> internet, ts |-> t, lost |-> FALSE]
Other(t) == [target |-> gateway, ts |-> t, lost |-> TRUE]

\* Losses and recoveries, unsorted within a report, with samples of another
\* target between them; calls bring the reports in any order, also twice.
MCReports == {<<Lost(2), Lost(1)>>, <<Lost(4), Other(1), Ok(3), Other(2)>>, <<Ok(5)>>}

MCSymmetry == Permutations(Calls)
=============================================================================
