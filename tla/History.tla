------------------------------- MODULE History --------------------------------
(* The queries of app/store.py on the check_results of one endpoint, as       *)
(* operators on a set of results.  A result is a record with the fields at    *)
(* (checked_at) and up; no two have the same checked_at.                      *)
EXTENDS Integers, FiniteSets

CONSTANTS Retention, \* history_retention_days
          MaxRecords \* history_max_records_per_endpoint

ASSUME HistoryAssumption == Retention \in Nat /\ MaxRecords \in Nat \ {0}

\* The position of r in ORDER BY checked_at DESC.
Rank(results, r) == Cardinality({s \in results : s.at > r.at})

UncappedNewest(results) == results
OldestInstead(results) ==
  {r \in results : Cardinality({s \in results : s.at < r.at}) < MaxRecords}
Newest(results) == {r \in results : Rank(results, r) < MaxRecords}

Since(results, t) == {r \in results : r.at >= t}

\* record_check's insert and prune_history.
Recorded(results, r) == Newest(Since(results \cup {r}, r.at - Retention))

OnPage(rank, p, size) == (p - 1) * size <= rank /\ rank < p * size

\* list_checks: the rows of a page.
PageOldestFirst(results, p, size) ==
  {r \in results : OnPage(Cardinality({s \in results : s.at < r.at}), p, size)}
Page(results, p, size) == {r \in results : OnPage(Rank(results, r), p, size)}

\* latest_check_since, as a set of at most one.
Latest(results, t) == {r \in Since(results, t) : Rank(results, r) = 0}
=============================================================================
