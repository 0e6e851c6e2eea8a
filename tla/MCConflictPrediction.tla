------------------------ MODULE MCConflictPrediction ------------------------
(* Small instances of ConflictPrediction.                                  *)
EXTENDS ConflictPrediction

Keys == MinKey..MaxKey

Ranges == {r \in [first : Keys, second : Keys] : r.first <= r.second}

\* The lists of at most two ranges, and one of three points, as the queries
\* of the benchmarks build them: sorted and disjoint.
Lists ==
  {<<>>} \cup {<<r>> : r \in Ranges}
    \cup {l \in Ranges \X Ranges : l[1].second < l[2].first}
    \cup {[i \in 1..3 |-> [first |-> MinKey + i - 1, second |-> MinKey + i - 1]]}

AllQueries == [read : Lists, write : Lists]
=============================================================================
