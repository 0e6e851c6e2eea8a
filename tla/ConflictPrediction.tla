------------------------- MODULE ConflictPrediction -------------------------
(***************************************************************************)
(* The conflict predictor of PRDCC (protocol/Prodcc/ConflictPredictor.h):  *)
(* it walks over the sorted key ranges of two transactions and says which  *)
(* dependency the second has on the first, if any.  The summary of the     *)
(* database that it asks is the dense one (DataSummary.h, L1Filter.h): the *)
(* databases of both benchmarks declare their key domain dense.            *)
(***************************************************************************)
EXTENDS Integers, Sequences

CONSTANTS
  MinKey, MaxKey,   \* the key domain
  Queries           \* the ranges a transaction may come with

Range == [first : Nat, second : Nat]

\* populate_ranges sorts the ranges by their first key.
Sorted(ranges) ==
  /\ ranges \in Seq(Range)
  /\ \A i \in 1..Len(ranges) : ranges[i].first <= ranges[i].second
  /\ \A i, j \in 1..Len(ranges) : i < j => ranges[i].first <= ranges[j].first

ASSUME DomainAssumption == MinKey \in Nat /\ MaxKey \in Nat
ASSUME QueriesAssumption ==
  \A q \in Queries : Sorted(q.read) /\ Sorted(q.write)

VARIABLES
  t1, t2,     \* the ranges of the two transactions, the first has the smaller id
  pair,       \* the pair of lists that is compared, by what it would tell
  it1, it2,   \* where the walk is in the two lists
  result      \* the prediction, "PENDING" before it is known

walkVars == <<t1, t2, pair, it1, it2, result>>

\* predict_conflict compares the lists in this order.
Left  == IF pair = "WAR" THEN t1.read ELSE t1.write
Right == IF pair = "RAW" THEN t2.read ELSE t2.write

\* query_range_exists in a dense domain: every bucket of the filter is set, so
\* the range only has to meet the domain.
QueryRangeExists(start, end) ==
  /\ MinKey <= MaxKey
  /\ start <= end
  /\ end >= MinKey
  /\ start <= MaxKey

Larger(a, b)  == IF a < b THEN b ELSE a
Smaller(a, b) == IF b < a THEN b ELSE a

Intersect(r, s) ==
  LET start == Larger(r.first, s.first)
      end   == Smaller(r.second, s.second)
  IN  start <= end /\ QueryRangeExists(start, end)
-----------------------------------------------------------------------------
WalkTypeOK ==
  /\ t1 \in Queries
  /\ t2 \in Queries
  /\ pair \in {"WAW", "RAW", "WAR"}
  /\ it1 \in 1..Len(Left) + 1
  /\ it2 \in 1..Len(Right) + 1
  /\ result \in {"PENDING", "WAW", "RAW", "WAR", "NONE"}

WalkInit ==
  /\ t1 \in Queries
  /\ t2 \in Queries
  /\ pair = "WAW"
  /\ it1 = 1
  /\ it2 = 1
  /\ result = "PENDING"

Walking == result = "PENDING" /\ it1 <= Len(Left) /\ it2 <= Len(Right)

\* check_range_intersection returns true.
Found ==
  /\ Walking
  /\ Intersect(Left[it1], Right[it2])
  /\ result' = pair
  /\ UNCHANGED <<t1, t2, pair, it1, it2>>

\* Faulty: the iterator with the larger end goes on.
AdvanceLarger ==
  /\ Walking
  /\ ~Intersect(Left[it1], Right[it2])
  /\ IF Left[it1].second > Right[it2].second
       THEN it1' = it1 + 1 /\ it2' = it2
       ELSE it2' = it2 + 1 /\ it1' = it1
  /\ UNCHANGED <<t1, t2, pair, result>>

\* The iterator whose range ends first goes on.
Advance ==
  /\ Walking
  /\ ~Intersect(Left[it1], Right[it2])
  /\ IF Left[it1].second < Right[it2].second
       THEN it1' = it1 + 1 /\ it2' = it2
       ELSE it2' = it2 + 1 /\ it1' = it1
  /\ UNCHANGED <<t1, t2, pair, result>>

\* check_range_intersection returns false: the next pair of lists, if any.
Exhausted == result = "PENDING" /\ ~Walking

NextPair ==
  /\ Exhausted /\ pair # "WAR"
  /\ pair' = IF pair = "WAW" THEN "RAW" ELSE "WAR"
  /\ it1' = 1
  /\ it2' = 1
  /\ UNCHANGED <<t1, t2, result>>

NoConflict ==
  /\ Exhausted /\ pair = "WAR"
  /\ result' = "NONE"
  /\ UNCHANGED <<t1, t2, pair, it1, it2>>

WalkNext == Found \/ Advance \/ NextPair \/ NoConflict

WalkSpec == WalkInit /\ [][WalkNext]_walkVars
-----------------------------------------------------------------------------
\* The reference: do the keys of the domain that two lists of ranges cover
\* overlap?
Covers(ranges, key) ==
  \E i \in 1..Len(ranges) : ranges[i].first <= key /\ key <= ranges[i].second

Overlap(a, b) == \E key \in MinKey..MaxKey : Covers(a, key) /\ Covers(b, key)

\* The walk misses no conflict and invents none, and names the strongest: the
\* "conservative no-false-negative property" of DataSummary.h, and its
\* converse, for the dense domains the program uses.
PredictionExact ==
  /\ result = "WAW" <=> result # "PENDING" /\ Overlap(t1.write, t2.write)
  /\ result = "RAW" <=> /\ result # "PENDING"
                        /\ ~Overlap(t1.write, t2.write)
                        /\ Overlap(t1.write, t2.read)
  /\ result = "WAR" <=> /\ result # "PENDING"
                        /\ ~Overlap(t1.write, t2.write)
                        /\ ~Overlap(t1.write, t2.read)
                        /\ Overlap(t1.read, t2.write)

\* What the iterators have left behind has no overlap: the inductive part.
BehindNoOverlap ==
  /\ \A i \in 1..Len(Left) : \A j \in 1..Len(Right) :
       i < it1 \/ j < it2 => ~Intersect(Left[i], Right[j])
  /\ pair \in {"RAW", "WAR"} => ~Overlap(t1.write, t2.write)
  /\ pair = "WAR" => ~Overlap(t1.write, t2.read)
=============================================================================
