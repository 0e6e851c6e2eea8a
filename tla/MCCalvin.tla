------------------------------ MODULE MCCalvin ------------------------------
(* Small instances of Calvin.                                              *)
EXTENDS CalvinInv

CONSTANTS n1, n2, k1, k2, k3

Does(r, w) == [reads |-> r, writes |-> w, rollback |-> FALSE]
RollsBack(r, w) == [reads |-> r, writes |-> w, rollback |-> TRUE]

\* Two nodes; the first has a row of each of its two lock managers.
ThreeOwner   == k1 :> n1 @@ k2 :> n1 @@ k3 :> n2
ThreeManager == k1 :> 0 @@ k2 :> 1 @@ k3 :> 0

\* The ids begin again in the second batch.
FourTid   == [t \in Txns |-> IF t = 4 THEN 1 ELSE t]
FourBatch == [t \in Txns |-> IF t = 4 THEN 2 ELSE 1]

\* Chain: read-modify-writes across managers and nodes.  Readers: shared
\* locks to their limit, and the writer behind them.  Crossing: what one
\* reads the other writes.  Blind: a row that is written without a lock.
Chain    == <<Does({k1, k2}, {k1, k2}), Does({k1, k3}, {k1, k3}),
              Does({k3}, {k3}), Does({k1, k2, k3}, {k2})>>
Readers  == <<Does({k1, k3}, {k3}), Does({k1, k2}, {k2}), Does({k1, k3}, {}),
              Does({k1}, {k1})>>
Crossing == <<Does({k1, k3}, {k1}), Does({k1, k3}, {k3}),
              RollsBack({k1}, {k1}), Does({k1, k3}, {k1, k3})>>
Blind    == <<Does({k1}, {k1, k2}), Does({k1}, {k1}), Does({k1, k3}, {k3}),
              Does({k1}, {})>>

SomeWorkloads == {Chain, Readers, Crossing, Blind}
=============================================================================
