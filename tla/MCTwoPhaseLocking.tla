------------------------- MODULE MCTwoPhaseLocking -------------------------
(* Small instances of TwoPhaseLocking.                                     *)
EXTENDS TwoPhaseLockingInv, TLC

CONSTANTS n1, n2, k1, k2, t1, t2, t3

Does(r, w) == [reads |-> r, writes |-> w, rollback |-> FALSE]

\* Shared and exclusive accesses to both rows, and a roll-back.
FewPrograms ==
  {Does({k1}, {k2}), Does({}, {k1, k2}), Does({k1, k2}, {}),
   [reads |-> {k1}, writes |-> {}, rollback |-> TRUE]}

\* Two nodes, each with the master of a row and a copy of the other; three
\* workers, each with a transaction.
TwoMaster   == k1 :> n1 @@ k2 :> n2
TwoReplicas == k1 :> {n2} @@ k2 :> {n1}
TwoHome     == t1 :> n1 @@ t2 :> n2 @@ t3 :> n1
TwoWorker   == t1 :> 1 @@ t2 :> 1 @@ t3 :> 2
TwoPosition == [t \in {t1, t2, t3} |-> 1]
=============================================================================
