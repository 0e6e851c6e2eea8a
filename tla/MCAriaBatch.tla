---------------------------- MODULE MCAriaBatch ----------------------------
(* Small instances of AriaBatch: where rows live and transactions run.     *)
EXTENDS AriaBatchInv

CONSTANTS n1, n2, k1, k2, t1, t2, t3, t4

Does(r, w) == [reads |-> r, writes |-> w, rollback |-> FALSE]

\* What matters between two nodes: the halves of a write skew, a
\* read-modify-write, a reader of both rows and a roll-back.
FewPrograms ==
  {Does({k1}, {k2}), Does({k2}, {k1}), Does({k2}, {k2}), Does({k1, k2}, {}),
   [reads |-> {k2}, writes |-> {}, rollback |-> TRUE]}

\* Blind writers of each row, and a reader of both.
RacePrograms == {Does({k1, k2}, {}), Does({}, {k1}), Does({}, {k2})}

\* Two nodes with a row and two workers each: three transactions in a batch,
\* two of them on one node, and one behind them.
TwoOwner  == k1 :> n1 @@ k2 :> n2
TwoHome   == t1 :> n1 @@ t2 :> n2 @@ t3 :> n1 @@ t4 :> n2
TwoTid    == t1 :> 1 @@ t2 :> 2 @@ t3 :> 3 @@ t4 :> 2
TwoWorker == t1 :> 1 @@ t2 :> 1 @@ t3 :> 2 @@ t4 :> 1
TwoBatch  == t1 :> 1 @@ t2 :> 1 @@ t3 :> 1 @@ t4 :> 2
=============================================================================
