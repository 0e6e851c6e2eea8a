--------------------------- MODULE MCProdccBlock ---------------------------
(* Small instances of ProdccBlock: where rows live and transactions run.   *)
EXTENDS ProdccBlockInv

CONSTANTS n1, n2, k1, k2, t1, t2, t3, t4, t5

Does(r, w) == [reads |-> r, writes |-> w, rollback |-> FALSE]
RollsBack  == [reads |-> {k2}, writes |-> {}, rollback |-> TRUE]

\* One of each kind that matters between two nodes: the halves of a write
\* skew, a read-modify-write, a read-only and a roll-back.
FewPrograms ==
  {Does({k1}, {k2}), Does({k2}, {k1}), Does({k2}, {k2}), Does({k1, k2}, {}), RollsBack}

\* Two nodes with a row and a worker each: three transactions in a block,
\* two of them on one node, one behind them in the same epoch, and one in the
\* next epoch, where the ids begin again.
TwoOwner  == k1 :> n1 @@ k2 :> n2
TwoHome   == t1 :> n1 @@ t2 :> n2 @@ t3 :> n1 @@ t4 :> n1 @@ t5 :> n2
TwoTid    == t1 :> 1 @@ t2 :> 2 @@ t3 :> 3 @@ t4 :> 5 @@ t5 :> 2
TwoWorker == [t \in {t1, t2, t3, t4, t5} |-> 1]
TwoBlock  == t1 :> 1 @@ t2 :> 1 @@ t3 :> 1 @@ t4 :> 2 @@ t5 :> 3
TwoEpoch  == <<1, 1, 2>>

\* One that stays on its node, and one that breaks off its checks because of
\* it: only its clean-up is behind the reservation of the other node's row.
Stays == Does({k1}, {k1})
Skips == Does({k1, k2}, {k1})

\* Any three of these in the first block, one behind them, and then one that
\* reserves the row of its own node before the other's.
SomeWorkloads ==
  {t1 :> a @@ t2 :> b @@ t3 :> c @@ t4 :> d @@ t5 :> Does({k2}, {k1}) :
     a \in FewPrograms \cup {Stays}, b \in FewPrograms, c \in FewPrograms \cup {Skips},
     d \in {Does({k1}, {k2}), Does({k2}, {k1}), RollsBack}}
=============================================================================
