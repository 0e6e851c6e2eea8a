--------------------------- MODULE MCAriaFallback ---------------------------
(* Small instances of AriaFallback.                                        *)
EXTENDS AriaFallbackInv

CONSTANTS n1, n2, k1, k2, t1, t2, t3, t4

Does(r, w) == [reads |-> r, writes |-> w, rollback |-> FALSE]
RollsBack(r, w) == [reads |-> r, writes |-> w, rollback |-> TRUE]

\* Two nodes with a row each; of their two workers one is the lock manager.
TwoOwner   == k1 :> n1 @@ k2 :> n2
TwoHome    == t1 :> n1 @@ t2 :> n2 @@ t3 :> n1 @@ t4 :> n2
TwoTid     == t1 :> 1 @@ t2 :> 2 @@ t3 :> 3 @@ t4 :> 2
TwoWorker  == t1 :> 0 @@ t2 :> 1 @@ t3 :> 1 @@ t4 :> 1
TwoBatch   == t1 :> 1 @@ t2 :> 1 @@ t3 :> 1 @@ t4 :> 2
OneManager == [k \in Keys |-> 0]

Load(a, b, c, d) == t1 :> a @@ t2 :> b @@ t3 :> c @@ t4 :> d

\* Read-modify-writes of one row and across, a reader of both, a roll-back.
FewPrograms ==
  {Does({k1, k2}, {k1}), Does({k1, k2}, {k2}), Does({k2}, {k2}),
   Does({k1, k2}, {}), RollsBack({k1}, {k1})}

\* Every batch of three of them, and one transaction behind it; and a batch
\* with a write without a read.
SomeWorkloads ==
  {Load(a, b, c, d) : a, b, c \in FewPrograms, d \in {Does({k1, k2}, {k2})}}
    \cup {Load(Does({}, {k2}), Does({k2}, {k2}), Does({k2}, {k2}),
               Does({k1, k2}, {k2}))}

AllPrograms == FewPrograms \cup {Does({}, {k2})}
=============================================================================
