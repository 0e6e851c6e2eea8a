--------------------------- MODULE MCBohmVersions ---------------------------
(* Small instances of BohmVersions.                                        *)
EXTENDS BohmVersionsInv

CONSTANTS n1, n2, k1, k2

Does(r, w) == [reads |-> r, writes |-> w, rollback |-> FALSE]
RollsBack(r, w) == [reads |-> r, writes |-> w, rollback |-> TRUE]

\* Two nodes with a row and two workers each.  The slots are placed as with
\* bohm_local: the odd ones on worker 1; the last two wait for each other's
\* turn on the same worker.
TwoOwner    == k1 :> n1 @@ k2 :> n2
TwoInserter == k1 :> 0 @@ k2 :> 1
FourRunBy   == 0 :> <<n1, 0>> @@ 1 :> <<n2, 1>> @@ 2 :> <<n2, 0>> @@ 3 :> <<n2, 1>>

\* The batches, slot by slot.  Chain: each reads what the one before writes.
Chain    == <<Does({k1}, {k1}), Does({k1, k2}, {k2}), Does({k1, k2}, {k1}),
              Does({k1}, {})>>
Crossing == <<Does({k2}, {k2}), Does({k1}, {k1}), Does({k1, k2}, {k1}),
              Does({k2}, {k2})>>
Readers  == <<Does({k1, k2}, {k1, k2}), Does({k1, k2}, {}),
              RollsBack({k2}, {k2}), Does({k1, k2}, {k1})>>
Blinds   == <<Does({k1}, {k2}), Does({k2}, {k1}), Does({}, {k1, k2}),
              Does({}, {k1})>>

TwoBatches(first, second) ==
  [t \in Txns |-> IF BatchOf(t) = 1 THEN first[SlotOf(t) + 1]
                                    ELSE second[SlotOf(t) + 1]]

SomeWorkloads ==
  {TwoBatches(Chain, Chain), TwoBatches(Crossing, Readers),
   TwoBatches(Readers, Crossing), TwoBatches(Blinds, Chain)}
=============================================================================
