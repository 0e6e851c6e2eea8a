------------------------------- MODULE Batches -------------------------------
(***************************************************************************)
(* What the users of LockSchedule have in common: the transactions come in *)
(* batches, and a batch in phases, with a barrier between them             *)
(* (protocol/Calvin and protocol/AriaFB).                                  *)
(***************************************************************************)
EXTENDS LockSchedule

CONSTANTS
  NBatches,   \* how many batches the run has
  BatchOf     \* the batch of a transaction

ASSUME BatchAssumption ==
  NBatches \in Nat \ {0} /\ BatchOf \in [Txns -> 1..NBatches]

VARIABLES
  batch,    \* the number of the batch
  phase     \* its phase, or DONE after the last batch

Current == {t \in Txns : BatchOf[t] = batch}
=============================================================================
