---------------------------- MODULE Reservation ----------------------------
(***************************************************************************)
(* The reservation word of a row and the commit rule computed from it      *)
(* (protocol/Aria/AriaHelper.h and the decision in the executors).  The    *)
(* 64-bit word [epoch (24) | rts (20) | wts (20)] is a record: rts and wts *)
(* hold the smallest transaction id that reserved the row for reading and  *)
(* for writing in the epoch, 0 standing for none.  Aria and PRDCC share    *)
(* these operators.                                                        *)
(***************************************************************************)
EXTENDS Naturals

CONSTANT EpochModulus   \* 2^24 in the code: the epoch field wraps there

ASSUME EpochModulusAssumption == EpochModulus \in Nat \ {0}

Word == [epoch : Nat, rts : Nat, wts : Nat]

ZeroWord == [epoch |-> 0, rts |-> 0, wts |-> 0]

\* set_epoch shifts the 32-bit epoch into a 24-bit field: the top is lost.
StoredEpoch(epoch) == epoch % EpochModulus

\* reserve_read: a newer epoch starts the word afresh, a smaller reader stays.
ReserveRead(word, epoch, tid) ==
  IF epoch > word.epoch
    THEN [epoch |-> StoredEpoch(epoch), rts |-> tid, wts |-> 0]
    ELSE IF word.rts # 0 /\ word.rts < tid
           THEN word
           ELSE [word EXCEPT !.rts = tid]

\* reserve_write: the same for the smallest writer.
ReserveWrite(word, epoch, tid) ==
  IF epoch > word.epoch
    THEN [epoch |-> StoredEpoch(epoch), rts |-> 0, wts |-> tid]
    ELSE IF word.wts # 0 /\ word.wts < tid
           THEN word
           ELSE [word EXCEPT !.wts = tid]

\* analyze_dependency and check_request_handler: has a transaction with a
\* smaller id reserved the row for writing, for reading?
SmallerWriter(word, epoch, tid) ==
  word.epoch = epoch /\ word.wts # 0 /\ word.wts < tid

SmallerReader(word, epoch, tid) ==
  word.epoch = epoch /\ word.rts # 0 /\ word.rts < tid

\* What the check of one key adds to the flags of a transaction.
ReadFlags(word, epoch, tid) ==
  IF SmallerWriter(word, epoch, tid) THEN {"raw"} ELSE {}

WriteFlags(word, epoch, tid) ==
  (IF SmallerReader(word, epoch, tid) THEN {"war"} ELSE {}) \cup
  (IF SmallerWriter(word, epoch, tid) THEN {"waw"} ELSE {})
=============================================================================
