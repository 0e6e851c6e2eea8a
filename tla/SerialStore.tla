---------------------------- MODULE SerialStore ----------------------------
(***************************************************************************)
(* What two-phase locking promises: transactions that commit one after the *)
(* other, each at one instant at which it reads all its rows and writes    *)
(* some of them.                                                           *)
(***************************************************************************)
CONSTANTS
  Txns, Keys,
  Programs,   \* the accesses a transaction may make
  NoTxn       \* the writer of a row nobody has written

VARIABLES
  prog,       \* what each transaction accesses
  store,      \* the last writer of each row
  result      \* what each committed transaction has read of its rows

Nothing == [k \in {} |-> NoTxn]

Init ==
  /\ prog \in [Txns -> Programs]
  /\ store = [k \in Keys |-> NoTxn]
  /\ result = [t \in Txns |-> Nothing]

Rows(t) == prog[t].reads \cup prog[t].writes

Commit(t) ==
  /\ result[t] = Nothing /\ Rows(t) # {}
  /\ result' = [result EXCEPT ![t] = [k \in Rows(t) |-> store[k]]]
  /\ store' = [k \in Keys |-> IF k \in prog[t].writes THEN t ELSE store[k]]
  /\ UNCHANGED prog

Spec == Init /\ [][\E t \in Txns : Commit(t)]_<<prog, store, result>>
=============================================================================
