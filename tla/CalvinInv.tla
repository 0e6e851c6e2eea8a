------------------------------ MODULE CalvinInv ------------------------------
(***************************************************************************)
(* The inductive invariant of the batches of Calvin: locks and counters    *)
(* are exact, and so the store and what has been read of it are those of   *)
(* the agreed order.                                                       *)
(***************************************************************************)
EXTENDS Calvin, LockScheduleInv

\* Where the batch is, and what it has to schedule.
BatchPlan ==
  /\ batch \in 1..NBatches
  /\ phase \in {"Analysis", "Execute", "DONE"}
  /\ prog \in Workloads
  /\ \A n \in Nodes :
       todo[n] = IF phase = "Execute" THEN {t \in Current : ~prog[t].rollback} ELSE {}

\* Between the batches nobody has anything to do, and nothing is on its way.
NothingBetween ==
  phase # "Execute" =>
    /\ \A n \in Nodes, w \in Executors : running[n][w] = NoTxn /\ queue[n][w] = <<>>
    /\ \A n \in Nodes, m \in Managers : got[n][m] = {}
    /\ \A c \in Lanes : reads[c] = <<>>

\* What has not been scheduled has not been run; what has been run has been
\* run once, unless two managers have rows of it.
RunsOnce ==
  \A n \in Nodes, t \in Txns :
    /\ ran[n][t] > 0 => ~prog[t].rollback
         /\ (BatchOf[t] < batch \/ (BatchOf[t] = batch /\ phase # "Analysis"))
    /\ ran[n][t] <= 1 \/ Split(t, n)

\* t holds row k no more.
IsDone(t, k) ==
  LET n == Owner[k]
      m == ManagerOf[k]
  IN  t \in dealt[n][m] /\ ~Waits(n, m, t) /\ ~InHand(n, m, t)

\* A row has the value that the last of its writers so far has left.
Finished(k) ==
  {t \in Txns : \/ BatchOf[t] < batch
                \/ phase = "DONE"
                \/ t \in todo[Owner[k]] /\ IsDone(t, k)}

StoreInOrder == \A k \in Keys : BlindRow(k) \/ LeftBy(db[k], k, Finished(k))

\* Nobody who comes later has written a row that is still held.
HoldersFirst ==
  \A k \in Keys : BlindRow(k) \/
    \A t \in Txns, u \in todo[Owner[k]] :
      Holds(t, k) /\ k \in Updates(u) /\ Earlier(t, u) => ~IsDone(u, k)

\* What t is to read of row k.
IsInput(t, k, v) == BlindRow(k) \/ LeftBy(v, k, {u \in Txns : Precedes(u, t)})

InputsInOrder ==
  /\ \A n \in Nodes : \A t \in todo[n] : \A k \in prog[t].reads :
       /\ Owner[k] = n => Unread(n, ManagerOf[k], t) \/ IsInput(t, k, input[n][t][k])
       /\ n \in Active(t) /\ Owner[k] # n =>
            k \in RemoteGap(t, n) \/ IsInput(t, k, input[n][t][k])
  /\ \A c \in Lanes : \A i \in DOMAIN reads[c] :
       IsInput(reads[c][i].txn, reads[c][i].key, reads[c][i].val)
  /\ \A n \in Nodes, t \in Txns : ran[n][t] > 0 =>
       \A k \in prog[t].reads : IsInput(t, k, input[n][t][k])

\* The lock managers keep the agreed order, of every row and at every moment:
\* the locks are exact, every read that is on its way is counted where it is
\* missing, and each value is the one that the transactions before have left.
\* The invariant is inductive.
BatchInv ==
  /\ BatchPlan /\ CountInv /\ NothingBetween /\ RunsOnce
  /\ StoreInOrder /\ HoldersFirst /\ InputsInOrder
=============================================================================
