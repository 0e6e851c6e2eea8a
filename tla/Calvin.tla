------------------------------- MODULE Calvin -------------------------------
(***************************************************************************)
(* The batches of Calvin: all nodes generate the same transactions, learn  *)
(* their read and write sets by a dry run, and run them through the lock   *)
(* managers of LockSchedule (protocol/Calvin).                             *)
(*                                                                         *)
(* A batch is an Analysis and an Execute phase, with a barrier after each. *)
(* Replica groups execute the batch independently of each other: one is    *)
(* modelled.                                                               *)
(***************************************************************************)
EXTENDS Batches

CONSTANT Workloads   \* what the transactions may access

Program == [reads : SUBSET Keys, writes : SUBSET Keys, rollback : BOOLEAN]

ASSUME WorkloadAssumption == Workloads \subseteq [Txns -> Program]

vars == <<batch, phase, prog, todo, schedule>>
-----------------------------------------------------------------------------
Init ==
  /\ batch = 1
  /\ phase = "Analysis"
  /\ prog \in Workloads
  /\ todo = [n \in Nodes |-> {}]
  /\ dealt = [n \in Nodes |-> [m \in Managers |-> {}]]
  /\ got = [n \in Nodes |-> [m \in Managers |-> {}]]
  /\ queue = [n \in Nodes |-> [w \in Executors |-> <<>>]]
  /\ running = [n \in Nodes |-> [w \in Executors |-> NoTxn]]
  /\ local = [n \in Nodes |-> [t \in Txns |-> 0]]
  /\ remote = [n \in Nodes |-> [t \in Txns |-> 0]]
  /\ input = [n \in Nodes |-> [t \in Txns |-> [k \in Keys |-> NoTxn]]]
  /\ ran = [n \in Nodes |-> [t \in Txns |-> 0]]
  /\ lock = [k \in Keys |-> Free]
  /\ db = [k \in Keys |-> NoTxn]
  /\ reads = [c \in Lanes |-> <<>>]

\* generate_transactions and prepare_transaction on every node, and the
\* barrier behind them: what does not roll back is to be scheduled, with the
\* counters of its reads.  The soft reset of same_batch comes to the same.
Analyze ==
  /\ phase = "Analysis"
  /\ todo' = [n \in Nodes |-> {t \in Current : ~prog[t].rollback}]
  /\ local' = [n \in Nodes |-> [t \in Txns |->
                 IF t \in Current THEN LocalReads(t, n) ELSE local[n][t]]]
  /\ remote' = [n \in Nodes |-> [t \in Txns |->
                  IF t \in Current THEN RemoteReads(t, n) ELSE remote[n][t]]]
  /\ phase' = "Execute"
  /\ UNCHANGED <<batch, prog, dealt, got, queue, running, input, ran, lock, db,
                 reads>>

Schedule ==
  /\ phase = "Execute"
  /\ ScheduleNext
  /\ UNCHANGED <<batch, phase, prog, todo>>

\* The barrier of the Execute phase: the workers are done.
EndBatch ==
  /\ phase = "Execute"
  /\ ScheduleDone
  /\ IF batch < NBatches
       THEN batch' = batch + 1 /\ phase' = "Analysis"
       ELSE batch' = batch /\ phase' = "DONE"
  /\ todo' = [n \in Nodes |-> {}]
  /\ dealt' = [n \in Nodes |-> [m \in Managers |-> {}]]
  /\ UNCHANGED <<prog, got, queue, running, local, remote, input, ran, lock, db,
                 reads>>

Next == Analyze \/ Schedule \/ EndBatch

Spec == Init /\ [][Next]_vars

\* Every worker is a thread that polls; the managers wait at the barriers.
FairSpec ==
  /\ Spec
  /\ \A n \in Nodes, m \in Managers :
       WF_vars(phase = "Execute" /\ Manage(n, m) /\ UNCHANGED <<batch, phase, prog, todo>>)
  /\ \A n \in Nodes, w \in Executors :
       WF_vars(phase = "Execute" /\ Execute(n, w) /\ UNCHANGED <<batch, phase, prog, todo>>)
  /\ \A c \in Lanes :
       WF_vars(phase = "Execute" /\ ReadRequest(c) /\ UNCHANGED <<batch, phase, prog, todo>>)
  /\ WF_vars(Analyze) /\ WF_vars(EndBatch)
-----------------------------------------------------------------------------
\* Batch by batch, in the order of the ids.
Precedes(t, u) ==
  \/ BatchOf[t] < BatchOf[u]
  \/ BatchOf[t] = BatchOf[u] /\ Earlier(t, u)

\* v is what the last writer of k among ts has left.
LeftBy(v, k, ts) ==
  LET writers == {t \in ts : k \in prog[t].writes /\ ~prog[t].rollback}
  IN  IF writers = {} THEN v = NoTxn
      ELSE v \in writers /\ \A t \in writers : t = v \/ Precedes(t, v)

\* Calvin is serializable in the order that all nodes agree on beforehand:
\* what a transaction is executed on is what the ones before it have left, on
\* every node that executes it, and the rows hold that when the batch is over.
\* It executes once on a node, unless two lock managers share its rows there.
SerializableUnlessSplit ==
  /\ \A t \in Txns, n \in Nodes :
       /\ ran[n][t] > 0 =>
            \A k \in prog[t].reads : BlindRow(k) \/
              LeftBy(input[n][t][k], k, {u \in Txns : Precedes(u, t)})
       /\ ran[n][t] <= 1 \/ Split(t, n)
  /\ phase # "Execute" => \A k \in Keys :
       BlindRow(k) \/ LeftBy(db[k], k, {t \in Txns : BatchOf[t] < batch \/ phase = "DONE"})

\* The locks of the rows are exact at every moment.
LocksExact == ScheduleTypeOK /\ RowLocksExact

\* A READ finds its transaction by the slot.  When the executors are done no
\* READ is on its way any more, which would be counted for the transaction
\* that takes the slot in the next batch; all locks are free, and every node
\* that has to has executed its transactions.
NothingLeftBehind ==
  phase = "Execute" /\ ScheduleDone =>
    /\ \A c \in Lanes : reads[c] = <<>>
    /\ \A k \in Keys : BlindRow(k) \/ lock[k] = Free
    /\ \A n \in Nodes : \A t \in todo[n] : n \in Active(t) =>
         ran[n][t] > 0 /\ local[n][t] = 0 /\ remote[n][t] = 0

\* Managers wait for locks in the order of the ids and executors for reads in
\* the same order: nobody waits in a circle, whatever the number of managers.
\* Only the flipped bit of a blind write can stop them.
BatchesFinish ==
  <>(phase = "DONE" \/ \E k \in Keys : BlindRow(k) /\ lock[k].writer = 1)
=============================================================================
