---------------------------- MODULE LockSchedule ----------------------------
(***************************************************************************)
(* Deterministic scheduling with lock managers, as Calvin runs a batch and *)
(* AriaFB the transactions its batch has aborted                           *)
(* (protocol/Calvin, and the copy in protocol/AriaFB).                     *)
(*                                                                         *)
(* The first workers of a node are lock managers: each walks through the   *)
(* batch in the order of the ids, locks the rows of its own partitions and *)
(* hands the transaction to one of its executors.  A transaction so runs   *)
(* once per node and manager that it has rows of.  Each run reads the rows *)
(* of its manager and sends them to the nodes that write; there it waits   *)
(* until all rows of the transaction have come, executes, writes the rows  *)
(* of its manager and releases their locks.                                *)
(*                                                                         *)
(* All runs of a transaction on a node share its storage and its counters. *)
(* The module has no initial states: Calvin and AriaFallback have.         *)
(***************************************************************************)
EXTENDS Integers, FiniteSets, SequencesExt

CONSTANTS
  Nodes,        \* the coordinators of a replica group
  Keys,         \* the rows
  Owner,        \* the node that has the master partition of a row
  NManagers,    \* n_lock_manager: workers 0..NManagers - 1 of a node
  NExecutors,   \* the executors of each manager
  ManagerOf,    \* the manager that locks a row, on the node that owns it
  MaxReaders,   \* read_lock_max, 511 in the code
  Txns,         \* the transactions
  Tid,          \* their ids: the order in which they are scheduled
  NoTxn         \* the writer of a row nobody has written; an idle executor

VARIABLES
  prog,     \* what each transaction accesses
  todo,     \* the transactions a node has to schedule
  dealt,    \* those that a manager is through with
  got,      \* the rows a manager has locked for its next transaction
  queue,    \* transaction_queue of each executor
  running,  \* the transaction it has in hand
  local,    \* local_read: the own rows a node still has to read
  remote,   \* remote_read: the rows that still have to come
  input,    \* the value (here: the writer) in the storage, row by row
  ran,      \* how often a node has executed the logic of a transaction
  lock,     \* the lock bits in the metadata word of a row
  db,       \* the value (here: the writer) of each row
  reads     \* the READ messages from worker w of n to worker w of m, in order

schedule == <<dealt, got, queue, running, local, remote, input, ran, lock, db,
              reads>>

Managers  == 0..NManagers - 1
Executors == NManagers..NManagers * (1 + NExecutors) - 1

\* worker_id_to_lock_manager_id and get_available_worker.
Serves(w) == (w - NManagers) \div NExecutors
Worker(m, request) == NManagers + NExecutors * m + (request % NExecutors)

Lanes == {c \in Nodes \X Nodes \X Executors : c[1] # c[2]}

ASSUME LayoutAssumption ==
  /\ IsFiniteSet(Keys)
  /\ Owner \in [Keys -> Nodes]
  /\ NManagers \in Nat \ {0} /\ NExecutors \in Nat \ {0}
  /\ ManagerOf \in [Keys -> Managers]
ASSUME ReadersAssumption == MaxReaders \in Nat \ {0}
ASSUME OrderAssumption ==
  /\ IsFiniteSet(Txns)
  /\ Tid \in [Txns -> Nat]
  /\ NoTxn \notin Txns
-----------------------------------------------------------------------------
\* The read set has a write lock bit on the rows that are updated, a read
\* lock bit on the others; a row that is written only is not locked at all.
Updates(t) == prog[t].reads \cap prog[t].writes
Shares(t)  == prog[t].reads \ prog[t].writes
Blinds(t)  == prog[t].writes \ prog[t].reads

RowsAt(t, n)      == {k \in prog[t].reads : Owner[k] = n}
RowsOf(t, n, m)   == {k \in RowsAt(t, n) : ManagerOf[k] = m}

\* active_coordinators.
Active(t) == {Owner[k] : k \in Updates(t)}

\* setup_process_requests_in_prepare_phase: the counters of a prepared
\* transaction.
LocalReads(t, n)  == Cardinality(RowsAt(t, n))
RemoteReads(t, n) == Cardinality(prog[t].reads \ RowsAt(t, n))

Free == [readers |-> 0, writer |-> 0]

\* read_lock and write_lock spin until these hold.
MayRead(l)  == l.writer = 0 /\ l.readers # MaxReaders
MayWrite(l) == l.writer = 0 /\ l.readers = 0

\* write_lock_release subtracts 2^63, whether or not the bit is set: modulo
\* 2^64 that flips it.
ReleaseRead(l)  == [l EXCEPT !.readers = @ - 1]
ReleaseWrite(l) == [l EXCEPT !.writer = 1 - @]

Earlier(t, u) == Tid[t] < Tid[u]

\* schedule_transactions works on the first transaction it is not through with.
AtHand(n, m, t) ==
  /\ t \in todo[n] \ dealt[n][m]
  /\ \A u \in todo[n] \ dealt[n][m] : u = t \/ Earlier(t, u)

\* The bit of the manager in lock_manager_status.
Through(n, m) == todo[n] \subseteq dealt[n][m]
-----------------------------------------------------------------------------
\* Faulty: a reader does not mind a writer.
GrantShared(n, m, t, k) ==
  /\ AtHand(n, m, t)
  /\ k \in RowsOf(t, n, m) \ got[n][m]
  /\ IF k \in Updates(t)
       THEN /\ MayWrite(lock[k])
            /\ lock' = [lock EXCEPT ![k].writer = 1]
       ELSE /\ lock[k].readers # MaxReaders
            /\ lock' = [lock EXCEPT ![k].readers = @ + 1]
  /\ got' = [got EXCEPT ![n][m] = @ \cup {k}]
  /\ UNCHANGED <<dealt, queue, running, local, remote, input, ran, db, reads>>

\* One round of the loop over the read set: the lock of a row is taken.
Grant(n, m, t, k) ==
  /\ AtHand(n, m, t)
  /\ k \in RowsOf(t, n, m) \ got[n][m]
  /\ IF k \in Updates(t)
       THEN /\ MayWrite(lock[k])
            /\ lock' = [lock EXCEPT ![k].writer = 1]
       ELSE /\ MayRead(lock[k])
            /\ lock' = [lock EXCEPT ![k].readers = @ + 1]
  /\ got' = [got EXCEPT ![n][m] = @ \cup {k}]
  /\ UNCHANGED <<dealt, queue, running, local, remote, input, ran, db, reads>>

\* All locks are granted: the transaction goes to the next executor in turn,
\* unless the manager has no row of it.
Assign(n, m, t) ==
  LET request == Cardinality({u \in dealt[n][m] \cap todo[n] : RowsOf(u, n, m) # {}})
      w       == Worker(m, request)
  IN  /\ AtHand(n, m, t)
      /\ got[n][m] = RowsOf(t, n, m)
      /\ queue' = IF got[n][m] = {} THEN queue
                  ELSE [queue EXCEPT ![n][w] = Append(@, t)]
      /\ dealt' = [dealt EXCEPT ![n][m] = @ \cup {t}]
      /\ got' = [got EXCEPT ![n][m] = {}]
      /\ UNCHANGED <<running, local, remote, input, ran, lock, db, reads>>

\* Faulty: the rows go to all other nodes that have rows of the transaction.
BeginTellsAll(n, w) ==
  /\ running[n][w] = NoTxn /\ queue[n][w] # <<>>
  /\ LET t    == Head(queue[n][w])
         rows == RowsOf(t, n, Serves(w))
         msgs == SetToSeq({[txn |-> t, key |-> k, val |-> db[k]] : k \in rows})
     IN  /\ running' = [running EXCEPT ![n][w] = t]
         /\ queue' = [queue EXCEPT ![n][w] = Tail(@)]
         /\ input' = [input EXCEPT ![n][t] =
                        [k \in Keys |-> IF k \in rows THEN db[k] ELSE @[k]]]
         /\ local' = [local EXCEPT ![n][t] = @ - Cardinality(rows)]
         /\ reads' = [c \in Lanes |->
                        IF c[1] = n /\ c[3] = w /\ RowsAt(t, c[2]) # {}
                          THEN reads[c] \o msgs ELSE reads[c]]
  /\ UNCHANGED <<dealt, got, remote, ran, lock, db>>

\* run_transactions pops a transaction and execute begins: its process_requests
\* reads the rows of the manager and sends them to the other active nodes.
Begin(n, w) ==
  /\ running[n][w] = NoTxn /\ queue[n][w] # <<>>
  /\ LET t    == Head(queue[n][w])
         rows == RowsOf(t, n, Serves(w))
         msgs == SetToSeq({[txn |-> t, key |-> k, val |-> db[k]] : k \in rows})
     IN  /\ running' = [running EXCEPT ![n][w] = t]
         /\ queue' = [queue EXCEPT ![n][w] = Tail(@)]
         /\ input' = [input EXCEPT ![n][t] =
                        [k \in Keys |-> IF k \in rows THEN db[k] ELSE @[k]]]
         /\ local' = [local EXCEPT ![n][t] = @ - Cardinality(rows)]
         /\ reads' = [c \in Lanes |->
                        IF c[1] = n /\ c[3] = w /\ c[2] \in Active(t)
                          THEN reads[c] \o msgs ELSE reads[c]]
  /\ UNCHANGED <<dealt, got, remote, ran, lock, db>>

\* What commit and abort release of the rows of the executor's manager; commit
\* walks over the write set, with the rows nobody has locked.
Released(t, n, m, shared, written) ==
  [k \in Keys |->
     IF Owner[k] # n \/ ManagerOf[k] # m THEN lock[k]
     ELSE IF k \in shared THEN ReleaseRead(lock[k])
     ELSE IF k \in written THEN ReleaseWrite(lock[k]) ELSE lock[k]]

\* Faulty: it waits for the other nodes only.
CommitBeforeLocal(n, w) ==
  LET t == running[n][w]
      m == Serves(w)
  IN  /\ t # NoTxn /\ n \in Active(t)
      /\ remote[n][t] <= 0
      /\ ran' = [ran EXCEPT ![n][t] = @ + 1]
      /\ db' = [k \in Keys |-> IF k \in prog[t].writes /\ Owner[k] = n /\ ManagerOf[k] = m
                                 THEN t ELSE db[k]]
      /\ lock' = Released(t, n, m, Shares(t), prog[t].writes)
      /\ running' = [running EXCEPT ![n][w] = NoTxn]
      /\ UNCHANGED <<dealt, got, queue, local, remote, input, reads>>

\* On an active node the executor spins until all reads are there; then the
\* logic runs on the storage, and Calvin::commit writes and releases the rows
\* of this manager.
Commit(n, w) ==
  LET t == running[n][w]
      m == Serves(w)
  IN  /\ t # NoTxn /\ n \in Active(t)
      /\ local[n][t] <= 0 /\ remote[n][t] <= 0
      /\ ran' = [ran EXCEPT ![n][t] = @ + 1]
      /\ db' = [k \in Keys |-> IF k \in prog[t].writes /\ Owner[k] = n /\ ManagerOf[k] = m
                                 THEN t ELSE db[k]]
      /\ lock' = Released(t, n, m, Shares(t), prog[t].writes)
      /\ running' = [running EXCEPT ![n][w] = NoTxn]
      /\ UNCHANGED <<dealt, got, queue, local, remote, input, reads>>

\* Faulty: a node that does not write has nothing to release.
AbortKeepsLocks(n, w) ==
  LET t == running[n][w]
  IN  /\ t # NoTxn /\ n \notin Active(t)
      /\ running' = [running EXCEPT ![n][w] = NoTxn]
      /\ UNCHANGED <<dealt, got, queue, local, remote, input, ran, lock, db, reads>>

\* On the others execute gives up, and Calvin::abort releases the read locks.
Abort(n, w) ==
  LET t == running[n][w]
  IN  /\ t # NoTxn /\ n \notin Active(t)
      /\ lock' = Released(t, n, Serves(w), Shares(t), {})
      /\ running' = [running EXCEPT ![n][w] = NoTxn]
      /\ UNCHANGED <<dealt, got, queue, local, remote, input, ran, db, reads>>

\* An executor takes messages while it waits for work, for the reads of the
\* transaction in hand, or for the end of the phase.
Polls(n, w) ==
  IF running[n][w] = NoTxn THEN queue[n][w] = <<>>
  ELSE n \in Active(running[n][w])

\* read_request_handler: whoever waits for the row, its node has it now.
ReadRequest(c) ==
  /\ reads[c] # <<>> /\ Polls(c[2], c[3])
  /\ LET msg == Head(reads[c])
     IN  /\ input' = [input EXCEPT ![c[2]][msg.txn][msg.key] = msg.val]
         /\ remote' = [remote EXCEPT ![c[2]][msg.txn] = @ - 1]
  /\ reads' = [reads EXCEPT ![c] = Tail(@)]
  /\ UNCHANGED <<dealt, got, queue, running, local, ran, lock, db>>
-----------------------------------------------------------------------------
Manage(n, m) ==
  \E t \in Txns : Assign(n, m, t) \/ (\E k \in Keys : Grant(n, m, t, k))

Execute(n, w) == Begin(n, w) \/ Commit(n, w) \/ Abort(n, w)

ScheduleNext ==
  \/ \E n \in Nodes, m \in Managers : Manage(n, m)
  \/ \E n \in Nodes, w \in Executors : Execute(n, w)
  \/ \E c \in Lanes : ReadRequest(c)

\* All managers are through and all executors have nothing left to do.
ScheduleDone ==
  /\ \A n \in Nodes, m \in Managers : Through(n, m)
  /\ \A n \in Nodes, w \in Executors : running[n][w] = NoTxn /\ queue[n][w] = <<>>
-----------------------------------------------------------------------------
ScheduleTypeOK ==
  /\ todo \in [Nodes -> SUBSET Txns]
  /\ dealt \in [Nodes -> [Managers -> SUBSET Txns]]
  /\ got \in [Nodes -> [Managers -> SUBSET Keys]]
  /\ queue \in [Nodes -> [Executors -> Seq(Txns)]]
  /\ running \in [Nodes -> [Executors -> Txns \cup {NoTxn}]]
  /\ local \in [Nodes -> [Txns -> Int]]
  /\ remote \in [Nodes -> [Txns -> Int]]
  /\ input \in [Nodes -> [Txns -> [Keys -> Txns \cup {NoTxn}]]]
  /\ ran \in [Nodes -> [Txns -> Nat]]
  /\ lock \in [Keys -> [readers : Int, writer : {0, 1}]]
  /\ db \in [Keys -> Txns \cup {NoTxn}]
  /\ reads \in [Lanes -> Seq([txn : Txns, key : Keys, val : Txns \cup {NoTxn}])]

\* Who holds a row: the transaction for which its manager has just locked it,
\* and those that wait for their executor or are in its hands.
Holds(t, k) ==
  LET n == Owner[k]
      m == ManagerOf[k]
  IN  /\ k \in prog[t].reads
      /\ \/ AtHand(n, m, t) /\ k \in got[n][m]
         \/ \E w \in Executors :
              /\ Serves(w) = m
              /\ \/ running[n][w] = t
                 \/ \E i \in DOMAIN queue[n][w] : queue[n][w][i] = t

BlindRow(k) == \E t \in Txns : k \in Blinds(t)

\* The lock bits say who holds the row, and nobody who writes it shares it.
\* The code assumes that there are no blind writes: the release of one flips
\* the bit of a row that nobody has locked.
RowLocksExact ==
  \A k \in Keys : BlindRow(k) \/
    LET readers == {t \in Txns : Holds(t, k) /\ k \in Shares(t)}
        writers == {t \in Txns : Holds(t, k) /\ k \in Updates(t)}
    IN  /\ lock[k] = [readers |-> Cardinality(readers), writer |-> Cardinality(writers)]
        /\ writers # {} => readers = {}

\* A node on which two managers have rows of a transaction executes it twice,
\* on one storage.
Split(t, n) == \E k, j \in RowsAt(t, n) : ManagerOf[k] # ManagerOf[j]
=============================================================================
