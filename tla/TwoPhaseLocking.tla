-------------------------- MODULE TwoPhaseLocking --------------------------
(***************************************************************************)
(* Two-phase locking without waiting (protocol/TwoPL, core/Executor.h): a  *)
(* worker asks for the locks of all rows of its transaction; if one is     *)
(* refused it gives the others back and tries again, and otherwise it      *)
(* writes, replicates and then releases.                                   *)
(*                                                                         *)
(* The value of a row is the transaction that wrote it last.  The          *)
(* compare-and-swap loops of TwoPLHelper.h are atomic: a round that fails  *)
(* leaves no trace, and the single attempt of write_lock fails only if     *)
(* somebody has held the lock since the word was loaded.                   *)
(***************************************************************************)
EXTENDS Integers, FiniteSets, SequencesExt

CONSTANTS
  Nodes,        \* the coordinators of the cluster
  Workers,      \* the workers of a node
  Keys,         \* the rows
  Master,       \* the node that has the master partition of a row
  Replicas,     \* the other nodes that have a copy of it
  Txns,         \* the transactions of the run
  Home,         \* the node that runs a transaction
  WorkerOf,     \* the worker that runs it
  Position,     \* its place in the sequence of its worker
  Programs,     \* the accesses a transaction may make
  ReadLockMax,  \* read_lock_max: 511 in the code
  NoTxn         \* the writer of a row nobody has written

\* Rows are locked for a read or for an update; a transaction of TPC-C may
\* give up before it locks any.
Program == [reads : SUBSET Keys, writes : SUBSET Keys, rollback : BOOLEAN]

Copies == {p \in Nodes \X Keys : p[1] = Master[p[2]] \/ p[1] \in Replicas[p[2]]}

Channels == {c \in Nodes \X Nodes \X Workers : c[1] # c[2]}

ASSUME TopologyAssumption ==
  /\ IsFiniteSet(Keys) /\ IsFiniteSet(Nodes)
  /\ Master \in [Keys -> Nodes]
  /\ Replicas \in [Keys -> SUBSET Nodes]
  /\ \A k \in Keys : Master[k] \notin Replicas[k]
  /\ Home \in [Txns -> Nodes]
  /\ WorkerOf \in [Txns -> Workers]
ASSUME PositionAssumption ==
  /\ Position \in [Txns -> Nat]
  /\ \A t, u \in Txns :
       Home[t] = Home[u] /\ WorkerOf[t] = WorkerOf[u] /\ Position[t] = Position[u]
         => t = u
ASSUME ProgramAssumption ==
  /\ Programs \subseteq Program
  /\ \A p \in Programs : p.reads \cap p.writes = {} /\ p.reads \cup p.writes # {}
ASSUME ReadLockMaxAssumption == ReadLockMax \in Nat \ {0}
ASSUME NoTxnAssumption == NoTxn \notin Txns

VARIABLES
  prog,     \* what each transaction accesses, fixed when it is generated
  stage,    \* where its worker is with it
  tried,    \* the local rows process_requests has come to
  held,     \* the lock bits of its rows
  failed,   \* abort_lock
  seen,     \* the value it has read of each row
  seenTid,  \* the tid it has read of each row
  tid,      \* its commit tid
  maxTid,   \* max_tid of each worker's protocol object
  pend,     \* pendingResponses: the requests that wait for their answer
  row,      \* the word and the value of each copy of a row
  chan      \* the messages from worker w of n to worker w of m, in order

vars == <<prog, stage, tried, held, failed, seen, seenTid, tid, maxTid, pend,
          row, chan>>
-----------------------------------------------------------------------------
Reads(t)  == prog[t].reads
Writes(t) == prog[t].writes
Rows(t)   == Reads(t) \cup Writes(t)

IsLocal(t, k)   == Master[k] = Home[t]
Local(t, keys)  == {k \in keys : IsLocal(t, k)}
Remote(t, keys) == {k \in keys : ~IsLocal(t, k)}

Worker(t) == <<Home[t], WorkerOf[t]>>

\* A worker runs its transactions one after the other.
IsNext(t) ==
  \A u \in Txns : Worker(u) = Worker(t) /\ Position[u] < Position[t] =>
    stage[u] \in {"committed", "rolled_back"}

\* A message: a request of a transaction for one copy of a row, or its
\* answer; ok, val and tid are what a lock gives, tid also goes with writes.
Types == {"LOCK", "ABORT", "WRITE", "REPLICATION", "RELEASE"}

Message == [type : Types, answer : BOOLEAN, txn : Txns, key : Keys,
            write : BOOLEAN, to : Nodes, ok : BOOLEAN,
            val : Txns \cup {NoTxn}, tid : Nat]

Id(m) == <<m.type, m.key, m.to>>

Request(type, t, k, to, number) ==
  [type |-> type, answer |-> FALSE, txn |-> t, key |-> k,
   write |-> k \in Writes(t), to |-> to, ok |-> FALSE, val |-> NoTxn,
   tid |-> number]

ToMaster(type, t, keys, number) ==
  {Request(type, t, k, Master[k], number) : k \in Remote(t, keys)}

\* flush_messages: a request goes to the worker of the same number.
Send(msgs) ==
  chan' = [c \in Channels |->
             chan[c] \o SetToSeq({m \in msgs :
               c = <<Home[m.txn], m.to, WorkerOf[m.txn]>>})]

\* Requests whose answers are counted.
Ask(t, msgs) ==
  /\ Send(msgs)
  /\ pend' = [pend EXCEPT ![t] = {Id(m) : m \in msgs}]
-----------------------------------------------------------------------------
\* TwoPLHelper: the word of a row has a write bit, a count of read locks, and
\* the tid of its last writer.
FreeWord == [locked |-> FALSE, readers |-> 0, tid |-> 0, val |-> NoTxn]

IsFree(r) == ~r.locked /\ r.readers = 0

\* read_lock and write_lock.
Grants(r, write) ==
  IF write THEN IsFree(r) ELSE ~r.locked /\ r.readers < ReadLockMax

Locked(r, write) ==
  IF write THEN [r EXCEPT !.locked = TRUE] ELSE [r EXCEPT !.readers = @ + 1]

\* read_lock_release and the write_lock_release of an abort.
Unlocked(r, write) ==
  IF write THEN [r EXCEPT !.locked = FALSE] ELSE [r EXCEPT !.readers = @ - 1]

\* write_lock_release with a tid replaces the whole word.
Installed(r, number) == [r EXCEPT !.locked = FALSE, !.readers = 0, !.tid = number]
-----------------------------------------------------------------------------
Stages == {"waiting", "locking", "asked", "writing", "releasing",
           "committed", "rolled_back"}

TypeOK ==
  /\ prog \in [Txns -> Programs]
  /\ stage \in [Txns -> Stages]
  /\ tried \in [Txns -> SUBSET Keys]
  /\ held \in [Txns -> SUBSET Keys]
  /\ failed \in [Txns -> BOOLEAN]
  /\ seen \in [Txns -> [Keys -> Txns \cup {NoTxn}]]
  /\ seenTid \in [Txns -> [Keys -> Nat]]
  /\ tid \in [Txns -> Nat]
  /\ maxTid \in [Nodes \X Workers -> Nat]
  /\ pend \in [Txns -> SUBSET (Types \X Keys \X Nodes)]
  /\ row \in [Copies -> [locked : BOOLEAN, readers : 0..ReadLockMax, tid : Nat,
                         val : Txns \cup {NoTxn}]]
  /\ chan \in [Channels -> Seq(Message)]

Init ==
  /\ prog \in [Txns -> Programs]
  /\ stage = [t \in Txns |-> "waiting"]
  /\ tried = [t \in Txns |-> {}]
  /\ held = [t \in Txns |-> {}]
  /\ failed = [t \in Txns |-> FALSE]
  /\ seen = [t \in Txns |-> [k \in Keys |-> NoTxn]]
  /\ seenTid = [t \in Txns |-> [k \in Keys |-> 0]]
  /\ tid = [t \in Txns |-> 0]
  /\ maxTid = [w \in Nodes \X Workers |-> 0]
  /\ pend = [t \in Txns |-> {}]
  /\ row = [p \in Copies |-> FreeWord]
  /\ chan = [c \in Channels |-> <<>>]

Goto(t, place) == stage' = [stage EXCEPT ![t] = place]
-----------------------------------------------------------------------------
\* TransactionResult::ABORT_NORETRY: before it has asked for a lock.
Rollback(t) ==
  /\ stage[t] = "waiting" /\ IsNext(t)
  /\ prog[t].rollback
  /\ Goto(t, "rolled_back")
  /\ UNCHANGED <<prog, tried, held, failed, seen, seenTid, tid, maxTid, pend,
                 row, chan>>

\* The loop of Executor::start: a new transaction, or the last one again
\* after a reset.
Begin(t) ==
  /\ stage[t] = "waiting" /\ IsNext(t)
  /\ ~prog[t].rollback
  /\ tried' = [tried EXCEPT ![t] = {}]
  /\ failed' = [failed EXCEPT ![t] = FALSE]
  /\ seen' = [seen EXCEPT ![t] = [k \in Keys |-> NoTxn]]
  /\ seenTid' = [seenTid EXCEPT ![t] = [k \in Keys |-> 0]]
  /\ Goto(t, "locking")
  /\ UNCHANGED <<prog, held, tid, maxTid, pend, row, chan>>

\* process_requests, one local row: it goes on after a lock that is refused.
Lock(t, k) ==
  /\ stage[t] = "locking"
  /\ k \in Local(t, Rows(t)) \ tried[t]
  /\ tried' = [tried EXCEPT ![t] = @ \cup {k}]
  /\ LET p == <<Home[t], k>>
         write == k \in Writes(t)
     IN  IF Grants(row[p], write)
           THEN /\ row' = [row EXCEPT ![p] = Locked(@, write)]
                /\ held' = [held EXCEPT ![t] = @ \cup {k}]
                /\ seen' = [seen EXCEPT ![t][k] = row[p].val]
                /\ seenTid' = [seenTid EXCEPT ![t][k] = row[p].tid]
                /\ UNCHANGED failed
           ELSE /\ failed' = [failed EXCEPT ![t] = TRUE]
                /\ UNCHANGED <<row, held, seen, seenTid>>
  /\ UNCHANGED <<prog, stage, tid, maxTid, pend, chan>>

\* The requests for the rows of other nodes leave when the loop is over.
AskLocks(t) ==
  /\ stage[t] = "locking"
  /\ Local(t, Rows(t)) \subseteq tried[t]
  /\ Ask(t, ToMaster("LOCK", t, Rows(t), 0))
  /\ Goto(t, "asked")
  /\ UNCHANGED <<prog, tried, held, failed, seen, seenTid, tid, maxTid, row>>

\* The local part of abort and of release_lock.
UnlockedRows(t, install, number) ==
  [p \in Copies |->
     IF p[1] = Home[t] /\ p[2] \in held[t] /\ IsLocal(t, p[2])
       THEN IF install /\ p[2] \in Writes(t) THEN Installed(row[p], number)
                                             ELSE Unlocked(row[p], p[2] \in Writes(t))
       ELSE row[p]]

\* Faulty: only the locks of this node are given back.
AbortLocally(t) ==
  /\ stage[t] = "asked" /\ pend[t] = {}
  /\ failed[t]
  /\ row' = UnlockedRows(t, FALSE, 0)
  /\ held' = [held EXCEPT ![t] = {}]
  /\ Goto(t, "waiting")
  /\ UNCHANGED <<prog, tried, failed, seen, seenTid, tid, maxTid, pend, chan>>

\* TwoPL::abort: the locks it has are given back, those of other nodes by
\* requests that nobody answers, and the worker tries again.
Abort(t) ==
  /\ stage[t] = "asked" /\ pend[t] = {}
  /\ failed[t]
  /\ row' = UnlockedRows(t, FALSE, 0)
  /\ Send(ToMaster("ABORT", t, held[t], 0))
  /\ held' = [held EXCEPT ![t] = {}]
  /\ Goto(t, "waiting")
  /\ UNCHANGED <<prog, tried, failed, seen, seenTid, tid, maxTid, pend>>

\* Faulty: the tids of the rows do not count.
NextTidOfWorker(t) == 1 + maxTid[Worker(t)]

\* generate_tid: above the tids of all rows it has locked, and above those
\* of its worker.
NextTid(t) == 1 + Max({seenTid[t][k] : k \in Rows(t)} \cup {maxTid[Worker(t)]})

\* write_and_replicate on the copies of the node itself.
WrittenRows(t) ==
  [p \in Copies |-> IF p[1] = Home[t] /\ p[2] \in Writes(t)
                    THEN [row[p] EXCEPT !.val = t] ELSE row[p]]

Replications(t, number) ==
  UNION {{Request("REPLICATION", t, k, n, number) : n \in Replicas[k] \ {Home[t]}} :
           k \in Writes(t)}

\* TwoPL::commit, generate_tid and write_and_replicate.
Commit(t) ==
  /\ stage[t] = "asked" /\ pend[t] = {}
  /\ ~failed[t]
  /\ tid' = [tid EXCEPT ![t] = NextTid(t)]
  /\ maxTid' = [maxTid EXCEPT ![Worker(t)] = NextTid(t)]
  /\ row' = WrittenRows(t)
  /\ Ask(t, ToMaster("WRITE", t, Writes(t), 0) \cup Replications(t, NextTid(t)))
  /\ Goto(t, "writing")
  /\ UNCHANGED <<prog, tried, held, failed, seen, seenTid>>

\* release_lock, once the writes are acknowledged.
Release(t) ==
  /\ stage[t] = "writing" /\ pend[t] = {}
  /\ row' = UnlockedRows(t, TRUE, tid[t])
  /\ Ask(t, ToMaster("RELEASE", t, Rows(t), tid[t]))
  /\ held' = [held EXCEPT ![t] = {}]
  /\ Goto(t, "releasing")
  /\ UNCHANGED <<prog, tried, failed, seen, seenTid, tid, maxTid>>

\* commit returns when the releases are acknowledged.
Finish(t) ==
  /\ stage[t] = "releasing" /\ pend[t] = {}
  /\ Goto(t, "committed")
  /\ UNCHANGED <<prog, tried, held, failed, seen, seenTid, tid, maxTid, pend,
                 row, chan>>
-----------------------------------------------------------------------------
\* process_request: a worker handles messages while it waits and between its
\* transactions, but not inside the loop over its rows.
Takes(c, type, answer) ==
  /\ chan[c] # <<>>
  /\ Head(chan[c]).type = type /\ Head(chan[c]).answer = answer
  /\ \A t \in Txns : Worker(t) = <<c[2], c[3]>> => stage[t] # "locking"

Back(c) == <<c[2], c[1], c[3]>>

Reply(c, m) ==
  chan' = [chan EXCEPT ![c] = Tail(@),
                       ![Back(c)] = Append(@, [m EXCEPT !.answer = TRUE])]

Drop(c) == chan' = [chan EXCEPT ![c] = Tail(@)]

Answered(m) == pend' = [pend EXCEPT ![m.txn] = @ \ {Id(m)}]

\* read_lock_request_handler, write_lock_request_handler
LockRequest(c) ==
  /\ Takes(c, "LOCK", FALSE)
  /\ LET m == Head(chan[c])
         p == <<c[2], m.key>>
     IN  IF Grants(row[p], m.write)
           THEN /\ row' = [row EXCEPT ![p] = Locked(@, m.write)]
                /\ Reply(c, [m EXCEPT !.ok = TRUE, !.val = row[p].val,
                                      !.tid = row[p].tid])
           ELSE /\ Reply(c, m)
                /\ UNCHANGED row
  /\ UNCHANGED <<prog, stage, tried, held, failed, seen, seenTid, tid, maxTid,
                 pend>>

\* Faulty: a refused lock does not abort the transaction.
LockResponseIgnoresRefusal(c) ==
  /\ Takes(c, "LOCK", TRUE)
  /\ LET m == Head(chan[c])
     IN  /\ held' = [held EXCEPT ![m.txn] = IF m.ok THEN @ \cup {m.key} ELSE @]
         /\ seen' = [seen EXCEPT ![m.txn][m.key] = m.val]
         /\ seenTid' = [seenTid EXCEPT ![m.txn][m.key] = m.tid]
         /\ Answered(m)
  /\ Drop(c)
  /\ UNCHANGED <<prog, stage, tried, failed, tid, maxTid, row>>

\* read_lock_response_handler, write_lock_response_handler
LockResponse(c) ==
  /\ Takes(c, "LOCK", TRUE)
  /\ LET m == Head(chan[c])
     IN  /\ IF m.ok
              THEN /\ held' = [held EXCEPT ![m.txn] = @ \cup {m.key}]
                   /\ seen' = [seen EXCEPT ![m.txn][m.key] = m.val]
                   /\ seenTid' = [seenTid EXCEPT ![m.txn][m.key] = m.tid]
                   /\ UNCHANGED failed
              ELSE /\ failed' = [failed EXCEPT ![m.txn] = TRUE]
                   /\ UNCHANGED <<held, seen, seenTid>>
         /\ Answered(m)
  /\ Drop(c)
  /\ UNCHANGED <<prog, stage, tried, tid, maxTid, row>>

AbortRequest(c) ==
  /\ Takes(c, "ABORT", FALSE)
  /\ LET m == Head(chan[c])
     IN  row' = [row EXCEPT ![<<c[2], m.key>>] = Unlocked(@, m.write)]
  /\ Drop(c)
  /\ UNCHANGED <<prog, stage, tried, held, failed, seen, seenTid, tid, maxTid,
                 pend>>

\* write_request_handler: the value, not the tid.
WriteRequest(c) ==
  /\ Takes(c, "WRITE", FALSE)
  /\ LET m == Head(chan[c])
     IN  /\ row' = [row EXCEPT ![<<c[2], m.key>>].val = m.txn]
         /\ Reply(c, m)
  /\ UNCHANGED <<prog, stage, tried, held, failed, seen, seenTid, tid, maxTid,
                 pend>>

\* Faulty: the request is not acknowledged.
ReplicationRequestSilent(c) ==
  /\ Takes(c, "REPLICATION", FALSE)
  /\ LET m == Head(chan[c])
         p == <<c[2], m.key>>
     IN  /\ IsFree(row[p])
         /\ row' = [row EXCEPT ![p].val = m.txn, ![p].tid = m.tid]
         /\ Drop(c)
  /\ UNCHANGED <<prog, stage, tried, held, failed, seen, seenTid, tid, maxTid,
                 pend>>

\* replication_request_handler: it waits for the lock of the copy, and
\* releases it with the new tid.
ReplicationRequest(c) ==
  /\ Takes(c, "REPLICATION", FALSE)
  /\ LET m == Head(chan[c])
         p == <<c[2], m.key>>
     IN  /\ IsFree(row[p])
         /\ row' = [row EXCEPT ![p].val = m.txn, ![p].tid = m.tid]
         /\ Reply(c, m)
  /\ UNCHANGED <<prog, stage, tried, held, failed, seen, seenTid, tid, maxTid,
                 pend>>

\* release_read_lock_request_handler, release_write_lock_request_handler
ReleaseRequest(c) ==
  /\ Takes(c, "RELEASE", FALSE)
  /\ LET m == Head(chan[c])
     IN  /\ row' = [row EXCEPT ![<<c[2], m.key>>] =
                      IF m.write THEN Installed(@, m.tid) ELSE Unlocked(@, FALSE)]
         /\ Reply(c, m)
  /\ UNCHANGED <<prog, stage, tried, held, failed, seen, seenTid, tid, maxTid,
                 pend>>

\* write_response_handler, replication_response_handler and the handlers of
\* the answers to releases.
CountResponse(c) ==
  /\ \E type \in {"WRITE", "REPLICATION", "RELEASE"} : Takes(c, type, TRUE)
  /\ Answered(Head(chan[c]))
  /\ Drop(c)
  /\ UNCHANGED <<prog, stage, tried, held, failed, seen, seenTid, tid, maxTid,
                 row>>
-----------------------------------------------------------------------------
Work(t) ==
  \/ Rollback(t) \/ Begin(t)
  \/ \E k \in Keys : Lock(t, k)
  \/ AskLocks(t) \/ Abort(t) \/ Commit(t) \/ Release(t) \/ Finish(t)

Process(c) ==
  \/ LockRequest(c) \/ LockResponse(c) \/ AbortRequest(c) \/ WriteRequest(c)
  \/ ReplicationRequest(c) \/ ReleaseRequest(c) \/ CountResponse(c)

Next ==
  \/ \E t \in Txns : Work(t)
  \/ \E c \in Channels : Process(c)

Spec == Init /\ [][Next]_vars

\* Workers are threads that poll.  Each turn of their loop empties the queue
\* of the messages that have arrived before the next transaction begins, so
\* that none is overtaken for ever by retries: strong fairness.
FairSpec ==
  /\ Spec
  /\ \A t \in Txns : WF_vars(Work(t))
  /\ \A c \in Channels : SF_vars(Process(c))
-----------------------------------------------------------------------------
InFlight(type, answer) ==
  {m \in UNION {Range(chan[c]) : c \in Channels} : m.type = type /\ m.answer = answer}

\* Who has a lock of k, as far as the transactions, the answers that grant it
\* and the requests that give it back tell.
Holders(k) ==
  {t \in Txns : k \in held[t]} \cup
  {m.txn : m \in {x \in InFlight("LOCK", TRUE) : x.ok /\ x.key = k}} \cup
  {m.txn : m \in {x \in InFlight("ABORT", FALSE) \cup InFlight("RELEASE", FALSE) :
                    x.key = k}}

\* The word of a row counts its holders exactly: no lock is lost when a
\* transaction aborts or commits, none is given back twice, and a writer is
\* alone.  The assertions of read_lock_release and write_lock_release follow.
\* The other copies of a row are never locked between two messages, so that
\* the handler of a replication does not spin.
LocksAccounted ==
  /\ TypeOK
  /\ \A k \in Keys :
       LET r == row[<<Master[k], k>>]
           readers == {t \in Holders(k) : k \in Reads(t)}
           writers == {t \in Holders(k) : k \in Writes(t)}
       IN  /\ r.readers = Cardinality(readers)
           /\ r.locked <=> writers # {}
           /\ writers # {} => readers = {} /\ Cardinality(writers) = 1
  /\ \A p \in Copies : p[1] # Master[p[2]] => IsFree(row[p])

\* replication_request_handler asserts that the tids of a copy grow; and a
\* copy holds what the master holds unless the writer is still at work.
ReplicasFollow ==
  /\ \A m \in InFlight("REPLICATION", FALSE) : row[<<m.to, m.key>>].tid < m.tid
  /\ \A p \in Copies :
       \/ row[p].val = row[<<Master[p[2]], p[2]>>].val
       \/ \E t \in Txns : stage[t] = "writing" /\ p[2] \in Writes(t)

\* Transactions that have come to their commit are serializable in the order
\* of their commits.
HasCommitted(t) == stage[t] \in {"writing", "releasing", "committed"}

Store ==
  [k \in Keys |->
     LET writers == {t \in Txns : stage[t] = "writing" /\ k \in Writes(t)}
     IN  IF writers = {} THEN row[<<Master[k], k>>].val
         ELSE CHOOSE t \in writers : TRUE]

Result ==
  [t \in Txns |-> IF HasCommitted(t) THEN [k \in Rows(t) |-> seen[t][k]]
                                     ELSE [k \in {} |-> NoTxn]]

Serial == INSTANCE SerialStore WITH store <- Store, result <- Result

ImplementsSerialStore == Serial!Spec

\* Every request that is counted is answered: no worker waits for ever.
AnswersArrive ==
  \A t \in Txns : []<>(pend[t] = {})
=============================================================================
