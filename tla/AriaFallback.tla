---------------------------- MODULE AriaFallback ----------------------------
(***************************************************************************)
(* The batches of AriaFB: a batch runs as in Aria, and what Aria aborts    *)
(* runs again, at once, under the lock managers of Calvin                  *)
(* (protocol/AriaFB).                                                      *)
(*                                                                         *)
(* The code copies both protocols, and so the module composes them: the    *)
(* READ and COMMIT phases are those of AriaBatch, the fallback is that of  *)
(* LockSchedule.  Between them the nodes exchange the ids of the aborted   *)
(* transactions and prepare them: the fallback runs them on every node     *)
(* that has their rows, Aria has run them on one.  The lock bits share the *)
(* metadata word of a row with its reservations.                           *)
(***************************************************************************)
EXTENDS Batches

CONSTANTS
  Home, WorkerOf, Programs, EpochModulus,            \* as in AriaBatch
  ReadOnlyOptimization, ReorderingOptimization, SnapshotIsolation,
  Master,      \* coordinator 0, which collects the aborted transactions
  Loads        \* what the transactions of all batches may access

VARIABLES
  step, seen, pend, flags, outcome, word, chan,
  lateReserve, lateWrite,                            \* as in AriaBatch
  abortLock,   \* the transactions a node knows to be aborted: abort_lock
  mail,        \* the VECTOR messages with abort_tids that are on their way
  told         \* the nodes that have sent theirs, or the master to all

aria      == <<batch, phase, prog, step, seen, pend, flags, outcome, word, db,
               chan, lateReserve, lateWrite>>
ariaOnly  == <<batch, phase, prog, step, seen, pend, flags, outcome, word, chan,
               lateReserve, lateWrite>>
exchange  == <<abortLock, mail, told>>
schedOnly == <<dealt, got, queue, running, local, remote, input, ran, lock, reads>>
ariaFBVars == <<aria, exchange, todo, schedOnly>>

\* The lock managers and the executors are the workers of Aria, too.
Workers == 0..NManagers * (1 + NExecutors) - 1

Aria == INSTANCE AriaBatch

ASSUME MasterAssumption == Master \in Nodes
ASSUME LoadAssumption == Loads \subseteq [Txns -> Programs]
ASSUME ProgramAssumption == Programs \subseteq Aria!Program
ASSUME HomeAssumption ==
  /\ Home \in [Txns -> Nodes]
  /\ WorkerOf \in [Txns -> Workers]
ASSUME EpochAssumption == EpochModulus \in Nat \ {0}
-----------------------------------------------------------------------------
AriaFBInit ==
  /\ Aria!Init /\ prog \in Loads
  /\ todo = [n \in Nodes |-> {}]
  /\ dealt = [n \in Nodes |-> [m \in Managers |-> {}]]
  /\ got = [n \in Nodes |-> [m \in Managers |-> {}]]
  /\ queue = [n \in Nodes |-> [w \in Executors |-> <<>>]]
  /\ running = [n \in Nodes |-> [w \in Executors |-> NoTxn]]
  /\ local = [n \in Nodes |-> [t \in Txns |-> 0]]
  /\ remote = [n \in Nodes |-> [t \in Txns |-> 0]]
  /\ input = [n \in Nodes |-> [t \in Txns |-> [k \in Keys |-> NoTxn]]]
  /\ ran = [n \in Nodes |-> [t \in Txns |-> 0]]
  /\ lock = [k \in Keys |-> Free]
  /\ reads = [c \in Lanes |-> <<>>]
  /\ abortLock = [n \in Nodes |-> {}]
  /\ mail = {}
  /\ told = {}
-----------------------------------------------------------------------------
\* A dry run counts the rows that a node has of a transaction and the others.
Counts(t, n) ==
  /\ local' = [local EXCEPT ![n][t] = LocalReads(t, n)]
  /\ remote' = [remote EXCEPT ![n][t] = RemoteReads(t, n)]

\* The two loops of read_snapshot.  The reads of Aria count, too, for the
\* fallback.
AriaRollback(t) ==
  Aria!Rollback(t) /\ UNCHANGED <<exchange, todo, schedOnly>>

AriaExecute(t) ==
  /\ Aria!Execute(t)
  /\ Counts(t, Home[t])
  /\ UNCHANGED <<exchange, todo, dealt, got, queue, running, input, ran, lock, reads>>

\* A word with a lock bit looks as one of a later epoch: the CHECK of
\* reserve_read and reserve_write stops the process.
Unlocked(keys) == \A k \in keys : lock[k] = Free

AriaReserve(t) ==
  /\ Aria!Reserve(t)
  /\ Unlocked(Aria!Local(t, Aria!Reads(t) \cup Aria!Writes(t)))
  /\ UNCHANGED <<exchange, todo, schedOnly>>

\* The two loops of commit_transactions.
AriaAnalyze(t) ==
  Aria!Analyze(t) /\ UNCHANGED <<exchange, todo, schedOnly>>

AriaCommit(t) ==
  Aria!Commit(t) /\ UNCHANGED <<exchange, todo, schedOnly>>

\* AriaFB::abort.
AriaAbort(t) ==
  /\ Aria!Abort(t)
  /\ abortLock' = [abortLock EXCEPT ![Home[t]] = @ \cup {t}]
  /\ UNCHANGED <<mail, told, todo, schedOnly>>

\* The handlers of Aria's messages.  In the fallback a worker takes messages
\* when it has nothing to lock or to run; between the phases it does not.
WorkerPolls(n, w) ==
  /\ phase # "EXCHANGE"
  /\ phase = "FALLBACK" =>
       IF w \in Managers THEN Through(n, w) ELSE Polls(n, w)

SearchRequest(c) ==
  /\ WorkerPolls(c[2], c[3]) /\ Aria!SearchRequest(c)
  /\ UNCHANGED <<exchange, todo, schedOnly>>

SearchResponse(c) ==
  /\ WorkerPolls(c[2], c[3]) /\ Aria!SearchResponse(c)
  /\ UNCHANGED <<exchange, todo, schedOnly>>

ReserveRequest(c) ==
  /\ WorkerPolls(c[2], c[3]) /\ Aria!ReserveRequest(c)
  /\ Unlocked({Head(chan[c]).key})
  /\ UNCHANGED <<exchange, todo, schedOnly>>

CheckRequest(c) ==
  /\ WorkerPolls(c[2], c[3]) /\ Aria!CheckRequest(c)
  /\ UNCHANGED <<exchange, todo, schedOnly>>

CheckResponse(c) ==
  /\ WorkerPolls(c[2], c[3]) /\ Aria!CheckResponse(c)
  /\ UNCHANGED <<exchange, todo, schedOnly>>

WriteRequest(c) ==
  /\ WorkerPolls(c[2], c[3]) /\ Aria!WriteRequest(c)
  /\ UNCHANGED <<exchange, todo, schedOnly>>
-----------------------------------------------------------------------------
\* The barriers behind READ and COMMIT.
EndRead == Aria!EndRead /\ UNCHANGED <<exchange, todo, schedOnly>>

EndCommit ==
  /\ phase = "COMMIT"
  /\ \A t \in Current : step[t] = Aria!Decided
  /\ phase' = "EXCHANGE"
  /\ lateWrite' = (lateWrite \/ Aria!InFlight("WRITE"))
  /\ UNCHANGED <<batch, prog, step, seen, pend, flags, outcome, word, db, chan,
                 lateReserve, exchange, todo, schedOnly>>

\* cleanup_batch collects the ids, send_abort_tids_to_master sends them.
SendAborts(n) ==
  /\ phase = "EXCHANGE" /\ n \notin told \cup {Master}
  /\ mail' = mail \cup {[from |-> n, to |-> Master, tids |-> abortLock[n]]}
  /\ told' = told \cup {n}
  /\ UNCHANGED <<aria, abortLock, todo, schedOnly>>

\* Faulty: the ids are read, the transactions not marked.
TakeAbortsUnmarked ==
  /\ phase = "EXCHANGE"
  /\ \E msg \in mail :
       /\ msg.to = Master
       /\ mail' = mail \ {msg}
  /\ UNCHANGED <<aria, abortLock, told, todo, schedOnly>>

\* wait4_abort_tids_from_non_master, one message.
TakeAborts ==
  /\ phase = "EXCHANGE"
  /\ \E msg \in mail :
       /\ msg.to = Master
       /\ mail' = mail \ {msg}
       /\ abortLock' = [abortLock EXCEPT ![Master] = @ \cup msg.tids]
  /\ UNCHANGED <<aria, told, todo, schedOnly>>

\* broadcast_abort_tids, when the master has heard of every node.
Broadcast ==
  /\ phase = "EXCHANGE" /\ Master \notin told
  /\ Nodes \ {Master} \subseteq told /\ mail = {}
  /\ mail' = {[from |-> Master, to |-> n, tids |-> abortLock[Master]]
                : n \in Nodes \ {Master}}
  /\ told' = told \cup {Master}
  /\ UNCHANGED <<aria, abortLock, todo, schedOnly>>

\* wait4_abort_tids_from_master.
TakeUnion ==
  /\ phase = "EXCHANGE"
  /\ \E msg \in mail :
       /\ msg.from = Master
       /\ mail' = mail \ {msg}
       /\ abortLock' = [abortLock EXCEPT ![msg.to] = @ \cup msg.tids]
  /\ UNCHANGED <<aria, told, todo, schedOnly>>

\* The signal for Fallback_Prepare reaches a node behind the ids.
EndExchange ==
  /\ phase = "EXCHANGE" /\ Master \in told /\ mail = {}
  /\ phase' = "PREPARE"
  /\ told' = {}
  /\ UNCHANGED <<batch, prog, step, seen, pend, flags, outcome, word, db, chan,
                 lateReserve, lateWrite, abortLock, mail, todo, schedOnly>>
-----------------------------------------------------------------------------
\* Faulty: the nodes that write take part, those that only send rows do not.
RelevantWriters(n) == {t \in abortLock[n] : n \in Active(t)}

\* Aborted, and relevant to the node: analyze_transaction.
Relevant(n) == {t \in abortLock[n] : RowsAt(t, n) # {}}

\* Faulty: the counters of the dry run are kept, as on the node of Aria.
PrepareAsHome(n, t) ==
  /\ phase = "PREPARE" /\ t \in Relevant(n) \ todo[n]
  /\ word' = [k \in Keys |-> IF k \in RowsAt(t, n) THEN Aria!ZeroWord
                                                         ELSE word[k]]
  /\ todo' = [todo EXCEPT ![n] = @ \cup {t}]
  /\ UNCHANGED <<batch, phase, prog, step, seen, pend, flags, outcome, db, chan,
                 lateReserve, lateWrite, exchange, schedOnly>>

\* Faulty: the words keep the reservations of Aria.
PrepareUncleared(n, t) ==
  /\ phase = "PREPARE" /\ t \in Relevant(n) \ todo[n]
  /\ IF Home[t] = n THEN UNCHANGED <<local, remote>> ELSE Counts(t, n)
  /\ todo' = [todo EXCEPT ![n] = @ \cup {t}]
  /\ UNCHANGED <<batch, phase, prog, step, seen, pend, flags, outcome, word, db,
                 chan, lateReserve, lateWrite, exchange,
                 dealt, got, queue, running, input, ran, lock, reads>>

\* prepare_calvin_input, one transaction: a node that has not run it in Aria
\* resets it and repeats the dry run, and the words of its rows are cleared of
\* their reservations: the lock bits are the top ten bits of the epoch.
Prepare(n, t) ==
  /\ phase = "PREPARE" /\ t \in Relevant(n) \ todo[n]
  /\ IF Home[t] = n THEN UNCHANGED <<local, remote>> ELSE Counts(t, n)
  /\ word' = [k \in Keys |-> IF k \in RowsAt(t, n) THEN Aria!ZeroWord
                                                         ELSE word[k]]
  /\ todo' = [todo EXCEPT ![n] = @ \cup {t}]
  /\ UNCHANGED <<batch, phase, prog, step, seen, pend, flags, outcome, db, chan,
                 lateReserve, lateWrite, exchange,
                 dealt, got, queue, running, input, ran, lock, reads>>

EndPrepare ==
  /\ phase = "PREPARE"
  /\ \A n \in Nodes : todo[n] = Relevant(n)
  /\ phase' = "FALLBACK"
  /\ UNCHANGED <<batch, prog, step, seen, pend, flags, outcome, word, db, chan,
                 lateReserve, lateWrite, exchange, todo, schedOnly>>
-----------------------------------------------------------------------------
\* schedule_calvin_transactions.
CalvinGrant(n, m, t, k) ==
  /\ phase = "FALLBACK" /\ Grant(n, m, t, k)
  /\ UNCHANGED <<ariaOnly, exchange, todo>>

CalvinAssign(n, m, t) ==
  /\ phase = "FALLBACK" /\ Assign(n, m, t)
  /\ UNCHANGED <<ariaOnly, db, exchange, todo>>

\* run_calvin_transactions, AriaFB::calvin_commit and calvin_abort.
CalvinBegin(n, w) ==
  /\ phase = "FALLBACK" /\ Begin(n, w)
  /\ UNCHANGED <<ariaOnly, exchange, todo>>

CalvinCommit(n, w) ==
  /\ phase = "FALLBACK" /\ Commit(n, w)
  /\ UNCHANGED <<ariaOnly, exchange, todo>>

CalvinAbort(n, w) ==
  /\ phase = "FALLBACK" /\ Abort(n, w)
  /\ UNCHANGED <<ariaOnly, exchange, todo>>

\* calvin_read_request_handler: the messages of Aria are ahead in the queue.
CalvinReadRequest(c) ==
  /\ phase = "FALLBACK" /\ chan[c] = <<>> /\ ReadRequest(c)
  /\ UNCHANGED <<ariaOnly, exchange, todo>>

\* Faulty: the batch ends when the managers are through.
EndFallbackEarly ==
  /\ phase = "FALLBACK"
  /\ \A n \in Nodes, m \in Managers : Through(n, m)
  /\ IF batch < NBatches
       THEN batch' = batch + 1 /\ phase' = "READ"
       ELSE batch' = batch /\ phase' = "DONE"
  /\ abortLock' = [n \in Nodes |-> {}]
  /\ todo' = [n \in Nodes |-> {}]
  /\ dealt' = [n \in Nodes |-> [m \in Managers |-> {}]]
  /\ UNCHANGED <<prog, step, seen, pend, flags, outcome, word, db, chan,
                 lateReserve, lateWrite, mail, told,
                 got, queue, running, local, remote, input, ran, lock, reads>>

\* The barrier behind the fallback waits for the workers; reset forgets the
\* aborts when the next batch is generated.
EndFallback ==
  /\ phase = "FALLBACK" /\ ScheduleDone
  /\ IF batch < NBatches
       THEN batch' = batch + 1 /\ phase' = "READ"
       ELSE batch' = batch /\ phase' = "DONE"
  /\ abortLock' = [n \in Nodes |-> {}]
  /\ todo' = [n \in Nodes |-> {}]
  /\ dealt' = [n \in Nodes |-> [m \in Managers |-> {}]]
  /\ UNCHANGED <<prog, step, seen, pend, flags, outcome, word, db, chan,
                 lateReserve, lateWrite, mail, told,
                 got, queue, running, local, remote, input, ran, lock, reads>>
-----------------------------------------------------------------------------
Work(t) ==
  \/ AriaRollback(t) \/ AriaExecute(t) \/ AriaReserve(t)
  \/ AriaAnalyze(t) \/ AriaCommit(t) \/ AriaAbort(t)

Process(c) ==
  \/ SearchRequest(c) \/ SearchResponse(c) \/ ReserveRequest(c)
  \/ CheckRequest(c) \/ CheckResponse(c) \/ WriteRequest(c)

Exchange ==
  \/ \E n \in Nodes : SendAborts(n)
  \/ TakeAborts \/ Broadcast \/ TakeUnion

Fallback ==
  \/ \E n \in Nodes, m \in Managers, t \in Txns :
       CalvinAssign(n, m, t) \/ (\E k \in Keys : CalvinGrant(n, m, t, k))
  \/ \E n \in Nodes, w \in Executors :
       CalvinBegin(n, w) \/ CalvinCommit(n, w) \/ CalvinAbort(n, w)
  \/ \E c \in Lanes : CalvinReadRequest(c)

Barrier == EndRead \/ EndCommit \/ EndExchange \/ EndPrepare \/ EndFallback

AriaFBNext ==
  \/ \E t \in Txns : Work(t)
  \/ \E c \in Aria!Channels : Process(c)
  \/ Exchange
  \/ \E n \in Nodes, t \in Txns : Prepare(n, t)
  \/ Fallback
  \/ Barrier

AriaFBSpec == AriaFBInit /\ [][AriaFBNext]_ariaFBVars

\* All threads poll for ever, and every step is one towards the end.
AriaFBFairSpec == AriaFBSpec /\ WF_ariaFBVars(AriaFBNext)
-----------------------------------------------------------------------------
TypeOK ==
  /\ batch \in 1..NBatches
  /\ phase \in {"READ", "COMMIT", "EXCHANGE", "PREPARE", "FALLBACK", "DONE"}
  /\ ScheduleTypeOK
  /\ word \in [Keys -> Aria!Word]
  /\ abortLock \in [Nodes -> SUBSET Txns]
  /\ told \subseteq Nodes

\* The schedule assumes that a transaction writes only what it reads, and it
\* executes a transaction on the nodes that have rows it updates.
Assumed == \A t \in Txns : Blinds(t) = {}

Committed == {t \in Txns : outcome[t] = "committed"}
FellBack  == {t \in Txns : outcome[t] = "aborted"}

\* Batch by batch, the commits of Aria in its order, then the others by id.
AriaFBPrecedes(t, u) ==
  \/ BatchOf[t] < BatchOf[u]
  \/ /\ BatchOf[t] = BatchOf[u]
     /\ \/ t \in Committed /\ u \in FellBack
        \/ t \in Committed /\ u \in Committed /\ Aria!PrecedesInBatch(t, u)
        \/ t \in FellBack /\ u \in FellBack /\ Tid[t] < Tid[u]

AriaFBLeftBy(v, k, ts) ==
  LET writers == {t \in ts : k \in prog[t].writes}
  IN  IF writers = {} THEN v = NoTxn
      ELSE v \in writers /\ \A t \in writers : t = v \/ AriaFBPrecedes(t, v)

Before(t) == {u \in Committed \cup FellBack : AriaFBPrecedes(u, t)}

SerialExecution ==
  /\ \A t \in Committed : \A k \in prog[t].reads : AriaFBLeftBy(seen[t][k], k, Before(t))
  /\ \A t \in FellBack, n \in Nodes : ran[n][t] > 0 =>
       \A k \in prog[t].reads : AriaFBLeftBy(input[n][t][k], k, Before(t))
  /\ phase \in {"READ", "DONE"} =>
       \A k \in Keys : AriaFBLeftBy(db[k], k, Committed \cup FellBack)

\* AriaFB is serializable: the fallback works on what Aria has committed, and
\* in the order of the ids, whatever node a transaction has been run on
\* before; but for the late messages of Aria, which now meet the fallback.
SerializableUnlessLate ==
  lateReserve \/ lateWrite \/ ~Assumed \/ SerialExecution

\* No transaction is dropped: what Aria has aborted on one node is executed by
\* the fallback on every node that writes for it, once, and the nodes agree
\* about what that is; nothing is executed that Aria has committed.
NobodyDropped ==
  /\ TypeOK
  /\ phase \in {"PREPARE", "FALLBACK"} =>
       \A n \in Nodes : abortLock[n] = FellBack \cap Current
  /\ \A t \in Txns, n \in Nodes : t \notin FellBack => ran[n][t] = 0
  /\ phase \in {"READ", "DONE"} =>
       \A t \in FellBack : \A n \in Active(t) :
         ran[n][t] = 1 \/ (ran[n][t] > 1 /\ Split(t, n))

\* The lock bits are those of the holders.  No row of the schedule keeps a
\* reservation, whose epoch would be taken for locks from 2^14 on, unless one
\* came late; and when the fallback is over no word keeps a lock bit, which the
\* next batch would take for a later epoch, nor is a READ on its way.
AriaFBLocksExact ==
  /\ RowLocksExact
  /\ phase = "FALLBACK" =>
       lateReserve \/ \A n \in Nodes : \A t \in todo[n] : \A k \in RowsAt(t, n) :
                        word[k] = Aria!ZeroWord
  /\ phase # "FALLBACK" /\ Assumed =>
       /\ Unlocked(Keys)
       /\ \A c \in Lanes : reads[c] = <<>>

\* Every batch comes to its end, unless a late reservation has stopped a node.
AriaFBFinishes == <>(phase = "DONE" \/ lateReserve \/ ~Assumed)
=============================================================================
