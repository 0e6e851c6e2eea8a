----------------------------- MODULE ProdccBlock -----------------------------
(***************************************************************************)
(* The execution of the micro-blocks of PRDCC: the five phases EXECUTE,    *)
(* RESERVE, ANALYZE, FINALIZE and CLEANUP that every worker runs for every *)
(* micro-block (protocol/Prodcc/ProdccExecutor.h), the messages between    *)
(* the workers (ProdccMessage.h), the rows they read, reserve and write.   *)
(*                                                                         *)
(* A phase ends for all nodes at once, once every worker has finished its  *)
(* part: that is what the managers' barrier gives (module PhaseBarrier).   *)
(* The barrier does not wait for the messages the workers have sent, so    *)
(* those survive EndPhase.                                                 *)
(***************************************************************************)
EXTENDS Integers, FiniteSets, SequencesExt, Reservation

CONSTANTS
  Nodes,        \* the coordinators of the cluster
  Keys,         \* the rows
  Owner,        \* the node that has the master partition of a row
  Txns,         \* the transactions of the schedule
  Tid,          \* the id of a transaction (id * coordinator_num + node + 1)
  Home,         \* the node that runs a transaction
  Workers,      \* the workers of a node
  WorkerOf,     \* the worker that runs a transaction
  NBlocks,      \* how many micro-blocks the schedule has
  BlockOf,      \* the micro-block of a transaction
  EpochOf,      \* the epoch (macro-block) a micro-block belongs to
  Workloads,    \* what the transactions of the schedule may access
  ReadOnlyOptimization, ReorderingOptimization, SnapshotIsolation,
  NoTxn         \* the writer of a row nobody has written

Phases == {"EXECUTE", "RESERVE", "ANALYZE", "FINALIZE", "CLEANUP"}

Program == [reads : SUBSET Keys, writes : SUBSET Keys, rollback : BOOLEAN]

Channels == {c \in Nodes \X Nodes \X Workers : c[1] # c[2]}

ASSUME TopologyAssumption ==
  /\ IsFiniteSet(Keys)
  /\ Owner \in [Keys -> Nodes]
  /\ Home \in [Txns -> Nodes]
  /\ WorkerOf \in [Txns -> Workers]
ASSUME ScheduleAssumption ==
  /\ NBlocks \in Nat \ {0}
  /\ BlockOf \in [Txns -> 1..NBlocks]
  /\ EpochOf \in [1..NBlocks -> Nat \ {0}]
  /\ \A b, c \in 1..NBlocks : b < c => EpochOf[b] <= EpochOf[c]
\* Ids are unique within an epoch, and with them within a micro-block.
ASSUME TidAssumption ==
  /\ Tid \in [Txns -> Nat \ {0}]
  /\ \A t, u \in Txns : BlockOf[t] = BlockOf[u] /\ Tid[t] = Tid[u] => t = u
ASSUME WorkloadAssumption == Workloads \subseteq [Txns -> Program]
ASSUME OptionAssumption ==
  /\ ReadOnlyOptimization \in BOOLEAN
  /\ ReorderingOptimization \in BOOLEAN
  /\ SnapshotIsolation \in BOOLEAN
ASSUME NoTxnAssumption == NoTxn \notin Txns

VARIABLES
  block,     \* the index of current_micro_block, the same on every node
  phase,     \* the phase of the block, "DONE" after the last block
  prog,      \* what each transaction accesses, fixed when it is generated
  done,      \* has its worker handled the transaction in this phase?
  seen,      \* the value (here: the writer) a transaction read of each row
  pend,      \* pendingResponses: the requests that wait for their answer
  flags,     \* raw, war, waw
  outcome,   \* abort_no_retry, delay_lock and the commits
  word,      \* the metadata word of each row
  db,        \* the value (here: the writer) of each row
  chan,      \* the messages from worker w of n to worker w of m, in order
  late       \* history: did a reservation outlive its phase?

vars == <<block, phase, prog, done, seen, pend, flags, outcome, word, db, chan,
          late>>

-----------------------------------------------------------------------------
Reads(t)  == prog[t].reads
Writes(t) == prog[t].writes
IsReadOnly(t) == Writes(t) = {}

Epoch(t) == EpochOf[BlockOf[t]]

Local(t, keys)  == {k \in keys : Owner[k] = Home[t]}
Remote(t, keys) == {k \in keys : Owner[k] # Home[t]}

Current == {t \in Txns : BlockOf[t] = block}

\* The loops of RESERVE, ANALYZE and FINALIZE skip abort_no_retry.
Working == {t \in Current : phase \in {"EXECUTE", "CLEANUP"}
                              \/ outcome[t] # "no_retry"}

\* A worker takes its transactions in the order of the block, and EXECUTE
\* waits for the reads of one before the next.
Turn(t) ==
  /\ t \in Working
  /\ ~done[t]
  /\ \A u \in Working :
       Home[u] = Home[t] /\ WorkerOf[u] = WorkerOf[t] /\ Tid[u] < Tid[t]
         => done[u] /\ (phase = "EXECUTE" => pend[u] = {})

\* A message is a request for one row of one transaction, or its answer, with
\* the value a search and the conflicts a check has found.
Flags == {"raw", "war", "waw"}

Types == {"SEARCH", "RESERVE", "CHECK", "WRITE", "CLEANUP"}

Message == [type : Types, answer : BOOLEAN, txn : Txns, key : Keys,
            write : BOOLEAN, val : Txns \cup {NoTxn}, found : SUBSET Flags]

Id(m) == <<m.type, m.key, m.write>>

Requests(type, t, keys, write) ==
  {[type |-> type, answer |-> FALSE, txn |-> t, key |-> k, write |-> write,
    val |-> NoTxn, found |-> {}] : k \in keys}

Ids(msgs) == {Id(m) : m \in msgs}

\* flush_messages: a request goes to the worker of the same number on the
\* node that owns the row.
Route(m) == <<Home[m.txn], Owner[m.key], WorkerOf[m.txn]>>

Send(msgs) ==
  chan' = [c \in Channels |-> chan[c] \o SetToSeq({m \in msgs : Route(m) = c})]

\* A request whose answer is counted.
Ask(t, msgs) ==
  /\ Send(msgs)
  /\ pend' = [pend EXCEPT ![t] = @ \cup Ids(msgs)]

Mark(t) == done' = [done EXCEPT ![t] = TRUE]

-----------------------------------------------------------------------------
TypeOK ==
  /\ block \in 1..NBlocks
  /\ phase \in Phases \cup {"DONE"}
  /\ prog \in [Txns -> Program]
  /\ done \in [Txns -> BOOLEAN]
  /\ seen \in [Txns -> [Keys -> Txns \cup {NoTxn}]]
  /\ pend \in [Txns -> SUBSET (Types \X Keys \X BOOLEAN)]
  /\ flags \in [Txns -> SUBSET Flags]
  /\ outcome \in [Txns -> {"none", "no_retry", "delayed", "committed"}]
  /\ word \in [Keys -> Word]
  /\ db \in [Keys -> Txns \cup {NoTxn}]
  /\ chan \in [Channels -> Seq(Message)]
  /\ late \in BOOLEAN

Init ==
  /\ block = 1
  /\ phase = "EXECUTE"
  /\ prog \in Workloads
  /\ done = [t \in Txns |-> FALSE]
  /\ seen = [t \in Txns |-> [k \in Keys |-> NoTxn]]
  /\ pend = [t \in Txns |-> {}]
  /\ flags = [t \in Txns |-> {}]
  /\ outcome = [t \in Txns |-> "none"]
  /\ word = [k \in Keys |-> ZeroWord]
  /\ db = [k \in Keys |-> NoTxn]
  /\ chan = [c \in Channels |-> <<>>]
  /\ late = FALSE
-----------------------------------------------------------------------------
\* execute_transactions, one transaction: local rows are read at once, the
\* others are asked for.  A NewOrder with an unused item rolls back and keeps
\* the keys it has registered so far.
Rollback(t) ==
  /\ phase = "EXECUTE" /\ Turn(t)
  /\ prog[t].rollback
  /\ outcome' = [outcome EXCEPT ![t] = "no_retry"]
  /\ Mark(t)
  /\ UNCHANGED <<block, phase, prog, seen, pend, flags, word, db, chan, late>>

Execute(t) ==
  /\ phase = "EXECUTE" /\ Turn(t)
  /\ ~prog[t].rollback
  /\ seen' = [seen EXCEPT ![t] = [k \in Keys |-> IF k \in Local(t, Reads(t))
                                                 THEN db[k] ELSE @[k]]]
  /\ Ask(t, Requests("SEARCH", t, Remote(t, Reads(t)), FALSE))
  /\ Mark(t)
  /\ UNCHANGED <<block, phase, prog, flags, outcome, word, db, late>>

\* reserve_transactions, one transaction: reservations of remote rows are
\* sent and never answered.
Unreserved(t) == ReadOnlyOptimization /\ IsReadOnly(t)

Reserved(t, k, w) ==
  LET r == IF k \in Local(t, Reads(t)) THEN ReserveRead(w, Epoch(t), Tid[t])
                                       ELSE w
  IN  IF k \in Local(t, Writes(t)) THEN ReserveWrite(r, Epoch(t), Tid[t]) ELSE r

Reserve(t) ==
  /\ phase = "RESERVE" /\ Turn(t)
  /\ pend[t] = {}
  /\ IF Unreserved(t)
       THEN UNCHANGED <<word, chan>>
       ELSE /\ word' = [k \in Keys |-> Reserved(t, k, word[k])]
            /\ Send(Requests("RESERVE", t, Remote(t, Reads(t)), FALSE) \cup
                    Requests("RESERVE", t, Remote(t, Writes(t)), TRUE))
  /\ Mark(t)
  /\ UNCHANGED <<block, phase, prog, seen, pend, flags, outcome, db, late>>

\* analyze_transactions, one transaction.  The loop over the read set breaks
\* at the first local row with a smaller writer, so that the remote reads
\* behind it are not checked: any of them, for some order of the read set.
LocalFlags(t) ==
  UNION ({ReadFlags(word[k], Epoch(t), Tid[t]) : k \in Local(t, Reads(t))} \cup
         {WriteFlags(word[k], Epoch(t), Tid[t]) : k \in Local(t, Writes(t))})

\* Faulty: the break at a raw conflict leaves out the checks of the writes.
AnalyzeReturnsEarly(t) ==
  /\ phase = "ANALYZE" /\ Turn(t)
  /\ IF Unreserved(t)
       THEN UNCHANGED <<flags, chan, pend>>
       ELSE /\ flags' = [flags EXCEPT ![t] = @ \cup LocalFlags(t)]
            /\ Ask(t, IF "raw" \in LocalFlags(t) THEN {}
                      ELSE Requests("CHECK", t, Remote(t, Reads(t)), FALSE) \cup
                           Requests("CHECK", t, Remote(t, Writes(t)), TRUE))
  /\ Mark(t)
  /\ UNCHANGED <<block, phase, prog, seen, outcome, word, db, late>>

Analyze(t) ==
  /\ phase = "ANALYZE" /\ Turn(t)
  /\ IF Unreserved(t)
       THEN UNCHANGED <<flags, chan, pend>>
       ELSE \E asked \in SUBSET Remote(t, Reads(t)) :
              /\ "raw" \notin LocalFlags(t) => asked = Remote(t, Reads(t))
              /\ flags' = [flags EXCEPT ![t] = @ \cup LocalFlags(t)]
              /\ Ask(t, Requests("CHECK", t, asked, FALSE) \cup
                        Requests("CHECK", t, Remote(t, Writes(t)), TRUE))
  /\ Mark(t)
  /\ UNCHANGED <<block, phase, prog, seen, outcome, word, db, late>>

\* Faulty: reordering forgets that a transaction must not have both conflicts.
MayCommitRawAndWar(t) ==
  \/ Unreserved(t)
  \/ /\ "waw" \notin flags[t]
     /\ SnapshotIsolation \/ ReorderingOptimization \/ "raw" \notin flags[t]

\* The decision of finalize_transactions.
MayCommit(t) ==
  \/ Unreserved(t)
  \/ /\ "waw" \notin flags[t]
     /\ \/ SnapshotIsolation
        \/ "raw" \notin flags[t]
        \/ ReorderingOptimization /\ "war" \notin flags[t]

\* finalize_transactions and Prodcc::commit, one transaction: it waits for
\* the answers to its checks, then writes its rows or leaves them alone.
Commit(t) ==
  /\ phase = "FINALIZE" /\ Turn(t)
  /\ pend[t] = {}
  /\ MayCommit(t)
  /\ outcome' = [outcome EXCEPT ![t] = "committed"]
  /\ db' = [k \in Keys |-> IF k \in Local(t, Writes(t)) THEN t ELSE db[k]]
  /\ Ask(t, Requests("WRITE", t, Remote(t, Writes(t)), TRUE))
  /\ Mark(t)
  /\ UNCHANGED <<block, phase, prog, seen, flags, word, late>>

Delay(t) ==
  /\ phase = "FINALIZE" /\ Turn(t)
  /\ pend[t] = {}
  /\ ~MayCommit(t)
  /\ outcome' = [outcome EXCEPT ![t] = "delayed"]
  /\ Mark(t)
  /\ UNCHANGED <<block, phase, prog, seen, pend, flags, word, db, chan, late>>

\* Faulty: only the write set is cleaned.
CleanupWrites(t) ==
  /\ phase = "CLEANUP" /\ Turn(t)
  /\ word' = [k \in Keys |-> IF k \in Local(t, Writes(t))
                             THEN ZeroWord ELSE word[k]]
  /\ Ask(t, Requests("CLEANUP", t, Remote(t, Writes(t)), TRUE))
  /\ Mark(t)
  /\ UNCHANGED <<block, phase, prog, seen, flags, outcome, db, late>>

\* cleanup_transactions, one transaction, whatever became of it: every row
\* of its read set and of its write set gets the word 0.
Cleanup(t) ==
  /\ phase = "CLEANUP" /\ Turn(t)
  /\ word' = [k \in Keys |-> IF k \in Local(t, Reads(t) \cup Writes(t))
                             THEN ZeroWord ELSE word[k]]
  /\ Ask(t, Requests("CLEANUP", t, Remote(t, Reads(t)), FALSE) \cup
            Requests("CLEANUP", t, Remote(t, Writes(t)), TRUE))
  /\ Mark(t)
  /\ UNCHANGED <<block, phase, prog, seen, flags, outcome, db, late>>
-----------------------------------------------------------------------------
\* process_request: a waiting worker takes the head of its queue; a handler
\* that answers does so on the way back to the worker that asked.
Back(c) == <<c[2], c[1], c[3]>>

Take(c, type, answer) ==
  chan[c] # <<>> /\ Head(chan[c]).type = type /\ Head(chan[c]).answer = answer

Drop(c) == chan' = [chan EXCEPT ![c] = Tail(@)]

Reply(c, m, val, found) ==
  chan' = [chan EXCEPT ![c] = Tail(@),
                       ![Back(c)] = Append(@, [m EXCEPT !.answer = TRUE,
                                                        !.val = val,
                                                        !.found = found])]

Answered(m) == pend' = [pend EXCEPT ![m.txn] = @ \ {Id(m)}]

SearchRequest(c) ==
  /\ Take(c, "SEARCH", FALSE)
  /\ LET m == Head(chan[c]) IN Reply(c, m, db[m.key], {})
  /\ UNCHANGED <<block, phase, prog, done, seen, pend, flags, outcome, word, db,
                 late>>

SearchResponse(c) ==
  /\ Take(c, "SEARCH", TRUE)
  /\ LET m == Head(chan[c])
     IN  /\ seen' = [seen EXCEPT ![m.txn][m.key] = m.val]
         /\ Answered(m)
  /\ Drop(c)
  /\ UNCHANGED <<block, phase, prog, done, flags, outcome, word, db, late>>

ReserveRequest(c) ==
  /\ Take(c, "RESERVE", FALSE)
  /\ LET m == Head(chan[c])
     IN  word' = [word EXCEPT ![m.key] =
                    IF m.write THEN ReserveWrite(@, Epoch(m.txn), Tid[m.txn])
                               ELSE ReserveRead(@, Epoch(m.txn), Tid[m.txn])]
  /\ Drop(c)
  /\ UNCHANGED <<block, phase, prog, done, seen, pend, flags, outcome, db, late>>

CheckRequest(c) ==
  /\ Take(c, "CHECK", FALSE)
  /\ LET m == Head(chan[c])
     IN  Reply(c, m, NoTxn,
                   IF m.write
                     THEN WriteFlags(word[m.key], Epoch(m.txn), Tid[m.txn])
                     ELSE ReadFlags(word[m.key], Epoch(m.txn), Tid[m.txn]))
  /\ UNCHANGED <<block, phase, prog, done, seen, pend, flags, outcome, word, db,
                 late>>

\* Faulty: the flags are assigned, not added to.
CheckResponseOverwrites(c) ==
  /\ Take(c, "CHECK", TRUE)
  /\ LET m == Head(chan[c])
     IN  /\ flags' = [flags EXCEPT ![m.txn] = m.found]
         /\ Answered(m)
  /\ Drop(c)
  /\ UNCHANGED <<block, phase, prog, done, seen, outcome, word, db, late>>

CheckResponse(c) ==
  /\ Take(c, "CHECK", TRUE)
  /\ LET m == Head(chan[c])
     IN  /\ flags' = [flags EXCEPT ![m.txn] = @ \cup m.found]
         /\ Answered(m)
  /\ Drop(c)
  /\ UNCHANGED <<block, phase, prog, done, seen, outcome, word, db, late>>

\* Faulty: a write is not acknowledged.
WriteRequestSilent(c) ==
  /\ Take(c, "WRITE", FALSE)
  /\ db' = [db EXCEPT ![Head(chan[c]).key] = Head(chan[c]).txn]
  /\ Drop(c)
  /\ UNCHANGED <<block, phase, prog, done, seen, pend, flags, outcome, word, late>>

WriteRequest(c) ==
  /\ Take(c, "WRITE", FALSE)
  /\ LET m == Head(chan[c])
     IN  /\ db' = [db EXCEPT ![m.key] = m.txn]
         /\ Reply(c, m, NoTxn, {})
  /\ UNCHANGED <<block, phase, prog, done, seen, pend, flags, outcome, word, late>>

CleanupRequest(c) ==
  /\ Take(c, "CLEANUP", FALSE)
  /\ LET m == Head(chan[c])
     IN  /\ word' = [word EXCEPT ![m.key] = ZeroWord]
         /\ Reply(c, m, NoTxn, {})
  /\ UNCHANGED <<block, phase, prog, done, seen, pend, flags, outcome, db, late>>

\* write_response_handler and cleanup_response_handler only count.
CountResponse(c) ==
  /\ Take(c, "WRITE", TRUE) \/ Take(c, "CLEANUP", TRUE)
  /\ Answered(Head(chan[c]))
  /\ Drop(c)
  /\ UNCHANGED <<block, phase, prog, done, seen, flags, outcome, word, db, late>>
-----------------------------------------------------------------------------
\* Faulty: CLEANUP does not wait for its answers.
WaitedNotForCleanup ==
  phase \in {"EXECUTE", "RESERVE"} => \A t \in Current : pend[t] = {}

\* The barrier at the end of a phase.  EXECUTE, RESERVE and CLEANUP end with
\* a wait for the pending responses of every transaction of the block.
Waited ==
  phase \in {"EXECUTE", "RESERVE", "CLEANUP"} => \A t \in Current : pend[t] = {}

PhaseOver == \A t \in Working : done[t]

InFlight(type) ==
  \E c \in Channels : \E i \in DOMAIN chan[c] : chan[c][i].type = type

NextPhase ==
  CASE phase = "EXECUTE"  -> "RESERVE"
    [] phase = "RESERVE"  -> "ANALYZE"
    [] phase = "ANALYZE"  -> "FINALIZE"
    [] phase = "FINALIZE" -> "CLEANUP"

EndPhase ==
  /\ phase \in Phases \ {"CLEANUP"}
  /\ PhaseOver /\ Waited
  /\ phase' = NextPhase
  /\ late' = (late \/ (phase = "RESERVE" /\ InFlight("RESERVE")))
  /\ done' = [t \in Txns |-> FALSE]
  /\ UNCHANGED <<block, prog, seen, pend, flags, outcome, word, db, chan>>

\* The manager's loop over the schedule goes on to the next micro-block.
EndBlock ==
  /\ phase = "CLEANUP"
  /\ PhaseOver /\ Waited
  /\ IF block < NBlocks
       THEN block' = block + 1 /\ phase' = "EXECUTE"
       ELSE block' = block /\ phase' = "DONE"
  /\ done' = [t \in Txns |-> FALSE]
  /\ UNCHANGED <<prog, seen, pend, flags, outcome, word, db, chan, late>>

Work(t) ==
  \/ Rollback(t) \/ Execute(t) \/ Reserve(t) \/ Analyze(t)
  \/ Commit(t) \/ Delay(t) \/ Cleanup(t)

Process(c) ==
  \/ SearchRequest(c) \/ SearchResponse(c) \/ ReserveRequest(c)
  \/ CheckRequest(c) \/ CheckResponse(c) \/ WriteRequest(c)
  \/ CleanupRequest(c) \/ CountResponse(c)

Next ==
  \/ \E t \in Txns : Work(t)
  \/ \E c \in Channels : Process(c)
  \/ EndPhase
  \/ EndBlock

Spec == Init /\ [][Next]_vars

\* Workers, managers and dispatchers are threads that poll for ever, and
\* every step brings the block closer to its end.
FairSpec == Spec /\ WF_vars(Next)
-----------------------------------------------------------------------------
Committed == {t \in Txns : outcome[t] = "committed"}

\* The order in which the commits are equivalent to a serial execution:
\* block by block; in a block first the read-only transactions, then those
\* that read what a smaller id overwrites, by decreasing id, then the others,
\* by increasing id.
Rank(t) == IF "raw" \in flags[t] THEN 0 - Tid[t] ELSE Tid[t]

PrecedesInBlock(t, u) ==
  \/ Unreserved(t) /\ ~Unreserved(u)
  \/ (Unreserved(t) <=> Unreserved(u)) /\ Rank(t) < Rank(u)

Precedes(t, u) ==
  \/ BlockOf[t] < BlockOf[u]
  \/ BlockOf[t] = BlockOf[u] /\ PrecedesInBlock(t, u)

\* v is what the last of the writers of k among ts has left.
LeftBy(v, k, ts) ==
  LET writers == {t \in ts : k \in Writes(t)}
  IN  IF writers = {} THEN v = NoTxn
      ELSE v \in writers /\ \A t \in writers : t = v \/ Precedes(t, v)

\* Serializability: the committed transactions have read, and when no write
\* is under way the store holds, what executing them one after the other in
\* the order Precedes gives (the decision of finalize_transactions).
SerialExecution ==
  /\ \A t \in Committed : \A k \in Reads(t) :
       LeftBy(seen[t][k], k, {u \in Committed : Precedes(u, t)})
  /\ phase \notin {"FINALIZE", "CLEANUP"} =>
       \A k \in Keys : LeftBy(db[k], k, Committed)

SerializableUnlessLate == late \/ SnapshotIsolation \/ SerialExecution

\* No two commits of a block write the same row, which is what snapshot
\* isolation promises and what the commit order relies on.
FirstWriterWins ==
  \A t, u \in Committed :
    late \/ t = u \/ BlockOf[t] # BlockOf[u] \/ Writes(t) \cap Writes(u) = {}

\* Every transaction of a block reads the store as the previous block left
\* it: all its writes, on every node, have reached their rows by then.
SnapshotReads ==
  phase \in {"RESERVE", "ANALYZE"} =>
    \A t \in Current : outcome[t] # "no_retry" =>
      \A k \in Reads(t) : seen[t][k] = db[k]

\* A block leaves nothing behind: no reservation and no message, the late
\* ones included, since a CLEANUP follows a RESERVE on the same channel.
NothingLeftBehind ==
  (phase = "EXECUTE" /\ \A t \in Current : ~done[t]) \/ phase = "DONE" =>
    /\ word = [k \in Keys |-> ZeroWord]
    /\ \A c \in Channels : chan[c] = <<>>

\* The assertions of the code, for the rows of a transaction's own node and
\* for those of others: a reservation never meets a newer epoch
\* (reserve_read, reserve_write), and a check finds the epoch its own
\* reservation has set (analyze_dependency, check_request_handler).  A RESERVE
\* is handled at any time, so this takes more than the order of the phases:
\* none may outlive its epoch, late or not.
EpochAssertions ==
  /\ \A c \in Channels : chan[c] # <<>> =>
       LET m == Head(chan[c])
       IN  /\ m.type = "RESERVE" => word[m.key].epoch <= Epoch(m.txn)
           /\ m.type = "CHECK"   => word[m.key].epoch = Epoch(m.txn)
  /\ \A t \in Working : ~Unreserved(t) /\ ~done[t] =>
       \A k \in Local(t, Reads(t) \cup Writes(t)) :
         /\ phase = "RESERVE" => word[k].epoch <= Epoch(t)
         /\ phase = "ANALYZE" => word[k].epoch = Epoch(t)

\* No worker waits for ever: every response that is counted arrives.
ScheduleFinishes == <>(phase = "DONE")
=============================================================================
