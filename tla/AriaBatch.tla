------------------------------ MODULE AriaBatch ------------------------------
(***************************************************************************)
(* The batches of Aria: the READ phase, in which a worker executes its     *)
(* transactions and then reserves what they access, and the COMMIT phase,  *)
(* in which it analyzes and then commits or aborts them                    *)
(* (protocol/Aria/AriaExecutor.h, AriaMessage.h, Aria.h).                  *)
(*                                                                         *)
(* Aria differs from the micro-blocks of ProdccBlock where it is hard: the *)
(* writes to remote rows are not acknowledged either, and no CLEANUP comes *)
(* between two batches, only a new epoch.                                  *)
(***************************************************************************)
EXTENDS Integers, FiniteSets, SequencesExt, Reservation

CONSTANTS
  Nodes,        \* the coordinators of the cluster
  Keys,         \* the rows
  Owner,        \* the node that has the master partition of a row
  Txns,         \* the transactions of all batches
  Tid,          \* the id of a transaction: slot * coordinator_num + node + 1
  Home,         \* the node that runs a transaction
  Workers,      \* the workers of a node
  WorkerOf,     \* the worker that runs a transaction
  NBatches,     \* how many batches the run has; the epoch is the batch
  BatchOf,      \* the batch of a transaction
  Programs,     \* the accesses a transaction may make
  ReadOnlyOptimization, ReorderingOptimization, SnapshotIsolation,
  NoTxn         \* the writer of a row nobody has written

Program == [reads : SUBSET Keys, writes : SUBSET Keys, rollback : BOOLEAN]

Channels == {c \in Nodes \X Nodes \X Workers : c[1] # c[2]}

ASSUME TopologyAssumption ==
  /\ IsFiniteSet(Keys)
  /\ Owner \in [Keys -> Nodes]
  /\ Home \in [Txns -> Nodes]
  /\ WorkerOf \in [Txns -> Workers]
ASSUME BatchAssumption ==
  NBatches \in Nat \ {0} /\ BatchOf \in [Txns -> 1..NBatches]
ASSUME TidAssumption ==
  /\ Tid \in [Txns -> Nat \ {0}]
  /\ \A t, u \in Txns : BatchOf[t] = BatchOf[u] /\ Tid[t] = Tid[u] => t = u
ASSUME ProgramAssumption == Programs \subseteq Program
ASSUME OptionAssumption ==
  /\ ReadOnlyOptimization \in BOOLEAN
  /\ ReorderingOptimization \in BOOLEAN
  /\ SnapshotIsolation \in BOOLEAN
ASSUME NoTxnAssumption == NoTxn \notin Txns

VARIABLES
  batch,       \* the number of the batch, which is the epoch of the nodes
  phase,       \* READ, COMMIT, or DONE after the last batch
  prog,        \* what each transaction accesses, fixed when it is generated
  step,        \* how far its worker has come with it in the batch
  seen,        \* the value (here: the writer) a transaction read of each row
  pend,        \* pendingResponses: the requests that wait for their answer
  flags,       \* raw, war, waw
  outcome,     \* abort_no_retry, the aborts and the commits
  word,        \* the metadata word of each row
  db,          \* the value (here: the writer) of each row
  chan,        \* the messages from worker w of n to worker w of m, in order
  lateReserve, \* history: did a reservation outlive its READ phase?
  lateWrite    \* history: did a write outlive its COMMIT phase?

vars == <<batch, phase, prog, step, seen, pend, flags, outcome, word, db, chan,
          lateReserve, lateWrite>>

late == <<lateReserve, lateWrite>>
-----------------------------------------------------------------------------
Reads(t)  == prog[t].reads
Writes(t) == prog[t].writes
IsReadOnly(t) == Writes(t) = {}

Local(t, keys)  == {k \in keys : Owner[k] = Home[t]}
Remote(t, keys) == {k \in keys : Owner[k] # Home[t]}

Current == {t \in Txns : BatchOf[t] = batch}

\* The four loops of a worker, two in each phase, over its transactions.
Generated == 0
Executed  == 1
Reserved  == 2
Analyzed  == 3
Decided   == 4

\* A worker takes its transactions in the order of their slots, and all of
\* them through a loop before it begins the next one.
Turn(t, from) ==
  /\ t \in Current
  /\ step[t] = from
  /\ \A u \in Current : Home[u] = Home[t] /\ WorkerOf[u] = WorkerOf[t] =>
       step[u] >= from /\ (Tid[u] < Tid[t] => step[u] > from)

Advance(t, to) == step' = [step EXCEPT ![t] = to]

\* A message is a request for one row of one transaction, or its answer, with
\* the value a search and the conflicts a check has found.
Flags == {"raw", "war", "waw"}

Types == {"SEARCH", "RESERVE", "CHECK", "WRITE"}

Message == [type : Types, answer : BOOLEAN, txn : Txns, key : Keys,
            write : BOOLEAN, val : Txns \cup {NoTxn}, found : SUBSET Flags]

Id(m) == <<m.type, m.key, m.write>>

Requests(type, t, keys, write) ==
  {[type |-> type, answer |-> FALSE, txn |-> t, key |-> k, write |-> write,
    val |-> NoTxn, found |-> {}] : k \in keys}

\* flush_messages: a request goes to the worker of the same number on the
\* node that owns the row.
Route(m) == <<Home[m.txn], Owner[m.key], WorkerOf[m.txn]>>

Send(msgs) ==
  chan' = [c \in Channels |-> chan[c] \o SetToSeq({m \in msgs : Route(m) = c})]

\* A request whose answer is counted: only a search and a check are.
Ask(t, msgs) ==
  /\ Send(msgs)
  /\ pend' = [pend EXCEPT ![t] = @ \cup {Id(m) : m \in msgs}]
-----------------------------------------------------------------------------
TypeOK ==
  /\ batch \in 1..NBatches
  /\ phase \in {"READ", "COMMIT", "DONE"}
  /\ prog \in [Txns -> Programs]
  /\ step \in [Txns -> Generated..Decided]
  /\ seen \in [Txns -> [Keys -> Txns \cup {NoTxn}]]
  /\ pend \in [Txns -> SUBSET (Types \X Keys \X BOOLEAN)]
  /\ flags \in [Txns -> SUBSET Flags]
  /\ outcome \in [Txns -> {"none", "no_retry", "aborted", "committed"}]
  /\ word \in [Keys -> Word]
  /\ db \in [Keys -> Txns \cup {NoTxn}]
  /\ chan \in [Channels -> Seq(Message)]
  /\ lateReserve \in BOOLEAN /\ lateWrite \in BOOLEAN

Init ==
  /\ batch = 1
  /\ phase = "READ"
  /\ prog \in [Txns -> Programs]
  /\ step = [t \in Txns |-> Generated]
  /\ seen = [t \in Txns |-> [k \in Keys |-> NoTxn]]
  /\ pend = [t \in Txns |-> {}]
  /\ flags = [t \in Txns |-> {}]
  /\ outcome = [t \in Txns |-> "none"]
  /\ word = [k \in Keys |-> ZeroWord]
  /\ db = [k \in Keys |-> NoTxn]
  /\ chan = [c \in Channels |-> <<>>]
  /\ lateReserve = FALSE /\ lateWrite = FALSE
-----------------------------------------------------------------------------
\* The first loop of read_snapshot, one transaction: one that rolls back has
\* asked for nothing and takes no further part in the batch.
Rollback(t) ==
  /\ phase = "READ" /\ Turn(t, Generated)
  /\ prog[t].rollback
  /\ outcome' = [outcome EXCEPT ![t] = "no_retry"]
  /\ Advance(t, Decided)
  /\ UNCHANGED <<batch, phase, prog, seen, pend, flags, word, db, chan, late>>

\* Local rows are read at once, the others are asked for.
Execute(t) ==
  /\ phase = "READ" /\ Turn(t, Generated)
  /\ ~prog[t].rollback
  /\ seen' = [seen EXCEPT ![t] = [k \in Keys |-> IF k \in Local(t, Reads(t))
                                                 THEN db[k] ELSE @[k]]]
  /\ Ask(t, Requests("SEARCH", t, Remote(t, Reads(t)), FALSE))
  /\ Advance(t, Executed)
  /\ UNCHANGED <<batch, phase, prog, flags, outcome, word, db, late>>

Unreserved(t) == ReadOnlyOptimization /\ IsReadOnly(t)

\* reserve_transaction on a row of its own node.
ReservedWord(t, k) ==
  LET r == IF k \in Local(t, Reads(t)) THEN ReserveRead(word[k], batch, Tid[t])
                                       ELSE word[k]
  IN  IF k \in Local(t, Writes(t)) THEN ReserveWrite(r, batch, Tid[t]) ELSE r

Reservations(t) ==
  Requests("RESERVE", t, Remote(t, Reads(t)), FALSE) \cup
  Requests("RESERVE", t, Remote(t, Writes(t)), TRUE)

\* Faulty: the worker does not wait for the values it has asked for.
ReserveAtOnce(t) ==
  /\ phase = "READ" /\ Turn(t, Executed)
  /\ IF Unreserved(t)
       THEN UNCHANGED <<word, chan>>
       ELSE /\ word' = [k \in Keys |-> ReservedWord(t, k)]
            /\ Send(Reservations(t))
  /\ Advance(t, Reserved)
  /\ UNCHANGED <<batch, phase, prog, seen, pend, flags, outcome, db, late>>

\* The second loop of read_snapshot, one transaction: reservations of remote
\* rows are sent and never answered.
Reserve(t) ==
  /\ phase = "READ" /\ Turn(t, Executed)
  /\ pend[t] = {}
  /\ IF Unreserved(t)
       THEN UNCHANGED <<word, chan>>
       ELSE /\ word' = [k \in Keys |-> ReservedWord(t, k)]
            /\ Send(Reservations(t))
  /\ Advance(t, Reserved)
  /\ UNCHANGED <<batch, phase, prog, seen, pend, flags, outcome, db, late>>

LocalFlags(t) ==
  UNION ({ReadFlags(word[k], batch, Tid[t]) : k \in Local(t, Reads(t))} \cup
         {WriteFlags(word[k], batch, Tid[t]) : k \in Local(t, Writes(t))})

\* The first loop of commit_transactions and analyze_dependency, one
\* transaction.  The loop over the read set breaks at the first local row
\* with a smaller writer: the remote reads behind it are not checked.
Analyze(t) ==
  /\ phase = "COMMIT" /\ Turn(t, Reserved)
  /\ IF Unreserved(t)
       THEN UNCHANGED <<flags, chan, pend>>
       ELSE \E asked \in SUBSET Remote(t, Reads(t)) :
              /\ "raw" \notin LocalFlags(t) => asked = Remote(t, Reads(t))
              /\ flags' = [flags EXCEPT ![t] = @ \cup LocalFlags(t)]
              /\ Ask(t, Requests("CHECK", t, asked, FALSE) \cup
                        Requests("CHECK", t, Remote(t, Writes(t)), TRUE))
  /\ Advance(t, Analyzed)
  /\ UNCHANGED <<batch, phase, prog, seen, outcome, word, db, late>>

\* The decision in the second loop of commit_transactions.
MayCommit(t) ==
  \/ Unreserved(t)
  \/ /\ "waw" \notin flags[t]
     /\ \/ SnapshotIsolation
        \/ "raw" \notin flags[t]
        \/ ReorderingOptimization /\ "war" \notin flags[t]

\* Faulty: the decision does not wait for the answers.
CommitAtOnce(t) ==
  /\ phase = "COMMIT" /\ Turn(t, Analyzed)
  /\ MayCommit(t)
  /\ outcome' = [outcome EXCEPT ![t] = "committed"]
  /\ db' = [k \in Keys |-> IF k \in Local(t, Writes(t)) THEN t ELSE db[k]]
  /\ Send(Requests("WRITE", t, Remote(t, Writes(t)), TRUE))
  /\ Advance(t, Decided)
  /\ UNCHANGED <<batch, phase, prog, seen, pend, flags, word, late>>

\* Aria::commit: local rows are written, for the others a request is sent
\* that nobody answers.
Commit(t) ==
  /\ phase = "COMMIT" /\ Turn(t, Analyzed)
  /\ pend[t] = {}
  /\ MayCommit(t)
  /\ outcome' = [outcome EXCEPT ![t] = "committed"]
  /\ db' = [k \in Keys |-> IF k \in Local(t, Writes(t)) THEN t ELSE db[k]]
  /\ Send(Requests("WRITE", t, Remote(t, Writes(t)), TRUE))
  /\ Advance(t, Decided)
  /\ UNCHANGED <<batch, phase, prog, seen, pend, flags, word, late>>

\* Aria::abort does nothing; abort_lock stays false.
Abort(t) ==
  /\ phase = "COMMIT" /\ Turn(t, Analyzed)
  /\ pend[t] = {}
  /\ ~MayCommit(t)
  /\ outcome' = [outcome EXCEPT ![t] = "aborted"]
  /\ Advance(t, Decided)
  /\ UNCHANGED <<batch, phase, prog, seen, pend, flags, word, db, chan, late>>
-----------------------------------------------------------------------------
\* process_request: a waiting worker takes the head of its queue; a handler
\* that answers does so on the way back to the worker that asked.
Back(c) == <<c[2], c[1], c[3]>>

Take(c, type, answer) ==
  chan[c] # <<>> /\ Head(chan[c]).type = type /\ Head(chan[c]).answer = answer

Drop(c) == chan' = [chan EXCEPT ![c] = Tail(@)]

Reply(c, m, val, found) ==
  chan' = [chan EXCEPT ![c] = Tail(@),
                       ![Back(c)] = Append(@, [m EXCEPT !.answer = TRUE,
                                                        !.val = val,
                                                        !.found = found])]

Answered(m) == pend' = [pend EXCEPT ![m.txn] = @ \ {Id(m)}]

SearchRequest(c) ==
  /\ Take(c, "SEARCH", FALSE)
  /\ LET m == Head(chan[c]) IN Reply(c, m, db[m.key], {})
  /\ UNCHANGED <<batch, phase, prog, step, seen, pend, flags, outcome, word, db,
                 late>>

SearchResponse(c) ==
  /\ Take(c, "SEARCH", TRUE)
  /\ LET m == Head(chan[c])
     IN  /\ seen' = [seen EXCEPT ![m.txn][m.key] = m.val]
         /\ Answered(m)
  /\ Drop(c)
  /\ UNCHANGED <<batch, phase, prog, step, flags, outcome, word, db, late>>

\* A request carries the epoch of its transaction, not the current one.
ReserveRequest(c) ==
  /\ Take(c, "RESERVE", FALSE)
  /\ LET m == Head(chan[c])
         e == BatchOf[m.txn]
     IN  /\ e >= word[m.key].epoch
         /\ word' = [word EXCEPT ![m.key] =
                       IF m.write THEN ReserveWrite(@, e, Tid[m.txn])
                                  ELSE ReserveRead(@, e, Tid[m.txn])]
  /\ Drop(c)
  /\ UNCHANGED <<batch, phase, prog, step, seen, pend, flags, outcome, db, late>>

\* Faulty: a check that finds nothing is not answered.
CheckRequestSilent(c) ==
  /\ Take(c, "CHECK", FALSE)
  /\ LET m == Head(chan[c])
         found == IF m.write
                    THEN WriteFlags(word[m.key], BatchOf[m.txn], Tid[m.txn])
                    ELSE ReadFlags(word[m.key], BatchOf[m.txn], Tid[m.txn])
     IN  IF found = {} THEN Drop(c) ELSE Reply(c, m, NoTxn, found)
  /\ UNCHANGED <<batch, phase, prog, step, seen, pend, flags, outcome, word, db,
                 late>>

CheckRequest(c) ==
  /\ Take(c, "CHECK", FALSE)
  /\ LET m == Head(chan[c])
     IN  Reply(c, m, NoTxn,
               IF m.write
                 THEN WriteFlags(word[m.key], BatchOf[m.txn], Tid[m.txn])
                 ELSE ReadFlags(word[m.key], BatchOf[m.txn], Tid[m.txn]))
  /\ UNCHANGED <<batch, phase, prog, step, seen, pend, flags, outcome, word, db,
                 late>>

\* Faulty: the answer for a read takes the flags of a write away.
CheckResponseOverwrites(c) ==
  /\ Take(c, "CHECK", TRUE)
  /\ LET m == Head(chan[c])
     IN  /\ flags' = [flags EXCEPT ![m.txn] = m.found]
         /\ Answered(m)
  /\ Drop(c)
  /\ UNCHANGED <<batch, phase, prog, step, seen, outcome, word, db, late>>

CheckResponse(c) ==
  /\ Take(c, "CHECK", TRUE)
  /\ LET m == Head(chan[c])
     IN  /\ flags' = [flags EXCEPT ![m.txn] = @ \cup m.found]
         /\ Answered(m)
  /\ Drop(c)
  /\ UNCHANGED <<batch, phase, prog, step, seen, outcome, word, db, late>>

WriteRequest(c) ==
  /\ Take(c, "WRITE", FALSE)
  /\ db' = [db EXCEPT ![Head(chan[c]).key] = Head(chan[c]).txn]
  /\ Drop(c)
  /\ UNCHANGED <<batch, phase, prog, step, seen, pend, flags, outcome, word, late>>
-----------------------------------------------------------------------------
\* The barrier at the end of a phase waits for the workers, not for messages.
InFlight(type) ==
  \E c \in Channels : \E i \in DOMAIN chan[c] : chan[c][i].type = type

EndRead ==
  /\ phase = "READ"
  /\ \A t \in Current : step[t] >= Reserved
  /\ phase' = "COMMIT"
  /\ lateReserve' = (lateReserve \/ InFlight("RESERVE"))
  /\ UNCHANGED <<batch, prog, step, seen, pend, flags, outcome, word, db, chan,
                 lateWrite>>

\* The manager's loop: the next batch has a new epoch and new transactions.
EndBatch ==
  /\ phase = "COMMIT"
  /\ \A t \in Current : step[t] = Decided
  /\ IF batch < NBatches
       THEN batch' = batch + 1 /\ phase' = "READ"
       ELSE batch' = batch /\ phase' = "DONE"
  /\ lateWrite' = (lateWrite \/ InFlight("WRITE"))
  /\ UNCHANGED <<prog, step, seen, pend, flags, outcome, word, db, chan,
                 lateReserve>>

Work(t) ==
  \/ Rollback(t) \/ Execute(t) \/ Reserve(t)
  \/ Analyze(t) \/ Commit(t) \/ Abort(t)

Process(c) ==
  \/ SearchRequest(c) \/ SearchResponse(c) \/ ReserveRequest(c)
  \/ CheckRequest(c) \/ CheckResponse(c) \/ WriteRequest(c)

Next ==
  \/ \E t \in Txns : Work(t)
  \/ \E c \in Channels : Process(c)
  \/ EndRead
  \/ EndBatch

Spec == Init /\ [][Next]_vars

\* Workers, managers and dispatchers are threads that poll for ever, and
\* every step brings the batch closer to its end.
FairSpec == Spec /\ WF_vars(Next)
-----------------------------------------------------------------------------
Committed == {t \in Txns : outcome[t] = "committed"}

\* The order of Aria: batch by batch, in a batch first what was not reserved,
\* then what read a row that a smaller id writes, by decreasing id, then the
\* others by increasing id.
Rank(t) == IF "raw" \in flags[t] THEN 0 - Tid[t] ELSE Tid[t]

PrecedesInBatch(t, u) ==
  \/ Unreserved(t) /\ ~Unreserved(u)
  \/ (Unreserved(t) <=> Unreserved(u)) /\ Rank(t) < Rank(u)

Precedes(t, u) ==
  \/ BatchOf[t] < BatchOf[u]
  \/ BatchOf[t] = BatchOf[u] /\ PrecedesInBatch(t, u)

\* v is what the last of the writers of k among ts has left.
LeftBy(v, k, ts) ==
  LET writers == {t \in ts : k \in Writes(t)}
  IN  IF writers = {} THEN v = NoTxn
      ELSE v \in writers /\ \A t \in writers : t = v \/ Precedes(t, v)

\* Serializability: what the commits have read, and what the store holds once
\* the writes have arrived, is what executing them one after the other gives.
SerialExecution ==
  /\ \A t \in Committed : \A k \in Reads(t) :
       LeftBy(seen[t][k], k, {u \in Committed : Precedes(u, t)})
  /\ phase # "COMMIT" /\ ~InFlight("WRITE") =>
       \A k \in Keys : LeftBy(db[k], k, Committed)

\* The executors give it as long as the messages keep up with the barrier.
SerializableUnlessLate ==
  lateReserve \/ lateWrite \/ SnapshotIsolation \/ SerialExecution

\* A batch reads one snapshot: what its transactions have seen when they
\* reserve is what the batches before have left.
SnapshotReads ==
  phase = "READ" /\ ~lateWrite =>
    \A t \in Current : step[t] = Reserved =>
      \A k \in Reads(t) : seen[t][k] = db[k]

\* The assertions of the handlers of checks hold.  check_request_handler
\* expects that the word it looks at carries the epoch of the transaction,
\* whose reservation precedes its check.
CheckFindsEpoch ==
  \A c \in Channels : chan[c] # <<>> =>
    LET m == Head(chan[c])
    IN  m.type = "CHECK" /\ ~m.answer => word[m.key].epoch = BatchOf[m.txn]

\* check_response_handler expects the transaction that has asked: when one is
\* decided no answer is left for the one that takes its slot in the next batch.
NoStrayAnswer ==
  \A c \in Channels : \A i \in DOMAIN chan[c] :
    chan[c][i].type \in {"SEARCH", "CHECK"} => chan[c][i].txn \in Current

HandlerAssertions == TypeOK /\ CheckFindsEpoch /\ NoStrayAnswer

\* No worker waits for ever: every answer that is counted arrives, unless a
\* reservation has stopped the node by an assertion.
BatchesFinish == <>(phase = "DONE" \/ lateReserve)

\* reserve_read and reserve_write assert that a reservation never meets the
\* word of a later batch.
ReservationsInTime ==
  \A c \in Channels : chan[c] # <<>> =>
    LET m == Head(chan[c])
    IN  m.type = "RESERVE" => BatchOf[m.txn] >= word[m.key].epoch
=============================================================================
