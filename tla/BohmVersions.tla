---------------------------- MODULE BohmVersions ----------------------------
(***************************************************************************)
(* The batches of Bohm: every row keeps a list of versions, newest first.  *)
(* The workers insert an empty version (a placeholder) for every write of  *)
(* the batch, then run the transactions, each reading the version before   *)
(* its own and retrying while that one is not written, and then collect    *)
(* all versions but the newest                                             *)
(* (protocol/Bohm, MVCCTable in core/Table.h, common/MVCCHashMap.h).       *)
(*                                                                         *)
(* Only reads are acknowledged: a write to a row of another node is sent   *)
(* and forgotten, as in Aria.                                              *)
(***************************************************************************)
EXTENDS Integers, FiniteSets, SequencesExt

CONSTANTS
  Nodes,        \* the coordinators of the cluster
  Keys,         \* the rows
  Owner,        \* the node that has the master partition of a row
  InserterOf,   \* the worker of that node that inserts versions of the row
  NWorkers,     \* the workers of a node are 0..NWorkers - 1
  BatchSize,    \* the slots of the manager's transactions
  RunBy,        \* the node and the worker that run the transaction of a slot
  NBatches,     \* how many batches the run has
  Workloads     \* what the transactions of the batches may access

Program == [reads : SUBSET Keys, writes : SUBSET Keys, rollback : BOOLEAN]

Workers == 0..NWorkers - 1
Slots   == 0..BatchSize - 1

\* get_tid: the epoch above the slot, so that ids grow from batch to batch.
\* Version 0 of a row is the one it is loaded with.
Txns       == BatchSize..(NBatches + 1) * BatchSize - 1
SlotOf(t)  == t % BatchSize
BatchOf(t) == t \div BatchSize

Channels == {c \in Nodes \X Nodes \X Workers : c[1] # c[2]}

ASSUME SizeAssumption ==
  NWorkers \in Nat \ {0} /\ BatchSize \in Nat \ {0} /\ NBatches \in Nat \ {0}
ASSUME PlacementAssumption ==
  /\ Owner \in [Keys -> Nodes]
  /\ InserterOf \in [Keys -> Workers]
  /\ RunBy \in [Slots -> Nodes \X Workers]
ASSUME FinitenessAssumption == IsFiniteSet(Keys)
ASSUME WorkloadAssumption == Workloads \subseteq [Txns -> Program]

VARIABLES
  sameBatch,  \* the flag same_batch: every batch has the transactions of the first
  prog,       \* what each transaction accesses
  batch,      \* the epoch
  phase,      \* Analysis, Insert, Execute, GC, or DONE after the last batch
  finished,   \* the workers that have completed the phase
  store,      \* the versions of each row, the newest first
  status,     \* how far a transaction has come
  need,       \* the rows whose read_request_bit is set
  pend,       \* the reads that wait for their answer
  notReady,   \* abort_read_not_ready
  seen,       \* the value (here: its writer) a transaction holds of each row
  left,       \* the local writes that a commit still has to do
  chan,       \* the messages from worker w of n to worker w of m, in order
  torn        \* history: has a reader met a version marked before it is copied?

vars == <<sameBatch, prog, batch, phase, finished, store, status, need, pend,
          notReady, seen, left, chan, torn>>

config == <<sameBatch, prog>>
-----------------------------------------------------------------------------
Reads(t)  == prog[t].reads
Writes(t) == prog[t].writes

HomeOf(t)   == RunBy[SlotOf(t)][1]
WorkerOf(t) == RunBy[SlotOf(t)][2]

Local(t, keys)  == {k \in keys : Owner[k] = HomeOf(t)}
Remote(t, keys) == {k \in keys : Owner[k] # HomeOf(t)}

Current   == {t \in Txns : BatchOf(t) = batch}
Scheduled == {t \in Current : ~prog[t].rollback}

\* A value is the transaction that has computed it, 0 the one of the loader;
\* a fresh version holds whatever its transaction had in its storage.
Unwritten == 0 - 1
Values    == Txns \cup {0, Unwritten}

\* The placeholder word of a version is its number until it is written.
Version == [ver : Txns \cup {0}, word : Txns \cup {0}, val : Values]
Ready(v) == v.word = 0

Loaded == [ver |-> 0, word |-> 0, val |-> 0]

\* get_key_version and get_key_version_prev walk the list from its head.
Has(versions, ver)  == \E i \in DOMAIN versions : versions[i].ver = ver
Find(versions, ver) == versions[SelectInSeq(versions, LAMBDA v : v.ver = ver)]
Prev(versions, ver) == versions[SelectInSeq(versions, LAMBDA v : v.ver < ver)]

SetVersion(versions, ver, word, val) ==
  [i \in DOMAIN versions |->
     IF versions[i].ver = ver THEN [ver |-> ver, word |-> word, val |-> val]
                              ELSE versions[i]]

Message == [type : {"READ", "WRITE"}, answer : BOOLEAN, txn : Txns, key : Keys,
            ok : BOOLEAN, val : Values]

Requests(type, t, keys) ==
  {[type |-> type, answer |-> FALSE, txn |-> t, key |-> k, ok |-> FALSE,
    val |-> t] : k \in keys}

\* A request goes to the worker of the same number on the node of the row.
Route(m) == <<HomeOf(m.txn), Owner[m.key], WorkerOf(m.txn)>>

Send(msgs) ==
  chan' = [c \in Channels |-> chan[c] \o SetToSeq({m \in msgs : Route(m) = c})]
-----------------------------------------------------------------------------
TypeOK ==
  /\ sameBatch \in BOOLEAN /\ prog \in Workloads
  /\ batch \in 1..NBatches
  /\ phase \in {"Analysis", "Insert", "Execute", "GC", "DONE"}
  /\ finished \subseteq Nodes \X Workers
  /\ store \in [Keys -> Seq(Version)]
  /\ status \in [Txns -> {"new", "waiting", "committing", "done"}]
  /\ need \in [Txns -> SUBSET Keys]
  /\ pend \in [Txns -> SUBSET Keys]
  /\ notReady \in [Txns -> BOOLEAN]
  /\ seen \in [Txns -> [Keys -> Values]]
  /\ left \in [Txns -> SUBSET Keys]
  /\ chan \in [Channels -> Seq(Message)]
  /\ torn \in BOOLEAN

Init ==
  /\ sameBatch \in BOOLEAN
  /\ prog \in Workloads
  /\ sameBatch =>
       \A t, u \in Txns : SlotOf(t) = SlotOf(u) => prog[t] = prog[u]
  /\ batch = 1
  /\ phase = "Analysis"
  /\ finished = {}
  /\ store = [k \in Keys |-> <<Loaded>>]
  /\ status = [t \in Txns |-> "new"]
  /\ need = [t \in Txns |-> Reads(t)]
  /\ pend = [t \in Txns |-> {}]
  /\ notReady = [t \in Txns |-> FALSE]
  /\ seen = [t \in Txns |-> [k \in Keys |-> 0]]
  /\ left = [t \in Txns |-> {}]
  /\ chan = [c \in Channels |-> <<>>]
  /\ torn = FALSE
-----------------------------------------------------------------------------
\* generate_transactions: every node prepares the same batch.  The soft reset
\* of same_batch clears the execution bits, not the read_request_bits: a slot
\* keeps what it needs and what it has seen.
Analyze ==
  /\ phase = "Analysis"
  /\ IF sameBatch /\ batch > 1
       THEN /\ need' = [t \in Txns |-> IF t \in Current
                                         THEN need[t - BatchSize] ELSE need[t]]
            /\ seen' = [t \in Txns |-> IF t \in Current
                                         THEN seen[t - BatchSize] ELSE seen[t]]
       ELSE UNCHANGED <<need, seen>>
  /\ phase' = "Insert"
  /\ UNCHANGED <<config, batch, finished, store, status, pend, notReady, left,
                 chan, torn>>

\* The empty versions of the writers in S, the newest first.
EmptyVersions(S) ==
  LET order == CHOOSE f \in [1..Cardinality(S) -> S] :
                 \A i, j \in DOMAIN f : i < j => f[i] > f[j]
  IN  [i \in DOMAIN order |->
         [ver |-> order[i], word |-> order[i], val |-> Unwritten]]

\* Faulty: also for the transactions that roll back.
PlaceholdersOfAll(k) == EmptyVersions({t \in Current : k \in Writes(t)})

\* The versions of k in this batch, in front of the others.
Placeholders(k) == EmptyVersions({t \in Scheduled : k \in Writes(t)})

\* insert_write_sets: the worker of a partition inserts all its versions, in
\* the order of the batch; insert_key_version_holder insists on it.
InsertWriteSets(n, w) ==
  /\ phase = "Insert" /\ <<n, w>> \notin finished
  /\ store' = [k \in Keys |-> IF Owner[k] = n /\ InserterOf[k] = w
                                THEN Placeholders(k) \o store[k] ELSE store[k]]
  /\ finished' = finished \cup {<<n, w>>}
  /\ UNCHANGED <<config, batch, phase, status, need, pend, notReady, seen, left,
                 chan, torn>>

\* A worker runs its transactions one after the other.
Turn(t) ==
  /\ phase = "Execute" /\ t \in Scheduled
  /\ \A u \in Scheduled :
       u < t /\ RunBy[SlotOf(u)] = RunBy[SlotOf(t)] => status[u] = "done"

\* process_requests: what is still needed is read here or asked for.
Read(t) ==
  /\ Turn(t) /\ status[t] = "new"
  /\ LET local == Local(t, need[t])
         ready == {k \in local : Ready(Prev(store[k], t))}
     IN  /\ seen' = [seen EXCEPT ![t] = [k \in Keys |->
                       IF k \in ready THEN Prev(store[k], t).val ELSE @[k]]]
         /\ need' = [need EXCEPT ![t] = @ \ ready]
         /\ notReady' = [notReady EXCEPT ![t] = ready # local]
         /\ torn' = (torn \/ \E k \in ready : Prev(store[k], t).val = Unwritten)
  /\ pend' = [pend EXCEPT ![t] = Remote(t, need[t])]
  /\ Send(Requests("READ", t, Remote(t, need[t])))
  /\ status' = [status EXCEPT ![t] = "waiting"]
  /\ UNCHANGED <<config, batch, phase, finished, store, left>>

\* Faulty: what was not ready counts as read.
RetryForgets(t) ==
  /\ Turn(t) /\ status[t] = "waiting" /\ pend[t] = {} /\ notReady[t]
  /\ notReady' = [notReady EXCEPT ![t] = FALSE]
  /\ need' = [need EXCEPT ![t] = {}]
  /\ status' = [status EXCEPT ![t] = "new"]
  /\ UNCHANGED <<config, batch, phase, finished, store, pend, seen, left, chan, torn>>

\* Bohm::abort: the transaction starts again with what it still needs.
Retry(t) ==
  /\ Turn(t) /\ status[t] = "waiting" /\ pend[t] = {} /\ notReady[t]
  /\ notReady' = [notReady EXCEPT ![t] = FALSE]
  /\ status' = [status EXCEPT ![t] = "new"]
  /\ UNCHANGED <<config, batch, phase, finished, store, need, pend, seen, left,
                 chan, torn>>

\* Bohm::commit begins.
Execute(t) ==
  /\ Turn(t) /\ status[t] = "waiting" /\ pend[t] = {} /\ ~notReady[t]
  /\ status' = [status EXCEPT ![t] = "committing"]
  /\ left' = [left EXCEPT ![t] = Local(t, Writes(t))]
  /\ UNCHANGED <<config, batch, phase, finished, store, need, pend, notReady,
                 seen, chan, torn>>

\* MVCCTable::update in its two steps: the version is marked as ready ...
MarkWritten(t, k) ==
  /\ status[t] = "committing" /\ k \in left[t]
  /\ \A j \in left[t] : ~Ready(Find(store[j], t))
  /\ store' = [store EXCEPT ![k] = SetVersion(@, t, 0, Unwritten)]
  /\ UNCHANGED <<config, batch, phase, finished, status, need, pend, notReady,
                 seen, left, chan, torn>>

\* ... and then the value is copied; commit marks it once more.
CopyValue(t, k) ==
  /\ status[t] = "committing" /\ k \in left[t]
  /\ Ready(Find(store[k], t))
  /\ store' = [store EXCEPT ![k] = SetVersion(@, t, 0, t)]
  /\ left' = [left EXCEPT ![t] = @ \ {k}]
  /\ UNCHANGED <<config, batch, phase, finished, status, need, pend, notReady,
                 seen, chan, torn>>

\* The end of commit: the writes to other nodes are flushed.
FinishCommit(t) ==
  /\ status[t] = "committing" /\ left[t] = {}
  /\ Send(Requests("WRITE", t, Remote(t, Writes(t))))
  /\ status' = [status EXCEPT ![t] = "done"]
  /\ UNCHANGED <<config, batch, phase, finished, store, need, pend, notReady,
                 seen, left, torn>>

\* Faulty: of the transactions it has run only.
CollectOwn(n, w) ==
  /\ phase = "GC" /\ <<n, w>> \notin finished
  /\ LET written == UNION {Writes(t) : t \in
                             {u \in Current : RunBy[SlotOf(u)] = <<n, w>>}}
     IN  store' = [k \in Keys |-> IF Owner[k] = n /\ k \in written
                                    THEN <<Head(store[k])>> ELSE store[k]]
  /\ finished' = finished \cup {<<n, w>>}
  /\ UNCHANGED <<config, batch, phase, status, need, pend, notReady, seen, left,
                 chan, torn>>

\* Faulty: what is not written yet.
CollectAll(n, w) ==
  /\ phase = "GC" /\ <<n, w>> \notin finished
  /\ LET written == UNION {Writes(t) : t \in
                             {u \in Current : SlotOf(u) % NWorkers = w}}
     IN  store' = [k \in Keys |-> IF Owner[k] = n /\ k \in written
                                    THEN SelectSeq(store[k], Ready) ELSE store[k]]
  /\ finished' = finished \cup {<<n, w>>}
  /\ UNCHANGED <<config, batch, phase, status, need, pend, notReady, seen, left,
                 chan, torn>>

\* garbage_collect: of every row that its share of the batch writes, a worker
\* keeps the newest version.
GarbageCollect(n, w) ==
  /\ phase = "GC" /\ <<n, w>> \notin finished
  /\ LET written == UNION {Writes(t) : t \in
                             {u \in Current : SlotOf(u) % NWorkers = w}}
     IN  store' = [k \in Keys |-> IF Owner[k] = n /\ k \in written
                                    THEN <<Head(store[k])>> ELSE store[k]]
  /\ finished' = finished \cup {<<n, w>>}
  /\ UNCHANGED <<config, batch, phase, status, need, pend, notReady, seen, left,
                 chan, torn>>
-----------------------------------------------------------------------------
\* process_request, by a worker that is not in the middle of a commit; while
\* a batch is analyzed the workers only yield.
Polls(n, w) ==
  /\ phase # "Analysis"
  /\ \A t \in Txns : RunBy[SlotOf(t)] = <<n, w>> => status[t] # "committing"

Take(c, type, answer) ==
  /\ chan[c] # <<>> /\ Head(chan[c]).type = type /\ Head(chan[c]).answer = answer
  /\ Polls(c[2], c[3])

Back(c) == <<c[2], c[1], c[3]>>

ReadRequest(c) ==
  /\ Take(c, "READ", FALSE)
  /\ LET m == Head(chan[c])
         v == Prev(store[m.key], m.txn)
     IN  /\ chan' = [chan EXCEPT
                       ![c] = Tail(@),
                       ![Back(c)] = Append(@, [m EXCEPT !.answer = TRUE,
                                                        !.ok = Ready(v),
                                                        !.val = v.val])]
         /\ torn' = (torn \/ (Ready(v) /\ v.val = Unwritten))
  /\ UNCHANGED <<config, batch, phase, finished, store, status, need, pend,
                 notReady, seen, left>>

ReadResponse(c) ==
  /\ Take(c, "READ", TRUE)
  /\ LET m == Head(chan[c])
     IN  /\ IF m.ok
              THEN /\ seen' = [seen EXCEPT ![m.txn][m.key] = m.val]
                   /\ need' = [need EXCEPT ![m.txn] = @ \ {m.key}]
                   /\ UNCHANGED notReady
              ELSE /\ notReady' = [notReady EXCEPT ![m.txn] = TRUE]
                   /\ UNCHANGED <<seen, need>>
         /\ pend' = [pend EXCEPT ![m.txn] = @ \ {m.key}]
  /\ chan' = [chan EXCEPT ![c] = Tail(@)]
  /\ UNCHANGED <<config, batch, phase, finished, store, status, left, torn>>

\* The handler copies first and marks then; it insists that the version is
\* there and not written.
WriteRequest(c) ==
  /\ Take(c, "WRITE", FALSE)
  /\ LET m == Head(chan[c])
     IN  /\ Has(store[m.key], m.txn) /\ ~Ready(Find(store[m.key], m.txn))
         /\ store' = [store EXCEPT ![m.key] = SetVersion(@, m.txn, 0, m.txn)]
  /\ chan' = [chan EXCEPT ![c] = Tail(@)]
  /\ UNCHANGED <<config, batch, phase, finished, status, need, pend, notReady,
                 seen, left, torn>>
-----------------------------------------------------------------------------
\* The barriers of BohmManager between the phases.
EndInsert ==
  /\ phase = "Insert" /\ finished = Nodes \X Workers
  /\ phase' = "Execute" /\ finished' = {}
  /\ UNCHANGED <<config, batch, store, status, need, pend, notReady, seen, left,
                 chan, torn>>

EndExecute ==
  /\ phase = "Execute" /\ \A t \in Scheduled : status[t] = "done"
  /\ phase' = "GC"
  /\ UNCHANGED <<config, batch, finished, store, status, need, pend, notReady,
                 seen, left, chan, torn>>

EndGC ==
  /\ phase = "GC" /\ finished = Nodes \X Workers
  /\ IF batch < NBatches THEN batch' = batch + 1 /\ phase' = "Analysis"
                         ELSE batch' = batch /\ phase' = "DONE"
  /\ finished' = {}
  /\ UNCHANGED <<config, store, status, need, pend, notReady, seen, left, chan,
                 torn>>

Run(t) ==
  \/ Read(t) \/ Retry(t) \/ Execute(t) \/ FinishCommit(t)
  \/ \E k \in Keys : MarkWritten(t, k) \/ CopyValue(t, k)

Process(c) == ReadRequest(c) \/ ReadResponse(c) \/ WriteRequest(c)

Serve(n, w) == InsertWriteSets(n, w) \/ GarbageCollect(n, w)

Manage == Analyze \/ EndInsert \/ EndExecute \/ EndGC

Next ==
  \/ \E t \in Txns : Run(t)
  \/ \E c \in Channels : Process(c)
  \/ \E n \in Nodes, w \in Workers : Serve(n, w)
  \/ Manage

Spec == Init /\ [][Next]_vars

\* Every worker and every manager is a thread of its own; a worker polls its
\* queue each time it tries a transaction.
FairSpec ==
  /\ Spec
  /\ \A t \in Txns : WF_vars(Run(t))
  /\ \A c \in Channels : WF_vars(Process(c))
  /\ \A n \in Nodes, w \in Workers : WF_vars(Serve(n, w))
  /\ WF_vars(Manage)
-----------------------------------------------------------------------------
Writers(k) == {t \in Txns : k \in Writes(t) /\ ~prog[t].rollback}

\* The writer of k that comes last before ver.
WriterBefore(k, ver) ==
  CHOOSE u \in {0} \cup Writers(k) :
    /\ u < ver
    /\ \A v \in Writers(k) : v < ver => v <= u

\* Does t write k without having waited for the version before its own?
Blind(t, k) == k \notin Reads(t) \/ (sameBatch /\ BatchOf(t) > 1)

\* A batch that same_batch repeats computes with what the first one has read.
ReadAs(t) == IF sameBatch THEN BatchSize + SlotOf(t) ELSE t

\* Serializability in the order of the ids: what a transaction computes with
\* is what the last writer before it has written, and what is written of a
\* row is what its writer has computed.
SerialExecution ==
  /\ \A t \in Txns : status[t] \in {"committing", "done"} =>
       \A k \in Reads(t) : seen[t][k] = WriterBefore(k, ReadAs(t))
  /\ \A k \in Keys : \A i \in DOMAIN store[k] :
       LET v == store[k][i]
       IN  Ready(v) => \/ v.val = v.ver
                       \/ (v.val = Unwritten /\ k \in left[v.ver])

\* Bohm gives it, but for the readers that come between the two steps of
\* update.
SerializableUnlessTorn == torn \/ SerialExecution

\* A write that is on its way finds its version, not yet written, however
\* late it comes: nobody collects a version before it is written, because the
\* next writer has read it first.  Only a blind writer may overtake it.
WritesFindVersions ==
  \A c \in Channels : \A i \in DOMAIN chan[c] :
    LET m == chan[c][i]
    IN  m.type = "WRITE" =>
          \/ (Has(store[m.key], m.txn) /\ ~Ready(Find(store[m.key], m.txn)))
          \/ \E u \in Writers(m.key) : u > m.txn /\ Blind(u, m.key)

\* Between two batches a row has one version, that of its last writer, and in
\* a batch the versions are those of its writers on top of it: collection
\* neither leaks a version nor loses the one the next batch starts from.
VersionsExact ==
  /\ TypeOK
  /\ \A k \in Keys :
      LET vers == [i \in DOMAIN store[k] |-> store[k][i].ver]
      IN  /\ vers # <<>>
          /\ \A i \in 1..Len(vers) - 1 :
               vers[i + 1] = WriterBefore(k, vers[i])
          /\ phase \in {"Execute", "GC"} =>
               vers[1] = WriterBefore(k, (batch + 1) * BatchSize)
          /\ phase \in {"Insert", "Execute", "GC"} =>
               \/ vers[Len(vers)] = WriterBefore(k, batch * BatchSize)
               \/ (phase = "GC" /\ Len(vers) = 1)
          /\ phase \in {"Analysis", "DONE"} => Len(vers) = 1

\* Readers wait for writers along the order of the ids only: no batch hangs,
\* unless a blind write has lost its version.
BatchesFinish ==
  <>(phase = "DONE" \/ \E t \in Txns : \E k \in Writes(t) : Blind(t, k))

\* The word 0 of a version says that its value is ready to read.
ReadsAreWritten == \A t \in Txns : \A k \in Keys : seen[t][k] # Unwritten
=============================================================================
