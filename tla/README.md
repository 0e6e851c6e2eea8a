# A verification of PRDCC and the deterministic databases around it

The repository is a testbed of deterministic distributed databases written in
C++: Aria, its variants AriaFB and DOCC, Bohm, Calvin, Pwv and TwoPL behind one
framework, and PRDCC ("Prodcc" in the source), the protocol the repository was
made for. PRDCC takes the transactions of an epoch, predicts from their key
ranges which of them conflict, divides them into micro-blocks without predicted
conflicts, and runs the micro-blocks one after the other with Aria's
reservations as a safety net.

This directory holds TLA+ modules that model the code, the configurations that
check them with TLC, and proofs that TLAPS checks. A comment above each
definition names the function it models.

## 1. The system

### Threads and their state

A *node* (the code says coordinator) is a process with one **manager**, some
**workers** (executors), two **dispatchers** that move messages between the
workers' queues and the sockets, and the main thread, which prints statistics
once a second and sets `stopFlag` at the end. All of them poll. The manager of
node 0 is the *coordinator* in the narrow sense: it leads the phases.

| component | source | state | operations | interaction |
|---|---|---|---|---|
| Phase barrier | `core/Manager.h`, `protocol/Aria/AriaManager.h`, `protocol/Prodcc/ProdccManager.h` | `worker_status`, `n_started_workers`, `n_completed_workers`, queues of SIGNAL, STOP, ACK | begin a phase, wait for its workers, exchange STOP, drain, acknowledge | atomics with the workers of the node, messages with the other managers |
| PRDCC macro-blocks | `protocol/Prodcc/ProdccManager.h` | schedule, statistics of the last macro-block, cooldown, VECTOR queue | clean up the batch, decide to predict, partition, agree on the number of micro-blocks, drive them | the barrier; VECTOR messages |
| PRDCC partition | `protocol/Prodcc/ProdccManager.h` | `dependency_graph`, `txns_to_schedule_` | workers add edges under sharded locks, the manager partitions | shared memory of a node |
| PRDCC prediction | `ConflictPredictor.h`, `DataSummary.h`, `L1Filter.h`, `L2Verifier.h`, `KeyConverter.h` in `protocol/Prodcc` | a summary of the key domain, read-only after start-up | predict the conflict of two transactions | called by the partition |
| PRDCC execution | `ProdccExecutor.h`, `ProdccMessage.h`, `Prodcc.h`, `ProdccTransaction.h` in `protocol/Prodcc` | read and write sets, flags, `pendingResponses`; rows and their metadata words | EXECUTE, RESERVE, ANALYZE, FINALIZE, CLEANUP; nine message handlers | messages between workers of the same number, the rows of the node |
| Aria | `protocol/Aria` | the same word, transactions of a batch | READ and COMMIT phases | the same |
| AriaFB | `protocol/AriaFB` | Aria's, and lock queues | Aria, then a locking pass for the aborted | the same |
| DOCC | `protocol/DOCC` | as Aria on one node | READ and COMMIT | the same |
| TwoPL | `protocol/TwoPL` | lock words of rows | no-wait locks, two phases | request and answer |
| Calvin | `protocol/Calvin` | lock word, scheduler queues | analysis, deterministic locks, remote reads | lock manager threads and executors |
| Bohm | `protocol/Bohm`, `core/Table.h` | versions with placeholders | analysis, insertion, execution | readers wait for versions |
| Pwv | `protocol/Pwv` | statements and their pieces | early visible writes | executors of one node |
| Dispatchers, queues, coordinator | `core/Dispatcher.h`, `common/LockfreeQueue.h`, `core/Coordinator.h` | bounded queues, statistics | route, print, stop | every thread |
| Tables, partitioners | `core/Table.h`, `core/Partitioner.h` | rows | search, update | workers |
| Benchmarks | `benchmark/ycsb`, `benchmark/tpcc` | generators | make transactions and their key ranges | workers |
| SQL front end | `core/sql` | counters | emulates the cost of SQL | workers |
| Configuration, common library, scripts | `core/factory`, `core/Context.h`, `core/Macros.h`, `common`, `scripts` | flags | build the rest | start-up |

### What is hard about it

* **A barrier without a drain.** The managers agree that all *workers* are done,
  not that all *messages* have arrived. PRDCC counts and awaits the answers to
  SEARCH, CHECK, WRITE and CLEANUP, but RESERVE has no answer. A reservation may
  therefore outlive its phase.
* **Reservations of one epoch in several micro-blocks.** The word of a row holds
  an epoch; the micro-blocks of a macro-block share it. Only the CLEANUP phase
  separates them.
* **Independent decisions.** Each transaction commits or is delayed on its own
  three flags; serializability is a property of all of them together.
* **Agreement on signals.** Followers do not dispatch on the signal they get:
  they expect one, from their own schedule. The schedules of the nodes must have
  the same length.
* **Counting instead of naming.** STOP messages, acknowledgements, answers and
  workers are counted without a look at who sent them for which phase.
* **State that is carried over.** The dependency graph, the statistics and the
  cooldown live from one macro-block to the next.

`PROJECT.json` lists each such hazard at its line with the properties that guard
it.

### What correctness means

* *Execution*: what commits is serializable, in an order that can be named; every
  transaction of a block reads the store as the block before left it; a block
  leaves no reservation and no message; no worker waits for ever.
* *Barrier*: nobody begins a phase before everybody has finished the last.
* *Macro-blocks*: nodes are in the same micro-block whenever their workers work;
  every signal is the expected one; a regression switches prediction off for
  exactly the macro-blocks the constant says.
* *Partition*: each transaction once, no block with a predicted conflict, ids
  ascending, and none postponed without a reason.
* *Prediction*: exactly the overlaps of keys.
* *Deterministic protocols* (Bohm, Calvin, the fallback of AriaFB): the outcome of
  a batch is that of its transactions one by one in the order of their ids, or of
  the commits of Aria and then the others; nothing of a batch, no lock, version or
  message, is left for the next to stumble over; and every batch ends.

## 2. The modules

    Reservation ── ProdccBlock ── ProdccBlockInv ─┬─ MCProdccBlock
                                                  └─ ProdccBlock_proofs
    Reservation ── AriaBatch ─┬─ AriaBatchInv ─┬─ MCAriaBatch
                              │                └─ AriaBatch_proofs
                              └─ AriaFallback
    LockSchedule ─┬─ Batches ─┬─ AriaFallback ── AriaFallbackInv ─┬─ MCAriaFallback
                  │           └─ Calvin ── CalvinInv ─┬─ MCCalvin │
                  └─ LockScheduleInv (in both ...Inv) └───────────┴─ LockSchedule_proofs
    BohmVersions ── BohmVersionsInv ─┬─ MCBohmVersions
                                     └─ BohmVersions_proofs
    Rendezvous  ◂─ PhaseBarrier ── MCPhaseBarrier, PhaseBarrier_proofs   (◂─ : implements)
    MacroBlock ── MCMacroBlock, MacroBlock_proofs
    MicroBlockPartition ─┬─ MCMicroBlockPartition
    ConflictPrediction ──┼─ MCConflictPrediction
                         └─ MicroBlockPartition_proofs
    SerialStore ◂─ TwoPhaseLocking ── TwoPhaseLockingInv ─┬─ MCTwoPhaseLocking
                                                          └─ TwoPhaseLocking_proofs

A module `...Inv` states an inductive invariant that is too long for the module it
is about; TLC checks it on the same run, and `..._proofs` proves it. Four are left
out of the run for their cost: `LockingInv` of `TwoPhaseLockingInv`, `BatchInv` of
`AriaBatchInv`, `VersionInv` of `BohmVersionsInv` and `FallbackInv` of `AriaFallbackInv`. TLC has checked them on the
instances of these runs, too; add them to the INVARIANTs of the cfg to see it.

Operators whose comment begins with "Faulty:" are not part of a model. Each is
the definition below it with a plausible slip; some property rejects it when it
takes the definition's place.

### Reservation and ProdccBlock: the execution of micro-blocks

`Reservation` has the word of a row (epoch, smallest reader, smallest writer),
`ReserveRead` and `ReserveWrite` of `AriaHelper.h`, and what a check finds. The
compare-and-swap loops of the code are atomic here: a failed round changes
nothing. The epoch keeps its width (`EpochModulus`, 2^24 in the code).

`ProdccBlock` is the worker side of a schedule of `NBlocks` micro-blocks in one
or more epochs; its transactions access what one of the `Workloads` says. One
action is one transaction's turn in a phase, or one message
handled:

| action | code |
|---|---|
| `Execute`, `Rollback` | the loop body of `execute_transactions`: local reads, SEARCH requests |
| `Reserve` | `reserve_transactions`, `reserve_transaction` |
| `Analyze` | `analyze_transactions`, `analyze_dependency`, with the `break` at the first local raw conflict |
| `Commit`, `Delay` | `finalize_transactions`, `Prodcc::commit` |
| `Cleanup` | `cleanup_transactions`, `cleanup_transaction_metadata` |
| `SearchRequest` ... `CountResponse` | the handlers of `ProdccMessage.h` |
| `EndPhase`, `EndBlock` | the barrier, and the loop over the schedule |

A channel leads from worker *w* of a node to worker *w* of another and keeps its
order, as the queues, dispatchers and sockets do. `pend` is `pendingResponses`
as a set of outstanding requests; the code has its size. The value of a row is
the transaction that wrote it last, which is all serializability needs. The
worker order of `Turn` comes from the loops (`i = id; i += worker_num`) over
blocks with ascending ids, which `MicroBlockPartition` establishes. A phase ends
for all at once; `PhaseBarrier` shows that this is what the managers give.

`late` is a history variable: a RESERVE was still in flight when its phase
ended. Nothing in the code rules that out, and the runs include it. With a late
reservation two halves of a write skew may both commit. So the properties about
conflicts hold "unless late" and say so, while those about snapshots, clean-up,
assertions and termination hold in any case: a late RESERVE still precedes the
CLEANUP of its transaction on the same channel.

### AriaBatch

The batches of Aria, with the same word, channels and handlers as `ProdccBlock`,
and with what Aria does differently:

* A worker passes over its transactions twice in each phase, first to execute or
  analyze all, then to reserve or decide (`step`).
* Nothing cleans the words: the next batch has a larger epoch, and a word of an
  older one counts as empty. The epoch is the number of the batch.
* WRITE is not acknowledged either. `lateReserve` and `lateWrite` record whether a
  request of one or the other kind has outlived its phase. Properties about what
  a batch sees hold unless writes are late, those about conflicts unless
  reservations are, and those about answers always.
* `ReserveRequest` has the assertion of `AriaHelper.h` as a guard: the process
  stops there. `BatchesFinish` therefore excepts late reservations.

A read that meets a late write half-way would return a torn row; the model gives
it the old or the new one. The slots of a batch are filled with new transactions
every time: `cleanup_batch` would keep those with `abort_lock`, which Aria does
not set.

### LockSchedule and Calvin

`LockSchedule` is the scheduling of a batch by lock managers, which Calvin and
AriaFB share as two copies of one text. A manager works on the first transaction
it is not through with (`AtHand`), takes the locks of its own rows one at a time
(`Grant`, the spinning of `read_lock` and `write_lock` is the guard) and hands
the transaction to an executor (`Assign`). The executor reads its manager's rows
and sends them (`Begin`), and then on a node that updates rows waits for all reads
and commits (`Commit`), on another gives up (`Abort`). The order of the locks
within a transaction is left open, which allows more than the code does.
Executing, writing and releasing are one step: the rows written are locked, and a
release only enables others.

Two things the code does are worth knowing. A transaction whose rows on a node
belong to two lock managers is handed to two executors, and each of them runs its
logic on the one storage of the transaction (`Split`); logic that computes a
value from the one it replaces, as the `W_YTD` of TPC-C's Payment, then adds
twice. And the release of a row that is written but not read flips the lock bit
of an unlocked row (`ReleaseWrite`); the analysis says "assuming no blind write".
The properties of both modules hold of such transactions only as far as they say.

`Calvin` puts the Analysis phase in front and the barrier behind. One replica
group is modelled; groups execute the same batch without talking to each other. A
READ carries only the slot of its transaction, so a message that outlived its
batch would be counted for another; `NothingLeftBehind` shows that none does.
Preparing a transaction again and the soft reset of `same_batch` set the same
counters, so `Analyze` stands for both. `generate_transactions` has the same seed
on all nodes. A transaction without an update has no active node: it is locked,
unlocked and counted as committed, and reads nothing.

### AriaFallback

The composition of the two: `Aria == INSTANCE AriaBatch` for the phases READ and
COMMIT, `LockSchedule` for the fallback, over one store and one set of programs. It
extends the schedule, as `Calvin` does, and with it `Batches`, which has what both
have: the batch, its phase, and the transactions of the batch. What the code adds are the steps between: every node sends the
ids of its aborts to node 0, which unites and returns them (`SendAborts`,
`TakeAborts`, `Broadcast`, `TakeUnion`); each then prepares those it has rows of
(`Prepare`), running dry what it did not run in Aria and clearing the words of
the rows. `lock` and `word` are one 64-bit word in the code. The ten bits of a
lock are the top ten of the 24 a reservation has for its epoch, so a reservation
that finds a lock trips its assertion (`Unlocked`). In the other direction a
reservation left in the word would pass for locks nobody releases, once its epoch
is 2^14 or more. The model keeps the two apart and has no lock manager read an
epoch as locks; it checks and proves instead that the words of the rows in the
schedule are clear throughout the fallback (`AriaFBLocksExact`). Only a late
reservation of such an epoch is left out. Messages of Aria that are late now meet
the fallback, and `lateReserve` and `lateWrite` have the same part as in
`AriaBatch`.

AriaFB repeats its first batch for ever on several nodes; the model allows any
batch to follow.

### BohmVersions

`store` has the versions of a row, newest first, as the list in `MVCCHashMap`: a
number, the placeholder word (0 when written), and the value. Ids grow from batch
to batch. A transaction reads the version before its own; one that is not written
makes it start again with what it still needs (`Read`, `Retry`). `MarkWritten` and
`CopyValue` are the two statements of `MVCCTable::update`, so that a reader can
come between them; `torn` records it. WRITE is not acknowledged, and `WriteRequest`
has the `CHECK` of its handler as a guard. With the flag `same_batch`
every batch repeats the first; the soft reset between them leaves the
`read_request_bit`s cleared, so that a repeated batch reads nothing and computes
with what the first one has read. `ReadAs` names the reads it computes with, and
serializability of a repeated batch is stated relative to them. `bohm_single_spin` is
for one node and is not modelled.

### TwoPhaseLocking and SerialStore

`TwoPhaseLocking` has a worker's whole loop for a transaction: lock each local row
(`Lock`, one step each, in any order), ask for the others (`AskLocks`), and then
either give back what it got and start again (`Abort`, `Begin`), or take a tid,
write and replicate (`Commit`), release (`Release`) and go on (`Finish`). Each
handler of `TwoPLMessage.h` is an action; the answers that are only counted share
one. `row` is a copy of a row, at its master or at a replica: the write bit, the
number of readers, the tid, and the last writer as its value. The messages of an
abort are not acknowledged; the others are.

A worker handles messages while it waits and between transactions, not inside
`process_requests` (`Takes`). The local releases of a commit or an abort are one
step: each makes room on one row only, and a transaction that finds one row free
and another taken can also find the taken one first.

`SerialStore` is the promise: each commit reads all its rows and writes some of
them at one instant. The refinement maps the store to the masters' values, except
that a transaction which has decided to commit and is still writing counts as
having written; its write lock hides the difference from everybody else.

### PhaseBarrier and Rendezvous

`PhaseBarrier` has every store and wait of `coordinator_run_worker_phase` and
`follower_run_worker_phase` (and their unrolled forms in `AriaManager.h`) as an
action of its own, since workers read `worker_status` and the counters at any
time, and the worker's loop of `AriaExecutor::start` and
`run_micro_block_phase`. `Script` is the sequence of phases. The messages that
workers handle while they wait touch none of this; `ProdccBlock` and `AriaBatch`
let them come at any time. `Rendezvous` is the
promise: begin a phase only after all have finished the last. The refinement
maps a worker's place to the phases it has begun and finished.

### MacroBlock

The managers' loop of `ProdccManager.h` with the barrier reduced to `Enter` and
`Leave` (justified by `PhaseBarrier`), the five phases of a micro-block to one,
and a partition to its number of blocks, between 1 and `NTxns`
(`MicroBlockPartition`). `Outcomes` is what a macro-block may have done to the
statistics: any split, except that a single node always commits the smallest id
of a block, so that not all of its valid transactions are delayed.

### MicroBlockPartition

The workers compare the transactions of their stripes (`Compare`), with any
answer of the predictor for each pair, and insert edges under a lock (`Insert`);
the manager scans and places (`Postpone`, `Place`, `CloseBlock`) or cuts fixed
blocks. The graph survives into the next macro-block, as in the code. Any answer
covers `prodcc_toxic_query_rate`, which forces conflicts at random.

### ConflictPrediction

`check_range_intersection`, one iterator step per action, over the pairs of
lists in the order of `predict_conflict`. The databases of both benchmarks
declare a dense key domain, so the filter answers "in the domain or not", which
is `QueryRangeExists`. The sparse path through `L2Verifier` has no caller and is
not modelled.

## 3. The runs

| run | instance | what it shows |
|---|---|---|
| `ProdccBlock_cluster` | 2 nodes with a row and a worker each, 3 blocks, two of one epoch and one of the next, the last that fits (`EpochModulus` 3), seven kinds of programs (both halves of a write skew, read-modify-writes, read-only, roll-back, one whose checks break off) | the inductive invariant; conflicts, serializability, snapshots, clean-up, the code's assertions; termination under fairness |
| `AriaBatch` | 2 nodes with a row and two workers each, 2 batches, the same kinds of programs | serializability and snapshots unless messages are late; the handlers' assertions; termination under fairness |
| `AriaBatch_epoch` | the same without the read-only optimization, blind writers and readers of both rows | **violation**: a reservation meets the word of the next batch |
| `TwoPhaseLocking` | 2 nodes with a master row and a replica each, 3 workers with a transaction each, at most two readers | locks are accounted for, replicas follow, the commits implement `SerialStore`, and every answer arrives under fairness |
| `AriaFallback` | 2 nodes with a row and two workers each, one of them a lock manager, 2 batches | serializability unless late; no aborted transaction is dropped or run twice; lock bits are exact and gone before the next batch; termination |
| `Calvin` | 2 nodes, one with rows of both its lock managers, two executors for each, 3 rows, at most 2 readers, 2 batches, four workloads | the inductive invariant: exact locks and counters, the agreed order; serializability; no message, lock or count outlives its batch; termination |
| `BohmVersions` | 2 nodes with a row and two workers each, 2 batches of 4 slots, four workloads, one of them also with `same_batch` | serializability unless torn; late writes find their version; exact version lists; termination |
| `BohmVersions_ready` | the same | **violation**: a version is read between its mark and its value |
| `PhaseBarrier` | 3 nodes with 2 workers, the phases of a macro-block of PRDCC with one micro-block | the barrier implements `Rendezvous`; STOPs, acknowledgements and counters belong to their phase (the inductive invariant); every thread exits |
| `ConflictPrediction` | every pair of queries of at most two ranges or three points over four keys | the prediction is exact |
| `MicroBlockPartition` | 4 transactions, 2 workers, blocks of 3, every conflict graph, macro-blocks in succession with and without prediction | graph and partition are correct |
| `MacroBlock` | 3 nodes, 2 transactions, 3 macro-blocks, threshold 0, a cooldown of 1 | the nodes agree on the blocks and stay in step (the inductive invariant), a regression bypasses prediction, every manager ends |

**Bounds.** Conflicts are between two transactions on a row, and the flags of one
depend on the smallest other reader and writer; three transactions in a block
give a transaction both a smaller and a larger neighbour, and chains of two
dependencies. The transactions behind them see what the block has left, the last
one in a new epoch: there a reservation that was not cleaned up, or comes late, meets
a word of another epoch. Two
nodes have both directions of every message; three nodes are needed where
followers might mix up each other's messages (`PhaseBarrier`, `MacroBlock`).
Four transactions allow a graph with a
transaction postponed twice and a conflict between two postponed ones. Three
macro-blocks hold a prediction, a regression that bypasses the next one, and the
decision after it; the cooldown is 1 instead of 5, and an off-by-one shows at
any. Three workers that lock two rows have each order of grants and refusals
and, with `ReadLockMax` 2 instead of 511, a reader too many.
The workloads of `Calvin` and `BohmVersions` are named by what they contain: a chain
of dependencies across managers and nodes, readers up to the limit with a writer
behind them, transactions that read what the other writes, a roll-back, and blind
writes; the last batch starts on what the first has left. `AriaFallback` runs every
batch of three from five programs. Its one lock manager per node is enough for
the hand-over from Aria; two of them are the subject of `Calvin`. `MaxEpochs`,
`NBlocks`, `NBatches`, `Len(Script)` and the set of transactions
bound the runs; the program itself goes on until its time is over.

The options of PRDCC and Aria are on in the runs (`ReorderingOptimization`,
`ReadOnlyOptimization`) and snapshot isolation is off; the theorems about PRDCC
hold for all their values.

**Deadlock** checking is off where a system comes to its end (all modules but
`MicroBlockPartition`); that nobody stops before the end is the liveness
properties' part.

**Fairness.** Managers, workers and dispatchers are threads that poll in loops
and that the operating system schedules; the transport is reliable. Hence weak
fairness for each manager's and each worker's steps (`PhaseBarrier`, and the
managers in `MacroBlock`). In `ProdccBlock` and `AriaBatch` every step brings the
block or batch closer to its end, so weak fairness of the whole next-state
relation is enough and less is assumed. In `TwoPhaseLocking` a worker may retry
for ever, and a peer's channel is disabled whenever its worker is inside its loop
over rows. Strong fairness of the channels is justified because
`Executor::start` empties the queue before it begins a transaction. In `Calvin` and
`BohmVersions` a worker that spins repeats the same tests for ever while others
work, and each worker, channel and manager is given weak fairness of its own; in
`AriaFallback`, where every step leads on, the whole next-state relation is enough.
In `TwoPhaseLocking`, that some transaction commits does not follow: two that refuse each other may go on doing
so, as in the code. `Stop` needs no fairness of its own: the bound forces it.

## 4. The proofs

| theorem | statement |
|---|---|
| `TypeCorrect`, `DisciplineHolds` (`ProdccBlock_proofs`) | `Spec => []TypeOK`, `Spec => []Discipline`: routes, no duplicate, who waits for what when |
| `ConflictInvHolds`, `ConflictOrderHolds`, `FirstWriterHolds` (`ProdccBlock_proofs`) | `EpochsFit => (Spec => []P)` for the invariant of conflicts, for `ConflictOrder`, and for `FirstWriterWins`, no two commits of a block write one row |
| `BlockInvHolds` (`ProdccBlock_proofs`) | `EpochsFit => (Spec => []BlockInv)`, all of the inductive invariant that the run checks |
| `SerializableUnlessLateHolds` (`ProdccBlock_proofs`) | `EpochsFit => (Spec => []SerializableUnlessLate)` |
| `SnapshotReadsHolds`, `NothingLeftBehindHolds` (`ProdccBlock_proofs`) | `Spec => []P`, late or not and whatever the epochs |
| `EpochAssertionsHold` (`ProdccBlock_proofs`) | `EpochsFit => (Spec => []EpochAssertions)` |
| `TypeCorrect`, `DisciplineHolds`, `SnapshotReadsHolds` (`AriaBatch_proofs`) | `Spec => []P`, late or not and whatever the epochs |
| `HandlerAssertionsHold`, `ConflictOrderHolds`, `BatchInvHolds`, `SerializableUnlessLateHolds` (`AriaBatch_proofs`) | `EpochsFit => (Spec => []P)` for the two safety properties, the order of conflicting commits and all of the inductive invariant |
| `VersionInvHolds`, `VersionTypeCorrect` (`BohmVersions_proofs`) | `Spec => []VersionInv`, the inductive invariant, and `Spec => []TypeOK` |
| `VersionsExactHolds`, `WritesFindVersionsHolds`, `SerializableUnlessTornHolds` (`BohmVersions_proofs`) | `Spec => []P` for each safety property of `BohmVersions` |
| `EverythingInPhaseHolds`, `RendezvousHolds` (`PhaseBarrier_proofs`) | `Spec => []EverythingInPhase`, and `Spec => Rendezvous`: the barrier implements its promise |
| `ScheduleAgreedHolds`, `InStepHolds`, `BypassLastsHolds` (`MacroBlock_proofs`) | `Spec => []P` for each safety property of `MacroBlock` |
| `LocksAccountedHolds`, `ReplicasFollowHolds`, `LockingInvHolds` (`TwoPhaseLocking_proofs`) | `Spec => []P`: exact locks, copies that follow their master, and the inductive invariant |
| `ImplementsSerialStoreHolds` (`TwoPhaseLocking_proofs`) | `Spec => ImplementsSerialStore`: each commit reads and writes at one instant |
| `CountInvStep` (`LockSchedule_proofs`) | every step of a schedule keeps `CountInv`: exact locks, exact counters |
| `BatchInvHolds`, `LocksExactHolds`, `SerializableUnlessSplitHolds`, `NothingLeftBehindHolds` (`LockSchedule_proofs`) | `Spec => []P` for each safety property of `Calvin` |
| `FallbackInvHolds`, `NobodyDroppedHolds`, `AriaFBLocksExactHolds` (`LockSchedule_proofs`) | `AriaFBSpec => []P` for the inductive invariant of `AriaFallback` and for two of its safety properties |
| `PredictionIsExact`, `PredictionTypeCorrect` (`MicroBlockPartition_proofs`) | `Spec => []PredictionExact`, `Spec => []TypeOK` |
| `GraphIsComplete`, `BlocksAreCompatible`, `BlocksAreAscending`, `EveryPostponementHasACause`, `EveryTransactionIsScheduledOnce`, `PartitionTypeCorrect` (`MicroBlockPartition_proofs`) | `Spec => []P` for each property of `MicroBlockPartition` |

They hold for all nodes, rows, schedules and programs, under the assumptions the
modules name: ids are positive and unique in a block, epochs do not decrease
along the schedule, a transaction belongs to one batch and one worker of a node, ranges come sorted, the rows that Bohm's transactions write
are finitely many. `EpochsFit` says that the epochs fit
their 24 bits, which `set_epoch` asserts in debug builds; beyond it a wrapped
epoch looks older than it is and the theorem is false.

*The argument for conflicts.* `ConflictOrder` speaks of commits, which are
decided in FINALIZE from flags gathered in ANALYZE from words written in
RESERVE, so it is far from inductive. `ConflictInv` follows the information:

* `Discipline`: where messages are, that a counted request exists once, and which
  requests a transaction may wait for in each phase. Without it an answer could
  arrive in a phase whose invariants it breaks.
* `ReservationsOK`: in RESERVE and later, unless late, the word of a row holds an
  id at most that of each transaction that has reserved it, or the request is
  still in flight in RESERVE.
* `ChecksOK`: an analyzed transaction has each of its conflicts in its flags, or
  the answer that will tell is pending. The `break` in `analyze_dependency` is
  harmless because it is taken only once `raw` is set, and `raw` is the only flag
  the skipped reads could set.
* `CommitsOK`: a committed transaction's flags still permit the commit; with no
  answer pending they cannot change.

For two commits of a block, one of which reads what the other writes, the larger
id has found the conflict, and the commit rule orders them.

*The argument for what a block leaves behind* does not depend on reservations
being in time. `CleanupsFollow`: a RESERVE that is late is in front of the CLEANUP
of its transaction in the same channel. `SomebodyCleans`: a word that is not 0 has a
transaction of the block that has yet to clean it, or whose CLEANUP is in flight;
since CLEANUP is counted, a block ends with clean words and empty channels.
`SnapshotTaken`: while a block executes nobody writes, and an answer to a SEARCH that
is in flight holds what the store holds. `EpochsOK` carries the assertions of the
code: no word is ahead of its block's epoch, a CHECK is behind the RESERVE of its access,
so it meets a word of its own epoch, and a local row has no RESERVE to wait for.

*The argument for the store.* `StoreOK` and `ReadsOK` say that the store before a
block is what the serial execution so far has left (`LeftBy`), that each row a
commit of this block writes has its value or a WRITE in flight, and that what has been
read in a block is that store. `FirstWriterWins` gives a row one writer per block,
which makes "the last writer" a matter of blocks, and `ConflictOrder` orders reads
and writes inside one. Together they are `SerializableUnlessLate`.

*The argument for Aria* (`AriaBatch_proofs`) takes the same way from `Discipline` over
`ReservationsOK`, `ChecksOK` and `CommitsOK` to `ConflictOrder`, and from there over
`StoreOK` and `ReadsOK` to serializability, but what it rests on differs. There is no
clean-up: `EpochsOK` says instead that no word is ahead of the batch, that a word which has
been reserved in this batch has its epoch, and that a CHECK is behind the RESERVE of its
access; an older word counts as empty. And a WRITE is not counted: `SnapshotTaken` and `StoreOK` hold
while none is late, and `StoreOK` allows each row a WRITE in flight from a commit of this
batch until the batch ends.

*The argument for versions* (`BohmVersions_proofs`). `Discipline`: a transaction runs only in the
execution of its batch and is done after it, needs nothing when it commits, and no
two messages are about one access. `ChainOK`: the versions of a row descend from the
last writer so far, each that of the writer before (`WriterBefore`), down to the last one
before this batch, or to a single one once the row has been collected. With it
`Prev` finds the version of the writer before the reader and never runs off the list; this
alone gives `VersionsExact`. `ContentsOK`: a version that is ready belongs to a transaction that has come to
its write, whose WRITE is not in flight any more (`Settled`), and holds its value, but between the two
steps of `update`. `ReadsOK` and `AnswersOK`: what has been read, or is on
its way back, is what the writer before has written, or a torn version has been met;
and that writer is settled. Settled is for good, because a transaction sends its
WRITEs once. Serializability is `ReadsOK` for those who need nothing any more.

The writes that nobody waits for are the subtle part. `OvertakersBlind`: if a writer of
a row has committed while the WRITE of an earlier one is in flight, then there is a
writer between them (or itself) that has not read the row. By induction along the chain: who
has read the row has waited for the writer before, so that one has committed too, and
is later than the WRITE or is its sender. When a collection drops a version that a
WRITE in flight needs, the newest version is that of a later writer of a batch that is over; so a blind
writer has overtaken it, which is what `WritesWait` and `WritesFindVersions` except.

*The argument for the barrier.* `EverythingInPhase` is inductive: for each place of a
manager it says in which phase its node is relative to the coordinator's, which
STOPs and ACKs are in its queues, how many of its workers have started or completed,
and where each worker may be. Each part by itself is broken by some step: a STOP that
is taken for one of the next phase spoils the counts, and a count the phases. With
it, `NobodyBehind` shows that a worker begins a phase only after every other has
finished the last, and each step of `PhaseBarrier` is a step of `Rendezvous` or a stutter.

*The argument for macro-blocks.* `FollowerInStep` relates a follower to the place of
the coordinator: it is along with it or behind by one signal, which is the signal its
own schedule expects, and has as many micro-blocks behind it (`HasRun`). `SizesInStep`
says that the sizes in the coordinator's queue are those of this macro-block, one
from each follower that is through with its partition; so the maximum it takes is that
of all. `BypassLasts` adds `Cooling`: after a regression, the cooldown and the number
of macro-blocks run without prediction add up to the constant.

*The argument for lock managers and Calvin.* `LockInv`: the locks of a row are those of
its holders, and a transaction is in one queue or hand per manager, dealt out in the
order of the ids. `CountInv`: the counters `local_read` and `remote_read` are the numbers
of rows not read yet and not received yet (`LocalGap`, `RemoteGap`), and each READ in
flight is one of the latter; so an executor that finds them 0 has all its rows. These
two are proved for any schedule (the first part of `LockSchedule_proofs`), without reference to batches.
`BatchInv` adds the order: a transaction that is done with a row is earlier than all
that hold it or want it (`HoldersFirst`), because a manager asks for locks in the order of
the ids and readers exclude writers; hence a row has what the last of those who are
done has left (`StoreInOrder`), and a value read, sent or received is that of the
transactions before (`InputsInOrder`). It is claimed only of rows that nobody writes
blindly, whose lock bit the code flips.

*The argument for the fallback* (the third part of `LockSchedule_proofs`). `FallbackInv` follows
the aborts from where Aria decides them into the schedule. `Outcomes`: each transaction of the
batch is decided before the exchange, and for good. `Collected` and `Spread` are the two
halves of the exchange: what node 0 does not have of a node that has told is in flight to it,
and once it has told itself, it has all, and what a node does not have is in flight from it.
So when a phase ends with no mail left, every node has `Fallen`, the aborts of all nodes. `HomeCounts`
and `Prepared`: the counters of a transaction are those of one that nobody has begun, by the run in Aria
on its own node and by the dry run on the others. Then `ScheduleBegins` gives `CountInv`,
`CountInvStep` keeps it, and at the end nobody holds a lock and nothing is on its way
(`Resting`), whatever the messages of Aria have done meanwhile, which touch neither. `Executions`
counts: only what is in a schedule is executed, and a schedule that is done has executed
all of it. `WordsCleared`: no RESERVE is on its way after READ, unless it is late, so
the words that `Prepare` clears stay clear for the locks. Nothing else here needs Aria's messages to be in time.

*The argument for two-phase locking.* `Discipline`: a request is waited for and in flight
once, as such or as its answer. An ABORT is the exception that nobody acknowledges, and
`AbortsFirst` says why it does no harm: the next LOCK of the transaction for the
row is behind it in the same channel. Hence `LocksInv`: the word of a row counts
exactly those who have a lock in hand, a grant in flight, or a release in flight; this
is `LocksAccounted`. `ReadsCurrent`: what a transaction has been told of a row it has
locked is still so, because only a holder of the write lock that has committed
changes a row. `WritesArrive`: until it releases, each of its writes is in its copy
or in flight. `TidsGrow`: a commit takes a tid above those of all its rows, and no copy
has one above its master's but from a commit that still has the lock; so
the assertion of `replication_request_handler` holds, and with it `ReplicasFollow`.
With these, the step that decides a commit is the step `Commit` of `SerialStore`, reading
what the store holds, and each other step leaves the mapped store as it is: a write that
is installed was counted as written already.

*The argument for prediction.* The two-pointer walk remembers two positions.
`BehindNoOverlap` says that what is behind either of them meets nothing in the
other list. When the range that ends first is left behind, anything later in the
other list that shared a key with it would start no earlier than the range it was
compared with, and the key would be in that range as well. So sortedness by first
key suffices; the lists need not be disjoint.

*The argument for the partition.* `GraphInv`: an edge the predictor has found is in
the graph or still with the worker that found it, so that nothing is missing once
the workers have handed in everything. `ListsInv`: the lists of the greedy
partition ascend and what the cursor has passed is smaller than what is ahead.
An edge leads from the smaller id to the larger, so looking from the block at the
candidate, as the code does, never misses one. `CurrentInv` and `BlocksInv` say
that a block has no conflict inside and has caused everything that missed it, and
`OnceInv` that a transaction is in one list or block and in no other. The first
transaction of a round finds an empty block and is always placed. The code's
branch for an empty block (`ProdccManager.h:286`) is therefore never taken, which
lemma `BlockNotEmpty` states.

*Only model-checked*: `SerializableUnlessLate` of `AriaFallback`. What Aria's part and the
fallback's part of it rest on is proved of `AriaBatch` and of `Calvin`; what is missing is
that the values, too, pass from one to the other. And all liveness, which is beyond the
prover: `ScheduleFinishes`, `EverybodyLeaves`, `EverybodyStops`, `AnswersArrive`,
`BatchesFinish` and `AriaFBFinishes`.

## 5. Findings

* `AriaBatch_epoch`: `analyze_dependency` stops looking at the reads of a
  transaction at the first local conflict, so a RESERVE it has sent for a later
  remote read is followed by no CHECK, and nobody waits for its arrival. If it
  arrives after another transaction has reserved the row in the next batch,
  `CHECK(epoch >= old_epoch)` in `AriaHelper.h` stops the process. PRDCC is safe
  from this: it checks the same way, but its CLEANUP is acknowledged.
* `BohmVersions_ready`: `MVCCTable::update` stores 0 in the placeholder of a version
  and copies the value afterwards. A reader that waits for the 0 can read the
  storage of the placeholder. The handler of a remote write does it in the right
  order, and `Bohm::commit` marks the version once more after `update`, so the first
  store can simply go.

Smaller disagreements, which no run is spent on: `AriaManager.h:69` says that all
machines have finished the phase after `wait4_ack`; they have finished their own
work, a RESERVE may still be handled later, and this is what makes `late`
possible. `Macros.h:51-53` says of `prodcc_abort_rate_threshold` that the "default
1.0 means always bypass"; the comparison is `>=`, so a node whose valid transactions
were all delayed predicts in its next macro-block. The loop that counts the active
nodes at `AriaFBExecutor.h:294` runs over the length of the read set and indexes the
nodes; its result has no reader. On a node that did not run a transaction in
Aria, neither the dry run (`AriaFBTransaction.h:184`) nor the fallback performs its
reads of a local index. Logic that adds to what it reads, such as `W_YTD` in Payment
(`benchmark/tpcc/Transaction.h:384`), runs once for each lock manager in Calvin.

## 6. What is not modelled

Values of rows and the logic of the benchmarks (a transaction is its accesses);
the encoding of messages and their batching in `batch_flush`, which only delays
them; the 20-bit id fields of the word; sparse key domains; SQL emulation,
statistics, sockets, configuration; the shards and locks of the dependency graph (an
insertion is one step). Of TwoPL the further rounds of lock requests
of Payment and OrderStatus, reads of a local index without a lock, and the end of
a run. Of Bohm, Calvin and AriaFB the reads of a local index, which are not locked
or versioned, `bohm_single_spin`, and a late reservation whose epoch reaches the lock bits. The
dispatchers and the lock-free queues are ordered, unbounded channels. DOCC and Pwv
are not yet modelled: DOCC is Aria on one node with another validation, and Pwv is
written statement by statement for the two benchmarks.

## 7. Plan

In this order, the most important first:

1. `DOCCBatch`: Aria's batch on one node, with validation by one worker.
2. `Channels`: dispatchers and bounded queues; they implement the ordered
   channels the other modules assume. `Lifecycle`: start-up, `stopFlag`,
   statistics that are loaded and then reset.
3. `PwvPieces`: early visible writes.

Proofs planned: `SerializableUnlessLate` of `AriaFallback`, from the inductive invariants of
`AriaBatch` and `Calvin`.
