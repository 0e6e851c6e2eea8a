----------------------------- MODULE MacroBlock -----------------------------
(***************************************************************************)
(* The managers' loop over macro-blocks (ProdccManager.h): statistics of   *)
(* the last one, the decision to predict conflicts, the READ and PARTITION *)
(* phases, the agreement on the number of micro-blocks, the phases of each *)
(* micro-block.  The coordinator signals every phase; a follower knows     *)
(* from its own schedule which signal must come next.                      *)
(*                                                                         *)
(* Abstracted: a worker phase is entered and left as the barrier allows    *)
(* (module PhaseBarrier), the five phases of a micro-block are one (module *)
(* ProdccBlock), and a partition is its number of blocks (module           *)
(* MicroBlockPartition).                                                   *)
(***************************************************************************)
EXTENDS Naturals, Sequences, FiniteSets

CONSTANTS
  Nodes, Coordinator,
  NTxns,            \* the transactions of a node in a macro-block
  BatchSize,        \* context.batch_size, the size of a fixed micro-block
  ThresholdPpm,     \* context.prodcc_abort_rate_threshold, in millionths
  RegressionMarginPpm, BypassCooldownEpochs,  \* 10000 and 5 in the code
  MaxEpochs         \* a bound: the run is stopped after so many macro-blocks

Followers == Nodes \ {Coordinator}

\* The rates count millionths.
Million == 1000000

ASSUME NodesAssumption == IsFiniteSet(Nodes) /\ Coordinator \in Nodes
ASSUME SizesAssumption == NTxns \in Nat \ {0} /\ BatchSize \in Nat \ {0}
ASSUME PpmAssumption ==
  /\ ThresholdPpm \in 0..Million
  /\ RegressionMarginPpm \in Nat
  /\ BypassCooldownEpochs \in Nat \ {0}
ASSUME MaxEpochsAssumption == MaxEpochs \in Nat

VARIABLES
  at,         \* where the manager of a node is in its loop
  epoch,      \* the macro-blocks it has begun
  delayed, valid,   \* last_macro_total_delay, last_macro_total_valid
  usedPrediction,   \* last_macro_prediction_enabled_
  baseline,         \* bypass_baseline_abort_ppm_
  cooldown,         \* prediction_bypass_cooldown_
  size,       \* schedule.size()
  index,      \* the micro-blocks of the schedule it has begun
  begun,      \* the worker phases it has begun,
  left,       \* and those it has left, an acknowledgement included
  signals,    \* signal_in_queue of a follower
  vectors,    \* vector_in_queue of a node: the numbers of blocks
  awaited,    \* how many VECTOR messages the coordinator still waits for
  calm        \* history: the decisions to predict or not since a regression

vars == <<at, epoch, delayed, valid, usedPrediction, baseline, cooldown, size,
          index, begun, left, signals, vectors, awaited, calm>>

statistics == <<delayed, valid, baseline, cooldown>>

\* A number of micro-blocks: any partition into non-empty blocks, or the
\* fixed one.
NFixed == (NTxns + BatchSize - 1) \div BatchSize

Sizes(predict) == IF predict THEN 1..NTxns ELSE {NFixed}

-----------------------------------------------------------------------------
TypeOK ==
  /\ at \in [Nodes -> {"loop", "in_read", "read", "in_partition", "partitioned",
                       "blocks", "in_block", "gone"}]
  /\ epoch \in [Nodes -> 0..MaxEpochs]
  /\ delayed \in [Nodes -> 0..NTxns]
  /\ valid \in [Nodes -> 0..NTxns]
  /\ usedPrediction \in [Nodes -> BOOLEAN]
  /\ baseline \in [Nodes -> 0..Million]
  /\ cooldown \in [Nodes -> 0..BypassCooldownEpochs]
  /\ size \in [Nodes -> 0..NTxns]
  /\ index \in [Nodes -> 0..NTxns]
  /\ begun \in [Nodes -> Nat]
  /\ left \in [Nodes -> Nat]
  /\ signals \in [Followers -> Seq({"READ", "PARTITION", "BLOCK", "EXIT"})]
  /\ vectors \in [Nodes -> Seq(1..NTxns)]
  /\ awaited \in 0..Cardinality(Nodes)
  /\ calm \in [Nodes -> 0..BypassCooldownEpochs + 1]

Init ==
  /\ at = [n \in Nodes |-> "loop"]
  /\ epoch = [n \in Nodes |-> 0]
  /\ delayed = [n \in Nodes |-> 0]
  /\ valid = [n \in Nodes |-> 0]
  /\ usedPrediction = [n \in Nodes |-> FALSE]
  /\ baseline = [n \in Nodes |-> 0]
  /\ cooldown = [n \in Nodes |-> 0]
  /\ size = [n \in Nodes |-> 0]
  /\ index = [n \in Nodes |-> 0]
  /\ begun = [n \in Nodes |-> 0]
  /\ left = [n \in Nodes |-> 0]
  /\ signals = [n \in Followers |-> <<>>]
  /\ vectors = [n \in Nodes |-> <<>>]
  /\ awaited = 0
  /\ calm = [n \in Nodes |-> BypassCooldownEpochs + 1]

Goto(n, place) == at' = [at EXCEPT ![n] = place]
-----------------------------------------------------------------------------
\* What the transactions of a node have come to when the macro-block ends: so
\* many were not rolled back, so many of those were delayed.  With one node
\* the transaction with the smallest id has no conflict and commits.
Outcomes(n) ==
  IF epoch[n] = 0
    THEN {<<0, 0>>}
    ELSE {o \in (0..NTxns) \X (0..NTxns) :
            /\ o[2] <= o[1]
            /\ Cardinality(Nodes) = 1 /\ o[1] > 0 => o[2] < o[1]}

AbortPpm(v, d) == IF v = 0 THEN 0 ELSE (Million * d) \div v

Decremented(n) == IF cooldown[n] > 0 THEN cooldown[n] - 1 ELSE 0

Regressed(n, v, d) ==
  usedPrediction[n] /\ AbortPpm(v, d) > baseline[n] + RegressionMarginPpm

\* Faulty: the new cooldown is counted down at once.
CleanupBatchThenDecrement(n) ==
  \E o \in Outcomes(n) :
    /\ valid' = [valid EXCEPT ![n] = o[1]]
    /\ delayed' = [delayed EXCEPT ![n] = o[2]]
    /\ baseline' = [baseline EXCEPT ![n] =
                      IF usedPrediction[n] THEN @ ELSE AbortPpm(o[1], o[2])]
    /\ cooldown' = [cooldown EXCEPT ![n] =
                      IF Regressed(n, o[1], o[2]) THEN BypassCooldownEpochs - 1
                                                  ELSE Decremented(n)]
    /\ calm' = [calm EXCEPT ![n] = IF Regressed(n, o[1], o[2]) THEN 0 ELSE @]

\* cleanup_batch: the abort rate of a macro-block without prediction is the
\* baseline; a macro-block with prediction that is worse by more than the
\* margin turns prediction off for a while.
CleanupBatch(n) ==
  \E o \in Outcomes(n) :
    /\ valid' = [valid EXCEPT ![n] = o[1]]
    /\ delayed' = [delayed EXCEPT ![n] = o[2]]
    /\ baseline' = [baseline EXCEPT ![n] =
                      IF usedPrediction[n] THEN @ ELSE AbortPpm(o[1], o[2])]
    /\ cooldown' = [cooldown EXCEPT ![n] =
                      IF Regressed(n, o[1], o[2]) THEN BypassCooldownEpochs
                                                  ELSE Decremented(n)]
    /\ calm' = [calm EXCEPT ![n] = IF Regressed(n, o[1], o[2]) THEN 0 ELSE @]

\* enable_conflict_prediction: the abort rate of the last macro-block has
\* reached the threshold.
EnableConflictPrediction(n) ==
  /\ cooldown[n] = 0
  /\ IF valid[n] = 0 THEN ThresholdPpm = 0
                     ELSE Million * delayed[n] >= ThresholdPpm * valid[n]
-----------------------------------------------------------------------------
\* The barrier: every node begins a phase after it has left the one before,
\* and leaves it once all have begun it; the coordinator also awaits their
\* acknowledgements.
Enter(n) == begun' = [begun EXCEPT ![n] = @ + 1]

Leave(n) ==
  /\ \A o \in Nodes : begun[o] >= begun[n]
  /\ n = Coordinator => \A o \in Followers : left[o] >= begun[n]
  /\ left' = [left EXCEPT ![n] = @ + 1]

Signal(s) == signals' = [n \in Followers |-> Append(signals[n], s)]

\* wait4_signal and the assertion behind it: the signal is not looked at.
TakeSignal(n) ==
  /\ n \in Followers /\ signals[n] # <<>>
  /\ signals' = [signals EXCEPT ![n] = Tail(@)]

\* The coordinator signals a phase, a follower is signalled it.
Start(n, s) ==
  /\ IF n = Coordinator THEN Signal(s) ELSE TakeSignal(n)
  /\ Enter(n)

\* At the top of the loop: stopFlag is not set (it is, at any time, and after
\* MaxEpochs macro-blocks at the latest).
BeginMacroBlock(n) ==
  /\ at[n] = "loop"
  /\ IF n = Coordinator THEN epoch[n] < MaxEpochs
                        ELSE signals[n] # <<>> /\ Head(signals[n]) # "EXIT"
  /\ epoch' = [epoch EXCEPT ![n] = @ + 1]
  /\ CleanupBatch(n)
  /\ Start(n, "READ")
  /\ Goto(n, "in_read")
  /\ UNCHANGED <<usedPrediction, size, index, left, vectors, awaited>>

Stop ==
  /\ at[Coordinator] = "loop"
  /\ Signal("EXIT")
  /\ Goto(Coordinator, "gone")
  /\ UNCHANGED <<epoch, statistics, usedPrediction, size, index, begun, left,
                 vectors, awaited, calm>>

Exit(n) ==
  /\ at[n] = "loop"
  /\ n \in Followers /\ signals[n] # <<>> /\ Head(signals[n]) = "EXIT"
  /\ TakeSignal(n)
  /\ Goto(n, "gone")
  /\ UNCHANGED <<epoch, statistics, usedPrediction, size, index, begun, left,
                 vectors, awaited, calm>>

LeaveRead(n) ==
  /\ at[n] = "in_read"
  /\ Leave(n)
  /\ Goto(n, "read")
  /\ UNCHANGED <<epoch, statistics, usedPrediction, size, index, begun, signals,
                 vectors, awaited, calm>>

\* The decision to predict, and the PARTITION phase.
BeginPartition(n) ==
  /\ at[n] = "read"
  /\ usedPrediction' = [usedPrediction EXCEPT ![n] = EnableConflictPrediction(n)]
  /\ calm' = [calm EXCEPT ![n] = IF @ <= BypassCooldownEpochs THEN @ + 1 ELSE @]
  /\ Start(n, "PARTITION")
  /\ Goto(n, "in_partition")
  /\ UNCHANGED <<epoch, statistics, size, index, left, vectors, awaited>>

\* The schedule is made, and a follower sends its size to the coordinator.
LeavePartition(n) ==
  /\ at[n] = "in_partition"
  /\ Leave(n)
  /\ \E s \in Sizes(usedPrediction[n]) :
       /\ size' = [size EXCEPT ![n] = s]
       /\ vectors' = IF n = Coordinator THEN vectors
                     ELSE [vectors EXCEPT ![Coordinator] = Append(@, s)]
  /\ awaited' = IF n = Coordinator THEN Cardinality(Nodes) - 1 ELSE awaited
  /\ index' = [index EXCEPT ![n] = 0]
  /\ Goto(n, "partitioned")
  /\ UNCHANGED <<epoch, statistics, usedPrediction, begun, signals, calm>>

\* align_schedule_size at the coordinator: the maximum of the sizes,
ReceiveSize ==
  /\ at[Coordinator] = "partitioned"
  /\ awaited > 0
  /\ vectors[Coordinator] # <<>>
  /\ size' = [size EXCEPT ![Coordinator] =
                IF Head(vectors[Coordinator]) > @ THEN Head(vectors[Coordinator]) ELSE @]
  /\ vectors' = [vectors EXCEPT ![Coordinator] = Tail(@)]
  /\ awaited' = awaited - 1
  /\ UNCHANGED <<at, epoch, statistics, usedPrediction, index, begun, left,
                 signals, calm>>

\* Faulty: the coordinator does not wait for the other sizes.
AnnounceOwnSize ==
  /\ at[Coordinator] = "partitioned"
  /\ vectors' = [n \in Nodes |-> IF n = Coordinator THEN vectors[n]
                                 ELSE Append(vectors[n], size[Coordinator])]
  /\ Goto(Coordinator, "blocks")
  /\ UNCHANGED <<epoch, statistics, usedPrediction, size, index, begun, left,
                 signals, awaited, calm>>

\* which it sends to the followers.
AnnounceSize ==
  /\ at[Coordinator] = "partitioned"
  /\ awaited = 0
  /\ vectors' = [n \in Nodes |-> IF n = Coordinator THEN vectors[n]
                                 ELSE Append(vectors[n], size[Coordinator])]
  /\ Goto(Coordinator, "blocks")
  /\ UNCHANGED <<epoch, statistics, usedPrediction, size, index, begun, left,
                 signals, awaited, calm>>

\* Faulty: the schedule is not padded.
KeepSize(n) ==
  /\ at[n] = "partitioned" /\ n \in Followers
  /\ vectors[n] # <<>>
  /\ vectors' = [vectors EXCEPT ![n] = Tail(@)]
  /\ Goto(n, "blocks")
  /\ UNCHANGED <<epoch, statistics, usedPrediction, size, index, begun, left,
                 signals, awaited, calm>>

\* pad_schedule_to_size at a follower: empty blocks follow its own.
PadSchedule(n) ==
  /\ at[n] = "partitioned" /\ n \in Followers
  /\ vectors[n] # <<>>
  /\ size' = [size EXCEPT ![n] = IF Head(vectors[n]) > @ THEN Head(vectors[n]) ELSE @]
  /\ vectors' = [vectors EXCEPT ![n] = Tail(@)]
  /\ Goto(n, "blocks")
  /\ UNCHANGED <<epoch, statistics, usedPrediction, index, begun, left, signals,
                 awaited, calm>>

BeginBlock(n) ==
  /\ at[n] = "blocks" /\ index[n] < size[n]
  /\ index' = [index EXCEPT ![n] = @ + 1]
  /\ Start(n, "BLOCK")
  /\ Goto(n, "in_block")
  /\ UNCHANGED <<epoch, statistics, usedPrediction, size, left, vectors,
                 awaited, calm>>

LeaveBlock(n) ==
  /\ at[n] = "in_block"
  /\ Leave(n)
  /\ Goto(n, "blocks")
  /\ UNCHANGED <<epoch, statistics, usedPrediction, size, index, begun, signals,
                 vectors, awaited, calm>>

EndMacroBlock(n) ==
  /\ at[n] = "blocks" /\ index[n] = size[n]
  /\ Goto(n, "loop")
  /\ UNCHANGED <<epoch, statistics, usedPrediction, size, index, begun, left,
                 signals, vectors, awaited, calm>>

Manage(n) ==
  \/ BeginMacroBlock(n) \/ Exit(n) \/ LeaveRead(n)
  \/ BeginPartition(n) \/ LeavePartition(n) \/ PadSchedule(n)
  \/ BeginBlock(n) \/ LeaveBlock(n) \/ EndMacroBlock(n)

Coordinate == Stop \/ ReceiveSize \/ AnnounceSize

Next == Coordinate \/ \E n \in Nodes : Manage(n)

Spec == Init /\ [][Next]_vars

\* The managers are threads that poll; the time limit of a run sets stopFlag.
FairSpec ==
  Spec /\ WF_vars(Coordinate) /\ \A n \in Nodes : WF_vars(Manage(n))
-----------------------------------------------------------------------------
\* DCHECK(status == ...) after each wait4_signal: the signal a follower takes
\* is the one its own schedule leads it to expect.
SignalMatchesSchedule ==
  \A n \in Followers : signals[n] # <<>> =>
    /\ at[n] = "loop" => Head(signals[n]) \in {"READ", "EXIT"}
    /\ at[n] = "read" => Head(signals[n]) = "PARTITION"
    /\ at[n] = "blocks" =>
         IF index[n] < size[n] THEN Head(signals[n]) = "BLOCK"
                               ELSE Head(signals[n]) \in {"READ", "EXIT"}

\* Nodes whose workers are in the phases of a micro-block are in the same one:
\* reservations of one epoch and one block only ever meet each other.
Inside(n) == at[n] \in {"in_read", "in_partition", "in_block"}

InStep ==
  \A n, o \in Nodes : Inside(n) /\ Inside(o) /\ left[n] = left[o] =>
    /\ at[n] = at[o]
    /\ epoch[n] = epoch[o]
    /\ at[n] = "in_block" => index[n] = index[o] /\ size[n] = size[o]

\* The coordinator takes the sizes of its own macro-block only: nothing is
\* left in the queue for the next.
VectorsCurrent ==
  /\ \A n \in Nodes : at[n] \in {"loop", "in_read", "read", "blocks", "in_block", "gone"}
       /\ n # Coordinator => vectors[n] = <<>>
  /\ at[Coordinator] \in {"loop", "in_read", "read", "blocks", "in_block", "gone"}
       => vectors[Coordinator] = <<>>

\* What a node knows of itself: whether it is inside its last phase, and where
\* it is in its schedule.
NodeInStep(n) ==
  /\ begun[n] = left[n] + (IF Inside(n) THEN 1 ELSE 0)
  /\ at[n] \in {"partitioned", "blocks", "in_block"} => 0 < size[n] /\ index[n] <= size[n]
  /\ at[n] = "partitioned" => index[n] = 0
  /\ at[n] = "in_block" => 0 < index[n]

\* A follower has nothing left to do in its macro-block; it has run so many
\* blocks of the coordinator's schedule.
AtEnd(n) == at[n] = "loop" \/ (at[n] = "blocks" /\ index[n] = size[n])

HasRun(n, i) ==
  \/ /\ i = 0 /\ at[n] = "partitioned"
     /\ vectors[n] = <<size[Coordinator]>> /\ size[n] <= size[Coordinator]
  \/ /\ at[n] = "blocks" /\ index[n] = i
     /\ vectors[n] = <<>> /\ size[n] = size[Coordinator]
  \/ at[n] = "loop" /\ i = size[Coordinator] /\ vectors[n] = <<>>

\* Before it takes the signal of the coordinator's phase, from then on, and
\* between two phases of the coordinator.
Behind(n, s) ==
  begun[n] + 1 = begun[Coordinator] /\ signals[n] = <<s>>

Along(n) ==
  begun[n] = begun[Coordinator] /\ epoch[n] = epoch[Coordinator] /\ signals[n] = <<>>

FollowerInStep(n) ==
  /\ at[Coordinator] = "loop" => Along(n) /\ AtEnd(n) /\ vectors[n] = <<>>
  /\ at[Coordinator] = "in_read" =>
       /\ vectors[n] = <<>>
       /\ \/ Behind(n, "READ") /\ AtEnd(n) /\ epoch[n] + 1 = epoch[Coordinator]
          \/ Along(n) /\ at[n] \in {"in_read", "read"}
  /\ at[Coordinator] = "read" => Along(n) /\ at[n] = "read" /\ vectors[n] = <<>>
  /\ at[Coordinator] = "in_partition" =>
       /\ vectors[n] = <<>>
       /\ \/ Behind(n, "PARTITION") /\ at[n] = "read" /\ epoch[n] = epoch[Coordinator]
          \/ Along(n) /\ at[n] \in {"in_partition", "partitioned"}
  /\ at[Coordinator] = "partitioned" => Along(n) /\ at[n] = "partitioned" /\ vectors[n] = <<>>
  /\ at[Coordinator] = "blocks" => Along(n) /\ HasRun(n, index[Coordinator])
  /\ at[Coordinator] = "in_block" =>
       \/ Behind(n, "BLOCK") /\ HasRun(n, index[Coordinator] - 1) /\ epoch[n] = epoch[Coordinator]
       \/ /\ Along(n)
          /\ \/ HasRun(n, index[Coordinator])
             \/ /\ at[n] = "in_block" /\ index[n] = index[Coordinator]
                /\ size[n] = size[Coordinator] /\ vectors[n] = <<>>
  /\ at[Coordinator] = "gone" =>
       /\ epoch[n] = epoch[Coordinator] /\ vectors[n] = <<>>
       /\ \/ signals[n] = <<"EXIT">> /\ AtEnd(n)
          \/ signals[n] = <<>> /\ at[n] = "gone"

\* The sizes that the coordinator has or will find are those of its own
\* macro-block, one of every follower.
Announced(n) ==
  \E i \in DOMAIN vectors[Coordinator] : vectors[Coordinator][i] = size[n]

SizesInStep ==
  /\ at[Coordinator] \notin {"in_partition", "partitioned"} => vectors[Coordinator] = <<>>
  /\ at[Coordinator] = "in_partition" =>
       /\ Len(vectors[Coordinator]) = Cardinality({n \in Followers : at[n] = "partitioned"})
       /\ \A n \in Followers : at[n] = "partitioned" => Announced(n)
  /\ at[Coordinator] = "partitioned" =>
       /\ Len(vectors[Coordinator]) = awaited
       /\ \A n \in Followers : size[n] <= size[Coordinator] \/ Announced(n)

EverybodyInStep ==
  /\ \A n \in Nodes : NodeInStep(n)
  /\ \A n \in Followers : FollowerInStep(n)
  /\ SizesInStep

\* All nodes agree on the number of micro-blocks of each macro-block, by
\* counting sizes that name neither their sender nor their macro-block, and
\* on every signal that follows from it.  The invariant is inductive.
ScheduleAgreed ==
  TypeOK /\ SignalMatchesSchedule /\ VectorsCurrent /\ EverybodyInStep

\* kBypassCooldownEpochs: after a regression so many macro-blocks run without
\* prediction, whatever their abort rates.
BypassLasts ==
  \A n \in Nodes : at[n] = "in_partition" /\ usedPrediction[n] =>
    calm[n] > BypassCooldownEpochs

\* Every manager reaches its end.
EverybodyStops == <>(\A n \in Nodes : at[n] = "gone")
=============================================================================
