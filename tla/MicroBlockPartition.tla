------------------------ MODULE MicroBlockPartition ------------------------
(***************************************************************************)
(* How a node of PRDCC makes the micro-blocks of a macro-block             *)
(* (ProdccManager.h): the workers compare the transactions pairwise and    *)
(* fill the dependency graph together; the manager then partitions the     *)
(* transactions greedily, or into blocks of a fixed size while prediction  *)
(* is off.  The graph is kept from one macro-block to the next.            *)
(*                                                                         *)
(* A transaction is its position in txns_to_schedule_, which is sorted by  *)
(* id; all of a node's transactions are in it.                             *)
(***************************************************************************)
EXTENDS Naturals, Sequences, FiniteSets

CONSTANTS
  NTxns,                  \* the transactions of a macro-block
  NWorkers,               \* context.worker_num
  BatchSize,              \* context.batch_size, the size of a fixed block
  ReorderingOptimization, \* context.aria_reordering_optmization
  Conflicts               \* what the predictor may say, NONE apart

ASSUME SizesAssumption ==
  NTxns \in Nat \ {0} /\ NWorkers \in Nat \ {0} /\ BatchSize \in Nat \ {0}
ASSUME ReorderingAssumption == ReorderingOptimization \in BOOLEAN
ASSUME ConflictsAssumption == Conflicts \subseteq {"WAW", "RAW", "WAR"}

Txns    == 1..NTxns
Workers == 1..NWorkers

VARIABLES
  pc,         \* where the node is: prepare, predict, partition, greedy, done
  enabled,    \* is prediction on for this macro-block?
  predicted,  \* history: the conflicts the predictor has found, by pair
  graph,      \* dependency_graph: the edges <<successor, conflict>> of each
  row,        \* the transaction a worker compares next with the later ones
  edges,      \* local_edges: what it has found and not yet put in the graph
  remaining, current, postponed, at,  \* the greedy partition and its cursor
  schedule    \* the blocks made so far

vars == <<pc, enabled, predicted, graph, row, edges, remaining, current,
          postponed, at, schedule>>

graphVars     == <<enabled, predicted, graph, row, edges>>
partitionVars == <<remaining, current, postponed, at, schedule>>

Edge == {e \in Txns \X Txns \X Conflicts : e[1] < e[2]}

Successor == Txns \X Conflicts

-----------------------------------------------------------------------------
TypeOK ==
  /\ pc \in {"prepare", "predict", "partition", "greedy", "done"}
  /\ enabled \in BOOLEAN
  /\ predicted \subseteq Edge
  /\ graph \in [Txns -> SUBSET Successor]
  /\ row \in [Workers -> 1..NTxns + NWorkers]
  /\ edges \in [Workers -> SUBSET Edge]
  /\ remaining \in Seq(Txns)
  /\ current \in Seq(Txns)
  /\ postponed \in Seq(Txns)
  /\ at \in 1..NTxns + 1
  /\ schedule \in Seq(Seq(Txns))

Init ==
  /\ pc = "prepare"
  /\ enabled \in BOOLEAN
  /\ predicted = {}
  /\ graph = [t \in Txns |-> {}]
  /\ row = [w \in Workers |-> w]
  /\ edges = [w \in Workers |-> {}]
  /\ remaining = <<>>
  /\ current = <<>>
  /\ postponed = <<>>
  /\ at = 1
  /\ schedule = <<>>

\* Faulty: the edges of the last macro-block stay.
PrepareKeepsEdges ==
  /\ pc = "prepare"
  /\ pc' = IF enabled THEN "predict" ELSE "partition"
  /\ UNCHANGED <<graphVars, partitionVars>>

\* prepare_dependency_graph, when prediction is on.
Prepare ==
  /\ pc = "prepare"
  /\ graph' = IF enabled THEN [t \in Txns |-> {}] ELSE graph
  /\ pc' = IF enabled THEN "predict" ELSE "partition"
  /\ UNCHANGED <<enabled, predicted, row, edges, partitionVars>>
-----------------------------------------------------------------------------
\* partition_task, one transaction of the stripe of a worker: the predictor
\* finds at most one conflict with each later transaction.
Compare(w) ==
  /\ pc = "predict"
  /\ row[w] <= NTxns
  /\ \E found \in [row[w] + 1..NTxns -> Conflicts \cup {"NONE"}] :
       LET new == {e \in Edge : e[1] = row[w] /\ e[2] > row[w]
                                 /\ found[e[2]] = e[3]}
       IN  /\ edges' = [edges EXCEPT ![w] = @ \cup new]
           /\ predicted' = predicted \cup new
  /\ row' = [row EXCEPT ![w] = @ + NWorkers]
  /\ UNCHANGED <<pc, enabled, graph, partitionVars>>

\* The worker adds the edges of one transaction under the lock of its shard.
Insert(w, t) ==
  /\ pc = "predict"
  /\ row[w] > NTxns
  /\ t \in {e[1] : e \in edges[w]}
  /\ graph' = [graph EXCEPT ![t] =
                 @ \cup {<<e[2], e[3]>> : e \in {x \in edges[w] : x[1] = t}}]
  /\ edges' = [edges EXCEPT ![w] = {e \in @ : e[1] # t}]
  /\ UNCHANGED <<pc, enabled, predicted, row, partitionVars>>

\* The barrier at the end of the PRODCC_PARTITION phase.
Predicted ==
  /\ pc = "predict"
  /\ \A w \in Workers : row[w] > NTxns /\ edges[w] = {}
  /\ pc' = "partition"
  /\ UNCHANGED <<graphVars, partitionVars>>
-----------------------------------------------------------------------------
\* The blocks of partition_into_fixed_micro_blocks.
NFixed == (NTxns + BatchSize - 1) \div BatchSize

FixedBlock(b) ==
  LET first == (b - 1) * BatchSize
  IN  [i \in 1..(IF b < NFixed THEN BatchSize ELSE NTxns - first) |-> first + i]

FixedBlocks ==
  /\ pc = "partition" /\ ~enabled
  /\ schedule' = [b \in 1..NFixed |-> FixedBlock(b)]
  /\ pc' = "done"
  /\ UNCHANGED <<graphVars, remaining, current, postponed, at>>

\* partition_into_micro_blocks begins.
StartGreedy ==
  /\ pc = "partition" /\ enabled
  /\ remaining' = [t \in Txns |-> t]
  /\ current' = <<>>
  /\ postponed' = <<>>
  /\ at' = 1
  /\ schedule' = <<>>
  /\ pc' = "greedy"
  /\ UNCHANGED graphVars

Member(t, s) == \E i \in 1..Len(s) : s[i] = t

\* The conflicts that keep two transactions apart.
Separates(c) == c \in {"WAW", "RAW"} \/ (c = "WAR" /\ ~ReorderingOptimization)

\* Faulty: only the last transaction of the block is asked.
ShouldPostponeByLast(t) ==
  /\ current # <<>>
  /\ \E e \in graph[current[Len(current)]] : e[1] = t /\ Separates(e[2])

\* Faulty: any conflict is a reason.
ShouldPostponeByAny(t) ==
  \E i \in 1..Len(current) : \E e \in graph[current[i]] : e[1] = t

ShouldPostpone(t) ==
  \E i \in 1..Len(current) : \E e \in graph[current[i]] : e[1] = t /\ Separates(e[2])

Scanning == pc = "greedy" /\ at <= Len(remaining)

Postpone ==
  /\ Scanning
  /\ ShouldPostpone(remaining[at])
  /\ postponed' = Append(postponed, remaining[at])
  /\ at' = at + 1
  /\ UNCHANGED <<pc, graphVars, remaining, current, schedule>>

\* Faulty: a transaction that follows is left out.
PlaceSkipsNext ==
  /\ Scanning
  /\ ~ShouldPostpone(remaining[at])
  /\ current' = Append(current, remaining[at])
  /\ at' = IF at < Len(remaining) THEN at + 2 ELSE at + 1
  /\ UNCHANGED <<pc, graphVars, remaining, postponed, schedule>>

\* Faulty: the transaction is put in front.
PlaceInFront ==
  /\ Scanning
  /\ ~ShouldPostpone(remaining[at])
  /\ current' = <<remaining[at]>> \o current
  /\ at' = at + 1
  /\ UNCHANGED <<pc, graphVars, remaining, postponed, schedule>>

Place ==
  /\ Scanning
  /\ ~ShouldPostpone(remaining[at])
  /\ current' = Append(current, remaining[at])
  /\ at' = at + 1
  /\ UNCHANGED <<pc, graphVars, remaining, postponed, schedule>>

\* The block is complete.  Should it be empty, the code forces the first of
\* the remaining transactions into it.
Without(s, t) == SelectSeq(s, LAMBDA u : u # t)

CloseBlock ==
  /\ pc = "greedy" /\ remaining # <<>> /\ at > Len(remaining)
  /\ schedule' = Append(schedule, IF current = <<>> THEN <<Head(remaining)>> ELSE current)
  /\ remaining' = IF current = <<>> THEN Without(postponed, Head(remaining)) ELSE postponed
  /\ current' = <<>>
  /\ postponed' = <<>>
  /\ at' = 1
  /\ UNCHANGED <<pc, graphVars>>

FinishGreedy ==
  /\ pc = "greedy" /\ remaining = <<>>
  /\ pc' = "done"
  /\ UNCHANGED <<graphVars, partitionVars>>
-----------------------------------------------------------------------------
\* The next macro-block: new transactions, with or without prediction.
NextMacroBlock ==
  /\ pc = "done"
  /\ pc' = "prepare"
  /\ enabled' \in BOOLEAN
  /\ predicted' = {}
  /\ row' = [w \in Workers |-> w]
  /\ UNCHANGED <<graph, edges, partitionVars>>

Work(w) == Compare(w) \/ \E t \in Txns : Insert(w, t)

Manage ==
  \/ Prepare \/ Predicted \/ FixedBlocks \/ StartGreedy
  \/ Postpone \/ Place \/ CloseBlock \/ FinishGreedy \/ NextMacroBlock

Next == Manage \/ \E w \in Workers : Work(w)

Spec == Init /\ [][Next]_vars

-----------------------------------------------------------------------------
\* However the workers interleave, the manager partitions by the conflicts of
\* this macro-block: none is lost, none is left from an earlier one.
GraphComplete ==
  pc \in {"partition", "greedy"} /\ enabled =>
    \A t \in Txns : graph[t] = {<<e[2], e[3]>> : e \in {x \in predicted : x[1] = t}}

InBlock(b, t) == Member(t, schedule[b])

\* partition_into_micro_blocks: no block holds two transactions with a
\* conflict that keeps them apart ("blocks that avoid WAW conflicts and
\* predicted cycles", ProdccManager.h).
BlocksCompatible ==
  pc = "done" /\ enabled =>
    \A b \in 1..Len(schedule) : \A e \in predicted :
      Separates(e[3]) => ~(InBlock(b, e[1]) /\ InBlock(b, e[2]))

\* Every transaction of the macro-block is run once: it has one place in one
\* block.
ScheduledOnce ==
  pc = "done" =>
    \A t \in Txns :
      \E b \in 1..Len(schedule) : \E i \in 1..Len(schedule[b]) :
        /\ schedule[b][i] = t
        /\ \A c \in 1..Len(schedule) : \A j \in 1..Len(schedule[c]) :
             schedule[c][j] = t => c = b /\ j = i

\* A block lists its transactions by ascending id, as the workers, which
\* take every NWorkers-th, and the order of the commits need it.
BlocksAscending ==
  pc = "done" =>
    \A b \in 1..Len(schedule) : \A i, j \in 1..Len(schedule[b]) :
      i < j => schedule[b][i] < schedule[b][j]

\* A transaction waits for a later block only because of one with a smaller
\* id in the block it has missed.
PostponedForCause ==
  pc = "done" /\ enabled =>
    \A b, c \in 1..Len(schedule) : \A t \in Txns :
      b < c /\ InBlock(c, t) =>
        \E e \in predicted : e[2] = t /\ Separates(e[3]) /\ InBlock(b, e[1])
=============================================================================
