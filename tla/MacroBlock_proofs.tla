-------------------------- MODULE MacroBlock_proofs --------------------------
(***************************************************************************)
(* The managers of all nodes run the same phases of the same micro-blocks, *)
(* and a bypass lasts as long as it should: for every number of nodes and  *)
(* of transactions.                                                        *)
(***************************************************************************)
EXTENDS MacroBlock, FiniteSetTheorems, TLAPS

-----------------------------------------------------------------------------
(* The arithmetic of the statistics and of the fixed micro-blocks.         *)

LEMMA Quotient ==
  ASSUME NEW a \in Nat, NEW v \in Nat \ {0}
  PROVE  /\ a \div v \in Nat
         /\ v * (a \div v) <= a
         /\ a < v * (a \div v) + v
OBVIOUS

LEMMA QuotientBounded ==
  ASSUME NEW a \in Nat, NEW v \in Nat \ {0}, NEW b \in Nat, a < v * b + v
  PROVE  a \div v <= b
<1> DEFINE q == a \div v
<1>1. q \in Nat /\ v * q <= a
  BY Quotient
<1> HIDE DEF q
<1>2. ASSUME q > b PROVE FALSE
  <2>1. PICK c \in Nat : q = b + 1 + c
    <3>1. q - b - 1 \in Nat /\ q = b + 1 + (q - b - 1)
      BY <1>1, <1>2
    <3> QED
      BY <3>1
  <2>2. v * q = v * b + v + v * c /\ v * c \in Nat /\ v * b \in Nat
    BY <2>1
  <2> QED
    BY <1>1, <2>2
<1>3. q <= b
  BY <1>1, <1>2
<1> QED
  BY <1>3 DEF q

\* A macro-block has at least one micro-block, and none is empty.
LEMMA SizesInRange == \A p \in BOOLEAN : Sizes(p) \subseteq 1..NTxns
<1> DEFINE a == NTxns + BatchSize - 1
<1>1. a \in Nat /\ NTxns \in Nat \ {0} /\ BatchSize \in Nat \ {0}
  BY SizesAssumption
<1>2. NFixed = a \div BatchSize
  BY DEF NFixed
<1> HIDE DEF a
<1>3. NFixed \in Nat /\ a < BatchSize * NFixed + BatchSize
  BY <1>1, <1>2, Quotient
<1>4. NFixed # 0
  <2>1. BatchSize * 0 + BatchSize = BatchSize
    BY <1>1
  <2>2. a >= BatchSize
    BY <1>1 DEF a
  <2> QED
    BY <1>1, <1>3, <2>1, <2>2
<1>5. NFixed <= NTxns
  <2>1. BatchSize * NTxns >= NTxns
    <3>1. PICK c \in Nat : BatchSize = c + 1
      <4>1. BatchSize - 1 \in Nat /\ BatchSize = (BatchSize - 1) + 1
        BY <1>1
      <4> QED
        BY <4>1
    <3>2. (c + 1) * NTxns = c * NTxns + NTxns /\ c * NTxns \in Nat
      BY <1>1
    <3> QED
      BY <1>1, <3>1, <3>2
  <2>2. BatchSize * NTxns \in Nat
    BY <1>1
  <2>3. a < BatchSize * NTxns + BatchSize
    BY <1>1, <2>1, <2>2 DEF a
  <2> QED
    BY <1>1, <1>2, <2>3, QuotientBounded
<1> QED
  BY <1>1, <1>3, <1>4, <1>5 DEF Sizes

\* An abort rate is at most one.
LEMMA FractionBounded ==
  ASSUME NEW b \in Nat, NEW v \in Nat \ {0}, NEW d \in Nat, d <= v
  PROVE  (b * d) \div v \in 0..b
<1>1. PICK c \in Nat : v = d + c
  <2>1. v - d \in Nat /\ v = d + (v - d)
    OBVIOUS
  <2> QED
    BY <2>1
<1>2. b * d \in Nat /\ b * c \in Nat /\ v * b \in Nat /\ v * b = b * d + b * c
  BY <1>1
<1>3. b * d < v * b + v
  BY <1>2
<1>4. (b * d) \div v \in Nat
  BY <1>2, Quotient
<1>5. (b * d) \div v <= b
  BY <1>2, <1>3, QuotientBounded
<1> QED
  BY <1>4, <1>5

LEMMA RateInRange ==
  ASSUME NEW v \in Nat, NEW d \in Nat, d <= v
  PROVE  AbortPpm(v, d) \in 0..Million
<1>1. Million \in Nat
  BY SMT DEF Million
<1>2. CASE v = 0
  BY <1>1, <1>2 DEF AbortPpm
<1>3. CASE v # 0
  BY <1>1, <1>3, FractionBounded DEF AbortPpm
<1> QED
  BY <1>2, <1>3

-----------------------------------------------------------------------------
(* The inductive invariant, part by part.                                  *)

MacroInv == TypeOK /\ EverybodyInStep

Places == {"loop", "in_read", "read", "in_partition", "partitioned", "blocks",
           "in_block", "gone"}

Signals == {"READ", "PARTITION", "BLOCK", "EXIT"}

\* The types in three parts: where the nodes are, what they send, what they
\* remember of the last macro-block.
PlaceTypes ==
  /\ at \in [Nodes -> Places]
  /\ epoch \in [Nodes -> 0..MaxEpochs]
  /\ size \in [Nodes -> 0..NTxns]
  /\ index \in [Nodes -> 0..NTxns]
  /\ begun \in [Nodes -> Nat]
  /\ left \in [Nodes -> Nat]
  /\ awaited \in 0..Cardinality(Nodes)

QueueTypes ==
  /\ signals \in [Followers -> Seq(Signals)]
  /\ vectors \in [Nodes -> Seq(1..NTxns)]

StatisticTypes ==
  /\ delayed \in [Nodes -> 0..NTxns]
  /\ valid \in [Nodes -> 0..NTxns]
  /\ usedPrediction \in [Nodes -> BOOLEAN]
  /\ baseline \in [Nodes -> 0..Million]
  /\ cooldown \in [Nodes -> 0..BypassCooldownEpochs]
  /\ calm \in [Nodes -> 0..BypassCooldownEpochs + 1]

LEMMA TypeParts ==
  /\ TypeOK <=> PlaceTypes /\ QueueTypes /\ StatisticTypes
  /\ TypeOK' <=> PlaceTypes' /\ QueueTypes' /\ StatisticTypes'
BY Zenon DEF TypeOK, PlaceTypes, QueueTypes, StatisticTypes, Places, Signals

LEMMA ConstantFacts ==
  /\ Coordinator \in Nodes /\ Coordinator \notin Followers
  /\ \A n \in Nodes : n = Coordinator \/ n \in Followers
  /\ \A n \in Followers : n \in Nodes /\ n # Coordinator
  /\ IsFiniteSet(Followers) /\ Cardinality(Followers) = Cardinality(Nodes) - 1
  /\ Cardinality(Nodes) \in Nat \ {0} /\ Cardinality(Followers) \in Nat
  /\ NTxns \in Nat \ {0} /\ MaxEpochs \in Nat
  /\ BypassCooldownEpochs \in Nat \ {0}
<1>1. Cardinality(Nodes) \in Nat
  BY NodesAssumption, FS_CardinalityType
<1>2. IsFiniteSet(Followers) /\ Cardinality(Followers) = Cardinality(Nodes) - 1
  BY NodesAssumption, FS_RemoveElement DEF Followers
<1>3. Cardinality(Followers) \in Nat
  BY <1>2, FS_CardinalityType
<1> QED
  BY <1>1, <1>2, <1>3, NodesAssumption, SizesAssumption, MaxEpochsAssumption, PpmAssumption
  DEF Followers

LEMMA QueueFacts ==
  ASSUME NEW T, NEW s \in Seq(T), s # <<>>
  PROVE  /\ Tail(s) \in Seq(T) /\ Head(s) \in T
         /\ Len(s) \in Nat \ {0} /\ Len(Tail(s)) = Len(s) - 1 /\ Head(s) = s[1]
         /\ \A i \in 1..Len(s) : i = 1 \/ (i - 1 \in 1..Len(Tail(s)) /\ s[i] = Tail(s)[i - 1])
OBVIOUS

LEMMA MacroInit == Init => MacroInv
<1> SUFFICES ASSUME Init PROVE MacroInv
  OBVIOUS
<1> USE ConstantFacts
<1>1. PlaceTypes
  BY DEF Init, PlaceTypes, Places
<1>2. QueueTypes
  <2>1. <<>> \in Seq(Signals) /\ <<>> \in Seq(1..NTxns)
    OBVIOUS
  <2> QED
    BY <2>1 DEF Init, QueueTypes
<1>3. StatisticTypes
  <2>1. Million \in Nat
    BY SMT DEF Million
  <2> QED
    BY <2>1 DEF Init, StatisticTypes
<1>4. /\ \A n \in Nodes : at[n] = "loop" /\ begun[n] = 0 /\ left[n] = 0 /\ epoch[n] = 0
                          /\ vectors[n] = <<>>
      /\ \A n \in Followers : signals[n] = <<>>
  BY DEF Init
<1>5. \A n \in Nodes : NodeInStep(n)
  BY <1>4 DEF NodeInStep, Inside
<1>6. \A n \in Followers : FollowerInStep(n)
  BY <1>4 DEF FollowerInStep, Along, AtEnd
<1>7. SizesInStep
  BY <1>4 DEF SizesInStep
<1> QED
  BY <1>1, <1>2, <1>3, <1>5, <1>6, <1>7, TypeParts DEF MacroInv, EverybodyInStep

\* What a step finds of a follower that is signalled something.
LEMMA SignalFacts ==
  ASSUME MacroInv, NEW n \in Followers, signals[n] # <<>>
  PROVE  /\ Tail(signals[n]) = <<>>
         /\ at[n] \in {"loop", "read", "partitioned", "blocks"}
         /\ at[n] = "loop" /\ Head(signals[n]) # "EXIT" =>
              /\ at[Coordinator] = "in_read" /\ Behind(n, "READ")
              /\ epoch[n] + 1 = epoch[Coordinator]
         /\ at[n] = "loop" /\ Head(signals[n]) = "EXIT" => at[Coordinator] = "gone"
         /\ at[n] = "read" => /\ at[Coordinator] = "in_partition" /\ Behind(n, "PARTITION")
                              /\ epoch[n] = epoch[Coordinator]
         /\ at[n] = "blocks" /\ index[n] < size[n] =>
              /\ at[Coordinator] = "in_block" /\ Behind(n, "BLOCK")
              /\ epoch[n] = epoch[Coordinator] /\ vectors[n] = <<>>
              /\ index[n] + 1 = index[Coordinator] /\ size[n] = size[Coordinator]
         /\ at[n] = "blocks" /\ index[n] = size[n] => Head(signals[n]) \in {"READ", "EXIT"}
<1>1. /\ PlaceTypes /\ NodeInStep(n) /\ NodeInStep(Coordinator) /\ FollowerInStep(n)
      /\ at[Coordinator] \in Places /\ n \in Nodes
      /\ index[Coordinator] \in Nat /\ size[Coordinator] \in Nat
      /\ index[n] \in Nat /\ size[n] \in Nat
  <2>1. PlaceTypes /\ EverybodyInStep /\ n \in Nodes /\ Coordinator \in Nodes /\ NTxns \in Nat
    BY TypeParts, ConstantFacts DEF MacroInv
  <2>2. NodeInStep(n) /\ NodeInStep(Coordinator) /\ FollowerInStep(n)
    BY <2>1 DEF EverybodyInStep
  <2> QED
    BY <2>1, <2>2 DEF PlaceTypes
<1>2. ~Along(n)
  BY DEF Along
<1>3. \A s : Behind(n, s) => Tail(signals[n]) = <<>> /\ Head(signals[n]) = s
  BY DEF Behind
<1>4. CASE at[Coordinator] = "in_read"
  BY <1>1, <1>2, <1>3, <1>4 DEF FollowerInStep, AtEnd
<1>5. CASE at[Coordinator] = "in_partition"
  BY <1>1, <1>2, <1>3, <1>5 DEF FollowerInStep
<1>6. CASE at[Coordinator] = "in_block"
  BY <1>1, <1>2, <1>3, <1>6 DEF FollowerInStep, HasRun, NodeInStep
<1>7. CASE at[Coordinator] = "gone"
  <2>1. signals[n] = <<"EXIT">> /\ AtEnd(n)
    BY <1>1, <1>7 DEF FollowerInStep
  <2>2. Head(signals[n]) = "EXIT" /\ Tail(signals[n]) = <<>>
    BY <2>1
  <2> QED
    BY <1>1, <1>7, <2>1, <2>2 DEF AtEnd
<1> QED
  BY <1>1, <1>2, <1>4, <1>5, <1>6, <1>7 DEF FollowerInStep, Places

\* The facts that the proof of every step starts from.
LEMMA StepFacts ==
  ASSUME MacroInv
  PROVE  /\ PlaceTypes /\ QueueTypes /\ StatisticTypes
         /\ \A n \in Nodes : /\ NodeInStep(n) /\ at[n] \in Places
                             /\ begun[n] \in Nat /\ left[n] \in Nat
                             /\ index[n] \in Nat /\ size[n] \in 0..NTxns
                             /\ epoch[n] \in 0..MaxEpochs
         /\ \A n \in Followers : FollowerInStep(n)
         /\ SizesInStep
BY TypeParts, ConstantFacts DEF MacroInv, EverybodyInStep, PlaceTypes

\* The statistics of the last macro-block have their types.
LEMMA StatisticsTyped ==
  ASSUME MacroInv, NEW n \in Nodes, CleanupBatch(n)
  PROVE  /\ delayed' \in [Nodes -> 0..NTxns] /\ valid' \in [Nodes -> 0..NTxns]
         /\ baseline' \in [Nodes -> 0..Million]
         /\ cooldown' \in [Nodes -> 0..BypassCooldownEpochs]
         /\ calm' \in [Nodes -> 0..BypassCooldownEpochs + 1]
<1>1. StatisticTypes /\ BypassCooldownEpochs \in Nat \ {0} /\ NTxns \in Nat
  BY StepFacts, ConstantFacts
<1>2. PICK o \in Outcomes(n) :
        /\ valid' = [valid EXCEPT ![n] = o[1]]
        /\ delayed' = [delayed EXCEPT ![n] = o[2]]
        /\ baseline' = [baseline EXCEPT ![n] =
                          IF usedPrediction[n] THEN @ ELSE AbortPpm(o[1], o[2])]
        /\ cooldown' = [cooldown EXCEPT ![n] =
                          IF Regressed(n, o[1], o[2]) THEN BypassCooldownEpochs
                                                      ELSE Decremented(n)]
        /\ calm' = [calm EXCEPT ![n] = IF Regressed(n, o[1], o[2]) THEN 0 ELSE @]
  BY DEF CleanupBatch
<1>3. o[1] \in 0..NTxns /\ o[2] \in 0..NTxns /\ o[2] <= o[1]
  BY <1>1 DEF Outcomes
<1>4. AbortPpm(o[1], o[2]) \in 0..Million
  BY <1>1, <1>3, RateInRange
<1>5. Decremented(n) \in 0..BypassCooldownEpochs
  BY <1>1 DEF Decremented, StatisticTypes
<1>6. delayed' \in [Nodes -> 0..NTxns] /\ valid' \in [Nodes -> 0..NTxns]
  BY <1>1, <1>2, <1>3 DEF StatisticTypes
<1>7. baseline' \in [Nodes -> 0..Million]
  BY <1>1, <1>2, <1>4 DEF StatisticTypes
<1>8. cooldown' \in [Nodes -> 0..BypassCooldownEpochs]
  BY <1>1, <1>2, <1>5 DEF StatisticTypes
<1>9. calm' \in [Nodes -> 0..BypassCooldownEpochs + 1]
  BY <1>1, <1>2 DEF StatisticTypes
<1> QED
  BY <1>6, <1>7, <1>8, <1>9

\* Starting a phase.
LEMMA StartTyped ==
  ASSUME MacroInv, NEW n \in Nodes, NEW s \in Signals, Start(n, s)
  PROVE  /\ signals' \in [Followers -> Seq(Signals)]
         /\ begun' \in [Nodes -> Nat]
<1>1. PlaceTypes /\ QueueTypes
  BY StepFacts
<1>2. begun' \in [Nodes -> Nat]
  BY <1>1 DEF Start, Enter, PlaceTypes
<1>3. CASE n = Coordinator
  <2>1. \A o \in Followers : Append(signals[o], s) \in Seq(Signals)
    BY <1>1 DEF QueueTypes
  <2> QED
    BY <1>2, <1>3, <2>1 DEF Start, Signal
<1>4. CASE n # Coordinator
  <2>1. n \in Followers /\ signals[n] # <<>> /\ signals' = [signals EXCEPT ![n] = Tail(@)]
    BY <1>4 DEF Start, TakeSignal
  <2>2. Tail(signals[n]) \in Seq(Signals)
    BY <1>1, <2>1, QueueFacts DEF QueueTypes
  <2> QED
    BY <1>1, <1>2, <2>1, <2>2 DEF QueueTypes
<1> QED
  BY <1>3, <1>4

LEMMA MacroTypes ==
  ASSUME MacroInv, Next
  PROVE  TypeOK'
<1>0. /\ PlaceTypes /\ QueueTypes /\ StatisticTypes
      /\ Coordinator \in Nodes /\ \A n \in Nodes : n = Coordinator \/ n \in Followers
      /\ NTxns \in Nat \ {0} /\ MaxEpochs \in Nat /\ Cardinality(Nodes) \in Nat \ {0}
      /\ BypassCooldownEpochs \in Nat \ {0}
      /\ "READ" \in Signals /\ "PARTITION" \in Signals /\ "BLOCK" \in Signals /\ "EXIT" \in Signals
  BY StepFacts, ConstantFacts DEF Signals
<1> SUFFICES PlaceTypes' /\ QueueTypes' /\ StatisticTypes'
  BY TypeParts
<1> USE <1>0
<1>1. ASSUME NEW n \in Nodes, BeginMacroBlock(n)
      PROVE  PlaceTypes' /\ QueueTypes' /\ StatisticTypes'
  <2>1. signals' \in [Followers -> Seq(Signals)] /\ begun' \in [Nodes -> Nat]
    BY <1>1, StartTyped DEF BeginMacroBlock
  <2>2. epoch[n] + 1 \in 0..MaxEpochs
    <3>1. CASE n = Coordinator
      BY <1>1, <3>1 DEF BeginMacroBlock, PlaceTypes
    <3>2. CASE n \in Followers
      <4>1. epoch[n] + 1 = epoch[Coordinator]
        BY <1>1, <3>2, SignalFacts, ConstantFacts DEF BeginMacroBlock
      <4> QED
        BY <4>1 DEF PlaceTypes
    <3> QED
      BY <3>1, <3>2
  <2>3. PlaceTypes'
    <3>1. epoch' \in [Nodes -> 0..MaxEpochs]
      BY <1>1, <2>2 DEF BeginMacroBlock, PlaceTypes
    <3> QED
      BY <1>1, <2>1, <3>1 DEF BeginMacroBlock, Goto, PlaceTypes, Places
  <2>4. QueueTypes'
    BY <1>1, <2>1 DEF BeginMacroBlock, QueueTypes
  <2>5. StatisticTypes'
    <3>1. CleanupBatch(n) /\ usedPrediction' = usedPrediction
      BY <1>1 DEF BeginMacroBlock
    <3> QED
      BY <3>1, StatisticsTyped DEF StatisticTypes
  <2> QED
    BY <2>3, <2>4, <2>5
<1>2. CASE Stop
  <2>1. \A o \in Followers : Append(signals[o], "EXIT") \in Seq(Signals)
    BY DEF QueueTypes
  <2>2. QueueTypes'
    BY <1>2, <2>1 DEF Stop, Signal, QueueTypes
  <2> QED
    BY <1>2, <2>2 DEF Stop, Goto, PlaceTypes, Places, StatisticTypes, statistics
<1>3. ASSUME NEW n \in Nodes, Exit(n) PROVE PlaceTypes' /\ QueueTypes' /\ StatisticTypes'
  <2>1. Tail(signals[n]) \in Seq(Signals)
    BY <1>3, QueueFacts DEF Exit, QueueTypes
  <2>2. QueueTypes'
    BY <1>3, <2>1 DEF Exit, TakeSignal, QueueTypes
  <2> QED
    BY <1>3, <2>2 DEF Exit, Goto, PlaceTypes, Places, StatisticTypes, statistics
<1>4. ASSUME NEW n \in Nodes, LeaveRead(n) \/ LeaveBlock(n) \/ EndMacroBlock(n)
      PROVE  PlaceTypes' /\ QueueTypes' /\ StatisticTypes'
  <2>1. PlaceTypes'
    BY <1>4 DEF LeaveRead, LeaveBlock, EndMacroBlock, Leave, Goto, PlaceTypes, Places
  <2> QED
    BY <1>4, <2>1
    DEF LeaveRead, LeaveBlock, EndMacroBlock, QueueTypes, StatisticTypes, statistics
<1>5. ASSUME NEW n \in Nodes, BeginPartition(n)
      PROVE  PlaceTypes' /\ QueueTypes' /\ StatisticTypes'
  <2>1. signals' \in [Followers -> Seq(Signals)] /\ begun' \in [Nodes -> Nat]
    BY <1>5, StartTyped DEF BeginPartition
  <2>2. PlaceTypes' /\ QueueTypes'
    BY <1>5, <2>1 DEF BeginPartition, Goto, PlaceTypes, Places, QueueTypes
  <2>3. EnableConflictPrediction(n) \in BOOLEAN
    BY DEF EnableConflictPrediction
  <2>4. usedPrediction' \in [Nodes -> BOOLEAN]
    BY <1>5, <2>3 DEF BeginPartition, StatisticTypes
  <2>5. calm' \in [Nodes -> 0..BypassCooldownEpochs + 1]
    BY <1>5 DEF BeginPartition, StatisticTypes
  <2> QED
    BY <1>5, <2>2, <2>4, <2>5 DEF BeginPartition, StatisticTypes, statistics
<1>6. ASSUME NEW n \in Nodes, LeavePartition(n)
      PROVE  PlaceTypes' /\ QueueTypes' /\ StatisticTypes'
  <2>1. PICK s \in Sizes(usedPrediction[n]) :
          /\ size' = [size EXCEPT ![n] = s]
          /\ vectors' = IF n = Coordinator THEN vectors
                        ELSE [vectors EXCEPT ![Coordinator] = Append(@, s)]
    BY <1>6 DEF LeavePartition
  <2>2. s \in 1..NTxns
    BY <2>1, SizesInRange DEF StatisticTypes
  <2>3. Append(vectors[Coordinator], s) \in Seq(1..NTxns)
    BY <2>2 DEF QueueTypes
  <2>4. vectors' \in [Nodes -> Seq(1..NTxns)]
    BY <2>1, <2>3 DEF QueueTypes
  <2>5. size' \in [Nodes -> 0..NTxns] /\ left' \in [Nodes -> Nat] /\ at' \in [Nodes -> Places]
        /\ awaited' \in 0..Cardinality(Nodes) /\ index' \in [Nodes -> 0..NTxns]
    <3>1. size' \in [Nodes -> 0..NTxns]
      BY <2>1, <2>2 DEF PlaceTypes
    <3>2. left' \in [Nodes -> Nat] /\ at' \in [Nodes -> Places]
      BY <1>6 DEF LeavePartition, Leave, Goto, PlaceTypes, Places
    <3>3. awaited' \in 0..Cardinality(Nodes) /\ index' \in [Nodes -> 0..NTxns]
      BY <1>6 DEF LeavePartition, PlaceTypes
    <3> QED
      BY <3>1, <3>2, <3>3
  <2> QED
    BY <1>6, <2>4, <2>5
    DEF LeavePartition, PlaceTypes, QueueTypes, StatisticTypes, statistics
<1>7. CASE ReceiveSize
  <2>1. /\ Tail(vectors[Coordinator]) \in Seq(1..NTxns)
        /\ Head(vectors[Coordinator]) \in 1..NTxns
    BY <1>7, QueueFacts DEF ReceiveSize, QueueTypes
  <2>2. vectors' \in [Nodes -> Seq(1..NTxns)]
    BY <1>7, <2>1 DEF ReceiveSize, QueueTypes
  <2>3. size' \in [Nodes -> 0..NTxns] /\ awaited' \in 0..Cardinality(Nodes)
    BY <1>7, <2>1 DEF ReceiveSize, PlaceTypes
  <2> QED
    BY <1>7, <2>2, <2>3 DEF ReceiveSize, PlaceTypes, QueueTypes, StatisticTypes, statistics
<1>8. CASE AnnounceSize
  <2>1. size[Coordinator] \in 1..NTxns
    BY <1>8, StepFacts DEF AnnounceSize, NodeInStep
  <2>2. \A o \in Nodes : Append(vectors[o], size[Coordinator]) \in Seq(1..NTxns)
    BY <2>1 DEF QueueTypes
  <2>3. vectors' \in [Nodes -> Seq(1..NTxns)]
    BY <1>8, <2>2 DEF AnnounceSize, QueueTypes
  <2>4. PlaceTypes'
    BY <1>8 DEF AnnounceSize, Goto, PlaceTypes, Places
  <2> QED
    BY <1>8, <2>3, <2>4 DEF AnnounceSize, QueueTypes, StatisticTypes, statistics
<1>9. ASSUME NEW n \in Nodes, PadSchedule(n)
      PROVE  PlaceTypes' /\ QueueTypes' /\ StatisticTypes'
  <2>1. Tail(vectors[n]) \in Seq(1..NTxns) /\ Head(vectors[n]) \in 1..NTxns
    BY <1>9, QueueFacts DEF PadSchedule, QueueTypes
  <2>2. vectors' \in [Nodes -> Seq(1..NTxns)]
    BY <1>9, <2>1 DEF PadSchedule, QueueTypes
  <2>3. size' \in [Nodes -> 0..NTxns] /\ at' \in [Nodes -> Places]
    BY <1>9, <2>1, SMTT(30) DEF PadSchedule, Goto, PlaceTypes, Places
  <2> QED
    BY <1>9, <2>2, <2>3 DEF PadSchedule, PlaceTypes, QueueTypes, StatisticTypes, statistics
<1>10. ASSUME NEW n \in Nodes, BeginBlock(n)
       PROVE  PlaceTypes' /\ QueueTypes' /\ StatisticTypes'
  <2>1. signals' \in [Followers -> Seq(Signals)] /\ begun' \in [Nodes -> Nat]
    BY <1>10, StartTyped DEF BeginBlock
  <2>2. index' \in [Nodes -> 0..NTxns]
    BY <1>10 DEF BeginBlock, PlaceTypes
  <2>3. PlaceTypes' /\ QueueTypes'
    BY <1>10, <2>1, <2>2 DEF BeginBlock, Goto, PlaceTypes, Places, QueueTypes
  <2> QED
    BY <1>10, <2>3 DEF BeginBlock, StatisticTypes, statistics
<1> QED
  BY <1>1, <1>2, <1>3, <1>4, <1>5, <1>6, <1>7, <1>8, <1>9, <1>10 DEF Next, Coordinate, Manage

LEMMA NodeUntouched ==
  ASSUME NEW o \in Nodes, NodeInStep(o), at'[o] = at[o], begun'[o] = begun[o],
         left'[o] = left[o], size'[o] = size[o], index'[o] = index[o]
  PROVE  NodeInStep(o)'
BY DEF NodeInStep, Inside

\* A follower's step leaves the others alone.
LEMMA FollowersApart ==
  ASSUME MacroInv, NEW n \in Followers,
         \A o \in Nodes : o # n =>
           /\ at'[o] = at[o] /\ epoch'[o] = epoch[o] /\ begun'[o] = begun[o]
           /\ left'[o] = left[o] /\ size'[o] = size[o] /\ index'[o] = index[o],
         \A o \in Followers : o # n => vectors'[o] = vectors[o] /\ signals'[o] = signals[o]
  PROVE  /\ \A o \in Nodes : o # n => NodeInStep(o)'
         /\ \A o \in Followers : o # n => FollowerInStep(o)'
<1>1. \A o \in Nodes : o # n => NodeInStep(o)'
  BY StepFacts, NodeUntouched
<1>2. Coordinator \in Nodes /\ Coordinator # n
  BY ConstantFacts
<1>3. ASSUME NEW o \in Followers, o # n PROVE FollowerInStep(o)'
  <2>1. FollowerInStep(o) /\ o \in Nodes
    BY StepFacts, ConstantFacts
  <2>2. /\ at'[o] = at[o] /\ epoch'[o] = epoch[o] /\ begun'[o] = begun[o]
        /\ size'[o] = size[o] /\ index'[o] = index[o]
        /\ vectors'[o] = vectors[o] /\ signals'[o] = signals[o]
    BY <1>3, <2>1
  <2>3. /\ at'[Coordinator] = at[Coordinator] /\ epoch'[Coordinator] = epoch[Coordinator]
        /\ begun'[Coordinator] = begun[Coordinator] /\ size'[Coordinator] = size[Coordinator]
        /\ index'[Coordinator] = index[Coordinator]
    BY <1>2
  <2>4. /\ \A i : HasRun(o, i)' <=> HasRun(o, i)
        /\ \A s : Behind(o, s)' <=> Behind(o, s)
        /\ (Along(o)' <=> Along(o)) /\ (AtEnd(o)' <=> AtEnd(o))
    BY <2>2, <2>3 DEF HasRun, Behind, Along, AtEnd
  <2>5. HasRun(o, index[Coordinator])' <=> HasRun(o, index[Coordinator])
    BY <2>2, <2>3 DEF HasRun
  <2>6. HasRun(o, index[Coordinator] - 1)' <=> HasRun(o, index[Coordinator] - 1)
    BY <2>2, <2>3 DEF HasRun
  <2> QED
    BY <2>1, <2>2, <2>3, <2>4, <2>5, <2>6 DEF FollowerInStep
<1> QED
  BY <1>1, <1>3

\* The sizes matter only while the coordinator collects them.
LEMMA NothingCollected ==
  ASSUME MacroInv, at[Coordinator] \notin {"in_partition", "partitioned"},
         at'[Coordinator] = at[Coordinator], vectors'[Coordinator] = vectors[Coordinator]
  PROVE  SizesInStep'
BY StepFacts DEF SizesInStep

\* A follower begins a phase.
LEMMA FollowerBegins ==
  ASSUME MacroInv, NEW n \in Followers,
         BeginMacroBlock(n) \/ BeginPartition(n) \/ BeginBlock(n)
  PROVE  EverybodyInStep'
<1>0. /\ PlaceTypes /\ QueueTypes /\ NodeInStep(n) /\ FollowerInStep(n)
      /\ n \in Nodes /\ n # Coordinator /\ Coordinator \in Nodes
      /\ at[Coordinator] \in Places /\ begun[n] \in Nat /\ left[n] \in Nat /\ begun[Coordinator] \in Nat
      /\ index[n] \in Nat /\ size[n] \in Nat /\ index[Coordinator] \in Nat
      /\ epoch[n] \in Nat /\ epoch[Coordinator] \in Nat
  BY StepFacts, ConstantFacts
<1>1. /\ \A o \in Nodes : o # n =>
           /\ at'[o] = at[o] /\ epoch'[o] = epoch[o] /\ begun'[o] = begun[o]
           /\ left'[o] = left[o] /\ size'[o] = size[o] /\ index'[o] = index[o]
      /\ begun'[n] = begun[n] + 1 /\ left'[n] = left[n] /\ size'[n] = size[n]
      /\ vectors' = vectors
  BY <1>0
  DEF BeginMacroBlock, BeginPartition, BeginBlock, Start, Enter, Goto, PlaceTypes, statistics
<1>2. /\ signals[n] # <<>>
      /\ signals' = [signals EXCEPT ![n] = Tail(@)]
  BY <1>0 DEF BeginMacroBlock, BeginPartition, BeginBlock, Start, TakeSignal
<1>3. /\ \A o \in Followers : o # n => signals'[o] = signals[o]
      /\ signals'[n] = <<>>
  BY <1>0, <1>2, SignalFacts DEF QueueTypes
<1>4. /\ \A o \in Nodes : o # n => NodeInStep(o)'
      /\ \A o \in Followers : o # n => FollowerInStep(o)'
  BY <1>1, <1>3, FollowersApart
<1>5. CASE BeginMacroBlock(n)
  <2>1. /\ at[Coordinator] = "in_read" /\ Behind(n, "READ") /\ epoch[n] + 1 = epoch[Coordinator]
        /\ at[n] = "loop"
    BY <1>0, <1>2, <1>5, SignalFacts DEF BeginMacroBlock
  <2>2. at'[n] = "in_read" /\ epoch'[n] = epoch[n] + 1
    BY <1>0, <1>5 DEF BeginMacroBlock, Goto, PlaceTypes
  <2>3. FollowerInStep(n)'
    BY <1>0, <1>1, <1>3, <2>1, <2>2 DEF FollowerInStep, Behind, Along
  <2>4. NodeInStep(n)'
    BY <1>0, <1>1, <2>1, <2>2 DEF NodeInStep, Inside
  <2>5. SizesInStep'
    BY <1>0, <1>1, <2>1, NothingCollected
  <2> QED
    BY <1>4, <2>3, <2>4, <2>5 DEF EverybodyInStep
<1>6. CASE BeginPartition(n)
  <2>1. /\ at[Coordinator] = "in_partition" /\ Behind(n, "PARTITION")
        /\ epoch[n] = epoch[Coordinator] /\ at[n] = "read"
    BY <1>0, <1>2, <1>6, SignalFacts DEF BeginPartition
  <2>2. at'[n] = "in_partition" /\ epoch'[n] = epoch[n]
    BY <1>0, <1>6 DEF BeginPartition, Goto, PlaceTypes
  <2>3. FollowerInStep(n)'
    BY <1>0, <1>1, <1>3, <2>1, <2>2 DEF FollowerInStep, Behind, Along
  <2>4. NodeInStep(n)'
    BY <1>0, <1>1, <2>1, <2>2 DEF NodeInStep, Inside
  <2>5. SizesInStep'
    <3>1. {o \in Followers : at[o] = "partitioned"}' = {o \in Followers : at[o] = "partitioned"}
      BY <1>1, <2>1, <2>2, ConstantFacts
    <3>2. \A o \in Followers : Announced(o)' <=> Announced(o)
      BY <1>1, ConstantFacts DEF Announced
    <3> QED
      BY <1>0, <1>1, <2>1, <2>2, <3>1, <3>2, StepFacts, ConstantFacts DEF SizesInStep
  <2> QED
    BY <1>4, <2>3, <2>4, <2>5 DEF EverybodyInStep
<1>7. CASE BeginBlock(n)
  <2>1. /\ at[Coordinator] = "in_block" /\ Behind(n, "BLOCK")
        /\ epoch[n] = epoch[Coordinator] /\ vectors[n] = <<>> /\ at[n] = "blocks"
        /\ index[n] < size[n]
        /\ index[n] + 1 = index[Coordinator] /\ size[n] = size[Coordinator]
    BY <1>0, <1>2, <1>7, SignalFacts DEF BeginBlock
  <2>2. at'[n] = "in_block" /\ epoch'[n] = epoch[n] /\ index'[n] = index[n] + 1
    BY <1>0, <1>7 DEF BeginBlock, Goto, PlaceTypes
  <2>3. FollowerInStep(n)'
    BY <1>0, <1>1, <1>3, <2>1, <2>2 DEF FollowerInStep, Behind, Along
  <2>4. NodeInStep(n)'
    BY <1>0, <1>1, <2>1, <2>2 DEF NodeInStep, Inside
  <2>5. SizesInStep'
    BY <1>0, <1>1, <2>1, NothingCollected
  <2> QED
    BY <1>4, <2>3, <2>4, <2>5 DEF EverybodyInStep
<1> QED
  BY <1>5, <1>6, <1>7

\* A follower leaves a phase, or goes on without one.
LEMMA FollowerGoesOn ==
  ASSUME MacroInv, NEW n \in Followers,
         Exit(n) \/ LeaveRead(n) \/ PadSchedule(n) \/ LeaveBlock(n) \/ EndMacroBlock(n)
  PROVE  EverybodyInStep'
<1>0. /\ PlaceTypes /\ QueueTypes /\ NodeInStep(n) /\ FollowerInStep(n)
      /\ n \in Nodes /\ n # Coordinator /\ Coordinator \in Nodes
      /\ at[Coordinator] \in Places /\ begun[n] \in Nat /\ left[n] \in Nat /\ begun[Coordinator] \in Nat
      /\ index[n] \in Nat /\ size[n] \in Nat /\ index[Coordinator] \in Nat /\ size[Coordinator] \in Nat
  BY StepFacts, ConstantFacts
<1>1. /\ \A o \in Nodes : o # n =>
           /\ at'[o] = at[o] /\ epoch'[o] = epoch[o] /\ begun'[o] = begun[o]
           /\ left'[o] = left[o] /\ size'[o] = size[o] /\ index'[o] = index[o]
           /\ vectors'[o] = vectors[o]
      /\ \A o \in Followers : o # n => signals'[o] = signals[o]
      /\ UNCHANGED <<begun, epoch, index>>
  BY <1>0
  DEF Exit, LeaveRead, PadSchedule, LeaveBlock, EndMacroBlock, Leave, TakeSignal, Goto,
      PlaceTypes, QueueTypes, statistics
<1>2. /\ \A o \in Nodes : o # n => NodeInStep(o)'
      /\ \A o \in Followers : o # n => FollowerInStep(o)'
  BY <1>1, FollowersApart, ConstantFacts
<1>3. ASSUME at[Coordinator] \notin {"in_partition", "partitioned"}
      PROVE  SizesInStep'
  BY <1>0, <1>1, <1>3, NothingCollected
<1>4. CASE Exit(n)
  <2>1. at[Coordinator] = "gone" /\ Tail(signals[n]) = <<>>
    BY <1>0, <1>4, SignalFacts DEF Exit
  <2>2. at'[n] = "gone" /\ signals'[n] = <<>> /\ UNCHANGED <<vectors, left, size>> /\ at[n] = "loop"
    BY <1>0, <1>4, <2>1 DEF Exit, TakeSignal, Goto, PlaceTypes, QueueTypes
  <2>3. FollowerInStep(n)'
    BY <1>0, <1>1, <2>1, <2>2 DEF FollowerInStep
  <2>4. NodeInStep(n)'
    BY <1>0, <1>1, <2>2 DEF NodeInStep, Inside
  <2> QED
    BY <1>2, <1>3, <2>1, <2>3, <2>4 DEF EverybodyInStep
<1>5. CASE LeaveRead(n)
  <2>1. at[n] = "in_read" /\ at[Coordinator] = "in_read" /\ Along(n)
    BY <1>0, <1>5 DEF LeaveRead, FollowerInStep, AtEnd, HasRun, Places
  <2>2. /\ at'[n] = "read" /\ left'[n] = left[n] + 1 /\ UNCHANGED <<vectors, signals, size>>
    BY <1>0, <1>5 DEF LeaveRead, Leave, Goto, PlaceTypes
  <2>3. FollowerInStep(n)'
    BY <1>0, <1>1, <2>1, <2>2 DEF FollowerInStep, Along
  <2>4. NodeInStep(n)'
    BY <1>0, <1>1, <2>1, <2>2 DEF NodeInStep, Inside
  <2> QED
    BY <1>2, <1>3, <2>1, <2>3, <2>4 DEF EverybodyInStep
<1>6. CASE PadSchedule(n)
  <2>1. /\ at[n] = "partitioned" /\ vectors[n] # <<>>
    BY <1>6 DEF PadSchedule
  <2>2. /\ at[Coordinator] \in {"blocks", "in_block"}
        /\ \E i \in Nat : HasRun(n, i)
    BY <1>0, <2>1 DEF FollowerInStep, AtEnd, Places, HasRun
  <2>3. vectors[n] = <<size[Coordinator]>> /\ size[n] <= size[Coordinator]
    BY <2>1, <2>2 DEF HasRun
  <2>4. Head(vectors[n]) = size[Coordinator] /\ Tail(vectors[n]) = <<>>
    BY <2>3
  <2>5. size'[n] = IF Head(vectors[n]) > size[n] THEN Head(vectors[n]) ELSE size[n]
    BY <1>0, <1>6 DEF PadSchedule, PlaceTypes
  <2>6. size'[n] = size[Coordinator]
    BY <1>0, <2>3, <2>4, <2>5
  <2>7. /\ at'[n] = "blocks" /\ vectors'[n] = <<>> /\ UNCHANGED <<signals, left>>
    BY <1>0, <1>6, <2>4 DEF PadSchedule, Goto, PlaceTypes, QueueTypes
  <2>8. index[n] = 0
    BY <1>0, <2>1 DEF NodeInStep
  <2>9. \A i : HasRun(n, i) => i = 0
    BY <2>1 DEF HasRun
  <2>10. size'[Coordinator] = size[Coordinator] /\ at'[Coordinator] = at[Coordinator]
    BY <1>0, <1>1
  <2>11. /\ HasRun(n, index[Coordinator]) => HasRun(n, index[Coordinator])'
         /\ HasRun(n, index[Coordinator] - 1) => HasRun(n, index[Coordinator] - 1)'
    BY <1>1, <2>6, <2>7, <2>8, <2>9, <2>10 DEF HasRun
  <2>12. FollowerInStep(n)'
    <3>1. \A s : Behind(n, s) => Behind(n, s)'
      BY <1>1, <2>7 DEF Behind
    <3>2. Along(n) => Along(n)'
      BY <1>1, <2>7 DEF Along
    <3> QED
      BY <1>0, <1>1, <2>1, <2>2, <2>10, <2>11, <3>1, <3>2 DEF FollowerInStep
  <2>13. NodeInStep(n)'
    <3>1. size[n] > 0
      BY <1>0, <2>1 DEF NodeInStep
    <3> QED
      BY <1>0, <1>1, <2>1, <2>3, <2>6, <2>7, <2>8, <3>1 DEF NodeInStep, Inside
  <2> QED
    BY <1>2, <1>3, <2>2, <2>12, <2>13 DEF EverybodyInStep
<1>7. CASE LeaveBlock(n)
  <2>1. /\ at[n] = "in_block" /\ at[Coordinator] = "in_block" /\ Along(n)
        /\ index[n] = index[Coordinator] /\ size[n] = size[Coordinator] /\ vectors[n] = <<>>
    BY <1>0, <1>7 DEF LeaveBlock, FollowerInStep, AtEnd, HasRun, Places
  <2>2. /\ at'[n] = "blocks" /\ left'[n] = left[n] + 1 /\ UNCHANGED <<vectors, signals, size>>
    BY <1>0, <1>7 DEF LeaveBlock, Leave, Goto, PlaceTypes
  <2>3. HasRun(n, index[Coordinator])' /\ Along(n)'
    BY <1>1, <2>1, <2>2 DEF HasRun, Along
  <2>4. FollowerInStep(n)'
    BY <1>0, <1>1, <2>1, <2>3 DEF FollowerInStep
  <2>5. NodeInStep(n)'
    BY <1>0, <1>1, <2>1, <2>2 DEF NodeInStep, Inside
  <2> QED
    BY <1>2, <1>3, <2>1, <2>4, <2>5 DEF EverybodyInStep
<1>8. CASE EndMacroBlock(n)
  <2>1. /\ at[n] = "blocks" /\ index[n] = size[n]
    BY <1>8 DEF EndMacroBlock
  <2>2. /\ at'[n] = "loop" /\ UNCHANGED <<vectors, signals, left, size>>
    BY <1>0, <1>8 DEF EndMacroBlock, Goto, PlaceTypes
  <2>3. at[Coordinator] \notin {"read", "in_partition", "partitioned"}
    BY <1>0, <2>1 DEF FollowerInStep
  <2>4. at'[Coordinator] = at[Coordinator]
    BY <1>0, <1>1
  <2>5. /\ HasRun(n, index[Coordinator]) => HasRun(n, index[Coordinator])'
        /\ HasRun(n, index[Coordinator] - 1) => HasRun(n, index[Coordinator] - 1)'
    BY <1>1, <2>1, <2>2 DEF HasRun
  <2>6. FollowerInStep(n)'
    <3>1. \A s : Behind(n, s) => Behind(n, s)'
      BY <1>1, <2>2 DEF Behind
    <3>2. (Along(n) => Along(n)') /\ AtEnd(n)'
      BY <1>1, <2>2 DEF Along, AtEnd
    <3> QED
      BY <1>0, <1>1, <2>1, <2>2, <2>3, <2>4, <2>5, <3>1, <3>2 DEF FollowerInStep
  <2>7. NodeInStep(n)'
    BY <1>0, <1>1, <2>1, <2>2 DEF NodeInStep, Inside
  <2> QED
    BY <1>2, <1>3, <2>3, <2>6, <2>7 DEF EverybodyInStep
<1> QED
  BY <1>4, <1>5, <1>6, <1>7, <1>8

\* A follower sends the size of its schedule.
LEMMA FollowerPartitioned ==
  ASSUME MacroInv, TypeOK', NEW n \in Followers, LeavePartition(n)
  PROVE  EverybodyInStep'
<1>0. /\ PlaceTypes /\ QueueTypes /\ NodeInStep(n) /\ FollowerInStep(n)
      /\ n \in Nodes /\ n # Coordinator /\ Coordinator \in Nodes
      /\ at[Coordinator] \in Places /\ begun[n] \in Nat /\ left[n] \in Nat
      /\ StatisticTypes /\ SizesInStep
  BY StepFacts, ConstantFacts
<1>1. PICK s \in Sizes(usedPrediction[n]) :
        /\ size' = [size EXCEPT ![n] = s]
        /\ vectors' = [vectors EXCEPT ![Coordinator] = Append(@, s)]
  BY <1>0 DEF LeavePartition
<1>2. s \in 1..NTxns
  BY <1>0, <1>1, SizesInRange DEF StatisticTypes
<1>3. /\ \A o \in Nodes : o # n =>
           /\ at'[o] = at[o] /\ epoch'[o] = epoch[o] /\ begun'[o] = begun[o]
           /\ left'[o] = left[o] /\ size'[o] = size[o] /\ index'[o] = index[o]
      /\ \A o \in Followers : vectors'[o] = vectors[o]
      /\ UNCHANGED <<signals, begun, epoch>>
      /\ at[n] = "in_partition" /\ at'[n] = "partitioned"
      /\ left'[n] = left[n] + 1 /\ size'[n] = s /\ index'[n] = 0
  BY <1>0, <1>1, ConstantFacts DEF LeavePartition, Leave, Goto, PlaceTypes, QueueTypes, statistics
<1>4. /\ \A o \in Nodes : o # n => NodeInStep(o)'
      /\ \A o \in Followers : o # n => FollowerInStep(o)'
  BY <1>3, FollowersApart
<1>5. at[Coordinator] = "in_partition" /\ Along(n) /\ vectors[n] = <<>>
  BY <1>0, <1>3 DEF FollowerInStep, AtEnd, HasRun, Places
<1>6. FollowerInStep(n)'
  BY <1>0, <1>3, <1>5 DEF FollowerInStep, Along
<1>7. NodeInStep(n)'
  BY <1>0, <1>2, <1>3 DEF NodeInStep, Inside
<1>8. /\ vectors[Coordinator] \in Seq(1..NTxns)
      /\ vectors'[Coordinator] = Append(vectors[Coordinator], s)
      /\ Len(vectors'[Coordinator]) = Len(vectors[Coordinator]) + 1
      /\ \A i \in DOMAIN vectors[Coordinator] :
           i \in DOMAIN vectors'[Coordinator] /\ vectors'[Coordinator][i] = vectors[Coordinator][i]
      /\ Len(vectors[Coordinator]) + 1 \in DOMAIN vectors'[Coordinator]
      /\ vectors'[Coordinator][Len(vectors[Coordinator]) + 1] = s
  BY <1>0, <1>1, <1>2 DEF QueueTypes
<1>9. \A o \in Followers : at'[o] = "partitioned" => Announced(o)'
  <2>1. ASSUME NEW o \in Followers, o # n, at'[o] = "partitioned" PROVE Announced(o)'
    <3>1. Announced(o) /\ size'[o] = size[o]
      BY <1>0, <1>3, <1>5, <2>1, ConstantFacts DEF SizesInStep
    <3> QED
      BY <1>8, <3>1 DEF Announced
  <2>2. Announced(n)'
    BY <1>3, <1>8 DEF Announced
  <2> QED
    BY <2>1, <2>2
<1>10. SizesInStep'
  <2> DEFINE there == {o \in Followers : at[o] = "partitioned"}
  <2>1. there' = there \cup {n} /\ n \notin there
    BY <1>3, ConstantFacts
  <2>2. IsFiniteSet(there)
    <3>1. there \subseteq Followers
      OBVIOUS
    <3> QED
      BY <3>1, ConstantFacts, FS_Subset
  <2>3. Cardinality(there) = Len(vectors[Coordinator])
    BY <1>0, <1>5 DEF SizesInStep
  <2> HIDE DEF there
  <2>4. Cardinality(there') = Len(vectors'[Coordinator])
    BY <1>8, <2>1, <2>2, <2>3, FS_AddElement, ZenonT(60)
  <2>5. at'[Coordinator] = "in_partition"
    BY <1>0, <1>3, <1>5
  <2> QED
    BY <1>9, <2>4, <2>5 DEF SizesInStep, there
<1> QED
  BY <1>4, <1>6, <1>7, <1>10 DEF EverybodyInStep

\* What the coordinator's step leaves alone.
LEMMA CoordinatorApart ==
  ASSUME MacroInv,
         \A o \in Followers : /\ at'[o] = at[o] /\ begun'[o] = begun[o] /\ left'[o] = left[o]
                              /\ size'[o] = size[o] /\ index'[o] = index[o]
  PROVE  \A o \in Followers : NodeInStep(o)'
BY StepFacts, NodeUntouched, ConstantFacts

\* The coordinator begins a phase.
LEMMA CoordinatorBegins ==
  ASSUME MacroInv,
         \/ BeginMacroBlock(Coordinator) \/ BeginPartition(Coordinator)
         \/ BeginBlock(Coordinator)
  PROVE  EverybodyInStep'
<1> DEFINE n == Coordinator
<1>0. /\ PlaceTypes /\ QueueTypes /\ NodeInStep(n) /\ n \in Nodes /\ SizesInStep
      /\ begun[n] \in Nat /\ left[n] \in Nat /\ epoch[n] \in Nat
      /\ index[n] \in Nat /\ size[n] \in Nat
  BY StepFacts, ConstantFacts
<1>1. /\ \A o \in Nodes : o # n =>
           /\ at'[o] = at[o] /\ epoch'[o] = epoch[o] /\ begun'[o] = begun[o]
           /\ left'[o] = left[o] /\ size'[o] = size[o] /\ index'[o] = index[o]
      /\ begun'[n] = begun[n] + 1 /\ left'[n] = left[n] /\ size'[n] = size[n]
      /\ vectors' = vectors
  BY <1>0
  DEF BeginMacroBlock, BeginPartition, BeginBlock, Start, Enter, Goto, PlaceTypes, statistics
<1>2. \A o \in Followers : NodeInStep(o)'
  BY <1>1, CoordinatorApart, ConstantFacts
<1>3. \A o \in Followers : \A s : signals[o] = <<>> /\ signals' = [p \in Followers |-> Append(signals[p], s)]
        => signals'[o] = <<s>>
  <2>1. \A s : Append(<<>>, s) = <<s>>
    OBVIOUS
  <2> QED
    BY <2>1
<1>4. CASE BeginMacroBlock(n)
  <2>1. /\ at[n] = "loop" /\ at'[n] = "in_read" /\ epoch'[n] = epoch[n] + 1
        /\ signals' = [o \in Followers |-> Append(signals[o], "READ")]
    BY <1>0, <1>4 DEF BeginMacroBlock, Goto, PlaceTypes, Start, Signal
  <2>2. ASSUME NEW o \in Followers PROVE FollowerInStep(o)'
    <3>1. Along(o) /\ AtEnd(o) /\ vectors[o] = <<>> /\ o \in Nodes /\ o # n
      BY <2>1, StepFacts, ConstantFacts DEF FollowerInStep
    <3>2. Behind(o, "READ")'
      BY <1>1, <1>3, <2>1, <3>1 DEF Behind, Along
    <3>3. AtEnd(o)' /\ epoch'[o] + 1 = epoch'[n]
      BY <1>1, <2>1, <3>1 DEF AtEnd, Along
    <3> QED
      BY <1>1, <2>1, <3>1, <3>2, <3>3 DEF FollowerInStep
  <2>3. NodeInStep(n)'
    BY <1>0, <1>1, <2>1 DEF NodeInStep, Inside
  <2>4. SizesInStep'
    BY <1>0, <1>1, <2>1 DEF SizesInStep
  <2> QED
    BY <1>2, <2>2, <2>3, <2>4, ConstantFacts DEF EverybodyInStep
<1>5. CASE BeginPartition(n)
  <2>1. /\ at[n] = "read" /\ at'[n] = "in_partition" /\ epoch'[n] = epoch[n]
        /\ signals' = [o \in Followers |-> Append(signals[o], "PARTITION")]
    BY <1>0, <1>5 DEF BeginPartition, Goto, PlaceTypes, Start, Signal
  <2>2. \A o \in Followers : /\ Along(o) /\ at[o] = "read" /\ vectors[o] = <<>>
                             /\ o \in Nodes /\ o # n
    BY <2>1, StepFacts, ConstantFacts DEF FollowerInStep
  <2>3. ASSUME NEW o \in Followers PROVE FollowerInStep(o)'
    <3>1. Behind(o, "PARTITION")' /\ epoch'[o] = epoch'[n]
      BY <1>1, <1>3, <2>1, <2>2 DEF Behind, Along
    <3> QED
      BY <1>1, <2>1, <2>2, <3>1 DEF FollowerInStep
  <2>4. NodeInStep(n)'
    BY <1>0, <1>1, <2>1 DEF NodeInStep, Inside
  <2>5. SizesInStep'
    <3>1. {o \in Followers : at'[o] = "partitioned"} = {}
      BY <1>1, <2>2
    <3>2. vectors'[n] = <<>>
      BY <1>0, <1>1, <2>1 DEF SizesInStep
    <3> QED
      BY <1>1, <2>1, <2>2, <3>1, <3>2, FS_EmptySet DEF SizesInStep
  <2> QED
    BY <1>2, <2>3, <2>4, <2>5, ConstantFacts DEF EverybodyInStep
<1>6. CASE BeginBlock(n)
  <2>1. /\ at[n] = "blocks" /\ at'[n] = "in_block" /\ epoch'[n] = epoch[n]
        /\ index[n] < size[n] /\ index'[n] = index[n] + 1
        /\ signals' = [o \in Followers |-> Append(signals[o], "BLOCK")]
    BY <1>0, <1>6 DEF BeginBlock, Goto, PlaceTypes, Start, Signal
  <2>2. ASSUME NEW o \in Followers PROVE FollowerInStep(o)'
    <3>1. Along(o) /\ HasRun(o, index[n]) /\ o \in Nodes /\ o # n
      BY <2>1, StepFacts, ConstantFacts DEF FollowerInStep
    <3>2. Behind(o, "BLOCK")' /\ epoch'[o] = epoch'[n]
      BY <1>1, <1>3, <2>1, <3>1 DEF Behind, Along
    <3>3. index'[n] - 1 = index[n]
      BY <1>0, <2>1
    <3>4. HasRun(o, index[Coordinator] - 1)'
      BY <1>0, <1>1, <2>1, <3>1, <3>3 DEF HasRun
    <3> QED
      BY <2>1, <3>2, <3>4 DEF FollowerInStep
  <2>3. NodeInStep(n)'
    BY <1>0, <1>1, <2>1 DEF NodeInStep, Inside
  <2>4. SizesInStep'
    BY <1>0, <1>1, <2>1 DEF SizesInStep
  <2> QED
    BY <1>2, <2>2, <2>3, <2>4, ConstantFacts DEF EverybodyInStep
<1> QED
  BY <1>4, <1>5, <1>6

\* When the coordinator may leave a phase, so have all followers.
LEMMA EverybodyLeft ==
  ASSUME MacroInv, at[Coordinator] \in {"in_read", "in_partition", "in_block"},
         Leave(Coordinator)
  PROVE  \A o \in Followers : Along(o) /\ ~Inside(o)
<1>1. SUFFICES ASSUME NEW o \in Followers PROVE Along(o) /\ ~Inside(o)
  OBVIOUS
<1>2. /\ o \in Nodes /\ Coordinator \in Nodes /\ FollowerInStep(o) /\ NodeInStep(o)
      /\ begun[o] \in Nat /\ left[o] \in Nat /\ begun[Coordinator] \in Nat
  BY StepFacts, ConstantFacts
<1>3. begun[o] >= begun[Coordinator] /\ left[o] >= begun[Coordinator]
  BY <1>2 DEF Leave
<1>4. \A s : ~Behind(o, s)
  BY <1>2, <1>3 DEF Behind
<1>5. Along(o)
  BY <1>2, <1>4 DEF FollowerInStep
<1>6. ~Inside(o)
  BY <1>2, <1>3, <1>5 DEF NodeInStep, Along
<1> QED
  BY <1>5, <1>6

\* It leaves one, or goes on without one.
LEMMA CoordinatorGoesOn ==
  ASSUME MacroInv, TypeOK',
         \/ Stop \/ LeaveRead(Coordinator) \/ LeaveBlock(Coordinator)
         \/ EndMacroBlock(Coordinator)
  PROVE  EverybodyInStep'
<1> DEFINE n == Coordinator
<1>0. /\ PlaceTypes /\ QueueTypes /\ NodeInStep(n) /\ n \in Nodes /\ SizesInStep
      /\ begun[n] \in Nat /\ left[n] \in Nat /\ index[n] \in Nat /\ size[n] \in Nat
  BY StepFacts, ConstantFacts
<1>1. /\ \A o \in Nodes : o # n => at'[o] = at[o] /\ left'[o] = left[o]
      /\ UNCHANGED <<begun, epoch, size, index, vectors>>
  BY <1>0 DEF Stop, LeaveRead, LeaveBlock, EndMacroBlock, Leave, Goto, PlaceTypes, statistics
<1>2. \A o \in Followers : NodeInStep(o)'
  BY <1>1, CoordinatorApart, ConstantFacts
<1>3. CASE Stop
  <2>1. /\ at[n] = "loop" /\ at'[n] = "gone" /\ left' = left
        /\ signals' = [o \in Followers |-> Append(signals[o], "EXIT")]
    BY <1>0, <1>3 DEF Stop, Goto, PlaceTypes, Signal
  <2>2. ASSUME NEW o \in Followers PROVE FollowerInStep(o)'
    <3>1. Along(o) /\ AtEnd(o) /\ vectors[o] = <<>> /\ o \in Nodes /\ o # n
      BY <2>1, StepFacts, ConstantFacts DEF FollowerInStep
    <3>2. Append(<<>>, "EXIT") = <<"EXIT">>
      OBVIOUS
    <3>3. signals'[o] = <<"EXIT">>
      BY <2>1, <3>1, <3>2 DEF Along
    <3>4. AtEnd(o)' /\ epoch'[o] = epoch'[n]
      BY <1>1, <3>1 DEF AtEnd, Along
    <3> QED
      BY <1>1, <2>1, <3>1, <3>3, <3>4 DEF FollowerInStep
  <2>3. NodeInStep(n)'
    BY <1>0, <1>1, <2>1 DEF NodeInStep, Inside
  <2>4. SizesInStep'
    BY <1>0, <1>1, <2>1 DEF SizesInStep
  <2> QED
    BY <1>2, <2>2, <2>3, <2>4, ConstantFacts DEF EverybodyInStep
<1>4. CASE LeaveRead(n)
  <2>1. /\ at[n] = "in_read" /\ at'[n] = "read" /\ left'[n] = left[n] + 1
        /\ signals' = signals /\ Leave(n)
    BY <1>0, <1>4 DEF LeaveRead, Leave, Goto, PlaceTypes
  <2>2. ASSUME NEW o \in Followers PROVE FollowerInStep(o)'
    <3>1. Along(o) /\ ~Inside(o) /\ FollowerInStep(o) /\ o \in Nodes /\ o # n
          /\ begun[n] \in Nat
      BY <1>0, <2>1, EverybodyLeft, StepFacts, ConstantFacts
    <3>2. at[o] = "read" /\ vectors[o] = <<>>
      BY <2>1, <3>1 DEF FollowerInStep, Along, Behind, Inside
    <3>3. Along(o)'
      BY <1>1, <2>1, <3>1 DEF Along
    <3> QED
      BY <1>1, <2>1, <3>1, <3>2, <3>3 DEF FollowerInStep
  <2>3. NodeInStep(n)'
    BY <1>0, <1>1, <2>1 DEF NodeInStep, Inside
  <2>4. SizesInStep'
    BY <1>0, <1>1, <2>1 DEF SizesInStep
  <2> QED
    BY <1>2, <2>2, <2>3, <2>4, ConstantFacts DEF EverybodyInStep
<1>5. CASE LeaveBlock(n)
  <2>1. /\ at[n] = "in_block" /\ at'[n] = "blocks" /\ left'[n] = left[n] + 1
        /\ signals' = signals /\ Leave(n)
    BY <1>0, <1>5 DEF LeaveBlock, Leave, Goto, PlaceTypes
  <2>2. ASSUME NEW o \in Followers PROVE FollowerInStep(o)'
    <3>1. Along(o) /\ ~Inside(o) /\ FollowerInStep(o) /\ o \in Nodes /\ o # n
          /\ begun[n] \in Nat
      BY <1>0, <2>1, EverybodyLeft, StepFacts, ConstantFacts
    <3>2. HasRun(o, index[n])
      BY <2>1, <3>1 DEF FollowerInStep, Along, Behind, Inside
    <3>3. Along(o)' /\ HasRun(o, index[Coordinator])'
      BY <1>1, <2>1, <3>1, <3>2 DEF Along, HasRun
    <3> QED
      BY <2>1, <3>3 DEF FollowerInStep
  <2>3. NodeInStep(n)'
    BY <1>0, <1>1, <2>1 DEF NodeInStep, Inside
  <2>4. SizesInStep'
    BY <1>0, <1>1, <2>1 DEF SizesInStep
  <2> QED
    BY <1>2, <2>2, <2>3, <2>4, ConstantFacts DEF EverybodyInStep
<1>6. CASE EndMacroBlock(n)
  <2>1. /\ at[n] = "blocks" /\ at'[n] = "loop" /\ UNCHANGED <<left, signals>>
        /\ index[n] = size[n] /\ size[n] > 0
    BY <1>0, <1>6 DEF EndMacroBlock, Goto, PlaceTypes, NodeInStep
  <2>2. ASSUME NEW o \in Followers PROVE FollowerInStep(o)'
    <3>1. Along(o) /\ HasRun(o, index[n]) /\ o \in Nodes /\ o # n
      BY <2>1, StepFacts, ConstantFacts DEF FollowerInStep
    <3>2. AtEnd(o) /\ vectors[o] = <<>>
      BY <1>0, <2>1, <3>1 DEF HasRun, AtEnd
    <3>3. Along(o)' /\ AtEnd(o)'
      BY <1>1, <2>1, <3>1, <3>2 DEF Along, AtEnd
    <3> QED
      BY <1>1, <2>1, <3>2, <3>3 DEF FollowerInStep
  <2>3. NodeInStep(n)'
    BY <1>0, <1>1, <2>1 DEF NodeInStep, Inside
  <2>4. SizesInStep'
    BY <1>0, <1>1, <2>1 DEF SizesInStep
  <2> QED
    BY <1>2, <2>2, <2>3, <2>4, ConstantFacts DEF EverybodyInStep
<1> QED
  BY <1>3, <1>4, <1>5, <1>6

\* The coordinator collects the sizes and announces the largest.
LEMMA SizesCollected ==
  ASSUME MacroInv, TypeOK', LeavePartition(Coordinator) \/ ReceiveSize \/ AnnounceSize
  PROVE  EverybodyInStep'
<1> DEFINE n == Coordinator
<1>0. /\ PlaceTypes /\ QueueTypes /\ NodeInStep(n) /\ n \in Nodes /\ SizesInStep
      /\ begun[n] \in Nat /\ left[n] \in Nat /\ index[n] \in Nat /\ size[n] \in Nat
      /\ \A o \in Followers : size[o] \in Nat
      /\ vectors[n] \in Seq(1..NTxns) /\ Len(vectors[n]) \in Nat
      /\ awaited \in Nat /\ StatisticTypes
  <2>1. /\ PlaceTypes /\ QueueTypes /\ StatisticTypes /\ NodeInStep(n) /\ n \in Nodes /\ SizesInStep
        /\ begun[n] \in Nat /\ left[n] \in Nat /\ index[n] \in Nat /\ size[n] \in Nat
        /\ \A o \in Followers : size[o] \in Nat
    BY StepFacts, ConstantFacts
  <2>2. vectors[n] \in Seq(1..NTxns) /\ awaited \in Nat
    BY <2>1, ConstantFacts DEF QueueTypes, PlaceTypes
  <2> QED
    BY <2>1, <2>2
<1>1. /\ \A o \in Nodes : o # n =>
           /\ at'[o] = at[o] /\ left'[o] = left[o] /\ size'[o] = size[o] /\ index'[o] = index[o]
      /\ UNCHANGED <<begun, epoch, signals>>
  BY <1>0
  DEF LeavePartition, ReceiveSize, AnnounceSize, Leave, Goto, PlaceTypes, statistics
<1>2. \A o \in Followers : NodeInStep(o)'
  BY <1>1, CoordinatorApart, ConstantFacts
<1>3. CASE LeavePartition(n)
  <2>1. PICK s \in Sizes(usedPrediction[n]) : size' = [size EXCEPT ![n] = s]
    BY <1>3 DEF LeavePartition
  <2>2. s \in 1..NTxns
    BY <1>0, <2>1, SizesInRange DEF StatisticTypes
  <2>3. /\ at[n] = "in_partition" /\ at'[n] = "partitioned" /\ left'[n] = left[n] + 1
        /\ size'[n] = s /\ index'[n] = 0 /\ vectors' = vectors
        /\ awaited' = Cardinality(Nodes) - 1 /\ Leave(n)
    BY <1>0, <1>3, <2>1 DEF LeavePartition, Leave, Goto, PlaceTypes
  <2>4. ASSUME NEW o \in Followers
        PROVE  Along(o) /\ at[o] = "partitioned" /\ vectors[o] = <<>> /\ o \in Nodes /\ o # n
    <3>1. Along(o) /\ ~Inside(o) /\ FollowerInStep(o) /\ o \in Nodes /\ o # n
          /\ begun[n] \in Nat
      BY <1>0, <2>3, EverybodyLeft, StepFacts, ConstantFacts
    <3> QED
      BY <2>3, <3>1 DEF FollowerInStep, Along, Behind, Inside
  <2>5. ASSUME NEW o \in Followers PROVE FollowerInStep(o)'
    <3>1. Along(o)'
      BY <1>1, <2>4 DEF Along
    <3> QED
      BY <1>1, <2>3, <2>4, <3>1 DEF FollowerInStep
  <2>6. NodeInStep(n)'
    BY <1>0, <1>1, <2>2, <2>3 DEF NodeInStep, Inside
  <2>7. SizesInStep'
    <3>1. {o \in Followers : at[o] = "partitioned"} = Followers
      BY <2>4
    <3>2. Len(vectors[n]) = Cardinality(Nodes) - 1
      BY <1>0, <2>3, <3>1, ConstantFacts DEF SizesInStep
    <3>3. \A o \in Followers : Announced(o)'
      <4>1. \A o \in Followers : Announced(o)
        BY <1>0, <2>3, <2>4 DEF SizesInStep
      <4> QED
        BY <1>1, <2>3, <2>4, <4>1 DEF Announced
    <3> QED
      BY <2>3, <3>2, <3>3 DEF SizesInStep
  <2> QED
    BY <1>2, <2>5, <2>6, <2>7, ConstantFacts DEF EverybodyInStep
<1>4. CASE ReceiveSize
  <2>1. /\ at[n] = "partitioned" /\ at' = at /\ left' = left /\ index' = index
        /\ vectors[n] # <<>> /\ vectors'[n] = Tail(vectors[n])
        /\ awaited' = awaited - 1
        /\ size'[n] = IF Head(vectors[n]) > size[n] THEN Head(vectors[n]) ELSE size[n]
        /\ \A o \in Followers : vectors'[o] = vectors[o]
    BY <1>0, <1>4, ConstantFacts DEF ReceiveSize, PlaceTypes, QueueTypes
  <2>2. Head(vectors[n]) \in 1..NTxns
    BY <1>0, <2>1, QueueFacts
  <2>3. size'[n] >= size[n] /\ size'[n] >= Head(vectors[n]) /\ size'[n] \in Nat
    BY <1>0, <2>1, <2>2
  <2>4. ASSUME NEW o \in Followers PROVE FollowerInStep(o)'
    <3>1. Along(o) /\ at[o] = "partitioned" /\ vectors[o] = <<>>
      BY <2>1, StepFacts DEF FollowerInStep
    <3>2. Along(o)'
      BY <1>1, <3>1 DEF Along
    <3> QED
      BY <2>1, <3>1, <3>2 DEF FollowerInStep
  <2>5. NodeInStep(n)'
    BY <1>0, <1>1, <2>1, <2>3 DEF NodeInStep, Inside
  <2>6. SizesInStep'
    <3>1. Len(vectors'[n]) = Len(vectors[n]) - 1
      BY <1>0, <2>1, QueueFacts
    <3>2. Len(vectors[n]) = awaited
      BY <1>0, <2>1 DEF SizesInStep
    <3>3. ASSUME NEW o \in Followers PROVE size'[o] <= size'[n] \/ Announced(o)'
      <4>1. size[o] <= size[n] \/ Announced(o)
        BY <1>0, <2>1 DEF SizesInStep
      <4>2. size'[o] = size[o]
        BY <1>1, ConstantFacts
      <4>3. CASE size[o] <= size[n]
        BY <1>0, <2>3, <4>2, <4>3
      <4>4. CASE Announced(o)
        <5>1. PICK i \in DOMAIN vectors[n] : vectors[n][i] = size[o]
          BY <4>4 DEF Announced
        <5>2. i \in 1..Len(vectors[n])
          BY <1>0, <5>1
        <5>3. i = 1 \/ (i - 1 \in 1..Len(vectors'[n]) /\ vectors[n][i] = vectors'[n][i - 1])
          BY <1>0, <2>1, <5>2, QueueFacts
        <5>4. CASE i = 1
          <6>1. Head(vectors[n]) = size[o]
            BY <1>0, <2>1, <5>1, <5>4, QueueFacts
          <6> QED
            BY <2>3, <4>2, <6>1
        <5>5. CASE i - 1 \in 1..Len(vectors'[n]) /\ vectors[n][i] = vectors'[n][i - 1]
          <6>1. Tail(vectors[n]) \in Seq(1..NTxns)
            BY <1>0, <2>1, QueueFacts
          <6>2. i - 1 \in DOMAIN vectors'[n]
            BY <2>1, <5>5, <6>1
          <6> QED
            BY <4>2, <5>1, <5>5, <6>2 DEF Announced
        <5> QED
          BY <5>3, <5>4, <5>5
      <4> QED
        BY <4>1, <4>3, <4>4
    <3> QED
      BY <2>1, <3>1, <3>2, <3>3 DEF SizesInStep
  <2> QED
    BY <1>2, <2>4, <2>5, <2>6, ConstantFacts DEF EverybodyInStep
<1>5. CASE AnnounceSize
  <2>1. /\ at[n] = "partitioned" /\ at'[n] = "blocks" /\ awaited = 0
        /\ UNCHANGED <<left, index, size>> /\ vectors'[n] = vectors[n]
        /\ \A o \in Followers : vectors'[o] = Append(vectors[o], size[n])
    BY <1>0, <1>5, ConstantFacts DEF AnnounceSize, Goto, PlaceTypes
  <2>2. Len(vectors[n]) = 0 /\ index[n] = 0
    BY <1>0, <2>1 DEF SizesInStep, NodeInStep
  <2>3. vectors[n] = <<>>
    BY <1>0, <2>2
  <2>4. \A o \in Followers : size[o] <= size[n]
    BY <1>0, <2>1, <2>3 DEF SizesInStep, Announced
  <2>5. ASSUME NEW o \in Followers PROVE FollowerInStep(o)'
    <3>1. Along(o) /\ at[o] = "partitioned" /\ vectors[o] = <<>> /\ o \in Nodes /\ o # n
      BY <2>1, StepFacts, ConstantFacts DEF FollowerInStep
    <3>2. Append(<<>>, size[n]) = <<size[n]>>
      OBVIOUS
    <3>3. Along(o)' /\ HasRun(o, index[Coordinator])'
      BY <1>1, <2>1, <2>2, <2>4, <3>1, <3>2 DEF Along, HasRun
    <3> QED
      BY <2>1, <3>3 DEF FollowerInStep
  <2>6. NodeInStep(n)'
    BY <1>0, <1>1, <2>1 DEF NodeInStep, Inside
  <2>7. SizesInStep'
    BY <2>1, <2>3 DEF SizesInStep
  <2> QED
    BY <1>2, <2>5, <2>6, <2>7, ConstantFacts DEF EverybodyInStep
<1> QED
  BY <1>3, <1>4, <1>5

LEMMA MacroStep == MacroInv /\ [Next]_vars => MacroInv'
<1>1. ASSUME MacroInv, Next PROVE MacroInv'
  <2>1. TypeOK'
    BY <1>1, MacroTypes
  <2>2. CASE Coordinate
    BY <1>1, <2>1, <2>2, CoordinatorGoesOn, SizesCollected DEF Coordinate, MacroInv
  <2>3. ASSUME NEW n \in Nodes, Manage(n) PROVE EverybodyInStep'
    <3>1. CASE n = Coordinator
      <4>1. ~Exit(n) /\ ~PadSchedule(n)
        BY <3>1, ConstantFacts DEF Exit, PadSchedule
      <4> QED
        BY <1>1, <2>1, <2>3, <3>1, <4>1, CoordinatorBegins, CoordinatorGoesOn, SizesCollected
        DEF Manage
    <3>2. CASE n \in Followers
      BY <1>1, <2>1, <2>3, <3>2, FollowerBegins, FollowerGoesOn, FollowerPartitioned
      DEF Manage
    <3> QED
      BY <3>1, <3>2, ConstantFacts
  <2> QED
    BY <1>1, <2>1, <2>2, <2>3 DEF Next, MacroInv
<1>2. ASSUME MacroInv, UNCHANGED vars PROVE MacroInv'
  BY <1>2, SMTT(30)
  DEF MacroInv, TypeOK, EverybodyInStep, NodeInStep, FollowerInStep, SizesInStep, Announced,
      Inside, AtEnd, HasRun, Behind, Along, vars, statistics
<1> QED
  BY <1>1, <1>2

-----------------------------------------------------------------------------
\* The managers of all nodes agree on the number of micro-blocks of each
\* macro-block and on every signal that follows from it (align_schedule_size,
\* pad_schedule_to_size and the DCHECKs behind wait4_signal), though a size
\* names neither its sender nor its macro-block.
THEOREM ScheduleAgreedHolds == Spec => []ScheduleAgreed
<1>1. Spec => []MacroInv
  BY MacroInit, MacroStep, PTL DEF Spec
<1>2. MacroInv => ScheduleAgreed
  <2> SUFFICES ASSUME MacroInv PROVE ScheduleAgreed
    OBVIOUS
  <2>1. SignalMatchesSchedule
    <3> SUFFICES ASSUME NEW n \in Followers, signals[n] # <<>>
                 PROVE  /\ at[n] = "loop" => Head(signals[n]) \in {"READ", "EXIT"}
                        /\ at[n] = "read" => Head(signals[n]) = "PARTITION"
                        /\ at[n] = "blocks" =>
                             IF index[n] < size[n] THEN Head(signals[n]) = "BLOCK"
                                                   ELSE Head(signals[n]) \in {"READ", "EXIT"}
      BY DEF SignalMatchesSchedule
    <3>1. \A s : Behind(n, s) => Head(signals[n]) = s
      BY DEF Behind
    <3>2. n \in Nodes /\ NodeInStep(n) /\ index[n] \in Nat /\ size[n] \in Nat
      BY StepFacts, ConstantFacts
    <3>3. at[n] = "blocks" => index[n] < size[n] \/ index[n] = size[n]
      BY <3>2 DEF NodeInStep
    <3> QED
      BY <3>1, <3>3, SignalFacts
  <2>2. VectorsCurrent
    <3>1. ASSUME NEW n \in Followers,
                 at[n] \in {"loop", "in_read", "read", "blocks", "in_block", "gone"}
          PROVE  vectors[n] = <<>>
      <4>1. FollowerInStep(n) /\ at[Coordinator] \in Places
        BY StepFacts, ConstantFacts
      <4> QED
        BY <3>1, <4>1 DEF FollowerInStep, HasRun, Places
    <3>2. at[Coordinator] \notin {"in_partition", "partitioned"} => vectors[Coordinator] = <<>>
      BY StepFacts DEF SizesInStep
    <3> QED
      BY <3>1, <3>2, ConstantFacts DEF VectorsCurrent
  <2> QED
    BY <2>1, <2>2 DEF ScheduleAgreed, MacroInv
<1> QED
  BY <1>1, <1>2, PTL

\* Nodes whose workers are in the phases of a micro-block are in the same one:
\* the reservations of one epoch and one block only meet each other.
THEOREM InStepHolds == Spec => []InStep
<1>1. Spec => []MacroInv
  BY MacroInit, MacroStep, PTL DEF Spec
<1>2. MacroInv => InStep
  <2> SUFFICES ASSUME MacroInv PROVE InStep
    OBVIOUS
  <2>1. ASSUME NEW n \in Followers, Inside(n)
        PROVE  /\ at[n] = at[Coordinator] /\ epoch[n] = epoch[Coordinator]
               /\ begun[n] = begun[Coordinator]
               /\ at[n] = "in_block" => index[n] = index[Coordinator] /\ size[n] = size[Coordinator]
    <3>1. FollowerInStep(n) /\ at[Coordinator] \in Places
      BY StepFacts, ConstantFacts
    <3> QED
      BY <2>1, <3>1 DEF FollowerInStep, HasRun, AtEnd, Along, Inside, Places
  <2> QED
    BY <2>1, ConstantFacts DEF InStep
<1> QED
  BY <1>1, <1>2, PTL

\* How a cooldown and the macro-blocks since the regression add up.
Cooling(n) ==
  /\ at[n] \in {"in_read", "read"} => calm[n] + cooldown[n] >= BypassCooldownEpochs
  /\ at[n] \notin {"in_read", "read"} => calm[n] + cooldown[n] > BypassCooldownEpochs
  /\ at[n] = "in_partition" /\ usedPrediction[n] => cooldown[n] = 0

LEMMA CoolingStep ==
  ASSUME MacroInv, [Next]_vars, \A n \in Nodes : Cooling(n)
  PROVE  \A n \in Nodes : Cooling(n)'
<1>0. /\ PlaceTypes /\ BypassCooldownEpochs \in Nat
      /\ \A n \in Nodes : calm[n] \in 0..BypassCooldownEpochs + 1
                          /\ cooldown[n] \in 0..BypassCooldownEpochs
                          /\ usedPrediction[n] \in BOOLEAN
      /\ StatisticTypes
  BY StepFacts, ConstantFacts DEF StatisticTypes
<1>1. ASSUME NEW n \in Nodes, NEW o \in Nodes, o # n,
             at'[o] = at[o], calm'[o] = calm[o], cooldown'[o] = cooldown[o],
             usedPrediction'[o] = usedPrediction[o]
      PROVE  Cooling(o)'
  BY <1>1 DEF Cooling
<1>2. ASSUME NEW n \in Nodes, BeginMacroBlock(n) PROVE \A o \in Nodes : Cooling(o)'
  <2>1. PICK c : /\ c = BypassCooldownEpochs /\ cooldown'[n] = c /\ calm'[n] = 0
                 \/ /\ c = Decremented(n) /\ cooldown'[n] = c /\ calm'[n] = calm[n]
    BY <1>0, <1>2 DEF BeginMacroBlock, CleanupBatch, StatisticTypes
  <2>2. /\ at[n] = "loop" /\ at'[n] = "in_read"
        /\ \A o \in Nodes : o # n =>
             /\ at'[o] = at[o] /\ calm'[o] = calm[o] /\ cooldown'[o] = cooldown[o]
             /\ usedPrediction'[o] = usedPrediction[o]
    BY <1>0, <1>2 DEF BeginMacroBlock, CleanupBatch, Goto, PlaceTypes, StatisticTypes
  <2>3. Cooling(n)'
    BY <1>0, <2>1, <2>2 DEF Cooling, Decremented
  <2> QED
    BY <1>1, <2>2, <2>3
<1>3. ASSUME NEW n \in Nodes, BeginPartition(n) PROVE \A o \in Nodes : Cooling(o)'
  <2>1. /\ at[n] = "read" /\ at'[n] = "in_partition" /\ cooldown' = cooldown
        /\ calm'[n] = IF calm[n] <= BypassCooldownEpochs THEN calm[n] + 1 ELSE calm[n]
        /\ usedPrediction'[n] = EnableConflictPrediction(n)
        /\ \A o \in Nodes : o # n =>
             /\ at'[o] = at[o] /\ calm'[o] = calm[o] /\ cooldown'[o] = cooldown[o]
             /\ usedPrediction'[o] = usedPrediction[o]
    BY <1>0, <1>3 DEF BeginPartition, Goto, PlaceTypes, StatisticTypes, statistics
  <2>2. usedPrediction'[n] => cooldown[n] = 0
    BY <2>1 DEF EnableConflictPrediction
  <2>3. Cooling(n)'
    BY <1>0, <2>1, <2>2 DEF Cooling
  <2> QED
    BY <1>1, <2>1, <2>3
<1>4. ASSUME NEW n \in Nodes,
             UNCHANGED <<calm, cooldown, usedPrediction>>,
             \A o \in Nodes : o # n => at'[o] = at[o],
             at'[n] = at[n] \/ at'[n] \in {"read", "partitioned", "blocks", "loop", "gone", "in_block"},
             at'[n] = "read" => at[n] \in {"in_read", "read"},
             at'[n] # at[n] /\ at'[n] # "read" => at[n] \notin {"in_read", "read"}
      PROVE  \A o \in Nodes : Cooling(o)'
  BY <1>1, <1>4 DEF Cooling
<1>5. ASSUME NEW n \in Nodes,
             \/ Exit(n) \/ LeaveRead(n) \/ LeavePartition(n) \/ PadSchedule(n)
             \/ BeginBlock(n) \/ LeaveBlock(n) \/ EndMacroBlock(n)
      PROVE  \A o \in Nodes : Cooling(o)'
  <2>1. /\ UNCHANGED <<calm, cooldown, usedPrediction>>
        /\ \A o \in Nodes : o # n => at'[o] = at[o]
        /\ at'[n] \in {"read", "partitioned", "blocks", "loop", "gone", "in_block"}
        /\ at'[n] = "read" => at[n] = "in_read"
        /\ at'[n] # "read" => at[n] \notin {"in_read", "read"}
    BY <1>0, <1>5
    DEF Exit, LeaveRead, LeavePartition, PadSchedule, BeginBlock, LeaveBlock, EndMacroBlock,
        Goto, PlaceTypes, statistics
  <2> QED
    BY <1>4, <2>1
<1>6. CASE Coordinate
  <2>1. /\ UNCHANGED <<calm, cooldown, usedPrediction>>
        /\ \A o \in Nodes : o # Coordinator => at'[o] = at[o]
        /\ \/ at'[Coordinator] = at[Coordinator]
           \/ at'[Coordinator] = "gone" /\ at[Coordinator] = "loop"
           \/ at'[Coordinator] = "blocks" /\ at[Coordinator] = "partitioned"
    BY <1>0, <1>6, ConstantFacts
    DEF Coordinate, Stop, ReceiveSize, AnnounceSize, Goto, PlaceTypes, statistics
  <2> QED
    BY <1>4, <2>1, ConstantFacts
<1>7. CASE UNCHANGED vars
  BY <1>7 DEF vars, statistics, Cooling
<1> QED
  BY <1>2, <1>3, <1>5, <1>6, <1>7 DEF Next, Manage

\* kBypassCooldownEpochs: after a regression so many macro-blocks run without
\* prediction, whatever their abort rates (cleanup_batch, which counts the
\* cooldown down and sets it, and enable_conflict_prediction).
THEOREM BypassLastsHolds == Spec => []BypassLasts
<1> DEFINE Inv == MacroInv /\ \A n \in Nodes : Cooling(n)
<1>1. Init => Inv
  <2>1. Init => \A n \in Nodes : Cooling(n)
    BY ConstantFacts DEF Init, Cooling
  <2> QED
    BY <2>1, MacroInit
<1>2. Inv /\ [Next]_vars => Inv'
  BY MacroStep, CoolingStep
<1>3. Inv => BypassLasts
  <2> SUFFICES ASSUME Inv, NEW n \in Nodes, at[n] = "in_partition", usedPrediction[n]
               PROVE  calm[n] > BypassCooldownEpochs
    BY DEF BypassLasts
  <2>1. calm[n] \in Nat /\ BypassCooldownEpochs \in Nat
    BY StepFacts, ConstantFacts DEF StatisticTypes
  <2>2. cooldown[n] = 0 /\ calm[n] + cooldown[n] > BypassCooldownEpochs
    BY DEF Cooling
  <2> QED
    BY <2>1, <2>2
<1> QED
  BY <1>1, <1>2, <1>3, PTL DEF Spec
=============================================================================
