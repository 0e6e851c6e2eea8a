-------------------------- MODULE PhaseBarrier_proofs --------------------------
(***************************************************************************)
(* The barrier keeps everybody in phase, and nobody begins a phase before  *)
(* everybody has finished the one before: for every number of nodes and of *)
(* workers and for every script.                                           *)
(***************************************************************************)
EXTENDS PhaseBarrier, FiniteSetTheorems, TLAPS

-----------------------------------------------------------------------------
(* The constants, and how sets are counted.                                *)

LEMMA ConstantFacts ==
  /\ NPhases \in Nat
  /\ Cardinality(Workers) \in Nat /\ Cardinality(Nodes) \in Nat \ {0}
  /\ IsFiniteSet(Followers) /\ Cardinality(Followers) + 1 = Cardinality(Nodes)
  /\ \A i \in 1..NPhases : Script[i] \notin {"STOP", "EXIT"}
<1>1. NPhases \in Nat /\ \A i \in 1..NPhases : Script[i] \notin {"STOP", "EXIT"}
  BY ScriptAssumption DEF NPhases
<1>2. Cardinality(Workers) \in Nat /\ Cardinality(Nodes) \in Nat
  BY NodesAssumption, FS_CardinalityType
<1>3. /\ IsFiniteSet(Followers) /\ Cardinality(Followers) = Cardinality(Nodes) - 1
  BY NodesAssumption, FS_RemoveElement DEF Followers
<1>4. Cardinality(Followers) \in Nat
  BY <1>3, FS_CardinalityType
<1> QED
  BY <1>1, <1>2, <1>3, <1>4

\* How a count changes when one worker goes from one place to another.
LEMMA CountMoves ==
  ASSUME TypeOK, NEW n \in Nodes, NEW w \in Workers, NEW place, NEW places,
         pc' = [pc EXCEPT ![<<n, w>>] = place]
  PROVE  /\ \A o \in Nodes : o # n => Count(o, places)' = Count(o, places)
         /\ pc[<<n, w>>] \notin places /\ place \in places =>
              /\ Count(n, places)' = Count(n, places) + 1
              /\ Count(n, places) < Cardinality(Workers)
         /\ (pc[<<n, w>>] \in places <=> place \in places) =>
              Count(n, places)' = Count(n, places)
<1> DEFINE At(o)  == {v \in Workers : pc[<<o, v>>] \in places}
           AtP(o) == {v \in Workers : pc'[<<o, v>>] \in places}
<1>0. \A o \in Nodes, v \in Workers : /\ <<o, v>> \in Members
                                      /\ o # n \/ v # w => pc'[<<o, v>>] = pc[<<o, v>>]
                                      /\ pc'[<<n, w>>] = place
  BY DEF TypeOK, Members
<1>1. \A o \in Nodes : o # n => AtP(o) = At(o)
  BY <1>0
<1>2. (pc[<<n, w>>] \in places <=> place \in places) => AtP(n) = At(n)
  BY <1>0
<1>3. pc[<<n, w>>] \notin places /\ place \in places => AtP(n) = At(n) \cup {w} /\ w \notin At(n)
  BY <1>0
<1>4. \A o : IsFiniteSet(At(o)) /\ At(o) \subseteq Workers
  BY NodesAssumption, FS_Subset
<1>5. \A o : Count(o, places) = Cardinality(At(o)) /\ Count(o, places)' = Cardinality(AtP(o))
  BY DEF Count
<1>6. ASSUME pc[<<n, w>>] \notin places, place \in places
      PROVE  /\ Count(n, places)' = Count(n, places) + 1
             /\ Count(n, places) < Cardinality(Workers)
  <2> HIDE DEF At, AtP
  <2>1. Cardinality(AtP(n)) = Cardinality(At(n)) + 1
    BY <1>3, <1>4, <1>6, FS_AddElement
  <2>2. At(n) # Workers
    BY <1>3, <1>6
  <2>3. Cardinality(At(n)) <= Cardinality(Workers) /\ Cardinality(At(n)) # Cardinality(Workers)
    BY <1>4, <2>2, NodesAssumption, FS_Subset
  <2>4. Cardinality(At(n)) \in Nat /\ Cardinality(Workers) \in Nat
    BY <1>4, NodesAssumption, FS_CardinalityType
  <2> QED
    BY <1>5, <2>1, <2>3, <2>4
<1> QED
  BY <1>1, <1>2, <1>5, <1>6

\* When all workers are counted, all workers are there; when none is, none.
LEMMA CountAll ==
  ASSUME NEW n \in Nodes, NEW places
  PROVE  /\ Count(n, places) \in 0..Cardinality(Workers)
         /\ Count(n, places) >= Cardinality(Workers) =>
              \A w \in Workers : pc[<<n, w>>] \in places
         /\ (\A w \in Workers : pc[<<n, w>>] \notin places) => Count(n, places) = 0
<1> DEFINE At == {v \in Workers : pc[<<n, v>>] \in places}
<1>1. /\ At \subseteq Workers /\ IsFiniteSet(At) /\ Cardinality(At) <= Cardinality(Workers)
      /\ Cardinality(At) = Cardinality(Workers) => At = Workers
  BY NodesAssumption, FS_Subset
<1>2. Cardinality(At) \in Nat /\ Cardinality(Workers) \in Nat
  BY <1>1, NodesAssumption, FS_CardinalityType
<1>3. Count(n, places) = Cardinality(At)
  BY DEF Count
<1>4. (\A w \in Workers : pc[<<n, w>>] \notin places) => At = {}
  OBVIOUS
<1>5. Cardinality({}) = 0
  BY FS_EmptySet
<1>6. At = Workers => \A w \in Workers : pc[<<n, w>>] \in places
  OBVIOUS
<1> HIDE DEF At
<1> QED
  BY <1>1, <1>2, <1>3, <1>4, <1>5, <1>6

\* A count is about the places of the workers.
LEMMA CountStays ==
  ASSUME pc' = pc, NEW n, NEW places
  PROVE  Count(n, places)' = Count(n, places)
BY DEF Count

-----------------------------------------------------------------------------
(* The invariant is inductive, part by part.                               *)

Statuses == {"STOP", "EXIT"} \cup {Script[i] : i \in 1..NPhases}

Places == {"begin", "signal", "starting", "working", "stopping", "stop", "draining",
           "acks", "waiting", "gone"}

LEMMA BarrierInit == Init => EverythingInPhase
<1> SUFFICES ASSUME Init PROVE EverythingInPhase
  OBVIOUS
<1>0. /\ \A n \in Nodes : /\ mgr[n] = IF n = Coordinator THEN "begin" ELSE "waiting"
                          /\ phase[n] = 0 /\ status[n] = "STOP" /\ started[n] = 0
                          /\ completed[n] = 0 /\ missing[n] = 0
      /\ \A n \in Followers : signals[n] = <<>> /\ n # Coordinator /\ n \in Nodes
      /\ \A n, from \in Nodes : stops[<<from, n>>] = <<>>
      /\ \A n \in Nodes, w \in Workers : pc[<<n, w>>] = "idle" /\ rounds[<<n, w>>] = 0
      /\ acks = 0 /\ Coordinator \in Nodes
  BY NodesAssumption DEF Init, Followers, Members
<1>1. TypeOK
  <2>1. \A S, T : \A x \in T : [y \in S |-> x] \in [S -> T]
    OBVIOUS
  <2>2. <<>> \in Seq({"EXIT"} \cup {Script[i] : i \in 1..NPhases}) /\ <<>> \in Seq(1..NPhases)
    OBVIOUS
  <2> QED
    BY <2>1, <2>2, ConstantFacts DEF Init, TypeOK
<1>2. ~Running /\ mgr[Coordinator] = "begin"
  BY <1>0 DEF Running
<1>3. ManagersInPhase
  BY <1>0, <1>2 DEF ManagersInPhase, FollowerInPhase, InPhase
<1>4. StopsInPhase /\ AcksInPhase
  BY <1>0, <1>2 DEF StopsInPhase, StopInPhase, AcksInPhase
<1>5. WorkersInPhase
  BY <1>0 DEF WorkersInPhase, WorkerInPhase
<1>6. CountersExact
  BY <1>0 DEF CountersExact
<1> QED
  BY <1>1, <1>3, <1>4, <1>5, <1>6 DEF EverythingInPhase

\* What a step finds of its node.
LEMMA NodeFacts ==
  ASSUME EverythingInPhase, NEW n \in Nodes, NEW w \in Workers
  PROVE  /\ phase[n] \in 0..NPhases /\ rounds[<<n, w>>] \in 0..NPhases
         /\ <<n, w>> \in Members
         /\ mgr[n] \in Places /\ status[n] \in Statuses
         /\ pc[<<n, w>>] \in {"idle", "working", "polling", "gone"}
         /\ started[n] \in 0..Cardinality(Workers)
         /\ completed[n] \in 0..Cardinality(Workers)
         /\ pc[<<n, w>>] = "working" => /\ mgr[n] \in {"starting", "working"}
                                        /\ rounds[<<n, w>>] + 1 = phase[n]
         /\ (pc[<<n, w>>] = "idle" /\ rounds[<<n, w>>] < NPhases
               /\ status[n] = Script[rounds[<<n, w>>] + 1]) =>
              mgr[n] = "starting" /\ rounds[<<n, w>>] + 1 = phase[n]
         /\ (pc[<<n, w>>] = "polling" /\ status[n] # Script[rounds[<<n, w>>] + 1]) =>
              mgr[n] = "draining" /\ rounds[<<n, w>>] + 1 = phase[n]
         /\ pc[<<n, w>>] = "idle" /\ status[n] = "EXIT" => mgr[n] = "gone"
<1> DEFINE m == <<n, w>>
<1>1. /\ phase[n] \in 0..NPhases /\ rounds[m] \in 0..NPhases /\ m \in Members
      /\ mgr[n] \in Places /\ status[n] \in Statuses
      /\ pc[m] \in {"idle", "working", "polling", "gone"}
      /\ started[n] \in 0..Cardinality(Workers)
      /\ completed[n] \in 0..Cardinality(Workers)
  BY DEF EverythingInPhase, TypeOK, Members, Places, Statuses
<1>2. /\ mgr[n] \in {"begin", "signal", "waiting", "draining", "acks"} => status[n] = "STOP"
      /\ mgr[n] \in {"starting", "working", "stopping", "stop"} =>
           phase[n] > 0 /\ status[n] = Script[phase[n]]
      /\ mgr[n] = "gone" => status[n] = "EXIT"
      /\ WorkerInPhase(n, m)
  BY DEF EverythingInPhase, WorkersInPhase
<1>3. /\ rounds[m] < NPhases => Script[rounds[m] + 1] \notin {"STOP", "EXIT"}
      /\ phase[n] > 0 => Script[phase[n]] \notin {"STOP", "EXIT"}
  BY <1>1, ConstantFacts
<1>4. NPhases \in Nat
  BY ConstantFacts
<1> HIDE DEF m
<1>5. pc[m] = "working" => mgr[n] \in {"starting", "working"} /\ rounds[m] + 1 = phase[n]
  BY <1>1, <1>2, <1>4 DEF WorkerInPhase, Places
<1>6. pc[m] = "idle" /\ rounds[m] < NPhases /\ status[n] = Script[rounds[m] + 1] =>
        mgr[n] = "starting" /\ rounds[m] + 1 = phase[n]
  BY <1>1, <1>2, <1>3, <1>4 DEF WorkerInPhase, Places
<1>7. pc[m] = "polling" /\ status[n] # Script[rounds[m] + 1] =>
        mgr[n] = "draining" /\ rounds[m] + 1 = phase[n]
  BY <1>1, <1>2, <1>4 DEF WorkerInPhase, Places
<1>8. pc[m] = "idle" /\ status[n] = "EXIT" => mgr[n] = "gone"
  BY <1>1, <1>2, <1>3, <1>4 DEF WorkerInPhase, Places
<1> QED
  BY <1>1, <1>5, <1>6, <1>7, <1>8 DEF m

\* The types in two halves: what the steps count and where they are, and what
\* they pass on.
PlaceTypes ==
  /\ mgr \in [Nodes -> Places]
  /\ phase \in [Nodes -> 0..NPhases]
  /\ started \in [Nodes -> 0..Cardinality(Workers)]
  /\ completed \in [Nodes -> 0..Cardinality(Workers)]
  /\ missing \in [Nodes -> 0..Cardinality(Nodes)]
  /\ acks \in 0..Cardinality(Nodes)
  /\ pc \in [Members -> {"idle", "working", "polling", "gone"}]
  /\ rounds \in [Members -> 0..NPhases]

QueueTypes ==
  /\ status \in [Nodes -> Statuses]
  /\ signals \in [Followers -> Seq(Statuses \ {"STOP"})]
  /\ stops \in [Nodes \X Nodes -> Seq(1..NPhases)]

LEMMA TypeHalves == (TypeOK <=> PlaceTypes /\ QueueTypes) /\ (TypeOK' <=> PlaceTypes' /\ QueueTypes')
<1>1. Statuses \ {"STOP"} = {"EXIT"} \cup {Script[i] : i \in 1..NPhases}
  BY ConstantFacts DEF Statuses
<1>2. Statuses = {"STOP", "EXIT"} \cup {Script[i] : i \in 1..NPhases}
  BY DEF Statuses
<1> QED
  BY <1>1, <1>2, Zenon DEF TypeOK, PlaceTypes, QueueTypes, Places

LEMMA TailType ==
  ASSUME NEW T, NEW s \in Seq(T), s # <<>>
  PROVE  Tail(s) \in Seq(T) /\ Head(s) \in T
OBVIOUS

LEMMA BarrierTypes ==
  ASSUME EverythingInPhase, Next
  PROVE  TypeOK'
<1>0. /\ PlaceTypes /\ QueueTypes /\ Coordinator \in Nodes
      /\ \A n \in Followers : n \in Nodes /\ n # Coordinator
      /\ NPhases \in Nat /\ Cardinality(Nodes) \in Nat \ {0} /\ Cardinality(Workers) \in Nat
      /\ \A i \in 1..NPhases : Script[i] \in Statuses \ {"STOP"}
      /\ "STOP" \in Statuses /\ "EXIT" \in Statuses \ {"STOP"}
  BY NodesAssumption, TypeHalves, ConstantFacts DEF EverythingInPhase, Followers, Statuses
<1> SUFFICES PlaceTypes' /\ QueueTypes'
  BY TypeHalves
<1> USE <1>0
<1>1. CASE Begin
  <2>1. PlaceTypes'
    BY <1>1 DEF Begin, Goto, PlaceTypes, workerVars, Places
  <2> QED
    BY <1>1, <2>1 DEF Begin, QueueTypes, workerVars
<1>2. CASE SignalWorker \/ SignalExit
  <2>1. PlaceTypes'
    BY <1>2 DEF SignalWorker, SignalExit, Goto, PlaceTypes, workerVars, Places
  <2>2. PICK s \in Statuses \ {"STOP"} : SetStatus(Coordinator, s) /\ Signal(s)
    <3>1. SignalWorker => phase[Coordinator] \in 1..NPhases
      BY DEF SignalWorker, EverythingInPhase, ManagersInPhase, PlaceTypes
    <3> QED
      BY <1>2, <3>1 DEF SignalWorker, SignalExit
  <2>3. \A n \in Followers : Append(signals[n], s) \in Seq(Statuses \ {"STOP"})
    BY <2>2 DEF QueueTypes
  <2>4. /\ signals' \in [Followers -> Seq(Statuses \ {"STOP"})]
        /\ status' \in [Nodes -> Statuses]
    BY <2>2, <2>3 DEF Signal, SetStatus, QueueTypes
  <2>5. stops' = stops
    BY <1>2 DEF SignalWorker, SignalExit, workerVars
  <2> QED
    BY <2>1, <2>4, <2>5 DEF QueueTypes
<1>3. CASE AwaitAcks \/ TakeAck \/ PhaseDone
  <2>1. PlaceTypes'
    BY <1>3 DEF AwaitAcks, TakeAck, PhaseDone, Goto, PlaceTypes, workerVars, Places
  <2> QED
    BY <1>3, <2>1 DEF AwaitAcks, TakeAck, PhaseDone, QueueTypes, workerVars
<1>4. ASSUME NEW n \in Nodes, Wait4Signal(n) \/ Wait4Exit(n) PROVE PlaceTypes' /\ QueueTypes'
  <2>1. n \in Followers
    BY <1>4 DEF Wait4Signal, Wait4Exit, EverythingInPhase, ManagersInPhase, Followers
  <2>2. signals[n] \in Seq(Statuses \ {"STOP"}) /\ signals[n] # <<>>
    BY <1>4, <2>1 DEF QueueTypes, Wait4Signal, Wait4Exit
  <2>3. Tail(signals[n]) \in Seq(Statuses \ {"STOP"}) /\ Head(signals[n]) \in Statuses
    BY <2>2
  <2>4. signals' \in [Followers -> Seq(Statuses \ {"STOP"})]
    BY <1>4, <2>3 DEF Wait4Signal, Wait4Exit, QueueTypes
  <2>5. Wait4Signal(n) => phase[n] + 1 \in 0..NPhases
    <3>1. FollowerInPhase(n)
      BY <2>1 DEF EverythingInPhase, ManagersInPhase
    <3>2. ASSUME Wait4Signal(n) PROVE phase[n] + 1 = phase[Coordinator]
      <4>1. signals[n] # <<>> /\ signals[n] # <<"EXIT">>
        BY <3>2 DEF Wait4Signal
      <4>2. mgr[Coordinator] \in {"begin", "signal", "gone"} \/ Running
        BY DEF Running, PlaceTypes, Places, EverythingInPhase, ManagersInPhase
      <4> QED
        BY <3>1, <3>2, <4>1, <4>2 DEF FollowerInPhase, Wait4Signal
    <3> QED
      BY <3>2 DEF PlaceTypes
  <2>6. status' \in [Nodes -> Statuses] /\ stops' = stops
    BY <1>4, <2>3, ZenonT(60) DEF Wait4Signal, Wait4Exit, SetStatus, QueueTypes, workerVars
  <2>7. PlaceTypes'
    <3>1. CASE Wait4Signal(n)
      <4>1. phase' \in [Nodes -> 0..NPhases] /\ mgr' \in [Nodes -> Places]
        BY <2>5, <3>1 DEF Wait4Signal, Goto, PlaceTypes, Places
      <4> QED
        BY <3>1, <4>1, SMTT(30) DEF Wait4Signal, PlaceTypes, workerVars
    <3>2. CASE Wait4Exit(n)
      BY <3>2 DEF Wait4Exit, Goto, PlaceTypes, workerVars, Places
    <3> QED
      BY <1>4, <3>1, <3>2
  <2> QED
    BY <2>4, <2>6, <2>7 DEF QueueTypes
<1>5. ASSUME NEW n \in Nodes, WaitAllWorkersStart(n) \/ ResetCompleted(n) \/ SetStop(n)
      PROVE  PlaceTypes' /\ QueueTypes'
  <2>1. PlaceTypes'
    BY <1>5 DEF WaitAllWorkersStart, ResetCompleted, SetStop, Goto, PlaceTypes, workerVars, Places
  <2> QED
    BY <1>5, <2>1
    DEF WaitAllWorkersStart, ResetCompleted, SetStop, SetStatus, QueueTypes, workerVars
<1>6. ASSUME NEW n \in Nodes, BroadcastStop(n) PROVE PlaceTypes' /\ QueueTypes'
  <2>1. phase[n] \in 1..NPhases
    BY <1>6 DEF BroadcastStop, EverythingInPhase, WorkersInPhase, PlaceTypes
  <2>2. \A c \in Nodes \X Nodes : Append(stops[c], phase[n]) \in Seq(1..NPhases)
    BY <2>1 DEF QueueTypes
  <2>3. stops' \in [Nodes \X Nodes -> Seq(1..NPhases)]
    BY <1>6, <2>2 DEF BroadcastStop, Stop, QueueTypes
  <2>4. PlaceTypes'
    BY <1>6, SMTT(30) DEF BroadcastStop, Stop, Goto, PlaceTypes, workerVars, Places
  <2> QED
    BY <1>6, <2>3, <2>4 DEF BroadcastStop, QueueTypes, workerVars
<1>7. ASSUME NEW n \in Nodes, NEW from \in Nodes, TakeStop(n, from)
      PROVE  PlaceTypes' /\ QueueTypes'
  <2>1. stops[<<from, n>>] \in Seq(1..NPhases) /\ stops[<<from, n>>] # <<>>
    BY <1>7 DEF TakeStop, QueueTypes
  <2>2. Tail(stops[<<from, n>>]) \in Seq(1..NPhases)
    BY <2>1, TailType
  <2>3. stops' \in [Nodes \X Nodes -> Seq(1..NPhases)]
    BY <1>7, <2>2 DEF TakeStop, QueueTypes
  <2>4. PlaceTypes'
    <3>1. missing[n] - 1 \in 0..Cardinality(Nodes)
      BY <1>7, SMTT(30) DEF TakeStop, PlaceTypes
    <3>2. missing' = [missing EXCEPT ![n] = missing[n] - 1]
      BY <1>7 DEF TakeStop
    <3>3. missing' \in [Nodes -> 0..Cardinality(Nodes)]
      BY <3>1, <3>2 DEF PlaceTypes
    <3> QED
      BY <1>7, <3>3 DEF TakeStop, PlaceTypes, workerVars
  <2> QED
    BY <1>7, <2>3, <2>4 DEF TakeStop, QueueTypes, workerVars
<1>8. ASSUME NEW n \in Nodes, SendAck(n) PROVE PlaceTypes' /\ QueueTypes'
  <2>1. acks + 1 \in 0..Cardinality(Nodes)
    <3>1. (Running /\ mgr[Coordinator] # "acks") \/ mgr[Coordinator] = "acks" \/ acks = 0
      BY DEF EverythingInPhase, AcksInPhase
    <3>2. IsFiniteSet(Followers) /\ Cardinality(Followers) + 1 = Cardinality(Nodes)
      BY ConstantFacts
    <3>3. Cardinality(Acked) < Cardinality(Followers) /\ Cardinality(Acked) \in Nat
      <4>1. Acked \subseteq Followers /\ Acked # Followers
        BY <1>8 DEF Acked, SendAck
      <4>2. Cardinality(Followers) \in Nat
        BY <3>2, FS_CardinalityType
      <4> QED
        BY <3>2, <4>1, <4>2, FS_Subset, FS_CardinalityType
    <3>4. missing[Coordinator] \in 0..Cardinality(Nodes) /\ acks \in 0..Cardinality(Nodes)
      BY DEF PlaceTypes
    <3>5. CASE mgr[Coordinator] = "acks"
      <4>1. acks + Cardinality(Nodes) = Cardinality(Acked) + missing[Coordinator] + 1
        BY <3>5 DEF EverythingInPhase, AcksInPhase
      <4> QED
        BY <3>2, <3>3, <3>4, <4>1, FS_CardinalityType
    <3>6. CASE Running /\ mgr[Coordinator] # "acks"
      <4>1. acks = Cardinality(Acked)
        BY <3>6 DEF EverythingInPhase, AcksInPhase
      <4> QED
        BY <3>2, <3>3, <3>4, <4>1, FS_CardinalityType
    <3> QED
      BY <3>1, <3>5, <3>6
  <2>2. PlaceTypes'
    BY <1>8, <2>1 DEF SendAck, Goto, PlaceTypes, workerVars, Places
  <2> QED
    BY <1>8, <2>2 DEF SendAck, QueueTypes, workerVars
<1>9. ASSUME NEW n \in Nodes, NEW w \in Workers, StartWork(<<n, w>>)
      PROVE  PlaceTypes' /\ QueueTypes'
  <2>1. started[n] + 1 \in 0..Cardinality(Workers)
    <3>1. mgr[n] = "starting" /\ started[n] \in 0..Cardinality(Workers)
      BY <1>9, NodeFacts DEF StartWork
    <3>2. started[n] = Count(n, {"working", "polling"})
      BY <3>1 DEF EverythingInPhase, CountersExact
    <3>3. Count(n, {"working", "polling"}) < Cardinality(Workers)
      BY <1>9, CountMoves DEF StartWork, EverythingInPhase
    <3> QED
      BY <3>1, <3>2, <3>3
  <2>2. PlaceTypes'
    BY <1>9, <2>1 DEF StartWork, PlaceTypes, managerVars
  <2> QED
    BY <1>9, <2>2 DEF StartWork, QueueTypes, managerVars
<1>10. ASSUME NEW n \in Nodes, NEW w \in Workers, FinishWork(<<n, w>>)
       PROVE  PlaceTypes' /\ QueueTypes'
  <2>1. /\ mgr[n] \in {"starting", "working"} /\ rounds[<<n, w>>] + 1 \in 1..NPhases
        /\ completed[n] \in 0..Cardinality(Workers)
    BY <1>10, NodeFacts DEF FinishWork
  <2>2. completed[n] + 1 \in 0..Cardinality(Workers)
    <3>1. completed[n] = Count(n, {"polling"})
      BY <2>1 DEF EverythingInPhase, CountersExact
    <3>2. Count(n, {"polling"}) < Cardinality(Workers)
      BY <1>10, CountMoves DEF FinishWork, EverythingInPhase
    <3> QED
      BY <2>1, <3>1, <3>2
  <2>3. PlaceTypes'
    BY <1>10, <2>2 DEF FinishWork, PlaceTypes, managerVars
  <2> QED
    BY <1>10, <2>3 DEF FinishWork, QueueTypes, managerVars
<1>11. ASSUME NEW n \in Nodes, NEW w \in Workers, Leave(<<n, w>>)
       PROVE  PlaceTypes' /\ QueueTypes'
  <2>1. /\ mgr[n] = "draining" /\ rounds[<<n, w>>] + 1 \in 0..NPhases
        /\ completed[n] \in 0..Cardinality(Workers)
    BY <1>11, NodeFacts DEF Leave
  <2>2. completed[n] + 1 \in 0..Cardinality(Workers)
    <3>1. completed[n] = Count(n, {"idle"})
      BY <2>1 DEF EverythingInPhase, CountersExact
    <3>2. Count(n, {"idle"}) < Cardinality(Workers)
      BY <1>11, CountMoves DEF Leave, EverythingInPhase
    <3> QED
      BY <2>1, <3>1, <3>2
  <2>3. PlaceTypes'
    BY <1>11, <2>1, <2>2 DEF Leave, PlaceTypes, managerVars
  <2> QED
    BY <1>11, <2>3 DEF Leave, QueueTypes, managerVars
<1>12. ASSUME NEW n \in Nodes, NEW w \in Workers, Exit(<<n, w>>)
       PROVE  PlaceTypes' /\ QueueTypes'
  BY <1>12 DEF Exit, PlaceTypes, QueueTypes, managerVars
<1> QED
  BY <1>1, <1>2, <1>3, <1>4, <1>5, <1>6, <1>7, <1>8, <1>9, <1>10, <1>11, <1>12
  DEF Next, Coordinate, Manage, Work, Members

\* Everything that managers agree on, which the workers do not change.
Agreed == ManagersInPhase /\ StopsInPhase /\ AcksInPhase

\* A manager that is at work in a phase is in the coordinator's phase.
LEMMA ActiveFacts ==
  ASSUME EverythingInPhase
  PROVE  /\ Coordinator \in Nodes /\ Coordinator \notin Followers
         /\ \A n \in Nodes : n = Coordinator \/ n \in Followers
         /\ \A n \in Followers : n \in Nodes
         /\ phase[Coordinator] \in 0..NPhases /\ NPhases \in Nat
         /\ mgr[Coordinator] \in {"begin", "signal", "gone"} <=> ~Running
         /\ \A n \in Nodes : phase[n] \in 0..NPhases
         /\ \A n \in Nodes :
              mgr[n] \in {"starting", "working", "stopping", "stop", "draining", "acks"} =>
                /\ Running /\ InPhase(n)
                /\ n \in Followers => signals[n] = <<>> /\ mgr[n] # "acks"
<1>1. /\ Coordinator \in Nodes /\ Coordinator \notin Followers
      /\ \A n \in Nodes : n = Coordinator \/ n \in Followers
      /\ \A n \in Followers : n \in Nodes
      /\ NPhases \in Nat
  BY NodesAssumption, ConstantFacts DEF Followers
<1>2. PlaceTypes /\ ManagersInPhase
  BY TypeHalves DEF EverythingInPhase
<1>3. mgr[Coordinator] \in {"begin", "signal", "gone"} <=> ~Running
  BY <1>1, <1>2 DEF PlaceTypes, Places, ManagersInPhase, Running
<1>4. ASSUME NEW n \in Nodes,
             mgr[n] \in {"starting", "working", "stopping", "stop", "draining", "acks"}
      PROVE  /\ Running /\ InPhase(n)
             /\ n \in Followers => signals[n] = <<>> /\ mgr[n] # "acks"
  <2>1. CASE n = Coordinator
    BY <1>1, <1>4, <2>1 DEF Running, InPhase
  <2>2. CASE n \in Followers
    <3>1. FollowerInPhase(n)
      BY <1>2, <2>2 DEF ManagersInPhase
    <3> QED
      BY <1>3, <1>4, <3>1 DEF FollowerInPhase
  <2> QED
    BY <1>1, <2>1, <2>2
<1> QED
  BY <1>1, <1>2, <1>3, <1>4 DEF PlaceTypes

\* Moves within a phase that tell nobody anything.
LEMMA QuietMove ==
  ASSUME EverythingInPhase, TypeOK', NEW n \in Nodes, NEW place,
         mgr' = [mgr EXCEPT ![n] = place],
         <<mgr[n], place>> \in {<<"starting", "working">>, <<"stop", "draining">>},
         UNCHANGED <<phase, signals, stops, acks, missing>>
  PROVE  Agreed'
<1>0. /\ PlaceTypes /\ ManagersInPhase /\ StopsInPhase /\ AcksInPhase
      /\ Running /\ InPhase(n)
      /\ n \in Followers => signals[n] = <<>>
  BY ActiveFacts, TypeHalves DEF EverythingInPhase
<1>1. /\ \A o \in Nodes : o # n => mgr'[o] = mgr[o]
      /\ mgr'[n] = place
  BY <1>0 DEF PlaceTypes
<1>2. /\ \A o \in Nodes : /\ Sent(o)' <=> Sent(o)
                          /\ Received(o)' <=> Received(o)
                          /\ InPhase(o)' <=> InPhase(o)
                          /\ mgr'[o] = "stopping" <=> mgr[o] = "stopping"
      /\ Running' /\ (mgr'[Coordinator] = "acks" <=> mgr[Coordinator] = "acks")
      /\ mgr'[Coordinator] \notin {"begin", "signal", "gone", "waiting"}
  BY <1>0, <1>1, ActiveFacts DEF Sent, Received, InPhase, Running
<1>3. Acked' = Acked
  BY <1>1, <1>2, ActiveFacts DEF Acked
<1>4. ManagersInPhase'
  <2>1. ASSUME NEW o \in Followers PROVE FollowerInPhase(o)'
    <3>1. FollowerInPhase(o)
      BY <1>0, <2>1 DEF ManagersInPhase
    <3> QED
      BY <1>0, <1>1, <1>2, <2>1, <3>1, ActiveFacts DEF FollowerInPhase
  <2> QED
    BY <1>0, <1>2, <2>1 DEF ManagersInPhase
<1>5. StopsInPhase'
  <2>1. \A o, from \in Nodes : StopInPhase(o, from)'
    BY <1>0, <1>2, ActiveFacts DEF StopsInPhase, StopInPhase
  <2>2. \A o \in Nodes : Awaited(o)' = Awaited(o)
    BY <1>2 DEF Awaited
  <2> QED
    BY <1>0, <1>2, <2>1, <2>2 DEF StopsInPhase
<1>6. AcksInPhase'
  BY <1>0, <1>2, <1>3 DEF AcksInPhase
<1> QED
  BY <1>4, <1>5, <1>6 DEF Agreed

\* The coordinator's steps between phases.
LEMMA BetweenPhases ==
  ASSUME EverythingInPhase, TypeOK', Begin \/ SignalWorker \/ SignalExit
  PROVE  Agreed'
<1>0. /\ PlaceTypes /\ ManagersInPhase /\ StopsInPhase /\ AcksInPhase /\ ~Running
      /\ signals \in [Followers -> Seq(Statuses \ {"STOP"})]
  BY ActiveFacts, TypeHalves
  DEF EverythingInPhase, Begin, SignalWorker, SignalExit, QueueTypes, Running
<1>1. \A o \in Followers : mgr'[o] = mgr[o] /\ o # Coordinator /\ phase'[o] = phase[o]
  BY <1>0, ActiveFacts DEF PlaceTypes, Begin, SignalWorker, SignalExit, Goto
<1>2. /\ \A o, from \in Nodes : stops'[<<from, o>>] = <<>>
      /\ acks' = 0
  BY <1>0 DEF Begin, SignalWorker, SignalExit, StopsInPhase, StopInPhase, AcksInPhase
<1>3. CASE Begin
  <2>1. /\ mgr'[Coordinator] = "signal" /\ phase'[Coordinator] = phase[Coordinator] + 1
        /\ signals' = signals /\ mgr[Coordinator] = "begin"
    BY <1>0, <1>3, ActiveFacts DEF Begin, Goto, PlaceTypes
  <2>2. ASSUME NEW o \in Followers
        PROVE  mgr'[o] = "waiting" /\ phase'[o] + 1 = phase'[Coordinator] /\ signals'[o] = <<>>
    BY <1>0, <1>1, <2>1 DEF ManagersInPhase, FollowerInPhase, InPhase
  <2>3. ManagersInPhase'
    BY <2>1, <2>2, ActiveFacts DEF ManagersInPhase, FollowerInPhase, Running
  <2>4. ~Running' /\ mgr'[Coordinator] # "acks"
    BY <2>1 DEF Running
  <2>5. \A o \in Nodes : mgr'[o] # "stopping"
    BY <2>1, <2>2, ActiveFacts
  <2>6. StopsInPhase'
    BY <1>2, <2>4, <2>5 DEF StopsInPhase, StopInPhase
  <2>7. AcksInPhase'
    BY <1>2, <2>4 DEF AcksInPhase
  <2> QED
    BY <2>3, <2>6, <2>7 DEF Agreed
<1>4. CASE SignalExit
  <2>1. /\ mgr'[Coordinator] = "gone" /\ phase' = phase /\ phase[Coordinator] = NPhases
        /\ signals' = [o \in Followers |-> Append(signals[o], "EXIT")]
        /\ mgr[Coordinator] = "begin"
    BY <1>0, <1>4, ActiveFacts DEF SignalExit, Goto, PlaceTypes, Signal
  <2>2. ASSUME NEW o \in Followers
        PROVE  mgr'[o] = "waiting" /\ InPhase(o)' /\ signals'[o] = <<"EXIT">>
    <3>1. mgr[o] = "waiting" /\ InPhase(o) /\ signals[o] = <<>>
      BY <1>0, <2>1 DEF ManagersInPhase, FollowerInPhase
    <3>2. Append(<<>>, "EXIT") = <<"EXIT">>
      OBVIOUS
    <3> QED
      BY <1>1, <2>1, <3>1, <3>2 DEF InPhase
  <2>3. ManagersInPhase'
    BY <2>1, <2>2, ActiveFacts DEF ManagersInPhase, FollowerInPhase, Running
  <2>4. ~Running' /\ mgr'[Coordinator] # "acks"
    BY <2>1 DEF Running
  <2>5. \A o \in Nodes : mgr'[o] # "stopping"
    BY <2>1, <2>2, ActiveFacts
  <2>6. StopsInPhase'
    BY <1>2, <2>4, <2>5 DEF StopsInPhase, StopInPhase
  <2>7. AcksInPhase'
    BY <1>2, <2>4 DEF AcksInPhase
  <2> QED
    BY <2>3, <2>6, <2>7 DEF Agreed
<1>5. CASE SignalWorker
  <2> DEFINE s == Script[phase[Coordinator]]
  <2>1. /\ mgr'[Coordinator] = "starting" /\ phase' = phase /\ phase[Coordinator] > 0
        /\ signals' = [o \in Followers |-> Append(signals[o], s)]
        /\ mgr[Coordinator] = "signal"
    BY <1>0, <1>5, ActiveFacts DEF SignalWorker, Goto, PlaceTypes, Signal, ManagersInPhase
  <2> HIDE DEF s
  <2>2. ASSUME NEW o \in Followers
        PROVE  /\ mgr'[o] = "waiting" /\ phase'[o] + 1 = phase'[Coordinator]
               /\ signals'[o] = <<s>>
    <3>1. mgr[o] = "waiting" /\ phase[o] + 1 = phase[Coordinator] /\ signals[o] = <<>>
      BY <1>0, <2>1 DEF ManagersInPhase, FollowerInPhase
    <3>2. Append(<<>>, s) = <<s>>
      OBVIOUS
    <3> QED
      BY <1>1, <2>1, <3>1, <3>2
  <2>3. Running'
    BY <2>1 DEF Running
  <2>4. ManagersInPhase'
    <3>1. ASSUME NEW o \in Followers PROVE FollowerInPhase(o)'
      BY <2>1, <2>2, <2>3 DEF FollowerInPhase, s
    <3> QED
      BY <2>1, <3>1 DEF ManagersInPhase
  <2>5. \A o \in Nodes : ~Sent(o)' /\ ~Received(o)' /\ mgr'[o] # "stopping"
    <3>1. \A o \in Followers : phase'[o] # phase'[Coordinator]
      BY <2>1, <2>2, ActiveFacts
    <3> QED
      BY <2>1, <2>2, <3>1, ActiveFacts DEF Sent, Received, InPhase
  <2>6. StopsInPhase'
    BY <1>2, <2>3, <2>5 DEF StopsInPhase, StopInPhase
  <2>7. Acked' = {}
    BY <2>5, ActiveFacts DEF Acked, Sent
  <2>8. AcksInPhase'
    BY <1>2, <2>1, <2>3, <2>7, FS_EmptySet DEF AcksInPhase
  <2> QED
    BY <2>4, <2>6, <2>8 DEF Agreed
<1> QED
  BY <1>3, <1>4, <1>5

\* What a step does to the STOP messages when nobody sends or takes one.
LEMMA StopsStay ==
  ASSUME StopsInPhase, Running, Running', UNCHANGED stops,
         phase'[Coordinator] = phase[Coordinator],
         \A o \in Nodes : /\ Sent(o)' <=> Sent(o)
                          /\ Received(o)' <=> Received(o)
                          /\ mgr'[o] = "stopping" =>
                               mgr[o] = "stopping" /\ missing'[o] = missing[o]
  PROVE  StopsInPhase'
<1>1. \A o, from \in Nodes : StopInPhase(o, from)'
  BY DEF StopsInPhase, StopInPhase
<1>2. \A o \in Nodes : Awaited(o)' = Awaited(o)
  BY DEF Awaited
<1> QED
  BY <1>1, <1>2 DEF StopsInPhase

\* What a follower's step leaves to the other followers.
LEMMA OthersInPhase ==
  ASSUME EverythingInPhase, NEW n \in Followers,
         \A o \in Nodes : o # n => mgr'[o] = mgr[o] /\ phase'[o] = phase[o],
         \A o \in Followers : o # n => signals'[o] = signals[o],
         FollowerInPhase(n)'
  PROVE  ManagersInPhase' /\ (Running' <=> Running)
<1>1. mgr'[Coordinator] = mgr[Coordinator] /\ phase'[Coordinator] = phase[Coordinator]
  BY ActiveFacts
<1>2. Running' <=> Running
  BY <1>1 DEF Running
<1>3. ASSUME NEW o \in Followers, o # n PROVE FollowerInPhase(o)'
  <2>1. FollowerInPhase(o) /\ o \in Nodes
    BY ActiveFacts DEF EverythingInPhase, ManagersInPhase
  <2>2. mgr'[o] = mgr[o] /\ phase'[o] = phase[o] /\ signals'[o] = signals[o]
    BY <1>3, <2>1
  <2> QED
    BY <1>1, <1>2, <2>1, <2>2 DEF FollowerInPhase, InPhase
<1>4. \A o \in Followers : FollowerInPhase(o)'
  BY <1>3
<1> QED
  BY <1>1, <1>2, <1>4 DEF EverythingInPhase, ManagersInPhase

LEMMA SignalTaken ==
  ASSUME EverythingInPhase, TypeOK', NEW n \in Nodes, Wait4Signal(n)
  PROVE  Agreed' /\ phase[n] + 1 = phase[Coordinator] /\ InPhase(n)'
<1>0. /\ PlaceTypes /\ ManagersInPhase /\ StopsInPhase /\ AcksInPhase
      /\ n \in Followers /\ n # Coordinator
  BY TypeHalves, ActiveFacts DEF EverythingInPhase, Wait4Signal, ManagersInPhase
<1>1. Running /\ phase[n] + 1 = phase[Coordinator] /\ signals[n] = <<Script[phase[Coordinator]]>>
  <2>1. FollowerInPhase(n) /\ mgr[n] = "waiting" /\ signals[n] # <<>> /\ signals[n] # <<"EXIT">>
    BY <1>0 DEF ManagersInPhase, Wait4Signal
  <2> QED
    BY <2>1, ActiveFacts DEF FollowerInPhase
<1>2. /\ \A o \in Nodes : o # n => mgr'[o] = mgr[o] /\ phase'[o] = phase[o]
      /\ mgr'[n] = "starting" /\ phase'[n] = phase[n] + 1
      /\ phase'[Coordinator] = phase[Coordinator]
  BY <1>0, ActiveFacts DEF Wait4Signal, Goto, PlaceTypes
<1>3. /\ \A o \in Followers : o # n => signals'[o] = signals[o]
      /\ signals'[n] = <<>>
  <2>1. signals'[n] = Tail(signals[n]) /\ \A o \in Followers : o # n => signals'[o] = signals[o]
    BY <1>0, TypeHalves DEF Wait4Signal, EverythingInPhase, QueueTypes
  <2> QED
    BY <1>1, <2>1
<1>4. InPhase(n)' /\ ~InPhase(n)
  BY <1>1, <1>2, ActiveFacts DEF InPhase
<1>5. FollowerInPhase(n)'
  BY <1>0, <1>1, <1>2, <1>3, <1>4, ActiveFacts DEF FollowerInPhase, Running
<1>6. ManagersInPhase' /\ Running'
  BY <1>0, <1>1, <1>2, <1>3, <1>5, OthersInPhase
<1>7. \A o \in Nodes : /\ Sent(o)' <=> Sent(o)
                       /\ Received(o)' <=> Received(o)
                       /\ mgr'[o] = "stopping" => mgr[o] = "stopping"
  BY <1>2, <1>4 DEF Sent, Received, InPhase
<1>8. StopsInPhase'
  <2>1. UNCHANGED <<stops, missing>>
    BY DEF Wait4Signal
  <2> QED
    BY <1>0, <1>1, <1>2, <1>6, <1>7, <2>1, StopsStay
<1>9. Acked' = Acked
  BY <1>2, <1>4, ActiveFacts DEF Acked, InPhase
<1>10. AcksInPhase'
  <2>1. mgr'[Coordinator] = mgr[Coordinator]
    BY <1>0, <1>2, ActiveFacts
  <2> QED
    BY <1>0, <1>1, <1>6, <1>9, <2>1 DEF AcksInPhase, Wait4Signal
<1> QED
  BY <1>1, <1>4, <1>6, <1>8, <1>10 DEF Agreed

LEMMA ExitTaken ==
  ASSUME EverythingInPhase, TypeOK', NEW n \in Nodes, Wait4Exit(n)
  PROVE  Agreed' /\ ~Running
<1>0. /\ PlaceTypes /\ ManagersInPhase /\ StopsInPhase /\ AcksInPhase
      /\ n \in Followers /\ n # Coordinator
  BY TypeHalves, ActiveFacts DEF EverythingInPhase, Wait4Exit, ManagersInPhase
<1>1. mgr[Coordinator] = "gone" /\ InPhase(n) /\ signals[n] = <<"EXIT">> /\ ~Running
  <2>1. FollowerInPhase(n) /\ mgr[n] = "waiting" /\ signals[n] # <<>> /\ Head(signals[n]) = "EXIT"
    BY <1>0 DEF ManagersInPhase, Wait4Exit
  <2>2. Running => Script[phase[Coordinator]] # "EXIT"
    BY <1>0, ConstantFacts, ActiveFacts DEF ManagersInPhase
  <2>3. Running => signals[n] # <<Script[phase[Coordinator]]>>
    BY <2>1, <2>2
  <2> QED
    BY <2>1, <2>3, ActiveFacts DEF FollowerInPhase
<1>2. /\ \A o \in Nodes : o # n => mgr'[o] = mgr[o]
      /\ mgr'[n] = "gone" /\ phase' = phase
  BY <1>0 DEF Wait4Exit, Goto, PlaceTypes
<1>3. /\ \A o \in Followers : o # n => signals'[o] = signals[o]
      /\ signals'[n] = <<>>
  <2>1. signals'[n] = Tail(signals[n]) /\ \A o \in Followers : o # n => signals'[o] = signals[o]
    BY <1>0, TypeHalves DEF Wait4Exit, EverythingInPhase, QueueTypes
  <2> QED
    BY <1>1, <2>1
<1>4. FollowerInPhase(n)'
  BY <1>0, <1>1, <1>2, <1>3, ActiveFacts DEF FollowerInPhase, Running, InPhase
<1>5. ManagersInPhase' /\ ~Running'
  BY <1>0, <1>1, <1>2, <1>3, <1>4, OthersInPhase
<1>6. \A o \in Nodes : mgr'[o] # "stopping"
  <2>1. \A o \in Nodes : mgr[o] # "stopping"
    BY <1>1, ActiveFacts
  <2> QED
    BY <1>2, <2>1
<1>7. StopsInPhase'
  BY <1>0, <1>1, <1>5, <1>6 DEF StopsInPhase, StopInPhase, Wait4Exit
<1>8. AcksInPhase'
  <2>1. mgr'[Coordinator] # "acks"
    BY <1>5 DEF Running
  <2> QED
    BY <1>0, <1>1, <1>5, <2>1 DEF AcksInPhase, Wait4Exit
<1> QED
  BY <1>1, <1>5, <1>7, <1>8 DEF Agreed

\* The steps of a manager within the coordinator's phase leave FollowerInPhase
\* as it is, as long as nobody signals.
LEMMA StillInPhase ==
  ASSUME EverythingInPhase, NEW n \in Nodes, Running, InPhase(n), Running',
         \A o \in Nodes : o # n => mgr'[o] = mgr[o],
         UNCHANGED <<phase, signals>>,
         mgr[n] \in {"starting", "working", "stopping", "stop", "draining", "acks"},
         mgr'[n] \in {"stopping", "stop", "draining", "acks", "waiting"},
         n \in Followers => mgr'[n] # "acks",
         n = Coordinator => mgr'[n] # "waiting"
  PROVE  ManagersInPhase'
<1>1. mgr'[Coordinator] \notin {"begin", "signal", "gone", "waiting"}
  BY ActiveFacts DEF Running
<1>2. ASSUME NEW o \in Followers PROVE FollowerInPhase(o)'
  <2>1. FollowerInPhase(o) /\ o \in Nodes
    BY ActiveFacts DEF EverythingInPhase, ManagersInPhase
  <2>2. CASE o # n
    BY <1>1, <2>1, <2>2 DEF FollowerInPhase, InPhase
  <2>3. CASE o = n
    <3>1. signals[n] = <<>>
      BY <1>2, <2>3, ActiveFacts
    <3> QED
      BY <1>1, <1>2, <2>3, <3>1 DEF FollowerInPhase, InPhase
  <2> QED
    BY <2>2, <2>3
<1> QED
  BY <1>1, <1>2 DEF EverythingInPhase, ManagersInPhase

LEMMA StopSent ==
  ASSUME EverythingInPhase, TypeOK', NEW n \in Nodes, BroadcastStop(n)
  PROVE  Agreed'
<1>0. /\ PlaceTypes /\ ManagersInPhase /\ StopsInPhase /\ AcksInPhase
      /\ mgr[n] = "working" /\ Running /\ InPhase(n)
      /\ stops \in [Nodes \X Nodes -> Seq(1..NPhases)]
      /\ UNCHANGED <<phase, signals, acks>>
  BY TypeHalves, ActiveFacts DEF EverythingInPhase, BroadcastStop, QueueTypes
<1>1. /\ \A o \in Nodes : o # n => mgr'[o] = mgr[o] /\ missing'[o] = missing[o]
      /\ mgr'[n] = "stopping" /\ missing'[n] = Cardinality(Nodes) - 1
  BY <1>0 DEF BroadcastStop, Stop, Goto, PlaceTypes
<1>2. /\ \A from, o \in Nodes : from # n \/ o = n => stops'[<<from, o>>] = stops[<<from, o>>]
      /\ \A o \in Nodes : o # n => stops'[<<n, o>>] = Append(stops[<<n, o>>], phase[n])
  BY <1>0 DEF BroadcastStop, Stop
<1>3. /\ ~Sent(n) /\ ~Received(n) /\ Sent(n)' /\ ~Received(n)'
      /\ \A o \in Nodes : o # n => (Sent(o)' <=> Sent(o)) /\ (Received(o)' <=> Received(o))
  BY <1>0, <1>1 DEF Sent, Received, InPhase
<1>4. Running' /\ (mgr'[Coordinator] = "acks" <=> mgr[Coordinator] = "acks")
  BY <1>0, <1>1, ActiveFacts DEF Running
<1>5. ManagersInPhase'
  BY <1>0, <1>1, <1>4, StillInPhase
<1>6. \A o, from \in Nodes : StopInPhase(o, from)
  BY <1>0 DEF StopsInPhase
<1>7. \A o \in Nodes : o # n =>
        ~Received(o) /\ stops[<<n, o>>] = <<>> /\ stops'[<<n, o>>] = <<phase[Coordinator]>>
  <2>1. \A o \in Nodes : o # n => ~Received(o) /\ stops[<<n, o>>] = <<>>
    BY <1>0, <1>3, <1>6 DEF StopInPhase
  <2>2. Append(<<>>, phase[n]) = <<phase[Coordinator]>>
    BY <1>0 DEF InPhase
  <2> QED
    BY <1>2, <2>1, <2>2
<1>8. ASSUME NEW o \in Nodes, NEW from \in Nodes PROVE StopInPhase(o, from)'
  <2>1. StopInPhase(o, from)
    BY <1>6
  <2>2. CASE from = n /\ o # n
    <3>1. stops'[<<n, o>>] = <<phase'[Coordinator]>> /\ ~Received(o)' /\ Sent(n)' /\ n # o
      BY <1>0, <1>3, <1>7, <2>2
    <3>2. <<phase'[Coordinator]>> # <<>>
      OBVIOUS
    <3> QED
      BY <1>4, <2>2, <3>1, <3>2 DEF StopInPhase
  <2>3. CASE o = n
    BY <1>0, <1>2, <1>3, <1>4, <2>1, <2>3 DEF StopInPhase
  <2>4. CASE o # n /\ from # n
    BY <1>0, <1>2, <1>3, <1>4, <2>1, <2>4 DEF StopInPhase
  <2> QED
    BY <2>2, <2>3, <2>4
<1>9. \A o \in Nodes : o # n => Awaited(o)' = Awaited(o)
  BY <1>2, <1>3, <1>7 DEF Awaited
<1>10. Awaited(n)' = Nodes \ {n}
  <2>1. \A from \in Nodes \ {n} : Sent(from)' => stops'[<<from, n>>] # <<>>
    BY <1>0, <1>2, <1>3, <1>6 DEF StopInPhase
  <2> QED
    BY <2>1 DEF Awaited
<1>11. Cardinality(Nodes \ {n}) = Cardinality(Nodes) - 1
  BY NodesAssumption, FS_RemoveElement
<1>12. StopsInPhase'
  BY <1>0, <1>1, <1>8, <1>9, <1>10, <1>11 DEF StopsInPhase
<1>13. Acked' = Acked
  BY <1>0, <1>1, ActiveFacts DEF Acked, InPhase
<1>14. AcksInPhase'
  <2>1. mgr[Coordinator] = "acks" => missing'[Coordinator] = missing[Coordinator]
    BY <1>0, <1>1, ActiveFacts
  <2> QED
    BY <1>0, <1>4, <1>13, <2>1 DEF AcksInPhase
<1> QED
  BY <1>5, <1>12, <1>14 DEF Agreed

LEMMA StopTaken ==
  ASSUME EverythingInPhase, TypeOK', NEW n \in Nodes, NEW sender \in Nodes, TakeStop(n, sender)
  PROVE  Agreed'
<1>0. /\ PlaceTypes /\ ManagersInPhase /\ StopsInPhase /\ AcksInPhase
      /\ mgr[n] = "stopping" /\ Running /\ InPhase(n)
      /\ stops \in [Nodes \X Nodes -> Seq(1..NPhases)]
      /\ UNCHANGED <<mgr, phase, signals, acks>>
      /\ stops[<<sender, n>>] # <<>>
  BY TypeHalves, ActiveFacts DEF EverythingInPhase, TakeStop, QueueTypes
<1>1. /\ \A o \in Nodes : o # n => missing'[o] = missing[o]
      /\ missing'[n] = missing[n] - 1
  BY <1>0 DEF TakeStop, PlaceTypes
<1>2. \A o, from \in Nodes : StopInPhase(o, from)
  BY <1>0 DEF StopsInPhase
<1>3. sender # n /\ Sent(sender) /\ stops[<<sender, n>>] = <<phase[Coordinator]>>
  BY <1>0, <1>2 DEF StopInPhase
<1>4. /\ \A from, o \in Nodes : from # sender \/ o # n => stops'[<<from, o>>] = stops[<<from, o>>]
      /\ stops'[<<sender, n>>] = <<>>
  <2>1. stops' = [stops EXCEPT ![<<sender, n>>] = Tail(stops[<<sender, n>>])]
    BY DEF TakeStop
  <2>2. Tail(stops[<<sender, n>>]) = <<>>
    BY <1>3
  <2> QED
    BY <1>0, <2>1, <2>2
<1>5. /\ \A o \in Nodes : (Sent(o)' <=> Sent(o)) /\ (Received(o)' <=> Received(o))
      /\ Sent(n) /\ ~Received(n) /\ Running'
  BY <1>0 DEF Sent, Received, InPhase, Running
<1>6. ManagersInPhase'
  BY <1>0, <1>5, StillInPhase, ActiveFacts
<1>7. ASSUME NEW o \in Nodes, NEW from \in Nodes PROVE StopInPhase(o, from)'
  <2>1. StopInPhase(o, from)
    BY <1>2
  <2>2. CASE from = sender /\ o = n
    BY <1>0, <1>3, <1>4, <1>5, <2>2 DEF StopInPhase
  <2>3. CASE from # sender \/ o # n
    BY <1>0, <1>4, <1>5, <2>1, <2>3 DEF StopInPhase
  <2> QED
    BY <2>2, <2>3
<1>8. \A o \in Nodes : o # n => Awaited(o)' = Awaited(o)
  BY <1>4, <1>5 DEF Awaited
<1>9. Awaited(n)' = Awaited(n) \ {sender} /\ sender \in Awaited(n)
  BY <1>0, <1>3, <1>4, <1>5 DEF Awaited
<1>10. Cardinality(Awaited(n)') = Cardinality(Awaited(n)) - 1
  <2>1. IsFiniteSet(Awaited(n))
    <3>1. Awaited(n) \subseteq Nodes
      BY DEF Awaited
    <3> QED
      BY <3>1, NodesAssumption, FS_Subset
  <2> QED
    BY <1>9, <2>1, FS_RemoveElement
<1>11. StopsInPhase'
  BY <1>0, <1>1, <1>7, <1>8, <1>10 DEF StopsInPhase
<1>12. AcksInPhase'
  <2>1. Acked' = Acked
    BY <1>0 DEF Acked, InPhase
  <2>2. mgr[Coordinator] = "acks" => missing'[Coordinator] = missing[Coordinator]
    BY <1>0, <1>1, ActiveFacts
  <2> QED
    BY <1>0, <1>5, <2>1, <2>2 DEF AcksInPhase
<1> QED
  BY <1>6, <1>11, <1>12 DEF Agreed

LEMMA StopsComplete ==
  ASSUME EverythingInPhase, TypeOK', NEW n \in Nodes, ResetCompleted(n)
  PROVE  Agreed'
<1>0. /\ PlaceTypes /\ ManagersInPhase /\ StopsInPhase /\ AcksInPhase
      /\ mgr[n] = "stopping" /\ Running /\ InPhase(n)
      /\ UNCHANGED <<phase, signals, stops, acks, missing>>
      /\ missing[n] = 0
  BY TypeHalves, ActiveFacts DEF EverythingInPhase, ResetCompleted
<1>1. /\ \A o \in Nodes : o # n => mgr'[o] = mgr[o]
      /\ mgr'[n] = "stop"
  BY <1>0 DEF ResetCompleted, Goto, PlaceTypes
<1>2. /\ \A o \in Nodes : (Sent(o)' <=> Sent(o))
      /\ \A o \in Nodes : o # n => (Received(o)' <=> Received(o))
      /\ Sent(n) /\ Running' /\ (mgr'[Coordinator] = "acks" <=> mgr[Coordinator] = "acks")
  BY <1>0, <1>1, ActiveFacts DEF Sent, Received, InPhase, Running
<1>3. ManagersInPhase'
  BY <1>0, <1>1, <1>2, StillInPhase
<1>4. \A from \in Nodes \ {n} : Sent(from) /\ stops[<<from, n>>] = <<>>
  <2>1. Awaited(n) \subseteq Nodes
    BY DEF Awaited
  <2>2. IsFiniteSet(Awaited(n)) /\ Cardinality(Awaited(n)) = 0
    BY <1>0, <2>1, NodesAssumption, FS_Subset DEF StopsInPhase
  <2>3. Awaited(n) = {}
    BY <2>2, FS_EmptySet
  <2> QED
    BY <2>3 DEF Awaited
<1>5. ASSUME NEW o \in Nodes, NEW from \in Nodes PROVE StopInPhase(o, from)'
  <2>1. StopInPhase(o, from)
    BY <1>0 DEF StopsInPhase
  <2>2. CASE o = n
    BY <1>0, <1>2, <1>4, <2>1, <2>2 DEF StopInPhase
  <2>3. CASE o # n
    BY <1>0, <1>2, <2>1, <2>3 DEF StopInPhase
  <2> QED
    BY <2>2, <2>3
<1>6. \A o \in Nodes : Awaited(o)' = Awaited(o)
  BY <1>0, <1>2 DEF Awaited
<1>7. StopsInPhase'
  BY <1>0, <1>1, <1>5, <1>6 DEF StopsInPhase
<1>8. AcksInPhase'
  <2>1. Acked' = Acked
    BY <1>0, <1>1, ActiveFacts DEF Acked, InPhase
  <2> QED
    BY <1>0, <1>2, <2>1 DEF AcksInPhase
<1> QED
  BY <1>3, <1>7, <1>8 DEF Agreed

LEMMA AckSent ==
  ASSUME EverythingInPhase, TypeOK', NEW n \in Nodes, SendAck(n)
  PROVE  Agreed'
<1>0. /\ PlaceTypes /\ ManagersInPhase /\ StopsInPhase /\ AcksInPhase
      /\ n \in Followers /\ n # Coordinator /\ mgr[n] = "draining" /\ Running /\ InPhase(n)
      /\ UNCHANGED <<phase, signals, stops, missing>>
      /\ acks' = acks + 1
  BY TypeHalves, ActiveFacts DEF EverythingInPhase, SendAck
<1>1. /\ \A o \in Nodes : o # n => mgr'[o] = mgr[o]
      /\ mgr'[n] = "waiting" /\ mgr'[Coordinator] = mgr[Coordinator]
  BY <1>0, ActiveFacts DEF SendAck, Goto, PlaceTypes
<1>2. /\ Running'
      /\ \A o \in Nodes : /\ Sent(o)' <=> Sent(o)
                          /\ Received(o)' <=> Received(o)
                          /\ mgr'[o] = "stopping" => mgr[o] = "stopping"
  BY <1>0, <1>1 DEF Sent, Received, InPhase, Running
<1>3. ManagersInPhase'
  BY <1>0, <1>1, <1>2, StillInPhase
<1>4. StopsInPhase'
  BY <1>0, <1>2, StopsStay
<1>5. Acked' = Acked \cup {n} /\ n \notin Acked
  BY <1>0, <1>1, ActiveFacts DEF Acked, InPhase
<1>6. Cardinality(Acked') = Cardinality(Acked) + 1 /\ Cardinality(Acked) \in Nat
  <2>1. Acked \subseteq Followers
    BY DEF Acked
  <2>2. IsFiniteSet(Acked)
    BY <2>1, ConstantFacts, FS_Subset
  <2> QED
    BY <1>5, <2>2, FS_AddElement, FS_CardinalityType
<1>7. AcksInPhase'
  <2>1. acks \in Nat /\ missing[Coordinator] \in Nat /\ Cardinality(Nodes) \in Nat
    BY <1>0, ConstantFacts, ActiveFacts DEF PlaceTypes
  <2> QED
    BY <1>0, <1>1, <1>2, <1>6, <2>1 DEF AcksInPhase
<1> QED
  BY <1>3, <1>4, <1>7 DEF Agreed

\* The coordinator counts the ACK messages.
LEMMA AcksCounted ==
  ASSUME EverythingInPhase, TypeOK', AwaitAcks \/ TakeAck
  PROVE  Agreed'
<1> DEFINE n == Coordinator
<1>0. /\ PlaceTypes /\ ManagersInPhase /\ StopsInPhase /\ AcksInPhase
      /\ n \in Nodes /\ mgr[n] \in {"draining", "acks"} /\ Running /\ InPhase(n)
      /\ UNCHANGED <<phase, signals, stops>>
  BY TypeHalves, ActiveFacts DEF EverythingInPhase, AwaitAcks, TakeAck
<1>1. /\ \A o \in Nodes : o # n => mgr'[o] = mgr[o] /\ missing'[o] = missing[o]
      /\ mgr'[n] = "acks"
  BY <1>0 DEF AwaitAcks, TakeAck, Goto, PlaceTypes
<1>2. /\ Running'
      /\ \A o \in Nodes : /\ Sent(o)' <=> Sent(o)
                          /\ Received(o)' <=> Received(o)
                          /\ mgr'[o] = "stopping" =>
                               mgr[o] = "stopping" /\ missing'[o] = missing[o]
  BY <1>0, <1>1 DEF Sent, Received, InPhase, Running
<1>3. ManagersInPhase'
  BY <1>0, <1>1, <1>2, StillInPhase, ActiveFacts
<1>4. StopsInPhase'
  BY <1>0, <1>2, StopsStay
<1>5. Acked' = Acked /\ Cardinality(Acked) \in Nat
  <2>1. Acked \subseteq Followers
    BY DEF Acked
  <2>2. Cardinality(Acked) \in Nat
    BY <2>1, ConstantFacts, FS_Subset, FS_CardinalityType
  <2> QED
    BY <1>0, <1>1, <2>2, ActiveFacts DEF Acked, InPhase
<1>6. acks \in Nat /\ missing[n] \in Nat /\ Cardinality(Nodes) \in Nat
  BY <1>0, ConstantFacts, ActiveFacts DEF PlaceTypes
<1>7. AcksInPhase'
  <2>1. CASE AwaitAcks
    <3>1. acks' = acks /\ missing'[n] = Cardinality(Nodes) - 1 /\ mgr[n] # "acks"
      BY <1>0, <2>1 DEF AwaitAcks, PlaceTypes
    <3> QED
      BY <1>0, <1>1, <1>2, <1>5, <1>6, <3>1 DEF AcksInPhase
  <2>2. CASE TakeAck
    <3>1. acks' = acks - 1 /\ missing'[n] = missing[n] - 1 /\ mgr[n] = "acks"
      BY <1>0, <2>2 DEF TakeAck, PlaceTypes
    <3> QED
      BY <1>0, <1>1, <1>2, <1>5, <1>6, <3>1 DEF AcksInPhase
  <2> QED
    BY <2>1, <2>2 DEF AwaitAcks, TakeAck
<1> QED
  BY <1>3, <1>4, <1>7 DEF Agreed

\* With the last ACK, no message of the phase is left anywhere.
LEMMA PhaseEnds ==
  ASSUME EverythingInPhase, TypeOK', PhaseDone
  PROVE  Agreed'
<1> DEFINE n == Coordinator
<1>0. /\ PlaceTypes /\ ManagersInPhase /\ StopsInPhase /\ AcksInPhase
      /\ n \in Nodes /\ mgr[n] = "acks" /\ Running /\ missing[n] = 0
      /\ UNCHANGED <<phase, signals, stops, acks>>
  BY TypeHalves, ActiveFacts DEF EverythingInPhase, PhaseDone
<1>1. /\ \A o \in Nodes : o # n => mgr'[o] = mgr[o]
      /\ mgr'[n] = "begin" /\ ~Running'
  BY <1>0 DEF PhaseDone, Goto, PlaceTypes, Running
<1>2. acks = 0 /\ Acked = Followers
  <2>1. Acked \subseteq Followers
    BY DEF Acked
  <2>2. /\ IsFiniteSet(Acked) /\ Cardinality(Acked) <= Cardinality(Followers)
        /\ Cardinality(Acked) = Cardinality(Followers) => Acked = Followers
    BY <2>1, ConstantFacts, FS_Subset
  <2>3. /\ Cardinality(Acked) \in Nat /\ Cardinality(Followers) \in Nat
        /\ acks \in Nat /\ Cardinality(Nodes) \in Nat
    BY <1>0, <2>2, ConstantFacts, FS_CardinalityType DEF PlaceTypes
  <2>4. acks + Cardinality(Nodes) = Cardinality(Acked) + missing[n] + 1
    BY <1>0 DEF AcksInPhase
  <2> QED
    BY <1>0, <2>2, <2>3, <2>4, ConstantFacts
<1>3. \A o \in Followers : mgr[o] = "waiting" /\ InPhase(o)
  BY <1>2 DEF Acked
<1>4. ManagersInPhase'
  <2>1. ASSUME NEW o \in Followers PROVE FollowerInPhase(o)'
    <3>1. FollowerInPhase(o) /\ o \in Nodes /\ o # n
      BY <1>0, ActiveFacts DEF ManagersInPhase
    <3>2. signals[o] = <<>>
      BY <1>0, <1>3, <3>1, ActiveFacts DEF FollowerInPhase, InPhase
    <3> QED
      BY <1>0, <1>1, <1>3, <3>1, <3>2 DEF FollowerInPhase, InPhase
  <2> QED
    BY <1>1, <2>1 DEF ManagersInPhase
<1>5. \A o \in Nodes : Received(o) /\ mgr'[o] # "stopping"
  BY <1>0, <1>1, <1>3, ActiveFacts DEF Received, Sent, InPhase
<1>6. StopsInPhase'
  <2>1. \A o, from \in Nodes : stops[<<from, o>>] = <<>>
    BY <1>0, <1>5 DEF StopsInPhase, StopInPhase
  <2> QED
    BY <1>0, <1>1, <1>5, <2>1 DEF StopsInPhase, StopInPhase
<1>7. AcksInPhase'
  BY <1>0, <1>1, <1>2 DEF AcksInPhase
<1> QED
  BY <1>4, <1>6, <1>7 DEF Agreed

\* The workers do not take part.
LEMMA WorkersApart ==
  ASSUME EverythingInPhase, UNCHANGED managerVars
  PROVE  Agreed'
<1>1. Running' = Running /\ Acked' = Acked
  BY DEF managerVars, Running, Acked, InPhase
<1>2. \A o \in Nodes : InPhase(o)' = InPhase(o) /\ Sent(o)' = Sent(o) /\ Received(o)' = Received(o)
  BY DEF managerVars, Sent, Received, InPhase
<1>3. ManagersInPhase'
  BY <1>1 DEF EverythingInPhase, managerVars, ManagersInPhase, FollowerInPhase, InPhase
<1>4. \A o \in Nodes : Awaited(o)' = Awaited(o)
  BY <1>2 DEF Awaited, managerVars
<1>5. StopsInPhase'
  BY <1>1, <1>2, <1>4 DEF EverythingInPhase, managerVars, StopsInPhase, StopInPhase
<1>6. AcksInPhase'
  BY <1>1 DEF EverythingInPhase, managerVars, AcksInPhase
<1> QED
  BY <1>3, <1>5, <1>6 DEF Agreed

LEMMA BarrierAgreed ==
  ASSUME EverythingInPhase, TypeOK', Next
  PROVE  Agreed'
<1>1. CASE Coordinate
  BY <1>1, BetweenPhases, AcksCounted, PhaseEnds DEF Coordinate
<1>2. ASSUME NEW n \in Nodes, Manage(n) PROVE Agreed'
  <2>1. CASE WaitAllWorkersStart(n)
    BY <2>1, QuietMove DEF WaitAllWorkersStart, Goto
  <2>2. CASE SetStop(n)
    BY <2>2, QuietMove DEF SetStop, Goto
  <2> QED
    BY <1>2, <2>1, <2>2, SignalTaken, ExitTaken, StopSent, StopTaken, StopsComplete, AckSent
    DEF Manage
<1>3. ASSUME NEW m \in Members, Work(m) PROVE Agreed'
  BY <1>3, WorkersApart DEF Work, StartWork, FinishWork, Leave, Exit
<1> QED
  BY <1>1, <1>2, <1>3 DEF Next

\* What WorkersInPhase and CountersExact say of one node.
NodeInPhase(n) ==
  /\ mgr[n] \in {"begin", "signal", "waiting", "draining", "acks"} => status[n] = "STOP"
  /\ mgr[n] \in {"starting", "working", "stopping", "stop"} =>
       phase[n] > 0 /\ status[n] = Script[phase[n]]
  /\ mgr[n] = "gone" => status[n] = "EXIT"
  /\ \A w \in Workers : WorkerInPhase(n, <<n, w>>)
  /\ mgr[n] \in {"signal", "starting"} => started[n] = Count(n, {"working", "polling"})
  /\ mgr[n] \in {"signal", "starting", "working"} => completed[n] = Count(n, {"polling"})
  /\ mgr[n] \in {"stop", "draining"} => completed[n] = Count(n, {"idle"})

LEMMA NodesInPhase == WorkersInPhase /\ CountersExact <=> \A n \in Nodes : NodeInPhase(n)
BY DEF WorkersInPhase, CountersExact, NodeInPhase

\* A step leaves the other nodes alone.
LEMMA OtherNodes ==
  ASSUME NEW o \in Nodes, NodeInPhase(o),
         mgr'[o] = mgr[o], phase'[o] = phase[o], status'[o] = status[o],
         started'[o] = started[o], completed'[o] = completed[o],
         \A w \in Workers : pc'[<<o, w>>] = pc[<<o, w>>] /\ rounds'[<<o, w>>] = rounds[<<o, w>>]
  PROVE  NodeInPhase(o)'
<1>1. \A w \in Workers : WorkerInPhase(o, <<o, w>>)'
  BY DEF NodeInPhase, WorkerInPhase
<1>2. \A places : Count(o, places)' = Count(o, places)
  <2>1. ASSUME NEW places
        PROVE  {w \in Workers : pc'[<<o, w>>] \in places} = {w \in Workers : pc[<<o, w>>] \in places}
    OBVIOUS
  <2> QED
    BY <2>1 DEF Count
<1> QED
  BY <1>1, <1>2 DEF NodeInPhase

\* A manager's step, at its own node.
LEMMA ManagerStep ==
  ASSUME EverythingInPhase, TypeOK', NEW n \in Nodes,
         \/ Manage(n)
         \/ n = Coordinator /\ Coordinate
  PROVE  NodeInPhase(n)'
<1>0. /\ PlaceTypes /\ PlaceTypes' /\ status \in [Nodes -> Statuses]
      /\ NodeInPhase(n) /\ UNCHANGED <<pc, rounds>>
      /\ phase[n] \in Nat /\ \A w \in Workers : rounds[<<n, w>>] \in Nat
  <2>1. PlaceTypes /\ PlaceTypes' /\ status \in [Nodes -> Statuses] /\ NodeInPhase(n)
    BY TypeHalves, NodesInPhase DEF EverythingInPhase, QueueTypes
  <2>2. phase[n] \in Nat /\ \A w \in Workers : rounds[<<n, w>>] \in Nat
    BY <2>1, ConstantFacts DEF PlaceTypes, Members
  <2> QED
    BY <2>1, <2>2
    DEF Manage, Coordinate, Begin, SignalWorker, SignalExit, Wait4Signal, Wait4Exit,
        WaitAllWorkersStart, BroadcastStop, TakeStop, ResetCompleted, SetStop, SendAck,
        AwaitAcks, TakeAck, PhaseDone, workerVars
<1>1. \A places : Count(n, places)' = Count(n, places)
  BY <1>0, CountStays
<1>2. /\ \A w \in Workers : pc'[<<n, w>>] = pc[<<n, w>>] /\ rounds'[<<n, w>>] = rounds[<<n, w>>]
      /\ \A w \in Workers : WorkerInPhase(n, <<n, w>>)
  BY <1>0 DEF NodeInPhase
<1>3. CASE n = Coordinator /\ Begin
  <2>1. /\ mgr[n] = "begin" /\ mgr'[n] = "signal" /\ phase'[n] = phase[n] + 1
        /\ status'[n] = "STOP" /\ started'[n] = 0 /\ completed'[n] = 0
    BY <1>0, <1>3 DEF Begin, Goto, PlaceTypes, NodeInPhase
  <2>2. \A w \in Workers : pc[<<n, w>>] = "idle" /\ rounds[<<n, w>>] = phase[n]
    BY <1>2, <2>1 DEF WorkerInPhase
  <2>3. Count(n, {"working", "polling"}) = 0 /\ Count(n, {"polling"}) = 0
    BY <2>2, CountAll
  <2> QED
    BY <1>1, <1>2, <2>1, <2>2, <2>3 DEF NodeInPhase, WorkerInPhase
<1>4. CASE n = Coordinator /\ SignalWorker
  <2>1. /\ mgr[n] = "signal" /\ mgr'[n] = "starting" /\ phase'[n] = phase[n]
        /\ status'[n] = Script[phase[n]] /\ started'[n] = started[n] /\ completed'[n] = completed[n]
        /\ phase[n] > 0
    BY <1>0, <1>4 DEF SignalWorker, Goto, SetStatus, PlaceTypes, EverythingInPhase, ManagersInPhase
  <2>2. \A w \in Workers : pc[<<n, w>>] = "idle" /\ rounds[<<n, w>>] + 1 = phase[n]
    BY <1>2, <2>1 DEF WorkerInPhase
  <2> QED
    BY <1>0, <1>1, <1>2, <2>1, <2>2 DEF NodeInPhase, WorkerInPhase
<1>5. CASE (n = Coordinator /\ SignalExit) \/ Wait4Exit(n)
  <2>1. /\ mgr[n] \in {"begin", "waiting"} /\ mgr'[n] = "gone" /\ phase'[n] = phase[n]
        /\ status'[n] = "EXIT"
    BY <1>0, <1>5 DEF SignalExit, Wait4Exit, Goto, SetStatus, PlaceTypes
  <2>2. \A w \in Workers : pc[<<n, w>>] = "idle" /\ rounds[<<n, w>>] = phase[n]
    BY <1>2, <2>1 DEF WorkerInPhase
  <2> QED
    BY <1>2, <2>1, <2>2 DEF NodeInPhase, WorkerInPhase
<1>6. CASE (n = Coordinator /\ AwaitAcks) \/ SendAck(n)
  <2>1. /\ mgr[n] = "draining" /\ mgr'[n] \in {"acks", "waiting"} /\ phase'[n] = phase[n]
        /\ status'[n] = "STOP" /\ completed[n] >= Cardinality(Workers)
        /\ completed[n] = Count(n, {"idle"})
    BY <1>0, <1>6 DEF AwaitAcks, SendAck, Goto, PlaceTypes, NodeInPhase
  <2>2. \A w \in Workers : pc[<<n, w>>] \in {"idle"}
    BY <2>1, CountAll
  <2>3. \A w \in Workers : pc[<<n, w>>] = "idle" /\ rounds[<<n, w>>] = phase[n]
    BY <1>2, <2>1, <2>2 DEF WorkerInPhase
  <2> QED
    BY <1>2, <2>1, <2>3 DEF NodeInPhase, WorkerInPhase
<1>7. CASE (n = Coordinator /\ TakeAck) \/ \E from \in Nodes : TakeStop(n, from)
  <2>1. UNCHANGED <<mgr, phase, status, started, completed>>
    BY <1>7 DEF TakeAck, TakeStop
  <2> QED
    BY <1>0, <2>1, OtherNodes
<1>8. CASE n = Coordinator /\ PhaseDone
  <2>1. mgr[n] = "acks" /\ mgr'[n] = "begin" /\ phase'[n] = phase[n] /\ status'[n] = "STOP"
    BY <1>0, <1>8 DEF PhaseDone, Goto, PlaceTypes, NodeInPhase
  <2>2. \A w \in Workers : pc[<<n, w>>] = "idle" /\ rounds[<<n, w>>] = phase[n]
    BY <1>2, <2>1 DEF WorkerInPhase
  <2> QED
    BY <1>2, <2>1, <2>2 DEF NodeInPhase, WorkerInPhase
<1>9. CASE Wait4Signal(n)
  <2>1. /\ mgr[n] = "waiting" /\ mgr'[n] = "starting" /\ phase'[n] = phase[n] + 1
        /\ status'[n] = Head(signals[n]) /\ started'[n] = 0 /\ completed'[n] = 0
    BY <1>0, <1>9 DEF Wait4Signal, Goto, SetStatus, PlaceTypes
  <2>2. Head(signals[n]) = Script[phase[n] + 1]
    <3>1. n \in Followers /\ phase[n] + 1 = phase[Coordinator] /\ ~InPhase(n)
      <4>1. phase[n] + 1 = phase[Coordinator]
        BY <1>9, SignalTaken
      <4>2. n # Coordinator
        BY <2>1 DEF EverythingInPhase, ManagersInPhase
      <4> QED
        BY <1>0, <4>1, <4>2, ActiveFacts DEF InPhase
    <3>2. FollowerInPhase(n) /\ signals[n] # <<>> /\ signals[n] # <<"EXIT">>
      BY <1>9, <3>1 DEF EverythingInPhase, ManagersInPhase, Wait4Signal
    <3>3. signals[n] = <<Script[phase[Coordinator]]>>
      BY <3>1, <3>2, ActiveFacts DEF FollowerInPhase
    <3> QED
      BY <3>1, <3>3
  <2>3. \A w \in Workers : pc[<<n, w>>] = "idle" /\ rounds[<<n, w>>] = phase[n]
    BY <1>2, <2>1 DEF WorkerInPhase
  <2>4. Count(n, {"working", "polling"}) = 0 /\ Count(n, {"polling"}) = 0
    BY <2>3, CountAll
  <2> QED
    BY <1>0, <1>1, <1>2, <2>1, <2>2, <2>3, <2>4 DEF NodeInPhase, WorkerInPhase
<1>10. CASE WaitAllWorkersStart(n)
  <2>1. /\ mgr[n] = "starting" /\ mgr'[n] = "working" /\ phase'[n] = phase[n]
        /\ status'[n] = status[n] /\ completed'[n] = completed[n]
        /\ started[n] = Count(n, {"working", "polling"}) /\ started[n] >= Cardinality(Workers)
    BY <1>0, <1>10 DEF WaitAllWorkersStart, Goto, PlaceTypes, NodeInPhase
  <2>2. \A w \in Workers : pc[<<n, w>>] \in {"working", "polling"}
    BY <2>1, CountAll
  <2> QED
    BY <1>0, <1>1, <1>2, <2>1, <2>2 DEF NodeInPhase, WorkerInPhase
<1>11. CASE BroadcastStop(n)
  <2>1. /\ mgr[n] = "working" /\ mgr'[n] = "stopping" /\ phase'[n] = phase[n]
        /\ status'[n] = status[n]
        /\ completed[n] = Count(n, {"polling"}) /\ completed[n] >= Cardinality(Workers)
    BY <1>0, <1>11 DEF BroadcastStop, Stop, Goto, PlaceTypes, NodeInPhase
  <2>2. \A w \in Workers : pc[<<n, w>>] \in {"polling"}
    BY <2>1, CountAll
  <2> QED
    BY <1>0, <1>2, <2>1, <2>2 DEF NodeInPhase, WorkerInPhase
<1>12. CASE ResetCompleted(n)
  <2>1. /\ mgr[n] = "stopping" /\ mgr'[n] = "stop" /\ phase'[n] = phase[n]
        /\ status'[n] = status[n] /\ completed'[n] = 0
    BY <1>0, <1>12 DEF ResetCompleted, Goto, PlaceTypes
  <2>2. \A w \in Workers : pc[<<n, w>>] = "polling" /\ rounds[<<n, w>>] + 1 = phase[n]
    BY <1>2, <2>1 DEF WorkerInPhase
  <2>3. Count(n, {"idle"}) = 0
    BY <2>2, CountAll
  <2> QED
    BY <1>0, <1>1, <1>2, <2>1, <2>2, <2>3 DEF NodeInPhase, WorkerInPhase
<1>13. CASE SetStop(n)
  <2>1. /\ mgr[n] = "stop" /\ mgr'[n] = "draining" /\ phase'[n] = phase[n]
        /\ status'[n] = "STOP" /\ completed'[n] = completed[n]
    BY <1>0, <1>13 DEF SetStop, Goto, SetStatus, PlaceTypes
  <2>2. \A w \in Workers : pc[<<n, w>>] = "polling" /\ rounds[<<n, w>>] + 1 = phase[n]
    BY <1>2, <2>1 DEF WorkerInPhase
  <2> QED
    BY <1>0, <1>1, <1>2, <2>1, <2>2 DEF NodeInPhase, WorkerInPhase
<1> QED
  BY <1>3, <1>4, <1>5, <1>6, <1>7, <1>8, <1>9, <1>10, <1>11, <1>12, <1>13 DEF Manage, Coordinate

\* A worker's step, at its own node.
LEMMA WorkerStep ==
  ASSUME EverythingInPhase, TypeOK', NEW n \in Nodes, NEW w \in Workers, Work(<<n, w>>)
  PROVE  /\ NodeInPhase(n)'
         /\ \A o \in Nodes : o # n => NodeInPhase(o)'
<1>0. /\ PlaceTypes /\ PlaceTypes' /\ <<n, w>> \in Members /\ NodeInPhase(n)
      /\ UNCHANGED managerVars /\ UNCHANGED <<mgr, phase, status>>
      /\ \A o \in Nodes : NodeInPhase(o)
      /\ \A o \in Nodes, v \in Workers : <<o, v>> \in Members
  BY TypeHalves, NodesInPhase
  DEF EverythingInPhase, Work, StartWork, FinishWork, Leave, Exit, managerVars, Members
<1>1. /\ \A o \in Nodes, v \in Workers : o # n \/ v # w =>
           pc'[<<o, v>>] = pc[<<o, v>>] /\ rounds'[<<o, v>>] = rounds[<<o, v>>]
      /\ \A o \in Nodes : o # n => started'[o] = started[o] /\ completed'[o] = completed[o]
  BY <1>0 DEF Work, StartWork, FinishWork, Leave, Exit, PlaceTypes
<1>2. \A o \in Nodes : o # n => NodeInPhase(o)'
  BY <1>0, <1>1, OtherNodes
<1>3. \A v \in Workers : v # w => WorkerInPhase(n, <<n, v>>)'
  BY <1>0, <1>1 DEF NodeInPhase, WorkerInPhase
<1>4. /\ phase[n] \in Nat /\ rounds[<<n, w>>] \in Nat
      /\ started[n] \in Nat /\ completed[n] \in Nat
      /\ WorkerInPhase(n, <<n, w>>)
  BY <1>0, ConstantFacts DEF PlaceTypes, NodeInPhase
<1>5. CASE StartWork(<<n, w>>)
  <2>1. mgr[n] = "starting" /\ rounds[<<n, w>>] + 1 = phase[n] /\ pc[<<n, w>>] = "idle"
    BY <1>5, NodeFacts DEF StartWork
  <2>2. /\ pc' = [pc EXCEPT ![<<n, w>>] = "working"] /\ rounds' = rounds
        /\ started'[n] = started[n] + 1 /\ completed' = completed
        /\ pc'[<<n, w>>] = "working"
    BY <1>0, <1>5 DEF StartWork, PlaceTypes
  <2>3. /\ Count(n, {"working", "polling"})' = Count(n, {"working", "polling"}) + 1
        /\ Count(n, {"polling"})' = Count(n, {"polling"})
    BY <2>1, <2>2, CountMoves DEF EverythingInPhase
  <2>4. WorkerInPhase(n, <<n, w>>)'
    BY <1>0, <2>1, <2>2 DEF WorkerInPhase
  <2> QED
    BY <1>0, <1>2, <1>3, <2>1, <2>2, <2>3, <2>4 DEF NodeInPhase
<1>6. CASE FinishWork(<<n, w>>)
  <2>1. /\ mgr[n] \in {"starting", "working"} /\ rounds[<<n, w>>] + 1 = phase[n]
        /\ pc[<<n, w>>] = "working"
    BY <1>6, NodeFacts DEF FinishWork
  <2>2. /\ pc' = [pc EXCEPT ![<<n, w>>] = "polling"] /\ rounds' = rounds
        /\ started' = started /\ completed'[n] = completed[n] + 1
        /\ pc'[<<n, w>>] = "polling"
    BY <1>0, <1>6 DEF FinishWork, PlaceTypes
  <2>3. /\ Count(n, {"working", "polling"})' = Count(n, {"working", "polling"})
        /\ Count(n, {"polling"})' = Count(n, {"polling"}) + 1
    BY <2>1, <2>2, CountMoves DEF EverythingInPhase
  <2>4. WorkerInPhase(n, <<n, w>>)'
    BY <1>0, <2>1, <2>2 DEF WorkerInPhase
  <2> QED
    BY <1>0, <1>2, <1>3, <2>1, <2>2, <2>3, <2>4 DEF NodeInPhase
<1>7. CASE Leave(<<n, w>>)
  <2>1. mgr[n] = "draining" /\ rounds[<<n, w>>] + 1 = phase[n] /\ pc[<<n, w>>] = "polling"
    BY <1>7, NodeFacts DEF Leave
  <2>2. /\ pc' = [pc EXCEPT ![<<n, w>>] = "idle"] /\ rounds'[<<n, w>>] = rounds[<<n, w>>] + 1
        /\ completed'[n] = completed[n] + 1
        /\ pc'[<<n, w>>] = "idle"
    BY <1>0, <1>7 DEF Leave, PlaceTypes
  <2>3. Count(n, {"idle"})' = Count(n, {"idle"}) + 1
    BY <2>1, <2>2, CountMoves DEF EverythingInPhase
  <2>4. WorkerInPhase(n, <<n, w>>)'
    BY <1>0, <2>1, <2>2 DEF WorkerInPhase
  <2> QED
    BY <1>0, <1>2, <1>3, <2>1, <2>2, <2>3, <2>4 DEF NodeInPhase
<1>8. CASE Exit(<<n, w>>)
  <2>1. mgr[n] = "gone" /\ pc[<<n, w>>] = "idle" /\ rounds[<<n, w>>] = phase[n]
    <3>1. mgr[n] = "gone"
      BY <1>8, NodeFacts DEF Exit
    <3> QED
      BY <1>4, <1>8, <3>1 DEF WorkerInPhase, Exit
  <2>2. pc'[<<n, w>>] = "gone" /\ rounds' = rounds
    BY <1>0, <1>8 DEF Exit, PlaceTypes
  <2>3. WorkerInPhase(n, <<n, w>>)'
    BY <1>0, <2>1, <2>2 DEF WorkerInPhase
  <2> QED
    BY <1>0, <1>2, <1>3, <2>1, <2>3 DEF NodeInPhase
<1> QED
  BY <1>5, <1>6, <1>7, <1>8 DEF Work

LEMMA BarrierWorkers ==
  ASSUME EverythingInPhase, TypeOK', Next
  PROVE  WorkersInPhase' /\ CountersExact'
<1>0. \A o \in Nodes : NodeInPhase(o)
  BY NodesInPhase DEF EverythingInPhase
<1>1. ASSUME NEW n \in Nodes, Manage(n) \/ (n = Coordinator /\ Coordinate)
      PROVE  \A o \in Nodes : NodeInPhase(o)'
  <2>1. ASSUME NEW o \in Nodes, o # n PROVE NodeInPhase(o)'
    <3>1. UNCHANGED <<pc, rounds>>
      BY <1>1
      DEF Manage, Coordinate, Begin, SignalWorker, SignalExit, Wait4Signal, Wait4Exit,
          WaitAllWorkersStart, BroadcastStop, TakeStop, ResetCompleted, SetStop, SendAck,
          AwaitAcks, TakeAck, PhaseDone, workerVars
    <3>2. /\ PlaceTypes /\ status \in [Nodes -> Statuses]
      BY TypeHalves DEF EverythingInPhase, QueueTypes
    <3>3. mgr'[o] = mgr[o] /\ phase'[o] = phase[o] /\ status'[o] = status[o]
      BY <1>1, <2>1, <3>2
      DEF Manage, Coordinate, Begin, SignalWorker, SignalExit, Wait4Signal, Wait4Exit,
          WaitAllWorkersStart, BroadcastStop, Stop, TakeStop, ResetCompleted, SetStop, SendAck,
          AwaitAcks, TakeAck, PhaseDone, Goto, SetStatus, PlaceTypes
    <3>4. started'[o] = started[o] /\ completed'[o] = completed[o]
      BY <1>1, <2>1, <3>2
      DEF Manage, Coordinate, Begin, SignalWorker, SignalExit, Wait4Signal, Wait4Exit,
          WaitAllWorkersStart, BroadcastStop, TakeStop, ResetCompleted, SetStop, SendAck,
          AwaitAcks, TakeAck, PhaseDone, PlaceTypes
    <3> QED
      BY <1>0, <3>1, <3>3, <3>4, OtherNodes
  <2>2. NodeInPhase(n)'
    BY <1>1, ManagerStep
  <2> QED
    BY <2>1, <2>2
<1>2. ASSUME NEW n \in Nodes, NEW w \in Workers, Work(<<n, w>>)
      PROVE  \A o \in Nodes : NodeInPhase(o)'
  BY <1>2, WorkerStep
<1>3. \A o \in Nodes : NodeInPhase(o)'
  BY <1>1, <1>2, NodesAssumption DEF Next, Members
<1>4. (\A o \in Nodes : NodeInPhase(o))' => WorkersInPhase' /\ CountersExact'
  BY DEF WorkersInPhase, CountersExact, NodeInPhase
<1> QED
  BY <1>3, <1>4

\* The barrier keeps everybody in phase: EverythingInPhase is inductive.
LEMMA BarrierStep == EverythingInPhase /\ [Next]_vars => EverythingInPhase'
<1>1. ASSUME EverythingInPhase, Next PROVE EverythingInPhase'
  <2>1. TypeOK'
    BY <1>1, BarrierTypes
  <2>2. Agreed' /\ WorkersInPhase' /\ CountersExact'
    BY <1>1, <2>1, BarrierAgreed, BarrierWorkers
  <2> QED
    BY <2>1, <2>2 DEF EverythingInPhase, Agreed
<1>2. ASSUME EverythingInPhase, UNCHANGED vars PROVE EverythingInPhase'
  <2>1. UNCHANGED managerVars /\ TypeOK'
    BY <1>2 DEF vars, managerVars, EverythingInPhase, TypeOK
  <2>2. Agreed'
    BY <1>2, <2>1, WorkersApart
  <2>3. \A places, n : Count(n, places)' = Count(n, places)
    BY <1>2, CountStays DEF vars
  <2>4. WorkersInPhase' /\ CountersExact'
    BY <1>2, <2>3
    DEF vars, EverythingInPhase, WorkersInPhase, CountersExact, WorkerInPhase
  <2> QED
    BY <2>1, <2>2, <2>4 DEF EverythingInPhase, Agreed
<1> QED
  BY <1>1, <1>2

-----------------------------------------------------------------------------
\* A STOP, an ACK, a signal and a worker's count belong to the phase in which
\* they are taken, though nobody looks where they are from (wait4_stop,
\* wait4_ack, wait_all_workers_start and wait_all_workers_finish only count).
THEOREM EverythingInPhaseHolds == Spec => []EverythingInPhase
BY BarrierInit, BarrierStep, PTL DEF Spec

\* While a phase runs, no worker is more than one phase behind.
LEMMA NobodyBehind ==
  ASSUME EverythingInPhase, Running, NEW o \in Members
  PROVE  Finished(o) + 1 >= phase[Coordinator] /\ Finished(o) \in Nat /\ rounds[o] \in Nat
<1>1. PICK n \in Nodes, w \in Workers : o = <<n, w>>
  BY DEF Members
<1>2. PlaceTypes /\ WorkerInPhase(n, o)
  BY <1>1, TypeHalves DEF EverythingInPhase, WorkersInPhase
<1>3. phase[n] \in Nat /\ rounds[o] \in Nat /\ mgr[n] \in Places /\ phase[Coordinator] \in Nat
  BY <1>2, ConstantFacts, ActiveFacts DEF PlaceTypes
<1>4. InPhase(n) \/ (mgr[n] = "waiting" /\ phase[n] + 1 = phase[Coordinator])
  BY ActiveFacts DEF EverythingInPhase, ManagersInPhase, FollowerInPhase, InPhase
<1>5. rounds[o] = phase[n] \/ (rounds[o] + 1 = phase[n] /\ mgr[n] # "waiting")
  BY <1>2, <1>3 DEF WorkerInPhase, Places
<1> QED
  BY <1>3, <1>4, <1>5 DEF Finished, InPhase

\* Nobody begins a phase before everybody has finished the one before: the
\* managers implement the rendezvous.
THEOREM RendezvousHolds == Spec => Rendezvous
<1> DEFINE begun    == [m \in Members |-> Begun(m)]
           finished == [m \in Members |-> Finished(m)]
<1>1. Init => Abstract!Init
  BY DEF Init, Abstract!Init, Begun, Finished
<1>2. ASSUME EverythingInPhase, [Next]_vars
      PROVE  [Abstract!Next]_<<begun, finished>>
  <2>1. ASSUME UNCHANGED <<pc, rounds>>
        PROVE  UNCHANGED <<begun, finished>>
    BY <2>1 DEF Begun, Finished
  <2>2. CASE Coordinate \/ \E n \in Nodes : Manage(n)
    <3>1. UNCHANGED <<pc, rounds>>
      BY <2>2
      DEF Manage, Coordinate, Begin, SignalWorker, SignalExit, Wait4Signal, Wait4Exit,
          WaitAllWorkersStart, BroadcastStop, TakeStop, ResetCompleted, SetStop, SendAck,
          AwaitAcks, TakeAck, PhaseDone, workerVars
    <3> QED
      BY <2>1, <3>1
  <2>3. ASSUME NEW m \in Members, Work(m)
        PROVE  [Abstract!Next]_<<begun, finished>>
    <3>0. PICK n \in Nodes, w \in Workers : m = <<n, w>>
      BY DEF Members
    <3>1. /\ pc \in [Members -> {"idle", "working", "polling", "gone"}]
          /\ rounds \in [Members -> 0..NPhases] /\ NPhases \in Nat
      BY <1>2, ConstantFacts DEF EverythingInPhase, TypeOK
    <3>2. CASE StartWork(m)
      <4>1. /\ mgr[n] = "starting" /\ rounds[m] + 1 = phase[n]
            /\ pc[m] = "idle" /\ rounds[m] < NPhases
        BY <1>2, <3>0, <3>2, NodeFacts DEF StartWork
      <4>2. Running /\ phase[n] = phase[Coordinator]
        BY <1>2, <4>1, ActiveFacts DEF InPhase
      <4>3. /\ pc' = [pc EXCEPT ![m] = "working"] /\ rounds' = rounds
        BY <3>2 DEF StartWork
      <4>4. begun[m] < NPhases /\ \A o \in Members : finished[o] >= begun[m]
        <5>1. begun[m] = rounds[m]
          BY <4>1, <3>1 DEF Begun
        <5>2. \A o \in Members : Finished(o) >= rounds[m]
          BY <1>2, <3>1, <4>1, <4>2, NobodyBehind
        <5> QED
          BY <4>1, <5>1, <5>2
      <4>5. begun' = [begun EXCEPT ![m] = @ + 1] /\ finished' = finished
        <5>1. \A o \in Members : o # m => Begun(o)' = Begun(o)
          BY <3>1, <4>3 DEF Begun
        <5>2. Begun(m)' = Begun(m) + 1 /\ begun[m] = Begun(m)
          BY <3>1, <4>1, <4>3 DEF Begun
        <5>3. \A o \in Members : Finished(o)' = Finished(o)
          BY <3>1, <4>1, <4>3 DEF Finished
        <5> QED
          BY <5>1, <5>2, <5>3
      <4> QED
        BY <4>4, <4>5 DEF Abstract!Next, Abstract!Begin
    <3>3. CASE FinishWork(m)
      <4>1. /\ pc[m] = "working" /\ pc' = [pc EXCEPT ![m] = "polling"] /\ rounds' = rounds
        BY <3>3 DEF FinishWork
      <4>2. finished[m] < begun[m]
        BY <3>1, <4>1 DEF Begun, Finished
      <4>3. finished' = [finished EXCEPT ![m] = @ + 1] /\ begun' = begun
        <5>1. \A o \in Members : o # m => Finished(o)' = Finished(o)
          BY <3>1, <4>1 DEF Finished
        <5>2. Finished(m)' = Finished(m) + 1 /\ finished[m] = Finished(m)
          BY <3>1, <4>1 DEF Finished
        <5>3. \A o \in Members : Begun(o)' = Begun(o)
          BY <3>1, <4>1 DEF Begun
        <5> QED
          BY <5>1, <5>2, <5>3
      <4> QED
        BY <4>2, <4>3 DEF Abstract!Next, Abstract!Finish
    <3>4. CASE Leave(m) \/ Exit(m)
      <4>1. \/ /\ pc[m] = "polling" /\ pc' = [pc EXCEPT ![m] = "idle"]
               /\ rounds' = [rounds EXCEPT ![m] = @ + 1]
            \/ /\ pc[m] = "idle" /\ pc' = [pc EXCEPT ![m] = "gone"] /\ rounds' = rounds
        BY <3>4 DEF Leave, Exit
      <4> QED
        BY <3>1, <4>1 DEF Begun, Finished
    <3> QED
      BY <2>3, <3>2, <3>3, <3>4 DEF Work
  <2> QED
    BY <1>2, <2>1, <2>2, <2>3 DEF Next, vars
<1> QED
  BY <1>1, <1>2, EverythingInPhaseHolds, PTL DEF Spec, Rendezvous, Abstract!Spec
=============================================================================
