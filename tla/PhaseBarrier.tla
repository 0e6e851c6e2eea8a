---------------------------- MODULE PhaseBarrier ----------------------------
(***************************************************************************)
(* The barrier between two phases of Aria, DOCC and PRDCC: the manager of  *)
(* each node drives its workers through worker_status and two counters     *)
(* (core/Manager.h, AriaManager.h, ProdccManager.h, the start() of the     *)
(* executors), and the managers agree with SIGNAL, STOP and ACK messages.  *)
(*                                                                         *)
(* What the workers do in a phase is their protocol's.  Its messages travel *)
(* on channels of their own, and no handler touches the state of the       *)
(* barrier: a request may be handled at any time (ProdccBlock, AriaBatch). *)
(***************************************************************************)
EXTENDS Naturals, Sequences, FiniteSets

CONSTANTS
  Nodes, Coordinator,
  Workers,          \* the workers of a node
  Script            \* the phases, by their ExecutorStatus

Followers == Nodes \ {Coordinator}
Members   == Nodes \X Workers
NPhases   == Len(Script)

ASSUME NodesAssumption ==
  IsFiniteSet(Nodes) /\ IsFiniteSet(Workers) /\ Coordinator \in Nodes
ASSUME ScriptAssumption ==
  /\ Script \in Seq(STRING)
  /\ \A i \in 1..Len(Script) : Script[i] \notin {"STOP", "EXIT"}

VARIABLES
  mgr,        \* where the manager of a node is in its loop
  phase,      \* how many phases it has begun
  status,     \* worker_status
  started,    \* n_started_workers
  completed,  \* n_completed_workers
  missing,    \* how many STOP or ACK messages the manager still waits for
  signals,    \* signal_in_queue of a node: only the coordinator signals
  stops,      \* the STOP messages from one node to another, by phase
  acks,       \* ack_in_queue of the coordinator
  pc,         \* where a worker is: idle, working, polling, gone
  rounds      \* how many phases it has left behind

vars == <<mgr, phase, status, started, completed, missing, signals, stops, acks,
          pc, rounds>>

managerVars == <<mgr, phase, status, missing, signals, stops, acks>>
workerVars  == <<pc, rounds>>

-----------------------------------------------------------------------------
TypeOK ==
  /\ mgr \in [Nodes -> {"begin", "signal", "starting", "working", "stopping",
                        "stop", "draining", "acks", "waiting", "gone"}]
  /\ phase \in [Nodes -> 0..NPhases]
  /\ status \in [Nodes -> {"STOP", "EXIT"} \cup {Script[i] : i \in 1..NPhases}]
  /\ started \in [Nodes -> 0..Cardinality(Workers)]
  /\ completed \in [Nodes -> 0..Cardinality(Workers)]
  /\ missing \in [Nodes -> 0..Cardinality(Nodes)]
  /\ signals \in [Followers -> Seq({"EXIT"} \cup {Script[i] : i \in 1..NPhases})]
  /\ stops \in [Nodes \X Nodes -> Seq(1..NPhases)]
  /\ acks \in 0..Cardinality(Nodes)
  /\ pc \in [Members -> {"idle", "working", "polling", "gone"}]
  /\ rounds \in [Members -> 0..NPhases]

Init ==
  /\ mgr = [n \in Nodes |-> IF n = Coordinator THEN "begin" ELSE "waiting"]
  /\ phase = [n \in Nodes |-> 0]
  /\ status = [n \in Nodes |-> "STOP"]
  /\ started = [n \in Nodes |-> 0]
  /\ completed = [n \in Nodes |-> 0]
  /\ missing = [n \in Nodes |-> 0]
  /\ signals = [n \in Followers |-> <<>>]
  /\ stops = [c \in Nodes \X Nodes |-> <<>>]
  /\ acks = 0
  /\ pc = [m \in Members |-> "idle"]
  /\ rounds = [m \in Members |-> 0]

Goto(n, place) == mgr' = [mgr EXCEPT ![n] = place]

SetStatus(n, s) == status' = [status EXCEPT ![n] = s]

Signal(s) == signals' = [n \in Followers |-> Append(signals[n], s)]
-----------------------------------------------------------------------------
\* Faulty: the counters are not reset.
BeginWithoutReset ==
  /\ mgr[Coordinator] = "begin"
  /\ phase[Coordinator] < NPhases
  /\ phase' = [phase EXCEPT ![Coordinator] = @ + 1]
  /\ Goto(Coordinator, "signal")
  /\ UNCHANGED <<status, started, completed, missing, signals, stops, acks,
                 workerVars>>

\* coordinator_run_worker_phase: the counters are reset before anybody can
\* see the new status.
Begin ==
  /\ mgr[Coordinator] = "begin"
  /\ phase[Coordinator] < NPhases
  /\ phase' = [phase EXCEPT ![Coordinator] = @ + 1]
  /\ started' = [started EXCEPT ![Coordinator] = 0]
  /\ completed' = [completed EXCEPT ![Coordinator] = 0]
  /\ Goto(Coordinator, "signal")
  /\ UNCHANGED <<status, missing, signals, stops, acks, workerVars>>

SignalWorker ==
  /\ mgr[Coordinator] = "signal"
  /\ SetStatus(Coordinator, Script[phase[Coordinator]])
  /\ Signal(Script[phase[Coordinator]])
  /\ Goto(Coordinator, "starting")
  /\ UNCHANGED <<phase, started, completed, missing, stops, acks, workerVars>>

\* The end of coordinator_start: signal_worker(EXIT).
SignalExit ==
  /\ mgr[Coordinator] = "begin"
  /\ phase[Coordinator] = NPhases
  /\ SetStatus(Coordinator, "EXIT")
  /\ Signal("EXIT")
  /\ Goto(Coordinator, "gone")
  /\ UNCHANGED <<phase, started, completed, missing, stops, acks, workerVars>>

\* A follower gets the signal it expects, resets its counters and passes the
\* status on (follower_run_worker_phase), or leaves.
Wait4Signal(n) ==
  /\ mgr[n] = "waiting"
  /\ signals[n] # <<>> /\ Head(signals[n]) # "EXIT"
  /\ signals' = [signals EXCEPT ![n] = Tail(@)]
  /\ phase' = [phase EXCEPT ![n] = @ + 1]
  /\ started' = [started EXCEPT ![n] = 0]
  /\ completed' = [completed EXCEPT ![n] = 0]
  /\ SetStatus(n, Head(signals[n]))
  /\ Goto(n, "starting")
  /\ UNCHANGED <<missing, stops, acks, workerVars>>

Wait4Exit(n) ==
  /\ mgr[n] = "waiting"
  /\ signals[n] # <<>> /\ Head(signals[n]) = "EXIT"
  /\ signals' = [signals EXCEPT ![n] = Tail(@)]
  /\ SetStatus(n, "EXIT")
  /\ Goto(n, "gone")
  /\ UNCHANGED <<phase, started, completed, missing, stops, acks, workerVars>>

WaitAllWorkersStart(n) ==
  /\ mgr[n] = "starting"
  /\ started[n] >= Cardinality(Workers)
  /\ Goto(n, "working")
  /\ UNCHANGED <<phase, status, started, completed, missing, signals, stops,
                 acks, workerVars>>

Stop(n, awaited) ==
  /\ stops' = [c \in Nodes \X Nodes |->
                 IF c[1] = n /\ c[2] # n THEN Append(stops[c], phase[n])
                                         ELSE stops[c]]
  /\ missing' = [missing EXCEPT ![n] = awaited]
  /\ Goto(n, "stopping")

\* Faulty: it counts itself among those it gets a STOP from.
BroadcastStopAwaitsAll(n) ==
  /\ mgr[n] = "working"
  /\ completed[n] >= Cardinality(Workers)
  /\ Stop(n, Cardinality(Nodes))
  /\ UNCHANGED <<phase, status, started, completed, signals, acks, workerVars>>

\* Faulty: it does not wait for its workers.
BroadcastStopAtOnce(n) ==
  /\ mgr[n] = "working"
  /\ Stop(n, Cardinality(Nodes) - 1)
  /\ UNCHANGED <<phase, status, started, completed, signals, acks, workerVars>>

\* wait_all_workers_finish and broadcast_stop.
BroadcastStop(n) ==
  /\ mgr[n] = "working"
  /\ completed[n] >= Cardinality(Workers)
  /\ Stop(n, Cardinality(Nodes) - 1)
  /\ UNCHANGED <<phase, status, started, completed, signals, acks, workerVars>>

\* wait4_stop counts the STOP messages and does not look where one is from.
TakeStop(n, from) ==
  /\ mgr[n] = "stopping" /\ missing[n] > 0
  /\ stops[<<from, n>>] # <<>>
  /\ stops' = [stops EXCEPT ![<<from, n>>] = Tail(@)]
  /\ missing' = [missing EXCEPT ![n] = @ - 1]
  /\ UNCHANGED <<mgr, phase, status, started, completed, signals, acks, workerVars>>

\* The counter is reset before the workers can see the STOP and count again.
ResetCompleted(n) ==
  /\ mgr[n] = "stopping" /\ missing[n] = 0
  /\ completed' = [completed EXCEPT ![n] = 0]
  /\ Goto(n, "stop")
  /\ UNCHANGED <<phase, status, started, missing, signals, stops, acks, workerVars>>

SetStop(n) ==
  /\ mgr[n] = "stop"
  /\ SetStatus(n, "STOP")
  /\ Goto(n, "draining")
  /\ UNCHANGED <<phase, started, completed, missing, signals, stops, acks,
                 workerVars>>

\* wait_all_workers_finish, then send_ack or wait4_ack.
SendAck(n) ==
  /\ n \in Followers
  /\ mgr[n] = "draining"
  /\ completed[n] >= Cardinality(Workers)
  /\ acks' = acks + 1
  /\ Goto(n, "waiting")
  /\ UNCHANGED <<phase, status, started, completed, missing, signals, stops,
                 workerVars>>

AwaitAcks ==
  /\ mgr[Coordinator] = "draining"
  /\ completed[Coordinator] >= Cardinality(Workers)
  /\ missing' = [missing EXCEPT ![Coordinator] = Cardinality(Nodes) - 1]
  /\ Goto(Coordinator, "acks")
  /\ UNCHANGED <<phase, status, started, completed, signals, stops, acks, workerVars>>

TakeAck ==
  /\ mgr[Coordinator] = "acks"
  /\ missing[Coordinator] > 0 /\ acks > 0
  /\ acks' = acks - 1
  /\ missing' = [missing EXCEPT ![Coordinator] = @ - 1]
  /\ UNCHANGED <<mgr, phase, status, started, completed, signals, stops, workerVars>>

PhaseDone ==
  /\ mgr[Coordinator] = "acks" /\ missing[Coordinator] = 0
  /\ Goto(Coordinator, "begin")
  /\ UNCHANGED <<phase, status, started, completed, missing, signals, stops,
                 acks, workerVars>>
-----------------------------------------------------------------------------
\* The executor waits for the status of its next phase.
StartWork(m) ==
  /\ pc[m] = "idle"
  /\ rounds[m] < NPhases /\ status[m[1]] = Script[rounds[m] + 1]
  /\ started' = [started EXCEPT ![m[1]] = @ + 1]
  /\ pc' = [pc EXCEPT ![m] = "working"]
  /\ UNCHANGED <<managerVars, completed, rounds>>

\* It has done its part: the first count.  From here on it handles messages
\* while it waits for the status to change.
FinishWork(m) ==
  /\ pc[m] = "working"
  /\ completed' = [completed EXCEPT ![m[1]] = @ + 1]
  /\ pc' = [pc EXCEPT ![m] = "polling"]
  /\ UNCHANGED <<managerVars, started, rounds>>

\* The status has changed: the second count.
Leave(m) ==
  /\ pc[m] = "polling"
  /\ status[m[1]] # Script[rounds[m] + 1]
  /\ completed' = [completed EXCEPT ![m[1]] = @ + 1]
  /\ pc' = [pc EXCEPT ![m] = "idle"]
  /\ rounds' = [rounds EXCEPT ![m] = @ + 1]
  /\ UNCHANGED <<managerVars, started>>

Exit(m) ==
  /\ pc[m] = "idle" /\ status[m[1]] = "EXIT"
  /\ pc' = [pc EXCEPT ![m] = "gone"]
  /\ UNCHANGED <<managerVars, started, completed, rounds>>

Manage(n) ==
  \/ Wait4Signal(n) \/ Wait4Exit(n)
  \/ WaitAllWorkersStart(n) \/ BroadcastStop(n)
  \/ \E from \in Nodes : TakeStop(n, from)
  \/ ResetCompleted(n) \/ SetStop(n) \/ SendAck(n)

Coordinate ==
  Begin \/ SignalWorker \/ SignalExit \/ AwaitAcks \/ TakeAck \/ PhaseDone

Work(m) == StartWork(m) \/ FinishWork(m) \/ Leave(m) \/ Exit(m)

Next ==
  \/ Coordinate
  \/ \E n \in Nodes : Manage(n)
  \/ \E m \in Members : Work(m)

Spec == Init /\ [][Next]_vars

\* Every manager and every worker is a thread that polls for ever.
FairSpec ==
  /\ Spec
  /\ WF_vars(Coordinate)
  /\ \A n \in Nodes : WF_vars(Manage(n))
  /\ \A m \in Members : WF_vars(Work(m))
-----------------------------------------------------------------------------
\* A worker begins a phase when it sees its status, and has finished it with
\* the first count.
Begun(m) == rounds[m] + (IF pc[m] \in {"working", "polling"} THEN 1 ELSE 0)

Finished(m) == rounds[m] + (IF pc[m] = "polling" THEN 1 ELSE 0)

Abstract == INSTANCE Rendezvous WITH
  begun <- [m \in Members |-> Begun(m)], finished <- [m \in Members |-> Finished(m)]

\* Nobody begins a phase before everybody has finished the one before: the
\* worker phases of the managers implement Rendezvous.
Rendezvous == Abstract!Spec

\* The coordinator is in the middle of a phase, from its signal on.
Running ==
  mgr[Coordinator] \in {"starting", "working", "stopping", "stop", "draining", "acks"}

\* In the coordinator's phase, a manager has sent its STOP messages, has got
\* those of all others; a follower has sent its ACK.
InPhase(n)  == phase[n] = phase[Coordinator]
Sent(n)     == InPhase(n) /\ mgr[n] \in {"stopping", "stop", "draining", "acks", "waiting"}
Received(n) == Sent(n) /\ mgr[n] # "stopping"
Acked       == {n \in Followers : InPhase(n) /\ mgr[n] = "waiting"}

\* A follower is in the coordinator's phase, or has the signal for it.
\* DCHECK(status == ...): that is the signal its script expects next.
FollowerInPhase(n) ==
  /\ mgr[n] \notin {"begin", "signal", "acks"}
  /\ mgr[Coordinator] = "begin" =>
       mgr[n] = "waiting" /\ InPhase(n) /\ signals[n] = <<>>
  /\ mgr[Coordinator] = "signal" =>
       mgr[n] = "waiting" /\ phase[n] + 1 = phase[Coordinator] /\ signals[n] = <<>>
  /\ mgr[Coordinator] = "gone" =>
       /\ InPhase(n)
       /\ \/ mgr[n] = "waiting" /\ signals[n] = <<"EXIT">>
          \/ mgr[n] = "gone" /\ signals[n] = <<>>
  /\ Running =>
       \/ /\ mgr[n] = "waiting" /\ phase[n] + 1 = phase[Coordinator]
          /\ signals[n] = <<Script[phase[Coordinator]]>>
       \/ mgr[n] # "gone" /\ InPhase(n) /\ signals[n] = <<>>

ManagersInPhase ==
  /\ mgr[Coordinator] # "waiting"
  /\ Running \/ mgr[Coordinator] = "signal" => phase[Coordinator] > 0
  /\ mgr[Coordinator] = "gone" => phase[Coordinator] = NPhases
  /\ \A n \in Followers : FollowerInPhase(n)

StopInPhase(n, from) ==
  LET queue == stops[<<from, n>>]
  IN  /\ ~Running \/ from = n => queue = <<>>
      /\ Running /\ from # n =>
           /\ queue \in {<<>>, <<phase[Coordinator]>>}
           /\ queue # <<>> => Sent(from)
           /\ Received(n) => queue = <<>> /\ Sent(from)
           /\ ~Sent(n) /\ Sent(from) => queue # <<>>

\* Those whose STOP a node still waits for.
Awaited(n) == {from \in Nodes \ {n} : Sent(from) => stops[<<from, n>>] # <<>>}

\* wait4_stop only counts: still, the STOP messages it takes are those of its
\* own phase, one of every other node, and none of them is left for the next.
StopsInPhase ==
  /\ \A n, from \in Nodes : StopInPhase(n, from)
  /\ \A n \in Nodes : mgr[n] = "stopping" => missing[n] = Cardinality(Awaited(n))

\* The ACK messages the coordinator has taken or will find are those of its
\* own phase.
AcksInPhase ==
  /\ ~Running => acks = 0
  /\ Running /\ mgr[Coordinator] # "acks" => acks = Cardinality(Acked)
  /\ mgr[Coordinator] = "acks" =>
       acks + Cardinality(Nodes) = Cardinality(Acked) + missing[Coordinator] + 1

\* The workers of a node are in the phase of their manager, and so is the
\* status that they see.
WorkerInPhase(n, m) ==
  /\ mgr[n] \in {"begin", "waiting", "acks"} => pc[m] = "idle" /\ rounds[m] = phase[n]
  /\ mgr[n] = "signal" => pc[m] = "idle" /\ rounds[m] + 1 = phase[n]
  /\ mgr[n] = "starting" =>
       pc[m] \in {"idle", "working", "polling"} /\ rounds[m] + 1 = phase[n]
  /\ mgr[n] = "working" => pc[m] \in {"working", "polling"} /\ rounds[m] + 1 = phase[n]
  /\ mgr[n] \in {"stopping", "stop"} => pc[m] = "polling" /\ rounds[m] + 1 = phase[n]
  /\ mgr[n] = "draining" => \/ pc[m] = "idle" /\ rounds[m] = phase[n]
                            \/ pc[m] = "polling" /\ rounds[m] + 1 = phase[n]
  /\ mgr[n] = "gone" => pc[m] \in {"idle", "gone"} /\ rounds[m] = phase[n]

WorkersInPhase ==
  \A n \in Nodes :
    /\ mgr[n] \in {"begin", "signal", "waiting", "draining", "acks"} => status[n] = "STOP"
    /\ mgr[n] \in {"starting", "working", "stopping", "stop"} =>
         phase[n] > 0 /\ status[n] = Script[phase[n]]
    /\ mgr[n] = "gone" => status[n] = "EXIT"
    /\ \A w \in Workers : WorkerInPhase(n, <<n, w>>)

\* No worker counts twice or is forgotten: a manager goes on when each of its
\* workers has done what it waits for, and no other.
Count(n, places) == Cardinality({w \in Workers : pc[<<n, w>>] \in places})

CountersExact ==
  \A n \in Nodes :
    /\ mgr[n] \in {"signal", "starting"} => started[n] = Count(n, {"working", "polling"})
    /\ mgr[n] \in {"signal", "starting", "working"} => completed[n] = Count(n, {"polling"})
    /\ mgr[n] \in {"stop", "draining"} => completed[n] = Count(n, {"idle"})

\* What counts without a look at the sender counts right: a STOP, an ACK, a
\* signal and a worker's count belong to the phase in which they are taken.
\* The invariant is inductive.
EverythingInPhase ==
  TypeOK /\ ManagersInPhase /\ StopsInPhase /\ AcksInPhase /\ WorkersInPhase /\ CountersExact

\* The phases go on to the last, and every thread exits.
EverybodyLeaves ==
  <>(/\ \A n \in Nodes : mgr[n] = "gone"
     /\ \A m \in Members : pc[m] = "gone")
=============================================================================
