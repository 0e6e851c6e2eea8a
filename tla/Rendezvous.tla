----------------------------- MODULE Rendezvous -----------------------------
(***************************************************************************)
(* What the managers promise the workers of all nodes: nobody begins a     *)
(* phase before everybody has finished the one before.                     *)
(***************************************************************************)
EXTENDS Naturals

CONSTANTS
  Members,    \* the workers of all nodes
  NPhases     \* how many phases there are

VARIABLES
  begun,      \* how many phases each worker has begun
  finished    \* how many it has finished

Init ==
  /\ begun = [m \in Members |-> 0]
  /\ finished = [m \in Members |-> 0]

Begin(m) ==
  /\ begun[m] < NPhases
  /\ \A o \in Members : finished[o] >= begun[m]
  /\ begun' = [begun EXCEPT ![m] = @ + 1]
  /\ UNCHANGED finished

Finish(m) ==
  /\ finished[m] < begun[m]
  /\ finished' = [finished EXCEPT ![m] = @ + 1]
  /\ UNCHANGED begun

Next == \E m \in Members : Begin(m) \/ Finish(m)

Spec == Init /\ [][Next]_<<begun, finished>>
=============================================================================
