----------------------- MODULE MCMicroBlockPartition -----------------------
(* Small instances of MicroBlockPartition.                                 *)
EXTENDS MicroBlockPartition

AllConflicts == {"WAW", "RAW", "WAR"}
=============================================================================
