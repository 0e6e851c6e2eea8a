--------------------------- MODULE MCPhaseBarrier ---------------------------
(* A small instance of PhaseBarrier: a macro-block of PRDCC with one block. *)
EXTENDS PhaseBarrier, TLC

CONSTANTS n1, n2, n3

ProdccScript ==
  <<"READ", "PARTITION", "EXECUTE", "RESERVE", "ANALYZE", "FINALIZE", "CLEANUP">>
=============================================================================
