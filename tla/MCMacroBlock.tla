---------------------------- MODULE MCMacroBlock ----------------------------
(* A small instance of MacroBlock: three nodes.                            *)
EXTENDS MacroBlock

CONSTANTS n1, n2, n3
=============================================================================
