------------------------------- MODULE MCPair -------------------------------
(***************************************************************************)
(* Small instances of Pair for TLC.                                        *)
(***************************************************************************)
EXTENDS Pair, TLC

CONSTANTS deck, pc, other

MCSymmetry == Permutations({deck, pc})
=============================================================================
