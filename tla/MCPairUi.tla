------------------------------ MODULE MCPairUi ------------------------------
(***************************************************************************)
(* A small instance of PairUi for TLC.                                     *)
(***************************************************************************)
EXTENDS PairUi, TLC

CONSTANTS k1, k2, k3
=============================================================================
