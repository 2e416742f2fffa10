------------------------------- MODULE MCSetup -------------------------------
(***************************************************************************)
(* A small instance of Setup for TLC: one Steam account, one game.         *)
(***************************************************************************)
EXTENDS Setup

CONSTANTS acc1, g1, ours
==============================================================================
