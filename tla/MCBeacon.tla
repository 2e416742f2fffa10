------------------------------ MODULE MCBeacon ------------------------------
(***************************************************************************)
(* A small instance of Beacon for TLC, with a clock of two bits.           *)
(***************************************************************************)
EXTENDS Beacon

CONSTANTS a1, a2
=============================================================================
