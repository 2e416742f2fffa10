------------------------------- MODULE MCDeck -------------------------------
(***************************************************************************)
(* Small instances of Deck for TLC.                                        *)
(***************************************************************************)
EXTENDS Deck, TLC

CONSTANTS a1, a2

MCSymmetry == Permutations({a1, a2})
=============================================================================
