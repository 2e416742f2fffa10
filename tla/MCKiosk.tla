------------------------------ MODULE MCKiosk ------------------------------
(***************************************************************************)
(* Small instances of Kiosk for TLC: two addresses for the peer, which no  *)
(* safety property tells apart.                                            *)
(***************************************************************************)
EXTENDS Kiosk, TLC

CONSTANTS a1, a2

MCSymmetry == Permutations({a1, a2})

\* Beside an elder, and around a child that refuses signals, the flag and the
\* trust file stay as they are, no deletion of a leftover table fails and no
\* inhibitor is left over.
MCQuiet == trust /\ ~pausedFile /\ ~table.buried /\ ~orphan

\* A tick that ended Bound without an inhibitor.
MCWakeful == state = "Bound" /\ ~idleInhibit /\ pc \in {"refresh", "publish", "loop", "pause"}

\* Bounds of the run that kills: besides, nobody taps Forget (the other run
\* does), a child that refuses signals has no elder, a daemon that has or had
\* an elder is not told to stop itself, the leftovers of a kill meet a paired
\* kiosk, a rule that lies buried meets no other leftover and no pause, and an
\* inhibitor fails only where nothing else is out of the ordinary.
MCBounds ==
    /\ ~armed
    /\ orphan => trust
    /\ table.buried => trust /\ ~orphan /\ ~pausedFile
    /\ company \/ child = "immune" => MCQuiet
    /\ company => child # "immune" /\ ~term
    /\ MCWakeful => ~company /\ child # "immune" /\ MCQuiet
=============================================================================
