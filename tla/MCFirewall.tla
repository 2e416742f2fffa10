----------------------------- MODULE MCFirewall -----------------------------
(***************************************************************************)
(* A small instance of Firewall for TLC: two addresses the peer may have,  *)
(* and one of somebody else.                                               *)
(***************************************************************************)
EXTENDS Firewall, TLC

CONSTANTS a1, a2, a3

\* Chains of others: none, one that lets everybody in, one that bans somebody
\* first, and one with a rule like ours.
MCOthers == {<<>>, <<Accept(Anyone)>>}
            \cup {<<[src |-> a, verdict |-> "drop"], Accept(Anyone)>> : a \in Addr}
            \cup {<<Accept(a)>> : a \in Addr}

MCSymmetry == Permutations({a1, a2, a3})
=============================================================================
