---------------------------- MODULE PairConsent ----------------------------
(***************************************************************************)
(* What pairing promises, without packets: a device comes to trust a peer  *)
(* only after both users agreed to it, each about the other's key.         *)
(***************************************************************************)

CONSTANTS
    Node,             \* the devices whose users we watch
    Stranger,         \* other devices on the network
    NoPeer            \* no peer chosen; no trust file, or none that loads

Key == Node \cup Stranger

VARIABLES
    agreed,           \* the peers each user ever said Accept to
    choice,           \* the peer of the pairing in progress
    trust             \* trusted-peers.toml

cvars == <<agreed, choice, trust>>

CInit ==
    /\ agreed = [n \in Node |-> {}]
    /\ choice = [n \in Node |-> NoPeer]
    /\ trust = [n \in Node |-> NoPeer]

Agree(n, k) ==
    /\ choice[n] = NoPeer
    /\ choice' = [choice EXCEPT ![n] = k]
    /\ agreed' = [agreed EXCEPT ![n] = @ \cup {k}]
    /\ UNCHANGED trust

\* Whether the pairing goes on for a while or ends with it makes no difference.
Trust(n) ==
    /\ choice[n] \in Key
    /\ choice[n] \in Node => n \in agreed[choice[n]]
    /\ trust' = [trust EXCEPT ![n] = choice[n]]
    /\ UNCHANGED <<agreed, choice>>

\* A save that fails half-way leaves the file of before, the new one, or one
\* that cannot be read, and ends the pairing.
TrustFails(n) ==
    /\ choice[n] \in Key
    /\ choice[n] \in Node => n \in agreed[choice[n]]
    /\ \E k \in {trust[n], choice[n], NoPeer} : trust' = [trust EXCEPT ![n] = k]
    /\ choice' = [choice EXCEPT ![n] = NoPeer]
    /\ UNCHANGED agreed

Withdraw(n) ==
    /\ choice' = [choice EXCEPT ![n] = NoPeer]
    /\ UNCHANGED <<agreed, trust>>

Forget(n) ==
    /\ trust' = [trust EXCEPT ![n] = NoPeer]
    /\ UNCHANGED <<agreed, choice>>

CNext == \E n \in Node :
    \/ \E k \in Key : Agree(n, k)
    \/ Trust(n) \/ TrustFails(n) \/ Withdraw(n) \/ Forget(n)

CSpec == CInit /\ [][CNext]_cvars

\* A trusted peer is one this user accepted and whose user accepted this one.
TrustIsMutual ==
    \A n \in Node : trust[n] # NoPeer =>
        /\ trust[n] \in agreed[n]
        /\ trust[n] \in Node => n \in agreed[trust[n]]
=============================================================================
