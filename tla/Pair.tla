-------------------------------- MODULE Pair --------------------------------
(***************************************************************************)
(* discovery::pair on the devices of a network: run_pair_with, the sender  *)
(* thread beside it, and the packets between them.                         *)
(*                                                                         *)
(*   idle -> collect -> prompt -> accept -> tail -> sent -> idle           *)
(*              ^         |                                                *)
(*              +---------+  the whole batch was rejected                  *)
(*                                                                         *)
(* A packet is what its signature vouches for: the sender, the peer it     *)
(* accepts (NoPeer: a PAIRING beacon), and whether it has left the replay  *)
(* window.  Packets that fail packet::verify are dropped there and are not *)
(* modelled.  Strangers are other devices that pair at the same time; only *)
(* their packets are.                                                      *)
(***************************************************************************)
EXTENDS FiniteSets, Naturals

CONSTANTS
    Node, Stranger, NoPeer,
    Courted,          \* the nodes some stranger's user accepts
    Room,             \* packets a socket buffers; more are lost
    Faults            \* what may go wrong

Key == Node \cup Stranger

FaultKinds == {"loss", "age", "save", "giveup"}

ASSUME PairConstants ==
    /\ NoPeer \notin Key
    /\ Node \cap Stranger = {}
    /\ Courted \subseteq Node
    /\ Faults \subseteq FaultKinds

Packet == [src : Key, accepts : Node \cup Stranger \cup {NoPeer}, old : BOOLEAN]

VARIABLES
    phase,            \* where run_pair_with is
    inbox,            \* the packets its socket buffers
    declined,         \* rejected earlier in this session
    seen,             \* keys this collect_candidates has looked at
    candidates,       \* the batch it has collected
    choice,           \* the candidate the user accepted
    trust,            \* trusted-peers.toml; NoPeer: absent or unreadable
    agreed            \* history of the users' Accepts; no action reads it

session == <<phase, inbox, declined, seen, candidates, choice>>
vars    == <<session, trust, agreed>>

Init ==
    /\ phase = [n \in Node |-> "idle"]
    /\ inbox = [n \in Node |-> {}]
    /\ declined = [n \in Node |-> {}]
    /\ seen = [n \in Node |-> {}]
    /\ candidates = [n \in Node |-> {}]
    /\ choice = [n \in Node |-> NoPeer]
    /\ trust = [n \in Node |-> NoPeer]
    /\ agreed = [n \in Node |-> {}]

-----------------------------------------------------------------------------
(* The network. *)

Listening(n) == phase[n] \in {"collect", "prompt", "accept"}

Receivers(p) ==
    {n \in Node \ {p.src} : Listening(n) /\ Cardinality(inbox[n] \cup {p}) <= Room}

\* One broadcast: without loss every listening device with room gets it.
Broadcast(p) ==
    \E R \in SUBSET Receivers(p) :
        /\ R = Receivers(p) \/ "loss" \in Faults
        /\ inbox' = [n \in Node |-> IF n \in R THEN inbox[n] \cup {p} ELSE inbox[n]]

\* The phases whose sender thread announces PAIRING.
StallsAtPrompt == {"collect"}

Announcing == {"collect", "prompt"}

Accepting == {"accept", "tail", "sent"}

\* The sender thread.  It runs beside a prompt that blocks.
Send(n) ==
    /\ phase[n] \in Announcing \cup Accepting
    /\ Broadcast([src |-> n, old |-> FALSE,
                  accepts |-> IF phase[n] \in Accepting THEN choice[n] ELSE NoPeer])
    /\ phase' = IF phase[n] = "tail" THEN [phase EXCEPT ![n] = "sent"] ELSE phase
    /\ UNCHANGED <<declined, seen, candidates, choice, trust, agreed>>

StrangerSends(s) ==
    /\ \E k \in Courted \cup {NoPeer} : Broadcast([src |-> s, accepts |-> k, old |-> FALSE])
    /\ UNCHANGED <<phase, declined, seen, candidates, choice, trust, agreed>>

\* Nobody reads the socket while the user ponders a prompt: what it buffers
\* leaves the replay window.
Age(n) ==
    /\ "age" \in Faults
    /\ phase[n] = "prompt"
    /\ \E p \in inbox[n] : inbox' = [inbox EXCEPT ![n] = (@ \ {p}) \cup {[p EXCEPT !.old = TRUE]}]
    /\ UNCHANGED <<phase, declined, seen, candidates, choice, trust, agreed>>

-----------------------------------------------------------------------------
(* A session. *)

Begin(n) ==
    /\ phase[n] = "idle"
    /\ phase' = [phase EXCEPT ![n] = "collect"]
    /\ UNCHANGED <<inbox, declined, seen, candidates, choice, trust, agreed>>

\* Everything the session kept goes with it; the sender is joined.
End(n) ==
    /\ phase' = [phase EXCEPT ![n] = "idle"]
    /\ inbox' = [inbox EXCEPT ![n] = {}]
    /\ declined' = [declined EXCEPT ![n] = {}]
    /\ seen' = [seen EXCEPT ![n] = {}]
    /\ candidates' = [candidates EXCEPT ![n] = {}]
    /\ choice' = [choice EXCEPT ![n] = NoPeer]

\* The deadline, a cancel, a receive error, or the process went away.
GiveUp(n) ==
    /\ "giveup" \in Faults
    /\ phase[n] \notin {"idle", "sent"}
    /\ End(n)
    /\ UNCHANGED <<trust, agreed>>

\* collect_candidates on one packet: a key counts as seen before the packet's
\* age is looked at.
Collect(n, p) ==
    /\ phase[n] = "collect"
    /\ p \in inbox[n]
    /\ inbox' = [inbox EXCEPT ![n] = @ \ {p}]
    /\ IF p.accepts # NoPeer \/ p.src \in declined[n] \cup seen[n]
       THEN UNCHANGED <<seen, candidates>>
       ELSE /\ seen' = [seen EXCEPT ![n] = @ \cup {p.src}]
            /\ candidates' = IF p.old THEN candidates
                             ELSE [candidates EXCEPT ![n] = @ \cup {p.src}]
    /\ UNCHANGED <<phase, declined, choice, trust, agreed>>

\* CANDIDATE_COLLECT_WINDOW after the first candidate.
WindowCloses(n) ==
    /\ phase[n] = "collect"
    /\ candidates[n] # {}
    /\ phase' = [phase EXCEPT ![n] = "prompt"]
    /\ seen' = [seen EXCEPT ![n] = {}]
    /\ UNCHANGED <<inbox, declined, candidates, choice, trust, agreed>>

\* The user accepts one of the batch, or none of it.
AcceptCandidate(n, k) ==
    /\ phase[n] = "prompt"
    /\ k \in candidates[n]
    /\ phase' = [phase EXCEPT ![n] = "accept"]
    /\ choice' = [choice EXCEPT ![n] = k]
    /\ agreed' = [agreed EXCEPT ![n] = @ \cup {k}]
    /\ candidates' = [candidates EXCEPT ![n] = {}]
    /\ declined' = [declined EXCEPT ![n] = {}]
    /\ UNCHANGED <<inbox, seen, trust>>

RejectAll(n) ==
    /\ phase[n] = "prompt"
    /\ phase' = [phase EXCEPT ![n] = "collect"]
    /\ declined' = [declined EXCEPT ![n] = @ \cup candidates[n]]
    /\ candidates' = [candidates EXCEPT ![n] = {}]
    /\ UNCHANGED <<inbox, seen, choice, trust, agreed>>

AnyAcceptConfirms(n, p) == ~p.old /\ p.src = choice[n] /\ p.accepts # NoPeer

AnyoneConfirms(n, p) == ~p.old /\ p.accepts = n

\* The packet that completes a pairing: fresh, from the chosen peer, about us.
Confirms(n, p) == ~p.old /\ p.src = choice[n] /\ p.accepts = n

\* Whether the sender outlives the match by 400 ms, two ACCEPTs long.
AfterSaveEndsAtOnce == "sent"

AfterSave == "tail"

Ignore(n, p) ==
    /\ phase[n] = "accept"
    /\ p \in inbox[n]
    /\ ~Confirms(n, p)
    /\ inbox' = [inbox EXCEPT ![n] = @ \ {p}]
    /\ UNCHANGED <<phase, declined, seen, candidates, choice, trust, agreed>>

SaveTrust(n, p) ==
    /\ phase[n] = "accept"
    /\ p \in inbox[n]
    /\ Confirms(n, p)
    /\ trust' = [trust EXCEPT ![n] = choice[n]]
    /\ phase' = [phase EXCEPT ![n] = AfterSave]
    /\ inbox' = [inbox EXCEPT ![n] = {}]
    /\ UNCHANGED <<declined, seen, candidates, choice, agreed>>

\* trust::save fails.  fs::write truncates the old file before it writes: the file
\* is as before, unreadable, or already names the new peer.
SaveFails(n, p) ==
    /\ "save" \in Faults
    /\ phase[n] = "accept"
    /\ p \in inbox[n]
    /\ Confirms(n, p)
    /\ \E k \in {trust[n], choice[n], NoPeer} : trust' = [trust EXCEPT ![n] = k]
    /\ End(n)
    /\ UNCHANGED agreed

Finish(n) ==
    /\ phase[n] = "sent"
    /\ End(n)
    /\ UNCHANGED <<trust, agreed>>

\* trust::remove: the Forget buttons, between two sessions.
Forget(n) ==
    /\ phase[n] = "idle"
    /\ trust' = [trust EXCEPT ![n] = NoPeer]
    /\ UNCHANGED <<session, agreed>>

Receive(n, p) == Collect(n, p) \/ Ignore(n, p) \/ SaveTrust(n, p) \/ SaveFails(n, p)

User(n) == (\E k \in Key : AcceptCandidate(n, k)) \/ RejectAll(n)

Next ==
    \/ \E n \in Node :
        \/ Begin(n) \/ Send(n) \/ Age(n) \/ WindowCloses(n) \/ User(n)
        \/ \E p \in inbox[n] : Receive(n, p)
        \/ GiveUp(n) \/ Finish(n) \/ Forget(n)
    \/ \E s \in Stranger : StrangerSends(s)

Spec == Init /\ [][Next]_vars

\* Sender threads send, and a loop that is not at a prompt reads each packet
\* its socket holds, which is a FIFO.  Users may leave a prompt open for ever.
FairSpec ==
    /\ Spec
    /\ \A n \in Node :
        /\ WF_vars(Send(n))
        /\ WF_vars(WindowCloses(n))
        /\ \A p \in {q \in Packet : q.src # n} : WF_vars(Receive(n, p))

-----------------------------------------------------------------------------
TypeOK ==
    /\ phase \in [Node -> {"idle", "collect", "prompt", "accept", "tail", "sent"}]
    /\ inbox \in [Node -> SUBSET Packet]
    /\ declined \in [Node -> SUBSET Key]
    /\ seen \in [Node -> SUBSET Key]
    /\ candidates \in [Node -> SUBSET Key]
    /\ choice \in [Node -> Key \cup {NoPeer}]
    /\ trust \in [Node -> Key \cup {NoPeer}]
    /\ agreed \in [Node -> SUBSET Key]

Consent == INSTANCE PairConsent
           WITH agreed <- agreed, choice <- choice, trust <- trust

\* Both users agreed before either device trusts the other, whatever is lost,
\* buffered across a prompt, or left over from a session that was given up.
TrustIsMutual == Consent!TrustIsMutual

ImplementsConsent == Consent!CSpec

\* Of two users who chose each other each ends up trusting: the device that
\* matches first still sends its peer the ACCEPT that one is waiting for.
BothTrust ==
    \A m, n \in Node :
        (choice[m] = n /\ choice[n] = m /\ phase[m] = "accept" /\ phase[n] = "accept")
        ~> trust[m] = n

\* Whoever is pairing gets offered to a device that is listening, even if its
\* own user has not answered the prompt yet, and after other offers were
\* rejected.
EveryPeerIsOffered ==
    \A m, n \in Node :
        (m # n /\ phase[n] = "collect" /\ m \notin declined[n] /\ phase[m] \in {"collect", "prompt"})
        ~> (m \in candidates[n] \/ phase[n] # "collect" \/ phase[m] \notin {"collect", "prompt"})
=============================================================================
