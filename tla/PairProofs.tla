----------------------------- MODULE PairProofs -----------------------------
(***************************************************************************)
(* Pairing keeps its promise on any number of devices, with any strangers, *)
(* any loss, any delay and any number of abandoned sessions: trust is      *)
(* mutual consent.                                                         *)
(***************************************************************************)
EXTENDS Pair, TLAPS

\* A packet about a peer was sent by a device whose user accepted that peer.
Honest ==
    \A n \in Node : \A p \in inbox[n] :
        p.src \in Node /\ p.accepts # NoPeer => p.accepts \in agreed[p.src]

\* A device has a choice exactly in the phases after its prompt, and its user
\* made it.
Chosen ==
    \A n \in Node :
        /\ phase[n] \in Accepting => choice[n] \in agreed[n]
        /\ phase[n] \notin Accepting => choice[n] = NoPeer

Inv == TypeOK /\ Honest /\ Chosen

-----------------------------------------------------------------------------
LEMMA BroadcastType ==
    ASSUME TypeOK, NEW p \in Packet, Broadcast(p)
    PROVE  /\ inbox' \in [Node -> SUBSET Packet]
           /\ \A n \in Node : inbox'[n] \subseteq inbox[n] \cup {p}
<1>1. PICK R \in SUBSET Receivers(p) :
         inbox' = [n \in Node |-> IF n \in R THEN inbox[n] \cup {p} ELSE inbox[n]]
  BY DEF Broadcast
<1> QED
  BY <1>1 DEF TypeOK

LEMMA SendType ==
    ASSUME TypeOK, NEW n \in Node, Send(n)
    PROVE  \E p \in Packet :
             /\ Broadcast(p)
             /\ p.src = n
             /\ p.accepts = IF phase[n] \in Accepting THEN choice[n] ELSE NoPeer
<1> DEFINE p == [src |-> n, old |-> FALSE,
                 accepts |-> IF phase[n] \in Accepting THEN choice[n] ELSE NoPeer]
<1>1. p \in Packet
  BY DEF Packet, Key, TypeOK
<1>2. Broadcast(p)
  BY DEF Send
<1> QED
  BY <1>1, <1>2

LEMMA StrangerType ==
    ASSUME NEW s \in Stranger, StrangerSends(s)
    PROVE  \E p \in Packet : Broadcast(p) /\ p.src = s
<1>1. PICK k \in Courted \cup {NoPeer} : Broadcast([src |-> s, accepts |-> k, old |-> FALSE])
  BY DEF StrangerSends
<1>2. [src |-> s, accepts |-> k, old |-> FALSE] \in Packet
  BY PairConstants DEF Packet, Key
<1> QED
  BY <1>1, <1>2

LEMMA EndType ==
    ASSUME TypeOK, NEW n \in Node, End(n)
    PROVE  /\ phase' \in [Node -> {"idle", "collect", "prompt", "accept", "tail", "sent"}]
           /\ inbox' \in [Node -> SUBSET Packet]
           /\ declined' \in [Node -> SUBSET Key]
           /\ seen' \in [Node -> SUBSET Key]
           /\ candidates' \in [Node -> SUBSET Key]
           /\ choice' \in [Node -> Key \cup {NoPeer}]
  BY DEF TypeOK, End

-----------------------------------------------------------------------------
\* The state is what its types say.
THEOREM PairTypeOK == Spec => []TypeOK
<1>1. Init => TypeOK
  BY DEF Init, TypeOK
<1>2. TypeOK /\ [Next]_vars => TypeOK'
  <2> SUFFICES ASSUME TypeOK, [Next]_vars PROVE TypeOK'
    OBVIOUS
  <2>1. ASSUME NEW n \in Node, Begin(n) PROVE TypeOK'
    BY <2>1 DEF TypeOK, Begin
  <2>2. ASSUME NEW n \in Node, Send(n) PROVE TypeOK'
    <3>1. inbox' \in [Node -> SUBSET Packet]
      BY <2>2, SendType, BroadcastType
    <3>2. phase' \in [Node -> {"idle", "collect", "prompt", "accept", "tail", "sent"}]
      BY <2>2 DEF TypeOK, Send
    <3> QED
      BY <2>2, <3>1, <3>2 DEF TypeOK, Send
  <2>3. ASSUME NEW n \in Node, Age(n) PROVE TypeOK'
    <3>1. PICK p \in inbox[n] :
             inbox' = [inbox EXCEPT ![n] = (@ \ {p}) \cup {[p EXCEPT !.old = TRUE]}]
      BY <2>3 DEF Age
    <3>2. p \in Packet
      BY DEF TypeOK
    <3>3. [p EXCEPT !.old = TRUE] \in Packet
      BY <3>2 DEF Packet
    <3>4. inbox' \in [Node -> SUBSET Packet]
      BY <3>1, <3>3 DEF TypeOK
    <3> QED
      BY <2>3, <3>4 DEF TypeOK, Age
  <2>4. ASSUME NEW n \in Node, WindowCloses(n) PROVE TypeOK'
    BY <2>4 DEF TypeOK, WindowCloses
  <2>5. ASSUME NEW n \in Node, User(n) PROVE TypeOK'
    BY <2>5 DEF TypeOK, User, AcceptCandidate, RejectAll
  <2>6. ASSUME NEW n \in Node, NEW p \in inbox[n], Collect(n, p) PROVE TypeOK'
    <3>1. p.src \in Key
      BY DEF TypeOK, Packet
    <3> QED
      BY <2>6, <3>1 DEF TypeOK, Collect
  <2>7. ASSUME NEW n \in Node, NEW p \in inbox[n], Ignore(n, p) PROVE TypeOK'
    BY <2>7 DEF TypeOK, Ignore
  <2>8. ASSUME NEW n \in Node, NEW p \in inbox[n], SaveTrust(n, p) PROVE TypeOK'
    BY <2>8 DEF TypeOK, SaveTrust, AfterSave
  <2>9. ASSUME NEW n \in Node, End(n), UNCHANGED <<trust, agreed>> PROVE TypeOK'
    BY <2>9, EndType DEF TypeOK
  <2>10. ASSUME NEW n \in Node, Forget(n) PROVE TypeOK'
    BY <2>10 DEF TypeOK, Forget, session
  <2>13. ASSUME NEW n \in Node, NEW p \in inbox[n], SaveFails(n, p) PROVE TypeOK'
    <3>1. End(n) /\ UNCHANGED agreed
      BY <2>13 DEF SaveFails
    <3>2. trust' \in [Node -> Key \cup {NoPeer}]
      BY <2>13 DEF TypeOK, SaveFails
    <3> QED
      BY <3>1, <3>2, EndType DEF TypeOK
  <2>11. ASSUME NEW s \in Stranger, StrangerSends(s) PROVE TypeOK'
    <3>1. inbox' \in [Node -> SUBSET Packet]
      BY <2>11, StrangerType, BroadcastType
    <3> QED
      BY <2>11, <3>1 DEF TypeOK, StrangerSends
  <2>12. CASE UNCHANGED vars
    BY <2>12 DEF TypeOK, vars, session
  <2> QED
    BY <2>1, <2>2, <2>3, <2>4, <2>5, <2>6, <2>7, <2>8, <2>9, <2>10, <2>11, <2>12, <2>13
    DEF Next, Receive, GiveUp, Finish
<1> QED
  BY <1>1, <1>2, PTL DEF Spec
-----------------------------------------------------------------------------
(* Packets and choices. *)

LEMMA NextChosen ==
    ASSUME Inv, [Next]_vars
    PROVE  Chosen'
<1> USE DEF Inv, TypeOK, Chosen, Accepting
<1>1. ASSUME NEW n \in Node, Begin(n) \/ WindowCloses(n) PROVE Chosen'
  BY <1>1 DEF Begin, WindowCloses
<1>2. ASSUME NEW n \in Node, Send(n) PROVE Chosen'
  BY <1>2 DEF Send
<1>3. ASSUME NEW n \in Node, Age(n) PROVE Chosen'
  BY <1>3 DEF Age
<1>4. ASSUME NEW n \in Node, User(n) PROVE Chosen'
  BY <1>4 DEF User, AcceptCandidate, RejectAll
<1>5. ASSUME NEW n \in Node, NEW p \in inbox[n], Collect(n, p) \/ Ignore(n, p) PROVE Chosen'
  BY <1>5 DEF Collect, Ignore
<1>6. ASSUME NEW n \in Node, NEW p \in inbox[n], SaveTrust(n, p) PROVE Chosen'
  BY <1>6 DEF SaveTrust, AfterSave
<1>7. ASSUME NEW n \in Node, End(n), UNCHANGED agreed PROVE Chosen'
  BY <1>7 DEF End
<1>8. ASSUME NEW n \in Node, Forget(n) PROVE Chosen'
  BY <1>8 DEF Forget, session
<1>9. ASSUME NEW s \in Stranger, StrangerSends(s) PROVE Chosen'
  BY <1>9 DEF StrangerSends
<1>10. CASE UNCHANGED vars
  BY <1>10 DEF vars, session
<1> QED
  BY <1>1, <1>2, <1>3, <1>4, <1>5, <1>6, <1>7, <1>8, <1>9, <1>10
  DEF Next, Receive, GiveUp, Finish, SaveFails

\* A step that adds no packet and takes no consent back keeps packets honest.
LEMMA HonestFrame ==
    ASSUME Honest, TypeOK,
           \A n \in Node : inbox'[n] \subseteq inbox[n],
           \A n \in Node : agreed[n] \subseteq agreed'[n]
    PROVE  Honest'
  BY DEF Honest

\* A broadcast packet is as honest as its sender.
LEMMA HonestBroadcast ==
    ASSUME Honest, TypeOK, UNCHANGED agreed,
           NEW p \in Packet, Broadcast(p),
           p.src \in Node /\ p.accepts # NoPeer => p.accepts \in agreed[p.src]
    PROVE  Honest'
  BY BroadcastType DEF Honest

LEMMA NextHonest ==
    ASSUME Inv, [Next]_vars
    PROVE  Honest'
<1> USE DEF Inv
<1>1. ASSUME NEW n \in Node, Send(n) PROVE Honest'
  <2>1. PICK p \in Packet : /\ Broadcast(p)
                            /\ p.src = n
                            /\ p.accepts = IF phase[n] \in Accepting THEN choice[n] ELSE NoPeer
    BY <1>1, SendType
  <2>2. p.accepts # NoPeer => p.accepts \in agreed[n]
    BY <2>1 DEF Chosen
  <2> QED
    BY <1>1, <2>1, <2>2, HonestBroadcast DEF Send
<1>2. ASSUME NEW s \in Stranger, StrangerSends(s) PROVE Honest'
  <2>1. s \notin Node
    BY PairConstants
  <2> QED
    BY <1>2, <2>1, StrangerType, HonestBroadcast DEF StrangerSends
<1>3. ASSUME NEW n \in Node, Age(n) PROVE Honest'
  <2>1. PICK p \in inbox[n] :
           inbox' = [inbox EXCEPT ![n] = (@ \ {p}) \cup {[p EXCEPT !.old = TRUE]}]
    BY <1>3 DEF Age
  <2>2. p \in Packet
    BY DEF TypeOK
  <2>3. [p EXCEPT !.old = TRUE].src = p.src /\ [p EXCEPT !.old = TRUE].accepts = p.accepts
    BY <2>2 DEF Packet
  <2>4. UNCHANGED agreed
    BY <1>3 DEF Age
  <2>5. ASSUME NEW m \in Node, NEW q \in inbox'[m],
               q.src \in Node, q.accepts # NoPeer
        PROVE  q.accepts \in agreed[q.src]
    <3>1. q \in inbox[m] \/ (m = n /\ q = [p EXCEPT !.old = TRUE])
      BY <2>1 DEF TypeOK
    <3> QED
      BY <2>3, <2>5, <3>1 DEF Honest
  <2> QED
    BY <2>4, <2>5 DEF Honest
<1>4. ASSUME NEW n \in Node, NEW p \in inbox[n], Collect(n, p) \/ Ignore(n, p) \/ SaveTrust(n, p)
      PROVE  Honest'
  BY <1>4, HonestFrame DEF Collect, Ignore, SaveTrust, TypeOK
<1>5. ASSUME NEW n \in Node, Begin(n) \/ WindowCloses(n) \/ Forget(n) PROVE Honest'
  BY <1>5, HonestFrame DEF Begin, WindowCloses, Forget, session
<1>6. ASSUME NEW n \in Node, User(n) PROVE Honest'
  BY <1>6, HonestFrame DEF User, AcceptCandidate, RejectAll, TypeOK
<1>7. ASSUME NEW n \in Node, End(n), UNCHANGED agreed PROVE Honest'
  BY <1>7, HonestFrame DEF End, TypeOK
<1>8. CASE UNCHANGED vars
  BY <1>8, HonestFrame DEF vars, session
<1> QED
  BY <1>1, <1>2, <1>3, <1>4, <1>5, <1>6, <1>7, <1>8
  DEF Next, Receive, GiveUp, Finish, SaveFails

LEMMA PairInv == Spec => []Inv
<1>1. Init => Honest /\ Chosen
  BY DEF Init, Honest, Chosen, Accepting
<1>2. TypeOK /\ Honest /\ Chosen /\ [Next]_vars => (Honest /\ Chosen)'
  BY NextHonest, NextChosen DEF Inv
<1> QED
  BY <1>1, <1>2, PairTypeOK, PTL DEF Spec, Inv

-----------------------------------------------------------------------------
(* The refinement. *)

\* A device about to save has the consent of both users.
LEMMA ConfirmedIsMutual ==
    ASSUME Inv, NEW n \in Node, NEW p \in inbox[n], phase[n] = "accept", Confirms(n, p)
    PROVE  /\ choice[n] \in Key
           /\ choice[n] \in agreed[n]
           /\ choice[n] \in Node => n \in agreed[choice[n]]
<1>1. p.src = choice[n] /\ p.accepts = n
  BY DEF Confirms
<1>2. choice[n] \in Key /\ choice[n] \in agreed[n]
  BY DEF Inv, TypeOK, Chosen, Accepting
<1>3. choice[n] \in Node => n \in agreed[choice[n]]
  BY <1>1, PairConstants DEF Inv, Honest, Key
<1> QED
  BY <1>2, <1>3

LEMMA StepIsConsent ==
    ASSUME Inv, [Next]_vars
    PROVE  [Consent!CNext]_Consent!cvars
<1> USE DEF Consent!cvars
<1>1. ASSUME NEW n \in Node, NEW k \in Key, AcceptCandidate(n, k)
      PROVE  Consent!Agree(n, k)
  BY <1>1 DEF Inv, Chosen, Accepting, AcceptCandidate, Consent!Agree
<1>2. ASSUME NEW n \in Node, NEW p \in inbox[n], SaveTrust(n, p)
      PROVE  Consent!Trust(n)
  BY <1>2, ConfirmedIsMutual DEF SaveTrust, Consent!Trust, Consent!Key, Key
<1>9. ASSUME NEW n \in Node, NEW p \in inbox[n], SaveFails(n, p)
      PROVE  Consent!TrustFails(n)
  BY <1>9, ConfirmedIsMutual DEF SaveFails, End, Consent!TrustFails, Consent!Key, Key
<1>3. ASSUME NEW n \in Node, End(n), UNCHANGED <<trust, agreed>>
      PROVE  Consent!Withdraw(n)
  BY <1>3 DEF End, Consent!Withdraw
<1>4. ASSUME NEW n \in Node, Forget(n)
      PROVE  Consent!Forget(n)
  BY <1>4 DEF Forget, session, Consent!Forget
<1>5. ASSUME NEW n \in Node, Begin(n) \/ Send(n) \/ Age(n) \/ WindowCloses(n) \/ RejectAll(n)
      PROVE  UNCHANGED Consent!cvars
  BY <1>5 DEF Begin, Send, Age, WindowCloses, RejectAll
<1>6. ASSUME NEW n \in Node, NEW p \in inbox[n], Collect(n, p) \/ Ignore(n, p)
      PROVE  UNCHANGED Consent!cvars
  BY <1>6 DEF Collect, Ignore
<1>7. ASSUME NEW s \in Stranger, StrangerSends(s)
      PROVE  UNCHANGED Consent!cvars
  BY <1>7 DEF StrangerSends
<1>8. CASE UNCHANGED vars
  BY <1>8 DEF vars, session
<1> QED
  BY <1>1, <1>2, <1>3, <1>4, <1>5, <1>6, <1>7, <1>8, <1>9
  DEF Next, Receive, User, GiveUp, Finish, Consent!CNext, Consent!Key, Key

\* The packets, prompts and sender threads of discovery::pair implement the
\* promise of PairConsent.
THEOREM PairImplementsConsent == Spec => ImplementsConsent
<1>1. Init => Consent!CInit
  BY DEF Init, Consent!CInit
<1>2. Inv /\ [Next]_vars => [Consent!CNext]_Consent!cvars
  BY StepIsConsent
<1> QED
  BY <1>1, <1>2, PairInv, PTL DEF Spec, ImplementsConsent, Consent!CSpec

\* Trust is mutual consent.
THEOREM PairTrustIsMutual == Spec => []TrustIsMutual
<1>1. Init => TrustIsMutual
  BY DEF Init, TrustIsMutual, Consent!TrustIsMutual
<1>2. Inv /\ TrustIsMutual /\ [Next]_vars => TrustIsMutual'
  <2> SUFFICES ASSUME Inv, TrustIsMutual, [Next]_vars PROVE TrustIsMutual'
    OBVIOUS
  <2> USE DEF Inv, TypeOK, TrustIsMutual, Consent!TrustIsMutual
  <2>1. ASSUME NEW n \in Node, NEW k \in Key, Consent!Agree(n, k) PROVE TrustIsMutual'
    BY <2>1 DEF Consent!Agree
  <2>2. ASSUME NEW n \in Node, NEW p \in inbox[n], SaveTrust(n, p) PROVE TrustIsMutual'
    <3>1. trust' = [trust EXCEPT ![n] = choice[n]] /\ UNCHANGED agreed
      BY <2>2 DEF SaveTrust
    <3> QED
      BY <2>2, <3>1, ConfirmedIsMutual DEF SaveTrust
  <2>6. ASSUME NEW n \in Node, NEW p \in inbox[n], SaveFails(n, p) PROVE TrustIsMutual'
    <3>1. PICK k \in {trust[n], choice[n], NoPeer} : trust' = [trust EXCEPT ![n] = k]
      BY <2>6 DEF SaveFails
    <3>2. UNCHANGED agreed
      BY <2>6 DEF SaveFails
    <3> QED
      BY <2>6, <3>1, <3>2, ConfirmedIsMutual DEF SaveFails
  <2>3. ASSUME NEW n \in Node, Forget(n) PROVE TrustIsMutual'
    BY <2>3 DEF Forget
  <2>4. CASE UNCHANGED <<trust, agreed>>
    BY <2>4
  <2>5. ASSUME NEW n \in Node, NEW k \in Key, AcceptCandidate(n, k) PROVE Consent!Agree(n, k)
    BY <2>5 DEF Chosen, Accepting, AcceptCandidate, Consent!Agree
  <2> QED
    BY <2>1, <2>2, <2>3, <2>4, <2>5, <2>6
    DEF Next, Receive, User, GiveUp, Finish, Begin, Send, Age, WindowCloses,
        RejectAll, Collect, Ignore, StrangerSends, vars
<1> QED
  BY <1>1, <1>2, PairInv, PTL DEF Spec
=============================================================================
