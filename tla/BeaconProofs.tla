---------------------------- MODULE BeaconProofs ----------------------------
(***************************************************************************)
(* Theorem about Beacon: presence is earned, for clocks of any size, any   *)
(* window, skew and delay that BeaconConstants admits.  A packet's age is  *)
(* never lost in the arithmetic modulo ClockSize: its time stamp is as far *)
(* behind the peer's clock as it is old, the replay window measures that   *)
(* distance exactly, and the peer has not been silent at an address for    *)
(* longer than the youngest packet it sent us from there is old.           *)
(***************************************************************************)
EXTENDS Beacon, TLAPS

-----------------------------------------------------------------------------
(* Arithmetic modulo ClockSize. *)

\* Back into the clock's range, from one turn above or below it.
Wrapped(x) == IF x < 0 THEN x + ClockSize ELSE IF x >= ClockSize THEN x - ClockSize ELSE x

LEMMA ConstantsAreNumbers ==
    /\ ClockSize \in Nat /\ ClockSize > 0
    /\ Window \in Nat /\ StaleAfter \in Nat /\ MaxDelay \in Nat /\ Room \in Nat
    /\ MaxSkew \in Nat /\ MaxSkew <= Window
    /\ MaxDelay + Window + MaxSkew < ClockSize
    /\ ClockSize = 2 * (ClockSize \div 2) /\ ClockSize \div 2 \in Nat
<1>1. ClockSize \in Nat /\ Window \in Nat /\ StaleAfter \in Nat /\ MaxDelay \in Nat /\ Room \in Nat
  BY BeaconConstants
<1>2. MaxSkew \in Nat /\ MaxSkew <= Window /\ MaxDelay + Window + MaxSkew < ClockSize
  BY <1>1, BeaconConstants
<1>3. ClockSize % 2 = 0
  BY BeaconConstants
<1> QED
  BY <1>1, <1>2, <1>3

\* One turn too many or too few is taken back by the remainder.
LEMMA RemainderWraps ==
  ASSUME NEW x \in Int, -ClockSize <= x, x < 2 * ClockSize
  PROVE  x % ClockSize = Wrapped(x) /\ Wrapped(x) \in Clock
<1>1. CASE x < 0
  <2>1. x + ClockSize \in 0 .. ClockSize - 1
    BY <1>1, ConstantsAreNumbers
  <2>2. ((x + ClockSize) - ClockSize) % ClockSize = x + ClockSize
    BY <2>1, ConstantsAreNumbers
  <2>3. (x + ClockSize) - ClockSize = x
    BY ConstantsAreNumbers
  <2> QED
    BY <1>1, <2>1, <2>2, <2>3 DEF Wrapped, Clock
<1>2. CASE x >= ClockSize
  <2>1. x - ClockSize \in 0 .. ClockSize - 1
    BY <1>2, ConstantsAreNumbers
  <2>2. ((x - ClockSize) + ClockSize) % ClockSize = x - ClockSize
    BY <2>1, ConstantsAreNumbers
  <2>3. (x - ClockSize) + ClockSize = x
    BY ConstantsAreNumbers
  <2> QED
    BY <1>2, <2>1, <2>2, <2>3, ConstantsAreNumbers DEF Wrapped, Clock
<1>3. CASE 0 <= x /\ x < ClockSize
  BY <1>3, ConstantsAreNumbers DEF Wrapped, Clock
<1> QED
  BY <1>1, <1>2, <1>3, ConstantsAreNumbers

\* is_within_replay_window measures the distance of the two clocks, in either
\* direction and across the wrap, as long as no packet is nearly a turn old.
LEMMA WindowIsExact ==
  ASSUME NEW c \in Clock, NEW s \in Int, -MaxSkew <= s, s <= MaxSkew, NEW a \in 0 .. MaxDelay
  PROVE  IsWithinReplayWindow(Wrapped(c - a), (c + s) % ClockSize)
         <=> -Window <= s + a /\ s + a <= Window
<1> USE ConstantsAreNumbers
<1>1. c \in Int /\ 0 <= c /\ c < ClockSize /\ a \in Int /\ 0 <= a /\ a <= MaxDelay
  BY DEF Clock
<1>2. (c + s) % ClockSize = Wrapped(c + s) /\ Wrapped(c + s) \in Clock
  BY <1>1, RemainderWraps
<1>3. Wrapped(c - a) \in Clock
  BY <1>1, RemainderWraps
<1> DEFINE d == Wrapped(c + s) - Wrapped(c - a)
<1>4. d \in Int /\ -ClockSize <= d /\ d < ClockSize
  BY <1>2, <1>3 DEF Clock
<1>5. d % ClockSize = Wrapped(d)
  BY <1>4, RemainderWraps
<1>6. Wrapped(d) = IF s + a < 0 THEN s + a + ClockSize ELSE s + a
  BY <1>1 DEF Wrapped
<1>7. Magnitude(Signed(Wrapped(d))) <= Window <=> -Window <= s + a /\ s + a <= Window
  BY <1>1, <1>6 DEF Magnitude, Signed
<1> QED
  BY <1>2, <1>5, <1>7 DEF IsWithinReplayWindow

-----------------------------------------------------------------------------
(* The inductive invariant. *)

BTypeOK ==
    /\ clock \in Clock
    /\ skew \in {-MaxSkew, MaxSkew}
    /\ aims \in {"us", "nobody", "other", "off"}
    /\ at \in Addr
    /\ net \subseteq Packet
    /\ live \in [addr : Addr \cup {NoAddr}, age : 0 .. StaleAfter + 1]
    /\ silence \in [Addr -> Nat]

\* The time stamp of a packet is as far behind the peer's clock as it is old.
StampsAreTrue == \A p \in net : p.ts = Wrapped(clock - p.age)

ForUs(p) == p.from = "peer" /\ p.to \in {"us", "nobody"}

\* The peer has been silent at an address no longer than its packets from there
\* are old.
NoOlderSilence == \A p \in net : ForUs(p) => silence[p.addr] <= p.age

\* What is remembered of the peer is no fresher than the peer itself.
LiveIsEarned == Present => silence[live.addr] <= Window - skew + live.age

BInv == BTypeOK /\ StampsAreTrue /\ NoOlderSilence /\ LiveIsEarned

-----------------------------------------------------------------------------
LEMMA SkewIsSmall ==
  ASSUME BTypeOK
  PROVE  skew \in Int /\ -MaxSkew <= skew /\ skew <= MaxSkew
  BY ConstantsAreNumbers DEF BTypeOK

LEMMA LongestIsNatural ==
  ASSUME BTypeOK
  PROVE  Longest \in Nat /\ Forever = Longest + 1 /\ Forever \in Nat
  BY ConstantsAreNumbers, SkewIsSmall DEF Longest, Forever

LEMMA BeaconInit == BInit => BInv
<1> SUFFICES ASSUME BInit PROVE BInv
  OBVIOUS
<1>1. clock \in Clock /\ skew \in {-MaxSkew, MaxSkew} /\ net = {} /\ live = Never
  BY ConstantsAreNumbers DEF BInit, Clock
<1>2. silence \in [Addr -> Nat]
  BY ConstantsAreNumbers DEF BInit, Forever, Longest
<1>3. Never \in [addr : Addr \cup {NoAddr}, age : 0 .. StaleAfter + 1]
  BY ConstantsAreNumbers DEF Never
<1>4. BTypeOK
  BY <1>1, <1>2, <1>3 DEF BTypeOK, BInit
<1>5. ~Present
  BY <1>1 DEF Present, Never
<1> QED
  BY <1>1, <1>4, <1>5 DEF BInv, StampsAreTrue, NoOlderSilence, LiveIsEarned

\* An accepted packet is younger than the window and the skew together.
LEMMA AcceptedIsYoung ==
  ASSUME BInv, NEW p \in net, Accepts(p)
  PROVE  silence[p.addr] <= Window - skew /\ p.addr \in Addr
<1>1. p \in Packet /\ p.ts = Wrapped(clock - p.age) /\ clock \in Clock
  BY DEF BInv, BTypeOK, StampsAreTrue
<1>2. p.age \in 0 .. MaxDelay /\ p.addr \in Addr
  BY <1>1 DEF Packet
<1>3. skew \in Int /\ -MaxSkew <= skew /\ skew <= MaxSkew
  BY SkewIsSmall DEF BInv
<1>4. IsWithinReplayWindow(Wrapped(clock - p.age), (clock + skew) % ClockSize)
  BY <1>1 DEF Accepts, OurClock
<1>5. skew + p.age <= Window
  BY <1>1, <1>2, <1>3, <1>4, WindowIsExact
<1>6. silence[p.addr] <= p.age
  BY DEF BInv, NoOlderSilence, ForUs, Accepts
<1> QED
  BY <1>2, <1>3, <1>5, <1>6, ConstantsAreNumbers DEF BInv, BTypeOK

\* A packet sent now carries the clock as it is.
LEMMA StampNow ==
  ASSUME BTypeOK
  PROVE  clock = Wrapped(clock - 0) /\ clock \in Clock /\ 0 \in 0 .. MaxDelay
  BY ConstantsAreNumbers DEF BTypeOK, Wrapped, Clock

LEMMA BroadcastKeeps == BInv /\ Broadcast => BInv'
<1> SUFFICES ASSUME BInv, Broadcast PROVE BInv'
  OBVIOUS
<1> DEFINE b == [from |-> "peer", to |-> aims, addr |-> at, ts |-> clock, age |-> 0]
<1>1. net' = net \cup {b}
  BY DEF Broadcast, Beacons
<1>2. clock' = clock /\ skew' = skew /\ aims' = aims /\ at' = at /\ live' = live /\ aims # "off"
  BY DEF Broadcast
<1>3. /\ silence \in [Addr -> Nat] /\ silence' \in [Addr -> Nat]
      /\ \A a \in Addr : silence'[a] <= silence[a]
      /\ aims # "other" => silence'[at] = 0
  BY DEF Broadcast, BInv, BTypeOK
<1>4. b \in Packet
  BY <1>2, StampNow DEF BInv, BTypeOK, Packet
<1>5. BTypeOK'
  BY <1>1, <1>2, <1>3, <1>4 DEF BInv, BTypeOK
<1>6. StampsAreTrue'
  BY <1>1, <1>2, StampNow DEF BInv, StampsAreTrue
<1>7. NoOlderSilence'
  <2> SUFFICES ASSUME NEW p \in net', ForUs(p) PROVE silence'[p.addr] <= p.age
    BY DEF NoOlderSilence, ForUs
  <2>1. CASE p = b
    BY <1>3, <2>1 DEF ForUs
  <2>2. CASE p \in net
    <3>1. silence[p.addr] <= p.age /\ p.age \in Int /\ p.addr \in Addr
      BY <2>2, ConstantsAreNumbers DEF BInv, BTypeOK, NoOlderSilence, Packet
    <3> QED
      BY <1>3, <3>1
  <2> QED
    BY <1>1, <2>1, <2>2
<1>8. LiveIsEarned'
  <2>1. Window - skew + live.age \in Int /\ (Present => live.addr \in Addr)
    BY ConstantsAreNumbers, SkewIsSmall DEF BInv, BTypeOK, Present
  <2> QED
    BY <1>2, <1>3, <2>1 DEF BInv, LiveIsEarned, Present
<1> QED
  BY <1>5, <1>6, <1>7, <1>8 DEF BInv

LEMMA StrangerKeeps == BInv /\ StrangerBroadcasts => BInv'
<1> SUFFICES ASSUME BInv, StrangerBroadcasts PROVE BInv'
  OBVIOUS
<1>1. PICK p \in StrangersBeacons : net' = net \cup {p}
  BY DEF StrangerBroadcasts
<1>2. p.from = "stranger" /\ p.ts = clock /\ p.age = 0
  BY DEF StrangersBeacons
<1>3. p \in Packet
  BY StampNow DEF BInv, BTypeOK, Packet, StrangersBeacons
<1>4. UNCHANGED <<clock, skew, aims, at, live, silence>>
  BY DEF StrangerBroadcasts
<1>5. BTypeOK'
  BY <1>1, <1>3, <1>4 DEF BInv, BTypeOK
<1>6. StampsAreTrue'
  BY <1>1, <1>2, <1>4, StampNow DEF BInv, StampsAreTrue
<1>7. NoOlderSilence'
  BY <1>1, <1>2, <1>4 DEF BInv, NoOlderSilence, ForUs
<1>8. LiveIsEarned'
  BY <1>4 DEF BInv, LiveIsEarned, Present
<1> QED
  BY <1>5, <1>6, <1>7, <1>8 DEF BInv

\* Everything grows older by the same second.
LEMMA SecondKeeps == BInv /\ Second => BInv'
<1> SUFFICES ASSUME BInv, Second PROVE BInv'
  OBVIOUS
<1> USE ConstantsAreNumbers
<1>1. clock \in Int /\ 0 <= clock /\ clock < ClockSize
  BY DEF BInv, BTypeOK, Clock
<1>2. clock' = Wrapped(clock + 1) /\ clock' \in Clock
  BY <1>1, RemainderWraps DEF Second
<1>3. /\ silence \in [Addr -> Nat] /\ silence' \in [Addr -> Nat]
      /\ \A a \in Addr : silence'[a] <= silence[a] + 1
  BY LongestIsNatural DEF Second, Lesser, BInv, BTypeOK
<1>4. live'.addr = live.addr /\ live'.age = Lesser(live.age + 1, StaleAfter + 1)
      /\ live' \in [addr : Addr \cup {NoAddr}, age : 0 .. StaleAfter + 1]
  BY DEF Second, Lesser, BInv, BTypeOK
<1>5. \A p \in net' : \E q \in net : /\ q.age < MaxDelay
                                     /\ p = [q EXCEPT !.age = q.age + 1]
  BY DEF Second, Older
<1>6. ASSUME NEW q \in Packet, q.age < MaxDelay, NEW p, p = [q EXCEPT !.age = q.age + 1]
      PROVE  /\ p \in Packet /\ p.age = q.age + 1 /\ p.ts = q.ts
             /\ p.from = q.from /\ p.to = q.to /\ p.addr = q.addr
  BY <1>6 DEF Packet
<1>7. \A p \in net' : \E q \in net :
         /\ p \in Packet /\ q \in Packet /\ p.age = q.age + 1 /\ p.ts = q.ts
         /\ p.from = q.from /\ p.to = q.to /\ p.addr = q.addr
  BY <1>5, <1>6 DEF BInv, BTypeOK
<1>8. BTypeOK'
  BY <1>2, <1>3, <1>4, <1>7 DEF Second, BInv, BTypeOK
<1>9. StampsAreTrue'
  <2> SUFFICES ASSUME NEW p \in net' PROVE p.ts = Wrapped(clock' - p.age)
    BY DEF StampsAreTrue, Wrapped
  <2>1. PICK q \in net : p.age = q.age + 1 /\ p.ts = q.ts /\ q \in Packet /\ p \in Packet
    BY <1>7
  <2>2. q.ts = Wrapped(clock - q.age)
    BY DEF BInv, StampsAreTrue
  <2>3. q.age \in Nat /\ p.age \in Nat /\ p.age <= MaxDelay
    BY <2>1 DEF Packet
  <2> QED
    BY <1>1, <1>2, <2>1, <2>2, <2>3 DEF Wrapped
<1>10. NoOlderSilence'
  <2> SUFFICES ASSUME NEW p \in net', ForUs(p) PROVE silence'[p.addr] <= p.age
    BY DEF NoOlderSilence, ForUs
  <2>1. PICK q \in net : /\ p.age = q.age + 1 /\ p.from = q.from /\ p.to = q.to
                         /\ p.addr = q.addr /\ q \in Packet
    BY <1>7
  <2>2. silence[q.addr] <= q.age /\ q.age \in Nat /\ q.addr \in Addr
    BY <2>1 DEF BInv, NoOlderSilence, ForUs, Packet
  <2> QED
    BY <1>3, <2>1, <2>2
<1>11. LiveIsEarned'
  <2> SUFFICES ASSUME Present' PROVE silence'[live'.addr] <= Window - skew' + live'.age
    BY DEF LiveIsEarned
  <2>1. /\ live'.age <= StaleAfter /\ live.age \in Nat
        /\ live.addr # NoAddr /\ live.addr \in Addr
    BY <1>4 DEF Present, BInv, BTypeOK
  <2>2. live'.age = live.age + 1 /\ live.age <= StaleAfter
    BY <1>4, <2>1 DEF Lesser
  <2>3. silence[live.addr] <= Window - skew + live.age
    BY <2>1, <2>2 DEF BInv, LiveIsEarned, Present
  <2>4. skew' = skew /\ skew \in Int
    BY SkewIsSmall DEF Second, BInv
  <2>5. silence'[live.addr] <= silence[live.addr] + 1
        /\ silence[live.addr] \in Nat /\ silence'[live.addr] \in Nat
    BY <1>3, <2>1
  <2>6. live'.addr = live.addr
    BY <1>4
  <2> QED
    BY <2>1, <2>2, <2>3, <2>4, <2>5, <2>6
<1> QED
  BY <1>8, <1>9, <1>10, <1>11 DEF BInv

LEMMA FewerPacketsKeep ==
  ASSUME BInv, net' \subseteq net, UNCHANGED <<clock, skew, silence>>,
         aims' \in {"us", "nobody", "other", "off"}, at' \in Addr,
         live' = live
  PROVE  BInv'
  BY DEF BInv, BTypeOK, StampsAreTrue, NoOlderSilence, ForUs, LiveIsEarned, Present

LEMMA ReceiveKeeps == ASSUME BInv, NEW p \in net, Receive(p) PROVE BInv'
<1>1. net' \subseteq net /\ UNCHANGED <<clock, skew, aims, at, silence>>
  BY DEF Receive
<1>2. CASE live' = live
  BY <1>1, <1>2, FewerPacketsKeep DEF BInv, BTypeOK
<1>3. CASE Accepts(p) /\ live' = LivePeer(p)
  <2>1. silence[p.addr] <= Window - skew /\ p.addr \in Addr
    BY <1>3, AcceptedIsYoung
  <2>2. live' = [addr |-> p.addr, age |-> 0]
    BY <1>3 DEF LivePeer
  <2>3. live' \in [addr : Addr \cup {NoAddr}, age : 0 .. StaleAfter + 1]
    BY <2>1, <2>2, ConstantsAreNumbers
  <2>4. BTypeOK'
    BY <1>1, <2>3 DEF BInv, BTypeOK
  <2>5. StampsAreTrue' /\ NoOlderSilence'
    BY <1>1 DEF BInv, StampsAreTrue, NoOlderSilence, ForUs
  <2>6. LiveIsEarned'
    <3>1. silence'[live'.addr] <= Window - skew' + live'.age
      BY <1>1, <2>1, <2>2, SkewIsSmall, ConstantsAreNumbers DEF BInv
    <3> QED
      BY <3>1 DEF LiveIsEarned
  <2> QED
    BY <2>4, <2>5, <2>6 DEF BInv
<1> QED
  BY <1>2, <1>3 DEF Receive

LEMMA BeaconNext == BInv /\ [BNext]_bvars => BInv'
<1> SUFFICES ASSUME BInv, [BNext]_bvars PROVE BInv'
  OBVIOUS
<1>1. CASE Broadcast
  BY <1>1, BroadcastKeeps
<1>2. CASE StrangerBroadcasts
  BY <1>2, StrangerKeeps
<1>3. CASE Second
  BY <1>3, SecondKeeps
<1>4. CASE Lose
  BY <1>4, FewerPacketsKeep DEF Lose, BInv, BTypeOK
<1>5. CASE PeerChanges
  BY <1>5, FewerPacketsKeep DEF PeerChanges, BInv, BTypeOK
<1>6. CASE \E p \in net : Receive(p)
  BY <1>6, ReceiveKeeps
<1>7. CASE UNCHANGED bvars
  BY <1>7, FewerPacketsKeep DEF bvars, BInv, BTypeOK
<1> QED
  BY <1>1, <1>2, <1>3, <1>4, <1>5, <1>6, <1>7 DEF BNext

\* However beacons are delayed, reordered and repeated, and across the wrap of
\* the 32 bits of the time stamp (handle_packet and is_within_replay_window): a
\* peer counts as present at an address only if it has sent something for us from
\* there lately.
THEOREM BeaconPresence == BSpec => []PresenceIsEarned
<1>1. BInv => PresenceIsEarned
  <2> SUFFICES ASSUME BInv, Present PROVE silence[live.addr] <= Longest
    BY DEF PresenceIsEarned
  <2>1. /\ silence[live.addr] <= Window - skew + live.age
        /\ live.age <= StaleAfter /\ live.addr \in Addr
    BY DEF BInv, BTypeOK, LiveIsEarned, Present
  <2> QED
    BY <2>1, SkewIsSmall, ConstantsAreNumbers DEF BInv, BTypeOK, Longest
<1> QED
  BY <1>1, BeaconInit, BeaconNext, PTL DEF BSpec
=============================================================================
