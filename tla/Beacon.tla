------------------------------- MODULE Beacon -------------------------------
(***************************************************************************)
(* Presence: the beacons the paired peer broadcasts every second, a        *)
(* network that loses, delays, reorders and repeats them, and what         *)
(* Beacon::handle_packet makes of those that arrive.  Time passes in steps *)
(* of one second.  A packet carries the low bits of its sender's clock.    *)
(***************************************************************************)
EXTENDS Integers, FiniteSets

CONSTANTS
    Addr,             \* the addresses the peer may have
    NoAddr,
    ClockSize,        \* clocks count modulo this (2^32 in the code)
    Window,           \* REPLAY_WINDOW_US, in steps
    StaleAfter,       \* STALE_AFTER
    MaxSkew,          \* how far the two clocks are apart, either way
    MaxDelay,         \* the network's memory
    Room              \* the packets it holds

ASSUME BeaconConstants ==
    /\ NoAddr \notin Addr
    /\ ClockSize \in Nat /\ ClockSize % 2 = 0
    /\ {Window, StaleAfter, MaxDelay, Room} \subseteq Nat
    /\ MaxSkew \in 0 .. Window
    /\ MaxDelay + Window + MaxSkew < ClockSize

Clock == 0 .. ClockSize - 1

VARIABLES
    clock,            \* the peer's, modulo ClockSize
    skew,             \* our clock minus the peer's
    aims,             \* whom the peer's beacons name: "us", "nobody" (pairing),
                      \* "other" (paired anew), or "off"
    at,               \* the peer's address
    net,              \* packets under way
    live,             \* LivePeer: the address, and the seconds since last_seen
    silence           \* history: seconds since the peer last sent us a beacon
                      \* from each address

bvars == <<clock, skew, aims, at, net, live, silence>>

\* The longest silence a peer that counts as present can have kept.
Longest == Window - skew + StaleAfter

Forever == Longest + 1

Packet == [from : {"peer", "stranger"}, to : {"us", "nobody", "other"}, addr : Addr,
           ts : Clock, age : 0 .. MaxDelay]

Never == [addr |-> NoAddr, age |-> StaleAfter + 1]

BInit ==
    /\ clock = ClockSize - 1
    /\ skew \in {-MaxSkew, MaxSkew}
    /\ aims \in {"us", "nobody", "other", "off"}
    /\ at \in Addr
    /\ net = {}
    /\ live = Never
    /\ silence = [a \in Addr |-> Forever]

-----------------------------------------------------------------------------
(* The replay window. *)

\* The two's complement reading of a number modulo ClockSize.
Signed(x) == IF x >= ClockSize \div 2 THEN x - ClockSize ELSE x

Magnitude(x) == IF x < 0 THEN -x ELSE x

IsNotTooOld(ts, now) == Signed((now - ts) % ClockSize) <= Window

\* is_within_replay_window.
IsWithinReplayWindow(ts, now) == Magnitude(Signed((now - ts) % ClockSize)) <= Window

OurClock == (clock + skew) % ClockSize

-----------------------------------------------------------------------------
Lesser(m, n) == IF m <= n THEN m ELSE n

\* broadcast_once; pairing broadcasts from the same device name nobody.
Beacons ==
    IF aims = "off" THEN {}
    ELSE {[from |-> "peer", to |-> aims, addr |-> at, ts |-> clock, age |-> 0]}

\* A device we are not paired with, at an address the peer once had.
StrangersBeacons ==
    {[from |-> "stranger", to |-> "us", addr |-> a, ts |-> clock, age |-> 0] : a \in Addr \ {at}}

Fits(S) == Cardinality(S) <= Room

Broadcast ==
    /\ aims # "off"
    /\ Fits(net \cup Beacons)
    /\ net' = net \cup Beacons
    /\ silence' = IF aims = "other" THEN silence ELSE [silence EXCEPT ![at] = 0]
    /\ UNCHANGED <<clock, skew, aims, at, live>>

StrangerBroadcasts ==
    /\ \E p \in StrangersBeacons : Fits(net \cup {p}) /\ net' = net \cup {p}
    /\ UNCHANGED <<clock, skew, aims, at, live, silence>>

\* A second passes everywhere.
Older(S) == {[p EXCEPT !.age = @ + 1] : p \in {q \in S : q.age < MaxDelay}}

Second ==
    /\ clock' = (clock + 1) % ClockSize
    /\ net' = Older(net)
    /\ live' = [live EXCEPT !.age = Lesser(@ + 1, StaleAfter + 1)]
    /\ silence' = [a \in Addr |-> Lesser(silence[a] + 1, Forever)]
    /\ UNCHANGED <<skew, aims, at>>

Lose ==
    /\ \E p \in net : net' = net \ {p}
    /\ UNCHANGED <<clock, skew, aims, at, live, silence>>

\* The peer gets a new lease, is turned off or on, pairs, is paired anew.
PeerChanges ==
    /\ \/ at' \in Addr /\ UNCHANGED aims
       \/ aims' \in {"us", "nobody", "other", "off"} /\ UNCHANGED at
    /\ UNCHANGED <<clock, skew, net, live, silence>>

\* The checks of handle_packet.
Accepts(p) ==
    /\ p.from = "peer"
    /\ p.to \in {"us", "nobody"}
    /\ IsWithinReplayWindow(p.ts, OurClock)

KeepsFirstAddress(p) ==
    [addr |-> IF live.addr = NoAddr THEN p.addr ELSE live.addr, age |-> 0]

\* The source address is taken, not one from the packet.
LivePeer(p) == [addr |-> p.addr, age |-> 0]

\* A packet may come again.
Receive(p) ==
    /\ p \in net
    /\ live' = IF Accepts(p) THEN LivePeer(p) ELSE live
    /\ net' \in {net, net \ {p}}
    /\ UNCHANGED <<clock, skew, aims, at, silence>>

BNext ==
    \/ Broadcast \/ StrangerBroadcasts \/ Second \/ Lose \/ PeerChanges
    \/ \E p \in net : Receive(p)

BSpec == BInit /\ [][BNext]_bvars

FreshBeacon == \E p \in net : p.from = "peer" /\ p.age = 0 /\ p.addr = at /\ Receive(p)

\* Time passes, and of the beacons that are sent again and again one arrives
\* at once now and then.
BFairSpec ==
    /\ BSpec
    /\ WF_bvars(Second)
    /\ SF_bvars(Broadcast)
    /\ SF_bvars(FreshBeacon)

\* current_peer_with_age, as both programs use it.
Present == live.addr # NoAddr /\ live.age <= StaleAfter

-----------------------------------------------------------------------------
\* However beacons are delayed, reordered and repeated, across the wrap of the
\* 32 bits, and whoever else broadcasts: a peer counts as present at an address
\* only if it has sent something for us from there lately.
PresenceIsEarned == Present => silence[live.addr] <= Longest

\* An old beacon may overwrite a newer address, but not for long: a peer that
\* stays where it is is found there in the end.
AddressHeals ==
    \A a \in Addr :
        <>[](aims = "us" /\ at = a) => <>[](live.addr = a)
=============================================================================
