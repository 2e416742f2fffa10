-------------------------------- MODULE Attach --------------------------------
(***************************************************************************)
(* The Windows tray program (client-win): the attach state machine, the    *)
(* usbip.exe driver with its cached port list, and the main loop that      *)
(* drains the tray menu, samples the beacon, ticks the state machine and   *)
(* repaints the tooltip.  The Deck, the network and the vhci driver are    *)
(* the environment.                                                        *)
(*                                                                         *)
(*   off -> boot -> events -> tick -> attach                               *)
(*           |        ^ |       |       |                                  *)
(*        firstrun    | +-> pairing, forget                                *)
(*                    |         |       |                                  *)
(*                  sleep <-- paint <---+                                  *)
(*                                                                         *)
(* Time is counted in loop periods; it passes in the sleep and while a     *)
(* dialog is open, never inside a call to usbip.exe.                       *)
(***************************************************************************)
EXTENDS Integers

CONSTANTS
    Host,           \* addresses the Deck may have
    NoHost,
    BaseBackoff,    \* delays and ages, in loop periods
    MaxBackoff,
    CacheTtl,
    Faults          \* the calls that may fail

ASSUME AttachConstants ==
    /\ NoHost \notin Host
    /\ Host \cap {"none", "searching", "connected", "paused", "pairing"} = {}
    /\ BaseBackoff \in Nat \ {0}
    /\ MaxBackoff \in Nat
    /\ BaseBackoff <= MaxBackoff
    /\ CacheTtl \in Nat \ {0}
    /\ CacheTtl < MaxBackoff
    /\ Faults \subseteq {"list", "attach", "port", "bind"}

\* A host stands for the text "connecting (<host>)", "none" for no text yet.
Tooltips == Host \cup {"none", "searching", "connected", "paused", "pairing"}

VARIABLES
    \* the environment
    home,           \* the Deck's address
    exporting,      \* usbipd on the Deck offers the controller
    link,           \* the address the vhci driver is connected to, or NoHost
    trusted,        \* trusted-peers.toml holds a Deck
    \* the process
    pc,             \* where the main thread is
    recv,           \* the recv thread owns the beacon socket
    addr, fresh,    \* Beacon.live: last address, and age <= STALE_AFTER
    paused,         \* the tray's Disconnect
    heard, host,    \* this period's current_peer_with_age
    state,          \* Attach.state
    backoff,        \* Attach.backoff
    sinceAttempt,   \* age of Attach.last_attempt, MaxBackoff when older or None
    cached,         \* CliDriver.port_cache lists the controller
    cacheAge,       \* its age, CacheTtl when older or None
    shown,          \* the tray's tooltip
    lastTooltip     \* last_tooltip

deck    == <<home, exporting>>
world   == <<deck, link, trusted>>
beacon  == <<addr, fresh>>
sample  == <<heard, host>>
machine == <<state, backoff, sinceAttempt>>
cache   == <<cached, cacheAge>>
tray    == <<shown, lastTooltip>>
memory  == <<recv, beacon, paused, sample, machine, cache, tray>>
vars    == <<world, pc, memory>>

Least(a, b) == IF a < b THEN a ELSE b

Goto(step) == pc' = step

Running == pc \in {"events", "tick", "attach", "paint", "sleep", "pairing", "forget"}

-----------------------------------------------------------------------------
FreshMemory ==
    /\ recv = FALSE
    /\ addr = NoHost
    /\ fresh = FALSE
    /\ paused = FALSE
    /\ heard = FALSE
    /\ host = NoHost
    /\ state = "Idle"
    /\ backoff = BaseBackoff
    /\ sinceAttempt = MaxBackoff
    /\ cached = FALSE
    /\ cacheAge = CacheTtl
    /\ shown = "searching"
    /\ lastTooltip = "none"

Init ==
    /\ home \in Host
    /\ exporting = FALSE
    /\ link = NoHost
    /\ trusted \in BOOLEAN
    /\ pc = "off"
    /\ FreshMemory

\* The process ends or starts over; its memory goes, the vhci link stays.
NewProcess(step) ==
    /\ Goto(step)
    /\ recv' = FALSE
    /\ addr' = NoHost
    /\ fresh' = FALSE
    /\ paused' = FALSE
    /\ heard' = FALSE
    /\ host' = NoHost
    /\ state' = "Idle"
    /\ backoff' = BaseBackoff
    /\ sinceAttempt' = MaxBackoff
    /\ cached' = FALSE
    /\ cacheAge' = CacheTtl
    /\ shown' = "searching"
    /\ lastTooltip' = "none"

-----------------------------------------------------------------------------
(* Starting. *)

Launch ==
    /\ pc = "off"
    /\ Goto("boot")
    /\ UNCHANGED <<world, memory>>

\* run_normal up to the loop: usbip-win2, the trust file, the socket.
BootRuns ==
    /\ pc = "boot"
    /\ trusted
    /\ recv' = TRUE
    /\ Goto("events")
    /\ UNCHANGED <<world, beacon, paused, sample, machine, cache, tray>>

BootPairs ==
    /\ pc = "boot"
    /\ ~trusted
    /\ Goto("firstrun")
    /\ UNCHANGED <<world, memory>>

BootFails ==
    /\ pc = "boot"
    /\ "bind" \in Faults
    /\ Goto("off")
    /\ UNCHANGED <<world, memory>>

\* first_run_pair: re-exec when paired, exit(1) otherwise.
FirstRunEnds ==
    /\ pc = "firstrun"
    /\ \/ trusted' = TRUE /\ Goto("boot")
       \/ Goto("off") /\ UNCHANGED trusted
    /\ UNCHANGED <<deck, link, memory>>

-----------------------------------------------------------------------------
(* The tray menu, drained at the head of every period. *)

Connect ==
    /\ pc = "events"
    /\ paused' = FALSE
    /\ UNCHANGED <<world, pc, recv, beacon, sample, machine, cache, tray>>

Disconnect ==
    /\ pc = "events"
    /\ paused' = TRUE
    /\ UNCHANGED <<world, pc, recv, beacon, sample, machine, cache, tray>>

\* The pair dialog takes the socket from the recv thread.
OpenPair ==
    /\ pc = "events"
    /\ shown' = "pairing"
    /\ recv' = FALSE
    /\ Goto("pairing")
    /\ UNCHANGED <<world, beacon, paused, sample, machine, cache, lastTooltip>>

\* Paired: re-exec.
PairDone ==
    /\ pc = "pairing"
    /\ NewProcess("boot")
    /\ UNCHANGED world

\* Not paired: bind 49152 again.  The tooltip is set without telling
\* last_tooltip.
PairEndsWithout ==
    /\ pc = "pairing"
    /\ recv' = TRUE
    /\ shown' = "searching"
    /\ Goto("events")
    /\ UNCHANGED <<world, beacon, paused, sample, machine, cache, lastTooltip>>

RebindFails ==
    /\ pc = "pairing"
    /\ "bind" \in Faults
    /\ NewProcess("off")
    /\ UNCHANGED world

OpenForget ==
    /\ pc = "events"
    /\ Goto("forget")
    /\ UNCHANGED <<world, memory>>

\* Cancelled, or the trust file could not be removed.
ForgetRefused ==
    /\ pc = "forget"
    /\ Goto("events")
    /\ UNCHANGED <<world, memory>>

ForgetDone ==
    /\ pc = "forget"
    /\ trusted' = FALSE
    /\ NewProcess("boot")
    /\ UNCHANGED <<deck, link>>

Quit ==
    /\ pc = "events"
    /\ NewProcess("off")
    /\ UNCHANGED world

\* No event left: sample the beacon and go on to the state machine.
Drained ==
    /\ pc = "events"
    /\ heard' = fresh
    /\ host' = addr
    /\ Goto("tick")
    /\ UNCHANGED <<world, recv, beacon, paused, machine, cache, tray>>

-----------------------------------------------------------------------------
(* Attach::tick. *)

PeerPresent == heard /\ ~paused

Due == PeerPresent /\ host # NoHost /\ sinceAttempt >= backoff

DoublesForEver(b) == 2 * b

BumpBackoff(b) == Least(2 * b, MaxBackoff)

IdleWaits ==
    /\ pc = "tick"
    /\ state = "Idle"
    /\ ~Due
    /\ Goto("paint")
    /\ UNCHANGED <<world, memory>>

\* usbipd lists a controller that is exported and not in use.
Offered(h) == h = home /\ exporting /\ link = NoHost

DiscoverSucceeds ==
    /\ pc = "tick"
    /\ state = "Idle"
    /\ Due
    /\ Offered(host)
    /\ sinceAttempt' = 0
    /\ Goto("attach")
    /\ UNCHANGED <<world, recv, beacon, paused, sample, state, backoff, cache, tray>>

DiscoverFails ==
    /\ pc = "tick"
    /\ state = "Idle"
    /\ Due
    /\ ~Offered(host) \/ "list" \in Faults
    /\ sinceAttempt' = 0
    /\ backoff' = BumpBackoff(backoff)
    /\ Goto("paint")
    /\ UNCHANGED <<world, recv, beacon, paused, sample, state, cache, tray>>

KeepsCache == UNCHANGED cacheAge

\* The driver forgets the port list before it runs `usbip attach`.
DropCache == cacheAge' = CacheTtl

ResetBackoff == backoff' = BaseBackoff

AttachSucceeds ==
    /\ pc = "attach"
    /\ Offered(host)
    /\ DropCache
    /\ link' = host
    /\ state' = "Attached"
    /\ ResetBackoff
    /\ Goto("paint")
    /\ UNCHANGED <<deck, trusted, recv, beacon, paused, sample, sinceAttempt, cached, tray>>

AttachFails ==
    /\ pc = "attach"
    /\ ~Offered(host) \/ "attach" \in Faults
    /\ DropCache
    /\ backoff' = BumpBackoff(backoff)
    /\ Goto("paint")
    /\ UNCHANGED <<world, recv, beacon, paused, sample, state, sinceAttempt, cached, tray>>

NeverAsksAgain(listed) ==
    IF cacheAge < CacheTtl THEN listed = cached
    ELSE listed \in {link # NoHost, cached}

\* ported_busids: the cached list while it is young, else `usbip port`; a
\* failed call reads as an empty list.
Ported(listed) ==
    IF cacheAge < CacheTtl THEN listed = cached
    ELSE \/ listed = (link # NoHost)
         \/ "port" \in Faults /\ listed = FALSE

RefreshCache(listed) ==
    /\ cached' = listed
    /\ cacheAge' = IF cacheAge < CacheTtl THEN cacheAge ELSE 0

\* Attached: one look at the port list; an unheard peer or a list without the
\* controller ends the attachment.  Nothing is detached.
CheckPort ==
    /\ pc = "tick"
    /\ state = "Attached"
    /\ \E listed \in BOOLEAN :
          /\ Ported(listed)
          /\ RefreshCache(listed)
          /\ state' = IF PeerPresent /\ listed THEN "Attached" ELSE "Idle"
    /\ Goto("paint")
    /\ UNCHANGED <<world, recv, beacon, paused, sample, backoff, sinceAttempt, tray>>

-----------------------------------------------------------------------------
(* The rest of the period. *)

Tooltip ==
    CASE state = "Attached"                     -> "connected"
      [] state = "Idle" /\ heard                -> host
      [] state = "Idle" /\ ~heard /\ paused     -> "paused"
      [] state = "Idle" /\ ~heard /\ ~paused    -> "searching"

Paint ==
    /\ pc = "paint"
    /\ lastTooltip' = Tooltip
    /\ shown' = IF lastTooltip # Tooltip THEN Tooltip ELSE shown
    /\ Goto("sleep")
    /\ UNCHANGED <<world, recv, beacon, paused, sample, machine, cache>>

ClocksAdvance ==
    /\ sinceAttempt' = Least(sinceAttempt + 1, MaxBackoff)
    /\ cacheAge' = Least(cacheAge + 1, CacheTtl)

Sleep ==
    /\ pc = "sleep"
    /\ ClocksAdvance
    /\ Goto("events")
    /\ UNCHANGED <<world, recv, beacon, paused, sample, state, backoff, cached, tray>>

\* Time passes under a dialog.
DialogWaits ==
    /\ pc \in {"pairing", "forget"}
    /\ ClocksAdvance
    /\ UNCHANGED <<world, pc, recv, beacon, paused, sample, state, backoff, cached, tray>>

-----------------------------------------------------------------------------
(* The recv thread, the Deck and the network. *)

HandleBeacon ==
    /\ recv
    /\ addr' = home
    /\ fresh' = TRUE
    /\ UNCHANGED <<world, pc, recv, paused, sample, machine, cache, tray>>

BeaconGoesStale ==
    /\ fresh
    /\ fresh' = FALSE
    /\ UNCHANGED <<world, pc, recv, addr, paused, sample, machine, cache, tray>>

DeckBinds ==
    /\ ~exporting
    /\ exporting' = TRUE
    /\ UNCHANGED <<home, link, trusted, pc, memory>>

DeckUnbinds ==
    /\ exporting
    /\ exporting' = FALSE
    /\ UNCHANGED <<home, link, trusted, pc, memory>>

DeckMoves ==
    /\ \E h \in Host \ {home} : home' = h
    /\ UNCHANGED <<exporting, link, trusted, pc, memory>>

\* The TCP connection of the vhci link breaks.
LinkDrops ==
    /\ link # NoHost
    /\ link' = NoHost
    /\ UNCHANGED <<deck, trusted, pc, memory>>

-----------------------------------------------------------------------------
Period ==
    \/ Drained \/ IdleWaits \/ DiscoverSucceeds \/ DiscoverFails
    \/ AttachSucceeds \/ AttachFails \/ CheckPort \/ Paint \/ Sleep

Dialogs == PairDone \/ PairEndsWithout \/ RebindFails \/ ForgetRefused \/ ForgetDone
           \/ DialogWaits \/ FirstRunEnds

Boot == BootRuns \/ BootPairs \/ BootFails

User == Launch \/ Connect \/ Disconnect \/ OpenPair \/ OpenForget \/ Quit

Environment == HandleBeacon \/ BeaconGoesStale \/ DeckBinds \/ DeckUnbinds
               \/ DeckMoves \/ LinkDrops

Next == Period \/ Dialogs \/ Boot \/ User \/ Environment

Spec == Init /\ [][Next]_vars

\* The main thread is scheduled and does not drain clicks for ever; a dialog
\* is closed some day; calls that may fail do not always fail.
Fairness ==
    /\ WF_vars(Period)
    /\ SF_vars(Drained)
    /\ WF_vars(PairDone \/ PairEndsWithout \/ RebindFails)
    /\ WF_vars(ForgetRefused \/ ForgetDone)
    /\ SF_vars(DiscoverSucceeds)
    /\ SF_vars(AttachSucceeds)

FairSpec == Spec /\ Fairness

-----------------------------------------------------------------------------
(* Properties. *)

TypeOK ==
    /\ home \in Host
    /\ exporting \in BOOLEAN
    /\ link \in Host \cup {NoHost}
    /\ trusted \in BOOLEAN
    /\ pc \in {"off", "boot", "firstrun", "events", "tick", "attach", "paint",
               "sleep", "pairing", "forget"}
    /\ recv \in BOOLEAN
    /\ addr \in Host \cup {NoHost}
    /\ fresh \in BOOLEAN
    /\ fresh => addr # NoHost
    /\ paused \in BOOLEAN
    /\ heard \in BOOLEAN
    /\ host \in Host \cup {NoHost}
    /\ heard => host # NoHost
    /\ state \in {"Idle", "Attached"}
    /\ backoff \in BaseBackoff .. MaxBackoff
    /\ sinceAttempt \in 0 .. MaxBackoff
    /\ cached \in BOOLEAN
    /\ cacheAge \in 0 .. CacheTtl
    /\ shown \in Tooltips
    /\ lastTooltip \in Tooltips

\* The state machine gives an attachment up only for a reason it can name: the
\* peer fell silent, the user disconnected, the link really is gone, or the
\* `usbip port` it ran just now failed.  Neither a port list cached before the
\* attach nor the empty list of an earlier failure must do it.
GivesUpForAReason ==
    [][state = "Attached" /\ state' = "Idle" /\ Running'
         => \/ ~PeerPresent
            \/ link = NoHost
            \/ "port" \in Faults /\ cacheAge = CacheTtl]_vars

\* A Deck that keeps being heard at its address, keeps offering the controller
\* and is not disconnected in the tray is attached again and again, whatever
\* failed before: no state of the backoff, the cache or the dialogs is final.
Reattaches ==
    <>[](Running /\ pc \notin {"pairing", "forget"} /\ fresh /\ addr = home
            /\ exporting /\ ~paused)
        => []<>(link # NoHost)
=============================================================================
