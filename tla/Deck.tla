-------------------------------- MODULE Deck --------------------------------
(***************************************************************************)
(* The root daemon on the Steam Deck (network-deck daemon): the connection *)
(* state machine that binds the controller to usbip-host while the paired  *)
(* PC is heard and the user has not paused, the firewall rule and the      *)
(* sleep inhibitor that go with a binding, and the two control files it    *)
(* shares with the kiosk.                                                  *)
(*                                                                         *)
(* The main thread's tick is cut into one action per call that touches     *)
(* something outside the process, so that beacons, taps, signals and a     *)
(* SIGKILL fall between any two of them.  pc names the next call:          *)
(*                                                                         *)
(*   off -> boot -> listen -> loop -> pause -> connect -> firewall         *)
(*                             ^                  |          |             *)
(*                             |                  |       inhibit          *)
(*                             |                  v          |             *)
(*                             +-- publish <--- refresh <----+             *)
(*                                        \      |                         *)
(*                                         reinstall                       *)
(*                                                                         *)
(*   loop (term set) -> unbind -> unlock -> uninhibit -> clear -> off      *)
(***************************************************************************)
EXTENDS Integers

CONSTANTS
    Addr,             \* IPv4 addresses the peer may announce from
    NoAddr,           \* no address: no beacon yet, no firewall rule
    NoStatus,         \* status.json absent, or never written by this process
    BindErrorCount,   \* failures in a row before a diagnostic is published
    MaxFailures,      \* where the failure counter saturates (u32::MAX)
    Faults            \* the outside calls that may fail; "stale" is the
                      \* deletion of a leftover table before a new one

FaultKinds == {"bind", "unbind", "lock", "stale", "unlock", "inhibit", "status",
               "clear", "kill"}

ASSUME DeckConstants ==
    /\ NoAddr \notin Addr
    /\ BindErrorCount \in Nat \ {0}
    /\ MaxFailures \in Nat
    /\ BindErrorCount <= MaxFailures
    /\ Faults \subseteq FaultKinds

Statuses == [present : BOOLEAN, bound : BOOLEAN, paused : BOOLEAN,
             error : 0 .. MaxFailures]

ASSUME NoStatusIsNone == NoStatus \notin Statuses

\* The nft table: the peer its first DROP comes behind, and whether the rules
\* of a later install lie behind that DROP, where they have no effect.
Rule(ip) == [peer |-> ip, buried |-> FALSE]
NoTable  == Rule(NoAddr)
Tables   == {NoTable} \cup [peer : Addr, buried : BOOLEAN]

VARIABLES
    \* what outlives the process
    exported,         \* the controller is bound to usbip-host
    table,            \* the nft table, NoTable without one
    orphan,           \* a systemd-inhibit left behind by a killed daemon
    pausedFile,       \* <control_dir>/paused exists
    statusFile,       \* <control_dir>/status.json
    \* the process
    pc,               \* the main thread's next call
    term,             \* the signal flag
    addr,             \* Beacon.live: the address of the last accepted beacon
    fresh,            \* ... and that beacon is at most STALE_AFTER old
    beaconPresent,    \* this tick's sample of fresh
    paused,           \* this tick's sample of pausedFile
    state,            \* Connection.state
    failures,         \* Connection.consecutive_bind_failures
    peerLock,         \* Option<PeerLock>: the address it is pinned to
    newIp,            \* the address a refresh is about to install
    idleInhibit,      \* Option<IdleInhibit> is Some
    lastStatus        \* last_status

kernel  == <<exported, table, orphan>>
files   == <<pausedFile, statusFile>>
beacon  == <<addr, fresh>>
sample  == <<beaconPresent, paused>>
conn    == <<state, failures>>
guards  == <<peerLock, newIp, idleInhibit>>
memory  == <<term, beacon, sample, conn, guards, lastStatus>>
vars    == <<kernel, files, pc, memory>>

BootSteps     == {"boot", "listen"}
TickSteps     == {"loop", "pause", "connect", "firewall", "inhibit",
                  "refresh", "reinstall", "publish"}
ShutdownSteps == {"unbind", "unlock", "uninhibit", "clear"}
Running       == pc \in TickSteps \cup ShutdownSteps

-----------------------------------------------------------------------------
\* Fresh process memory, as the locals of run() are initialised.
MemoryIsFresh ==
    /\ term = FALSE
    /\ addr = NoAddr
    /\ fresh = FALSE
    /\ beaconPresent = FALSE
    /\ paused = FALSE
    /\ state = "Idle"
    /\ failures = 0
    /\ peerLock = NoAddr
    /\ newIp = NoAddr
    /\ idleInhibit = FALSE
    /\ lastStatus = NoStatus

Init ==
    /\ exported = FALSE
    /\ table = NoTable
    /\ orphan = FALSE
    /\ pausedFile \in BOOLEAN
    /\ statusFile = NoStatus
    /\ pc = "off"
    /\ MemoryIsFresh

Goto(step) == pc' = step

-----------------------------------------------------------------------------
(* Starting the process. *)

Start ==
    /\ pc = "off"
    /\ Goto("boot")
    /\ UNCHANGED <<kernel, files, memory>>

\* The memory of a process that has ended, or of one that has not begun.
MemoryIsCleared ==
    /\ term' = FALSE
    /\ addr' = NoAddr
    /\ fresh' = FALSE
    /\ beaconPresent' = FALSE
    /\ paused' = FALSE
    /\ state' = "Idle"
    /\ failures' = 0
    /\ peerLock' = NoAddr
    /\ newIp' = NoAddr
    /\ idleInhibit' = FALSE
    /\ lastStatus' = NoStatus

ProcessEnds == Goto("off") /\ MemoryIsCleared

\* What run() loads once and for all: identity and trust.  Any failure of the
\* boot exits with status 1.
LoadTrust ==
    /\ pc = "boot"
    /\ \/ Goto("listen") /\ UNCHANGED memory
       \/ ProcessEnds
    /\ UNCHANGED <<kernel, files>>

\* The rest of the boot: the controller's bus id, the UDP socket, the signal
\* handlers, the two threads.
Listen ==
    /\ pc = "listen"
    /\ \/ Goto("loop") /\ UNCHANGED memory
       \/ ProcessEnds
    /\ UNCHANGED <<kernel, files>>

Boot == LoadTrust \/ Listen

-----------------------------------------------------------------------------
(* The tick. *)

SamplesAnyway ==
    /\ pc = "loop"
    /\ beaconPresent' = fresh
    /\ Goto("pause")
    /\ UNCHANGED <<kernel, files, term, beacon, paused, conn, guards, lastStatus>>

\* The loop head: leave on a signal, else sample the age of the last beacon.
SampleBeacon ==
    /\ pc = "loop"
    /\ ~term
    /\ beaconPresent' = fresh
    /\ Goto("pause")
    /\ UNCHANGED <<kernel, files, term, beacon, paused, conn, guards, lastStatus>>

SamplePaused ==
    /\ pc = "pause"
    /\ paused' = pausedFile
    /\ Goto("connect")
    /\ UNCHANGED <<kernel, files, term, beacon, beaconPresent, conn, guards, lastStatus>>

IgnoresPause == beaconPresent

GivesUp == beaconPresent /\ ~paused /\ failures < BindErrorCount

EffectivePeerPresent == beaconPresent /\ ~paused

PlainSum(a, b) == a

Min2(a, b) == IF a < b THEN a ELSE b

KeepsFailures(n) == n

FailuresAfterBind(n) == 0

\* Connection::tick, Idle with a peer: run `usbip bind`.  On a device that is
\* already bound to usbip-host the command may go either way.
BindSucceeds ==
    /\ pc = "connect"
    /\ state = "Idle"
    /\ EffectivePeerPresent
    /\ exported' = TRUE
    /\ state' = "Bound"
    /\ failures' = FailuresAfterBind(failures)
    /\ Goto("firewall")
    /\ UNCHANGED <<table, orphan, files, term, beacon, sample, guards, lastStatus>>

BindFails ==
    /\ pc = "connect"
    /\ state = "Idle"
    /\ EffectivePeerPresent
    /\ exported \/ "bind" \in Faults
    /\ failures' = Min2(failures + 1, MaxFailures)
    /\ Goto("refresh")
    /\ UNCHANGED <<kernel, files, term, beacon, sample, state, guards, lastStatus>>

\* The unbind half of Connection::tick: the exit status of `usbip unbind` is
\* dropped, the state is Idle whatever the command did.
RunUnbind ==
    /\ \/ exported' = FALSE
       \/ "unbind" \in Faults /\ UNCHANGED exported
    /\ state' = "Idle"
    /\ UNCHANGED <<table, orphan, failures>>

TickUnbinds ==
    /\ pc = "connect"
    /\ state = "Bound"
    /\ ~EffectivePeerPresent
    /\ RunUnbind
    /\ Goto("firewall")
    /\ UNCHANGED <<files, term, beacon, sample, guards, lastStatus>>

TickKeepsState ==
    /\ pc = "connect"
    /\ (state = "Bound") <=> EffectivePeerPresent
    /\ Goto("refresh")
    /\ UNCHANGED <<kernel, files, memory>>

-----------------------------------------------------------------------------
(* The firewall rule. *)

\* An install that fails is taken for one that worked.
RemembersFailed(ip) ==
    /\ peerLock' = ip
    /\ table' \in {Rule(ip)} \cup IF "lock" \in Faults THEN {NoTable} ELSE {}

\* The nft commands of an install that succeeds: delete a leftover table, load
\* the new one.  A deletion that fails is ignored; nft adds what it then loads
\* to the table that is still there.
Loaded(ip) ==
    {Rule(ip)} \cup
    IF "stale" \in Faults /\ table # NoTable THEN {[table EXCEPT !.buried = TRUE]} ELSE {}

\* PeerLock::install.  `*peer_lock = lock` drops the previous lock, if there
\* was one, and with it the table both share.
InstallLock(ip) ==
    \/ /\ peerLock' = ip
       /\ \E loaded \in Loaded(ip) :
             table' = IF peerLock = NoAddr THEN loaded ELSE NoTable
    \/ /\ "lock" \in Faults
       /\ table' \in {table, NoTable}
       /\ UNCHANGED peerLock

\* Drop for PeerLock; a failed `nft delete table` is only logged.
DropLock ==
    /\ peerLock' = NoAddr
    /\ \/ table' = IF peerLock = NoAddr THEN table ELSE NoTable
       \/ "unlock" \in Faults /\ UNCHANGED table

KeepsLock == UNCHANGED <<peerLock, table>>

\* What Action::Unbind does to the lock.
LockOnUnbind == DropLock

\* apply_firewall.  The action conn.tick returned is Bind iff it left the
\* connection Bound.  current_peer_ipv4 reads the live slot again.
ApplyFirewall ==
    /\ pc = "firewall"
    /\ \/ state = "Bound" /\ addr # NoAddr /\ InstallLock(addr)
       \/ state = "Bound" /\ addr = NoAddr /\ UNCHANGED <<peerLock, table>>
       \/ state = "Idle" /\ LockOnUnbind
    /\ Goto("inhibit")
    /\ UNCHANGED <<exported, orphan, files, term, beacon, sample, conn, newIp,
                   idleInhibit, lastStatus>>

\* What Action::Unbind does to the inhibitor.
InhibitOnUnbind == idleInhibit' = FALSE

\* apply_inhibit: acquire may return None.
ApplyInhibit ==
    /\ pc = "inhibit"
    /\ \/ state = "Bound" /\ idleInhibit' = TRUE
       \/ state = "Bound" /\ "inhibit" \in Faults /\ idleInhibit' = FALSE
       \/ state = "Idle" /\ InhibitOnUnbind
    /\ Goto("refresh")
    /\ UNCHANGED <<kernel, files, term, beacon, sample, conn, peerLock, newIp, lastStatus>>

NeverMoves == FALSE

\* The peer's address changed under a lock that is held.
PeerMoved ==
    /\ state = "Bound"
    /\ peerLock # NoAddr
    /\ addr # NoAddr
    /\ addr # peerLock

RefreshKeepsOld ==
    /\ pc = "refresh"
    /\ PeerMoved
    /\ newIp' = addr
    /\ Goto("reinstall")
    /\ UNCHANGED <<kernel, files, term, beacon, sample, conn, peerLock,
                   idleInhibit, lastStatus>>

\* The refresh drops the old lock before it installs the new one.
RefreshDrops ==
    /\ pc = "refresh"
    /\ PeerMoved
    /\ newIp' = addr
    /\ DropLock
    /\ Goto("reinstall")
    /\ UNCHANGED <<exported, orphan, files, term, beacon, sample, conn, idleInhibit, lastStatus>>

RefreshNotNeeded ==
    /\ pc = "refresh"
    /\ ~PeerMoved
    /\ Goto("publish")
    /\ UNCHANGED <<kernel, files, memory>>

RefreshInstalls ==
    /\ pc = "reinstall"
    /\ InstallLock(newIp)
    /\ newIp' = NoAddr
    /\ Goto("publish")
    /\ UNCHANGED <<exported, orphan, files, term, beacon, sample, conn, idleInhibit, lastStatus>>

-----------------------------------------------------------------------------
(* The status file. *)

\* bind_error::from_failure_count: the message names the count, 0 is None.
BindError(n) == IF n >= BindErrorCount THEN n ELSE 0

CurrentStatus == [present |-> beaconPresent, bound |-> state = "Bound",
                  paused |-> paused, error |-> BindError(failures)]

StatusUnchanged ==
    /\ pc = "publish"
    /\ lastStatus = CurrentStatus
    /\ Goto("loop")
    /\ UNCHANGED <<kernel, files, memory>>

\* write_status: temporary file and rename, so a reader sees old or new.
StatusWritten ==
    /\ pc = "publish"
    /\ lastStatus # CurrentStatus
    /\ statusFile' = CurrentStatus
    /\ lastStatus' = CurrentStatus
    /\ Goto("loop")
    /\ UNCHANGED <<kernel, pausedFile, term, beacon, sample, conn, guards>>

RemembersUnwritten == lastStatus' = CurrentStatus

\* On an error last_status keeps its value, so the next tick tries again.
LastStatusOnError == UNCHANGED lastStatus

StatusWriteFails ==
    /\ pc = "publish"
    /\ lastStatus # CurrentStatus
    /\ "status" \in Faults
    /\ LastStatusOnError
    /\ Goto("loop")
    /\ UNCHANGED <<kernel, files, term, beacon, sample, conn, guards>>

-----------------------------------------------------------------------------
(* Shutdown: after the loop, in this order. *)

SeesTerm ==
    /\ pc = "loop"
    /\ term
    /\ Goto("unbind")
    /\ UNCHANGED <<kernel, files, memory>>

ForgetsToUnbind == UNCHANGED <<kernel, conn>>

\* conn.tick(false) once more.
FinalTick ==
    IF state = "Bound" THEN RunUnbind ELSE UNCHANGED <<kernel, conn>>

ShutdownUnbinds ==
    /\ pc = "unbind"
    /\ FinalTick
    /\ Goto("unlock")
    /\ UNCHANGED <<files, term, beacon, sample, guards, lastStatus>>

ShutdownUnlocks ==
    /\ pc = "unlock"
    /\ DropLock
    /\ Goto("uninhibit")
    /\ UNCHANGED <<exported, orphan, files, term, beacon, sample, conn, newIp,
                   idleInhibit, lastStatus>>

ShutdownUninhibits ==
    /\ pc = "uninhibit"
    /\ idleInhibit' = FALSE
    /\ Goto("clear")
    /\ UNCHANGED <<kernel, files, term, beacon, sample, conn, peerLock, newIp, lastStatus>>

ShutdownClears ==
    /\ pc = "clear"
    /\ \/ statusFile' = NoStatus
       \/ "clear" \in Faults /\ UNCHANGED statusFile
    /\ ProcessEnds
    /\ UNCHANGED <<kernel, pausedFile>>

-----------------------------------------------------------------------------
(* The recv thread: Beacon::handle_packet accepted a packet from a; or     *)
(* STALE_AFTER went by without one.  The thread tests term only between    *)
(* two receives, so a packet may still be handled after the signal.        *)

HandleBeacon(a) ==
    /\ Running
    /\ addr' = a
    /\ fresh' = TRUE
    /\ UNCHANGED <<kernel, files, pc, term, sample, conn, guards, lastStatus>>

ForgetsStalePeer ==
    /\ fresh
    /\ fresh' = FALSE
    /\ addr' = NoAddr
    /\ UNCHANGED <<kernel, files, pc, term, sample, conn, guards, lastStatus>>

BeaconGoesStale ==
    /\ fresh
    /\ fresh' = FALSE
    /\ UNCHANGED <<kernel, files, pc, term, addr, sample, conn, guards, lastStatus>>

-----------------------------------------------------------------------------
(* The users of the process. *)

\* The kiosk's big button: the target comes from the status the frame read.
KioskToggle ==
    /\ statusFile # NoStatus
    /\ pausedFile' = ~statusFile.paused
    /\ UNCHANGED <<kernel, statusFile, pc, memory>>

\* Vol+ and Vol-, handled by the listener thread of the daemon itself.
HotkeyToggle ==
    /\ Running
    /\ pausedFile' = ~pausedFile
    /\ UNCHANGED <<kernel, statusFile, pc, memory>>

\* SIGTERM, SIGINT, SIGHUP.  Before the handlers are registered the default
\* disposition ends the process, which holds nothing yet.
Terminate ==
    /\ ~term
    /\ \/ Running /\ term' = TRUE /\ UNCHANGED pc
       \/ pc = "listen" /\ term' = TRUE /\ UNCHANGED pc
       \/ pc \in BootSteps /\ Goto("off") /\ UNCHANGED term
    /\ UNCHANGED <<kernel, files, beacon, sample, conn, guards, lastStatus>>

\* SIGKILL: no destructor runs; the inhibitor is in a session of its own.
Kill ==
    /\ "kill" \in Faults
    /\ pc # "off"
    /\ ProcessEnds
    /\ orphan' = (orphan \/ idleInhibit)
    /\ UNCHANGED <<exported, table, files>>

-----------------------------------------------------------------------------
Tick ==
    \/ SampleBeacon \/ SamplePaused
    \/ BindSucceeds \/ BindFails \/ TickUnbinds \/ TickKeepsState
    \/ ApplyFirewall \/ ApplyInhibit
    \/ RefreshDrops \/ RefreshNotNeeded \/ RefreshInstalls
    \/ StatusUnchanged \/ StatusWritten \/ StatusWriteFails

Shutdown ==
    \/ SeesTerm \/ ShutdownUnbinds \/ ShutdownUnlocks
    \/ ShutdownUninhibits \/ ShutdownClears

MainThread == Boot \/ Tick \/ Shutdown

RecvThread == (\E a \in Addr : HandleBeacon(a)) \/ BeaconGoesStale

Users == Start \/ KioskToggle \/ HotkeyToggle \/ Terminate \/ Kill

Next == MainThread \/ RecvThread \/ Users

Spec == Init /\ [][Next]_vars

\* The main thread is scheduled; the outside calls that fail do not fail for
\* ever.  Nothing is assumed of beacons, taps, signals or of a restart.
FairSpec ==
    /\ Spec
    /\ WF_vars(MainThread)
    /\ SF_vars(StatusWritten)
    /\ SF_vars(BindSucceeds)

-----------------------------------------------------------------------------
(* Invariants. *)

TypeOK ==
    /\ exported \in BOOLEAN
    /\ table \in Tables
    /\ orphan \in BOOLEAN
    /\ pausedFile \in BOOLEAN
    /\ statusFile \in Statuses \cup {NoStatus}
    /\ pc \in {"off"} \cup BootSteps \cup TickSteps \cup ShutdownSteps
    /\ term \in BOOLEAN
    /\ addr \in Addr \cup {NoAddr}
    /\ fresh \in BOOLEAN
    /\ beaconPresent \in BOOLEAN
    /\ paused \in BOOLEAN
    /\ state \in {"Idle", "Bound"}
    /\ failures \in 0 .. MaxFailures
    /\ peerLock \in Addr \cup {NoAddr}
    /\ newIp \in Addr \cup {NoAddr}
    /\ idleInhibit \in BOOLEAN
    /\ lastStatus \in Statuses \cup {NoStatus}

\* While the daemon believes it holds a lock there is a rule in the kernel,
\* and it is the daemon's unless the daemon's lies buried behind an older one:
\* no order of bind, refresh and unbind lets the drop of an older PeerLock take
\* the table of a newer one with it (daemon.rs, apply_firewall and refresh),
\* and what a killed daemon left is replaced, not kept.
LockIsInstalled ==
    peerLock # NoAddr => table.peer # NoAddr /\ (table.peer = peerLock \/ table.buried)

\* A tick that ends Bound ends with the firewall pinned and the Deck kept
\* awake, when those two calls work; the address read by apply_firewall, not
\* the one that made beacon_present true, is what gets pinned.
BoundIsGuarded ==
    pc \in {"publish", "loop", "pause"} /\ state = "Bound"
        => /\ "lock" \notin Faults => peerLock # NoAddr
           /\ "inhibit" \notin Faults => idleInhibit

\* Lock and inhibitor are never held by an Idle daemon, except between the
\* unbind and the calls that release them.
GuardsEndWithBinding ==
    state = "Idle" =>
        /\ peerLock # NoAddr => pc \in {"firewall", "unlock"}
        /\ idleInhibit => pc \in {"firewall", "inhibit", "unlock", "uninhibit"}

\* What the kiosk shows is one coherent tick: never Bound together with
\* paused, with an absent peer or with a bind error, even though the flag and
\* the beacon may have changed since and a file may survive its writer.
StatusIsCoherent ==
    statusFile # NoStatus /\ statusFile.bound =>
        statusFile.present /\ ~statusFile.paused /\ statusFile.error = 0

\* The daemon skips the write only when the file already says so: last_status
\* never runs ahead of the disk, whichever writes failed.
LastStatusIsOnDisk == lastStatus # NoStatus => statusFile = lastStatus

\* With nobody killing it and no cleanup call failing, a daemon that is gone
\* has handed the controller back and left no rule, inhibitor or status file,
\* wherever in the tick or in the boot the signal found it.
NothingLeftBehind ==
    pc = "off" /\ Faults \cap {"kill", "unbind", "unlock", "clear"} = {} =>
        ~exported /\ table = NoTable /\ ~orphan /\ statusFile = NoStatus

-----------------------------------------------------------------------------
(* Liveness. *)

\* Pausing hands the controller back (the pause button, the hotkey), unless
\* the user resumes or the daemon goes away first.
PauseReleases ==
    (pausedFile /\ exported /\ Running) ~> (~exported \/ ~pausedFile \/ ~Running)

\* As long as a daemon runs, the file keeps catching up with the tick.
StatusCatchesUp == []<>(~Running \/ statusFile = CurrentStatus)

\* Once the peer keeps one address, a held lock ends up pinned to it.
PinFollowsPeer ==
    \A a \in Addr : <>[](addr = a /\ state = "Bound") => <>[](peerLock \in {NoAddr, a})

\* A peer that keeps being heard while nothing is paused gets the controller,
\* however many binds failed before, without a restart.
BindRecovers ==
    <>[](Running /\ ~term /\ fresh /\ ~pausedFile) => <>[](state = "Bound")
=============================================================================
