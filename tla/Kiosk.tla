------------------------------- MODULE Kiosk -------------------------------
(***************************************************************************)
(* The kiosk (the GUI of network-deck on the Deck), the daemons it starts, *)
(* and the command line next to them.  The kiosk decides when the daemon   *)
(* of module Deck may start, writes the pause flag, signals and, past its  *)
(* grace windows, kills the daemon, and owns the trust file the daemon     *)
(* needs to boot.                                                          *)
(*                                                                         *)
(*   closed -> pair -> closed            (no trust file: pair, relaunch)   *)
(*   closed -> main -> stopping -> closed                                  *)
(*                        |           ^                                    *)
(*                        v           |                                    *)
(*                     dropping ------+                                    *)
(*                                                                         *)
(* stopping polls the daemon frame by frame; dropping is DaemonChild's     *)
(* Drop, entered when the grace window ends or the user closes again.      *)
(*                                                                         *)
(* The variables of Deck are those of the daemon in hand, the one started  *)
(* last.  A daemon whose sudo was killed over its head is nobody's child;  *)
(* told to stop, it lets go of port 49152 with its recv thread and may     *)
(* still be at work when the next daemon boots.  That older process is the *)
(* elder, with the same code and the same kernel and files.  Bound: one    *)
(* elder at a time.                                                        *)
(***************************************************************************)
EXTENDS Deck

CONSTANTS
    Mishaps,          \* the calls and grace windows of the kiosk that fail
    ElderAt           \* the steps at which a daemon can become the elder

MishapKinds == {"spawn", "forget", "grace", "drop", "refused", "external"}

ASSUME KioskConstants ==
    /\ Mishaps \subseteq MishapKinds
    /\ ElderAt \subseteq TickSteps \cup ShutdownSteps

VARIABLES
    screen,           \* what update() draws; "closed" without a window
    child,            \* DaemonChild: "none", "alive", "immune" or "exited"
    trust,            \* trusted-peers.toml exists
    armed,            \* unpair_pending: the first Forget tap counts
    company,          \* the daemon in hand has had an elder beside it
    \* the elder's memory; it was told to stop, and its recv thread has ended
    epc, eaddr, ebeaconPresent, epaused, estate, efailures,
    epeerLock, enewIp, eidleInhibit, elastStatus

elder == <<epc, eaddr, ebeaconPresent, epaused, estate, efailures,
           epeerLock, enewIp, eidleInhibit, elastStatus>>
older == <<company, elder>>
kvars == <<vars, screen, child, trust, armed, older>>

Elder == INSTANCE Deck WITH
    pc <- epc, term <- (epc # "off"), addr <- eaddr, fresh <- (eaddr \in {}),
    beaconPresent <- ebeaconPresent, paused <- epaused, state <- estate,
    failures <- efailures, peerLock <- epeerLock, newIp <- enewIp,
    idleInhibit <- eidleInhibit, lastStatus <- elastStatus

KInit ==
    /\ Init
    /\ screen = "closed"
    /\ child = "none"
    /\ trust \in BOOLEAN
    /\ armed = FALSE
    /\ company = FALSE
    /\ epc = "off"
    /\ Elder!MemoryIsFresh

\* The waiter thread has not returned.  An immune child is a root sudo or
\* pkexec that refuses the kiosk's signals; kill()'s result is not looked at.
Living == child \in {"alive", "immune"}

-----------------------------------------------------------------------------
(* Spawning. *)

Spawned == child' \in IF "refused" \in Mishaps THEN {"alive", "immune"} ELSE {"alive"}

StartsAnyway ==
    /\ Spawned
    /\ Goto("boot")
    /\ company' = FALSE
    /\ UNCHANGED <<kernel, files, memory, elder>>

\* What only the tick reads is of no use to a process past its loop.
InTick(x, blank) == IF pc \in TickSteps THEN x ELSE blank

\* The daemon in hand has been told to stop and its recv thread has let go of
\* the port: it becomes the elder of a fresh process.
BesideElder ==
    /\ pc \in ElderAt
    /\ term
    /\ epc = "off"
    /\ epc' = pc
    /\ eaddr' = InTick(addr, NoAddr)
    /\ ebeaconPresent' = InTick(beaconPresent, FALSE)
    /\ epaused' = InTick(paused, FALSE)
    /\ estate' = state
    /\ efailures' = InTick(failures, 0)
    /\ epeerLock' = peerLock
    /\ enewIp' = newIp
    /\ eidleInhibit' = idleInhibit
    /\ elastStatus' = InTick(lastStatus, NoStatus)
    /\ Goto("boot")
    /\ MemoryIsCleared
    /\ company' = TRUE
    /\ UNCHANGED <<kernel, files>>

\* A new daemon that finds the port held exits in its boot without having
\* touched anything.
SpawnDaemon ==
    \/ Spawned /\ Start /\ company' = (epc # "off") /\ UNCHANGED elder
    \/ Spawned /\ BesideElder
    \/ child' = "exited" /\ pc # "off" /\ UNCHANGED <<vars, older>>
    \/ child' = "none" /\ "spawn" \in Mishaps /\ UNCHANGED <<vars, older>>

\* run_gui: without a trust file there is no daemon, only the pair screen.
Launch ==
    /\ screen = "closed"
    /\ \/ trust /\ screen' = "main" /\ SpawnDaemon
       \/ ~trust /\ screen' = "pair" /\ child' = "none" /\ UNCHANGED <<vars, older>>
    /\ armed' = FALSE
    /\ UNCHANGED trust

\* "Restart daemon" and "Run with password", on the panel of a dead daemon.
RestartDaemon ==
    /\ screen = "main"
    /\ ~Living
    /\ SpawnDaemon
    /\ UNCHANGED <<screen, trust, armed>>

\* The waiter thread: is_finished from now on, and no longer alive.
Reap ==
    /\ Living
    /\ pc = "off"
    /\ child' = "exited"
    /\ UNCHANGED <<vars, older, screen, trust, armed>>

-----------------------------------------------------------------------------
(* The trust file. *)

\* A pairing completed, on the pair screen or in a terminal.  It listens on
\* the daemon's port, so no daemon does.  The user of the pair screen still
\* has to close and relaunch.
PairSaves ==
    /\ ~Running \/ term
    /\ trust' = TRUE
    /\ UNCHANGED <<vars, older, screen, child, armed>>

\* `network-deck unpair`: the file goes, nobody is told.
Unpair ==
    /\ trust' = FALSE
    /\ UNCHANGED <<vars, older, screen, child, armed>>

-----------------------------------------------------------------------------
(* Signals. *)

ForgetsToSignal == UNCHANGED vars

\* request_shutdown.  The pid may be gone, have the signal already, or refuse it.
SendTerm ==
    \/ child = "alive" /\ Terminate
    \/ (child # "alive" \/ term \/ pc = "off") /\ UNCHANGED vars

CleansUpAfterKill ==
    \/ child = "alive" /\ child' = "exited" /\ Kill
    \/ child = "alive" /\ child' = "exited" /\ statusFile' = NoStatus
          /\ UNCHANGED <<kernel, pausedFile, pc, memory>>
    \/ child = "immune" /\ UNCHANGED <<vars, child>>

\* force_kill.  SIGKILL goes to the sudo that runs the daemon, which cannot
\* forward it: the daemon dies with it, or is left alone with its SIGTERM.
ForceKill ==
    \/ child = "alive" /\ child' = "exited" /\ (Kill \/ UNCHANGED vars)
    \/ child = "immune" /\ UNCHANGED <<vars, child>>

BeginShutdown ==
    /\ screen' = "stopping"
    /\ SendTerm
    /\ UNCHANGED child

ClosesNow == screen' = "closed" /\ child' = "none"

-----------------------------------------------------------------------------
(* The status panel. *)

StatusPanel == screen = "main" /\ Living

TapPause ==
    /\ StatusPanel
    /\ KioskToggle
    /\ UNCHANGED <<older, screen, child, trust, armed>>

TapExit ==
    /\ StatusPanel
    /\ BeginShutdown
    /\ UNCHANGED <<older, trust, armed>>

TapForget ==
    /\ StatusPanel
    /\ ~armed
    /\ armed' = TRUE
    /\ UNCHANGED <<vars, older, screen, child, trust>>

\* UNPAIR_CONFIRM_WINDOW went by.
Disarm ==
    /\ StatusPanel
    /\ armed
    /\ armed' = FALSE
    /\ UNCHANGED <<vars, older, screen, child, trust>>

\* The second tap: delete trust first, and shut down whether that worked or not.
ConfirmForget ==
    /\ StatusPanel
    /\ armed
    /\ armed' = FALSE
    /\ trust' \in IF "forget" \in Mishaps THEN {FALSE, trust} ELSE {FALSE}
    /\ BeginShutdown
    /\ UNCHANGED older

-----------------------------------------------------------------------------
(* Closing.  update() cancels the first close and polls; a close while it  *)
(* is stopping goes through, and what is left to DaemonChild's Drop is     *)
(* SIGTERM, 500 ms, SIGKILL and, whatever came of it, join().              *)

CloseRequest ==
    /\ \/ screen = "main" /\ child # "none" /\ BeginShutdown
       \/ screen \in {"pair", "main"} /\ child = "none" /\ ClosesNow /\ UNCHANGED vars
       \/ screen = "stopping" /\ ~Living /\ ClosesNow /\ UNCHANGED vars
       \/ screen = "stopping" /\ Living /\ screen' = "dropping"
             /\ SendTerm /\ UNCHANGED child
    /\ UNCHANGED <<older, trust, armed>>

ClosesAtOnce ==
    /\ screen = "stopping"
    /\ ClosesNow
    /\ UNCHANGED <<vars, older, trust, armed>>

\* tick_shutdown: the daemon is finished.
ShutdownFinished ==
    /\ screen = "stopping"
    /\ ~Living
    /\ ClosesNow
    /\ UNCHANGED <<vars, older, trust, armed>>

\* tick_shutdown: SHUTDOWN_GRACE is over.  The child is killed and dropped.
ShutdownTimesOut ==
    /\ screen = "stopping"
    /\ Living
    /\ "grace" \in Mishaps
    /\ ForceKill
    /\ screen' = "dropping"
    /\ UNCHANGED <<older, trust, armed>>

\* Drop: the 500 ms are over.
DropTimesOut ==
    /\ screen = "dropping"
    /\ Living
    /\ "drop" \in Mishaps
    /\ ForceKill
    /\ UNCHANGED <<older, screen, trust, armed>>

\* Drop: join() has returned.
DropFinished ==
    /\ screen = "dropping"
    /\ ~Living
    /\ ClosesNow
    /\ UNCHANGED <<vars, older, trust, armed>>

-----------------------------------------------------------------------------
(* The daemons' own steps.  Trust is loaded in the boot and never again.   *)

DaemonBoots == (LoadTrust /\ (pc' # "off" => trust)) \/ Listen

DaemonSteps ==
    /\ DaemonBoots \/ Tick \/ Shutdown \/ RecvThread \/ HotkeyToggle
    /\ UNCHANGED <<older, screen, child, trust, armed>>

ElderSteps ==
    /\ epc # "off"
    /\ \/ Elder!Tick
       \/ Elder!Shutdown
       \/ Elder!HotkeyToggle
       \/ Elder!Kill
    /\ UNCHANGED <<pc, memory, company, screen, child, trust, armed>>

\* Signals from elsewhere: poweroff, kill, the OOM killer.
OutsideSignal ==
    /\ "external" \in Mishaps
    /\ Terminate \/ Kill
    /\ UNCHANGED <<older, screen, child, trust, armed>>

KNext ==
    \/ Launch \/ RestartDaemon \/ Reap \/ PairSaves \/ Unpair
    \/ TapPause \/ TapExit \/ TapForget \/ Disarm \/ ConfirmForget
    \/ CloseRequest \/ ShutdownFinished \/ ShutdownTimesOut
    \/ DropTimesOut \/ DropFinished
    \/ DaemonSteps \/ ElderSteps \/ OutsideSignal

KSpec == KInit /\ [][KNext]_kvars

\* The daemon's main thread, the waiter thread and the GUI's frames; calls of
\* the daemon that fail do not fail for ever.  The user is under no obligation
\* to tap or to close anything, and nothing is assumed of an elder.
KFairSpec ==
    /\ KSpec
    /\ WF_kvars(DaemonSteps /\ MainThread)
    /\ SF_kvars(DaemonSteps /\ StatusWritten)
    /\ SF_kvars(DaemonSteps /\ BindSucceeds)
    /\ WF_kvars(Reap)
    /\ WF_kvars(ShutdownFinished)
    /\ WF_kvars(DropFinished)

-----------------------------------------------------------------------------
KTypeOK ==
    /\ TypeOK
    /\ Elder!TypeOK
    /\ screen \in {"closed", "pair", "main", "stopping", "dropping"}
    /\ child \in {"none", "alive", "immune", "exited"}
    /\ trust \in BOOLEAN
    /\ armed \in BOOLEAN
    /\ company \in BOOLEAN

\* No daemon runs unattended: whatever was closed, killed, refused, restarted
\* or spawned over it, a live daemon was told to stop or is the child the
\* kiosk still waits for.
NoStrayDaemon == pc = "off" \/ term \/ Living

\* As long as no elder has shared the machine with it, the daemon under a
\* kiosk takes only steps of module Deck: the kiosk never starts it over a
\* living one, kills it while it may, or changes its files behind its back.
ImplementsDeck == Init /\ [][~company' => Next]_vars

\* What Deck says of lock and rule, and of last_status and the file, holds of
\* a daemon that never had an elder beside it: the nft table and status.json
\* have one name for all daemons, and an elder that stops late takes both away.
LockHeldAlone == ~company => LockIsInstalled
StatusHeldAlone == ~company => LastStatusIsOnDisk

\* The pair screen, whose worker needs port 49152, opens only when the daemon
\* that had the port is gone, however the window before it was closed.
PairScreenIsAlone ==
    screen = "pair" /\ Mishaps \cap {"grace", "drop"} = {} => pc = "off"

\* A window that says "Stopping..." closes at last, and not before the daemon
\* is gone if no grace window expires.
CloseCompletes == screen = "stopping" ~> (screen = "closed" /\ pc = "off")

=============================================================================
