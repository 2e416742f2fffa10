-------------------------------- MODULE Setup --------------------------------
(***************************************************************************)
(* First-time setup: the kiosk's setup screen, the installer it runs       *)
(* through pkexec, the same installer and the uninstaller run from a       *)
(* terminal, and the Steam shortcut written once the installer has         *)
(* succeeded.                                                              *)
(*                                                                         *)
(*   Idle -> Installing -> [Steam ->] Done                                 *)
(*     ^         |                                                         *)
(*     +-- Failed                                                          *)
(***************************************************************************)
EXTENDS Install, Shortcuts

VARIABLES
    screen,           \* "closed", "setup" or "other" (pairing, status panel)
    phase,            \* SetupPhase; "Steam" while run_steam_shortcut_step runs
    addToSteam,       \* the checkbox
    steamOutcome      \* "none", "ok" or "err"

setup == <<screen, phase, addToSteam, steamOutcome>>
uvars == <<ivars, svars, setup>>

FreshScreen ==
    /\ phase = "Idle"
    /\ addToSteam = TRUE
    /\ steamOutcome = "none"

UInit == IInit /\ SInit /\ screen = "closed" /\ FreshScreen

-----------------------------------------------------------------------------
(* The window. *)

Launch ==
    /\ screen = "closed"
    /\ screen' = IF IsInstalled THEN "other" ELSE "setup"
    /\ UNCHANGED <<ivars, svars, phase, addToSteam, steamOutcome>>

ToggleSteam ==
    /\ screen = "setup"
    /\ phase = "Idle"
    /\ addToSteam' = ~addToSteam
    /\ UNCHANGED <<ivars, svars, screen, phase, steamOutcome>>

\* pkexec starts the installer, is refused the password, or is not there.
TapInstall ==
    /\ screen = "setup"
    /\ phase = "Idle"
    /\ \/ StartJob("usbip") /\ phase' = "Installing"
       \/ Refused /\ phase' = "Installing"
       \/ phase' = "Failed" /\ UNCHANGED ivars
    /\ UNCHANGED <<svars, screen, addToSteam, steamOutcome>>

ChildExited == screen = "setup" /\ phase = "Installing" /\ job = "none"

\* try_wait: the success edge runs the Steam step, there and then.
PollSuccess ==
    /\ ChildExited
    /\ exit = "ok"
    /\ \/ addToSteam /\ FindAccounts /\ phase' = "Steam"
       \/ ~addToSteam /\ phase' = "Done" /\ UNCHANGED kioskSteam
    /\ UNCHANGED <<ivars, vdf, steamSelf, screen, addToSteam, steamOutcome>>

IgnoresFailure == FALSE /\ UNCHANGED uvars

PollFailure ==
    /\ ChildExited
    /\ exit = "fail"
    /\ phase' = "Failed"
    /\ UNCHANGED <<ivars, svars, screen, addToSteam, steamOutcome>>

ShortcutStep ==
    /\ phase = "Steam"
    /\ UpsertStep
    /\ UNCHANGED <<ivars, setup>>

\* The outcome is an error when no file was written, be it for want of accounts.
ShortcutsDone ==
    /\ phase = "Steam"
    /\ StepIsOver
    /\ phase' = "Done"
    /\ step' = "none"
    /\ steamOutcome' = IF added = 0 THEN "err" ELSE "ok"
    /\ UNCHANGED <<ivars, vdf, todo, at, entries, added, raced, steamSelf, screen, addToSteam>>

TryAgain ==
    /\ screen = "setup"
    /\ phase = "Failed"
    /\ phase' = "Idle"
    /\ UNCHANGED <<ivars, svars, screen, addToSteam, steamOutcome>>

\* The process and its memory are gone; the installer runs on.
WindowGone ==
    /\ screen' = "closed"
    /\ phase' = "Idle"
    /\ addToSteam' = TRUE
    /\ steamOutcome' = "none"
    /\ todo' = {}
    /\ at' = NoAccount
    /\ step' = "none"
    /\ entries' = <<>>
    /\ added' = 0
    /\ raced' = FALSE
    /\ UNCHANGED <<vdf, steamSelf>>

\* The Steam step holds the thread that would close the window.
CloseWindow ==
    /\ screen # "closed"
    /\ phase # "Steam"
    /\ WindowGone
    /\ UNCHANGED ivars

KioskDies ==
    /\ "kill" \in Faults
    /\ phase = "Steam"
    /\ WindowGone
    /\ UNCHANGED ivars

-----------------------------------------------------------------------------
(* A terminal. *)

TerminalJob ==
    /\ phase # "Installing"
    /\ StartJob("usbip") \/ StartJob("disable")
    /\ UNCHANGED <<svars, setup>>

JobSteps ==
    /\ JobStep
    /\ UNCHANGED <<svars, setup>>

SteamSteps == SteamStep /\ UNCHANGED <<ivars, setup>>

UNext ==
    \/ Launch \/ ToggleSteam \/ TapInstall \/ PollSuccess \/ PollFailure
    \/ ShortcutStep \/ ShortcutsDone \/ TryAgain \/ CloseWindow \/ KioskDies
    \/ TerminalJob \/ JobSteps \/ SteamSteps

USpec == UInit /\ [][UNext]_uvars

\* The installer's process and the frames of the window.  Nothing is assumed
\* of the user, of Steam, or of what works.
UFairSpec ==
    /\ USpec
    /\ WF_uvars(JobSteps)
    /\ WF_uvars(PollSuccess \/ PollFailure)
    /\ WF_uvars(ShortcutStep)
    /\ WF_uvars(ShortcutsDone)

-----------------------------------------------------------------------------
\* What the installer promises alone it promises under the setup screen.
ImplementsInstall == ISpec

\* The setup screen does not spin for ever: it reports what became of the
\* installer and of the Steam step, whatever fails in them.
InstallingEnds ==
    phase \in {"Installing", "Steam"} ~> (phase \in {"Done", "Failed"} \/ screen = "closed")

==============================================================================
