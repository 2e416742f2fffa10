------------------------------- MODULE Install -------------------------------
(***************************************************************************)
(* `network-deck install` and `network-deck uninstall`: root processes     *)
(* that change the system file by file.  A call that fails ends them on    *)
(* the spot, and nothing is rolled back except the sudoers file, and that  *)
(* only in the last two steps.                                             *)
(*                                                                         *)
(*   install:   usbip [unlock -> pacman -> relock] -> units -> copy        *)
(*              [copying] -> secure -> sudoers -> modules -> desktop ->    *)
(*              legacy -> mode -> visudo                                   *)
(*   uninstall: disable -> rmsudoers -> rmmodules -> rmdir -> rmdesktop    *)
(*              -> rmlegacy                                                *)
(*                                                                         *)
(* One job runs at a time, and all jobs are run by one user.               *)
(***************************************************************************)
EXTENDS Naturals, FiniteSets

CONSTANTS
    Faults,           \* the steps that may fail, and "kill"
    MaxJobs           \* bounds the jobs started

InstallSteps == {"usbip", "unlock", "pacman", "relock", "units", "copy", "copying",
                 "secure", "sudoers", "modules", "desktop", "legacy", "mode", "visudo"}
UninstallSteps == {"disable", "rmsudoers", "rmmodules", "rmdir", "rmdesktop", "rmlegacy"}

ASSUME InstallConstants ==
    /\ Faults \subseteq InstallSteps \cup UninstallSteps \cup {"kill"}
    /\ MaxJobs \in Nat

VARIABLES
    usbip,            \* the usbip package is installed
    writable,         \* the root file system is not read-only
    usbipd,           \* usbipd.service is enabled
    bin,              \* INSTALL_BIN: "none", "part", "copied", "ready" (0755)
    sudoers,          \* SUDOERS_PATH: "none", "part" or "full"
    sudoersMode,      \* ... and its mode is 0440
    modulesLoad,      \* MODULES_LOAD_PATH exists
    desktop,          \* the .desktop entry exists
    legacy,           \* a sudoers file of an older release exists
    job,              \* the step of the running job, "none" without one
    exit,             \* how the last job ended: "none", "ok", "fail"
    struck,           \* history: the faults that have cut an installer short
    jobs              \* the jobs started so far

system == <<usbip, writable, usbipd>>
rule   == <<sudoers, sudoersMode>>
files  == <<bin, rule, modulesLoad, desktop, legacy>>
count  == <<struck, jobs>>
ivars  == <<system, files, job, exit, count>>

\* A new Deck, one set up by an older release, or one set up by this one.
IInit ==
    /\ usbip \in BOOLEAN
    /\ writable = FALSE
    /\ legacy \in BOOLEAN
    /\ \/ /\ bin = "none"
          /\ sudoers = "none"
          /\ sudoersMode = FALSE
          /\ modulesLoad = FALSE
          /\ desktop = FALSE
          /\ usbipd = FALSE
       \/ /\ bin = "ready"
          /\ sudoers = "full"
          /\ sudoersMode = TRUE
          /\ modulesLoad = TRUE
          /\ desktop = TRUE
          /\ usbipd = TRUE
          /\ usbip /\ ~legacy
    /\ job = "none"
    /\ exit = "none"
    /\ struck = {}
    /\ jobs = 0

-----------------------------------------------------------------------------
StartJob(step) ==
    /\ job = "none"
    /\ jobs < MaxJobs
    /\ jobs' = jobs + 1
    /\ job' = step
    /\ exit' = "none"
    /\ UNCHANGED <<system, files, struck>>

Ends(result) == job' = "none" /\ exit' = result

Continue(next) == job' = next /\ UNCHANGED exit

\* The call fails and with it the job: `?` and exit(1).
Fails(step) ==
    /\ step \in Faults
    /\ struck' = struck \cup {step}
    /\ Ends("fail")

\* The call works and the job goes on.
Works(next) == Continue(next) /\ UNCHANGED struck

\* The call fails, which is only logged.
Shrugs(step, next) == step \in Faults /\ Works(next)

\* SIGKILL, a power cut; the file being written stays cut short.
Die ==
    /\ "kill" \in Faults
    /\ job # "none"
    /\ sudoers' \in IF job = "sudoers" THEN {sudoers, "part"} ELSE {sudoers}
    /\ struck' = struck \cup {"kill"}
    /\ Ends("fail")
    /\ UNCHANGED <<system, bin, sudoersMode, modulesLoad, desktop, legacy, jobs>>

-----------------------------------------------------------------------------
(* install: the usbip package. *)

\* usbip is there, or SteamOS is opened for pacman.
FindUsbip ==
    /\ job = "usbip"
    /\ \/ usbip /\ Works("units")
       \/ ~usbip /\ Works("unlock")
       \/ ~usbip /\ Fails("usbip")
    /\ UNCHANGED <<system, files, jobs>>

Unlock ==
    /\ job = "unlock"
    /\ \/ Works("pacman") /\ writable' = TRUE
       \/ Fails("unlock") /\ UNCHANGED writable
    /\ UNCHANGED <<usbip, usbipd, files, jobs>>

\* A failure of pacman is acted on only after the file system is locked again.
Pacman ==
    /\ job = "pacman"
    /\ \/ Works("relock") /\ usbip' = TRUE
       \/ Shrugs("pacman", "relock") /\ UNCHANGED usbip
    /\ UNCHANGED <<writable, usbipd, files, jobs>>

Relock ==
    /\ job = "relock"
    /\ writable' \in IF "relock" \in Faults THEN {writable, FALSE} ELSE {FALSE}
    /\ IF usbip THEN Continue("units") ELSE Ends("fail")
    /\ UNCHANGED <<usbip, usbipd, files, count>>

\* modprobe, usbipd.service and the unit of an older release: warnings only.
Units ==
    /\ job = "units"
    /\ \/ Works("copy") /\ usbipd' = TRUE
       \/ Shrugs("units", "copy") /\ UNCHANGED usbipd
    /\ UNCHANGED <<usbip, writable, files, jobs>>

-----------------------------------------------------------------------------
(* install: the files. *)

\* Run from INSTALL_BIN itself it copies nothing.  Otherwise fs::copy truncates
\* what is there, a binary in use under its rule included, or cannot open it.
CopySelf ==
    /\ job = "copy"
    /\ \/ Works("copying") /\ bin' = "part"
       \/ Works("secure") /\ bin \in {"copied", "ready"} /\ UNCHANGED bin
       \/ Fails("copy") /\ UNCHANGED bin
    /\ UNCHANGED <<system, rule, modulesLoad, desktop, legacy, jobs>>

CopyRest ==
    /\ job = "copying"
    /\ \/ Works("secure") /\ bin' = "copied"
       \/ Fails("copying") /\ UNCHANGED bin
    /\ UNCHANGED <<system, rule, modulesLoad, desktop, legacy, jobs>>

\* chown and chmod of the directory and the binary.
Secure ==
    /\ job = "secure"
    /\ \/ Works("sudoers") /\ bin' = IF bin = "copied" THEN "ready" ELSE bin
       \/ Fails("secure") /\ UNCHANGED bin
    /\ UNCHANGED <<system, rule, modulesLoad, desktop, legacy, jobs>>

\* fs::write keeps the mode of a file that is there.
WriteSudoers ==
    /\ job = "sudoers"
    /\ \/ Works("modules") /\ sudoers' = "full"
       \/ Fails("sudoers") /\ sudoers' \in {sudoers, "part"}
    /\ sudoersMode' = (sudoersMode /\ sudoers # "none")
    /\ UNCHANGED <<system, bin, modulesLoad, desktop, legacy, jobs>>

WriteModules ==
    /\ job = "modules"
    /\ \/ Works("desktop") /\ modulesLoad' = TRUE
       \/ Fails("modules") /\ modulesLoad' \in {modulesLoad, TRUE}
    /\ UNCHANGED <<system, bin, rule, desktop, legacy, jobs>>

WriteDesktop ==
    /\ job = "desktop"
    /\ \/ Works("legacy") /\ desktop' = TRUE
       \/ Fails("desktop") /\ desktop' \in {desktop, TRUE}
    /\ UNCHANGED <<system, bin, rule, modulesLoad, legacy, jobs>>

RemoveLegacy ==
    /\ job = "legacy"
    /\ \/ Works("mode") /\ legacy' = FALSE
       \/ Fails("legacy") /\ legacy /\ UNCHANGED legacy
    /\ UNCHANGED <<system, bin, rule, modulesLoad, desktop, jobs>>

LeavesRule == UNCHANGED rule

\* What write_sudoers_post_files does to the file before it exits.
TakesRuleBack == sudoers' = "none" /\ sudoersMode' = FALSE

ModeWarns ==
    /\ job = "mode"
    /\ \/ Works("visudo") /\ sudoersMode' = TRUE
       \/ Shrugs("mode", "visudo") /\ UNCHANGED sudoersMode
    /\ UNCHANGED <<system, bin, sudoers, modulesLoad, desktop, legacy, jobs>>

SetMode ==
    /\ job = "mode"
    /\ \/ Works("visudo") /\ sudoersMode' = TRUE /\ UNCHANGED sudoers
       \/ Fails("mode") /\ TakesRuleBack
    /\ UNCHANGED <<system, bin, modulesLoad, desktop, legacy, jobs>>

\* The file is as written, so only a missing visudo can object.
Visudo ==
    /\ job = "visudo"
    /\ \/ Ends("ok") /\ UNCHANGED <<rule, struck>>
       \/ Fails("visudo") /\ TakesRuleBack
    /\ UNCHANGED <<system, bin, modulesLoad, desktop, legacy, jobs>>

-----------------------------------------------------------------------------
(* uninstall.  The first removal that fails is a warning, ends the others  *)
(* and leaves the exit status 0.                                           *)

GivesUp(step) == step \in Faults /\ Ends("ok") /\ UNCHANGED struck

DisableUsbipd ==
    /\ job = "disable"
    /\ \/ Works("rmsudoers") /\ usbipd' = FALSE
       \/ Shrugs("disable", "rmsudoers") /\ UNCHANGED usbipd
    /\ UNCHANGED <<usbip, writable, files, jobs>>

SkipsFailure ==
    /\ job = "rmsudoers"
    /\ \/ Works("rmmodules") /\ sudoers' = "none" /\ sudoersMode' = FALSE
       \/ Shrugs("rmsudoers", "rmmodules") /\ UNCHANGED rule
    /\ UNCHANGED <<system, bin, modulesLoad, desktop, legacy, jobs>>

RemoveSudoers ==
    /\ job = "rmsudoers"
    /\ \/ Works("rmmodules") /\ sudoers' = "none" /\ sudoersMode' = FALSE
       \/ GivesUp("rmsudoers") /\ sudoers # "none" /\ UNCHANGED rule
    /\ UNCHANGED <<system, bin, modulesLoad, desktop, legacy, jobs>>

RemoveModules ==
    /\ job = "rmmodules"
    /\ \/ Works("rmdir") /\ modulesLoad' = FALSE
       \/ GivesUp("rmmodules") /\ modulesLoad /\ UNCHANGED modulesLoad
    /\ UNCHANGED <<system, bin, rule, desktop, legacy, jobs>>

\* remove_dir_all may fail on the binary or, after it, on the directory.
RemoveDir ==
    /\ job = "rmdir"
    /\ \/ Works("rmdesktop") /\ bin' = "none"
       \/ GivesUp("rmdir") /\ bin' \in {bin, "none"}
    /\ UNCHANGED <<system, rule, modulesLoad, desktop, legacy, jobs>>

RemoveDesktop ==
    /\ job = "rmdesktop"
    /\ \/ Works("rmlegacy") /\ desktop' = FALSE
       \/ GivesUp("rmdesktop") /\ desktop /\ UNCHANGED desktop
    /\ UNCHANGED <<system, bin, rule, modulesLoad, legacy, jobs>>

RemoveLegacyToo ==
    /\ job = "rmlegacy"
    /\ \/ Ends("ok") /\ legacy' = FALSE /\ UNCHANGED struck
       \/ GivesUp("rmlegacy") /\ legacy /\ UNCHANGED legacy
    /\ UNCHANGED <<system, bin, rule, modulesLoad, desktop, jobs>>

-----------------------------------------------------------------------------
InstallStep ==
    \/ FindUsbip \/ Unlock \/ Pacman \/ Relock \/ Units \/ CopySelf \/ CopyRest
    \/ Secure \/ WriteSudoers \/ WriteModules \/ WriteDesktop \/ RemoveLegacy
    \/ SetMode \/ Visudo

UninstallStep ==
    \/ DisableUsbipd \/ RemoveSudoers \/ RemoveModules \/ RemoveDir
    \/ RemoveDesktop \/ RemoveLegacyToo

JobStep == InstallStep \/ UninstallStep \/ Die

\* pkexec ends without having run the installer: no password, no agent.
Refused ==
    /\ job = "none"
    /\ jobs < MaxJobs
    /\ jobs' = jobs + 1
    /\ exit' = "fail"
    /\ UNCHANGED <<system, files, job, struck>>

INext == StartJob("usbip") \/ StartJob("disable") \/ Refused \/ JobStep

ISpec == IInit /\ [][INext]_ivars

\* is_installed: the kiosk asks for nothing but the file.
IsInstalled == sudoers # "none"

\* sudo accepts the rule.
RuleWorks == sudoers = "full" /\ sudoersMode

Complete == usbip /\ bin = "ready" /\ RuleWorks /\ modulesLoad /\ desktop /\ ~legacy

-----------------------------------------------------------------------------
\* Whatever has been installed, half installed, removed or interrupted in
\* whichever order, a rule that lets the daemon run as root names a binary that
\* is there (the first rule comes after it, and uninstall takes the rule away
\* first).  That binary is whole and has its mode, except where an installer is
\* replacing it under the rule of an earlier one, between truncation and chmod,
\* and after one that failed or was killed on that stretch.
GrantIsBacked ==
    IsInstalled =>
        /\ bin # "none"
        /\ struck \cap {"copying", "secure", "kill"} = {} /\ job \notin {"copying", "secure"}
              => bin = "ready"

\* Outside a running installer the rule is one sudo accepts, unless a file
\* operation of install_files failed or the installer was killed: no failure of
\* the two validating steps, no repeated and no partial run leaves a bad one.
RuleIsWhole ==
    job = "none" /\ IsInstalled
        /\ struck \cap {"sudoers", "modules", "desktop", "legacy", "kill"} = {}
    => RuleWorks

\* An installer that reports success has the usbip package, the secured binary, a
\* rule that works and the two files beside it in place, whatever an earlier
\* release or an earlier attempt left.  The failures that are only logged (the
\* service, the module, locking the file system again) are not among these.
DoneIsComplete ==
    [][job' = "none" /\ exit' = "ok" /\ job \in InstallSteps => Complete']_ivars

-----------------------------------------------------------------------------
\* What the comment on write_sudoers_post_files promises of every failure: no
\* partial state of the sudoers file stays on disk.
NoPartialRule == job = "none" /\ IsInstalled => RuleWorks
==============================================================================
