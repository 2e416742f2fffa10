----------------------------- MODULE SetupProofs -----------------------------
(***************************************************************************)
(* Theorems about the installer, alone (Install) and under the kiosk's     *)
(* setup screen (Setup), and about the Steam shortcut (Shortcuts).         *)
(***************************************************************************)
EXTENDS Setup, TLAPS

-----------------------------------------------------------------------------
(* The installer: what is true at each of its steps. *)

AfterCopy   == {"secure", "sudoers", "modules", "desktop", "legacy", "mode", "visudo"}
AfterWrite  == {"modules", "desktop", "legacy", "mode", "visudo"}
AfterUsbip  == {"units", "copy", "copying"} \cup AfterCopy
AfterRemove == {"rmmodules", "rmdir", "rmdesktop", "rmlegacy"}

\* As much of the types as the rest needs.
InstallTypeOK ==
    /\ bin \in {"none", "part", "copied", "ready"}
    /\ sudoers \in {"none", "part", "full"}
    /\ job \in InstallSteps \cup UninstallSteps \cup {"none"}
    /\ exit \in {"none", "ok", "fail"}
    /\ struck \subseteq Faults
    /\ jobs \in Nat

\* The binary is there before the rule and after it.
BinaryInv ==
    /\ IsInstalled => bin # "none"
    /\ job \in AfterCopy => bin \in {"copied", "ready"}
    /\ job \in AfterCopy \ {"secure"} => bin = "ready"
    /\ job \in AfterRemove => sudoers = "none"
    /\ IsInstalled /\ struck \cap {"copying", "secure", "kill"} = {}
          /\ job \notin {"copying", "secure"} => bin = "ready"

\* Between its write and its validation the rule is whole; elsewhere it works.
RuleInv ==
    /\ job \in AfterWrite => sudoers = "full"
    /\ job = "visudo" => sudoersMode
    /\ job \notin AfterWrite /\ IsInstalled
          /\ struck \cap {"sudoers", "modules", "desktop", "legacy", "kill"} = {}
          => RuleWorks

\* What the installer has done is still done at its later steps.
ProgressInv ==
    /\ job \in AfterUsbip => usbip
    /\ job \in AfterWrite \ {"modules"} => modulesLoad
    /\ job \in {"legacy", "mode", "visudo"} => desktop
    /\ job \in {"mode", "visudo"} => ~legacy

IInv == InstallTypeOK /\ BinaryInv /\ RuleInv /\ ProgressInv

LEMMA InstallInit == IInit => IInv
<1> SUFFICES ASSUME IInit PROVE IInv
  OBVIOUS
<1> USE DEF IInit, IsInstalled, RuleWorks, AfterCopy, AfterWrite, AfterUsbip, AfterRemove
<1>1. InstallTypeOK
  BY DEF InstallTypeOK
<1>2. BinaryInv
  BY DEF BinaryInv
<1>3. RuleInv
  BY DEF RuleInv
<1>4. ProgressInv
  BY DEF ProgressInv
<1> QED
  BY <1>1, <1>2, <1>3, <1>4 DEF IInv

LEMMA InstallType == InstallTypeOK /\ [INext]_ivars => InstallTypeOK'
<1> SUFFICES ASSUME InstallTypeOK, [INext]_ivars PROVE InstallTypeOK'
  OBVIOUS
<1> USE DEF InstallTypeOK, InstallSteps, UninstallSteps
<1> USE DEF system, rule, files, count, Ends, Continue, Fails, Works, Shrugs, GivesUp
<1>1. CASE StartJob("usbip") \/ StartJob("disable") \/ Refused
  BY <1>1 DEF StartJob, Refused
<1>2. CASE FindUsbip
  BY <1>2 DEF FindUsbip
<1>3. CASE Unlock
  BY <1>3 DEF Unlock
<1>4. CASE Pacman
  BY <1>4 DEF Pacman
<1>5. CASE Relock
  BY <1>5 DEF Relock
<1>6. CASE Units
  BY <1>6 DEF Units
<1>7. CASE CopySelf \/ CopyRest
  BY <1>7 DEF CopySelf, CopyRest
<1>8. CASE Secure
  BY <1>8 DEF Secure
<1>9. CASE WriteSudoers
  BY <1>9 DEF WriteSudoers
<1>10. CASE WriteModules
  BY <1>10 DEF WriteModules
<1>11. CASE WriteDesktop
  BY <1>11 DEF WriteDesktop
<1>12. CASE RemoveLegacy
  BY <1>12 DEF RemoveLegacy
<1>13. CASE SetMode
  BY <1>13 DEF SetMode, TakesRuleBack
<1>14. CASE Visudo
  BY <1>14 DEF Visudo, TakesRuleBack
<1>15. CASE DisableUsbipd
  BY <1>15 DEF DisableUsbipd
<1>16. CASE RemoveSudoers
  BY <1>16 DEF RemoveSudoers
<1>17. CASE RemoveModules
  BY <1>17 DEF RemoveModules
<1>18. CASE RemoveDir
  BY <1>18 DEF RemoveDir
<1>19. CASE RemoveDesktop
  BY <1>19 DEF RemoveDesktop
<1>20. CASE RemoveLegacyToo
  BY <1>20 DEF RemoveLegacyToo
<1>21. CASE Die
  BY <1>21 DEF Die
<1>22. CASE UNCHANGED ivars
  BY <1>22 DEF ivars
<1> QED
  BY <1>1, <1>2, <1>3, <1>4, <1>5, <1>6, <1>7, <1>8, <1>9, <1>10, <1>11,
     <1>12, <1>13, <1>14, <1>15, <1>16, <1>17, <1>18, <1>19, <1>20, <1>21, <1>22
  DEF INext, JobStep, InstallStep, UninstallStep

LEMMA InstallBinary == InstallTypeOK /\ BinaryInv /\ [INext]_ivars => BinaryInv'
<1> SUFFICES ASSUME InstallTypeOK /\ BinaryInv, [INext]_ivars PROVE BinaryInv'
  OBVIOUS
<1> USE DEF InstallTypeOK, BinaryInv, IsInstalled, AfterCopy, AfterRemove
<1> USE DEF system, rule, files, count, Ends, Continue, Fails, Works, Shrugs, GivesUp
<1>1. CASE StartJob("usbip") \/ StartJob("disable") \/ Refused
  BY <1>1 DEF StartJob, Refused
<1>2. CASE FindUsbip
  BY <1>2 DEF FindUsbip
<1>3. CASE Unlock
  BY <1>3 DEF Unlock
<1>4. CASE Pacman
  BY <1>4 DEF Pacman
<1>5. CASE Relock
  BY <1>5 DEF Relock
<1>6. CASE Units
  BY <1>6 DEF Units
<1>7. CASE CopySelf \/ CopyRest
  BY <1>7 DEF CopySelf, CopyRest
<1>8. CASE Secure
  BY <1>8 DEF Secure
<1>9. CASE WriteSudoers
  BY <1>9 DEF WriteSudoers
<1>10. CASE WriteModules
  BY <1>10 DEF WriteModules
<1>11. CASE WriteDesktop
  BY <1>11 DEF WriteDesktop
<1>12. CASE RemoveLegacy
  BY <1>12 DEF RemoveLegacy
<1>13. CASE SetMode
  BY <1>13 DEF SetMode, TakesRuleBack
<1>14. CASE Visudo
  BY <1>14 DEF Visudo, TakesRuleBack
<1>15. CASE DisableUsbipd
  BY <1>15 DEF DisableUsbipd
<1>16. CASE RemoveSudoers
  BY <1>16 DEF RemoveSudoers
<1>17. CASE RemoveModules
  BY <1>17 DEF RemoveModules
<1>18. CASE RemoveDir
  BY <1>18 DEF RemoveDir
<1>19. CASE RemoveDesktop
  BY <1>19 DEF RemoveDesktop
<1>20. CASE RemoveLegacyToo
  BY <1>20 DEF RemoveLegacyToo
<1>21. CASE Die
  BY <1>21 DEF Die
<1>22. CASE UNCHANGED ivars
  BY <1>22 DEF ivars
<1> QED
  BY <1>1, <1>2, <1>3, <1>4, <1>5, <1>6, <1>7, <1>8, <1>9, <1>10, <1>11,
     <1>12, <1>13, <1>14, <1>15, <1>16, <1>17, <1>18, <1>19, <1>20, <1>21, <1>22
  DEF INext, JobStep, InstallStep, UninstallStep

LEMMA InstallRule == InstallTypeOK /\ RuleInv /\ [INext]_ivars => RuleInv'
<1> SUFFICES ASSUME InstallTypeOK /\ RuleInv, [INext]_ivars PROVE RuleInv'
  OBVIOUS
<1> USE DEF InstallTypeOK, RuleInv, IsInstalled, RuleWorks, AfterWrite
<1> USE DEF system, rule, files, count, Ends, Continue, Fails, Works, Shrugs, GivesUp
<1>1. CASE StartJob("usbip") \/ StartJob("disable") \/ Refused
  BY <1>1 DEF StartJob, Refused
<1>2. CASE FindUsbip
  BY <1>2 DEF FindUsbip
<1>3. CASE Unlock
  BY <1>3 DEF Unlock
<1>4. CASE Pacman
  BY <1>4 DEF Pacman
<1>5. CASE Relock
  BY <1>5 DEF Relock
<1>6. CASE Units
  BY <1>6 DEF Units
<1>7. CASE CopySelf \/ CopyRest
  BY <1>7 DEF CopySelf, CopyRest
<1>8. CASE Secure
  BY <1>8 DEF Secure
<1>9. CASE WriteSudoers
  BY <1>9 DEF WriteSudoers
<1>10. CASE WriteModules
  BY <1>10 DEF WriteModules
<1>11. CASE WriteDesktop
  BY <1>11 DEF WriteDesktop
<1>12. CASE RemoveLegacy
  BY <1>12 DEF RemoveLegacy
<1>13. CASE SetMode
  BY <1>13 DEF SetMode, TakesRuleBack
<1>14. CASE Visudo
  BY <1>14 DEF Visudo, TakesRuleBack
<1>15. CASE DisableUsbipd
  BY <1>15 DEF DisableUsbipd
<1>16. CASE RemoveSudoers
  BY <1>16 DEF RemoveSudoers
<1>17. CASE RemoveModules
  BY <1>17 DEF RemoveModules
<1>18. CASE RemoveDir
  BY <1>18 DEF RemoveDir
<1>19. CASE RemoveDesktop
  BY <1>19 DEF RemoveDesktop
<1>20. CASE RemoveLegacyToo
  BY <1>20 DEF RemoveLegacyToo
<1>21. CASE Die
  BY <1>21 DEF Die
<1>22. CASE UNCHANGED ivars
  BY <1>22 DEF ivars
<1> QED
  BY <1>1, <1>2, <1>3, <1>4, <1>5, <1>6, <1>7, <1>8, <1>9, <1>10, <1>11,
     <1>12, <1>13, <1>14, <1>15, <1>16, <1>17, <1>18, <1>19, <1>20, <1>21, <1>22
  DEF INext, JobStep, InstallStep, UninstallStep

LEMMA InstallProgress == InstallTypeOK /\ ProgressInv /\ [INext]_ivars => ProgressInv'
<1> SUFFICES ASSUME InstallTypeOK /\ ProgressInv, [INext]_ivars PROVE ProgressInv'
  OBVIOUS
<1> USE DEF InstallTypeOK, ProgressInv, AfterUsbip, AfterCopy, AfterWrite
<1> USE DEF system, rule, files, count, Ends, Continue, Fails, Works, Shrugs, GivesUp
<1>1. CASE StartJob("usbip") \/ StartJob("disable") \/ Refused
  BY <1>1 DEF StartJob, Refused
<1>2. CASE FindUsbip
  BY <1>2 DEF FindUsbip
<1>3. CASE Unlock
  BY <1>3 DEF Unlock
<1>4. CASE Pacman
  BY <1>4 DEF Pacman
<1>5. CASE Relock
  BY <1>5 DEF Relock
<1>6. CASE Units
  BY <1>6 DEF Units
<1>7. CASE CopySelf \/ CopyRest
  BY <1>7 DEF CopySelf, CopyRest
<1>8. CASE Secure
  BY <1>8 DEF Secure
<1>9. CASE WriteSudoers
  BY <1>9 DEF WriteSudoers
<1>10. CASE WriteModules
  BY <1>10 DEF WriteModules
<1>11. CASE WriteDesktop
  BY <1>11 DEF WriteDesktop
<1>12. CASE RemoveLegacy
  BY <1>12 DEF RemoveLegacy
<1>13. CASE SetMode
  BY <1>13 DEF SetMode, TakesRuleBack
<1>14. CASE Visudo
  BY <1>14 DEF Visudo, TakesRuleBack
<1>15. CASE DisableUsbipd
  BY <1>15 DEF DisableUsbipd
<1>16. CASE RemoveSudoers
  BY <1>16 DEF RemoveSudoers
<1>17. CASE RemoveModules
  BY <1>17 DEF RemoveModules
<1>18. CASE RemoveDir
  BY <1>18 DEF RemoveDir
<1>19. CASE RemoveDesktop
  BY <1>19 DEF RemoveDesktop
<1>20. CASE RemoveLegacyToo
  BY <1>20 DEF RemoveLegacyToo
<1>21. CASE Die
  BY <1>21 DEF Die
<1>22. CASE UNCHANGED ivars
  BY <1>22 DEF ivars
<1> QED
  BY <1>1, <1>2, <1>3, <1>4, <1>5, <1>6, <1>7, <1>8, <1>9, <1>10, <1>11,
     <1>12, <1>13, <1>14, <1>15, <1>16, <1>17, <1>18, <1>19, <1>20, <1>21, <1>22
  DEF INext, JobStep, InstallStep, UninstallStep

LEMMA InstallNext == IInv /\ [INext]_ivars => IInv'
  BY InstallType, InstallBinary, InstallRule, InstallProgress DEF IInv

\* The rule never names a missing binary, wherever an installer or an uninstaller
\* fails or is killed, and one that is not whole and secured only while, or after,
\* a re-install was cut short on the stretch it overwrites it.
THEOREM InstallGrantIsBacked == ISpec => []GrantIsBacked
<1>1. IInv => GrantIsBacked
  BY DEF IInv, BinaryInv, GrantIsBacked
<1> QED
  BY <1>1, InstallInit, InstallNext, PTL DEF ISpec

\* The rule left behind is one sudo accepts, for every set of faults, unless one
\* of the four file operations after the write, or a kill, struck.
THEOREM InstallRuleIsWhole == ISpec => []RuleIsWhole
<1>1. IInv => RuleIsWhole
  BY DEF IInv, RuleInv, RuleIsWhole, AfterWrite
<1> QED
  BY <1>1, InstallInit, InstallNext, PTL DEF ISpec

\* Success means that package, binary, rule and the files beside it are in place,
\* and no file of an older release; the steps whose failure is a warning are not
\* part of it.
THEOREM InstallDoneIsComplete == ISpec => DoneIsComplete
<1>1. IInv /\ [INext]_ivars
        => [job' = "none" /\ exit' = "ok" /\ job \in InstallSteps => Complete']_ivars
  <2> SUFFICES ASSUME IInv, INext, job' = "none", exit' = "ok", job \in InstallSteps
               PROVE  Complete'
    OBVIOUS
  <2> USE DEF Ends, Continue, Fails, Works, Shrugs, GivesUp
  <2>1. Visudo
    BY DEF INext, JobStep, InstallStep, UninstallStep, StartJob, Refused, Die,
           FindUsbip, Unlock, Pacman, Relock, Units, CopySelf, CopyRest, Secure,
           WriteSudoers, WriteModules, WriteDesktop, RemoveLegacy, SetMode, DisableUsbipd,
           RemoveSudoers, RemoveModules, RemoveDir, RemoveDesktop, RemoveLegacyToo,
           InstallSteps
  <2> QED
    BY <2>1
    DEF Visudo, Complete, RuleWorks, IInv, BinaryInv, RuleInv, ProgressInv, AfterCopy,
        AfterWrite, AfterUsbip, system, rule
<1> QED
  BY <1>1, InstallInit, InstallNext, PTL DEF ISpec, DoneIsComplete

\* The setup screen, Steam and the terminal use the installer only as Install
\* lets it be used, so all of the above holds under them.
THEOREM SetupImplementsInstall == USpec => ImplementsInstall
<1>1. UInit => IInit
  BY DEF UInit
<1>2. [UNext]_uvars => [INext]_ivars
  <2> SUFFICES ASSUME [UNext]_uvars PROVE [INext]_ivars
    OBVIOUS
  <2>1. CASE TapInstall
    BY <2>1 DEF TapInstall, INext
  <2>2. CASE TerminalJob \/ JobSteps
    BY <2>2 DEF TerminalJob, JobSteps, INext
  <2>3. CASE Launch \/ ToggleSteam \/ PollSuccess \/ PollFailure \/ ShortcutStep
             \/ ShortcutsDone \/ TryAgain \/ CloseWindow \/ KioskDies \/ SteamSteps
    BY <2>3 DEF Launch, ToggleSteam, PollSuccess, PollFailure, ShortcutStep, ShortcutsDone,
                TryAgain, CloseWindow, KioskDies, SteamSteps
  <2>4. CASE UNCHANGED uvars
    BY <2>4 DEF uvars
  <2> QED
    BY <2>1, <2>2, <2>3, <2>4 DEF UNext
<1> QED
  BY <1>1, <1>2, PTL DEF USpec, ISpec, ImplementsInstall

\* What is proved of the installer alone holds of it whatever the setup screen,
\* Steam and a terminal do around it.
THEOREM SetupKeepsInstall ==
    USpec => [](GrantIsBacked /\ RuleIsWhole) /\ DoneIsComplete
  BY SetupImplementsInstall, InstallGrantIsBacked, InstallRuleIsWhole,
     InstallDoneIsComplete, PTL DEF ImplementsInstall

-----------------------------------------------------------------------------
(* The Steam shortcut: every copy of the list has at most one own entry.   *)

ListOK(list) == list \in Seq(Entry) /\ AtMostOneOwn(list)

Files == [kind : {"list", "broken", "empty"}, list : Seq(Entry)]

ShortcutInv ==
    /\ \A a \in Account : ListOK(vdf[a].list)
    /\ vdf \in [Account -> Files]
    /\ ListOK(entries)
    /\ ListOK(mem)
    /\ todo \subseteq Account

LEMMA EmptyIsOK == ListOK(<<>>)
  BY DEF ListOK, AtMostOneOwn, OwnPlaces

LEMMA AppendKeeps ==
  ASSUME NEW list, ListOK(list), NEW e \in Entry,
         e # Ours \/ OwnPlaces(list) = {}
  PROVE  ListOK(Append(list, e))
<1>1. Append(list, e) \in Seq(Entry)
  BY DEF ListOK
<1>2. \A i \in DOMAIN Append(list, e) : i \in DOMAIN list \/ i = Len(list) + 1
  BY DEF ListOK
<1>3. \A i \in DOMAIN list : Append(list, e)[i] = list[i]
  BY DEF ListOK
<1>4. Append(list, e)[Len(list) + 1] = e
  BY DEF ListOK
<1> QED
  BY <1>1, <1>2, <1>3, <1>4 DEF ListOK, AtMostOneOwn, OwnPlaces

LEMMA UpsertKeeps ==
  ASSUME NEW list, ListOK(list)
  PROVE  ListOK(Upsert(list))
  BY AppendKeeps DEF Upsert, Entry

LEMMA ShortcutInit == SInit => ShortcutInv
<1> SUFFICES ASSUME SInit PROVE ShortcutInv
  OBVIOUS
<1>1. \A a \in Account : ListOK(vdf[a].list) /\ vdf[a] \in Files
  <2> SUFFICES ASSUME NEW a \in Account PROVE ListOK(vdf[a].list) /\ vdf[a] \in Files
    OBVIOUS
  <2> USE DEF Files
  <2>1. CASE vdf[a] \in {File("empty", <<>>), File("broken", <<>>)}
    <3>1. <<>> \in Seq(Entry) /\ ListOK(<<>>)
      BY EmptyIsOK DEF ListOK
    <3>2. \A kind \in {"empty", "broken"} :
             File(kind, <<>>) \in Files /\ File(kind, <<>>).list = <<>>
      BY <3>1 DEF File
    <3>3. vdf[a].list = <<>> /\ vdf[a] \in Files
      BY <2>1, <3>2, Zenon
    <3> QED
      BY <3>1, <3>3
  <2>2. CASE vdf[a] \in {File("list", <<e>>) : e \in Entry}
    <3>1. PICK e \in Entry : vdf[a] = File("list", <<e>>)
      BY <2>2
    <3>2. ListOK(<<e>>)
      BY DEF ListOK, AtMostOneOwn, OwnPlaces
    <3> QED
      BY <3>1, <3>2 DEF File, ListOK
  <2> QED
    BY <2>1, <2>2 DEF SInit
<1> QED
  BY <1>1, EmptyIsOK DEF SInit, ShortcutInv

\* A file replaced by a list that is all right.
LEMMA FileReplaced ==
  ASSUME ShortcutInv, NEW a, NEW list, ListOK(list),
         vdf' = [vdf EXCEPT ![a] = File("list", list)]
  PROVE  /\ \A b \in Account : ListOK(vdf'[b].list)
         /\ vdf' \in [Account -> Files]
<1>1. File("list", list) \in Files
  BY DEF File, Files, ListOK
<1> QED
  BY <1>1 DEF ShortcutInv, File

LEMMA ShortcutNext == ShortcutInv /\ [UNext]_uvars => ShortcutInv'
<1> SUFFICES ASSUME ShortcutInv, [UNext]_uvars PROVE ShortcutInv'
  OBVIOUS
<1> USE DEF svars, kioskSteam, steamSelf, setup
<1>1. CASE UNCHANGED svars
  BY <1>1 DEF ShortcutInv
<1>2. CASE Launch \/ ToggleSteam \/ TapInstall \/ PollFailure \/ TryAgain \/ TerminalJob
           \/ JobSteps \/ UNCHANGED uvars
  BY <1>1, <1>2 DEF Launch, ToggleSteam, TapInstall, PollFailure, TryAgain, TerminalJob,
                    JobSteps, uvars
<1>3. CASE PollSuccess
  BY <1>3 DEF PollSuccess, FindAccounts, ShortcutInv
<1>4. CASE ShortcutsDone
  BY <1>4 DEF ShortcutsDone, ShortcutInv
<1>5. CASE CloseWindow \/ KioskDies
  BY <1>5, EmptyIsOK DEF CloseWindow, KioskDies, WindowGone, ShortcutInv
<1>6. CASE ReadShortcuts
  <2>1. ListOK(entries') /\ todo' \subseteq Account
    BY <1>6, EmptyIsOK, UpsertKeeps DEF ReadShortcuts, NextAccount, ShortcutInv
  <2> QED
    BY <1>6, <2>1 DEF ReadShortcuts, ShortcutInv
<1>7. CASE WriteTmp
  BY <1>7, EmptyIsOK DEF WriteTmp, NextAccount, ShortcutInv
<1>8. CASE Rename
  <2>1. ListOK(entries)
    BY DEF ShortcutInv
  <2> QED
    BY <1>8, <2>1, EmptyIsOK, FileReplaced DEF Rename, NextAccount, ShortcutInv
<1>9. CASE SteamStarts
  BY <1>9 DEF SteamStarts, ShortcutInv
<1>10. CASE SteamEdits
  <2>1. \A g \in Game : g \in Entry /\ g # Ours
    BY ShortcutsConstants DEF Entry
  <2>2. PICK g \in Game : mem' = Append(mem, g)
    BY <1>10 DEF SteamEdits
  <2>3. ListOK(mem')
    BY <2>1, <2>2, AppendKeeps DEF ShortcutInv
  <2> QED
    BY <1>10, <2>3 DEF SteamEdits, ShortcutInv
<1>11. CASE SteamSaves
  <2>1. ListOK(mem)
    BY DEF ShortcutInv
  <2> QED
    BY <1>11, <2>1, FileReplaced DEF SteamSaves, ShortcutInv
<1>12. CASE SteamExits
  BY <1>12, EmptyIsOK DEF SteamExits, ShortcutInv
<1> QED
  BY <1>2, <1>3, <1>4, <1>5, <1>6, <1>7, <1>8, <1>9, <1>10, <1>11, <1>12
  DEF UNext, ShortcutStep, UpsertStep, SteamSteps, SteamStep

\* Setup leaves one entry of ours at most, for any number of accounts and games,
\* however often it runs and whatever Steam writes back.
THEOREM SetupOneShortcut == USpec => []OneShortcut
<1>1. UInit => ShortcutInv
  BY ShortcutInit DEF UInit
<1>2. ShortcutInv => OneShortcut
  BY DEF ShortcutInv, ListOK, OneShortcut
<1> QED
  BY <1>1, <1>2, ShortcutNext, PTL DEF USpec

\* From the read to the rename: the list in hand is the one made of the file as
\* it stands, if Steam has not written it in between.
InHand ==
    step \in {"tmp", "rename"} =>
        /\ at \in Account
        /\ ~raced => vdf[at].kind # "broken" /\ entries = Upsert(vdf[at].list)

LEMMA UpsertSparesForeign ==
  ASSUME NEW list \in Seq(Entry)
  PROVE  Foreign(Upsert(list)) = Foreign(list)
<1>1. CASE OwnPlaces(list) # {}
  BY <1>1 DEF Upsert
<1>2. CASE OwnPlaces(list) = {}
  <2> DEFINE longer == Append(list, Ours)
  <2>1. DOMAIN longer = DOMAIN list \cup {Len(list) + 1} /\ Len(list) + 1 \notin DOMAIN list
    OBVIOUS
  <2>2. \A i \in DOMAIN list : longer[i] = list[i]
    OBVIOUS
  <2>3. longer[Len(list) + 1] = Ours
    OBVIOUS
  <2> HIDE DEF longer
  <2>4. OwnPlaces(longer) = {Len(list) + 1}
    BY <1>2, <2>1, <2>2, <2>3 DEF OwnPlaces
  <2>5. DOMAIN longer \ OwnPlaces(longer) = DOMAIN list \ OwnPlaces(list)
    BY <1>2, <2>1, <2>4
  <2>6. Foreign(longer) = Foreign(list)
    BY <2>2, <2>5 DEF Foreign
  <2> QED
    BY <1>2, <2>6 DEF Upsert, longer
<1> QED
  BY <1>1, <1>2

LEMMA InHandNext == ShortcutInv /\ InHand /\ [UNext]_uvars => InHand'
<1> SUFFICES ASSUME ShortcutInv, InHand, [UNext]_uvars, step' \in {"tmp", "rename"}
             PROVE  /\ at' \in Account
                    /\ ~raced' => vdf'[at'].kind # "broken" /\ entries' = Upsert(vdf'[at'].list)
  BY DEF InHand, Upsert, OwnPlaces
<1> USE DEF svars, kioskSteam, steamSelf, setup
<1>1. CASE UNCHANGED svars
  BY <1>1 DEF InHand
<1>2. CASE Launch \/ ToggleSteam \/ TapInstall \/ PollFailure \/ TryAgain \/ TerminalJob
           \/ JobSteps \/ UNCHANGED uvars
  BY <1>1, <1>2 DEF Launch, ToggleSteam, TapInstall, PollFailure, TryAgain, TerminalJob,
                    JobSteps, uvars
<1>3. CASE PollSuccess
  BY <1>3 DEF PollSuccess, FindAccounts, InHand
<1>4. CASE ShortcutsDone \/ CloseWindow \/ KioskDies
  BY <1>4 DEF ShortcutsDone, CloseWindow, KioskDies, WindowGone
<1>5. CASE ReadShortcuts
  BY <1>5 DEF ReadShortcuts, NextAccount, Parses, ShortcutInv
<1>6. CASE WriteTmp
  BY <1>6 DEF WriteTmp, NextAccount, InHand
<1>7. CASE Rename
  BY <1>7 DEF Rename, NextAccount
<1>8. CASE SteamStarts \/ SteamEdits \/ SteamExits
  BY <1>8 DEF SteamStarts, SteamEdits, SteamExits, InHand
<1>9. CASE SteamSaves
  BY <1>9 DEF SteamSaves, ShortcutInv, InHand
<1> QED
  BY <1>2, <1>3, <1>4, <1>5, <1>6, <1>7, <1>8, <1>9
  DEF UNext, ShortcutStep, UpsertStep, SteamSteps, SteamStep

\* Setup writes no file that it could not parse, and leaves every entry of the
\* user's own at its place, unless Steam wrote the file after it was read.
THEOREM SetupShortcutsKept == USpec => ShortcutsKept
<1> DEFINE Kept == Rename /\ ~raced => \A a \in Account :
              vdf'[a] # vdf[a] => /\ vdf[a].kind # "broken"
                                  /\ Foreign(vdf'[a].list) = Foreign(vdf[a].list)
<1>1. UInit => ShortcutInv /\ InHand
  BY ShortcutInit DEF UInit, SInit, InHand
<1>2. ShortcutInv /\ InHand /\ [UNext]_uvars => (ShortcutInv /\ InHand)'
  BY ShortcutNext, InHandNext
<1>3. ShortcutInv /\ InHand => Kept
  <2> SUFFICES ASSUME ShortcutInv, InHand, Rename, ~raced, NEW a \in Account, vdf'[a] # vdf[a]
               PROVE  /\ vdf[a].kind # "broken"
                      /\ Foreign(vdf'[a].list) = Foreign(vdf[a].list)
    OBVIOUS
  <2>1. vdf' = [vdf EXCEPT ![at] = File("list", entries)]
    BY DEF Rename
  <2>2. at = a /\ vdf'[a].list = entries
    BY <2>1 DEF ShortcutInv, File
  <2>3. vdf[a].kind # "broken" /\ entries = Upsert(vdf[a].list)
    BY <2>2 DEF InHand, Rename
  <2>4. vdf[a].list \in Seq(Entry)
    BY DEF ShortcutInv, ListOK
  <2> QED
    BY <2>2, <2>3, <2>4, UpsertSparesForeign
<1>4. ShortcutInv /\ InHand /\ [UNext]_uvars => [Kept]_svars
  BY <1>3
<1> QED
  BY <1>1, <1>2, <1>4, PTL DEF USpec, ShortcutsKept
==============================================================================
