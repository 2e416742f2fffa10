---------------------------- MODULE KioskProofs ----------------------------
(***************************************************************************)
(* What the kiosk guarantees about the daemons it starts, for every set of *)
(* faults, mishaps and elder's steps.  The memory of the daemon in hand is *)
(* touched by Deck's own actions alone, so what Deck's invariants say of   *)
(* that memory holds beside an elder too; what they say of the kernel and  *)
(* the files holds of a daemon that never had one.                         *)
(***************************************************************************)
EXTENDS Kiosk, DeckProofs

-----------------------------------------------------------------------------
(* The steps.                                                              *)

LEMMA StartIsNext == Start => Next
  BY DEF Next, Users

LEMMA TerminateIsNext == Terminate => Next
  BY DEF Next, Users

LEMMA KillIsNext == Kill => Next
  BY DEF Next, Users

LEMMA SendTermIsStep == SendTerm => [Next]_vars
  BY TerminateIsNext DEF SendTerm

LEMMA ForceKillIsStep == ForceKill => [Next]_vars
  BY KillIsNext DEF ForceKill

LEMMA DaemonIsStep == DaemonSteps => [Next]_vars
  BY DEF DaemonSteps, DaemonBoots, Next, MainThread, Boot, Users

\* A step of the kiosk is a step of the daemon in hand or none of its business,
\* unless a daemon starts beside it or its elder moves.
AloneStep ==
    /\ [Next]_vars
    /\ UNCHANGED elder
    /\ UNCHANGED company \/ (Start /\ company' = (epc # "off"))

LEMMA KioskStep ==
    [KNext]_kvars => AloneStep \/ BesideElder \/ ElderSteps
<1> SUFFICES ASSUME [KNext]_kvars PROVE AloneStep \/ BesideElder \/ ElderSteps
  OBVIOUS
<1> USE DEF AloneStep, older
<1>1. CASE SpawnDaemon
  BY <1>1, StartIsNext DEF SpawnDaemon
<1>2. CASE Launch \/ RestartDaemon
  BY <1>1, <1>2 DEF Launch, RestartDaemon
<1>3. CASE Reap \/ PairSaves \/ Unpair \/ TapForget \/ Disarm \/ ShutdownFinished \/ DropFinished
  BY <1>3 DEF Reap, PairSaves, Unpair, TapForget, Disarm, ShutdownFinished, DropFinished
<1>4. CASE TapPause
  BY <1>4 DEF TapPause, Next, Users
<1>5. CASE TapExit \/ ConfirmForget \/ CloseRequest
  BY <1>5, SendTermIsStep DEF TapExit, ConfirmForget, CloseRequest, BeginShutdown
<1>6. CASE ShutdownTimesOut \/ DropTimesOut
  BY <1>6, ForceKillIsStep DEF ShutdownTimesOut, DropTimesOut
<1>7. CASE DaemonSteps
  BY <1>7, DaemonIsStep DEF DaemonSteps
<1>8. CASE OutsideSignal
  BY <1>8, TerminateIsNext, KillIsNext DEF OutsideSignal
<1>9. CASE UNCHANGED kvars
  BY <1>9 DEF kvars
<1> QED
  BY <1>2, <1>3, <1>4, <1>5, <1>6, <1>7, <1>8, <1>9 DEF KNext

-----------------------------------------------------------------------------
(* The elder.                                                              *)

\* What the elder's tick needs for the record it may still write to be
\* coherent, and where an elder can be at all.
ElderByStep ==
    /\ epc \notin BootSteps
    /\ epc # "off" => company
    /\ estate = "Bound" /\ epc \in {"firewall", "inhibit", "refresh", "reinstall", "publish"}
          => ebeaconPresent /\ ~epaused
    /\ estate = "Bound" => efailures = 0

LEMMA ElderLoads ==
    ASSUME TypeOK, NEW ip \in Addr \cup {NoAddr}
    PROVE  Elder!NoTable \in Tables /\ Elder!Loaded(ip) \subseteq Tables
<1>1. NoTable = Elder!NoTable /\ \A a : Rule(a) = Elder!Rule(a)
  BY DEF NoTable, Rule, Elder!NoTable, Elder!Rule
<1>2. Elder!Loaded(ip) = Loaded(ip)
  BY <1>1 DEF Loaded, Elder!Loaded
<1> QED
  BY <1>1, <1>2, TableTypes

LEMMA ElderSets == Elder!Tables = Tables /\ Elder!Statuses = Statuses
  BY DEF Elder!Tables, Tables, Elder!NoTable, NoTable, Elder!Rule, Rule, Elder!Statuses, Statuses

LEMMA ElderStatusType == Elder!TypeOK => Elder!CurrentStatus \in Statuses
  BY DeckConstants DEF Elder!TypeOK, Elder!CurrentStatus, Statuses, Elder!BindError

LEMMA ElderFailuresType ==
    ASSUME NEW n \in 0 .. MaxFailures
    PROVE  Elder!Min2(n + 1, MaxFailures) \in 0 .. MaxFailures
  BY DeckConstants DEF Elder!Min2

LEMMA ElderKeepsTypes == TypeOK /\ Elder!TypeOK /\ ElderSteps => Elder!TypeOK'
<1> SUFFICES ASSUME TypeOK, Elder!TypeOK, ElderSteps PROVE Elder!TypeOK'
  OBVIOUS
<1> USE ElderSets
    DEF Elder!TypeOK, Elder!BootSteps, Elder!TickSteps, Elder!ShutdownSteps, Elder!Goto,
        Elder!kernel, Elder!files, Elder!beacon, Elder!sample, Elder!conn, Elder!guards,
        Elder!memory
<1>0. (epc # "off")' \in BOOLEAN /\ (eaddr \in {})' \in BOOLEAN
  OBVIOUS
<1>1. CASE Elder!SampleBeacon
  BY <1>0, <1>1
     DEF Elder!SampleBeacon
<1>2. CASE Elder!SamplePaused
  BY <1>0, <1>2
     DEF Elder!SamplePaused
<1>3. CASE Elder!BindSucceeds
  BY <1>0, <1>3, DeckConstants
     DEF Elder!BindSucceeds, Elder!FailuresAfterBind
<1>4. CASE Elder!BindFails
  BY <1>0, <1>4, ElderFailuresType
     DEF Elder!BindFails
<1>5. CASE Elder!TickUnbinds
  <2>1. exported' \in BOOLEAN
    BY <1>5 DEF Elder!TickUnbinds, Elder!RunUnbind
  <2> QED
    BY <1>0, <1>5, <2>1
       DEF Elder!TickUnbinds, Elder!RunUnbind
<1>6. CASE Elder!TickKeepsState
  BY <1>0, <1>6
     DEF Elder!TickKeepsState
<1>7. CASE Elder!ApplyFirewall
  BY <1>0, <1>7, ElderLoads
     DEF Elder!ApplyFirewall, Elder!InstallLock, Elder!LockOnUnbind, Elder!DropLock
<1>8. CASE Elder!ApplyInhibit
  <2>1. eidleInhibit' \in BOOLEAN
    BY <1>8 DEF Elder!ApplyInhibit, Elder!InhibitOnUnbind
  <2> QED
    BY <1>0, <1>8, <2>1
       DEF Elder!ApplyInhibit, Elder!InhibitOnUnbind
<1>9. CASE Elder!RefreshDrops
  BY <1>0, <1>9, ElderLoads
     DEF Elder!RefreshDrops, Elder!PeerMoved, Elder!DropLock
<1>10. CASE Elder!RefreshNotNeeded
  BY <1>0, <1>10
     DEF Elder!RefreshNotNeeded
<1>11. CASE Elder!RefreshInstalls
  BY <1>0, <1>11, ElderLoads
     DEF Elder!RefreshInstalls, Elder!InstallLock
<1>12. CASE Elder!StatusUnchanged
  BY <1>0, <1>12
     DEF Elder!StatusUnchanged
<1>13. CASE Elder!StatusWritten
  BY <1>0, <1>13, ElderStatusType
     DEF Elder!StatusWritten
<1>14. CASE Elder!StatusWriteFails
  BY <1>0, <1>14
     DEF Elder!StatusWriteFails, Elder!LastStatusOnError
<1>15. CASE Elder!SeesTerm
  BY <1>0, <1>15
     DEF Elder!SeesTerm
<1>16. CASE Elder!ShutdownUnbinds
  <2>1. exported' \in BOOLEAN
    BY <1>16 DEF Elder!ShutdownUnbinds, Elder!FinalTick, Elder!RunUnbind
  <2> QED
    BY <1>0, <1>16, <2>1
       DEF Elder!ShutdownUnbinds, Elder!FinalTick, Elder!RunUnbind
<1>17. CASE Elder!ShutdownUnlocks
  BY <1>0, <1>17, ElderLoads
     DEF Elder!ShutdownUnlocks, Elder!DropLock
<1>18. CASE Elder!ShutdownUninhibits
  <2>1. eidleInhibit' \in BOOLEAN
    BY <1>18 DEF Elder!ShutdownUninhibits
  <2> QED
    BY <1>0, <1>18, <2>1
       DEF Elder!ShutdownUninhibits
<1>19. CASE Elder!ShutdownClears
  <2>1. ebeaconPresent' \in BOOLEAN /\ epaused' \in BOOLEAN /\ eidleInhibit' \in BOOLEAN
    BY <1>19 DEF Elder!ShutdownClears, Elder!ProcessEnds, Elder!MemoryIsCleared
  <2> QED
    BY <1>0, <1>19, <2>1, DeckConstants
       DEF Elder!ShutdownClears, Elder!ProcessEnds, Elder!MemoryIsCleared
<1>20. CASE Elder!HotkeyToggle
  BY <1>0, <1>20
     DEF Elder!HotkeyToggle
<1>21. CASE Elder!Kill
  <2>1. ebeaconPresent' \in BOOLEAN /\ epaused' \in BOOLEAN /\ eidleInhibit' \in BOOLEAN /\ orphan' \in BOOLEAN
    BY <1>21 DEF Elder!Kill, Elder!ProcessEnds, Elder!MemoryIsCleared
  <2> QED
    BY <1>0, <1>21, <2>1, DeckConstants
       DEF Elder!Kill, Elder!ProcessEnds, Elder!MemoryIsCleared
<1> QED
  BY <1>1, <1>2, <1>3, <1>4, <1>5, <1>6, <1>7, <1>8, <1>9, <1>10, <1>11, <1>12, <1>13,
     <1>14, <1>15, <1>16, <1>17, <1>18, <1>19, <1>20, <1>21
  DEF ElderSteps, Elder!Tick, Elder!Shutdown

LEMMA ElderKeepsStep == Elder!TypeOK /\ ElderByStep /\ ElderSteps => ElderByStep'
<1> SUFFICES ASSUME Elder!TypeOK, ElderByStep, ElderSteps PROVE ElderByStep'
  OBVIOUS
<1>0. UNCHANGED company /\ epc # "off"
  BY DEF ElderSteps
<1> USE <1>0 DEF Elder!TypeOK, ElderByStep, BootSteps, Elder!Goto, Elder!EffectivePeerPresent,
        Elder!kernel, Elder!files, Elder!beacon, Elder!sample, Elder!conn, Elder!guards,
        Elder!memory
<1>1. CASE Elder!SampleBeacon
  BY <1>1 DEF Elder!SampleBeacon
<1>2. CASE Elder!SamplePaused
  BY <1>2 DEF Elder!SamplePaused
<1>3. CASE Elder!BindSucceeds
  BY <1>3 DEF Elder!BindSucceeds, Elder!FailuresAfterBind
<1>4. CASE Elder!BindFails
  BY <1>4 DEF Elder!BindFails
<1>5. CASE Elder!TickUnbinds
  BY <1>5 DEF Elder!TickUnbinds, Elder!RunUnbind
<1>6. CASE Elder!TickKeepsState
  BY <1>6 DEF Elder!TickKeepsState
<1>7. CASE Elder!ApplyFirewall
  BY <1>7 DEF Elder!ApplyFirewall, Elder!InstallLock, Elder!LockOnUnbind, Elder!DropLock
<1>8. CASE Elder!ApplyInhibit
  BY <1>8 DEF Elder!ApplyInhibit, Elder!InhibitOnUnbind
<1>9. CASE Elder!RefreshDrops
  BY <1>9 DEF Elder!RefreshDrops, Elder!PeerMoved, Elder!DropLock
<1>10. CASE Elder!RefreshNotNeeded
  BY <1>10 DEF Elder!RefreshNotNeeded
<1>11. CASE Elder!RefreshInstalls
  BY <1>11 DEF Elder!RefreshInstalls, Elder!InstallLock
<1>12. CASE Elder!StatusUnchanged
  BY <1>12 DEF Elder!StatusUnchanged
<1>13. CASE Elder!StatusWritten
  BY <1>13 DEF Elder!StatusWritten
<1>14. CASE Elder!StatusWriteFails
  BY <1>14 DEF Elder!StatusWriteFails, Elder!LastStatusOnError
<1>15. CASE Elder!SeesTerm
  BY <1>15 DEF Elder!SeesTerm
<1>16. CASE Elder!ShutdownUnbinds
  BY <1>16 DEF Elder!ShutdownUnbinds, Elder!FinalTick, Elder!RunUnbind
<1>17. CASE Elder!ShutdownUnlocks
  BY <1>17 DEF Elder!ShutdownUnlocks, Elder!DropLock
<1>18. CASE Elder!ShutdownUninhibits
  BY <1>18 DEF Elder!ShutdownUninhibits
<1>19. CASE Elder!ShutdownClears
  BY <1>19 DEF Elder!ShutdownClears, Elder!ProcessEnds, Elder!MemoryIsCleared
<1>20. CASE Elder!HotkeyToggle
  BY <1>20 DEF Elder!HotkeyToggle
<1>21. CASE Elder!Kill
  BY <1>21 DEF Elder!Kill, Elder!ProcessEnds, Elder!MemoryIsCleared
<1> QED
  BY <1>1, <1>2, <1>3, <1>4, <1>5, <1>6, <1>7, <1>8, <1>9, <1>10, <1>11, <1>12, <1>13,
     <1>14, <1>15, <1>16, <1>17, <1>18, <1>19, <1>20, <1>21
  DEF ElderSteps, Elder!Tick, Elder!Shutdown

\* A process with cleared memory has the type and the invariant of a new one.
LEMMA ClearedMemory ==
    TypeOK /\ MemoryIsCleared /\ Goto("boot") /\ UNCHANGED <<kernel, files>> => TypeOK' /\ Steps'
<1> SUFFICES ASSUME TypeOK, MemoryIsCleared, Goto("boot"), UNCHANGED <<kernel, files>>
             PROVE  TypeOK' /\ Steps'
  OBVIOUS
<1>1. /\ term' \in BOOLEAN /\ fresh' \in BOOLEAN /\ beaconPresent' \in BOOLEAN
      /\ paused' \in BOOLEAN /\ idleInhibit' \in BOOLEAN
  BY DEF MemoryIsCleared
<1>2. TypeOK'
  BY <1>1, DeckConstants DEF TypeOK, MemoryIsCleared, Goto, BootSteps, kernel, files
<1>3. Steps'
  BY DEF MemoryIsCleared, Goto, BootSteps, Steps, ColdStart, ShutdownOrder, LockByStep,
         InhibitByStep, SamplesByStep, AddressKnown, GuardedByStep
<1> QED
  BY <1>2, <1>3

LEMMA BecomesElder == TypeOK /\ Steps /\ BesideElder => Elder!TypeOK' /\ ElderByStep'
<1> SUFFICES ASSUME TypeOK, Steps, BesideElder PROVE Elder!TypeOK' /\ ElderByStep'
  OBVIOUS
<1>1. pc \in TickSteps \cup ShutdownSteps
  BY KioskConstants DEF BesideElder
<1>2. /\ InTick(beaconPresent, FALSE) \in BOOLEAN
      /\ InTick(paused, FALSE) \in BOOLEAN
      /\ idleInhibit \in BOOLEAN
  BY DEF InTick, TypeOK
<1>3. /\ ebeaconPresent' \in BOOLEAN /\ epaused' \in BOOLEAN /\ eidleInhibit' \in BOOLEAN
  BY <1>2, Zenon DEF BesideElder
<1>4. (epc # "off")' \in BOOLEAN /\ (eaddr \in {})' \in BOOLEAN
  OBVIOUS
<1>5. /\ exported' \in BOOLEAN /\ orphan' \in BOOLEAN /\ pausedFile' \in BOOLEAN
      /\ table' \in Tables /\ statusFile' \in Statuses \cup {NoStatus}
  BY DEF BesideElder, TypeOK, kernel, files
<1>6. /\ epc' \in TickSteps \cup ShutdownSteps
      /\ eaddr' \in Addr \cup {NoAddr} /\ estate' \in {"Idle", "Bound"}
      /\ efailures' \in 0 .. MaxFailures
      /\ epeerLock' \in Addr \cup {NoAddr} /\ enewIp' \in Addr \cup {NoAddr}
      /\ elastStatus' \in Statuses \cup {NoStatus}
  BY <1>1, DeckConstants DEF BesideElder, InTick, TypeOK
<1>7. Elder!TypeOK'
  BY <1>3, <1>4, <1>5, <1>6, ElderSets
     DEF Elder!TypeOK, Elder!BootSteps, Elder!TickSteps, Elder!ShutdownSteps, TickSteps,
         ShutdownSteps
<1>8. company' = TRUE
  BY DEF BesideElder
<1>9. ElderByStep'
  BY <1>1, <1>8 DEF BesideElder, InTick, ElderByStep, BootSteps, TickSteps, ShutdownSteps, Steps,
              SamplesByStep, TypeOK
<1> QED
  BY <1>7, <1>9

-----------------------------------------------------------------------------
(* The memory of the daemon in hand, and of its elder.                     *)

Memories ==
    /\ TypeOK
    /\ Steps
    /\ Elder!TypeOK
    /\ ElderByStep

LEMMA ElderFrame == UNCHANGED <<pc, memory>> /\ Steps => Steps'
  BY DEF memory, beacon, sample, conn, guards, Steps, ColdStart, ShutdownOrder, LockByStep,
         InhibitByStep, SamplesByStep, AddressKnown, GuardedByStep

LEMMA InitMemories == KInit => Memories
<1> SUFFICES ASSUME KInit PROVE Memories
  OBVIOUS
<1>1. TypeOK /\ Steps
  BY InitTypeOK, InitSteps DEF KInit
<1>2. /\ ebeaconPresent \in BOOLEAN /\ epaused \in BOOLEAN /\ eidleInhibit \in BOOLEAN
      /\ (epc # "off") \in BOOLEAN /\ (eaddr \in {}) \in BOOLEAN
  BY DEF KInit, Elder!MemoryIsFresh
<1>3. /\ epc = "off" /\ eaddr = NoAddr /\ estate = "Idle" /\ efailures = 0
      /\ epeerLock = NoAddr /\ enewIp = NoAddr /\ elastStatus = NoStatus
  BY DEF KInit, Elder!MemoryIsFresh
<1>4. Elder!TypeOK
  BY <1>1, <1>2, <1>3, ElderSets, DeckConstants DEF Elder!TypeOK, TypeOK
<1>5. ElderByStep
  BY <1>3 DEF ElderByStep, BootSteps
<1> QED
  BY <1>1, <1>4, <1>5 DEF Memories

LEMMA NextMemories == Memories /\ [KNext]_kvars => Memories'
<1> SUFFICES ASSUME Memories, [KNext]_kvars PROVE Memories'
  OBVIOUS
<1> USE DEF Memories
<1>1. CASE AloneStep
  <2>1. TypeOK' /\ Steps'
    BY <1>1, NextTypeOK, NextSteps DEF AloneStep
  <2>2. Elder!TypeOK'
    <3>1. (epc # "off")' \in BOOLEAN /\ (eaddr \in {})' \in BOOLEAN
      OBVIOUS
    <3> QED
      BY <1>1, <2>1, <3>1, ElderSets DEF AloneStep, elder, TypeOK, Elder!TypeOK, Elder!BootSteps,
         Elder!TickSteps, Elder!ShutdownSteps
  <2>3. ElderByStep'
    <3>1. (epc # "off" => company)'
      <4>1. epc' = epc
        BY <1>1 DEF AloneStep, elder
      <4>2. company' = company \/ company' = (epc # "off")
        BY <1>1, Zenon DEF AloneStep
      <4>3. epc # "off" => company
        BY DEF ElderByStep
      <4>4. CASE company' = company
        BY <4>1, <4>3, <4>4
      <4>5. CASE company' = (epc # "off")
        BY <4>1, <4>5
      <4> QED
        BY <4>2, <4>4, <4>5
    <3> QED
      BY <1>1, <3>1 DEF AloneStep, elder, ElderByStep
  <2> QED
    BY <2>1, <2>2, <2>3
<1>2. CASE BesideElder
  BY <1>2, ClearedMemory, BecomesElder DEF BesideElder
<1>3. CASE ElderSteps
  <2>1. Elder!TypeOK' /\ ElderByStep'
    BY <1>3, ElderKeepsTypes, ElderKeepsStep
  <2>2. Steps'
    BY <1>3, ElderFrame DEF ElderSteps
  <2>3. /\ exported' \in BOOLEAN /\ orphan' \in BOOLEAN /\ pausedFile' \in BOOLEAN
        /\ table' \in Tables /\ statusFile' \in Statuses \cup {NoStatus}
    BY <2>1, ElderSets DEF Elder!TypeOK
  <2>4. UNCHANGED <<pc, memory>>
    BY <1>3 DEF ElderSteps
  <2>5. /\ term' \in BOOLEAN /\ fresh' \in BOOLEAN /\ beaconPresent' \in BOOLEAN
        /\ paused' \in BOOLEAN /\ idleInhibit' \in BOOLEAN
    BY <2>4 DEF TypeOK, memory, beacon, sample, guards
  <2>6. TypeOK'
    BY <2>3, <2>4, <2>5 DEF TypeOK, memory, beacon, sample, conn, guards
  <2> QED
    BY <2>1, <2>2, <2>6
<1> QED
  BY <1>1, <1>2, <1>3, KioskStep

LEMMA KioskMemories == KSpec => []Memories
  BY InitMemories, NextMemories, PTL DEF KSpec

\* Type correctness, of the kiosk and of both daemons.
THEOREM KioskTypeOK == KSpec => []KTypeOK
<1> DEFINE Own == /\ screen \in {"closed", "pair", "main", "stopping", "dropping"}
                  /\ child \in {"none", "alive", "immune", "exited"}
                  /\ trust \in BOOLEAN
                  /\ armed \in BOOLEAN
                  /\ company \in BOOLEAN
<1>1. KInit => Own
  <2> SUFFICES ASSUME KInit PROVE Own
    OBVIOUS
  <2>1. trust \in BOOLEAN /\ armed \in BOOLEAN /\ company \in BOOLEAN
    BY DEF KInit
  <2> QED
    BY <2>1 DEF KInit
<1>2. Own /\ [KNext]_kvars => Own'
  <2> SUFFICES ASSUME Own, [KNext]_kvars PROVE Own'
    OBVIOUS
  <2>1. trust' \in BOOLEAN
    BY DEF KNext, kvars, Launch, RestartDaemon, Reap, PairSaves, Unpair, TapPause, TapExit,
           TapForget, Disarm, ConfirmForget, CloseRequest, ShutdownFinished,
           ShutdownTimesOut, DropTimesOut, DropFinished, DaemonSteps, ElderSteps,
           OutsideSignal
  <2>2. armed' \in BOOLEAN
    BY DEF KNext, kvars, Launch, RestartDaemon, Reap, PairSaves, Unpair, TapPause, TapExit,
           TapForget, Disarm, ConfirmForget, CloseRequest, ShutdownFinished,
           ShutdownTimesOut, DropTimesOut, DropFinished, DaemonSteps, ElderSteps,
           OutsideSignal
  <2>3. company' \in BOOLEAN
    BY KioskStep DEF AloneStep, BesideElder, ElderSteps
  <2>4. screen' \in {"closed", "pair", "main", "stopping", "dropping"}
    BY DEF KNext, kvars, Launch, RestartDaemon, Reap, PairSaves, Unpair, TapPause, TapExit,
           TapForget, Disarm, ConfirmForget, CloseRequest, ShutdownFinished,
           ShutdownTimesOut, DropTimesOut, DropFinished, DaemonSteps, ElderSteps,
           OutsideSignal, BeginShutdown, ClosesNow
  <2>5. child' \in {"none", "alive", "immune", "exited"}
    BY DEF KNext, kvars, Launch, RestartDaemon, Reap, PairSaves, Unpair, TapPause, TapExit,
           TapForget, Disarm, ConfirmForget, CloseRequest, ShutdownFinished,
           ShutdownTimesOut, DropTimesOut, DropFinished, DaemonSteps, ElderSteps,
           OutsideSignal, BeginShutdown, ClosesNow, SpawnDaemon, Spawned, ForceKill
  <2> QED
    BY <2>1, <2>2, <2>3, <2>4, <2>5
<1>3. Own /\ Memories => KTypeOK
  BY DEF Memories, KTypeOK
<1> QED
  BY <1>1, <1>2, <1>3, KioskMemories, PTL DEF KSpec

-----------------------------------------------------------------------------
(* The daemon in hand.                                                     *)

\* A daemon that has no elder beside it takes Deck's steps.
THEOREM KioskImplementsDeck == KSpec => ImplementsDeck
<1>1. KInit => Init
  BY DEF KInit
<1>2. Memories /\ [KNext]_kvars => [~company' => Next]_vars
  <2> SUFFICES ASSUME Memories, [KNext]_kvars PROVE [~company' => Next]_vars
    OBVIOUS
  <2>1. CASE AloneStep
    BY <2>1 DEF AloneStep
  <2>2. CASE BesideElder
    BY <2>2 DEF BesideElder
  <2>3. CASE ElderSteps
    BY <2>3 DEF ElderSteps, Memories, ElderByStep
  <2> QED
    BY <2>1, <2>2, <2>3, KioskStep
<1> QED
  BY <1>1, <1>2, KioskMemories, PTL DEF KSpec, ImplementsDeck

\* What a step means for lock and rule, for last_status and the file, and for
\* the record the kiosk reads.
LEMMA InitAlone == KInit => LockHeldAlone /\ StatusHeldAlone /\ StatusIsCoherent
  BY DEF KInit, Init, MemoryIsFresh, LockHeldAlone, LockIsInstalled, StatusHeldAlone,
         LastStatusIsOnDisk, StatusIsCoherent

LEMMA NextAlone ==
    Memories /\ LockHeldAlone /\ StatusHeldAlone /\ [KNext]_kvars
        => LockHeldAlone' /\ StatusHeldAlone'
<1> SUFFICES ASSUME Memories, LockHeldAlone, StatusHeldAlone, [KNext]_kvars, ~company'
             PROVE  LockIsInstalled' /\ LastStatusIsOnDisk'
  BY DEF LockHeldAlone, StatusHeldAlone
<1>1. CASE AloneStep /\ ~company
  BY <1>1, NextLockIsInstalled, NextLastStatusIsOnDisk
  DEF AloneStep, Memories, LockHeldAlone, StatusHeldAlone
<1>2. CASE Start
  <2>1. peerLock' = NoAddr /\ lastStatus' = NoStatus
    BY <1>2 DEF Start, Memories, Steps, ColdStart, memory, guards
  <2> QED
    BY <2>1 DEF LockIsInstalled, LastStatusIsOnDisk
<1>3. ~BesideElder /\ ~ElderSteps
  BY DEF BesideElder, ElderSteps, Memories, ElderByStep
<1> QED
  BY <1>1, <1>2, <1>3, KioskStep DEF AloneStep

LEMMA ElderWritesCoherently ==
    Memories /\ StatusIsCoherent /\ ElderSteps => StatusIsCoherent'
<1> SUFFICES ASSUME Memories, StatusIsCoherent, ElderSteps PROVE StatusIsCoherent'
  OBVIOUS
<1>1. CASE Elder!StatusWritten
  <2>1. Elder!CurrentStatus.bound =>
            /\ Elder!CurrentStatus.present
            /\ ~Elder!CurrentStatus.paused
            /\ Elder!CurrentStatus.error = 0
    BY <1>1, DeckConstants
       DEF Elder!StatusWritten, Memories, ElderByStep, Elder!CurrentStatus, Elder!BindError
  <2> QED
    BY <1>1, <2>1 DEF Elder!StatusWritten, StatusIsCoherent
<1>2. CASE Elder!ShutdownClears
  BY <1>2 DEF Elder!ShutdownClears, StatusIsCoherent
<1>3. ASSUME ~Elder!StatusWritten, ~Elder!ShutdownClears
      PROVE  statusFile' = statusFile
  BY <1>3 DEF ElderSteps, Elder!Tick, Elder!Shutdown, Elder!files,
     Elder!SampleBeacon, Elder!SamplePaused, Elder!BindSucceeds, Elder!BindFails,
     Elder!TickUnbinds, Elder!TickKeepsState, Elder!ApplyFirewall, Elder!ApplyInhibit,
     Elder!RefreshDrops, Elder!RefreshNotNeeded, Elder!RefreshInstalls,
     Elder!StatusUnchanged, Elder!StatusWriteFails, Elder!SeesTerm,
     Elder!ShutdownUnbinds, Elder!ShutdownUnlocks, Elder!ShutdownUninhibits,
     Elder!HotkeyToggle, Elder!Kill
<1> QED
  BY <1>1, <1>2, <1>3 DEF StatusIsCoherent

LEMMA NextCoherent == Memories /\ StatusIsCoherent /\ [KNext]_kvars => StatusIsCoherent'
<1> SUFFICES ASSUME Memories, StatusIsCoherent, [KNext]_kvars PROVE StatusIsCoherent'
  OBVIOUS
<1>1. CASE AloneStep
  BY <1>1, NextStatusIsCoherent DEF AloneStep, Memories
<1>2. CASE BesideElder
  BY <1>2 DEF BesideElder, files, StatusIsCoherent
<1> QED
  BY <1>1, <1>2, ElderWritesCoherently, KioskStep

\* What the daemon promises of itself it promises under a kiosk, beside an
\* elder or not; what it promises of the kernel's table and of status.json it
\* promises as long as no elder shares them.
THEOREM KioskKeepsGuards ==
    KSpec => [](/\ GuardsEndWithBinding
                /\ BoundIsGuarded
                /\ StatusIsCoherent
                /\ LockHeldAlone
                /\ StatusHeldAlone)
<1>1. Memories => GuardsEndWithBinding /\ BoundIsGuarded
  BY DEF Memories, Steps, LockByStep, InhibitByStep, GuardedByStep, GuardsEndWithBinding,
         BoundIsGuarded
<1> QED
  BY <1>1, InitAlone, NextAlone, NextCoherent, KioskMemories, PTL DEF KSpec

-----------------------------------------------------------------------------
(* Supervision.  pc and term move together in only a few ways.             *)

\* What a step that is not the kiosk's own spawn does to a live daemon.
LiveFrame ==
    /\ pc = "off" => pc' = "off"
    /\ term => term' \/ pc' = "off"

LEMMA DaemonFrame == TypeOK /\ (DaemonSteps \/ Terminate \/ Kill) => LiveFrame
  BY DEF LiveFrame, DaemonSteps, DaemonBoots, Tick, Shutdown, RecvThread, TypeOK, Goto,
         memory, Running, BootSteps, TickSteps, ShutdownSteps, Terminate, Kill, ProcessEnds,
         LoadTrust, Listen, SampleBeacon, SamplePaused, BindSucceeds, BindFails, TickUnbinds,
         TickKeepsState, ApplyFirewall, ApplyInhibit, RefreshDrops,
         RefreshNotNeeded, RefreshInstalls, StatusUnchanged, StatusWritten,
         StatusWriteFails, SeesTerm, ShutdownUnbinds, ShutdownUnlocks,
         ShutdownUninhibits, ShutdownClears, HandleBeacon, BeaconGoesStale,
         HotkeyToggle

Told == pc = "off" \/ term

LEMMA SendTermStops ==
    ASSUME TypeOK, NoStrayDaemon, SendTerm
    PROVE  Told' \/ child = "immune"
  BY DEF Told, SendTerm, Terminate, TypeOK, NoStrayDaemon, Living, vars, memory, Goto,
         Running, BootSteps, TickSteps, ShutdownSteps

LEMMA ForceKillStops ==
    ASSUME Told, ForceKill
    PROVE  Told'
  BY DEF Told, ForceKill, Kill, ProcessEnds, MemoryIsCleared, Goto, vars, memory

\* A window that is going away has told its daemon, if that can be told; only
\* the window of the panel, or one that is going away, waits for a child.
Supervised ==
    /\ NoStrayDaemon
    /\ screen \in {"stopping", "dropping"} => Told \/ child = "immune"
    /\ screen \in {"closed", "pair"} => ~Living

LEMMA InitSupervised == KInit => Supervised
  BY DEF KInit, Init, Supervised, NoStrayDaemon, Living

LEMMA NextSupervised == KTypeOK /\ Supervised /\ [KNext]_kvars => Supervised'
<1> SUFFICES ASSUME KTypeOK, Supervised, [KNext]_kvars PROVE Supervised'
  OBVIOUS
<1> USE DEF KTypeOK, Supervised, NoStrayDaemon, Living, Told
<1>1. CASE Launch \/ RestartDaemon
  <2>1. CASE SpawnDaemon
    BY <1>1, <2>1 DEF Launch, RestartDaemon, SpawnDaemon, Spawned, BesideElder, Start, vars, memory
  <2>2. CASE ~SpawnDaemon
    BY <1>1, <2>2 DEF Launch, RestartDaemon, vars, memory
  <2> QED
    BY <2>1, <2>2
<1>2. CASE Reap \/ PairSaves \/ Unpair \/ TapForget \/ Disarm
  BY <1>2 DEF Reap, PairSaves, Unpair, TapForget, Disarm, StatusPanel, vars, memory
<1>3. CASE TapPause
  BY <1>3 DEF TapPause, StatusPanel, KioskToggle, memory
<1>4. CASE TapExit \/ ConfirmForget
  <2>1. Told' \/ child = "immune"
    BY <1>4, SendTermStops DEF TapExit, ConfirmForget, BeginShutdown
  <2> QED
    BY <1>4, <2>1 DEF TapExit, ConfirmForget, BeginShutdown
<1>5. CASE CloseRequest
  <2>1. CASE SendTerm /\ screen' \in {"stopping", "dropping"} /\ UNCHANGED child
    <3>1. Told' \/ child = "immune"
      BY <2>1, SendTermStops
    <3> QED
      BY <2>1, <3>1
  <2>2. CASE ~Living /\ ClosesNow /\ UNCHANGED <<vars, trust, armed>>
    BY <2>2 DEF ClosesNow, vars, memory
  <2> QED
    BY <1>5, <2>1, <2>2 DEF CloseRequest, BeginShutdown
<1>6. CASE ShutdownFinished \/ DropFinished
  BY <1>6 DEF ShutdownFinished, DropFinished, ClosesNow, vars, memory
<1>7. CASE ShutdownTimesOut \/ DropTimesOut
  <2>1. CASE child = "alive"
    <3>1. Told
      BY <1>7, <2>1 DEF ShutdownTimesOut, DropTimesOut
    <3>2. Told'
      BY <1>7, <3>1, ForceKillStops DEF ShutdownTimesOut, DropTimesOut
    <3> QED
      BY <1>7, <2>1, <3>2 DEF ShutdownTimesOut, DropTimesOut, ForceKill
  <2>2. CASE child = "immune"
    BY <1>7, <2>2 DEF ShutdownTimesOut, DropTimesOut, ForceKill, vars, memory
  <2> QED
    BY <1>7, <2>1, <2>2 DEF ShutdownTimesOut, DropTimesOut
<1>8. CASE DaemonSteps \/ OutsideSignal
  <2>1. LiveFrame
    BY <1>8, DaemonFrame DEF OutsideSignal
  <2>2. UNCHANGED <<screen, child, trust, armed>>
    BY <1>8 DEF DaemonSteps, OutsideSignal
  <2> QED
    BY <2>1, <2>2 DEF LiveFrame
<1>9. CASE ElderSteps \/ UNCHANGED kvars
  BY <1>9 DEF ElderSteps, kvars, vars, memory
<1> QED
  BY <1>1, <1>2, <1>3, <1>4, <1>5, <1>6, <1>7, <1>8, <1>9 DEF KNext

LEMMA KioskSupervised == KSpec => []Supervised
  BY KioskTypeOK, InitSupervised, NextSupervised, PTL DEF KSpec

\* No live daemon is without a kiosk that waits for it, unless it is on its
\* way out.
THEOREM KioskNoStrayDaemon == KSpec => []NoStrayDaemon
<1>1. Supervised => NoStrayDaemon
  BY DEF Supervised
<1> QED
  BY <1>1, KioskSupervised, PTL

-----------------------------------------------------------------------------
(* Without a grace window that ends early.                                 *)

\* A live daemon is the child, and the windows without one have none.
Attended ==
    /\ pc # "off" => Living
    /\ epc = "off" /\ ~company

LEMMA NextAttended ==
    Mishaps \cap {"grace", "drop"} = {} =>
        (KTypeOK /\ Supervised /\ Attended /\ [KNext]_kvars => Attended' /\ [Next]_vars)
<1> SUFFICES ASSUME Mishaps \cap {"grace", "drop"} = {}, KTypeOK, Supervised, Attended,
                    [KNext]_kvars
             PROVE  Attended' /\ [Next]_vars
  OBVIOUS
<1> USE DEF Attended, Living
<1>1. ~ElderSteps /\ ~ShutdownTimesOut /\ ~DropTimesOut
  BY DEF ElderSteps, ShutdownTimesOut, DropTimesOut
<1>2. CASE Launch \/ RestartDaemon
  <2>1. pc = "off"
    BY <1>2 DEF Launch, RestartDaemon, Supervised
  <2>2. CASE SpawnDaemon
    <3>1. ~BesideElder
      BY <2>1, KioskConstants DEF BesideElder, TickSteps, ShutdownSteps
    <3>2. CASE Start /\ Spawned /\ company' = (epc # "off") /\ UNCHANGED elder
      <4>1. epc' = "off" /\ ~company'
        BY <3>2 DEF elder
      <4> QED
        BY <3>2, <4>1, StartIsNext DEF Spawned
    <3>3. CASE UNCHANGED <<vars, older>>
      BY <2>1, <3>3 DEF vars, older, elder
    <3> QED
      BY <2>2, <3>1, <3>2, <3>3 DEF SpawnDaemon
  <2>3. CASE ~SpawnDaemon
    BY <1>2, <2>1, <2>3 DEF Launch, RestartDaemon, vars, older, elder
  <2> QED
    BY <2>2, <2>3
<1>3. CASE Reap \/ PairSaves \/ Unpair \/ TapForget \/ Disarm
  BY <1>3 DEF Reap, PairSaves, Unpair, TapForget, Disarm, vars, older, elder
<1>4. CASE ShutdownFinished \/ DropFinished
  BY <1>4 DEF ShutdownFinished, DropFinished, vars, older, elder
<1>5. CASE TapPause
  BY <1>5 DEF TapPause, KioskToggle, Next, Users, older, elder
<1>6. CASE TapExit \/ ConfirmForget \/ CloseRequest
  <2>1. UNCHANGED older
    BY <1>6 DEF TapExit, ConfirmForget, CloseRequest
  <2>2. CASE SendTerm /\ UNCHANGED child
    <3>1. pc' = pc \/ pc' = "off"
      BY <2>2 DEF SendTerm, Terminate, Goto, vars
    <3> QED
      BY <2>1, <2>2, <3>1, SendTermIsStep DEF older, elder
  <2>3. CASE ~Living /\ UNCHANGED vars
    BY <2>1, <2>3 DEF vars, older, elder
  <2> QED
    BY <1>6, <2>2, <2>3 DEF TapExit, ConfirmForget, CloseRequest, BeginShutdown
<1>7. CASE DaemonSteps \/ OutsideSignal
  <2>1. LiveFrame
    BY <1>7, DaemonFrame DEF OutsideSignal, KTypeOK
  <2>2. UNCHANGED child /\ UNCHANGED older
    BY <1>7 DEF DaemonSteps, OutsideSignal
  <2>3. [Next]_vars
    BY <1>7, DaemonIsStep, TerminateIsNext, KillIsNext DEF OutsideSignal
  <2> QED
    BY <2>1, <2>2, <2>3 DEF LiveFrame, older, elder
<1>8. CASE UNCHANGED kvars
  BY <1>8 DEF kvars, vars, older, elder
<1> QED
  BY <1>1, <1>2, <1>3, <1>4, <1>5, <1>6, <1>7, <1>8 DEF KNext

\* As long as neither the grace window nor Drop's half second runs out, the
\* daemon under a kiosk is the daemon of module Deck and no other.
THEOREM KioskIsDeck == Mishaps \cap {"grace", "drop"} = {} => (KSpec => Spec)
<1> SUFFICES ASSUME Mishaps \cap {"grace", "drop"} = {} PROVE KSpec => Spec
  OBVIOUS
<1>1. KInit => Init /\ Attended
  BY DEF KInit, Init, Attended
<1>2. KTypeOK /\ Supervised /\ Attended /\ [KNext]_kvars => Attended' /\ [Next]_vars
  BY NextAttended
<1> QED
  BY <1>1, <1>2, KioskTypeOK, KioskSupervised, PTL DEF KSpec, Spec

\* Then closing, exiting and forgetting hand everything back, lock and file are
\* the daemon's own, and the pair screen never meets a daemon on its port.
THEOREM KioskReleases ==
    Mishaps \cap {"grace", "drop"} = {} =>
        (KSpec => [](/\ NothingLeftBehind
                     /\ LockIsInstalled
                     /\ LastStatusIsOnDisk
                     /\ PairScreenIsAlone))
<1> SUFFICES ASSUME Mishaps \cap {"grace", "drop"} = {}
             PROVE  KSpec => [](/\ NothingLeftBehind
                                /\ LockIsInstalled
                                /\ LastStatusIsOnDisk
                                /\ PairScreenIsAlone)
  OBVIOUS
<1>1. KInit => Attended
  BY DEF KInit, Init, Attended
<1>2. KTypeOK /\ Supervised /\ Attended /\ [KNext]_kvars => Attended'
  BY NextAttended
<1>3. Supervised /\ Attended => PairScreenIsAlone
  BY DEF Supervised, Attended, PairScreenIsAlone
<1>4. KSpec => Spec
  BY KioskIsDeck
<1> QED
  BY <1>1, <1>2, <1>3, <1>4, KioskTypeOK, KioskSupervised, DeckNothingLeftBehind,
     DeckLockIsInstalled, DeckLastStatusIsOnDisk, PTL DEF KSpec
=============================================================================
