----------------------------- MODULE DeckProofs -----------------------------
(***************************************************************************)
(* Deck's invariants hold for every set of addresses, every failure        *)
(* threshold and every choice of the calls that may fail.                  *)
(*                                                                         *)
(* None of them is inductive alone: each speaks of some calls of the tick, *)
(* and what makes it true was established by an earlier one.  Steps says   *)
(* what holds at each value of pc; with it, each property needs only the   *)
(* actions that touch what it speaks of.                                   *)
(***************************************************************************)
EXTENDS Deck, TLAPS

\* Nothing is held by a process that is not there or has not entered its loop.
ColdStart ==
    pc \in {"off"} \cup BootSteps =>
        /\ state = "Idle"
        /\ peerLock = NoAddr
        /\ ~idleInhibit
        /\ lastStatus = NoStatus

\* The shutdown sequence is past the point that makes each call redundant.
ShutdownOrder ==
    /\ pc \in {"unlock", "uninhibit", "clear"} => state = "Idle"
    /\ pc \in {"uninhibit", "clear"} => peerLock = NoAddr
    /\ pc = "clear" => ~idleInhibit

\* A lock is only held while Bound, and never when one is about to go in.
LockByStep ==
    /\ state = "Idle" /\ peerLock # NoAddr => pc \in {"firewall", "unlock"}
    /\ state = "Bound" /\ pc = "firewall" => peerLock = NoAddr
    /\ pc = "reinstall" => peerLock = NoAddr /\ state = "Bound" /\ newIp # NoAddr

InhibitByStep ==
    state = "Idle" /\ idleInhibit => pc \in {"firewall", "inhibit", "unlock", "uninhibit"}

\* Connection::tick ran this tick, on these samples.
SamplesByStep ==
    /\ state = "Bound" /\ pc \in {"firewall", "inhibit", "refresh", "reinstall", "publish"}
          => beaconPresent /\ ~paused
    /\ state = "Bound" => failures = 0

\* A beacon that is fresh, or was when sampled, left its address behind.
AddressKnown ==
    /\ fresh => addr # NoAddr
    /\ beaconPresent => addr # NoAddr

GuardedByStep ==
    /\ "lock" \notin Faults /\ state = "Bound"
          /\ pc \in {"inhibit", "refresh", "publish", "loop", "pause", "connect"}
          => peerLock # NoAddr
    /\ "inhibit" \notin Faults /\ state = "Bound"
          /\ pc \in {"refresh", "reinstall", "publish", "loop", "pause", "connect"}
          => idleInhibit

\* With every cleanup call working, the kernel and the control directory hold
\* what the daemon's memory accounts for.
Accounted ==
    Faults \cap {"kill", "unbind", "unlock", "clear"} = {} =>
        /\ exported => state = "Bound"
        /\ table # NoTable => peerLock # NoAddr
        /\ ~orphan
        /\ pc \in {"off"} \cup BootSteps => statusFile = NoStatus

Steps ==
    /\ ColdStart
    /\ ShutdownOrder
    /\ LockByStep
    /\ InhibitByStep
    /\ SamplesByStep
    /\ AddressKnown
    /\ GuardedByStep

-----------------------------------------------------------------------------
(* Types. *)

LEMMA CurrentStatusType == TypeOK => CurrentStatus \in Statuses
  BY DeckConstants DEF TypeOK, CurrentStatus, Statuses, BindError

LEMMA FailuresType ==
    ASSUME NEW n \in 0 .. MaxFailures
    PROVE  Min2(n + 1, MaxFailures) \in 0 .. MaxFailures
  BY DeckConstants DEF Min2

LEMMA TableTypes ==
    ASSUME TypeOK, NEW ip \in Addr \cup {NoAddr}
    PROVE  NoTable \in Tables /\ Loaded(ip) \subseteq Tables
<1>1. NoTable \in Tables /\ Rule(ip) \in Tables
  BY DEF NoTable, Rule, Tables
<1>2. table # NoTable => [table EXCEPT !.buried = TRUE] \in Tables
  BY DEF TypeOK, Tables
<1> QED
  BY <1>1, <1>2 DEF Loaded

\* An install leaves a rule: the one it was asked for, unless buried.
LEMMA LoadedRule ==
    ASSUME TypeOK, NEW ip \in Addr, NEW t \in Loaded(ip)
    PROVE  t # NoTable /\ t.peer # NoAddr /\ (t.peer = ip \/ t.buried)
<1>1. NoTable.peer = NoAddr /\ Rule(ip).peer = ip /\ ip # NoAddr
  BY DeckConstants DEF NoTable, Rule
<1>2. CASE t = Rule(ip)
  BY <1>1, <1>2
<1>3. CASE table # NoTable /\ t = [table EXCEPT !.buried = TRUE]
  BY <1>1, <1>3, DeckConstants DEF TypeOK, Tables
<1> QED
  BY <1>2, <1>3 DEF Loaded

LEMMA InitTypeOK == Init => TypeOK
<1> SUFFICES ASSUME Init PROVE TypeOK
  OBVIOUS
<1>1. /\ exported \in BOOLEAN /\ orphan \in BOOLEAN /\ pausedFile \in BOOLEAN
      /\ term \in BOOLEAN /\ fresh \in BOOLEAN /\ beaconPresent \in BOOLEAN
      /\ paused \in BOOLEAN /\ idleInhibit \in BOOLEAN
  BY DEF Init, MemoryIsFresh
<1> QED
  BY <1>1, DeckConstants DEF Init, MemoryIsFresh, TypeOK, Tables

LEMMA NextTypeOK == TypeOK /\ [Next]_vars => TypeOK'
<1> SUFFICES ASSUME TypeOK, [Next]_vars PROVE TypeOK'
  OBVIOUS
<1> USE DEF TypeOK, BootSteps, TickSteps, ShutdownSteps, Goto,
            kernel, files, beacon, sample, conn, guards, memory
<1>1. CASE Boot
  <2>1. /\ term' \in BOOLEAN /\ fresh' \in BOOLEAN /\ beaconPresent' \in BOOLEAN
        /\ paused' \in BOOLEAN /\ idleInhibit' \in BOOLEAN
    BY <1>1 DEF Boot, LoadTrust, Listen, ProcessEnds, MemoryIsCleared
  <2> QED
    BY <1>1, <2>1, DeckConstants DEF Boot, LoadTrust, Listen, ProcessEnds, MemoryIsCleared
<1>2. CASE SampleBeacon
  BY <1>2 DEF SampleBeacon
<1>3. CASE SamplePaused
  BY <1>3 DEF SamplePaused
<1>4. CASE BindSucceeds
  BY <1>4, DeckConstants DEF BindSucceeds, FailuresAfterBind
<1>5. CASE BindFails
  BY <1>5, FailuresType DEF BindFails
<1>6. CASE TickUnbinds
  <2>1. exported' \in BOOLEAN
    BY <1>6 DEF TickUnbinds, RunUnbind
  <2> QED
    BY <1>6, <2>1 DEF TickUnbinds, RunUnbind
<1>7. CASE TickKeepsState
  BY <1>7 DEF TickKeepsState
<1>8. CASE ApplyFirewall
  BY <1>8, TableTypes DEF ApplyFirewall, InstallLock, LockOnUnbind, DropLock
<1>9. CASE ApplyInhibit
  <2>1. idleInhibit' \in BOOLEAN
    BY <1>9 DEF ApplyInhibit, InhibitOnUnbind
  <2> QED
    BY <1>9, <2>1 DEF ApplyInhibit, InhibitOnUnbind
<1>10. CASE RefreshDrops
  BY <1>10, TableTypes DEF RefreshDrops, PeerMoved, DropLock
<1>11. CASE RefreshNotNeeded
  BY <1>11 DEF RefreshNotNeeded
<1>12. CASE RefreshInstalls
  BY <1>12, TableTypes DEF RefreshInstalls, InstallLock
<1>13. CASE StatusUnchanged
  BY <1>13 DEF StatusUnchanged
<1>14. CASE StatusWritten
  BY <1>14, CurrentStatusType DEF StatusWritten
<1>15. CASE StatusWriteFails
  BY <1>15 DEF StatusWriteFails, LastStatusOnError
<1>16. CASE SeesTerm
  BY <1>16 DEF SeesTerm
<1>17. CASE ShutdownUnbinds
  <2>1. exported' \in BOOLEAN
    BY <1>17 DEF ShutdownUnbinds, FinalTick, RunUnbind
  <2> QED
    BY <1>17, <2>1 DEF ShutdownUnbinds, FinalTick, RunUnbind
<1>18. CASE ShutdownUnlocks
  BY <1>18, TableTypes DEF ShutdownUnlocks, DropLock
<1>19. CASE ShutdownUninhibits
  <2>1. idleInhibit' \in BOOLEAN
    BY <1>19 DEF ShutdownUninhibits
  <2> QED
    BY <1>19, <2>1 DEF ShutdownUninhibits
<1>20. CASE ShutdownClears
  <2>1. /\ term' \in BOOLEAN /\ fresh' \in BOOLEAN /\ beaconPresent' \in BOOLEAN
        /\ paused' \in BOOLEAN /\ idleInhibit' \in BOOLEAN
    BY <1>20 DEF ShutdownClears, ProcessEnds, MemoryIsCleared
  <2> QED
    BY <1>20, <2>1, DeckConstants DEF ShutdownClears, ProcessEnds, MemoryIsCleared
<1>21. CASE BeaconGoesStale
  <2>1. fresh' \in BOOLEAN
    BY <1>21 DEF BeaconGoesStale
  <2> QED
    BY <1>21, <2>1 DEF BeaconGoesStale
<1>22. CASE Start
  BY <1>22 DEF Start
<1>23. CASE KioskToggle
  BY <1>23 DEF KioskToggle
<1>24. CASE HotkeyToggle
  BY <1>24 DEF HotkeyToggle
<1>25. CASE Terminate
  <2>1. term' \in BOOLEAN
    BY <1>25 DEF Terminate
  <2> QED
    BY <1>25, <2>1 DEF Terminate
<1>26. CASE Kill
  <2>1. /\ term' \in BOOLEAN /\ fresh' \in BOOLEAN /\ beaconPresent' \in BOOLEAN
        /\ paused' \in BOOLEAN /\ idleInhibit' \in BOOLEAN /\ orphan' \in BOOLEAN
    BY <1>26 DEF Kill, ProcessEnds, MemoryIsCleared
  <2> QED
    BY <1>26, <2>1, DeckConstants DEF Kill, ProcessEnds, MemoryIsCleared
<1>27. ASSUME NEW a \in Addr, HandleBeacon(a) PROVE TypeOK'
  BY <1>27 DEF HandleBeacon
<1>28. CASE UNCHANGED vars
  BY <1>28 DEF vars
<1> QED
  BY <1>1, <1>2, <1>3, <1>4, <1>5, <1>6, <1>7, <1>8, <1>9, <1>10, <1>11, <1>12, <1>13, <1>14,
     <1>15, <1>16, <1>17, <1>18, <1>19, <1>20, <1>21, <1>22, <1>23, <1>24, <1>25, <1>26, <1>27, <1>28
  DEF Next, MainThread, Tick, Shutdown, RecvThread, Users

\* Type correctness.
THEOREM DeckTypeOK == Spec => []TypeOK
  BY InitTypeOK, NextTypeOK, PTL DEF Spec

-----------------------------------------------------------------------------
(* What holds at each step. *)

LEMMA InitSteps == Init => Steps
  BY DEF Init, MemoryIsFresh, Steps, ColdStart, ShutdownOrder, LockByStep,
         InhibitByStep, SamplesByStep, AddressKnown, GuardedByStep

LEMMA NextSteps == TypeOK /\ Steps /\ [Next]_vars => Steps'
<1> SUFFICES ASSUME TypeOK, Steps, [Next]_vars PROVE Steps'
  OBVIOUS
<1> USE DEF TypeOK, Steps, Goto, BootSteps, ColdStart, ShutdownOrder, LockByStep,
            InhibitByStep, SamplesByStep, AddressKnown, GuardedByStep,
            kernel, files, beacon, sample, conn, guards, memory
<1>1. CASE Boot
  BY <1>1 DEF Boot, LoadTrust, Listen, ProcessEnds, MemoryIsCleared
<1>2. CASE SampleBeacon
  BY <1>2 DEF SampleBeacon
<1>3. CASE SamplePaused
  BY <1>3 DEF SamplePaused
<1>4. CASE BindSucceeds
  BY <1>4 DEF BindSucceeds, FailuresAfterBind, EffectivePeerPresent
<1>5. CASE BindFails
  BY <1>5 DEF BindFails, EffectivePeerPresent
<1>6. CASE TickUnbinds
  BY <1>6 DEF TickUnbinds, EffectivePeerPresent, RunUnbind
<1>7. CASE TickKeepsState
  BY <1>7 DEF TickKeepsState, EffectivePeerPresent
<1>8. CASE ApplyFirewall
  BY <1>8 DEF ApplyFirewall, InstallLock, LockOnUnbind, DropLock
<1>9. CASE ApplyInhibit
  BY <1>9 DEF ApplyInhibit, InhibitOnUnbind
<1>10. CASE RefreshDrops
  BY <1>10 DEF RefreshDrops, PeerMoved, DropLock
<1>11. CASE RefreshNotNeeded
  BY <1>11 DEF RefreshNotNeeded, PeerMoved
<1>12. CASE RefreshInstalls
  BY <1>12 DEF RefreshInstalls, InstallLock
<1>13. CASE StatusUnchanged
  BY <1>13 DEF StatusUnchanged
<1>14. CASE StatusWritten
  BY <1>14 DEF StatusWritten
<1>15. CASE StatusWriteFails
  BY <1>15 DEF StatusWriteFails, LastStatusOnError
<1>16. CASE SeesTerm
  BY <1>16 DEF SeesTerm
<1>17. CASE ShutdownUnbinds
  BY <1>17 DEF ShutdownUnbinds, FinalTick, RunUnbind
<1>18. CASE ShutdownUnlocks
  BY <1>18 DEF ShutdownUnlocks, DropLock
<1>19. CASE ShutdownUninhibits
  BY <1>19 DEF ShutdownUninhibits
<1>20. CASE ShutdownClears
  BY <1>20 DEF ShutdownClears, ProcessEnds, MemoryIsCleared
<1>21. CASE BeaconGoesStale
  BY <1>21 DEF BeaconGoesStale
<1>22. CASE Start
  BY <1>22 DEF Start
<1>23. CASE KioskToggle
  BY <1>23 DEF KioskToggle
<1>24. CASE HotkeyToggle
  BY <1>24 DEF HotkeyToggle
<1>25. CASE Terminate
  BY <1>25 DEF Terminate
<1>26. CASE Kill
  BY <1>26 DEF Kill, ProcessEnds, MemoryIsCleared
<1>27. ASSUME NEW a \in Addr, HandleBeacon(a) PROVE Steps'
  BY <1>27, DeckConstants DEF HandleBeacon
<1>28. CASE UNCHANGED vars
  BY <1>28 DEF vars
<1> QED
  BY <1>1, <1>2, <1>3, <1>4, <1>5, <1>6, <1>7, <1>8, <1>9, <1>10, <1>11, <1>12, <1>13, <1>14,
     <1>15, <1>16, <1>17, <1>18, <1>19, <1>20, <1>21, <1>22, <1>23, <1>24, <1>25, <1>26, <1>27, <1>28
  DEF Next, MainThread, Tick, Shutdown, RecvThread, Users

LEMMA DeckSteps == Spec => []Steps
  BY DeckTypeOK, InitSteps, NextSteps, PTL DEF Spec

-----------------------------------------------------------------------------
(* The properties.  Each frame lemma names the actions that can disturb    *)
(* what the property speaks of.                                            *)

LEMMA LockFrame ==
    [Next]_vars =>
        \/ ApplyFirewall \/ RefreshDrops \/ RefreshInstalls \/ ShutdownUnlocks
        \/ Boot \/ ShutdownClears \/ Kill
        \/ UNCHANGED <<table, peerLock>>
  BY DEF Next, MainThread, Tick, Shutdown, RecvThread, Users, vars, kernel, files,
         beacon, sample, conn, guards, memory, Boot, LoadTrust, Listen, SampleBeacon, SamplePaused,
         BindSucceeds, BindFails, TickUnbinds, RunUnbind, TickKeepsState, ApplyInhibit,
         RefreshNotNeeded, StatusUnchanged, StatusWritten, StatusWriteFails, SeesTerm,
         LastStatusOnError, ShutdownUnbinds, FinalTick, ShutdownUninhibits,
         HandleBeacon, BeaconGoesStale, Start, KioskToggle, HotkeyToggle, Terminate

LEMMA NextLockIsInstalled ==
    TypeOK /\ Steps /\ LockIsInstalled /\ [Next]_vars => LockIsInstalled'
<1> SUFFICES ASSUME TypeOK, Steps, LockIsInstalled, [Next]_vars PROVE LockIsInstalled'
  OBVIOUS
<1> USE DEF LockIsInstalled, Steps, LockByStep
<1>1. CASE ApplyFirewall
  BY <1>1, LoadedRule DEF ApplyFirewall, InstallLock, LockOnUnbind, DropLock, TypeOK
<1>2. CASE RefreshDrops
  BY <1>2 DEF RefreshDrops, DropLock
<1>3. CASE RefreshInstalls
  BY <1>3, LoadedRule DEF RefreshInstalls, InstallLock, TypeOK
<1>4. CASE ShutdownUnlocks
  BY <1>4 DEF ShutdownUnlocks, DropLock
<1>5. CASE Boot \/ ShutdownClears \/ Kill
  BY <1>5 DEF Boot, LoadTrust, Listen, ShutdownClears, Kill, ProcessEnds, MemoryIsCleared,
              memory, guards, kernel
<1>6. CASE UNCHANGED <<table, peerLock>>
  BY <1>6
<1> QED
  BY <1>1, <1>2, <1>3, <1>4, <1>5, <1>6, LockFrame

\* A lock the daemon believes it holds is the rule in the kernel.
THEOREM DeckLockIsInstalled == Spec => []LockIsInstalled
<1>1. Init => LockIsInstalled
  BY DEF Init, MemoryIsFresh, LockIsInstalled
<1> QED
  BY <1>1, NextLockIsInstalled, DeckTypeOK, DeckSteps, PTL DEF Spec

LEMMA BindingFrame ==
    [Next]_vars =>
        \/ BindSucceeds \/ TickUnbinds \/ ShutdownUnbinds
        \/ Boot \/ ShutdownClears \/ Kill
        \/ UNCHANGED <<exported, state>>
  BY DEF Next, MainThread, Tick, Shutdown, RecvThread, Users, vars, kernel, files,
         beacon, sample, conn, guards, memory, Boot, LoadTrust, Listen, SampleBeacon, SamplePaused,
         BindFails, TickKeepsState, ApplyFirewall, ApplyInhibit, RefreshDrops,
         RefreshNotNeeded, RefreshInstalls, StatusUnchanged, StatusWritten,
         StatusWriteFails, LastStatusOnError, SeesTerm, ShutdownUnlocks,
         ShutdownUninhibits, HandleBeacon, BeaconGoesStale, Start, KioskToggle,
         HotkeyToggle, Terminate

\* Nothing is held by an Idle daemon for longer than it takes to release it.
THEOREM DeckGuardsEndWithBinding == Spec => []GuardsEndWithBinding
<1>1. Steps => GuardsEndWithBinding
  BY DEF Steps, LockByStep, InhibitByStep, GuardsEndWithBinding
<1> QED
  BY <1>1, DeckSteps, PTL

\* A Bound tick ends with the lock and the inhibitor held.
THEOREM DeckBoundIsGuarded == Spec => []BoundIsGuarded
<1>1. Steps => BoundIsGuarded
  BY DEF Steps, GuardedByStep, BoundIsGuarded
<1> QED
  BY <1>1, DeckSteps, PTL

LEMMA StatusFrame ==
    [Next]_vars =>
        \/ StatusWritten \/ Boot \/ ShutdownClears \/ Kill
        \/ UNCHANGED <<statusFile, lastStatus>>
  BY DEF Next, MainThread, Tick, Shutdown, RecvThread, Users, vars, kernel, files,
         beacon, sample, conn, guards, memory, Boot, LoadTrust, Listen, SampleBeacon, SamplePaused,
         BindSucceeds, BindFails, TickUnbinds, TickKeepsState, ApplyFirewall,
         ApplyInhibit, RefreshDrops, RefreshNotNeeded, RefreshInstalls,
         StatusUnchanged, StatusWriteFails, LastStatusOnError, SeesTerm,
         ShutdownUnbinds, ShutdownUnlocks, ShutdownUninhibits, HandleBeacon,
         BeaconGoesStale, Start, KioskToggle, HotkeyToggle, Terminate

LEMMA NextStatusIsCoherent == Steps /\ StatusIsCoherent /\ [Next]_vars => StatusIsCoherent'
<1> SUFFICES ASSUME Steps, StatusIsCoherent, [Next]_vars PROVE StatusIsCoherent'
  OBVIOUS
<1> USE DEF StatusIsCoherent
<1>1. CASE StatusWritten
  <2>1. CurrentStatus.bound => CurrentStatus.present /\ ~CurrentStatus.paused
                                 /\ CurrentStatus.error = 0
    BY <1>1, DeckConstants
       DEF StatusWritten, Steps, SamplesByStep, CurrentStatus, BindError
  <2> QED
    BY <1>1, <2>1 DEF StatusWritten
<1>2. CASE Boot \/ ShutdownClears \/ Kill
  BY <1>2 DEF Boot, LoadTrust, Listen, ShutdownClears, Kill, files
<1>3. CASE UNCHANGED <<statusFile, lastStatus>>
  BY <1>3
<1> QED
  BY <1>1, <1>2, <1>3, StatusFrame

\* The kiosk never reads Bound together with paused, absent or failing.
THEOREM DeckStatusIsCoherent == Spec => []StatusIsCoherent
<1>1. Init => StatusIsCoherent
  BY DEF Init, StatusIsCoherent
<1> QED
  BY <1>1, NextStatusIsCoherent, DeckSteps, PTL DEF Spec

LEMMA NextLastStatusIsOnDisk == LastStatusIsOnDisk /\ [Next]_vars => LastStatusIsOnDisk'
<1> SUFFICES ASSUME LastStatusIsOnDisk, [Next]_vars PROVE LastStatusIsOnDisk'
  OBVIOUS
<1> USE DEF LastStatusIsOnDisk
<1>1. CASE StatusWritten
  BY <1>1 DEF StatusWritten
<1>2. CASE Boot \/ ShutdownClears \/ Kill
  BY <1>2 DEF Boot, LoadTrust, Listen, ShutdownClears, Kill, ProcessEnds, MemoryIsCleared,
              memory, files
<1>3. CASE UNCHANGED <<statusFile, lastStatus>>
  BY <1>3
<1> QED
  BY <1>1, <1>2, <1>3, StatusFrame

\* last_status never runs ahead of the file.
THEOREM DeckLastStatusIsOnDisk == Spec => []LastStatusIsOnDisk
<1>1. Init => LastStatusIsOnDisk
  BY DEF Init, MemoryIsFresh, LastStatusIsOnDisk
<1> QED
  BY <1>1, NextLastStatusIsOnDisk, PTL DEF Spec

\* What the kernel and the control directory hold is accounted for.
LEMMA DeckAccounted == Spec => []Accounted
<1>1. Init => Accounted
  BY DEF Init, MemoryIsFresh, Accounted
<1>2. TypeOK /\ Steps /\ Accounted /\ [Next]_vars => Accounted'
  <2> SUFFICES ASSUME Faults \cap {"kill", "unbind", "unlock", "clear"} = {},
                      TypeOK, Steps, Accounted, [Next]_vars
               PROVE  Accounted'
    BY DEF Accounted
  <2>1. ~Kill
    BY DEF Kill
  <2>0. (exported => state = "Bound")'
    <3> USE DEF Accounted
    <3>1. CASE BindSucceeds
      BY <3>1 DEF BindSucceeds
    <3>2. CASE TickUnbinds
      BY <3>2 DEF TickUnbinds, RunUnbind
    <3>3. CASE ShutdownUnbinds
      BY <3>3 DEF ShutdownUnbinds, FinalTick, RunUnbind, kernel, conn
    <3>4. CASE Boot \/ ShutdownClears
      BY <3>4 DEF Boot, LoadTrust, Listen, ShutdownClears, ProcessEnds, MemoryIsCleared,
                  kernel, memory, conn, Steps, ColdStart, BootSteps, ShutdownOrder
    <3>5. CASE UNCHANGED <<exported, state>>
      BY <3>5
    <3> QED
      BY <2>1, <3>1, <3>2, <3>3, <3>4, <3>5, BindingFrame
  <2>2. (table # NoTable => peerLock # NoAddr)'
    <3> USE DEF Accounted, Steps, LockByStep, TypeOK
    <3>1. CASE ApplyFirewall
      BY <3>1, DeckConstants DEF ApplyFirewall, InstallLock, LockOnUnbind, DropLock
    <3>2. CASE RefreshDrops
      BY <3>2 DEF RefreshDrops, DropLock
    <3>3. CASE RefreshInstalls
      BY <3>3, DeckConstants DEF RefreshInstalls, InstallLock
    <3>4. CASE ShutdownUnlocks
      BY <3>4 DEF ShutdownUnlocks, DropLock
    <3>5. CASE Boot \/ ShutdownClears
      BY <3>5 DEF Boot, LoadTrust, Listen, BootSteps, ColdStart, ShutdownClears, memory,
                  guards, ProcessEnds, MemoryIsCleared, kernel, ShutdownOrder
    <3>6. CASE UNCHANGED <<table, peerLock>>
      BY <3>6
    <3> QED
      BY <2>1, <3>1, <3>2, <3>3, <3>4, <3>5, <3>6, LockFrame
  <2>3. orphan' = orphan
    BY <2>1 DEF Next, MainThread, Tick, Shutdown, RecvThread, Users, vars, kernel,
         Boot, LoadTrust, Listen, SampleBeacon, SamplePaused, BindSucceeds, BindFails,
             TickUnbinds,
         RunUnbind, TickKeepsState, ApplyFirewall, ApplyInhibit, RefreshDrops,
         RefreshNotNeeded, RefreshInstalls, StatusUnchanged, StatusWritten,
         StatusWriteFails, SeesTerm, ShutdownUnbinds, FinalTick, ShutdownUnlocks,
         ShutdownUninhibits, ShutdownClears, HandleBeacon, BeaconGoesStale, Start,
         KioskToggle, HotkeyToggle, Terminate
  <2>4. (pc \in {"off"} \cup BootSteps => statusFile = NoStatus)'
    <3> USE DEF Accounted
    <3>1. CASE StatusWritten
      BY <3>1 DEF StatusWritten, Goto, BootSteps
    <3>2. CASE Boot \/ ShutdownClears
      BY <3>2 DEF Boot, LoadTrust, Listen, ShutdownClears, Goto, files, BootSteps
    <3>3. CASE UNCHANGED <<statusFile, lastStatus>>
      <4>1. pc' \in {"off"} \cup BootSteps => pc \in {"off"} \cup BootSteps \/ pc = "clear"
        BY <2>1 DEF Next, MainThread, Tick, Shutdown, RecvThread, Users, vars, Goto,
             memory, TypeOK, Running, BootSteps, TickSteps, ShutdownSteps,
             Boot, LoadTrust, Listen, SampleBeacon, SamplePaused, BindSucceeds, BindFails,
             TickUnbinds,
             TickKeepsState, ApplyFirewall, ApplyInhibit, RefreshDrops,
             RefreshNotNeeded, RefreshInstalls, StatusUnchanged, StatusWritten,
             StatusWriteFails, SeesTerm, ShutdownUnbinds, ShutdownUnlocks,
             ShutdownUninhibits, ShutdownClears, HandleBeacon, BeaconGoesStale, Start,
             KioskToggle, HotkeyToggle, Terminate
      <4>2. pc = "clear" => pc' = "clear" \/ ShutdownClears
        BY <2>1 DEF Next, MainThread, Tick, Shutdown, RecvThread, Users, vars, Goto,
             memory, BootSteps, Boot, LoadTrust, Listen, SampleBeacon, SamplePaused,
             BindSucceeds, BindFails,
             TickUnbinds, TickKeepsState, ApplyFirewall, ApplyInhibit, RefreshDrops,
             RefreshNotNeeded, RefreshInstalls, StatusUnchanged, StatusWritten,
             StatusWriteFails, SeesTerm, ShutdownUnbinds, ShutdownUnlocks,
             ShutdownUninhibits, HandleBeacon, BeaconGoesStale, Start,
             KioskToggle, HotkeyToggle, Terminate
      <4> QED
        BY <3>3, <3>2, <4>1, <4>2 DEF BootSteps
    <3> QED
      BY <2>1, <3>1, <3>2, <3>3, StatusFrame
  <2> QED
    BY <2>0, <2>2, <2>3, <2>4 DEF Accounted
<1> QED
  BY <1>1, <1>2, DeckTypeOK, DeckSteps, PTL DEF Spec

\* A daemon that exits by itself leaves nothing behind.
THEOREM DeckNothingLeftBehind == Spec => []NothingLeftBehind
<1>1. Steps /\ Accounted => NothingLeftBehind
  BY DEF Steps, ColdStart, Accounted, NothingLeftBehind
<1> QED
  BY <1>1, DeckSteps, DeckAccounted, PTL
=============================================================================
