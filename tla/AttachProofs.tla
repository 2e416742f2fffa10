----------------------------- MODULE AttachProofs -----------------------------
(***************************************************************************)
(* What is proved of the tray program's attach loop, for every address     *)
(* set, every backoff range, every cache lifetime and every choice of the  *)
(* calls that may fail.                                                    *)
(***************************************************************************)
EXTENDS AttachTimed, TLAPS

\* The assumptions on the constants, as the leaves cite them.
LEMMA Delays ==
    /\ BaseBackoff \in Nat /\ BaseBackoff > 0
    /\ MaxBackoff \in Nat /\ BaseBackoff <= MaxBackoff
    /\ CacheTtl \in Nat /\ CacheTtl > 0 /\ CacheTtl < MaxBackoff
    /\ NoHost \notin Host
  BY AttachConstants

\* The texts the program shows are tooltips.
LEMMA Texts ==
    /\ "none" \in Tooltips /\ "searching" \in Tooltips /\ "connected" \in Tooltips
    /\ "paused" \in Tooltips /\ "pairing" \in Tooltips
    /\ \A h \in Host : h \in Tooltips
  BY DEF Tooltips

\* A new process starts with its flags in their types.
LEMMA NewFlags ==
    ASSUME NEW step, NewProcess(step)
    PROVE  /\ recv' \in BOOLEAN /\ fresh' \in BOOLEAN
           /\ paused' \in BOOLEAN /\ heard' \in BOOLEAN
           /\ cached' \in BOOLEAN
  BY DEF NewProcess

\* The text of a period is a tooltip: a peer that was heard has an address.
LEMMA TooltipType == TypeOK => Tooltip \in Tooltips
<1> SUFFICES ASSUME TypeOK PROVE Tooltip \in Tooltips
  OBVIOUS
<1>1. heard => host \in Host
  BY DEF TypeOK
<1>2. CASE state = "Attached"
  BY <1>2, Texts DEF Tooltip
<1>3. CASE state = "Idle" /\ heard
  BY <1>1, <1>3, Texts DEF Tooltip
<1>4. CASE state = "Idle" /\ ~heard /\ paused
  BY <1>4, Texts DEF Tooltip
<1>5. CASE state = "Idle" /\ ~heard /\ ~paused
  BY <1>5, Texts DEF Tooltip
<1> QED
  BY <1>2, <1>3, <1>4, <1>5 DEF TypeOK

\* Every step keeps the variables in their types.
LEMMA NextType == TypeOK /\ [Next]_vars => TypeOK'
<1> SUFFICES ASSUME TypeOK, [Next]_vars PROVE TypeOK'
  OBVIOUS
<1> USE Delays, Texts DEF TypeOK, Goto, Least
<1> USE DEF world, deck, beacon, sample, machine, cache, tray, memory
<1>1. CASE Drained
  BY <1>1 DEF Drained
<1>2. CASE IdleWaits
  BY <1>2 DEF IdleWaits
<1>3. CASE DiscoverSucceeds
  BY <1>3 DEF DiscoverSucceeds
<1>4. CASE DiscoverFails
  BY <1>4 DEF DiscoverFails, BumpBackoff
<1>5. CASE AttachSucceeds
  BY <1>5 DEF AttachSucceeds, DropCache, ResetBackoff, Offered
<1>6. CASE AttachFails
  BY <1>6 DEF AttachFails, DropCache, BumpBackoff
<1>7. CASE CheckPort
  BY <1>7 DEF CheckPort, RefreshCache, Ported
<1>8. CASE Paint
  <2>1. Tooltip \in Tooltips
    BY TooltipType
  <2> QED
    BY <1>8, <2>1 DEF Paint
<1>9. CASE Sleep
  BY <1>9 DEF Sleep, ClocksAdvance
<1>10. CASE PairDone
  <2>1. /\ recv' \in BOOLEAN /\ fresh' \in BOOLEAN
        /\ paused' \in BOOLEAN /\ heard' \in BOOLEAN /\ cached' \in BOOLEAN
    BY <1>10, NewFlags DEF PairDone
  <2> QED
    BY <1>10, <2>1 DEF PairDone, NewProcess
<1>11. CASE PairEndsWithout
  BY <1>11 DEF PairEndsWithout
<1>12. CASE RebindFails
  <2>1. /\ recv' \in BOOLEAN /\ fresh' \in BOOLEAN
        /\ paused' \in BOOLEAN /\ heard' \in BOOLEAN /\ cached' \in BOOLEAN
    BY <1>12, NewFlags DEF RebindFails
  <2> QED
    BY <1>12, <2>1 DEF RebindFails, NewProcess
<1>13. CASE ForgetRefused
  BY <1>13 DEF ForgetRefused
<1>14. CASE ForgetDone
  <2>1. /\ recv' \in BOOLEAN /\ fresh' \in BOOLEAN
        /\ paused' \in BOOLEAN /\ heard' \in BOOLEAN /\ cached' \in BOOLEAN /\ trusted' \in BOOLEAN
    BY <1>14, NewFlags DEF ForgetDone
  <2> QED
    BY <1>14, <2>1 DEF ForgetDone, NewProcess
<1>15. CASE DialogWaits
  BY <1>15 DEF DialogWaits, ClocksAdvance
<1>16. CASE FirstRunEnds
  <2>1. trusted' \in BOOLEAN
    BY <1>16 DEF FirstRunEnds
  <2> QED
    BY <1>16, <2>1 DEF FirstRunEnds
<1>17. CASE Boot
  <2>1. recv' \in BOOLEAN
    BY <1>17 DEF Boot, BootRuns, BootPairs, BootFails
  <2> QED
    BY <1>17, <2>1 DEF Boot, BootRuns, BootPairs, BootFails
<1>18. CASE Launch
  BY <1>18 DEF Launch
<1>19. CASE Connect \/ Disconnect
  <2>1. paused' \in BOOLEAN
    BY <1>19 DEF Connect, Disconnect
  <2> QED
    BY <1>19, <2>1 DEF Connect, Disconnect
<1>20. CASE OpenPair \/ OpenForget
  <2>1. recv' \in BOOLEAN
    BY <1>20 DEF OpenPair, OpenForget
  <2> QED
    BY <1>20, <2>1 DEF OpenPair, OpenForget
<1>21. CASE Quit
  <2>1. /\ recv' \in BOOLEAN /\ fresh' \in BOOLEAN
        /\ paused' \in BOOLEAN /\ heard' \in BOOLEAN /\ cached' \in BOOLEAN
    BY <1>21, NewFlags DEF Quit
  <2> QED
    BY <1>21, <2>1 DEF Quit, NewProcess
<1>22. CASE HandleBeacon \/ BeaconGoesStale
  <2>1. fresh' \in BOOLEAN
    BY <1>22 DEF HandleBeacon, BeaconGoesStale
  <2> QED
    BY <1>22, <2>1 DEF HandleBeacon, BeaconGoesStale
<1>23. CASE DeckBinds \/ DeckUnbinds
  <2>1. exporting' \in BOOLEAN
    BY <1>23 DEF DeckBinds, DeckUnbinds
  <2> QED
    BY <1>23, <2>1 DEF DeckBinds, DeckUnbinds
<1>24. CASE DeckMoves
  BY <1>24 DEF DeckMoves
<1>25. CASE LinkDrops
  BY <1>25 DEF LinkDrops
<1>26. CASE UNCHANGED vars
  BY <1>26 DEF vars
<1> QED
  BY <1>1, <1>2, <1>3, <1>4, <1>5, <1>6, <1>7, <1>8, <1>9, <1>10, <1>11, <1>12,
     <1>13, <1>14, <1>15, <1>16, <1>17, <1>18, <1>19, <1>20, <1>21, <1>22, <1>23,
     <1>24, <1>25, <1>26
  DEF Next, Period, Dialogs, User, Environment

\* The program starts in its types.
LEMMA InitType == Init => TypeOK
<1> SUFFICES ASSUME Init PROVE TypeOK
  OBVIOUS
<1>1. /\ exporting \in BOOLEAN /\ trusted \in BOOLEAN /\ recv \in BOOLEAN
      /\ fresh \in BOOLEAN /\ paused \in BOOLEAN /\ heard \in BOOLEAN
      /\ cached \in BOOLEAN
  BY DEF Init, FreshMemory
<1> QED
  BY <1>1, Delays, Texts DEF Init, FreshMemory, TypeOK

\* Type correctness of the attach loop.
THEOREM AttachTypeOK == Spec => []TypeOK
  BY InitType, NextType, PTL DEF Spec

-----------------------------------------------------------------------------
(* The port cache. *)

\* The driver's cache stays truthful about an attachment.
LEMMA NextCache == TypeOK /\ CacheIsPositive /\ [Next]_vars => CacheIsPositive'
<1> SUFFICES ASSUME TypeOK, CacheIsPositive, [Next]_vars PROVE CacheIsPositive'
  OBVIOUS
<1> USE Delays DEF CacheIsPositive, Goto
<1> USE DEF world, deck, beacon, sample, machine, cache, tray, memory
<1>1. CASE AttachSucceeds
  BY <1>1 DEF AttachSucceeds, DropCache
<1>2. CASE AttachFails
  BY <1>2 DEF AttachFails, DropCache
<1>3. CASE CheckPort
  <2>1. PICK listed \in BOOLEAN :
           /\ Ported(listed)
           /\ RefreshCache(listed)
           /\ state' = IF PeerPresent /\ listed THEN "Attached" ELSE "Idle"
    BY <1>3 DEF CheckPort
  <2>2. pc' = "paint" /\ (state' = "Attached" => listed)
    BY <1>3, <2>1 DEF CheckPort
  <2>3. cached' = listed
    BY <2>1 DEF RefreshCache
  <2> QED
    BY <2>2, <2>3
<1>4. CASE Sleep
  BY <1>4 DEF Sleep, ClocksAdvance, Least, TypeOK
<1>5. CASE DialogWaits
  BY <1>5 DEF DialogWaits, ClocksAdvance, Least, TypeOK
<1>6. CASE Drained \/ IdleWaits \/ Paint
  BY <1>6 DEF Drained, IdleWaits, Paint
<1>7. CASE DiscoverSucceeds \/ DiscoverFails
  BY <1>7 DEF DiscoverSucceeds, DiscoverFails
<1>8. CASE PairDone \/ RebindFails \/ ForgetDone \/ Quit
  BY <1>8 DEF PairDone, RebindFails, ForgetDone, Quit, NewProcess
<1>9. CASE PairEndsWithout \/ ForgetRefused \/ FirstRunEnds
  BY <1>9 DEF PairEndsWithout, ForgetRefused, FirstRunEnds
<1>10. CASE Boot \/ Launch \/ Connect \/ Disconnect \/ OpenPair \/ OpenForget
  BY <1>10 DEF Boot, BootRuns, BootPairs, BootFails, Launch, Connect, Disconnect,
               OpenPair, OpenForget
<1>11. CASE Environment
  BY <1>11 DEF Environment, HandleBeacon, BeaconGoesStale, DeckBinds, DeckUnbinds,
               DeckMoves, LinkDrops
<1>12. CASE UNCHANGED vars
  BY <1>12 DEF vars
<1> QED
  BY <1>1, <1>2, <1>3, <1>4, <1>5, <1>6, <1>7, <1>8, <1>9, <1>10, <1>11, <1>12
  DEF Next, Period, Dialogs, User

\* No program starts with an attachment.
LEMMA InitCache == Init => CacheIsPositive
  BY DEF Init, FreshMemory, CacheIsPositive

\* Only a look at the port list ends an attachment of a program that goes on.
LEMMA OnlyCheckPortGivesUp ==
    ASSUME TypeOK, CacheIsPositive, [Next]_vars,
           state = "Attached", state' = "Idle", Running'
    PROVE  CheckPort
<1> USE DEF Goto, Running, CacheIsPositive
<1> USE DEF world, deck, beacon, sample, machine, cache, tray, memory
<1>1. ~(Drained \/ IdleWaits \/ DiscoverSucceeds \/ DiscoverFails)
  BY DEF Drained, IdleWaits, DiscoverSucceeds, DiscoverFails
<1>2. ~(AttachSucceeds \/ AttachFails \/ Paint \/ Sleep)
  BY DEF AttachSucceeds, AttachFails, Paint, Sleep
<1>3. ~(PairDone \/ RebindFails \/ ForgetDone \/ Quit)
  BY DEF PairDone, RebindFails, ForgetDone, Quit, NewProcess
<1>4. ~(PairEndsWithout \/ ForgetRefused \/ FirstRunEnds \/ DialogWaits)
  BY DEF PairEndsWithout, ForgetRefused, FirstRunEnds, DialogWaits
<1>5. ~(Boot \/ Launch \/ Connect \/ Disconnect \/ OpenPair \/ OpenForget)
  BY DEF Boot, BootRuns, BootPairs, BootFails, Launch, Connect, Disconnect,
         OpenPair, OpenForget
<1>6. ~Environment
  BY DEF Environment, HandleBeacon, BeaconGoesStale, DeckBinds, DeckUnbinds,
         DeckMoves, LinkDrops
<1>7. ~UNCHANGED vars
  BY DEF vars
<1> QED
  BY <1>1, <1>2, <1>3, <1>4, <1>5, <1>6, <1>7 DEF Next, Period, Dialogs, User

\* An attachment is given up for a reason: neither a port list cached before the
\* attach nor an earlier failure to read it is ever taken for the loss of it.
THEOREM AttachGivesUpForAReason == Spec => GivesUpForAReason
<1>1. TypeOK /\ CacheIsPositive /\ [Next]_vars
        => [state = "Attached" /\ state' = "Idle" /\ Running'
              => \/ ~PeerPresent
                 \/ link = NoHost
                 \/ "port" \in Faults /\ cacheAge = CacheTtl]_vars
  <2> SUFFICES ASSUME TypeOK, CacheIsPositive, [Next]_vars,
                      state = "Attached", state' = "Idle", Running'
               PROVE  \/ ~PeerPresent
                      \/ link = NoHost
                      \/ "port" \in Faults /\ cacheAge = CacheTtl
    OBVIOUS
  <2>1. CheckPort
    BY OnlyCheckPortGivesUp
  <2>2. PICK listed \in BOOLEAN :
           /\ Ported(listed)
           /\ state' = IF PeerPresent /\ listed THEN "Attached" ELSE "Idle"
    BY <2>1 DEF CheckPort
  <2>3. ~PeerPresent \/ ~listed
    BY <2>2
  <2>4. CASE cacheAge < CacheTtl
    BY <2>2, <2>3, <2>4 DEF Ported, CacheIsPositive
  <2>5. CASE ~(cacheAge < CacheTtl)
    <3>1. cacheAge = CacheTtl
      BY <2>5, Delays DEF TypeOK
    <3> QED
      BY <2>2, <2>3, <2>5, <3>1 DEF Ported
  <2> QED
    BY <2>4, <2>5
<1> QED
  BY <1>1, InitType, NextType, InitCache, NextCache, PTL DEF Spec, GivesUpForAReason

-----------------------------------------------------------------------------
(* The stop watches. *)

\* Nothing but the sleep goes from "sleep" to "events".
LEMMA OnlySleepWakes ==
    ASSUME Next, ~Sleep, pc = "sleep"
    PROVE  pc' # "events"
<1> USE DEF Goto, world, deck, beacon, sample, machine, cache, tray, memory
<1>1. ~(Drained \/ IdleWaits \/ DiscoverSucceeds \/ DiscoverFails)
  BY DEF Drained, IdleWaits, DiscoverSucceeds, DiscoverFails
<1>2. ~(AttachSucceeds \/ AttachFails \/ CheckPort \/ Paint)
  BY DEF AttachSucceeds, AttachFails, CheckPort, Paint
<1>3. ~(Dialogs \/ Boot)
  BY DEF Dialogs, PairDone, PairEndsWithout, RebindFails, ForgetRefused, ForgetDone,
         DialogWaits, FirstRunEnds, Boot, BootRuns, BootPairs, BootFails
<1>4. ~User
  BY DEF User, Launch, Connect, Disconnect, OpenPair, OpenForget, Quit
<1>5. CASE Environment
  BY <1>5 DEF Environment, HandleBeacon, BeaconGoesStale, DeckBinds, DeckUnbinds,
         DeckMoves, LinkDrops
<1> QED
  BY <1>1, <1>2, <1>3, <1>4, <1>5 DEF Next, Period

\* While a link stays dead outside the sleep, the list only grows older, and
\* a tick that keeps the state machine attached used a young list.
LEMMA DeadStep ==
    ASSUME TypeOK, CacheIsPositive, Next, ~Sleep, Dead, Dead'
    PROVE  /\ cacheAge <= cacheAge'
           /\ pc' \in {"paint", "sleep"} /\ cacheAge' = CacheTtl
                => pc \in {"paint", "sleep"} /\ cacheAge = CacheTtl
<1> USE Delays DEF TypeOK, Goto, Dead
<1> USE DEF world, deck, beacon, sample, machine, cache, tray, memory
<1>1. ~(IdleWaits \/ DiscoverSucceeds \/ DiscoverFails)
  BY DEF IdleWaits, DiscoverSucceeds, DiscoverFails
<1>2. ~(AttachSucceeds \/ AttachFails)
  BY DEF AttachSucceeds, AttachFails, CacheIsPositive
<1>3. CASE CheckPort
  <2>1. PICK listed \in BOOLEAN :
           /\ Ported(listed)
           /\ RefreshCache(listed)
           /\ state' = IF PeerPresent /\ listed THEN "Attached" ELSE "Idle"
    BY <1>3 DEF CheckPort
  <2>2. listed
    BY <2>1
  <2>3. cacheAge < CacheTtl
    BY <2>1, <2>2 DEF Ported
  <2>4. cacheAge' = cacheAge
    BY <2>1, <2>3 DEF RefreshCache
  <2> QED
    BY <2>3, <2>4
<1>4. CASE Drained
  BY <1>4 DEF Drained
<1>5. CASE Paint
  BY <1>5 DEF Paint
<1>6. ~(PairDone \/ RebindFails \/ ForgetDone \/ Quit)
  BY DEF PairDone, RebindFails, ForgetDone, Quit, NewProcess
<1>7. CASE DialogWaits
  BY <1>7 DEF DialogWaits, ClocksAdvance, Least
<1>8. CASE PairEndsWithout \/ ForgetRefused \/ FirstRunEnds
  BY <1>8 DEF PairEndsWithout, ForgetRefused, FirstRunEnds
<1>9. CASE Boot \/ Launch \/ Connect \/ Disconnect \/ OpenPair \/ OpenForget
  BY <1>9 DEF Boot, BootRuns, BootPairs, BootFails, Launch, Connect, Disconnect,
              OpenPair, OpenForget
<1>10. CASE Environment
  BY <1>10 DEF Environment, HandleBeacon, BeaconGoesStale, DeckBinds, DeckUnbinds,
               DeckMoves, LinkDrops
<1> QED
  BY <1>1, <1>2, <1>3, <1>4, <1>5, <1>6, <1>7, <1>8, <1>9, <1>10
  DEF Next, Period, Dialogs, User

\* One step of the watch on dead links, from the variables it reads.
LEMMA NextGone ==
    TypeOK /\ CacheIsPositive /\ GoneIsCached /\ [TNext]_<<vars, waited, gone>>
        => GoneIsCached'
<1> SUFFICES ASSUME TypeOK, CacheIsPositive, GoneIsCached,
                    [TNext]_<<vars, waited, gone>>
             PROVE  GoneIsCached'
  OBVIOUS
<1>1. CASE TNext
  <2> USE Delays
  <2>0. cacheAge \in Nat /\ cacheAge <= CacheTtl /\ cacheAge' \in Nat
    BY <1>1, NextType DEF TNext, TypeOK
  <2>1. gone' = Watch(gone, Dead', CacheTtl)
    BY <1>1 DEF TNext
  <2>2. CASE Sleep
    <3>1. pc = "sleep" /\ pc' = "events" /\ (Dead' <=> Dead)
      BY <2>2 DEF Sleep, Dead, Goto, world, deck
    <3>2. cacheAge' = Least(cacheAge + 1, CacheTtl)
      BY <2>2 DEF Sleep, ClocksAdvance
    <3>3. CASE Dead
      <4>1. gone' = Least(gone + 1, CacheTtl + 1)
        BY <2>1, <3>1, <3>3 DEF Watch
      <4>2. gone \in Nat /\ gone <= cacheAge /\ (cacheAge = CacheTtl => gone = 0)
        BY <3>1, <3>3 DEF GoneIsCached
      <4>3. gone' = gone + 1 /\ gone' <= cacheAge'
        BY <2>0, <3>2, <4>1, <4>2 DEF Least
      <4> QED
        BY <3>1, <3>3, <4>2, <4>3 DEF GoneIsCached
    <3>4. CASE ~Dead
      BY <2>1, <3>1, <3>4 DEF Watch, GoneIsCached
    <3> QED
      BY <3>3, <3>4
  <2>3. CASE ~Sleep
    <3>1. gone' = IF Dead' THEN gone ELSE 0
      BY <1>1, <2>1, <2>3, OnlySleepWakes DEF TNext, Watch
    <3>2. ~Dead \/ ~Dead'
            \/ /\ cacheAge <= cacheAge'
               /\ pc' \in {"paint", "sleep"} /\ cacheAge' = CacheTtl
                    => pc \in {"paint", "sleep"} /\ cacheAge = CacheTtl
      BY <1>1, <2>3, DeadStep DEF TNext
    <3>3. CASE Dead /\ Dead'
      BY <2>0, <3>1, <3>2, <3>3 DEF GoneIsCached
    <3>4. CASE ~(Dead /\ Dead')
      <4>1. gone' = 0
        BY <3>1, <3>4 DEF GoneIsCached
      <4> QED
        BY <2>0, <4>1 DEF GoneIsCached
    <3> QED
      BY <3>3, <3>4
  <2> QED
    BY <2>2, <2>3
<1>2. CASE UNCHANGED <<vars, waited, gone>>
  BY <1>2 DEF vars, world, deck, beacon, sample, machine, cache, tray, memory,
              GoneIsCached, Dead
<1> QED
  BY <1>1, <1>2

\* A connection that is gone is noticed before the port list has been cached
\* for longer than its lifetime, whatever call fails.
THEOREM AttachLossIsNoticed == TSpec => []LossIsNoticed
<1>1. TInit => TypeOK /\ CacheIsPositive /\ GoneIsCached
  <2> SUFFICES ASSUME TInit PROVE TypeOK /\ CacheIsPositive /\ GoneIsCached
    OBVIOUS
  <2>1. gone = 0 /\ ~Dead
    BY DEF TInit, Init, FreshMemory, Dead
  <2> QED
    BY <2>1, InitType, InitCache DEF TInit, GoneIsCached
<1>2. [TNext]_<<vars, waited, gone>> => [Next]_vars
  BY DEF TNext
<1>3. TypeOK /\ GoneIsCached => LossIsNoticed
  BY Delays DEF TypeOK, GoneIsCached, LossIsNoticed
<1> QED
  BY <1>1, <1>2, <1>3, NextType, NextCache, NextGone, PTL DEF TSpec

-----------------------------------------------------------------------------
(* How long a controller that is there can wait. *)

\* An attached state machine has its backoff back at the base.
BackoffIsReset == state = "Attached" => backoff = BaseBackoff

LEMMA NextReset == CacheIsPositive /\ BackoffIsReset /\ [Next]_vars => BackoffIsReset'
<1> SUFFICES ASSUME CacheIsPositive, BackoffIsReset, [Next]_vars PROVE BackoffIsReset'
  OBVIOUS
<1> USE DEF BackoffIsReset, Goto
<1> USE DEF world, deck, beacon, sample, machine, cache, tray, memory
<1>1. CASE Drained \/ IdleWaits \/ CheckPort \/ Paint \/ Sleep \/ DialogWaits
  BY <1>1 DEF Drained, IdleWaits, CheckPort, Paint, Sleep, DialogWaits
<1>2. CASE DiscoverSucceeds \/ DiscoverFails
  BY <1>2 DEF DiscoverSucceeds, DiscoverFails
<1>3. CASE AttachSucceeds \/ AttachFails
  BY <1>3 DEF AttachSucceeds, AttachFails, ResetBackoff, CacheIsPositive
<1>4. CASE PairDone \/ RebindFails \/ ForgetDone \/ Quit
  BY <1>4 DEF PairDone, RebindFails, ForgetDone, Quit, NewProcess
<1>5. CASE PairEndsWithout \/ ForgetRefused \/ FirstRunEnds
  BY <1>5 DEF PairEndsWithout, ForgetRefused, FirstRunEnds
<1>6. CASE Boot \/ Launch \/ Connect \/ Disconnect \/ OpenPair \/ OpenForget
  BY <1>6 DEF Boot, BootRuns, BootPairs, BootFails, Launch, Connect, Disconnect,
              OpenPair, OpenForget
<1>7. CASE Environment
  BY <1>7 DEF Environment, HandleBeacon, BeaconGoesStale, DeckBinds, DeckUnbinds,
              DeckMoves, LinkDrops
<1>8. CASE UNCHANGED vars
  BY <1>8 DEF vars
<1> QED
  BY <1>1, <1>2, <1>3, <1>4, <1>5, <1>6, <1>7, <1>8 DEF Next, Period, Dialogs, User

\* A period that runs while the controller waits works on a true sample: the
\* peer is heard where it is, so an attempt that is due does not fail.
LEMMA WaitingStep ==
    ASSUME TypeOK, CacheIsPositive, GoneIsCached, WaitIsBackoff, Next,
           ~CallFailed, ~Sleep, Ready, Ready', waited > 0
    PROVE  /\ pc' # "attach" => waited <= sinceAttempt'
           /\ state' = "Attached" => state = "Attached"
           /\ pc' \in {"paint", "sleep"} => waited < MaxBackoff
           /\ pc' \in {"tick", "attach"} => heard' /\ host' = home'
           /\ pc' = "attach" => waited <= MaxBackoff
<1> USE Delays DEF Goto, Ready
<1> USE DEF world, deck, beacon, sample, machine, cache, tray, memory
<1>0. /\ waited \in Nat /\ sinceAttempt \in Nat /\ sinceAttempt <= MaxBackoff
      /\ backoff \in Nat /\ backoff <= MaxBackoff /\ home \in Host
      /\ cacheAge \in Nat /\ cacheAge <= CacheTtl /\ gone \in Nat
  BY DEF TypeOK, WaitIsBackoff, GoneIsCached
<1>1. /\ pc # "attach" => waited <= sinceAttempt
      /\ state = "Attached" => waited <= gone
      /\ pc \in {"paint", "sleep"} => waited < MaxBackoff
      /\ pc \in {"tick", "attach"} => heard /\ host = home
      /\ pc = "attach" => waited <= MaxBackoff
  BY DEF WaitIsBackoff
<1>2. pc \in {"tick", "attach"} => PeerPresent /\ host # NoHost /\ Offered(host)
  BY <1>0, <1>1 DEF PeerPresent, Offered
<1>3. CASE Drained
  BY <1>1, <1>3 DEF Drained
<1>4. CASE IdleWaits
  <2>1. sinceAttempt < backoff
    BY <1>0, <1>2, <1>4 DEF IdleWaits, Due
  <2>2. waited < MaxBackoff
    BY <1>0, <1>1, <1>4, <2>1 DEF IdleWaits
  <2> QED
    BY <1>1, <1>4, <2>2 DEF IdleWaits
<1>5. CASE DiscoverSucceeds
  <2>1. waited <= MaxBackoff
    BY <1>0, <1>1, <1>5 DEF DiscoverSucceeds
  <2> QED
    BY <1>1, <1>5, <2>1 DEF DiscoverSucceeds
<1>6. ~DiscoverFails
  BY <1>2 DEF DiscoverFails, CallFailed
<1>7. ~AttachSucceeds
  BY <1>0, <1>1 DEF AttachSucceeds
<1>8. ~AttachFails
  BY <1>2 DEF AttachFails, CallFailed
<1>9. CASE CheckPort
  <2>1. pc = "tick" /\ pc' = "paint" /\ state = "Attached" /\ UNCHANGED sinceAttempt
    BY <1>9 DEF CheckPort
  <2>2. gone <= cacheAge
    BY <2>1 DEF GoneIsCached, Dead
  <2>3. waited < MaxBackoff
    BY <1>0, <1>1, <2>1, <2>2
  <2> QED
    BY <1>1, <2>1, <2>3
<1>10. CASE Paint
  BY <1>1, <1>10 DEF Paint
<1>11. ~(PairDone \/ RebindFails \/ ForgetDone \/ Quit)
  BY DEF PairDone, RebindFails, ForgetDone, Quit, NewProcess
<1>12. CASE DialogWaits
  <2>1. sinceAttempt' = Least(sinceAttempt + 1, MaxBackoff)
    BY <1>12 DEF DialogWaits, ClocksAdvance
  <2>2. sinceAttempt <= sinceAttempt' /\ sinceAttempt' \in Nat
    BY <1>0, <2>1 DEF Least
  <2>3. pc \in {"pairing", "forget"} /\ pc' = pc /\ state' = state
    BY <1>12 DEF DialogWaits
  <2>4. waited <= sinceAttempt'
    BY <1>0, <1>1, <2>2, <2>3
  <2> QED
    BY <2>3, <2>4
<1>13. CASE PairEndsWithout \/ ForgetRefused \/ FirstRunEnds
  BY <1>1, <1>13 DEF PairEndsWithout, ForgetRefused, FirstRunEnds
<1>14. CASE Boot \/ Launch \/ Connect \/ Disconnect \/ OpenPair \/ OpenForget
  BY <1>1, <1>14 DEF Boot, BootRuns, BootPairs, BootFails, Launch, Connect, Disconnect,
                     OpenPair, OpenForget
<1>15. CASE Environment
  <2>1. ~(BeaconGoesStale \/ DeckBinds \/ DeckUnbinds \/ DeckMoves \/ LinkDrops)
    BY <1>15 DEF BeaconGoesStale, DeckBinds, DeckUnbinds, DeckMoves, LinkDrops
  <2>2. HandleBeacon
    BY <1>15, <2>1 DEF Environment
  <2> QED
    BY <1>1, <2>2 DEF HandleBeacon
<1> QED
  BY <1>3, <1>4, <1>5, <1>6, <1>7, <1>8, <1>9, <1>10, <1>11, <1>12, <1>13, <1>14, <1>15
  DEF Next, Period, Dialogs, User

\* The watch on waits follows.
LEMMA NextWait ==
    ASSUME TypeOK, CacheIsPositive, GoneIsCached, BackoffIsReset, WaitIsBackoff,
           [TNext]_<<vars, waited, gone>>
    PROVE  WaitIsBackoff'
<1>1. CASE TNext
  <2> USE Delays
  <2>0. Next /\ waited' = Watch(waited, Ready' /\ ~CallFailed, MaxBackoff)
        /\ gone' = Watch(gone, Dead', CacheTtl)
    BY <1>1 DEF TNext
  <2>1. /\ sinceAttempt \in Nat /\ sinceAttempt <= MaxBackoff
        /\ sinceAttempt' \in Nat /\ sinceAttempt' <= MaxBackoff
        /\ waited \in Nat /\ gone \in Nat /\ gone' \in Nat
    BY <1>1, <2>0, NextType, NextGone DEF TypeOK, WaitIsBackoff, GoneIsCached
  <2>2. state' = "Attached" => backoff' = BaseBackoff
    BY <2>0, NextReset DEF BackoffIsReset
  <2>3. ASSUME waited' = 0 PROVE WaitIsBackoff'
    BY <2>1, <2>2, <2>3 DEF WaitIsBackoff
  <2>4. CASE ~Ready' \/ CallFailed
    BY <2>0, <2>3, <2>4 DEF Watch
  <2>5. CASE Ready' /\ ~CallFailed /\ Sleep
    <3>1. pc = "sleep" /\ pc' = "events" /\ (Ready <=> Ready') /\ state' = state
          /\ (Dead <=> Dead')
      BY <2>5 DEF Sleep, Goto, Ready, Dead, world, deck, beacon
    <3>2. sinceAttempt' = Least(sinceAttempt + 1, MaxBackoff)
      BY <2>5 DEF Sleep, ClocksAdvance
    <3>3. waited' = Least(waited + 1, MaxBackoff + 1)
      BY <2>0, <2>5, <3>1 DEF Watch
    <3>4. waited < MaxBackoff /\ waited <= sinceAttempt
      BY <3>1 DEF WaitIsBackoff
    <3>5. waited' = waited + 1 /\ waited' <= sinceAttempt' /\ waited' \in Nat
      BY <2>1, <3>2, <3>3, <3>4 DEF Least
    <3>6. state = "Attached" => waited' <= gone'
      <4> SUFFICES ASSUME state = "Attached" PROVE waited' <= gone'
        OBVIOUS
      <4>1. Dead'
        BY <2>5, <3>1 DEF Ready, Dead
      <4>2. gone' = Least(gone + 1, CacheTtl + 1)
        BY <2>0, <3>1, <4>1 DEF Watch
      <4>3. waited <= gone /\ gone <= CacheTtl
        BY <3>1, <4>1 DEF WaitIsBackoff, GoneIsCached, TypeOK
      <4> QED
        BY <2>1, <3>5, <4>2, <4>3 DEF Least
    <3> QED
      BY <2>2, <2>5, <3>1, <3>5, <3>6 DEF WaitIsBackoff
  <2>6. CASE Ready' /\ ~CallFailed /\ ~Sleep
    <3>1. waited' = waited /\ gone' = IF Dead' THEN gone ELSE 0
      BY <2>0, <2>6, OnlySleepWakes DEF Watch
    <3>2. CASE waited = 0
      BY <2>3, <3>1, <3>2
    <3>3. CASE waited # 0
      <4>1. Ready /\ waited > 0
        BY <2>1, <3>3 DEF WaitIsBackoff
      <4>2. /\ pc' # "attach" => waited <= sinceAttempt'
            /\ state' = "Attached" => state = "Attached"
            /\ pc' \in {"paint", "sleep"} => waited < MaxBackoff
            /\ pc' \in {"tick", "attach"} => heard' /\ host' = home'
            /\ pc' = "attach" => waited <= MaxBackoff
        BY <2>0, <2>6, <4>1, WaitingStep
      <4>3. state' = "Attached" => waited' <= gone'
        BY <2>6, <3>1, <4>2 DEF Ready, Dead, WaitIsBackoff
      <4> QED
        BY <2>1, <2>2, <2>6, <3>1, <4>2, <4>3 DEF WaitIsBackoff
    <3> QED
      BY <3>2, <3>3
  <2> QED
    BY <2>4, <2>5, <2>6
<1>2. CASE UNCHANGED <<vars, waited, gone>>
  <2> USE <1>2 DEF vars, world, deck, beacon, sample, machine, cache, tray, memory
  <2>1. (Ready' <=> Ready) /\ (heard' <=> heard)
    BY DEF Ready
  <2>2. UNCHANGED <<waited, gone, sinceAttempt, state, backoff, pc, host, home>>
    OBVIOUS
  <2> QED
    BY <2>1, <2>2 DEF WaitIsBackoff
<1> QED
  BY <1>1, <1>2

\* A controller that is there is attached, or a call on it fails, within the
\* longest backoff, for every pair of backoffs and cache lifetime.
THEOREM AttachIsPrompt == TSpec => []ReattachIsPrompt
<1>1. TInit => /\ TypeOK /\ CacheIsPositive /\ GoneIsCached
               /\ BackoffIsReset /\ WaitIsBackoff
  <2> SUFFICES ASSUME TInit
               PROVE  /\ TypeOK /\ CacheIsPositive /\ GoneIsCached
                      /\ BackoffIsReset /\ WaitIsBackoff
    OBVIOUS
  <2>1. gone = 0 /\ waited = 0 /\ ~Dead /\ state = "Idle" /\ pc = "off"
    BY DEF TInit, Init, FreshMemory, Dead
  <2>2. sinceAttempt = MaxBackoff
    BY DEF TInit, Init, FreshMemory
  <2> QED
    BY <2>1, <2>2, Delays, InitType, InitCache
    DEF TInit, GoneIsCached, BackoffIsReset, WaitIsBackoff
<1>2. [TNext]_<<vars, waited, gone>> => [Next]_vars
  BY DEF TNext
<1>3. TypeOK /\ WaitIsBackoff => ReattachIsPrompt
  <2> SUFFICES ASSUME TypeOK, WaitIsBackoff PROVE waited <= MaxBackoff
    BY DEF ReattachIsPrompt
  <2>1. sinceAttempt \in Nat /\ sinceAttempt <= MaxBackoff
    BY Delays DEF TypeOK
  <2>2. waited \in Nat /\ (pc = "attach" => waited <= MaxBackoff)
        /\ (pc # "attach" => waited <= sinceAttempt)
    BY DEF WaitIsBackoff
  <2> QED
    BY <2>1, <2>2, Delays
<1>4. TypeOK /\ CacheIsPositive /\ GoneIsCached /\ BackoffIsReset /\ WaitIsBackoff
        /\ [TNext]_<<vars, waited, gone>> => WaitIsBackoff'
  BY NextWait
<1> QED
  BY <1>1, <1>2, <1>3, <1>4, NextType, NextCache, NextGone, NextReset, PTL DEF TSpec
===============================================================================
