---------------------------- MODULE PairUiProofs ----------------------------
(***************************************************************************)
(* Theorems about the pairing screens.                                     *)
(***************************************************************************)
EXTENDS PairUi, TLAPS

Kinds == {"start", "starting", "searching", "prompt", "finalizing", "done", "failed"}

Screens == [kind : Kinds, key : Key \cup {NoPeer}]

\* What the window shows, and what it has yet to show.
Pending == {posted[i] : i \in DOMAIN posted}

On == {screen} \cup Pending

\* The dialog or the kiosk can still be clicked.
Attended == window \in {"open", "asked", "going"}

UTypeOK ==
    /\ front \in {"kiosk", "dialog"}
    /\ screen \in Screens
    /\ posted \in Seq(Screens)
    /\ batch \subseteq Key
    /\ asked \in Key \cup {NoPeer}
    /\ worker \in {"prompt", "check", "accept", "tail"} => asked \in Key

\* A success that is shown or about to be shown is the worker's last word.
DoneInv ==
    /\ worker = "tail" => saved = asked
    /\ \A s \in On : s.kind = "done" => worker \in {"leaving", "ended"} /\ saved = s.key

\* The dialog's worker runs once, and its outcome says what it has saved.
OutcomeInv ==
    /\ window = "closed" => worker = "ended"
    /\ front = "dialog" =>
          /\ worker # "none"
          /\ worker \notin {"tail", "leaving", "ended"} => saved = NoPeer
          /\ worker \notin {"leaving", "ended"} => outcome = "none"
          /\ worker \in {"leaving", "ended"} => (outcome = "paired" <=> saved # NoPeer)

\* While no prompt has got two clicks: a prompt without a click is the one the
\* worker waits at, and an Accept under way is about that prompt.
AnswerInv ==
    ~twice =>
        /\ answers = <<>> \/ \E a : answers = <<a>>
        /\ \A a : answers = <<a>> /\ a.says = "accept" =>
              \/ worker = "prompt" /\ asked \in accepted
              \/ window = "closed"
        /\ Attended =>
              /\ answers # <<>> => worker = "prompt" /\ asked \in clicked
              /\ \A s \in On : s.kind = "prompt" /\ s.key \notin clicked
                    => worker = "prompt" /\ asked = s.key

\* Until the dialog is cancelled, no prompt gets a second click: a prompt that
\* was answered is gone from the screen and from the queue, and its peer is not
\* offered again.
DialogInv ==
    front = "dialog" /\ ~cancel /\ Attended =>
        /\ \A s \in On : s.kind = "prompt" => s.key \notin clicked
        /\ screen.kind = "prompt" => \A s \in Pending : s.kind # "prompt"
        /\ worker \in {"waiting", "top", "collect", "ask"} => clicked \subseteq declined
        /\ worker = "prompt" => clicked \subseteq declined \cup {asked} /\ asked \notin batch
        /\ batch \cap declined = {}

\* From the Accept to the trust file: after a double click only a cancelled dialog
\* can come this far, and its worker tests the flag before it accepts.
TrustInv ==
    /\ front = "dialog" /\ twice => cancel
    /\ worker = "check" => asked \in accepted \/ twice
    /\ worker \in {"accept", "tail"} => asked \in accepted \/ (front = "kiosk" /\ twice)
    /\ OnlyAcceptedIsTrusted

UInv == UTypeOK /\ DoneInv /\ OutcomeInv /\ AnswerInv /\ DialogInv /\ TrustInv

-----------------------------------------------------------------------------
\* The slot and the queue: what is posted comes on top of what was there, at most.
LEMMA PostAdds ==
  ASSUME UTypeOK, NEW s \in Screens, Post(s) \/ PostPhase(s)
  PROVE  posted' \in Seq(Screens) /\ Pending' \subseteq Pending \cup {s}
<1>1. CASE posted' = <<s>>
  BY <1>1 DEF Pending
<1>2. CASE posted' = Append(posted, s)
  <2>1. posted' \in Seq(Screens) /\ DOMAIN posted' = 1 .. Len(posted) + 1
    BY <1>2 DEF UTypeOK
  <2>2. \A i \in DOMAIN posted' : (i \in DOMAIN posted /\ posted'[i] = posted[i]) \/ posted'[i] = s
    BY <1>2, <2>1 DEF UTypeOK
  <2> QED
    BY <2>1, <2>2 DEF Pending
<1>3. CASE posted' = posted
  BY <1>3 DEF Pending, UTypeOK
<1> QED
  BY <1>1, <1>2, <1>3 DEF Post, PostPhase

\* A frame shows what was shown or what was posted, and posts nothing.
LEMMA DrawsShows ==
  ASSUME UTypeOK, Draws
  PROVE  /\ screen' \in On
         /\ posted' \in Seq(Screens) /\ Pending' \subseteq Pending
         /\ front = "dialog" => Pending' = {}
<1>1. posted # <<>> => LastPosted \in Pending
  BY DEF UTypeOK, LastPosted, Pending
<1>2. screen' \in On
  BY <1>1 DEF Draws, On
<1>3. posted' = posted => posted' \in Seq(Screens) /\ Pending' = Pending
  BY DEF UTypeOK, Pending
<1>4. posted' = <<>> => posted' \in Seq(Screens) /\ Pending' = {}
  BY DEF Pending
<1>5. posted' = posted \/ posted' = <<>>
  BY DEF Draws
<1>6. front = "dialog" => posted' = <<>>
  BY DEF Draws
<1> QED
  BY <1>2, <1>3, <1>4, <1>5, <1>6

LEMMA PendingKept == posted' = posted => Pending' = Pending
  BY DEF Pending

LEMMA NothingPending == posted' = <<>> => posted' \in Seq(Screens) /\ Pending' = {}
  BY DEF Pending

\* "Start pairing" on the kiosk starts a worker from nothing, or does nothing.
LEMMA Restarts ==
  ASSUME UTypeOK, ClickStartWorker
  PROVE  \/ /\ worker' = "waiting" /\ asked' = NoPeer /\ batch' = {}
            /\ screen' = Shows("starting", NoPeer) /\ screen' \in Screens
            /\ posted' \in Seq(Screens) /\ Pending' = {screen'}
            /\ answers' = <<>>
         \/ UNCHANGED <<worker, asked, batch, screen, posted, answers, clicked, outcome, declined>>
<1>1. CASE worker \in {"none", "ended"}
  <2>1. screen' = Shows("starting", NoPeer) /\ posted' = <<screen'>>
    BY <1>1 DEF ClickStartWorker
  <2>2. screen' \in Screens
    BY <2>1 DEF Shows, Screens, Kinds
  <2>3. posted' \in Seq(Screens) /\ Pending' = {screen'}
    BY <2>1, <2>2 DEF Pending
  <2> QED
    BY <1>1, <2>1, <2>2, <2>3 DEF ClickStartWorker
<1>2. CASE worker \notin {"none", "ended"}
  BY <1>2 DEF ClickStartWorker
<1> QED
  BY <1>1, <1>2

LEMMA OnTyped == UTypeOK => On \subseteq Screens
  BY DEF UTypeOK, On, Pending

\* A click on a prompt, in AnswerInv and in DialogInv.
LEMMA AnswerClicked ==
  ASSUME UInv, NEW says, NEW next, next.kind # "prompt", ClickAnswer(says, next)
  PROVE  AnswerInv'
<1> SUFFICES ASSUME ~twice' PROVE AnswerInv'
  BY DEF AnswerInv
<1>1. ~twice /\ screen.key \notin clicked /\ Attended /\ screen.kind = "prompt"
  BY DEF ClickAnswer, Click, Attended
<1>2. worker = "prompt" /\ asked = screen.key
  BY <1>1 DEF UInv, AnswerInv, On
<1>3. answers = <<>>
  BY <1>1, <1>2 DEF UInv, AnswerInv
<1>4. answers' = <<[says |-> says, about |-> screen.key]>>
  BY <1>3 DEF ClickAnswer, Answer
<1>5. On' \subseteq On \cup {next}
  BY PendingKept DEF ClickAnswer, On
<1>6. \A s \in On' : s.kind = "prompt" /\ s.key \notin clicked => worker = "prompt" /\ asked = s.key
  BY <1>1, <1>5 DEF UInv, AnswerInv
<1> QED
  BY <1>1, <1>2, <1>4, <1>6 DEF ClickAnswer, AnswerInv, thread

LEMMA DialogClicked ==
  ASSUME UInv, NEW says, NEW next, next.kind # "prompt", ClickAnswer(says, next)
  PROVE  DialogInv'
<1> SUFFICES ASSUME front' = "dialog", ~cancel', Attended' PROVE DialogInv'
  BY DEF DialogInv
<1>1. front = "dialog" /\ ~cancel /\ Attended /\ screen.kind = "prompt"
  BY DEF ClickAnswer, Click, Attended
<1>2. ~twice /\ screen.key \notin clicked
  BY <1>1 DEF UInv, TrustInv, DialogInv, On
<1>3. worker = "prompt" /\ asked = screen.key
  BY <1>1, <1>2 DEF UInv, AnswerInv, On
<1>4. screen' = next /\ Pending' = Pending /\ \A s \in Pending : s.kind # "prompt"
  BY <1>1, PendingKept DEF ClickAnswer, UInv, DialogInv
<1> QED
  BY <1>1, <1>3, <1>4 DEF ClickAnswer, thread, UInv, DialogInv, On

-----------------------------------------------------------------------------
(* The parts, one after the other. *)

LEMMA TypeKept == UInv /\ [Next]_uivars => UTypeOK'
<1> SUFFICES ASSUME UInv, [Next]_uivars PROVE UTypeOK'
  OBVIOUS
<1> USE DEF UInv, UTypeOK
<1> USE DEF uiState, thread, history, NotUi
<1>1. CASE Begin
  BY <1>1, PostAdds DEF Begin, Goto, Shows, Screens, Kinds
<1>2. CASE TestsWhileCollecting
  BY <1>2 DEF TestsWhileCollecting, Tested, Goto
<1>3. CASE TestsWhileAccepting
  BY <1>3 DEF TestsWhileAccepting, Tested, Goto
<1>4. CASE Tick
  BY <1>4 DEF Tick, Goto
<1>5. CASE WorkerFails
  BY <1>5, PostAdds DEF WorkerFails, Fails, Goto, Shows, Screens, Kinds
<1>6. CASE CollectsBatch
  BY <1>6 DEF CollectsBatch, Goto
<1>7. CASE Asks
  BY <1>7, PostAdds DEF Asks, Goto, Shows, Screens, Kinds
<1>8. CASE TakesAccept
  BY <1>8, PostAdds DEF TakesAccept, Takes, Goto, Shows, Screens, Kinds
<1>9. CASE TakesReject
  BY <1>9, PostAdds DEF TakesReject, Takes, Goto, Shows, Screens, Kinds
<1>10. CASE SavesTrust
  BY <1>10, PostAdds DEF SavesTrust, Fails, Goto, Shows, Screens, Kinds
<1>11. CASE Paired
  BY <1>11, PostAdds DEF Paired, Goto, Shows, Screens, Kinds
<1>12. CASE Leaves
  BY <1>12 DEF Leaves, Goto
<1>13. CASE Paint
  BY <1>13, DrawsShows, OnTyped DEF Paint, Attended
<1>14. CASE ClickAccept
  BY <1>14 DEF ClickAccept, ClickAnswer, Click, Shows, Screens, Kinds
<1>15. CASE ClickReject
  BY <1>15 DEF ClickReject, ClickAnswer, Click, Shows, Screens, Kinds
<1>16. CASE ClickStart
  BY <1>16 DEF ClickStart, Click, Shows, Screens, Kinds
<1>17. CASE ClickStartWorker
  BY <1>17, Restarts DEF ClickStartWorker, Click, Shows, Screens, Kinds
<1>18. CASE ClickTryAgain
  BY <1>18, NothingPending DEF ClickTryAgain, Click, Shows, Screens, Kinds
<1>19. CASE ClickClose
  BY <1>19 DEF ClickClose, Click, Shows, Screens, Kinds
<1>20. CASE DialogCloses
  BY <1>20, DrawsShows, OnTyped DEF DialogCloses, Attended
<1>21. CASE KioskCloses
  BY <1>21 DEF KioskCloses
<1>22. CASE DialogGone
  BY <1>22 DEF DialogGone
<1>23. CASE DialogCancels
  BY <1>23 DEF DialogCancels
<1>24. CASE DialogReturns
  BY <1>24 DEF DialogReturns
<1>25. CASE KioskExits
  BY <1>25 DEF KioskExits
<1>26. CASE UNCHANGED uivars
  BY <1>26 DEF uivars
<1> QED
  BY <1>1, <1>2, <1>3, <1>4, <1>5, <1>6, <1>7, <1>8, <1>9, <1>10, <1>11, <1>12, <1>13,
     <1>14, <1>15, <1>16, <1>17, <1>18, <1>19, <1>20, <1>21, <1>22, <1>23, <1>24,
     <1>25, <1>26 DEF Next, WorkerStep, Window, Closing

LEMMA DoneKept == UInv /\ [Next]_uivars => DoneInv'
<1> SUFFICES ASSUME UInv, [Next]_uivars PROVE DoneInv'
  OBVIOUS
<1> USE DEF UInv, UTypeOK, DoneInv, On
<1> USE DEF uiState, thread, history, NotUi
<1>1. CASE Begin
  BY <1>1, PostAdds, PendingKept DEF Begin, Goto, Shows, Screens, Kinds
<1>2. CASE TestsWhileCollecting
  BY <1>2, PendingKept DEF TestsWhileCollecting, Tested, Goto
<1>3. CASE TestsWhileAccepting
  BY <1>3, PendingKept DEF TestsWhileAccepting, Tested, Goto
<1>4. CASE Tick
  BY <1>4, PendingKept DEF Tick, Goto
<1>5. CASE WorkerFails
  BY <1>5, PostAdds, PendingKept DEF WorkerFails, Fails, Goto, Shows, Screens, Kinds
<1>6. CASE CollectsBatch
  BY <1>6, PendingKept DEF CollectsBatch, Goto
<1>7. CASE Asks
  <2>1. CASE batch = {}
    BY <1>7, <2>1, PendingKept DEF Asks, Goto
  <2>2. CASE batch # {}
    <3>1. PICK k \in batch : Post(Shows("prompt", k)) /\ worker' = "prompt"
      BY <1>7, <2>2 DEF Asks, Goto
    <3>2. Shows("prompt", k) \in Screens /\ Shows("prompt", k).kind # "done"
      BY DEF Shows, Screens, Kinds
    <3>3. Pending' \subseteq Pending \cup {Shows("prompt", k)}
      BY <3>1, <3>2, PostAdds
    <3> QED
      BY <1>7, <3>1, <3>2, <3>3 DEF Asks
  <2> QED
    BY <2>1, <2>2
<1>8. CASE TakesAccept
  BY <1>8, PostAdds, PendingKept DEF TakesAccept, Takes, Goto, Shows, Screens, Kinds
<1>9. CASE TakesReject
  BY <1>9, PostAdds, PendingKept DEF TakesReject, Takes, Goto, Shows, Screens, Kinds
<1>10. CASE SavesTrust
  BY <1>10, PostAdds, PendingKept DEF SavesTrust, Fails, Goto, Shows, Screens, Kinds
<1>11. CASE Paired
  BY <1>11, PostAdds, PendingKept DEF Paired, Goto, Shows, Screens, Kinds
<1>12. CASE Leaves
  BY <1>12, PendingKept DEF Leaves, Goto
<1>13. CASE Paint
  BY <1>13, DrawsShows, PendingKept DEF Paint
<1>14. CASE ClickAccept
  BY <1>14, PendingKept DEF ClickAccept, ClickAnswer, Click, Shows, Screens, Kinds
<1>15. CASE ClickReject
  BY <1>15, PendingKept DEF ClickReject, ClickAnswer, Click, Shows, Screens, Kinds
<1>16. CASE ClickStart
  BY <1>16, PendingKept DEF ClickStart, Click, Shows, Screens, Kinds
<1>17. CASE ClickStartWorker
  <2>1. UNCHANGED <<front, window, cancel, saved, accepted, twice>>
    BY <1>17 DEF ClickStartWorker
  <2> QED
    BY <1>17, <2>1, Restarts, PendingKept DEF Shows
<1>18. CASE ClickTryAgain
  BY <1>18, NothingPending, PendingKept DEF ClickTryAgain, Click, Shows, Screens, Kinds
<1>19. CASE ClickClose
  BY <1>19, PendingKept DEF ClickClose, Click, Shows, Screens, Kinds
<1>20. CASE DialogCloses
  BY <1>20, DrawsShows, PendingKept DEF DialogCloses
<1>21. CASE KioskCloses
  BY <1>21, PendingKept DEF KioskCloses
<1>22. CASE DialogGone
  BY <1>22, PendingKept DEF DialogGone
<1>23. CASE DialogCancels
  BY <1>23, PendingKept DEF DialogCancels
<1>24. CASE DialogReturns
  BY <1>24, PendingKept DEF DialogReturns
<1>25. CASE KioskExits
  BY <1>25, PendingKept DEF KioskExits
<1>26. CASE UNCHANGED uivars
  BY <1>26, PendingKept DEF uivars
<1> QED
  BY <1>1, <1>2, <1>3, <1>4, <1>5, <1>6, <1>7, <1>8, <1>9, <1>10, <1>11, <1>12, <1>13,
     <1>14, <1>15, <1>16, <1>17, <1>18, <1>19, <1>20, <1>21, <1>22, <1>23, <1>24,
     <1>25, <1>26 DEF Next, WorkerStep, Window, Closing

LEMMA OutcomeKept == UInv /\ [Next]_uivars => OutcomeInv'
<1> SUFFICES ASSUME UInv, [Next]_uivars PROVE OutcomeInv'
  OBVIOUS
<1> USE DEF UInv, UTypeOK, OutcomeInv
<1> USE DEF uiState, thread, history, NotUi
<1>1. CASE Begin
  BY <1>1 DEF Begin, Goto
<1>2. CASE TestsWhileCollecting
  BY <1>2 DEF TestsWhileCollecting, Tested, Goto
<1>3. CASE TestsWhileAccepting
  BY <1>3 DEF TestsWhileAccepting, Tested, Goto
<1>4. CASE Tick
  BY <1>4 DEF Tick, Goto
<1>5. CASE WorkerFails
  BY <1>5 DEF WorkerFails, Fails, Goto
<1>6. CASE CollectsBatch
  BY <1>6 DEF CollectsBatch, Goto
<1>7. CASE Asks
  BY <1>7 DEF Asks, Goto
<1>8. CASE TakesAccept
  BY <1>8 DEF TakesAccept, Takes, Goto
<1>9. CASE TakesReject
  BY <1>9 DEF TakesReject, Takes, Goto
<1>10. CASE SavesTrust
  BY <1>10, PairUiConstants DEF SavesTrust, Fails, Goto
<1>11. CASE Paired
  <2>1. saved = asked /\ asked \in Key
    BY <1>11 DEF Paired, DoneInv
  <2> QED
    BY <1>11, <2>1, PairUiConstants DEF Paired, Goto
<1>12. CASE Leaves
  BY <1>12 DEF Leaves, Goto
<1>13. CASE Paint
  BY <1>13 DEF Paint
<1>14. CASE ClickAccept
  BY <1>14 DEF ClickAccept, ClickAnswer, Click
<1>15. CASE ClickReject
  BY <1>15 DEF ClickReject, ClickAnswer, Click
<1>16. CASE ClickStart
  BY <1>16 DEF ClickStart, Click
<1>17. CASE ClickStartWorker
  BY <1>17 DEF ClickStartWorker, Click, Click
<1>18. CASE ClickTryAgain
  BY <1>18 DEF ClickTryAgain, Click
<1>19. CASE ClickClose
  BY <1>19 DEF ClickClose, Click
<1>20. CASE DialogCloses
  BY <1>20 DEF DialogCloses
<1>21. CASE KioskCloses
  BY <1>21 DEF KioskCloses
<1>22. CASE DialogGone
  BY <1>22 DEF DialogGone
<1>23. CASE DialogCancels
  BY <1>23 DEF DialogCancels
<1>24. CASE DialogReturns
  BY <1>24 DEF DialogReturns, Joined
<1>25. CASE KioskExits
  BY <1>25 DEF KioskExits
<1>26. CASE UNCHANGED uivars
  BY <1>26 DEF uivars
<1> QED
  BY <1>1, <1>2, <1>3, <1>4, <1>5, <1>6, <1>7, <1>8, <1>9, <1>10, <1>11, <1>12, <1>13,
     <1>14, <1>15, <1>16, <1>17, <1>18, <1>19, <1>20, <1>21, <1>22, <1>23, <1>24,
     <1>25, <1>26 DEF Next, WorkerStep, Window, Closing

LEMMA AnswerKept == UInv /\ [Next]_uivars => AnswerInv'
<1> SUFFICES ASSUME UInv, [Next]_uivars PROVE AnswerInv'
  OBVIOUS
<1> USE DEF UInv, UTypeOK, OutcomeInv, AnswerInv, On, Attended
<1> USE DEF uiState, thread, history, NotUi
<1>1. CASE Begin
  BY <1>1, PostAdds, PendingKept DEF Begin, Goto, Shows, Screens, Kinds
<1>2. CASE TestsWhileCollecting
  BY <1>2, PendingKept DEF TestsWhileCollecting, Tested, Goto
<1>3. CASE TestsWhileAccepting
  BY <1>3, PendingKept DEF TestsWhileAccepting, Tested, Goto
<1>4. CASE Tick
  BY <1>4, PendingKept DEF Tick, Goto
<1>5. CASE WorkerFails
  BY <1>5, PostAdds, PendingKept DEF WorkerFails, Fails, Goto, Shows, Screens, Kinds
<1>6. CASE CollectsBatch
  BY <1>6, PendingKept DEF CollectsBatch, Goto
<1>7. CASE Asks
  <2> SUFFICES ASSUME ~twice' PROVE AnswerInv'
    BY DEF AnswerInv
  <2>1. ~twice /\ worker = "ask" /\ UNCHANGED <<window, screen, clicked, accepted,
     twice, answers>>
    BY <1>7 DEF Asks
  <2>2. window # "closed"
    BY <2>1
  <2>3. Attended => answers = <<>> /\ \A p \in On : p.kind = "prompt" => p.key \in
     clicked
    BY <2>1
  <2>4. \A a : answers = <<a>> => a.says # "accept"
    BY <2>1, <2>2
  <2>5. CASE batch = {}
    BY <1>7, <2>1, <2>3, <2>4, <2>5, PendingKept DEF Asks, Goto
  <2>6. CASE batch # {}
    <3>1. PICK k \in batch : asked' = k /\ Post(Shows("prompt", k)) /\ worker' =
     "prompt"
      BY <1>7, <2>6 DEF Asks, Goto
    <3>2. Shows("prompt", k) \in Screens /\ Shows("prompt", k).key = k
      BY DEF Shows, Screens, Kinds
    <3>3. Pending' \subseteq Pending \cup {Shows("prompt", k)}
      BY <3>1, <3>2, PostAdds
    <3> QED
      BY <2>1, <2>3, <2>4, <3>1, <3>2, <3>3
  <2> QED
    BY <2>5, <2>6
<1>8. CASE TakesAccept
  <2> SUFFICES ASSUME ~twice' PROVE AnswerInv'
    BY DEF AnswerInv
  <2> DEFINE s == Shows("finalizing", asked)
  <2>1. ~twice /\ worker = "prompt" /\ UNCHANGED <<window, screen, clicked, accepted,
     twice>>
    BY <1>8 DEF TakesAccept, Takes
  <2>2. answers' = <<>> /\ (Attended => answers # <<>>)
    <3>1. CASE answers = <<>>
      BY <1>8, <3>1 DEF TakesAccept, Takes, HungUp
    <3>2. CASE \E a : answers = <<a>>
      BY <1>8, <3>2 DEF TakesAccept, Takes
    <3> QED
      BY <2>1, <3>1, <3>2
  <2>3. s \in Screens /\ s.kind # "prompt"
    BY <2>1 DEF Shows, Screens, Kinds
  <2>4. Pending' \subseteq Pending \cup {s}
    BY <1>8, <2>3, PostAdds DEF TakesAccept
  <2>5. Attended => \A p \in On : p.kind = "prompt" => p.key \in clicked
    BY <2>1, <2>2
  <2> QED
    BY <2>1, <2>2, <2>3, <2>4, <2>5
<1>9. CASE TakesReject
  <2> SUFFICES ASSUME ~twice' PROVE AnswerInv'
    BY DEF AnswerInv
  <2> DEFINE s == Shows("searching", NoPeer)
  <2>1. ~twice /\ worker = "prompt" /\ UNCHANGED <<window, screen, clicked, accepted,
     twice>>
    BY <1>9 DEF TakesReject, Takes
  <2>2. answers' = <<>> /\ (Attended => answers # <<>>)
    <3>1. CASE answers = <<>>
      BY <1>9, <3>1 DEF TakesReject, Takes, HungUp
    <3>2. CASE \E a : answers = <<a>>
      BY <1>9, <3>2 DEF TakesReject, Takes
    <3> QED
      BY <2>1, <3>1, <3>2
  <2>3. s \in Screens /\ s.kind # "prompt"
    BY <2>1 DEF Shows, Screens, Kinds
  <2>4. Pending' \subseteq Pending \cup {s}
    BY <1>9, <2>3, PostAdds DEF TakesReject
  <2>5. Attended => \A p \in On : p.kind = "prompt" => p.key \in clicked
    BY <2>1, <2>2
  <2> QED
    BY <2>1, <2>2, <2>3, <2>4, <2>5
<1>10. CASE SavesTrust
  BY <1>10, PostAdds, PendingKept DEF SavesTrust, Fails, Goto, Shows, Screens, Kinds
<1>11. CASE Paired
  BY <1>11, PostAdds, PendingKept DEF Paired, Goto, Shows, Screens, Kinds
<1>12. CASE Leaves
  BY <1>12, PendingKept DEF Leaves, Goto
<1>13. CASE Paint
  BY <1>13, DrawsShows, PendingKept DEF Paint
<1>14. CASE ClickAccept
  BY <1>14, AnswerClicked DEF ClickAccept, Shows
<1>15. CASE ClickReject
  BY <1>15, AnswerClicked DEF ClickReject, Shows
<1>16. CASE ClickStart
  BY <1>16, PendingKept DEF ClickStart, Click, Shows, Screens, Kinds
<1>17. CASE ClickStartWorker
  <2>1. UNCHANGED <<front, window, cancel, saved, accepted, twice>>
    BY <1>17 DEF ClickStartWorker
  <2>2. CASE screen' = Shows("starting", NoPeer) /\ Pending' = {screen'} /\ answers' =
     <<>>
    <3>1. answers' = <<>> /\ \A a : answers' # <<a>>
      BY <2>2
    <3>2. \A s \in On' : s.kind # "prompt"
      BY <2>2 DEF Shows
    <3> QED
      BY <3>1, <3>2
  <2>3. CASE UNCHANGED <<worker, asked, screen, posted, answers, clicked>>
    BY <2>1, <2>3, PendingKept
  <2> QED
    BY <1>17, <2>2, <2>3, Restarts
<1>18. CASE ClickTryAgain
  BY <1>18, NothingPending, PendingKept DEF ClickTryAgain, Click, Shows, Screens, Kinds
<1>19. CASE ClickClose
  BY <1>19, PendingKept DEF ClickClose, Click, Shows, Screens, Kinds
<1>20. CASE DialogCloses
  <2> SUFFICES ASSUME ~twice' PROVE AnswerInv'
    BY DEF AnswerInv
  <2>1. Attended /\ UNCHANGED <<worker, asked, accepted>>
    BY <1>20 DEF DialogCloses
  <2>2. screen' \in On /\ Pending' = {} /\ Draws
    BY <1>20, DrawsShows DEF DialogCloses
  <2>3. CASE screen'.kind = "prompt"
    <3>1. CloseRejects
      BY <1>20, <2>3 DEF DialogCloses
    <3>2. ~twice /\ screen'.key \notin clicked /\ clicked' = clicked \cup {screen'.key}
      BY <2>3, <3>1 DEF CloseRejects
    <3>3. worker = "prompt" /\ asked = screen'.key
      BY <2>1, <2>2, <2>3, <3>2
    <3>4. answers = <<>>
      BY <2>1, <3>2, <3>3
    <3>5. answers' = <<[says |-> "reject", about |-> screen'.key]>>
      BY <2>3, <3>1, <3>4 DEF CloseRejects
    <3> QED
      BY <2>1, <2>2, <3>2, <3>3, <3>5
  <2>4. CASE screen'.kind # "prompt"
    <3>1. UNCHANGED <<answers, clicked, twice>>
      BY <1>20, <2>4 DEF DialogCloses, CloseRejects
    <3> QED
      BY <2>1, <2>2, <2>4, <3>1
  <2> QED
    BY <2>3, <2>4
<1>21. CASE KioskCloses
  BY <1>21, PendingKept DEF KioskCloses
<1>22. CASE DialogGone
  BY <1>22, PendingKept DEF DialogGone
<1>23. CASE DialogCancels
  BY <1>23, PendingKept DEF DialogCancels
<1>24. CASE DialogReturns
  BY <1>24, PendingKept DEF DialogReturns
<1>25. CASE KioskExits
  BY <1>25, PendingKept DEF KioskExits
<1>26. CASE UNCHANGED uivars
  BY <1>26, PendingKept DEF uivars
<1> QED
  BY <1>1, <1>2, <1>3, <1>4, <1>5, <1>6, <1>7, <1>8, <1>9, <1>10, <1>11, <1>12, <1>13,
     <1>14, <1>15, <1>16, <1>17, <1>18, <1>19, <1>20, <1>21, <1>22, <1>23, <1>24,
     <1>25, <1>26 DEF Next, WorkerStep, Window, Closing

LEMMA DialogKept == UInv /\ [Next]_uivars => DialogInv'
<1> SUFFICES ASSUME UInv, [Next]_uivars PROVE DialogInv'
  OBVIOUS
<1> USE DEF UInv, UTypeOK, AnswerInv, DialogInv, On, Attended
<1> USE DEF uiState, thread, history, NotUi
<1>1. CASE Begin
  BY <1>1, PostAdds, PendingKept DEF Begin, Goto, Shows, Screens, Kinds
<1>2. CASE TestsWhileCollecting
  BY <1>2, PendingKept DEF TestsWhileCollecting, Tested, Goto
<1>3. CASE TestsWhileAccepting
  BY <1>3, PendingKept DEF TestsWhileAccepting, Tested, Goto
<1>4. CASE Tick
  BY <1>4, PendingKept DEF Tick, Goto
<1>5. CASE WorkerFails
  BY <1>5, PostAdds, PendingKept DEF WorkerFails, Fails, Goto, Shows, Screens, Kinds
<1>6. CASE CollectsBatch
  BY <1>6, PendingKept DEF CollectsBatch, Goto
<1>7. CASE Asks
  <2> SUFFICES ASSUME front' = "dialog", ~cancel', Attended' PROVE DialogInv'
    BY DEF DialogInv
  <2>1. front = "dialog" /\ ~cancel /\ Attended /\ worker = "ask"
        /\ UNCHANGED <<screen, clicked, declined>>
    BY <1>7 DEF Asks
  <2>2. ~twice
    BY <2>1 DEF TrustInv
  <2>3. \A p \in On : p.kind # "prompt"
    BY <2>1, <2>2
  <2>4. CASE batch = {}
    BY <1>7, <2>1, <2>3, <2>4, PendingKept DEF Asks, Goto
  <2>5. CASE batch # {}
    <3>1. PICK k \in batch : /\ asked' = k /\ batch' = batch \ {k}
                            /\ Post(Shows("prompt", k)) /\ worker' = "prompt"
      BY <1>7, <2>5 DEF Asks, Goto
    <3>2. Shows("prompt", k) \in Screens /\ Shows("prompt", k).key = k
      BY DEF Shows, Screens, Kinds
    <3>3. Pending' \subseteq Pending \cup {Shows("prompt", k)}
      BY <3>1, <3>2, PostAdds
    <3>4. k \notin clicked
      BY <2>1
    <3> QED
      BY <2>1, <2>3, <3>1, <3>2, <3>3, <3>4
  <2> QED
    BY <2>4, <2>5
<1>8. CASE TakesAccept
  BY <1>8, PostAdds, PendingKept DEF TakesAccept, Takes, Goto, Shows, Screens, Kinds
<1>9. CASE TakesReject
  BY <1>9, PostAdds, PendingKept DEF TakesReject, Takes, Goto, Shows, Screens, Kinds
<1>10. CASE SavesTrust
  BY <1>10, PostAdds, PendingKept DEF SavesTrust, Fails, Goto, Shows, Screens, Kinds
<1>11. CASE Paired
  BY <1>11, PostAdds, PendingKept DEF Paired, Goto, Shows, Screens, Kinds
<1>12. CASE Leaves
  BY <1>12, PendingKept DEF Leaves, Goto
<1>13. CASE Paint
  BY <1>13, DrawsShows, PendingKept DEF Paint
<1>14. CASE ClickAccept
  BY <1>14, DialogClicked DEF ClickAccept, Shows
<1>15. CASE ClickReject
  BY <1>15, DialogClicked DEF ClickReject, Shows
<1>16. CASE ClickStart
  BY <1>16, PendingKept DEF ClickStart, Click, Shows, Screens, Kinds
<1>17. CASE ClickStartWorker
  BY <1>17, Restarts, PendingKept DEF ClickStartWorker, Click, Shows, Screens, Kinds
<1>18. CASE ClickTryAgain
  BY <1>18, NothingPending, PendingKept DEF ClickTryAgain, Click, Shows, Screens, Kinds
<1>19. CASE ClickClose
  BY <1>19, PendingKept DEF ClickClose, Click, Shows, Screens, Kinds
<1>20. CASE DialogCloses
  BY <1>20, DrawsShows, PendingKept DEF DialogCloses, CloseRejects, On
<1>21. CASE KioskCloses
  BY <1>21, PendingKept DEF KioskCloses
<1>22. CASE DialogGone
  BY <1>22, PendingKept DEF DialogGone
<1>23. CASE DialogCancels
  BY <1>23, PendingKept DEF DialogCancels
<1>24. CASE DialogReturns
  BY <1>24, PendingKept DEF DialogReturns
<1>25. CASE KioskExits
  BY <1>25, PendingKept DEF KioskExits
<1>26. CASE UNCHANGED uivars
  BY <1>26, PendingKept DEF uivars
<1> QED
  BY <1>1, <1>2, <1>3, <1>4, <1>5, <1>6, <1>7, <1>8, <1>9, <1>10, <1>11, <1>12, <1>13,
     <1>14, <1>15, <1>16, <1>17, <1>18, <1>19, <1>20, <1>21, <1>22, <1>23, <1>24,
     <1>25, <1>26 DEF Next, WorkerStep, Window, Closing

LEMMA TrustKept == UInv /\ [Next]_uivars => TrustInv'
<1> SUFFICES ASSUME UInv, [Next]_uivars PROVE TrustInv'
  OBVIOUS
<1> USE DEF UInv, UTypeOK, OutcomeInv, AnswerInv, DialogInv, TrustInv,
     OnlyAcceptedIsTrusted, On, Attended
<1> USE DEF uiState, thread, history, NotUi
<1>1. CASE Begin
  BY <1>1, PostAdds, PendingKept DEF Begin, Goto, Shows, Screens, Kinds
<1>2. CASE TestsWhileCollecting
  BY <1>2, PendingKept DEF TestsWhileCollecting, Tested, Goto
<1>3. CASE TestsWhileAccepting
  BY <1>3, PendingKept DEF TestsWhileAccepting, Tested, Goto
<1>4. CASE Tick
  BY <1>4, PendingKept DEF Tick, Goto
<1>5. CASE WorkerFails
  BY <1>5, PostAdds, PendingKept DEF WorkerFails, Fails, Goto, Shows, Screens, Kinds
<1>6. CASE CollectsBatch
  BY <1>6, PendingKept DEF CollectsBatch, Goto
<1>7. CASE Asks
  BY <1>7, PostAdds, PendingKept DEF Asks, Goto, Shows, Screens, Kinds
<1>8. CASE TakesAccept
  BY <1>8, PostAdds, PendingKept DEF TakesAccept, Takes, Goto, Shows, Screens, Kinds
<1>9. CASE TakesReject
  BY <1>9, PostAdds, PendingKept DEF TakesReject, Takes, Goto, Shows, Screens, Kinds
<1>10. CASE SavesTrust
  BY <1>10, PostAdds, PendingKept DEF SavesTrust, Fails, Goto, Shows, Screens, Kinds
<1>11. CASE Paired
  BY <1>11, PostAdds, PendingKept DEF Paired, Goto, Shows, Screens, Kinds
<1>12. CASE Leaves
  BY <1>12, PendingKept DEF Leaves, Goto
<1>13. CASE Paint
  BY <1>13, DrawsShows, PendingKept DEF Paint
<1>14. CASE ClickAccept
  BY <1>14, PendingKept DEF ClickAccept, ClickAnswer, Click, Shows, Screens, Kinds,
     Answer
<1>15. CASE ClickReject
  BY <1>15, PendingKept DEF ClickReject, ClickAnswer, Click, Shows, Screens, Kinds,
     Answer
<1>16. CASE ClickStart
  BY <1>16, PendingKept DEF ClickStart, Click, Shows, Screens, Kinds
<1>17. CASE ClickStartWorker
  BY <1>17, Restarts, PendingKept DEF ClickStartWorker, Click, Shows, Screens, Kinds
<1>18. CASE ClickTryAgain
  BY <1>18, NothingPending, PendingKept DEF ClickTryAgain, Click, Shows, Screens, Kinds
<1>19. CASE ClickClose
  BY <1>19, PendingKept DEF ClickClose, Click, Shows, Screens, Kinds
<1>20. CASE DialogCloses
  BY <1>20, DrawsShows, PendingKept DEF DialogCloses, CloseRejects, On
<1>21. CASE KioskCloses
  BY <1>21, PendingKept DEF KioskCloses
<1>22. CASE DialogGone
  BY <1>22, PendingKept DEF DialogGone
<1>23. CASE DialogCancels
  BY <1>23, PendingKept DEF DialogCancels
<1>24. CASE DialogReturns
  BY <1>24, PendingKept DEF DialogReturns
<1>25. CASE KioskExits
  BY <1>25, PendingKept DEF KioskExits
<1>26. CASE UNCHANGED uivars
  BY <1>26, PendingKept DEF uivars
<1> QED
  BY <1>1, <1>2, <1>3, <1>4, <1>5, <1>6, <1>7, <1>8, <1>9, <1>10, <1>11, <1>12, <1>13,
     <1>14, <1>15, <1>16, <1>17, <1>18, <1>19, <1>20, <1>21, <1>22, <1>23, <1>24,
     <1>25, <1>26 DEF Next, WorkerStep, Window, Closing

-----------------------------------------------------------------------------
LEMMA UiInit == Init => UInv
<1> SUFFICES ASSUME Init PROVE UInv
  OBVIOUS
<1>1. screen \in Screens /\ screen.kind \notin {"prompt", "done"} /\ Pending = {}
  BY DEF Init, Shows, Screens, Kinds, Pending
<1>2. posted \in Seq(Screens) /\ front \in {"kiosk", "dialog"}
  BY PairUiConstants DEF Init
<1> QED
  BY <1>1, <1>2 DEF Init, UInv, UTypeOK, DoneInv, OutcomeInv, AnswerInv, DialogInv, TrustInv,
                    OnlyAcceptedIsTrusted, On

LEMMA UiNext == UInv /\ [Next]_uivars => UInv'
  BY TypeKept, DoneKept, OutcomeKept, AnswerKept, DialogKept, TrustKept DEF UInv

\* Whoever is trusted has been accepted at its own prompt, for any number of
\* peers, whatever is clicked and however the window is closed; a double click
\* on one prompt of the kiosk is the exception.
THEOREM UiOnlyAcceptedIsTrusted == Spec => []OnlyAcceptedIsTrusted
<1>1. UInv => OnlyAcceptedIsTrusted
  BY DEF UInv, TrustInv
<1> QED
  BY <1>1, UiInit, UiNext, PTL DEF Spec

\* A success that is shown has been saved, and the dialog returns Paired exactly
\* if its worker has saved a peer.
THEOREM UiSuccessIsSaved == Spec => []SuccessIsSaved
<1>1. UInv => SuccessIsSaved
  BY DEF UInv, DoneInv, OutcomeInv, On, SuccessIsSaved
<1> QED
  BY <1>1, UiInit, UiNext, PTL DEF Spec

\* The first click on a prompt is about the prompt the worker waits at, finds the
\* channel empty and goes in: the kiosk's try_send drops nobody's first answer.
AnswersArrive ==
    [][(ClickAccept \/ ClickReject) /\ ~twice'
       => /\ worker = "prompt" /\ asked = screen.key
          /\ answers = <<>> /\ answers' # <<>>]_uivars

\* However the clicks fall between the worker's steps, on either front: as long as
\* no prompt has got two clicks, every answer reaches the worker that waits for it.
THEOREM UiAnswersArrive == Spec => AnswersArrive
<1>1. UInv /\ [Next]_uivars
        => [(ClickAccept \/ ClickReject) /\ ~twice'
            => /\ worker = "prompt" /\ asked = screen.key
               /\ answers = <<>> /\ answers' # <<>>]_uivars
  <2> SUFFICES ASSUME UInv, ClickAccept \/ ClickReject, ~twice'
               PROVE  /\ worker = "prompt" /\ asked = screen.key
                      /\ answers = <<>> /\ answers' # <<>>
    OBVIOUS
  <2>1. ~twice /\ screen.key \notin clicked /\ screen.kind = "prompt" /\ Attended
    BY DEF ClickAccept, ClickReject, ClickAnswer, Click, Attended
  <2>2. worker = "prompt" /\ asked = screen.key
    BY <2>1 DEF UInv, AnswerInv, On
  <2>3. answers = <<>>
    BY <2>1, <2>2 DEF UInv, AnswerInv
  <2>4. \E a : answers' = Append(answers, a)
    BY <2>3 DEF ClickAccept, ClickReject, ClickAnswer, Answer
  <2> QED
    BY <2>2, <2>3, <2>4
<1> QED
  BY <1>1, UiInit, UiNext, PTL DEF Spec, AnswersArrive
=============================================================================
