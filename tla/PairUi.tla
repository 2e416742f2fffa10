------------------------------- MODULE PairUi -------------------------------
(***************************************************************************)
(* The pairing screens: run_pair_with on its worker thread, and the window *)
(* that shows where it is and sends it the user's answers.  `front` is the *)
(* program: the Deck's kiosk (pair_worker, KioskApp::draw_pair) or the     *)
(* tray's pairing dialog on Windows (pair_dialog).                         *)
(*                                                                         *)
(*   worker: none -> waiting -> top -> collect -> ask -> prompt -> check   *)
(*                               ^        |       |  ^      |        |     *)
(*                               +--------+-------+  +------+     accept   *)
(*                                                                   |     *)
(*                                      ended <- leaving <- tail <---+     *)
(*                                                                         *)
(* The kiosk keeps the worker's latest phase behind a mutex and one answer *)
(* in a channel, and has no way to cancel.  The dialog queues both events  *)
(* and answers, cancels through a flag, and joins the worker.  What pairs  *)
(* are found, and when the 120 s are over, is left open.                   *)
(***************************************************************************)
EXTENDS Naturals, Sequences

CONSTANTS
    Key,              \* the peers that may turn up
    NoPeer,
    Fronts            \* the programs looked at

ASSUME PairUiConstants ==
    /\ NoPeer \notin Key
    /\ Fronts \subseteq {"kiosk", "dialog"}

VARIABLES
    front,
    window,           \* "open", "asked" or "going" to close, "closing", "closed"
    screen,           \* what it shows, and about which peer
    painted,          \* this frame's click is still to come
    start,            \* the user has asked for pairing to start
    cancel,           \* the dialog's cancel flag
    posted,           \* what the worker has told the window
    answers,          \* the decision channel
    worker,
    batch,            \* the rest of the candidates to be offered
    asked,            \* the one the worker has asked about last
    declined,
    outcome,          \* PairOutcome, "none" before there is one
    saved,            \* the peer trust::save has written and returned Ok for
    accepted,         \* history: the peers on whose prompt Accept was clicked
    clicked,          \* history: the prompts of this session that got a click
    twice             \* history: some prompt got two

uiState  == <<window, screen, painted, start>>
history  == <<accepted, clicked, twice>>
thread   == <<worker, batch, asked, declined, outcome, saved>>
uivars   == <<front, uiState, cancel, posted, answers, thread, history>>

Shows(kind, k) == [kind |-> kind, key |-> k]

Init ==
    /\ front \in Fronts
    /\ window = "open"
    /\ start \in IF front = "kiosk" THEN {FALSE} ELSE BOOLEAN
    /\ screen = Shows(IF start THEN "searching" ELSE "start", NoPeer)
    /\ painted = FALSE
    /\ cancel = FALSE
    /\ posted = <<>>
    /\ answers = <<>>
    /\ worker = IF front = "kiosk" THEN "none" ELSE "waiting"
    /\ batch = {}
    /\ asked = NoPeer
    /\ declined = {}
    /\ outcome = "none"
    /\ saved = NoPeer
    /\ accepted = {}
    /\ clicked = {}
    /\ twice = FALSE

-----------------------------------------------------------------------------
(* The channels. *)

KeepsFirst(s) == posted' = IF posted = <<>> THEN <<s>> ELSE posted

\* set_phase overwrites; event_tx.send queues.
Post(s) == posted' = IF front = "kiosk" THEN <<s>> ELSE Append(posted, s)

\* Phases only the kiosk's PairUI publishes.
PostPhase(s) == IF front = "kiosk" THEN Post(s) ELSE UNCHANGED posted

\* try_send on sync_channel(1), and send.
Answer(says) ==
    answers' = IF front = "kiosk" /\ answers # <<>> THEN answers
               ELSE Append(answers, [says |-> says, about |-> screen.key])

NeverHungUp == FALSE

\* The window's end of the decision channel is gone.
HungUp == front = "dialog" /\ window \in {"closing", "closed"}

-----------------------------------------------------------------------------
(* The worker. *)

Goto(place) == worker' = place

NotUi == UNCHANGED <<front, uiState, cancel, history>>

\* on_failed.
Fails(result) ==
    /\ Post(Shows("failed", NoPeer))
    /\ outcome' = result
    /\ Goto("leaving")

Begin ==
    /\ worker = "waiting"
    /\ \/ start /\ Goto("top") /\ PostPhase(Shows("searching", NoPeer))
       \/ ~start /\ cancel /\ Goto("ended") /\ UNCHANGED posted
    /\ NotUi
    /\ UNCHANGED <<answers, batch, asked, declined, outcome, saved>>

\* The test before every receive, while collecting and while exchanging ACCEPTs.
Tested(place, next) ==
    /\ worker = place
    /\ IF cancel THEN outcome' = "cancelled" /\ Goto("leaving")
       ELSE Goto(next) /\ UNCHANGED outcome
    /\ NotUi
    /\ UNCHANGED <<posted, answers, batch, asked, declined, saved>>

TestsWhileCollecting == Tested("top", "collect")

AcceptsUntested ==
    /\ worker = "check"
    /\ Goto("accept")
    /\ NotUi
    /\ UNCHANGED <<posted, answers, batch, asked, declined, outcome, saved>>

TestsWhileAccepting == Tested("check", "accept")

\* A receive that changes nothing.
Tick ==
    /\ \/ worker = "collect" /\ Goto("top")
       \/ worker = "accept" /\ Goto("check")
    /\ NotUi
    /\ UNCHANGED <<posted, answers, batch, asked, declined, outcome, saved>>

\* The deadline, or an error of the socket.
WorkerFails ==
    /\ worker \in {"collect", "accept"}
    /\ Fails("failed")
    /\ NotUi
    /\ UNCHANGED <<answers, batch, asked, declined, saved>>

CollectsBatch ==
    /\ worker = "collect"
    /\ \E B \in SUBSET (Key \ declined) : B # {} /\ batch' = B
    /\ Goto("ask")
    /\ NotUi
    /\ UNCHANGED <<posted, answers, asked, declined, outcome, saved>>

\* prompt_candidates and the part of prompt_peer before recv.
Asks ==
    /\ worker = "ask"
    /\ \/ /\ batch = {}
          /\ Goto("top")
          /\ UNCHANGED <<posted, batch, asked>>
       \/ \E k \in batch :
             /\ asked' = k
             /\ batch' = batch \ {k}
             /\ Post(Shows("prompt", k))
             /\ Goto("prompt")
    /\ NotUi
    /\ UNCHANGED <<answers, declined, outcome, saved>>

Takes(says) ==
    /\ worker = "prompt"
    /\ \/ /\ answers # <<>>
          /\ Head(answers).says = says
          /\ answers' = Tail(answers)
       \/ /\ answers = <<>>
          /\ HungUp
          /\ says = "reject"
          /\ UNCHANGED answers

TakesAccept ==
    /\ Takes("accept")
    /\ Goto("check")
    /\ PostPhase(Shows("finalizing", asked))
    /\ NotUi
    /\ UNCHANGED <<batch, asked, declined, outcome, saved>>

TakesReject ==
    /\ Takes("reject")
    /\ Goto("ask")
    /\ declined' = declined \cup {asked}
    /\ PostPhase(Shows("searching", NoPeer))
    /\ NotUi
    /\ UNCHANGED <<batch, asked, outcome, saved>>

\* The peer's ACCEPT has come.
SavesTrust ==
    /\ worker = "accept"
    /\ \/ saved' = asked /\ Goto("tail") /\ UNCHANGED <<posted, outcome>>
       \/ Fails("failed") /\ UNCHANGED saved
    /\ NotUi
    /\ UNCHANGED <<answers, batch, asked, declined>>

\* on_paired, after the tail burst.
Paired ==
    /\ worker = "tail"
    /\ Post(Shows("done", asked))
    /\ outcome' = "paired"
    /\ Goto("leaving")
    /\ NotUi
    /\ UNCHANGED <<answers, batch, asked, declined, saved>>

\* The sender thread is joined, the outcome stored, the socket closed.
Leaves ==
    /\ worker = "leaving"
    /\ Goto("ended")
    /\ NotUi
    /\ UNCHANGED <<posted, answers, batch, asked, declined, outcome, saved>>

WorkerStep ==
    \/ Begin \/ TestsWhileCollecting \/ TestsWhileAccepting \/ Tick \/ WorkerFails
    \/ CollectsBatch \/ Asks \/ TakesAccept \/ TakesReject \/ SavesTrust
    \/ Paired \/ Leaves

-----------------------------------------------------------------------------
(* The window: a frame is painted from what the worker has posted, and ends *)
(* with one click at most.                                                 *)

LastPosted == posted[Len(posted)]

\* drain_events; the phase the kiosk copies out of the mutex.
Draws ==
    /\ screen' = IF posted = <<>> THEN screen ELSE LastPosted
    /\ posted' = IF front = "dialog" THEN <<>> ELSE posted
    /\ painted' = TRUE

Paint ==
    /\ window = "open"
    /\ Draws
    /\ UNCHANGED <<front, window, start, cancel, answers, thread, history>>

Click(kind) ==
    /\ painted
    /\ window \in {"open", "going"}
    /\ screen.kind = kind
    /\ painted' = FALSE

\* Which of the two buttons of a prompt; the dialog changes its own state too.
ClickAnswer(says, next) ==
    /\ Click("prompt")
    /\ Answer(says)
    /\ screen' = IF front = "dialog" THEN next ELSE screen
    /\ accepted' = IF says = "accept" THEN accepted \cup {screen.key} ELSE accepted
    /\ clicked' = clicked \cup {screen.key}
    /\ twice' = (twice \/ screen.key \in clicked)
    /\ UNCHANGED <<front, window, start, cancel, posted, thread>>

ClickAccept == ClickAnswer("accept", Shows("finalizing", screen.key))

ClickReject == ClickAnswer("reject", Shows("searching", NoPeer))

\* The dialog's "Start pairing".
ClickStart ==
    /\ front = "dialog"
    /\ Click("start")
    /\ start' = TRUE
    /\ screen' = Shows("searching", NoPeer)
    /\ UNCHANGED <<front, window, cancel, posted, answers, thread, history>>

\* PairWorker::start; it fails while an earlier worker holds the port.
ClickStartWorker ==
    /\ front = "kiosk"
    /\ Click("start")
    /\ IF worker \in {"none", "ended"}
       THEN /\ start' = TRUE
            /\ screen' = Shows("starting", NoPeer)
            /\ posted' = <<screen'>>
            /\ answers' = <<>>
            /\ worker' = "waiting"
            /\ batch' = {}
            /\ asked' = NoPeer
            /\ declined' = {}
            /\ outcome' = "none"
            /\ clicked' = {}
       ELSE UNCHANGED <<start, screen, posted, answers, worker, batch, asked, declined,
                        outcome, clicked>>
    /\ UNCHANGED <<front, window, cancel, saved, accepted, twice>>

\* "Try again": the worker is dropped, and what it posted with it.
ClickTryAgain ==
    /\ front = "kiosk"
    /\ Click("failed")
    /\ screen' = Shows("start", NoPeer)
    /\ posted' = <<>>
    /\ start' = FALSE
    /\ UNCHANGED <<front, window, cancel, answers, thread, history>>

\* The dialog's Cancel and OK, the kiosk's Close.
ClickClose ==
    /\ \/ front = "dialog" /\ \E kind \in {"start", "searching"} : Click(kind) /\ cancel' = TRUE
       \/ front = "dialog" /\ \E kind \in {"done", "failed"} : Click(kind) /\ UNCHANGED cancel
       \/ front = "kiosk" /\ Click("done") /\ UNCHANGED cancel
    /\ window' = IF window = "open" THEN "asked" ELSE window
    /\ UNCHANGED <<front, screen, start, posted, answers, thread, history>>

\* A prompt is answered by closing the window.
CloseRejects ==
    IF screen'.kind = "prompt"
    THEN /\ answers' = Append(answers, [says |-> "reject", about |-> screen'.key])
         /\ clicked' = clicked \cup {screen'.key}
         /\ twice' = (twice \/ screen'.key \in clicked)
    ELSE UNCHANGED <<answers, clicked, twice>>

\* The frame in which the dialog learns that its window is to close; its
\* buttons are still drawn and may be hit.
DialogCloses ==
    /\ front = "dialog"
    /\ window \in {"open", "asked"}
    /\ Draws
    /\ IF screen'.kind \in {"done", "failed"}
       THEN UNCHANGED <<cancel, answers, clicked, twice>>
       ELSE cancel' = TRUE /\ CloseRejects
    /\ window' = "going"
    /\ UNCHANGED <<front, start, thread, accepted>>

\* run_native returns: the app and its ends of the channels are dropped.
DialogGone ==
    /\ front = "dialog"
    /\ window = "going"
    /\ window' = "closing"
    /\ UNCHANGED <<front, screen, painted, start, cancel, posted, answers, thread, history>>

DialogCancels ==
    /\ front = "dialog"
    /\ window = "closing"
    /\ ~cancel
    /\ cancel' = TRUE
    /\ UNCHANGED <<front, uiState, posted, answers, thread, history>>

DoesNotWait == window = "closing"

\* worker.join(): it has stored its outcome and released the socket.
Joined == cancel /\ worker = "ended"

DialogReturns ==
    /\ front = "dialog"
    /\ window = "closing"
    /\ Joined
    /\ window' = "closed"
    /\ UNCHANGED <<front, screen, painted, start, cancel, posted, answers, thread, history>>

\* The kiosk's window closes; dropping the worker answers a prompt, if any.
KioskCloses ==
    /\ front = "kiosk"
    /\ window \in {"open", "asked"}
    /\ window' = "closing"
    /\ answers' = IF worker = "none" \/ answers # <<>> THEN answers
                  ELSE <<[says |-> "reject", about |-> NoPeer]>>
    /\ UNCHANGED <<front, screen, painted, start, cancel, posted, thread, history>>

\* 200 ms later at most the process ends, and a worker that still runs with it.
KioskExits ==
    /\ front = "kiosk"
    /\ window = "closing"
    /\ window' = "closed"
    /\ worker' = "ended"
    /\ UNCHANGED <<front, screen, painted, start, cancel, posted, answers, batch, asked,
                   declined, outcome, saved, history>>

Closing == DialogGone \/ DialogCancels \/ DialogReturns \/ KioskExits

AskedToClose == window = "asked" /\ (DialogCloses \/ KioskCloses)

Window ==
    \/ Paint \/ ClickAccept \/ ClickReject \/ ClickStart \/ ClickStartWorker
    \/ ClickTryAgain \/ ClickClose \/ DialogCloses \/ KioskCloses \/ Closing

Next == WorkerStep \/ Window

Spec == Init /\ [][Next]_uivars

\* Both threads run.  Nothing is assumed of the user, and of the network only
\* that a wait for a packet ends, after a tick at the latest.
FairSpec ==
    /\ Spec
    /\ WF_uivars(WorkerStep)
    /\ WF_uivars(Paint)
    /\ WF_uivars(Closing)
    /\ WF_uivars(AskedToClose)

-----------------------------------------------------------------------------
\* Only a peer whose own prompt got an Accept is ever trusted: an answer does
\* not slip on to the next candidate, whichever way the window is closed while
\* it is on its way.  The kiosk's channel can carry a second click on one
\* prompt over to the next one; then, and only there, it may.
OnlyAcceptedIsTrusted ==
    saved # NoPeer => saved \in accepted \/ (front = "kiosk" /\ twice)

\* What is reported is what is on disk: a success on the screen has been saved,
\* and pair_dialog::run returns Paired exactly if a peer was saved, even when
\* the window was closed during the exchange.
SuccessIsSaved ==
    /\ screen.kind = "done" => saved = screen.key
    /\ front = "dialog" /\ window = "closed" => (outcome = "paired" <=> saved # NoPeer)

\* While the worker waits for an answer the window does not keep showing
\* something else, which has no buttons for it.
PromptIsShown ==
    \A k \in Key :
        worker = "prompt" /\ asked = k /\ window = "open"
        ~> (screen = Shows("prompt", k) \/ worker # "prompt" \/ asked # k \/ window # "open")

\* Once the window is on its way out, whatever the worker is doing, the call
\* returns, with the worker gone and port 49152 free.
CloseReturns ==
    window \in {"asked", "going", "closing"} ~> (window = "closed" /\ worker = "ended")
=============================================================================
